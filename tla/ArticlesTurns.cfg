\* A browser with two windows, whose requests take turns.
CONSTANTS
  Null = Null
  Browsers = {b1}
  Tabs = {t1, t2}
  Members = {m1, m2}
  MaxNo = 2
  Turns = TRUE
SPECIFICATION Spec
INVARIANT TypeOK
INVARIANT OwnText
PROPERTY AuthorsOwn
PROPERTY StaysDeleted
SYMMETRY Symmetry
