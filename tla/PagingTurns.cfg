\* Two visitors, new rows and one deletion, while they go from page to page.
\* Deadlock is not checked: the bounds may leave nothing to do.
CONSTANTS
  Null = Null
  Visitors = {v1, v2}
  Requests = {r1, r2}
  Lists = {"ossans", "north", "maintain", "articles"}
  Opened = {{"ossans", "articles"}, {"north", "maintain"}}
  PerPage = 2
  Start = 2
  MaxNo = 3
  MaxGone = 1
  MaxPage = 2
  South = {2}
  KeyOrder = TRUE
  Turns = TRUE
SPECIFICATION Spec
INVARIANT TypeOK
INVARIANT OwnQuote
INVARIANT WalkSeesAll
INVARIANT LinksStayInside
SYMMETRY Symmetry
VIEW View
CHECK_DEADLOCK FALSE
