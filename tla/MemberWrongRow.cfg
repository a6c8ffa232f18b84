\* Two members save their forms at the same time.
CONSTANTS
  Keys = {k1, k2}
  Sessions = {ossan1, ossan2}
  Requests = {r1, r2}
  Admins = {}
  Members = {ossan1, ossan2}
  Null = Null
  Turns = FALSE
  Serial = TRUE
SPECIFICATION Spec
INVARIANT AnnouncedChangeIsTheirs
CHECK_DEADLOCK FALSE
