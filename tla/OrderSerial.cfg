SPECIFICATION Spec
CONSTANTS
  Null = Null
  Sessions = {s1, s2}
  Slots = {a, b}
  Requests = {r1, r2}
  Ossans = {o1, o2}
  BuyQtys = {1, 2}
  NewQtys = {2}
  MaxInt = 7
  MaxQty = 2
  Kinds = {"buy", "order"}
  Serial = TRUE
  Faults = {"connect", "sql", "rollback"}
  MaxOrders = 1
INVARIANTS
  TypeOK
  OwnCart
  ClearsWhatWasOrdered
  TotalMatchesItems
PROPERTIES
  FailedMeansRolledBack
CHECK_DEADLOCK FALSE
SYMMETRY Symmetry
VIEW View
