SPECIFICATION Spec
CONSTANTS
  Null = Null
  Sessions = {s1}
  Slots = {a, b}
  Requests = {r1}
  Ossans = {o1, o2}
  BuyQtys = {0, 1, 2}
  NewQtys = {0, 1, 2}
  MaxInt = 7
  MaxQty = 2
  Kinds = {"buy", "update", "stray", "order"}
  Serial = TRUE
  Faults = {"connect", "sql", "commit", "rollback", "refused", "close"}
  MaxOrders = 2
INVARIANTS
  ClearsWhatWasOrdered
  ClearedOnlyWhenStored
CHECK_DEADLOCK FALSE
SYMMETRY Symmetry
VIEW View
