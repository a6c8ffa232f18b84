SPECIFICATION Spec
CONSTANTS
  Null = Null
  Sessions = {s1}
  Slots = {a, b}
  Requests = {r1, r2}
  Ossans = {o1, o2}
  BuyQtys = {1}
  NewQtys = {2}
  MaxInt = 7
  MaxQty = 1
  Kinds = {"buy", "order"}
  Serial = FALSE
  Faults = {"connect", "sql", "commit", "rollback", "close"}
  MaxOrders = 1
INVARIANTS
  AllOrNothing
  ClearedOnlyWhenStored
PROPERTIES
  AtomicOrderSpec
CHECK_DEADLOCK FALSE
SYMMETRY Symmetry
VIEW View
