SPECIFICATION Spec
CONSTANTS
  Null = Null
  Sessions = {s1, s2}
  Slots = {a, b}
  Requests = {r1, r2}
  Ossans = {o1}
  BuyQtys = {1}
  NewQtys = {2}
  MaxInt = 7
  MaxQty = 2
  Kinds = {"buy", "update", "stray"}
  Serial = FALSE
  Faults = {"connect", "sql", "commit", "rollback", "close"}
  MaxOrders = 0
INVARIANTS
  UpdatesOwnCart
CHECK_DEADLOCK FALSE
SYMMETRY Symmetry
VIEW View
