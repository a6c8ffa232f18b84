SPECIFICATION Spec
CONSTANTS
  Null = Null
  Sessions = {s1}
  Slots = {a, b}
  Requests = {r1, r2}
  Ossans = {o1}
  BuyQtys = {1}
  NewQtys = {2}
  MaxInt = 7
  MaxQty = 1
  Kinds = {"buy", "order"}
  Serial = FALSE
  Faults = {"commit"}
  MaxOrders = 1
PROPERTIES
  FailedMeansRolledBack
CHECK_DEADLOCK FALSE
SYMMETRY Symmetry
VIEW View
