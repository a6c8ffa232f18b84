SPECIFICATION FairSpec
CONSTANTS
  Requests = {r1, r2, r3}
  Conns = {c1, c2, c3, c4}
  MaxOrders = 2
  Faults = {"sql", "close"}
INVARIANTS
  TypeOK
  Exclusive
  NeverStuck
PROPERTIES
  Answered
