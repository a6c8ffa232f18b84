\* Two requests in the filter at once.
\* Deadlock is not checked: every session may be over.
CONSTANTS
  Null = Null
  Sessions = {s1, s2}
  Requests = {r1, r2}
  Accounts = {root, a}
  Passwords = {good, weak}
  Strong = {good}
  AdminAccount = root
  AdminPassword = good
  MaxKey = 3
  Visited = {"view", "insert"}
  Waits = FALSE
SPECIFICATION Spec
PROPERTY JudgedByOwnPath
SYMMETRY Symmetry
VIEW View
CHECK_DEADLOCK FALSE
