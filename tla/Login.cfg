\* Every page but those that only show something.  All requests overlap, but
\* for the logins of the session.
\* Deadlock is not checked: every session may be over.
CONSTANTS
  Null = Null
  Sessions = {s1}
  Requests = {r1, r2}
  Accounts = {root, a}
  Passwords = {good, weak}
  Strong = {good}
  AdminAccount = root
  AdminPassword = good
  MaxKey = 3
  Visited = {"register", "login", "logout", "personal", "insert", "edit", "delete"}
  Waits = TRUE
SPECIFICATION Spec
INVARIANT TypeOK
INVARIANT DuplicatesOverlap
INVARIANT KeysAgree
PROPERTY RegistrySpec
SYMMETRY Symmetry
VIEW View
CHECK_DEADLOCK FALSE
