\* Two browsers at the same time, of a member and of somebody who is now the
\* administrator and now a member; each browser waits for its answers.
\* Deadlock is not checked: everybody may be gone.
CONSTANTS
  Keys = {k1, k2}
  Sessions = {ossan, both}
  Requests = {r1, r2}
  Admins = {both}
  Members = {ossan, both}
  Null = Null
  Turns = TRUE
  Serial = TRUE
SPECIFICATION Spec
INVARIANT TypeOK
INVARIANT RowsDescribeTheirMembers
INVARIANT ConfirmsOneMember
INVARIANT MembersSeeThemselves
INVARIANT AnnouncedChangeIsTheirs
SYMMETRY Symmetry
CHECK_DEADLOCK FALSE
