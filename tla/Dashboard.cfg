SPECIFICATION Spec
CONSTANTS
  Users = {u1, u2}
  NoUser = NoUser
  Admin = u1
  Joining = {u2}
  Owners = {u2}
  Requests = {r1, r2}
  Loads = {l1, l2}
  MaxValues = 1
INVARIANTS
  TypeOK
  NothingInvented
  ListCurrentUnlessExcused
  SyncedUnlessCrossed
SYMMETRY Symmetry
