SPECIFICATION Spec
CONSTANTS
  Users = {u1}
  NoUser = NoUser
  Admin = admin
  Requests = {r1, r2}
  MaxTokens = 3
  MaxKeys = 2
SYMMETRY RequestSymmetry
INVARIANTS
  TypeOK
  LogoutEndsSession
PROPERTY BackOnlyWithKey
