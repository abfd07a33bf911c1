SPECIFICATION Spec
CONSTANTS
  Users = {u1, admin}
  NoUser = NoUser
  Admin = admin
  Requests = {r1, r2}
  MaxTokens = 3
SYMMETRY RequestSymmetry
INVARIANTS
  TypeOK
  OneHeadUnlessOverlapped
  RetiredBeforeHandout
  RotationChain
PROPERTY SessionPromise
