SPECIFICATION Spec
CONSTANTS
  Users = {u1, admin}
  NoUser = NoUser
  Addresses = {a1, a2}
  NoAddress = NoAddress
  Admin = admin
  Requests = {r1, r2}
  MaxTokens = 2
SYMMETRY AddressSymmetry
INVARIANTS
  TypeOK
  OwnMailOnly
  ChangesEarned
PROPERTY LinkPromise
