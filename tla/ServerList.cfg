SPECIFICATION FairSpec
CONSTANTS
  Users = {u1}
  NoUser = NoUser
  Admin = admin
  Addresses = {a1, a2, a3}
  Requests = {r1, r2}
INVARIANTS
  TypeOK
  LastUnlessOverlapped
  NoGaps
PROPERTY AdditionSynced
