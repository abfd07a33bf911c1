SPECIFICATION Spec
CONSTANTS
  Users = {u1, admin}
  NoUser = NoUser
  Admin = admin
  Requests = {r1, r2}
  MaxTokens = 3
INVARIANT OneSuccessor
