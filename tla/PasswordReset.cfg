SPECIFICATION ResetSpec
CONSTANTS
  Users = {u1}
  NoUser = NoUser
  Admin = u1
  Requests = {r1}
  MaxTokens = 2
INVARIANT ResetClosesSessions
