SPECIFICATION Spec
CONSTANTS
  u1 = u1
  u2 = u2
  s1 = s1
  s2 = s2
  s3 = s3
  Users = {u1}
  Followed = {u1}
  NoUser = NoUser
  Admin = admin
  Sockets = {s1, s2}
  SocketUser <- TwoOfOne
  Requests = {}
  MaxWrites = 2
  MaxCrashes = 0
PROPERTY OfflineOnlyWhenGone
