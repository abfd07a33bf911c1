SPECIFICATION FairSpec
CONSTANTS
  u1 = u1
  u2 = u2
  s1 = s1
  s2 = s2
  s3 = s3
  Users = {u1, u2}
  Followed = {u1}
  NoUser = NoUser
  Admin = admin
  Sockets = {s1, s2, s3}
  SocketUser <- TwoAndOne
  Requests = {r1}
  MaxWrites = 2
  MaxCrashes = 1
INVARIANTS
  TypeOK
  TimerDiscipline
  DepartureTracked
  ShownMatches
  AdminListCurrent
PROPERTY DepartureSettled
