SPECIFICATION Spec
CONSTANTS
  Users = {u1}
  NoUser = NoUser
  Admin = admin
  Requests = {r1, r2}
  CodeIds = {c1, c2}
  NoId = NoId
  MaxSecrets = 2
  MaxBatches = 2
  MaxTokens = 1
SYMMETRY MfaSymmetry
INVARIANTS
  TypeOK
  SessionsSpend
  UsedCodesGone
  ConfirmedUnlessRaced
PROPERTIES
  TokenPromise
  CodePromise
  OffOnlyByCode
