SPECIFICATION FairSpec
CONSTANTS
  Emails = {e1}
  NoEmail = NoEmail
  Requests = {r1, r2}
  Threshold = 3
  Window = 2
  MaxPasswords = 2
INVARIANTS
  TypeOK
  LockMatchesCount
  GuessBudget
  OldPasswordOut
PROPERTIES
  LockHolds
  LockEnds
