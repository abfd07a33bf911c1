SPECIFICATION Spec
CONSTANTS
  Users = {u1}
  NoUser = NoUser
  Admin = admin
  Addresses = {a1}
  Requests = {r1}
INVARIANT OwnEntriesEditable
