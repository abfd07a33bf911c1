------------------------------ MODULE Dashboard ------------------------------
(***************************************************************************)
(* The admin's dashboard page (src/public/dashboard/app.js: the list of    *)
(* users, the edit form, the delete dialog) against the handlers it calls  *)
(* (listUsers, updateUser, deleteUser), the owner's own changes of the     *)
(* theme (updateSettings) and accounts that register meanwhile.  Of the    *)
(* columns the form holds, the name stands for those of users and the      *)
(* theme for those of user_settings.                                       *)
(*                                                                         *)
(* Whatever somebody types or picks gets the next number, so a value tells *)
(* who chose it, and for which account and field; 0 is what a column had   *)
(* when the account was made, or what the form for an account without      *)
(* settings has by default.                                                *)
(***************************************************************************)
EXTENDS Naturals, FiniteSets

CONSTANTS
  Users,     \* accounts (users.id)
  NoUser,    \* "nobody"
  Admin,     \* ADMIN_UUID: the one account that cannot be deleted
  Joining,   \* bound: accounts that are registered while the page is open
  Owners,    \* bound: accounts whose owner changes settings meanwhile
  Requests,  \* PUT /api/settings requests that can be in flight together
  Loads,     \* GET /api/admin/users requests that can be in flight together
  MaxValues  \* bound: values that are ever chosen

ASSUME NobodyAssumption == NoUser \notin Users
ASSUME BoundAssumption == MaxValues \in Nat /\ Owners \cup Joining \subseteq Users
ASSUME FiniteAssumption == IsFiniteSet(Loads)

VARIABLES
  \* PostgreSQL
  account,    \* accounts that exist
  joining,    \* accounts still to be registered
  row,        \* users.username and user_settings.theme
  \* the process: one updateSettings each, and the sockets' last settings_sync
  pc, who, ret, synced,
  \* the page
  allUsers,   \* the list it shows: the users on it and their rows
  load,       \* loadUsers calls: "sent", then "back" with an answer
  snap,       \* that answer
  late,       \* accounts registered since the last SELECT of listUsers, for the
              \* properties
  modal,      \* account in the open edit form
  form,       \* what the form holds while it is open
  save,       \* the PATCH behind "Saving...": how far it is
  target, payload,
  confirm,    \* pendingDeleteId while its dialog is open
  del,        \* the DELETE behind "Deleting...": how far it is
  doomed,     \* the account it names
  \* what was chosen so far, and for which account and field
  chosen, meant,
  \* history, read by the properties alone
  excused,    \* something since the last good reload explains a list that lags
  crossed     \* accounts whose theme the admin was the last to write, or whose
              \* settings writes overlapped or were stored without an answer

tables  == <<account, joining, row>>
process == <<pc, who, ret, synced>>
list    == <<allUsers, load, snap, late>>
edit    == <<modal, form, save, target, payload>>
delete  == <<confirm, del, doomed>>
made    == <<chosen, meant>>
history == <<excused, crossed>>
vars    == <<tables, process, list, edit, delete, made, history>>

Fields == {"name", "theme"}
Values == 0..MaxValues
Rows == [Fields -> Values]
Default == [f \in Fields |-> 0]
Snapshots == UNION {[S -> Rows] : S \in SUBSET Users}

InFlight == {l \in Loads : load[l] # "idle"}

\* A number nobody has chosen, now chosen for field f of u.
Choose(u, f) ==
  /\ chosen < MaxValues
  /\ chosen' = chosen + 1
  /\ meant' = [meant EXCEPT ![chosen + 1] = <<u, f>>]

-----------------------------------------------------------------------------

\* The page is open and has its list.
Init ==
  /\ account = Users \ Joining
  /\ joining = Joining
  /\ row = [u \in Users |-> Default]
  /\ pc = [r \in Requests |-> "idle"]
  /\ who = [r \in Requests |-> NoUser]
  /\ ret = [r \in Requests |-> 0]
  /\ synced = [u \in Users |-> 0]
  /\ allUsers = [u \in account |-> Default]
  /\ load = [l \in Loads |-> "idle"]
  /\ snap = [l \in Loads |-> <<>>]
  /\ late = {}
  /\ modal = NoUser /\ form = Default
  /\ save = "none" /\ target = NoUser /\ payload = Default
  /\ confirm = NoUser /\ del = "none" /\ doomed = NoUser
  /\ chosen = 0
  /\ meant = [n \in 1..MaxValues |-> <<NoUser, "name">>]
  /\ excused = FALSE /\ crossed = {}

-----------------------------------------------------------------------------
(* Somebody registers *)

\* The INSERT INTO users.  No page is told.
Register(u) ==
  /\ u \in joining
  /\ joining' = joining \ {u}
  /\ account' = account \cup {u}
  /\ late' = late \cup {u}
  /\ UNCHANGED <<row, process, allUsers, load, snap, edit, delete, made, history>>

-----------------------------------------------------------------------------
(* The owner: PUT /api/settings with a theme *)

Syncing(u) == {r \in Requests : pc[r] = "sync" /\ who[r] = u}

\* The default, or a value picked before, picked again.
Again(n, u, f) ==
  /\ n \in {0} \cup {m \in 1..chosen : meant[m] = <<u, f>>}
  /\ UNCHANGED made

\* The upsert and its RETURNING.  A body without a theme inserts NULL into a
\* NOT NULL column and fails whatever else it asks for.
UpdateSettings(r, u, n) ==
  /\ pc[r] = "idle"
  /\ u \in account
  /\ Again(n, u, "theme") \/ (n = chosen + 1 /\ Choose(u, "theme"))
  /\ row' = [row EXCEPT ![u]["theme"] = n]
  /\ pc' = [pc EXCEPT ![r] = "sync"]
  /\ who' = [who EXCEPT ![r] = u]
  /\ ret' = [ret EXCEPT ![r] = n]
  /\ crossed' = IF Syncing(u) # {} THEN crossed \cup {u} ELSE crossed
  /\ UNCHANGED <<account, joining, synced, list, edit, delete, excused>>

Answer(r) ==
  /\ pc' = [pc EXCEPT ![r] = "idle"]
  /\ who' = [who EXCEPT ![r] = NoUser]
  /\ ret' = [ret EXCEPT ![r] = 0]

\* Mutant: the request's own row is not what is sent.
MutSent(r) == synced[who[r]]

\* emitSettingsSync of the row the statement returned.
Sent(r) == ret[r]

EmitSettingsSync(r) ==
  LET u == who[r] IN
  /\ pc[r] = "sync"
  /\ synced' = [synced EXCEPT ![u] = Sent(r)]
  /\ crossed' = IF Syncing(u) = {r} /\ ret[r] = row[u]["theme"]
                  THEN crossed \ {u} ELSE crossed
  /\ Answer(r)
  /\ UNCHANGED <<tables, list, edit, delete, made, excused>>

\* The row is stored and the database's answer lost: 500, and no broadcast.
UpdateFails(r) ==
  /\ pc[r] = "sync"
  /\ crossed' = crossed \cup {who[r]}
  /\ Answer(r)
  /\ UNCHANGED <<tables, synced, list, edit, delete, made, excused>>

-----------------------------------------------------------------------------
(* loadUsers *)

\* Mutant: a change is not followed by a reload.
MutLoadUsers(l) == UNCHANGED list

\* Its GET goes out; the list is from two of them at once, or from this one.
LoadUsers(l) ==
  /\ load[l] = "idle"
  /\ load' = [load EXCEPT ![l] = "sent"]
  /\ UNCHANGED <<allUsers, snap, late>>

Overlap == InFlight # {}

\* The rows of listUsers.
Selected == [u \in account |-> row[u]]

Names(rows) == [u \in DOMAIN rows |-> rows[u]["name"]]

\* What a list can show that was read by the last SELECT: the accounts that were
\* there, by the names they have now.
Known == [u \in account \ late |-> row[u]["name"]]

SelectUsers(l) ==
  /\ load[l] = "sent"
  /\ load' = [load EXCEPT ![l] = "back"]
  /\ snap' = [snap EXCEPT ![l] = Selected]
  /\ late' = {}
  /\ UNCHANGED <<tables, process, allUsers, edit, delete, made, history>>

\* allUsers = data.users, in the order of the answers.
ShowUsers(l) ==
  /\ load[l] = "back"
  /\ allUsers' = snap[l]
  /\ load' = [load EXCEPT ![l] = "idle"]
  /\ snap' = [snap EXCEPT ![l] = <<>>]
  /\ excused' = (excused /\ ~ (InFlight = {l} /\ Names(snap[l]) = Known))
  /\ UNCHANGED <<tables, process, late, edit, delete, made, crossed>>

\* "Failed to load users": the rows go, allUsers stays.
LoadFails(l) ==
  /\ load[l] = "sent"
  /\ load' = [load EXCEPT ![l] = "idle"]
  /\ excused' = TRUE
  /\ UNCHANGED <<tables, process, allUsers, snap, late, edit, delete, made, crossed>>

-----------------------------------------------------------------------------
(* The edit form *)

\* Mutant: the row is found by its place in the table, which a search narrows.
MutFilled(u) == allUsers[CHOOSE v \in DOMAIN allUsers : TRUE]

\* What openEditModal puts into the form.
Filled(u) == allUsers[u]

OpenEditModal(u) ==
  /\ modal = NoUser
  /\ u \in DOMAIN allUsers
  /\ modal' = u
  /\ form' = Filled(u)
  /\ UNCHANGED <<tables, process, list, save, target, payload, delete, made, history>>

Type(f) ==
  /\ modal # NoUser /\ confirm = NoUser
  /\ Choose(modal, f)
  /\ form' = [form EXCEPT ![f] = chosen + 1]
  /\ UNCHANGED <<tables, process, list, modal, save, target, payload, delete, history>>

CloseEditModal ==
  /\ modal # NoUser /\ confirm = NoUser
  /\ modal' = NoUser /\ form' = Default
  /\ UNCHANGED <<tables, process, list, save, target, payload, delete, made, history>>

\* The submit handler: all fields go, touched or not, and the button is off until
\* the answer.
Submit ==
  /\ modal # NoUser /\ confirm = NoUser
  /\ save = "none"
  /\ save' = "users" /\ target' = modal /\ payload' = form
  /\ UNCHANGED <<tables, process, list, modal, form, delete, made, history>>

\* updateUser, its first statement: no row is no error.
SaveName ==
  /\ save = "users"
  /\ row' = IF target \in account THEN [row EXCEPT ![target]["name"] = payload["name"]]
                                  ELSE row
  /\ save' = "settings"
  /\ UNCHANGED <<account, joining, process, list, modal, form, target, payload, delete, made, history>>

\* Mutant: no foreign key from user_settings to users.
MutMayUpsert(u) == TRUE

\* What the foreign key asks of an upsert.
MayUpsert(u) == u \in account

\* Its second, the upsert.
SaveSettings ==
  /\ save = "settings"
  /\ MayUpsert(target)
  /\ row' = [row EXCEPT ![target]["theme"] = payload["theme"]]
  /\ crossed' = crossed \cup {target}
  /\ save' = "select" /\ payload' = Default
  /\ UNCHANGED <<account, joining, process, list, modal, form, target, delete, made, excused>>

\* Its third finds the account, and the answer is 200.
SaveSelect ==
  /\ save = "select"
  /\ target \in account
  /\ save' = "ok" /\ target' = NoUser
  /\ UNCHANGED <<tables, process, list, modal, form, payload, delete, made, history>>

\* A statement fails (500, or 404 from the third), nothing is undone, and the
\* page shows the error.  Nothing happens to a table between the two.
SaveFails ==
  /\ save \in {"users", "settings", "select"}
  /\ save' = "none" /\ target' = NoUser /\ payload' = Default
  /\ excused' = (excused \/ save # "users")
  /\ UNCHANGED <<tables, process, list, modal, form, delete, made, crossed>>

\* The answer: close the form, whichever account it shows by now, and reload.
SaveAnswered ==
  /\ save = "ok"
  /\ save' = "none"
  /\ modal' = NoUser /\ form' = Default
  /\ \E l \in Loads : LoadUsers(l)
  /\ excused' = (excused \/ Overlap)
  /\ UNCHANGED <<tables, process, target, payload, delete, made, crossed>>

\* The handler is done or has failed, and fetch fails too: nothing catches that
\* and the button stays off.
SaveLost ==
  /\ save \notin {"none", "lost"}
  /\ save' = "lost" /\ target' = NoUser /\ payload' = Default
  /\ excused' = TRUE
  /\ UNCHANGED <<tables, process, list, modal, form, delete, made, crossed>>

-----------------------------------------------------------------------------
(* The delete dialog *)

AskDelete ==
  /\ modal # NoUser /\ confirm = NoUser
  /\ confirm' = modal
  /\ UNCHANGED <<tables, process, list, edit, del, doomed, made, history>>

\* Also while the DELETE is in flight, and then it takes nothing back.
ConfirmCancel ==
  /\ confirm # NoUser
  /\ confirm' = NoUser
  /\ UNCHANGED <<tables, process, list, edit, del, doomed, made, history>>

ConfirmOk ==
  /\ confirm # NoUser
  /\ del = "none"
  /\ del' = "sent" /\ doomed' = confirm
  /\ UNCHANGED <<tables, process, list, edit, confirm, made, history>>

\* deleteUser, with its cascade.
DeleteUser ==
  /\ del = "sent"
  /\ doomed \in account \ {Admin}
  /\ account' = account \ {doomed}
  /\ row' = [row EXCEPT ![doomed] = Default]
  /\ del' = "ok" /\ doomed' = NoUser
  /\ UNCHANGED <<joining, process, list, edit, confirm, made, history>>

\* The answer hides the dialog and the form, whoever they are about by now.
DeleteAnswered ==
  /\ del = "ok"
  /\ del' = "none"
  /\ confirm' = NoUser /\ modal' = NoUser /\ form' = Default
  /\ \E l \in Loads : LoadUsers(l)
  /\ excused' = (excused \/ Overlap)
  /\ UNCHANGED <<tables, process, save, target, payload, doomed, made, crossed>>

\* 400 for the admin, 404 without the row, 500, also when the row is gone and only
\* the database's answer was lost: the dialog goes, with an alert.
DeleteFails ==
  /\ del \in {"sent", "ok"}
  /\ del' = "none" /\ doomed' = NoUser
  /\ confirm' = NoUser
  /\ excused' = (excused \/ del = "ok")
  /\ UNCHANGED <<tables, process, list, edit, made, crossed>>

\* fetch fails: "Deleting..." stays.
DeleteLost ==
  /\ del \in {"sent", "ok"}
  /\ del' = "lost" /\ doomed' = NoUser
  /\ excused' = TRUE
  /\ UNCHANGED <<tables, process, list, edit, confirm, made, crossed>>

-----------------------------------------------------------------------------

Owner(r) ==
  \/ EmitSettingsSync(r) \/ UpdateFails(r)
  \/ \E u \in Owners, n \in Values : UpdateSettings(r, u, n)

Reload(l) == SelectUsers(l) \/ ShowUsers(l) \/ LoadFails(l)

Save == SaveName \/ SaveSettings \/ SaveSelect \/ SaveFails \/ SaveAnswered \/ SaveLost

Delete == DeleteUser \/ DeleteFails \/ DeleteAnswered \/ DeleteLost

Click ==
  \/ \E u \in Users : OpenEditModal(u)
  \/ \E f \in Fields : Type(f)
  \/ CloseEditModal
  \/ Submit
  \/ AskDelete \/ ConfirmCancel \/ ConfirmOk

Next ==
  \/ \E u \in Users : Register(u)
  \/ \E r \in Requests : Owner(r)
  \/ \E l \in Loads : Reload(l)
  \/ Save
  \/ Delete
  \/ Click

Spec == Init /\ [][Next]_vars

-----------------------------------------------------------------------------

\* The type invariant.  An account that is gone has no columns left: its
\* foreign key keeps a save that is under way from writing them again.
TypeOK ==
  /\ account \subseteq Users /\ joining \subseteq Users
  /\ row \in [Users -> Rows]
  /\ \A u \in Users \ account : row[u] = Default
  /\ pc \in [Requests -> {"idle", "sync"}]
  /\ who \in [Requests -> Users \cup {NoUser}]
  /\ \A r \in Requests : pc[r] = "idle" <=> who[r] = NoUser
  /\ ret \in [Requests -> Values]
  /\ synced \in [Users -> Values]
  /\ allUsers \in Snapshots
  /\ load \in [Loads -> {"idle", "sent", "back"}]
  /\ snap \in [Loads -> Snapshots]
  /\ late \subseteq Users
  /\ {modal, target, confirm, doomed} \subseteq Users \cup {NoUser}
  /\ {form, payload} \subseteq Rows
  /\ save \in {"none", "users", "settings", "select", "ok", "lost"}
  /\ del \in {"none", "sent", "ok", "lost"}
  /\ chosen \in Values
  /\ meant \in [1..MaxValues -> (Users \cup {NoUser}) \X Fields]
  /\ excused \in BOOLEAN
  /\ crossed \subseteq Users

\* Whatever an account's columns hold was chosen for that account and that
\* column: forms that are closed and opened for somebody else while a save is
\* under way, reloads and deletions never carry a value from one account to
\* another.  (openEditModal and the submit handler of app.js, updateUser)
NothingInvented ==
  \A u \in Users, f \in Fields : row[u][f] > 0 => meant[row[u][f]] = <<u, f>>

Quiet ==
  /\ InFlight = {}
  /\ save \in {"none", "lost"} /\ del \in {"none", "lost"}

\* When nothing is under way the list shows the accounts there are, no other, and
\* each by its name; but those that registered after its SELECT, which nothing
\* tells the page of, and unless since the last good reload one failed, two
\* overlapped, a save or a deletion stopped after its statement, or an answer was
\* lost.  (loadUsers after each change, app.js:269-270 and :310-311)
ListCurrentUnlessExcused ==
  Quiet /\ ~ excused => Names(allUsers) = Known

\* When no settings_sync is to come, the owner's other sessions have the theme
\* that is stored; unless two writes crossed their broadcasts, one was stored and
\* its answer lost, or the admin wrote last (updateUser emits account_updated
\* alone).
SyncedUnlessCrossed ==
  \A u \in account :
    Syncing(u) = {} => \/ synced[u] = row[u]["theme"]
                       \/ u \in crossed
=============================================================================
