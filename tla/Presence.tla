------------------------------- MODULE Presence -------------------------------
(***************************************************************************)
(* Presence: the socket registry and the offline timers of                 *)
(* src/src/socket/index.js, the handlers that write user_settings.status,  *)
(* and what the presence room and the admin dashboard are told.            *)
(*                                                                         *)
(* Handlers run to their next await: a connection, a disconnection and a   *)
(* timer callback up to its UPDATE are one step each.  A write and the     *)
(* broadcast that follows it are two steps.                                *)
(***************************************************************************)
EXTENDS Naturals, FiniteSets

CONSTANTS
  Users,       \* accounts
  Followed,    \* bound: the accounts followed beyond their sockets: timers fire,
               \* statuses are written, the account may be deleted
  Sockets,     \* connections; a closed one stands for the next one opened
  SocketUser,  \* socket.userId, set by the handshake
  Requests,    \* PUT /api/user/status requests in flight together
  NoUser,      \* a request slot not in use
  Admin,       \* ADMIN_UUID: the one account that cannot be deleted
  MaxWrites,   \* bound: offline callbacks of one account awaiting PostgreSQL
  MaxCrashes   \* bound: process crashes

ASSUME SocketUserAssumption == SocketUser \in [Sockets -> Users]
ASSUME FollowedAssumption == Followed \subseteq Users
ASSUME NoUserAssumption == NoUser \notin Users
ASSUME BoundsAssumption == MaxWrites \in Nat /\ MaxCrashes \in Nat

VARIABLES
  \* PostgreSQL
  account,        \* the users row exists
  status,         \* user_settings.status, "none" without a row
  \* the process: maps of socket/index.js and callbacks awaiting a query
  sessions,       \* the sockets each account has in the registry
  offlineTimers,  \* accounts with an entry in the Map of timers
  armed,          \* how many of its timers are yet to fire, in the event loop
  updating,       \* timer callbacks awaiting their UPDATE
  emitting,       \* timer callbacks whose UPDATE is done, yet to broadcast
  looking,        \* sockets awaiting their username
  rpc, ruser, rstatus,  \* setStatus requests
  crashes,
  \* observers
  shown,          \* the last status_change the presence room received
  adminUsers,     \* stats.unique_users of the last admin_presence_update,
                  \* as the set of accounts it counts
  adminSockets,   \* active_sessions of the last admin_presence_update
  \* history
  departed,       \* the last socket left and nothing has come of it yet
  muddled         \* shown may differ from status: a silent or overlapped write

registry  == <<sessions, looking>>
timers    == <<offlineTimers, armed, updating, emitting>>
requests  == <<rpc, ruser, rstatus>>
dashboard == <<adminUsers, adminSockets>>
vars == <<account, status, registry, timers, requests, crashes, shown, dashboard,
          departed, muddled>>

Statuses == {"online", "invisible", "offline"}  \* idle and dnd travel like online

\* Mutant: invisible is not turned into offline.
MutVisible(s) == IF s = "none" THEN "offline" ELSE s

\* emitStatusChange and getStatus: an invisible account is shown offline; one
\* without a row was never shown at all, which clients read as offline.
Visible(s) == IF s = "online" THEN "online" ELSE "offline"

Connected(u) == sessions[u] # {}

\* Writers of u's status that have written and not yet broadcast.
Emitters(u) == {r \in Requests : rpc[r] = "emit" /\ ruser[r] = u}
Unsent(u) == emitting[u] > 0 \/ Emitters(u) # {}

-----------------------------------------------------------------------------

Init ==
  /\ account = [u \in Users |-> TRUE]
  /\ status = [u \in Users |-> "none"]
  /\ sessions = [u \in Users |-> {}]
  /\ offlineTimers = {}
  /\ armed = [u \in Users |-> 0]
  /\ updating = [u \in Users |-> 0]
  /\ emitting = [u \in Users |-> 0]
  /\ looking = {}
  /\ rpc = [r \in Requests |-> "idle"]
  /\ ruser = [r \in Requests |-> NoUser]
  /\ rstatus = [r \in Requests |-> "offline"]
  /\ crashes = 0
  /\ shown = [u \in Users |-> "offline"]
  /\ adminUsers = {}
  /\ adminSockets = {}
  /\ departed = [u \in Users |-> FALSE]
  /\ muddled = [u \in Users |-> FALSE]

-----------------------------------------------------------------------------
(* The connection handler. *)

\* Mutant: the entry leaves the Map but the timer is not cleared.
MutCancelTimer(u) ==
  /\ offlineTimers' = offlineTimers \ {u}
  /\ armed' = armed

\* clearTimeout and the Map entry together.
CancelTimer(u) ==
  /\ offlineTimers' = offlineTimers \ {u}
  /\ armed' = IF u \in offlineTimers THEN [armed EXCEPT ![u] = @ - 1] ELSE armed

\* Mutant: the list of sockets is new, the count keeps the accounts it had.
MutPushPresenceToAdmin(reg, keys) ==
  /\ adminSockets' = UNION {reg[u] : u \in Users}
  /\ adminUsers' = adminUsers \cup keys

\* pushPresenceToAdmin: the registry as it is, given as a function, and the
\* accounts that have an entry in the outer Map.
PushPresenceToAdmin(reg, keys) ==
  /\ adminSockets' = UNION {reg[u] : u \in Users}
  /\ adminUsers' = keys

Connect(s) ==
  LET u == SocketUser[s] IN
  /\ s \notin sessions[u] \cup looking
  /\ sessions' = [sessions EXCEPT ![u] = @ \cup {s}]
  /\ CancelTimer(u)
  /\ looking' = looking \cup {s}
  /\ departed' = [departed EXCEPT ![u] = FALSE]
  /\ UNCHANGED <<account, status, updating, emitting, requests, crashes, shown, dashboard, muddled>>

\* The username arrives, or the query fails: the dashboard is told either way.
ResolveUsername(s) ==
  /\ s \in looking
  /\ looking' = looking \ {s}
  /\ PushPresenceToAdmin(sessions, {u \in Users : Connected(u)})
  /\ UNCHANGED <<account, status, sessions, timers, requests, crashes, shown, departed, muddled>>

\* setTimeout and the Map entry together.
ArmTimer(u) ==
  /\ offlineTimers' = offlineTimers \cup {u}
  /\ armed' = [armed EXCEPT ![u] = @ + 1]

\* Mutant: the size of the account's Map is read before the socket leaves it.
MutLastSocket(s) == Cardinality(sessions[SocketUser[s]]) = 0

\* userSessions.size === 0 once the socket is deleted.
LastSocket(s) == sessions[SocketUser[s]] = {s}

\* The push comes before sessions.delete(userId): it still counts the account.
Disconnect(s) ==
  LET u == SocketUser[s]
      left == [sessions EXCEPT ![u] = @ \ {s}]
  IN
  /\ s \in sessions[u]
  /\ sessions' = left
  /\ PushPresenceToAdmin(left, {v \in Users : Connected(v)})
  /\ IF LastSocket(s) THEN ArmTimer(u) ELSE UNCHANGED <<offlineTimers, armed>>
  /\ departed' = [departed EXCEPT ![u] = left[u] = {}]
  /\ UNCHANGED <<account, status, updating, emitting, looking, requests, crashes, shown, muddled>>

-----------------------------------------------------------------------------
(* The timer callback. *)

\* OFFLINE_GRACE_MS have passed: the entry goes, and the callback returns if
\* the user is back.
FireTimer(u) ==
  /\ armed[u] > 0
  /\ armed' = [armed EXCEPT ![u] = @ - 1]
  /\ offlineTimers' = offlineTimers \ {u}
  /\ Connected(u) \/ updating[u] < MaxWrites
  /\ updating' = IF Connected(u) THEN updating ELSE [updating EXCEPT ![u] = @ + 1]
  /\ UNCHANGED <<account, status, emitting, registry, requests, crashes, shown, dashboard,
                 departed, muddled>>

\* Mutant: the UPDATE sets last_seen alone.
MutAfterOffline(s) == s

\* What the UPDATE makes of a stored status: no row, no effect.
AfterOffline(s) == IF s = "none" THEN "none" ELSE "offline"

OfflineUpdate(u) ==
  /\ updating[u] > 0
  /\ emitting[u] < MaxWrites
  /\ updating' = [updating EXCEPT ![u] = @ - 1]
  /\ emitting' = [emitting EXCEPT ![u] = @ + 1]
  /\ status' = [status EXCEPT ![u] = AfterOffline(@)]
  /\ departed' = [departed EXCEPT ![u] = FALSE]
  /\ muddled' = [muddled EXCEPT ![u] = Unsent(u)]
  /\ UNCHANGED <<account, offlineTimers, armed, registry, requests, crashes, shown, dashboard>>

\* The query is refused: the error is logged and nothing tries again.
OfflineFails(u) ==
  /\ updating[u] > 0
  /\ updating' = [updating EXCEPT ![u] = @ - 1]
  /\ departed' = [departed EXCEPT ![u] = FALSE]
  /\ UNCHANGED <<account, status, offlineTimers, armed, emitting, registry, requests, crashes,
                 shown, dashboard, muddled>>

OfflineEmit(u) ==
  /\ emitting[u] > 0
  /\ emitting' = [emitting EXCEPT ![u] = @ - 1]
  /\ shown' = [shown EXCEPT ![u] = "offline"]
  /\ UNCHANGED <<account, status, offlineTimers, armed, updating, registry, requests, crashes,
                 dashboard, departed, muddled>>

\* The UPDATE was committed and its answer lost: no broadcast follows.
OfflineAnswerLost(u) ==
  /\ emitting[u] > 0
  /\ emitting' = [emitting EXCEPT ![u] = @ - 1]
  /\ muddled' = [muddled EXCEPT ![u] = TRUE]
  /\ UNCHANGED <<account, status, offlineTimers, armed, updating, registry, requests, crashes,
                 shown, dashboard, departed>>

-----------------------------------------------------------------------------
(* The handlers that write a status. *)

StartSetStatus(r, u, s) ==
  /\ rpc[r] = "idle"
  /\ rpc' = [rpc EXCEPT ![r] = "write"]
  /\ ruser' = [ruser EXCEPT ![r] = u]
  /\ rstatus' = [rstatus EXCEPT ![r] = s]
  /\ UNCHANGED <<account, status, registry, timers, crashes, shown, dashboard, departed, muddled>>

\* The upsert, refused by the foreign key once the account is gone.
SetStatusWrite(r) ==
  LET u == ruser[r] IN
  /\ rpc[r] = "write"
  /\ account[u]
  /\ status' = [status EXCEPT ![u] = rstatus[r]]
  /\ muddled' = [muddled EXCEPT ![u] = Unsent(u)]
  /\ rpc' = [rpc EXCEPT ![r] = "emit"]
  /\ UNCHANGED <<account, registry, timers, ruser, rstatus, crashes, shown, dashboard, departed>>

EndRequest(r) ==
  /\ rpc' = [rpc EXCEPT ![r] = "idle"]
  /\ ruser' = [ruser EXCEPT ![r] = NoUser]
  /\ rstatus' = [rstatus EXCEPT ![r] = "offline"]

SetStatusEmit(r) ==
  /\ rpc[r] = "emit"
  /\ shown' = [shown EXCEPT ![ruser[r]] = Visible(rstatus[r])]
  /\ EndRequest(r)
  /\ UNCHANGED <<account, status, registry, timers, crashes, dashboard, departed, muddled>>

\* An error before or after the commit: no broadcast, 500 to the client.
SetStatusFails(r) ==
  /\ rpc[r] # "idle"
  /\ muddled' = IF rpc[r] = "emit" THEN [muddled EXCEPT ![ruser[r]] = TRUE] ELSE muddled
  /\ EndRequest(r)
  /\ UNCHANGED <<account, status, registry, timers, crashes, shown, dashboard, departed>>

\* A write without a broadcast: observers keep what they had.
SilentWrite(u, s) ==
  /\ status' = [status EXCEPT ![u] = s]
  /\ muddled' = [muddled EXCEPT ![u] = @ \/ Visible(s) # Visible(status[u])]

\* POST /api/user/heartbeat: offline, or no row at all, becomes online.
Heartbeat(u) ==
  /\ account[u]
  /\ SilentWrite(u, IF status[u] \in {"none", "offline"} THEN "online" ELSE status[u])
  /\ UNCHANGED <<account, registry, timers, requests, crashes, shown, dashboard, departed>>

\* PATCH /api/admin/users/:id with a status and a theme; the first PUT /api/settings
\* of an account, which creates its row as offline, is such a step too.  Nothing is
\* sent to the presence room.
AdminSetStatus(u, s) ==
  /\ account[u]
  /\ SilentWrite(u, s)
  /\ UNCHANGED <<account, registry, timers, requests, crashes, shown, dashboard, departed>>

\* DELETE /api/admin/users/:id: the row of user_settings goes with the account;
\* the sockets of the account stay connected.
DeleteUser(u) ==
  /\ u # Admin
  /\ account[u]
  /\ account' = [account EXCEPT ![u] = FALSE]
  /\ SilentWrite(u, "none")
  /\ UNCHANGED <<registry, timers, requests, crashes, shown, dashboard, departed>>

-----------------------------------------------------------------------------

\* The process dies and starts again: maps, timers and handlers are gone, and
\* nothing at start-up looks at user_settings.
Crash ==
  /\ crashes < MaxCrashes
  /\ crashes' = crashes + 1
  /\ sessions' = [u \in Users |-> {}]
  /\ looking' = {}
  /\ offlineTimers' = {}
  /\ armed' = [u \in Users |-> 0]
  /\ updating' = [u \in Users |-> 0]
  /\ emitting' = [u \in Users |-> 0]
  /\ rpc' = [r \in Requests |-> "idle"]
  /\ ruser' = [r \in Requests |-> NoUser]
  /\ rstatus' = [r \in Requests |-> "offline"]
  /\ adminUsers' = {}
  /\ adminSockets' = {}
  /\ departed' = [u \in Users |-> departed[u] \/ Connected(u)]
  /\ muddled' = [u \in Users |-> muddled[u] \/ Unsent(u)]
  /\ UNCHANGED <<account, status, shown>>

Next ==
  \/ \E s \in Sockets : Connect(s) \/ ResolveUsername(s) \/ Disconnect(s)
  \/ \E u \in Followed :
       \/ FireTimer(u) \/ OfflineUpdate(u) \/ OfflineFails(u) \/ OfflineEmit(u)
       \/ OfflineAnswerLost(u)
       \/ Heartbeat(u) \/ DeleteUser(u)
  \/ \E u \in Followed, s \in Statuses : AdminSetStatus(u, s)
  \/ \E r \in Requests, u \in Followed, s \in Statuses : StartSetStatus(r, u, s)
  \/ \E r \in Requests : SetStatusWrite(r) \/ SetStatusEmit(r) \/ SetStatusFails(r)
  \/ Crash

Spec == Init /\ [][Next]_vars

\* setTimeout fires; PostgreSQL answers every query or refuses it.
Fairness ==
  \A u \in Followed :
    /\ WF_vars(FireTimer(u))
    /\ WF_vars(OfflineUpdate(u) \/ OfflineFails(u))
    /\ WF_vars(OfflineEmit(u) \/ OfflineAnswerLost(u))

FairSpec == Spec /\ Fairness

-----------------------------------------------------------------------------
(* Properties. *)

\* Every variable stays in its type; in particular the maps hold each socket
\* under its own account.
TypeOK ==
  /\ account \in [Users -> BOOLEAN]
  /\ status \in [Users -> Statuses \cup {"none"}]
  /\ sessions \in [Users -> SUBSET Sockets]
  /\ \A u \in Users : \A s \in sessions[u] : SocketUser[s] = u
  /\ offlineTimers \subseteq Users
  /\ armed \in [Users -> Nat]
  /\ updating \in [Users -> 0..MaxWrites]
  /\ emitting \in [Users -> 0..MaxWrites]
  /\ looking \subseteq Sockets
  /\ rpc \in [Requests -> {"idle", "write", "emit"}]
  /\ ruser \in [Requests -> Users \cup {NoUser}]
  /\ rstatus \in [Requests -> Statuses]
  /\ \A r \in Requests : rpc[r] # "idle" => ruser[r] \in Users
  /\ crashes \in 0..MaxCrashes
  /\ shown \in [Users -> {"online", "offline"}]
  /\ adminUsers \subseteq Users
  /\ adminSockets \subseteq Sockets
  /\ departed \in [Users -> BOOLEAN]
  /\ muddled \in [Users -> BOOLEAN]

\* A timer in the event loop is exactly one entry of offlineTimers, and only an
\* account without a socket has one: no connection leaves a timer behind that
\* could not be cancelled any more.
TimerDiscipline ==
  \A u \in Users :
    /\ armed[u] = IF u \in offlineTimers THEN 1 ELSE 0
    /\ Connected(u) => armed[u] = 0

\* Until the process crashes, the departure of an account's last socket is
\* never forgotten: a timer or an UPDATE of it is still to come until the UPDATE
\* is answered or the user is back.
DepartureTracked ==
  crashes = 0 => \A u \in Users : departed[u] => armed[u] > 0 \/ updating[u] > 0

\* Every departure is settled: the offline status is written, refused by
\* PostgreSQL, overtaken by a new connection, or lost to a crash.
DepartureSettled == \A u \in Followed : departed[u] ~> ~departed[u] \/ crashes > 0

\* Once every write has been broadcast, observers see the stored status unless
\* its last change was silent (heartbeat, admin, delete, an error) or its
\* writers overlapped.
ShownMatches ==
  \A u \in Users : ~Unsent(u) /\ ~muddled[u] => shown[u] = Visible(status[u])

\* The dashboard lists no socket that has closed, and misses only sockets that
\* still await their username.
SocketsCurrent ==
  LET open == UNION {sessions[u] : u \in Users} IN
  /\ adminSockets \subseteq open
  /\ open \ adminSockets \subseteq looking

\* Its number of accounts misses only accounts all of whose sockets do, and is one
\* too high at the most: the account whose last socket closed just before.
UsersCurrent ==
  /\ \A u \in Users : Connected(u) => u \in adminUsers \/ sessions[u] \subseteq looking
  /\ \A u, v \in adminUsers : Connected(u) \/ Connected(v) \/ u = v

\* What the dashboard was last told is right but for connections whose handler is
\* still under way and for the one account pushPresenceToAdmin counts a moment too
\* long (it runs before the account's empty Map is removed).
AdminListCurrent == SocketsCurrent /\ UsersCurrent

\* What docs/Federation-API.md:509 promises of an account whose last socket
\* closed: offline is broadcast for an account with no socket only.
OfflineOnlyWhenGone == [][\A u \in Users : OfflineEmit(u) => ~Connected(u)]_vars

=============================================================================
