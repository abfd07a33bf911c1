---------------------------- MODULE PresenceProofs ----------------------------
(***************************************************************************)
(* The safety of Presence for any number of accounts, sockets, requests,   *)
(* callbacks in flight and crashes.                                        *)
(***************************************************************************)
EXTENDS Presence, TLAPS

-----------------------------------------------------------------------------
(* The inductive invariant. *)

\* An account whose last change was broadcast alone: either the broadcast has
\* reached the observers, or the one broadcast to come carries that status.
InStep(u) ==
  \/ ~Unsent(u) /\ shown[u] = Visible(status[u])
  \/ emitting[u] = 1 /\ Emitters(u) = {} /\ Visible(status[u]) = "offline"
  \/ emitting[u] = 0 /\ \E r \in Requests :
       Emitters(u) = {r} /\ Visible(rstatus[r]) = Visible(status[u])

BroadcastsInStep == \A u \in Users : muddled[u] \/ InStep(u)

\* An account whose departure is not settled has no socket.
DepartedGone == \A u \in Users : departed[u] => sessions[u] = {}

Inv ==
  /\ TypeOK
  /\ TimerDiscipline
  /\ BroadcastsInStep
  /\ AdminListCurrent
  /\ DepartureTracked
  /\ DepartedGone

\* What an account's departure still has ahead of it: a timer, and an UPDATE for
\* each timer that fired.
Ahead(u) == 2 * armed[u] + updating[u]

\* A departure that is not settled yet comes no further from it, whatever sockets,
\* requests and other timers do meanwhile; the timer brings it nearer, and the answer
\* to any UPDATE settles it (the callback in socket/index.js arms no timer again).
DepartureNears ==
  [][\A u \in Users : departed[u] /\ departed'[u] =>
       /\ Ahead(u)' <= Ahead(u)
       /\ FireTimer(u) => Ahead(u)' < Ahead(u)]_vars

-----------------------------------------------------------------------------
(* Types. *)

LEMMA TypeStep == Inv /\ [Next]_vars => TypeOK'
<1> SUFFICES ASSUME Inv, [Next]_vars PROVE TypeOK'
  OBVIOUS
<1> USE SocketUserAssumption, BoundsAssumption DEF Statuses
<1>t. TypeOK /\ TimerDiscipline
  BY DEF Inv
<1>e. ASSUME NEW r \in Requests, EndRequest(r)
      PROVE  /\ rpc' \in [Requests -> {"idle", "write", "emit"}]
             /\ ruser' \in [Requests -> Users \cup {NoUser}]
             /\ rstatus' \in [Requests -> Statuses]
             /\ \A q \in Requests : rpc'[q] # "idle" => ruser'[q] \in Users
  BY <1>t, <1>e DEF TypeOK, EndRequest
<1>1. ASSUME NEW s \in Sockets, Connect(s) PROVE TypeOK'
  <2>1. armed' \in [Users -> Nat] /\ offlineTimers' \subseteq Users
    BY <1>t, <1>1 DEF TypeOK, TimerDiscipline, Connect, CancelTimer
  <2>2. /\ sessions' \in [Users -> SUBSET Sockets]
        /\ \A u \in Users : \A x \in sessions'[u] : SocketUser[x] = u
        /\ looking' \subseteq Sockets
        /\ departed' \in [Users -> BOOLEAN]
    BY <1>t, <1>1 DEF TypeOK, Connect
  <2> QED BY <1>t, <1>1, <2>1, <2>2 DEF TypeOK, Connect, requests, dashboard
<1>2. ASSUME NEW s \in Sockets, ResolveUsername(s) PROVE TypeOK'
  BY <1>t, <1>2 DEF TypeOK, ResolveUsername, PushPresenceToAdmin, timers, requests
<1>3. ASSUME NEW s \in Sockets, Disconnect(s) PROVE TypeOK'
  <2>1. armed' \in [Users -> Nat] /\ offlineTimers' \subseteq Users
    BY <1>t, <1>3 DEF TypeOK, Disconnect, ArmTimer
  <2>2. /\ sessions' \in [Users -> SUBSET Sockets]
        /\ \A u \in Users : \A x \in sessions'[u] : SocketUser[x] = u
        /\ departed' \in [Users -> BOOLEAN]
    BY <1>t, <1>3 DEF TypeOK, Disconnect
  <2>3. adminUsers' \subseteq Users /\ adminSockets' \subseteq Sockets
    BY <1>t, <1>3 DEF TypeOK, Disconnect, PushPresenceToAdmin
  <2> QED BY <1>t, <1>3, <2>1, <2>2, <2>3 DEF TypeOK, Disconnect, requests
<1>4. ASSUME NEW u \in Users, FireTimer(u) PROVE TypeOK'
  <2>1. /\ armed' \in [Users -> Nat] /\ offlineTimers' \subseteq Users
        /\ updating' \in [Users -> 0..MaxWrites]
    BY <1>t, <1>4 DEF TypeOK, FireTimer
  <2> QED BY <1>t, <1>4, <2>1 DEF TypeOK, FireTimer, registry, requests, dashboard
<1>5. ASSUME NEW u \in Users, OfflineUpdate(u) PROVE TypeOK'
  <2>0. updating[u] - 1 \in 0..MaxWrites /\ emitting[u] + 1 \in 0..MaxWrites
    BY <1>t, <1>5 DEF TypeOK, OfflineUpdate
  <2>1. /\ updating' \in [Users -> 0..MaxWrites]
        /\ emitting' \in [Users -> 0..MaxWrites]
    BY <1>t, <1>5, <2>0 DEF TypeOK, OfflineUpdate
  <2>2. /\ status' \in [Users -> Statuses \cup {"none"}]
        /\ departed' \in [Users -> BOOLEAN]
        /\ muddled' \in [Users -> BOOLEAN]
    BY <1>t, <1>5 DEF TypeOK, OfflineUpdate, AfterOffline, Unsent
  <2> QED BY <1>t, <1>5, <2>1, <2>2 DEF TypeOK, OfflineUpdate, registry, requests, dashboard
<1>6. ASSUME NEW u \in Users, OfflineFails(u) \/ OfflineEmit(u) \/ OfflineAnswerLost(u)
      PROVE  TypeOK'
  <2>0. /\ updating[u] > 0 => updating[u] - 1 \in 0..MaxWrites
        /\ emitting[u] > 0 => emitting[u] - 1 \in 0..MaxWrites
    BY <1>t DEF TypeOK
  <2>1. /\ updating' \in [Users -> 0..MaxWrites]
        /\ emitting' \in [Users -> 0..MaxWrites]
    <3>1. CASE OfflineFails(u)
      BY <1>t, <2>0, <3>1 DEF TypeOK, OfflineFails
    <3>2. CASE OfflineEmit(u) \/ OfflineAnswerLost(u)
      <4>1. emitting' = [emitting EXCEPT ![u] = @ - 1] /\ updating' = updating /\ emitting[u] > 0
        BY <3>2 DEF OfflineEmit, OfflineAnswerLost
      <4> QED BY <1>t, <2>0, <4>1 DEF TypeOK
    <3> QED BY <1>6, <3>1, <3>2
  <2>2. /\ departed' \in [Users -> BOOLEAN]
        /\ muddled' \in [Users -> BOOLEAN]
        /\ shown' \in [Users -> {"online", "offline"}]
    BY <1>t, <1>6 DEF TypeOK, OfflineFails, OfflineEmit, OfflineAnswerLost
  <2> QED BY <1>t, <1>6, <2>1, <2>2
          DEF TypeOK, OfflineFails, OfflineEmit, OfflineAnswerLost, registry, requests, dashboard
<1>7. ASSUME NEW u \in Users, NEW s \in Statuses,
             Heartbeat(u) \/ AdminSetStatus(u, s) \/ DeleteUser(u)
      PROVE  TypeOK'
  <2>1. /\ status' \in [Users -> Statuses \cup {"none"}]
        /\ muddled' \in [Users -> BOOLEAN]
        /\ account' \in [Users -> BOOLEAN]
    <3>1. CASE Heartbeat(u)
      BY <1>t, <3>1 DEF TypeOK, Heartbeat, SilentWrite
    <3>2. CASE AdminSetStatus(u, s)
      BY <1>t, <3>2 DEF TypeOK, AdminSetStatus, SilentWrite
    <3>3. CASE DeleteUser(u)
      BY <1>t, <3>3 DEF TypeOK, DeleteUser, SilentWrite
    <3> QED BY <1>7, <3>1, <3>2, <3>3
  <2> QED BY <1>t, <1>7, <2>1
          DEF TypeOK, Heartbeat, AdminSetStatus, DeleteUser, registry, timers, requests, dashboard
<1>8. ASSUME NEW r \in Requests, NEW u \in Users, NEW s \in Statuses, StartSetStatus(r, u, s)
      PROVE  TypeOK'
  <2>1. /\ rpc' \in [Requests -> {"idle", "write", "emit"}]
        /\ ruser' \in [Requests -> Users \cup {NoUser}]
        /\ rstatus' \in [Requests -> Statuses]
        /\ \A q \in Requests : rpc'[q] # "idle" => ruser'[q] \in Users
    BY <1>t, <1>8 DEF TypeOK, StartSetStatus
  <2> QED BY <1>t, <1>8, <2>1 DEF TypeOK, StartSetStatus, registry, timers, dashboard
<1>9. ASSUME NEW r \in Requests, SetStatusWrite(r) PROVE TypeOK'
  <2>1. /\ rpc' \in [Requests -> {"idle", "write", "emit"}]
        /\ \A q \in Requests : rpc'[q] # "idle" => ruser[q] \in Users
        /\ ruser[r] \in Users
    BY <1>t, <1>9 DEF TypeOK, SetStatusWrite
  <2>2. /\ status' \in [Users -> Statuses \cup {"none"}]
        /\ muddled' \in [Users -> BOOLEAN]
    BY <1>t, <1>9, <2>1 DEF TypeOK, SetStatusWrite, Unsent
  <2> QED BY <1>t, <1>9, <2>1, <2>2 DEF TypeOK, SetStatusWrite, registry, timers, dashboard
<1>10. ASSUME NEW r \in Requests, SetStatusEmit(r) \/ SetStatusFails(r) PROVE TypeOK'
  <2>1. EndRequest(r)
    BY <1>10 DEF SetStatusEmit, SetStatusFails
  <2>2. /\ shown' \in [Users -> {"online", "offline"}]
        /\ muddled' \in [Users -> BOOLEAN]
    BY <1>t, <1>10 DEF TypeOK, SetStatusEmit, SetStatusFails, Visible
  <2> QED BY <1>t, <1>e, <1>10, <2>1, <2>2
          DEF TypeOK, SetStatusEmit, SetStatusFails, registry, timers, dashboard
<1>11. CASE Crash
  <2>1. /\ departed' \in [Users -> BOOLEAN]
        /\ muddled' \in [Users -> BOOLEAN]
    BY <1>11 DEF Crash, Connected, Unsent, TypeOK
  <2>2. crashes' \in 0..MaxCrashes
    BY <1>t, <1>11 DEF Crash, TypeOK
  <2> QED BY <1>t, <1>11, <2>1, <2>2 DEF TypeOK, Crash
<1>12. CASE UNCHANGED vars
  BY <1>t, <1>12 DEF TypeOK, vars, registry, timers, requests, dashboard
<1> QED BY <1>1, <1>2, <1>3, <1>4, <1>5, <1>6, <1>7, <1>8, <1>9, <1>10, <1>11, <1>12, FollowedAssumption DEF Next

-----------------------------------------------------------------------------
(* Timers, departures and the dashboard's list. *)

\* What the steps that touch no map leave alone.
LEMMA RegistryFrame ==
  ASSUME [Next]_vars,
         ~\E s \in Sockets : Connect(s) \/ ResolveUsername(s) \/ Disconnect(s),
         ~Crash
  PROVE  UNCHANGED <<sessions, looking, adminSockets, adminUsers>>
  BY DEF Next, vars, FireTimer, OfflineUpdate, OfflineFails, OfflineEmit, OfflineAnswerLost,
    Heartbeat, AdminSetStatus, DeleteUser, StartSetStatus, SetStatusWrite, SetStatusEmit,
    SetStatusFails, registry, dashboard

LEMMA TimerStep == Inv /\ [Next]_vars => TimerDiscipline'
<1> SUFFICES ASSUME Inv, [Next]_vars, NEW v \in Users
             PROVE  /\ armed'[v] = IF v \in offlineTimers' THEN 1 ELSE 0
                    /\ Connected(v)' => armed'[v] = 0
  BY DEF TimerDiscipline
<1> USE SocketUserAssumption DEF Connected
<1>t. /\ TypeOK
      /\ \A u \in Users : /\ armed[u] = IF u \in offlineTimers THEN 1 ELSE 0
                          /\ Connected(u) => armed[u] = 0
  BY DEF Inv, TimerDiscipline
<1>1. CASE \E s \in Sockets : Connect(s)
  BY <1>t, <1>1 DEF TypeOK, Connect, CancelTimer
<1>2. CASE \E s \in Sockets : Disconnect(s)
  <2>1. PICK s \in Sockets : Disconnect(s)
    BY <1>2
  <2>2. CASE LastSocket(s)
    <3>1. /\ armed' = [armed EXCEPT ![SocketUser[s]] = @ + 1]
          /\ offlineTimers' = offlineTimers \cup {SocketUser[s]}
          /\ SocketUser[s] \in Users
      BY <2>1, <2>2 DEF Disconnect, ArmTimer
    <3>2. sessions[SocketUser[s]] = {s}
      BY <2>2 DEF LastSocket
    <3>3. armed[SocketUser[s]] = 0 /\ SocketUser[s] \notin offlineTimers
      BY <1>t, <3>1, <3>2
    <3>4. /\ sessions'[SocketUser[s]] = {}
          /\ \A u \in Users \ {SocketUser[s]} : sessions'[u] = sessions[u]
      BY <1>t, <2>1, <3>1, <3>2 DEF TypeOK, Disconnect
    <3> QED BY <1>t, <3>1, <3>3, <3>4 DEF TypeOK
  <2>3. CASE ~LastSocket(s)
    <3>1. /\ UNCHANGED <<offlineTimers, armed>>
          /\ SocketUser[s] \in Users /\ s \in sessions[SocketUser[s]]
          /\ \A u \in Users : sessions'[u] # {} => sessions[u] # {}
      BY <1>t, <2>1, <2>3 DEF TypeOK, Disconnect
    <3> QED BY <1>t, <3>1
  <2> QED BY <2>2, <2>3
<1>3. CASE \E u \in Users : FireTimer(u)
  BY <1>t, <1>3 DEF TypeOK, FireTimer, registry
<1>4. CASE Crash
  BY <1>4 DEF Crash
<1>5. CASE /\ ~\E s \in Sockets : Connect(s) \/ Disconnect(s)
           /\ ~\E u \in Users : FireTimer(u)
           /\ ~Crash
  <2>1. UNCHANGED <<sessions, offlineTimers, armed>>
    BY <1>5, FollowedAssumption DEF Next, vars, ResolveUsername, OfflineUpdate, OfflineFails, OfflineEmit,
      OfflineAnswerLost, Heartbeat, AdminSetStatus, DeleteUser, StartSetStatus, SetStatusWrite,
      SetStatusEmit, SetStatusFails, registry, timers
  <2> QED BY <1>t, <2>1
<1> QED BY <1>1, <1>2, <1>3, <1>4, <1>5

LEMMA DepartureStep == Inv /\ [Next]_vars => DepartureTracked'
<1> SUFFICES ASSUME Inv, [Next]_vars, crashes' = 0, NEW v \in Users, departed'[v]
             PROVE  armed'[v] > 0 \/ updating'[v] > 0
  BY DEF DepartureTracked
<1> USE SocketUserAssumption, BoundsAssumption
<1>t. TypeOK /\ TimerDiscipline /\ crashes \in Nat
  BY DEF Inv, TypeOK
<1>c. ~Crash /\ crashes = 0
  <2>1. ~Crash
    BY <1>t DEF Crash
  <2> QED BY <2>1 DEF Next, vars, Connect, ResolveUsername, Disconnect, FireTimer, OfflineUpdate,
    OfflineFails, OfflineEmit, OfflineAnswerLost, Heartbeat, AdminSetStatus, DeleteUser,
    StartSetStatus, SetStatusWrite, SetStatusEmit, SetStatusFails
<1>d. departed[v] => armed[v] > 0 \/ updating[v] > 0
  BY <1>c DEF Inv, DepartureTracked
<1>1. CASE \E s \in Sockets : Connect(s)
  BY <1>t, <1>d, <1>1 DEF TypeOK, Connect, CancelTimer
<1>2. CASE \E s \in Sockets : Disconnect(s)
  <2>1. PICK s \in Sockets : Disconnect(s)
    BY <1>2
  <2>2. CASE v = SocketUser[s]
    <3>1. sessions[v] \ {s} = {} /\ s \in sessions[v]
      BY <1>t, <2>1, <2>2 DEF TypeOK, Disconnect
    <3>2. LastSocket(s)
      BY <2>2, <3>1 DEF LastSocket
    <3>3. armed'[v] = armed[v] + 1
      BY <1>t, <2>1, <2>2, <3>2 DEF TypeOK, Disconnect, ArmTimer
    <3> QED BY <1>t, <3>3 DEF TypeOK
  <2>3. CASE v # SocketUser[s]
    BY <1>t, <1>d, <2>1, <2>3 DEF TypeOK, Disconnect, ArmTimer
  <2> QED BY <2>2, <2>3
<1>3. CASE \E u \in Users : FireTimer(u)
  <2>1. PICK u \in Users : FireTimer(u)
    BY <1>3
  <2>2. ~Connected(u)
    BY <1>t, <2>1 DEF TimerDiscipline, FireTimer
  <2>3. updating[u] \in Nat /\ updating' = [updating EXCEPT ![u] = @ + 1]
    BY <1>t, <2>1, <2>2 DEF TypeOK, FireTimer
  <2> QED BY <1>t, <1>d, <2>1, <2>3 DEF TypeOK, FireTimer
<1>4. CASE \E u \in Users : OfflineUpdate(u) \/ OfflineFails(u)
  BY <1>t, <1>d, <1>4 DEF TypeOK, OfflineUpdate, OfflineFails
<1>5. CASE /\ ~\E s \in Sockets : Connect(s) \/ Disconnect(s)
           /\ ~\E u \in Users : FireTimer(u) \/ OfflineUpdate(u) \/ OfflineFails(u)
  <2>1. UNCHANGED <<departed, armed, updating>>
    BY <1>c, <1>5, FollowedAssumption DEF Next, vars, ResolveUsername, OfflineEmit,
      OfflineAnswerLost, Heartbeat, AdminSetStatus, DeleteUser, StartSetStatus, SetStatusWrite,
      SetStatusEmit, SetStatusFails, timers
  <2> QED BY <1>d, <2>1
<1> QED BY <1>1, <1>2, <1>3, <1>4, <1>5

LEMMA GoneStep == Inv /\ [Next]_vars => DepartedGone'
<1> SUFFICES ASSUME Inv, [Next]_vars, NEW v \in Users, departed'[v]
             PROVE  sessions'[v] = {}
  BY DEF DepartedGone
<1> USE SocketUserAssumption
<1>t. TypeOK /\ (departed[v] => sessions[v] = {})
  BY DEF Inv, DepartedGone
<1>1. ASSUME NEW s \in Sockets, Connect(s) PROVE sessions'[v] = {}
  <2>1. v # SocketUser[s] /\ departed[v]
    BY <1>t, <1>1 DEF TypeOK, Connect
  <2> QED BY <1>t, <1>1, <2>1 DEF TypeOK, Connect
<1>2. ASSUME NEW s \in Sockets, Disconnect(s) PROVE sessions'[v] = {}
  BY <1>t, <1>2 DEF TypeOK, Disconnect
<1>3. CASE Crash
  BY <1>3 DEF Crash
<1>4. CASE UNCHANGED sessions /\ (departed'[v] => departed[v])
  BY <1>t, <1>4
<1>5. ASSUME NEW u \in Users, OfflineUpdate(u) \/ OfflineFails(u)
      PROVE  UNCHANGED sessions /\ (departed'[v] => departed[v])
  BY <1>t, <1>5 DEF TypeOK, OfflineUpdate, OfflineFails, registry
<1>6. CASE UNCHANGED <<sessions, departed>>
  BY <1>4, <1>6
<1> QED
  BY <1>1, <1>2, <1>3, <1>4, <1>5, <1>6, FollowedAssumption
     DEF Next, vars, ResolveUsername, FireTimer, OfflineEmit, OfflineAnswerLost, Heartbeat,
         AdminSetStatus, DeleteUser, StartSetStatus, SetStatusWrite, SetStatusEmit,
         SetStatusFails, registry

\* What is ahead of a departure falls with its timer and grows with nothing.
LEMMA AheadStep ==
  ASSUME Inv, [Next]_vars, NEW v \in Users, departed[v], departed'[v]
  PROVE  /\ Ahead(v)' <= Ahead(v)
         /\ FireTimer(v) => Ahead(v)' < Ahead(v)
<1> USE SocketUserAssumption, BoundsAssumption DEF Ahead
<1>t. /\ TypeOK /\ sessions[v] = {}
      /\ armed[v] \in Nat /\ updating[v] \in Nat
      /\ \A u \in Users : armed[u] = IF u \in offlineTimers THEN 1 ELSE 0
  BY DEF Inv, DepartedGone, TypeOK, TimerDiscipline
<1>1. ASSUME NEW s \in Sockets, Connect(s) PROVE armed'[v] <= armed[v] /\ updating'[v] = updating[v]
  <2>1. /\ armed' = armed \/ armed' = [armed EXCEPT ![SocketUser[s]] = @ - 1]
        /\ updating' = updating /\ armed \in [Users -> Nat]
    BY <1>t, <1>1 DEF TypeOK, Connect, CancelTimer
  <2>2. armed'[v] = armed[v] \/ armed'[v] = armed[v] - 1
    BY <2>1
  <2> QED BY <1>t, <2>1, <2>2
<1>2. ASSUME NEW s \in Sockets, Disconnect(s) PROVE armed'[v] <= armed[v] /\ updating'[v] = updating[v]
  <2>1. SocketUser[s] # v
    BY <1>t, <1>2 DEF Disconnect
  <2>2. armed' = armed \/ armed' = [armed EXCEPT ![SocketUser[s]] = @ + 1]
    BY <1>2 DEF Disconnect, ArmTimer
  <2>3. armed'[v] = armed[v]
    BY <1>t, <2>1, <2>2 DEF TypeOK
  <2>4. UNCHANGED updating
    BY <1>2 DEF Disconnect
  <2> QED BY <1>t, <2>3, <2>4
<1>3. ASSUME FireTimer(v) PROVE Ahead(v)' < Ahead(v)
  <2>1. armed'[v] = armed[v] - 1 /\ armed[v] > 0 /\ updating'[v] = updating[v] + 1
    BY <1>t, <1>3 DEF TypeOK, FireTimer, Connected
  <2> QED BY <1>t, <2>1
<1>4. ASSUME NEW u \in Users \ {v}, FireTimer(u) PROVE armed'[v] = armed[v] /\ updating'[v] = updating[v]
  BY <1>t, <1>4 DEF TypeOK, FireTimer
<1>5. ASSUME NEW u \in Users, OfflineUpdate(u) \/ OfflineFails(u)
      PROVE  armed'[v] = armed[v] /\ updating'[v] = updating[v]
  <2>1. u # v /\ UNCHANGED armed
    BY <1>t, <1>5 DEF TypeOK, OfflineUpdate, OfflineFails
  <2> QED BY <1>t, <1>5, <2>1 DEF TypeOK, OfflineUpdate, OfflineFails
<1>6. ASSUME Crash PROVE armed'[v] <= armed[v] /\ updating'[v] <= updating[v]
  BY <1>t, <1>6 DEF Crash
<1>7. ASSUME UNCHANGED <<armed, updating>> PROVE armed'[v] <= armed[v] /\ updating'[v] <= updating[v]
  BY <1>t, <1>7
<1>8. FireTimer(v) \/ (armed'[v] <= armed[v] /\ updating'[v] <= updating[v])
  <2>1. CASE \E s \in Sockets : Connect(s) \/ Disconnect(s)
    BY <1>t, <1>1, <1>2, <2>1
  <2>2. CASE \E u \in Users \ {v} : FireTimer(u)
    BY <1>t, <1>4, <2>2
  <2>3. CASE \E u \in Users : OfflineUpdate(u) \/ OfflineFails(u)
    BY <1>t, <1>5, <2>3
  <2>4. CASE /\ ~\E s \in Sockets : Connect(s) \/ Disconnect(s)
             /\ ~\E u \in Users : FireTimer(u) \/ OfflineUpdate(u) \/ OfflineFails(u)
             /\ ~Crash
    <3>1. UNCHANGED <<armed, updating>>
      BY <2>4, FollowedAssumption DEF Next, vars, ResolveUsername, OfflineEmit, OfflineAnswerLost, Heartbeat,
           AdminSetStatus, DeleteUser, StartSetStatus, SetStatusWrite, SetStatusEmit,
           SetStatusFails, timers
    <3> QED BY <1>7, <3>1
  <2> QED BY <1>6, <2>1, <2>2, <2>3, <2>4
<1>9. armed'[v] \in Nat /\ updating'[v] \in Nat
  <2>1. TypeOK'
    BY TypeStep
  <2> QED BY <2>1 DEF TypeOK
<1>10. CASE FireTimer(v)
  <2>1. Ahead(v)' < Ahead(v)
    BY <1>3, <1>10
  <2> QED BY <1>t, <1>9, <2>1
<1>11. CASE ~FireTimer(v)
  BY <1>t, <1>8, <1>9, <1>11
<1> QED BY <1>10, <1>11

LEMMA SocketsStep == Inv /\ [Next]_vars => SocketsCurrent'
<1> SUFFICES ASSUME Inv, [Next]_vars PROVE SocketsCurrent'
  OBVIOUS
<1> USE SocketUserAssumption DEF SocketsCurrent
<1>t. TypeOK /\ SocketsCurrent
  BY DEF Inv, AdminListCurrent
<1>1. CASE \E s \in Sockets : Connect(s)
  <2>1. PICK s \in Sockets : Connect(s)
    BY <1>1
  <2>2. UNION {sessions'[u] : u \in Users} = {s} \cup UNION {sessions[u] : u \in Users}
    BY <1>t, <2>1 DEF TypeOK, Connect
  <2>3. looking' = looking \cup {s} /\ adminSockets' = adminSockets
    BY <2>1 DEF Connect, dashboard
  <2> QED BY <1>t, <2>2, <2>3
<1>2. CASE \E s \in Sockets : ResolveUsername(s)
  BY <1>t, <1>2 DEF ResolveUsername, PushPresenceToAdmin
<1>3. CASE \E s \in Sockets : Disconnect(s)
  BY <1>t, <1>3 DEF Disconnect, PushPresenceToAdmin
<1>4. CASE Crash
  BY <1>4 DEF Crash
<1> QED BY <1>t, <1>1, <1>2, <1>3, <1>4, RegistryFrame

\* The push that follows a username counts right; the one that a disconnection
\* makes counts that account once more, and no other.
LEMMA UsersStep == Inv /\ [Next]_vars => UsersCurrent'
<1> SUFFICES ASSUME Inv, [Next]_vars PROVE UsersCurrent'
  OBVIOUS
<1> USE SocketUserAssumption DEF UsersCurrent, Connected
<1>t. TypeOK /\ UsersCurrent
  BY DEF Inv, AdminListCurrent
<1>1. ASSUME NEW s \in Sockets, Connect(s) PROVE UsersCurrent'
  <2>1. /\ \A u \in Users : sessions'[u] = IF u = SocketUser[s] THEN sessions[u] \cup {s}
                                                               ELSE sessions[u]
        /\ looking' = looking \cup {s} /\ adminUsers' = adminUsers
    BY <1>t, <1>1 DEF TypeOK, Connect, dashboard
  <2>2. \A u \in adminUsers : u \in Users
    BY <1>t DEF TypeOK
  <2>3. ASSUME NEW u \in Users, sessions'[u] # {}, u \notin adminUsers
        PROVE  sessions'[u] \subseteq looking'
    BY <1>t, <2>1, <2>3
  <2>4. ASSUME NEW u \in adminUsers, NEW v \in adminUsers, sessions'[u] = {}, sessions'[v] = {}
        PROVE  u = v
    BY <1>t, <2>1, <2>2, <2>4
  <2> QED BY <2>1, <2>3, <2>4
<1>2. ASSUME NEW s \in Sockets, ResolveUsername(s) PROVE UsersCurrent'
  BY <1>t, <1>2 DEF ResolveUsername, PushPresenceToAdmin
<1>3. ASSUME NEW s \in Sockets, Disconnect(s) PROVE UsersCurrent'
  <2>1. /\ \A u \in Users : sessions'[u] = IF u = SocketUser[s] THEN sessions[u] \ {s}
                                                               ELSE sessions[u]
        /\ adminUsers' = {u \in Users : sessions[u] # {}}
    BY <1>t, <1>3 DEF TypeOK, Disconnect, PushPresenceToAdmin
  <2>2. \A u \in adminUsers' : sessions'[u] = {} => u = SocketUser[s]
    BY <2>1
  <2>3. \A u \in Users : sessions'[u] # {} => u \in adminUsers'
    BY <2>1
  <2> QED BY <2>2, <2>3
<1>4. CASE Crash
  BY <1>4 DEF Crash
<1> QED BY <1>t, <1>1, <1>2, <1>3, <1>4, RegistryFrame

-----------------------------------------------------------------------------
(* Broadcasts. *)

\* An account is in step as long as nothing of what it is judged by changes.
LEMMA InStepFrame ==
  ASSUME NEW u, InStep(u),
         shown'[u] = shown[u], status'[u] = status[u], emitting'[u] = emitting[u],
         Emitters(u)' = Emitters(u), \A r \in Emitters(u) : rstatus'[r] = rstatus[r]
  PROVE  InStep(u)'
  BY DEF InStep, Unsent

LEMMA BroadcastStep == Inv /\ [Next]_vars => BroadcastsInStep'
<1> SUFFICES ASSUME Inv, [Next]_vars, NEW v \in Users, ~muddled'[v]
             PROVE  InStep(v)'
  BY DEF BroadcastsInStep
<1> USE BoundsAssumption
<1>t. TypeOK /\ TypeOK' /\ (muddled[v] \/ InStep(v))
  BY TypeStep DEF Inv, BroadcastsInStep
<1>1. ASSUME NEW u \in Users, OfflineUpdate(u) PROVE InStep(v)'
  <2>1. Emitters(v)' = Emitters(v) /\ UNCHANGED <<shown, rstatus>>
    BY <1>1 DEF OfflineUpdate, Emitters, requests
  <2>2. CASE u = v
    <3>1. ~Unsent(v)
      BY <1>t, <1>1, <2>2 DEF TypeOK, OfflineUpdate
    <3>2. emitting'[v] = 1 /\ Visible(status'[v]) = "offline"
      BY <1>t, <1>1, <2>2, <3>1 DEF TypeOK, OfflineUpdate, Unsent, AfterOffline, Visible
    <3> QED BY <2>1, <3>1, <3>2 DEF InStep, Unsent
  <2>3. CASE u # v
    <3>1. ~muddled[v] /\ emitting'[v] = emitting[v] /\ status'[v] = status[v]
      BY <1>t, <1>1, <2>3 DEF TypeOK, OfflineUpdate
    <3> QED BY <1>t, <2>1, <3>1, InStepFrame
  <2> QED BY <2>2, <2>3
<1>2. ASSUME NEW u \in Users, OfflineEmit(u) PROVE InStep(v)'
  <2>1. /\ Emitters(v)' = Emitters(v) /\ UNCHANGED <<status, rstatus>>
        /\ ~muddled[v] /\ InStep(v)
    BY <1>t, <1>2 DEF OfflineEmit, Emitters, requests
  <2>2. CASE u = v
    <3>1. emitting[v] = 1 /\ Emitters(v) = {} /\ Visible(status[v]) = "offline"
      BY <1>2, <2>1, <2>2 DEF OfflineEmit, InStep, Unsent
    <3>2. emitting'[v] = 0 /\ shown'[v] = "offline"
      BY <1>t, <1>2, <2>2, <3>1 DEF TypeOK, OfflineEmit
    <3> QED BY <2>1, <3>1, <3>2 DEF InStep, Unsent, Visible
  <2>3. CASE u # v
    <3>1. shown'[v] = shown[v] /\ emitting'[v] = emitting[v]
      BY <1>t, <1>2, <2>3 DEF TypeOK, OfflineEmit
    <3> QED BY <2>1, <3>1, InStepFrame
  <2> QED BY <2>2, <2>3
<1>3. ASSUME NEW u \in Users, OfflineAnswerLost(u) PROVE InStep(v)'
  <2>1. /\ Emitters(v)' = Emitters(v) /\ UNCHANGED <<shown, status, rstatus>> /\ u # v
        /\ ~muddled[v] /\ InStep(v) /\ emitting'[v] = emitting[v]
    BY <1>t, <1>3 DEF TypeOK, OfflineAnswerLost, Emitters, requests
  <2> QED BY <2>1, InStepFrame
<1>4. ASSUME NEW u \in Users, NEW s \in Statuses,
             Heartbeat(u) \/ AdminSetStatus(u, s) \/ DeleteUser(u)
      PROVE  InStep(v)'
  <2>1. PICK x \in Statuses \cup {"none"} : SilentWrite(u, x)
    BY <1>t, <1>4 DEF TypeOK, Heartbeat, AdminSetStatus, DeleteUser, Statuses
  <2>2. UNCHANGED <<requests, timers, shown>>
    BY <1>4 DEF Heartbeat, AdminSetStatus, DeleteUser
  <2>3. ~muddled[v] /\ Visible(status'[v]) = Visible(status[v])
    <3>1. CASE u = v
      <4>1. status'[v] = x /\ (muddled'[v] <=> (muddled[v] \/ Visible(x) # Visible(status[v])))
        BY <1>t, <2>1, <3>1 DEF TypeOK, SilentWrite
      <4> QED BY <4>1
    <3>2. CASE u # v
      BY <1>t, <2>1, <3>2 DEF TypeOK, SilentWrite
    <3> QED BY <3>1, <3>2
  <2>4. Emitters(v)' = Emitters(v) /\ UNCHANGED <<shown, emitting, rstatus>>
    BY <2>2 DEF Emitters, requests, timers
  <2> QED BY <1>t, <2>3, <2>4 DEF InStep, Unsent
<1>5. ASSUME NEW r \in Requests, NEW u \in Users, NEW s \in Statuses, StartSetStatus(r, u, s)
      PROVE  InStep(v)'
  <2>1. /\ Emitters(v)' = Emitters(v)
        /\ \A q \in Emitters(v) : rstatus'[q] = rstatus[q]
        /\ UNCHANGED <<shown, status, emitting, muddled>>
    BY <1>t, <1>5 DEF TypeOK, StartSetStatus, Emitters, timers
  <2> QED BY <1>t, <2>1, InStepFrame
<1>6. ASSUME NEW r \in Requests, SetStatusWrite(r) PROVE InStep(v)'
  <2>1. UNCHANGED <<shown, emitting, ruser, rstatus>> /\ ruser[r] \in Users
    BY <1>t, <1>6 DEF TypeOK, SetStatusWrite, timers
  <2>2. CASE ruser[r] = v
    <3>1. ~Unsent(v) /\ status'[v] = rstatus[r]
      BY <1>t, <1>6, <2>2 DEF TypeOK, SetStatusWrite
    <3>2. Emitters(v)' = {r}
      BY <1>t, <1>6, <2>1, <2>2, <3>1 DEF TypeOK, SetStatusWrite, Emitters, Unsent
    <3>3. emitting[v] = 0
      BY <1>t, <3>1 DEF TypeOK, Unsent
    <3> QED BY <2>1, <3>1, <3>2, <3>3 DEF InStep
  <2>3. CASE ruser[r] # v
    <3>1. /\ Emitters(v)' = Emitters(v) /\ status'[v] = status[v] /\ ~muddled[v]
      BY <1>t, <1>6, <2>1, <2>3 DEF TypeOK, SetStatusWrite, Emitters
    <3> QED BY <1>t, <2>1, <3>1, InStepFrame
  <2> QED BY <2>2, <2>3
<1>e. ASSUME NEW r \in Requests, EndRequest(r)
      PROVE  /\ Emitters(v)' = Emitters(v) \ {r}
             /\ \A q \in Requests \ {r} : rstatus'[q] = rstatus[q]
  BY <1>t, <1>e DEF TypeOK, EndRequest, Emitters
<1>7. ASSUME NEW r \in Requests, SetStatusEmit(r) PROVE InStep(v)'
  <2>1. /\ Emitters(v)' = Emitters(v) \ {r} /\ UNCHANGED <<status, emitting>>
        /\ \A q \in Requests \ {r} : rstatus'[q] = rstatus[q]
        /\ ~muddled[v] /\ InStep(v) /\ ruser[r] \in Users /\ rpc[r] = "emit"
    BY <1>t, <1>e, <1>7 DEF TypeOK, SetStatusEmit, timers
  <2>2. CASE ruser[r] = v
    <3>1. r \in Emitters(v)
      BY <2>1, <2>2 DEF Emitters
    <3>2. emitting[v] = 0 /\ Emitters(v) = {r} /\ Visible(rstatus[r]) = Visible(status[v])
      BY <2>1, <3>1 DEF InStep, Unsent
    <3>3. shown'[v] = Visible(rstatus[r])
      BY <1>t, <1>7, <2>2 DEF TypeOK, SetStatusEmit
    <3>4. Emitters(v)' = {}
      BY <2>1, <3>2
    <3> QED BY <1>t, <2>1, <3>2, <3>3, <3>4 DEF InStep, Unsent
  <2>3. CASE ruser[r] # v
    <3>1. r \notin Emitters(v) /\ shown'[v] = shown[v]
      BY <1>t, <1>7, <2>1, <2>3 DEF TypeOK, SetStatusEmit, Emitters
    <3>2. Emitters(v) \subseteq Requests
      BY DEF Emitters
    <3> QED BY <2>1, <3>1, <3>2, InStepFrame
  <2> QED BY <2>2, <2>3
<1>8. ASSUME NEW r \in Requests, SetStatusFails(r) PROVE InStep(v)'
  <2>1. /\ Emitters(v)' = Emitters(v) \ {r} /\ UNCHANGED <<shown, status, emitting>>
        /\ \A q \in Requests \ {r} : rstatus'[q] = rstatus[q]
    BY <1>t, <1>e, <1>8 DEF TypeOK, SetStatusFails, timers
  <2>2. ~muddled[v] /\ r \notin Emitters(v)
    BY <1>t, <1>8 DEF TypeOK, SetStatusFails, Emitters
  <2>3. Emitters(v) \subseteq Requests
    BY DEF Emitters
  <2> QED BY <1>t, <2>1, <2>2, <2>3, InStepFrame
<1>9. CASE Crash
  <2>1. ~muddled[v] /\ ~Unsent(v) /\ status'[v] = status[v] /\ shown'[v] = shown[v]
    BY <1>t, <1>9 DEF Crash, TypeOK
  <2>2. shown[v] = Visible(status[v])
    BY <1>t, <2>1 DEF InStep, Unsent
  <2>3. ~Unsent(v)'
    BY <1>9 DEF Crash, Unsent, Emitters
  <2> QED BY <2>1, <2>2, <2>3 DEF InStep, Visible
<1>10. CASE \/ \E s \in Sockets : Connect(s) \/ ResolveUsername(s) \/ Disconnect(s)
            \/ \E u \in Users : FireTimer(u) \/ OfflineFails(u)
            \/ UNCHANGED vars
  <2>1. /\ UNCHANGED <<shown, status, emitting, rpc, ruser, rstatus, muddled>>
    BY <1>10 DEF Connect, ResolveUsername, Disconnect, FireTimer, OfflineFails, vars, timers,
      requests
  <2> QED BY <1>t, <2>1, InStepFrame DEF Emitters
<1> QED BY <1>1, <1>2, <1>3, <1>4, <1>5, <1>6, <1>7, <1>8, <1>9, <1>10, FollowedAssumption
      DEF Next, Statuses

-----------------------------------------------------------------------------
(* The theorems. *)

LEMMA InitInv == Init => Inv
<1> SUFFICES ASSUME Init PROVE Inv
  OBVIOUS
<1> USE SocketUserAssumption, BoundsAssumption DEF Init
<1>1. TypeOK
  BY DEF TypeOK, Statuses
<1>2. TimerDiscipline /\ DepartureTracked /\ AdminListCurrent
  BY DEF TimerDiscipline, DepartureTracked, AdminListCurrent, SocketsCurrent, UsersCurrent, Connected
<1>3. BroadcastsInStep
  BY DEF BroadcastsInStep, InStep, Unsent, Emitters, Visible
<1>4. DepartedGone
  BY DEF DepartedGone
<1> QED BY <1>1, <1>2, <1>3, <1>4 DEF Inv

LEMMA NextInv == Inv /\ [Next]_vars => Inv'
  BY TypeStep, TimerStep, DepartureStep, GoneStep, SocketsStep, UsersStep, BroadcastStep
     DEF Inv, AdminListCurrent

LEMMA Invariance == Spec => []Inv
  BY InitInv, NextInv, PTL DEF Spec

\* Type correctness, and with it: no socket is ever filed under another account.
THEOREM TypeCorrect == Spec => []TypeOK
<1>1. Inv => TypeOK
  BY DEF Inv
<1> QED BY <1>1, Invariance, PTL

\* Timers and Map entries go together and no connected account has one, so the
\* callback's own test for a reconnection never succeeds.
THEOREM TimersMatch == Spec => []TimerDiscipline
<1>1. Inv => TimerDiscipline
  BY DEF Inv
<1> QED BY <1>1, Invariance, PTL

\* As long as the process has not crashed no departure is forgotten.
THEOREM DeparturesTracked == Spec => []DepartureTracked
<1>1. Inv => DepartureTracked
  BY DEF Inv
<1> QED BY <1>1, Invariance, PTL

\* A departure makes for its end: the ranking argument behind DepartureSettled, which
\* fairness turns into an arrival.
THEOREM DeparturesNear == Spec => DepartureNears
<1>1. Inv /\ [Next]_vars => [\A u \in Users : departed[u] /\ departed'[u] =>
        /\ Ahead(u)' <= Ahead(u)
        /\ FireTimer(u) => Ahead(u)' < Ahead(u)]_vars
  BY AheadStep
<1> QED BY <1>1, Invariance, PTL DEF Spec, DepartureNears

\* Observers see the stored status once every broadcast has been sent, but for
\* silent and overlapped writes.
THEOREM ObserversInStep == Spec => []ShownMatches
<1>1. Inv => ShownMatches
  <2> SUFFICES ASSUME Inv, NEW u \in Users, ~Unsent(u), ~muddled[u]
               PROVE  shown[u] = Visible(status[u])
    BY DEF ShownMatches
  <2>1. InStep(u)
    BY DEF Inv, BroadcastsInStep
  <2> QED BY <2>1 DEF InStep, Unsent
<1> QED BY <1>1, Invariance, PTL

\* The dashboard's list is the registry, but for sockets not yet named, and its number
\* of accounts is one too high at the most.
THEOREM AdminListed == Spec => []AdminListCurrent
<1>1. Inv => AdminListCurrent
  BY DEF Inv
<1> QED BY <1>1, Invariance, PTL

=============================================================================
