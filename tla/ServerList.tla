----------------------------- MODULE ServerList -----------------------------
(***************************************************************************)
(* The list of chat servers of an account: POST /api/servers reads the     *)
(* next position, inserts the row and broadcasts the list without waiting  *)
(* (src/src/controllers/serversController.js, src/src/routes/servers.js).  *)
(*                                                                         *)
(* Rows come and, while the account lives, never go: entries is in order   *)
(* of added_at, and a list that was read is known by its length.           *)
(***************************************************************************)
EXTENDS Naturals, Sequences, FiniteSetsExt

CONSTANTS
  Users,      \* accounts (users.id)
  NoUser,     \* "nobody"
  Admin,      \* ADMIN_UUID: the one account that cannot be deleted
  Addresses,  \* server_address; a row's id, a UUID, is known by it
  Requests    \* HTTP requests that can be in flight together

ASSUME NobodyAssumption == NoUser \notin Users
ASSUME UuidAssumption == \A a \in Addresses : a \notin Nat
ASSUME FiniteAssumption == IsFiniteSet(Addresses)

VARIABLES
  \* PostgreSQL
  account,    \* accounts that exist
  entries,    \* user_servers, an account's rows in order of added_at
  \* the process
  pc, who,
  next,       \* next_pos, as the request read it
  seen,       \* how many rows it read, for the properties
  \* broadcastServerList, not awaited
  queued,     \* calls that wait for their SELECT
  answers,    \* lists read and not yet emitted: how many of each length
  \* what the account's sockets were sent
  shown,      \* length of the last list in the room user:<id>
  \* history, read by the properties alone
  \* (both until the list is next sent as it is)
  overtaken,  \* accounts that were sent an older list after a newer one
  failed,     \* accounts a broadcast of which failed, or that were added to unheard
  refused     \* accounts whose PATCH or DELETE of an entry of theirs was refused

table     == <<account, entries>>
requests  == <<pc, who, next, seen>>
broadcast == <<queued, answers>>
history   == <<overtaken, failed, refused>>
vars      == <<table, requests, broadcast, shown, history>>

Lengths == 0..Cardinality(Addresses)

Listed(u) == {entries[u][i].address : i \in DOMAIN entries[u]}

Positions(u) == {entries[u][i].position : i \in DOMAIN entries[u]}

Pending(u) == {r \in Requests : pc[r] = "insert" /\ who[r] = u}

-----------------------------------------------------------------------------

Init ==
  /\ account = Users
  /\ entries = [u \in Users |-> <<>>]
  /\ pc = [r \in Requests |-> "idle"]
  /\ who = [r \in Requests |-> NoUser]
  /\ next = [r \in Requests |-> 0]
  /\ seen = [r \in Requests |-> 0]
  /\ queued = [u \in Users |-> 0]
  /\ answers = [u \in Users |-> [n \in Lengths |-> 0]]
  /\ shown = [u \in Users |-> 0]
  /\ overtaken = {} /\ failed = {} /\ refused = {}

Finish(r) ==
  /\ pc' = [pc EXCEPT ![r] = "idle"]
  /\ who' = [who EXCEPT ![r] = NoUser]
  /\ next' = [next EXCEPT ![r] = 0]
  /\ seen' = [seen EXCEPT ![r] = 0]

-----------------------------------------------------------------------------
(* POST /api/servers *)

\* Mutants: COUNT for MAX + 1, and MAX without the + 1.
MutNextPosition(u) == Len(entries[u])
MutSamePosition(u) == Max(Positions(u) \cup {0})

\* COALESCE(MAX(position), -1) + 1.
NextPosition(u) == IF entries[u] = <<>> THEN 0 ELSE Max(Positions(u)) + 1

ReadPosition(r, u) ==
  /\ pc[r] = "idle"
  /\ pc' = [pc EXCEPT ![r] = "insert"]
  /\ who' = [who EXCEPT ![r] = u]
  /\ next' = [next EXCEPT ![r] = NextPosition(u)]
  /\ seen' = [seen EXCEPT ![r] = Len(entries[u])]
  /\ UNCHANGED <<table, broadcast, shown, history>>

\* Mutant: the table without UNIQUE (user_id, server_address).
MutInsertable(u, a) == u \in account

\* The foreign key and UNIQUE (user_id, server_address) let the row in.
Insertable(u, a) == u \in account /\ a \notin Listed(u)

\* Mutant: the response does not start a broadcast.
MutBroadcasts(n) == n

\* One more call of broadcastServerList.
Broadcasts(n) == n + 1

\* The INSERT stores the row, and the request ends.  Nothing reads the address that
\* came with the request before.
AddRow(r, a) ==
  LET u == who[r] IN
  /\ pc[r] = "insert"
  /\ Insertable(u, a)
  /\ entries' = [entries EXCEPT ![u] =
       Append(@, [address |-> a, position |-> next[r], seen |-> seen[r]])]
  /\ Finish(r)
  /\ UNCHANGED <<account, answers, shown, overtaken, refused>>

\* The row is back: broadcastServerList is called and the request answered, 201.
Insert(r, a) ==
  /\ AddRow(r, a)
  /\ queued' = [queued EXCEPT ![who[r]] = Broadcasts(@)]
  /\ UNCHANGED failed

\* The row is stored and the database's answer lost: 500, and no broadcast.
InsertUnanswered(r, a) ==
  /\ AddRow(r, a)
  /\ failed' = failed \cup {who[r]}
  /\ UNCHANGED queued

\* 409, or 500 when the account is gone or the statement fails.
Fail(r) ==
  /\ pc[r] = "insert"
  /\ Finish(r)
  /\ UNCHANGED <<table, broadcast, shown, history>>

-----------------------------------------------------------------------------
(* broadcastServerList *)

SelectList(u) ==
  /\ queued[u] > 0
  /\ queued' = [queued EXCEPT ![u] = @ - 1]
  /\ answers' = [answers EXCEPT ![u][Len(entries[u])] = @ + 1]
  /\ UNCHANGED <<table, requests, shown, history>>

\* The queries of several calls may be answered in any order.
Answered(u, n) == answers[u][n] > 0

\* emitServerListSync, to every socket in the room.
Emit(u, n) ==
  /\ Answered(u, n)
  /\ answers' = [answers EXCEPT ![u][n] = @ - 1]
  /\ shown' = [shown EXCEPT ![u] = n]
  /\ IF n = Len(entries[u])
       THEN overtaken' = overtaken \ {u} /\ failed' = failed \ {u}
       ELSE /\ overtaken' = IF n < shown[u] THEN overtaken \cup {u} ELSE overtaken
            /\ UNCHANGED failed
  /\ UNCHANGED <<table, requests, queued, refused>>

\* .catch(() => {})
BroadcastFails(u) ==
  /\ queued[u] > 0
  /\ queued' = [queued EXCEPT ![u] = @ - 1]
  /\ failed' = failed \cup {u}
  /\ UNCHANGED <<table, requests, answers, shown, overtaken, refused>>

-----------------------------------------------------------------------------
(* PATCH and DELETE /api/servers/:id, and the admin *)

\* param('id').isInt({ min: 1 }).
IsInt(id) == id \in Nat \ {0}

\* Both routes ask for an integer where the column is a UUID: 400, and the
\* controller's updateServer and removeServer are never reached.
EditServer(u, a) ==
  /\ a \in Listed(u)
  /\ ~IsInt(a)
  /\ refused' = refused \cup {u}
  /\ UNCHANGED <<table, requests, broadcast, shown, overtaken, failed>>

\* deleteUser: the rows go with the account, and nothing is broadcast.
DeleteUser(u) ==
  /\ u \in account \ {Admin}
  /\ account' = account \ {u}
  /\ entries' = [entries EXCEPT ![u] = <<>>]
  /\ UNCHANGED <<requests, broadcast, shown, history>>

Sync(u) == SelectList(u) \/ BroadcastFails(u) \/ \E n \in Lengths : Emit(u, n)

Next ==
  \/ \E r \in Requests, u \in Users : ReadPosition(r, u)
  \/ \E r \in Requests, a \in Addresses : Insert(r, a) \/ InsertUnanswered(r, a)
  \/ \E r \in Requests : Fail(r)
  \/ \E u \in Users : Sync(u) \/ DeleteUser(u)
  \/ \E u \in Users, a \in Addresses : EditServer(u, a)

Spec == Init /\ [][Next]_vars

\* A query once sent is answered or fails.
FairSpec == Spec /\ \A u \in Users : WF_vars(Sync(u))

-----------------------------------------------------------------------------
(* Properties *)

\* Every variable has its type, and no address is listed twice.
TypeOK ==
  /\ account \subseteq Users
  /\ entries \in [Users -> Seq([address : Addresses, position : Nat, seen : Nat])]
  /\ pc \in [Requests -> {"idle", "insert"}]
  /\ who \in [Requests -> Users \cup {NoUser}]
  /\ next \in [Requests -> Nat] /\ seen \in [Requests -> Nat]
  /\ queued \in [Users -> Nat]
  /\ answers \in [Users -> [Lengths -> Nat]]
  /\ shown \in [Users -> Lengths]
  /\ overtaken \subseteq Users /\ failed \subseteq Users /\ refused \subseteq Users
  /\ \A u \in Users : Len(entries[u]) = Cardinality(Listed(u))

\* "Place new server at the end of the list": a server has a position of its own
\* behind every server added before it, unless that one was inserted after this
\* one's request had read the positions.
LastUnlessOverlapped ==
  \A u \in Users : \A i, j \in DOMAIN entries[u] :
    i < j /\ entries[u][i].position >= entries[u][j].position => entries[u][j].seen < i

\* However additions overlap, the positions in use are 0, 1, 2, ... without a gap.
NoGaps ==
  \A u \in account : entries[u] # <<>> => Positions(u) = 0..Max(Positions(u))

\* A server that was added is sent to the account's sockets, whatever else is
\* added meanwhile, unless a broadcast of the account's fails or is overtaken,
\* or an INSERT was stored without its answer.
AdditionSynced ==
  \A u \in Users : \A n \in Lengths :
    Len(entries[u]) = n ~> shown[u] >= n \/ u \in overtaken \cup failed \/ u \notin account

\* docs/Federation-API.md of PATCH: "Updates the `nickname` or `position` of an
\* entry", and of DELETE: "Removes a server from the user's list".  An owner who
\* names an entry by the id the list gave is not refused.
OwnEntriesEditable == refused = {}

=============================================================================
