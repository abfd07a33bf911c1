--------------------------- MODULE ServerListProofs ---------------------------
(***************************************************************************)
(* The server list of ServerList for any accounts, addresses and requests. *)
(***************************************************************************)
EXTENDS ServerList, FiniteSetTheorems, TLAPS

Entry == [address : Addresses, position : Nat, seen : Nat]

-----------------------------------------------------------------------------
(* The inductive invariant. *)

\* The positions of u are those below m.
Below(u, m) == Positions(u) = {p \in Nat : p < m}

Gapless == \A u \in Users : \E m \in Nat : Below(u, m)

\* What a request has read still holds of the rows s, though there may be more: its
\* position n is the first or just behind one that is taken, and behind the k it saw.
Held(s, n, k) ==
  /\ k <= Len(s)
  /\ n = 0 \/ n - 1 \in {s[i].position : i \in DOMAIN s}
  /\ \A i \in 1..k : s[i].position < n

ReadsHold ==
  \A r \in Requests : pc[r] = "insert" /\ who[r] \in account =>
    Held(entries[who[r]], next[r], seen[r])

\* An entry is behind all that its request saw.
BehindSeen ==
  \A u \in Users : \A i, j \in DOMAIN entries[u] :
    i < j /\ i <= entries[u][j].seen => entries[u][i].position < entries[u][j].position

\* A list that was read is no longer than the one that is stored.
AnswersOld ==
  \A u \in account : \A n \in Lengths : answers[u][n] > 0 => n <= Len(entries[u])

\* A broadcast of the stored list is still to come.
Owed(u) == queued[u] > 0 \/ answers[u][Len(entries[u])] > 0

\* The sockets of an account have the stored list or will be sent it, unless a
\* broadcast of it failed or overtook a newer one.
SentOrOwed ==
  \A u \in account : shown[u] = Len(entries[u]) \/ Owed(u) \/ u \in overtaken \cup failed

\* Once no broadcast of an account is under way, its sockets show the stored list,
\* unless the last ones failed or were overtaken (broadcastServerList reads the list
\* after the INSERT it is called for).
SyncedOnceQuiet ==
  \A u \in account :
    queued[u] = 0 /\ (\A n \in Lengths : answers[u][n] = 0) =>
      shown[u] = Len(entries[u]) \/ u \in overtaken \cup failed

IInv ==
  /\ TypeOK
  /\ Gapless
  /\ ReadsHold
  /\ BehindSeen
  /\ AnswersOld
  /\ SentOrOwed

-----------------------------------------------------------------------------
(* Lemmas. *)

LEMMA LengthsType == /\ IsFiniteSet(Addresses)
                     /\ Cardinality(Addresses) \in Nat
                     /\ 0 \in Lengths /\ Lengths \subseteq Nat
BY FiniteAssumption, FS_CardinalityType DEF Lengths

\* MAX of a set of the numbers below m.
LEMMA MaxBelow ==
  ASSUME NEW m \in Nat, m > 0
  PROVE  Max({p \in Nat : p < m}) = m - 1
<1> DEFINE S == {p \in Nat : p < m}
<1>1. m - 1 \in S /\ \A y \in S : m - 1 >= y
  OBVIOUS
<1>2. \A x \in S : (\A y \in S : x >= y) => x = m - 1
  <2> SUFFICES ASSUME NEW x \in S, x >= m - 1 PROVE x = m - 1
    BY <1>1
  <2> QED OBVIOUS
<1> QED BY <1>1, <1>2 DEF Max

\* The next position is the number of those in use.
LEMMA NextIs ==
  ASSUME NEW u \in Users, TypeOK, NEW m \in Nat, Below(u, m)
  PROVE  /\ NextPosition(u) = m
         /\ entries[u] = <<>> <=> m = 0
         /\ \A i \in DOMAIN entries[u] : entries[u][i].position \in Nat /\ entries[u][i].position < m
<1>1. entries[u] \in Seq(Entry)
  BY DEF TypeOK, Entry
<1>2. \A i \in DOMAIN entries[u] : entries[u][i].position \in Nat /\ entries[u][i].position < m
  BY DEF Below, Positions
<1>3. entries[u] = <<>> => m = 0
  <2> SUFFICES ASSUME entries[u] = <<>>, m # 0 PROVE FALSE
    OBVIOUS
  <2>1. 0 \in Positions(u)
    BY DEF Below
  <2> QED BY <2>1 DEF Positions
<1>4. entries[u] # <<>> => m > 0
  <2> SUFFICES ASSUME entries[u] # <<>> PROVE m > 0
    OBVIOUS
  <2>1. 1 \in DOMAIN entries[u]
    BY <1>1
  <2> QED BY <1>2, <2>1
<1>5. m > 0 => Max(Positions(u)) = m - 1
  BY MaxBelow DEF Below
<1> QED BY <1>2, <1>3, <1>4, <1>5 DEF NextPosition

-----------------------------------------------------------------------------
(* Types. *)

\* The addresses of a sequence of entries.
ListedIn(s) == {s[i].address : i \in DOMAIN s}

\* What an INSERT that succeeds does to the rows.
LEMMA Inserted ==
  ASSUME TypeOK, NEW r \in Requests, NEW a \in Addresses, AddRow(r, a)
  PROVE  /\ who[r] \in Users /\ who[r] \in account /\ pc[r] = "insert"
         /\ entries[who[r]] \in Seq(Entry)
         /\ entries'[who[r]] = Append(entries[who[r]],
              [address |-> a, position |-> next[r], seen |-> seen[r]])
         /\ entries'[who[r]] \in Seq(Entry)
         /\ \A u \in Users \ {who[r]} : entries'[u] = entries[u]
         /\ entries' \in [Users -> Seq(Entry)]
         /\ UNCHANGED account
<1>1. who[r] \in Users /\ who[r] \in account /\ pc[r] = "insert"
  BY DEF AddRow, Insertable, TypeOK
<1>2. [address |-> a, position |-> next[r], seen |-> seen[r]] \in Entry
  BY DEF TypeOK, Entry
<1>3. entries[who[r]] \in Seq(Entry) /\ entries \in [Users -> Seq(Entry)]
  BY <1>1 DEF TypeOK, Entry
<1>4. entries' = [entries EXCEPT ![who[r]] = Append(entries[who[r]],
         [address |-> a, position |-> next[r], seen |-> seen[r]])]
  BY DEF AddRow
<1>5. Append(entries[who[r]], [address |-> a, position |-> next[r], seen |-> seen[r]]) \in Seq(Entry)
  BY <1>2, <1>3
<1> QED BY <1>1, <1>3, <1>4, <1>5 DEF AddRow

LEMMA FinishType ==
  ASSUME TypeOK, NEW r \in Requests, Finish(r)
  PROVE  /\ pc' \in [Requests -> {"idle", "insert"}]
         /\ who' \in [Requests -> Users \cup {NoUser}]
         /\ next' \in [Requests -> Nat] /\ seen' \in [Requests -> Nat]
BY DEF TypeOK, Finish

LEMMA TypeStep == TypeOK /\ Gapless /\ [Next]_vars => TypeOK'
<1> SUFFICES ASSUME TypeOK, Gapless, [Next]_vars PROVE TypeOK'
  OBVIOUS
<1> USE LengthsType
\* No address is listed twice.
<1>0. /\ \A u \in Users : Len(entries[u]) = Cardinality(ListedIn(entries[u]))
      /\ TypeOK' <=> /\ account' \subseteq Users
                     /\ entries' \in [Users -> Seq(Entry)]
                     /\ pc' \in [Requests -> {"idle", "insert"}]
                     /\ who' \in [Requests -> Users \cup {NoUser}]
                     /\ next' \in [Requests -> Nat] /\ seen' \in [Requests -> Nat]
                     /\ queued' \in [Users -> Nat]
                     /\ answers' \in [Users -> [Lengths -> Nat]]
                     /\ shown' \in [Users -> Lengths]
                     /\ overtaken' \subseteq Users /\ failed' \subseteq Users
                     /\ refused' \subseteq Users
                     /\ \A u \in Users : Len(entries'[u]) = Cardinality(ListedIn(entries'[u]))
  BY DEF TypeOK, Entry, Listed, ListedIn
<1>1. ASSUME NEW r \in Requests, NEW u \in Users, ReadPosition(r, u) PROVE TypeOK'
  <2>1. NextPosition(u) \in Nat
    BY NextIs DEF Gapless
  <2>2. Len(entries[u]) \in Nat
    BY DEF TypeOK
  <2>3. next' \in [Requests -> Nat] /\ seen' \in [Requests -> Nat]
    BY <1>1, <2>1, <2>2 DEF ReadPosition, TypeOK
  <2> QED BY <1>0, <1>1, <2>3 DEF ReadPosition, TypeOK, table, broadcast, history, Entry
<1>2. ASSUME NEW r \in Requests, NEW a \in Addresses, Insert(r, a) \/ InsertUnanswered(r, a)
      PROVE  TypeOK'
  <2> DEFINE w == who[r]
  <2>0. AddRow(r, a)
    BY <1>2 DEF Insert, InsertUnanswered
  <2>1. entries' \in [Users -> Seq(Entry)] /\ w \in Users /\ UNCHANGED account
    BY <2>0, Inserted
  <2>2. queued' \in [Users -> Nat] /\ failed' \subseteq Users
    <3>1. CASE Insert(r, a)
      BY <2>1, <3>1 DEF Insert, Broadcasts, TypeOK
    <3>2. CASE InsertUnanswered(r, a)
      BY <2>1, <3>2 DEF InsertUnanswered, TypeOK
    <3> QED BY <1>2, <3>1, <3>2
  <2>3. Len(entries'[w]) = Cardinality(ListedIn(entries'[w]))
    <3>1. /\ entries[w] \in Seq(Entry) /\ a \notin ListedIn(entries[w])
          /\ entries'[w] = Append(entries[w], [address |-> a, position |-> next[r], seen |-> seen[r]])
      BY <2>0, Inserted DEF AddRow, Insertable, Listed, ListedIn
    <3>2. Len(entries'[w]) = Len(entries[w]) + 1
      BY <3>1
    <3>3. ListedIn(entries'[w]) = ListedIn(entries[w]) \cup {a}
      <4> DEFINE e == entries[w]
                 f == entries'[w]
      <4>1. /\ DOMAIN f = DOMAIN e \cup {Len(e) + 1} /\ f[Len(e) + 1].address = a
            /\ \A i \in DOMAIN e : f[i] = e[i]
        BY <3>1
      <4>2. ListedIn(entries'[w]) = {f[i].address : i \in DOMAIN f} /\ ListedIn(entries[w]) = {e[i].address : i \in DOMAIN e}
        BY DEF ListedIn
      <4> HIDE DEF e, f
      <4> QED BY <4>1, <4>2
    <3>4. ListedIn(entries[w]) \in SUBSET Addresses
      <4>1. \A i \in DOMAIN entries[w] : entries[w][i] \in Entry
        BY <3>1
      <4> QED BY <4>1 DEF ListedIn, Entry
    <3>5. IsFiniteSet(ListedIn(entries[w])) /\ Cardinality(ListedIn(entries[w])) \in Nat
      BY <3>4, FS_Subset, FS_CardinalityType
    <3>6. Cardinality(ListedIn(entries[w]) \cup {a}) = Cardinality(ListedIn(entries[w])) + 1
      BY <3>1, <3>5, FS_AddElement
    <3> QED BY <1>0, <2>1, <3>2, <3>3, <3>6
  <2>4. \A u \in Users \ {w} : Len(entries'[u]) = Cardinality(ListedIn(entries'[u]))
    BY <1>0, <2>0, Inserted
  <2>5. \A u \in Users : Len(entries'[u]) = Cardinality(ListedIn(entries'[u]))
    BY <2>3, <2>4
  <2> QED BY <1>0, <2>0, <2>1, <2>2, <2>5, Inserted, FinishType DEF AddRow, TypeOK, Entry
<1>3. ASSUME NEW r \in Requests, Fail(r) PROVE TypeOK'
  BY <1>0, <1>3, FinishType DEF Fail, TypeOK, table, broadcast, history, Entry
<1>4. ASSUME NEW u \in Users, SelectList(u) PROVE TypeOK'
  <2>1. queued' \in [Users -> Nat]
    BY <1>4 DEF SelectList, TypeOK
  <2>2. answers' \in [Users -> [Lengths -> Nat]]
    <3>1. answers' = [answers EXCEPT ![u] =
                        [answers[u] EXCEPT ![Len(entries[u])] = answers[u][Len(entries[u])] + 1]]
      BY <1>4 DEF SelectList
    <3>2. answers[u] \in [Lengths -> Nat]
      BY DEF TypeOK
    <3>3. [answers[u] EXCEPT ![Len(entries[u])] = answers[u][Len(entries[u])] + 1] \in [Lengths -> Nat]
      <4>1. ASSUME NEW n \in Lengths PROVE answers[u][n] + 1 \in Nat
        <5>1. answers[u][n] \in Nat
          BY <3>2
        <5> QED BY <5>1
      <4> QED BY <3>2, <4>1
    <3> QED BY <3>1, <3>3 DEF TypeOK
  <2> QED BY <1>0, <1>4, <2>1, <2>2 DEF SelectList, TypeOK, table, requests, history, Entry
<1>5. ASSUME NEW u \in Users, BroadcastFails(u) PROVE TypeOK'
  <2>1. queued' \in [Users -> Nat] /\ failed' \subseteq Users
    BY <1>5 DEF BroadcastFails, TypeOK
  <2> QED BY <1>0, <1>5, <2>1 DEF BroadcastFails, TypeOK, table, requests, Entry
<1>6. ASSUME NEW u \in Users, NEW n \in Lengths, Emit(u, n) PROVE TypeOK'
  <2>1. answers' \in [Users -> [Lengths -> Nat]]
    <3>1. answers' = [answers EXCEPT ![u] = [answers[u] EXCEPT ![n] = answers[u][n] - 1]]
          /\ answers[u][n] > 0
      BY <1>6 DEF Emit, Answered
    <3>2. answers[u] \in [Lengths -> Nat] /\ answers[u][n] - 1 \in Nat
      BY <3>1 DEF TypeOK
    <3>3. [answers[u] EXCEPT ![n] = answers[u][n] - 1] \in [Lengths -> Nat]
      BY <3>2
    <3> QED BY <3>1, <3>3 DEF TypeOK
  <2>2. shown' \in [Users -> Lengths] /\ overtaken' \subseteq Users /\ failed' \subseteq Users
    BY <1>6 DEF Emit, TypeOK
  <2> QED BY <1>0, <1>6, <2>1, <2>2 DEF Emit, TypeOK, table, requests, Entry
<1>7. ASSUME NEW u \in Users, NEW a \in Addresses, EditServer(u, a) PROVE TypeOK'
  BY <1>0, <1>7 DEF EditServer, TypeOK, table, requests, broadcast, Entry
<1>8. ASSUME NEW u \in Users, DeleteUser(u) PROVE TypeOK'
  <2>1. entries'[u] = <<>> /\ \A v \in Users \ {u} : entries'[v] = entries[v]
    BY <1>8 DEF DeleteUser, TypeOK
  <2>2. entries' \in [Users -> Seq(Entry)] /\ account' \subseteq Users
    <3>1. <<>> \in Seq(Entry)
      OBVIOUS
    <3> QED BY <1>8, <3>1 DEF DeleteUser, TypeOK, Entry
  <2>3. \A v \in Users : Len(entries'[v]) = Cardinality(ListedIn(entries'[v]))
    <3>1. ListedIn(entries'[u]) = {}
      BY <2>1 DEF ListedIn
    <3>2. Len(entries'[u]) = Cardinality(ListedIn(entries'[u]))
      BY <2>1, <3>1, FS_EmptySet
    <3>3. \A v \in Users \ {u} : Len(entries'[v]) = Cardinality(ListedIn(entries'[v]))
      BY <1>0, <2>1
    <3> QED BY <3>2, <3>3
  <2> QED BY <1>0, <1>8, <2>2, <2>3 DEF DeleteUser, TypeOK, requests, broadcast, history, Entry
<1>9. CASE UNCHANGED vars
  BY <1>0, <1>9 DEF vars, table, requests, broadcast, history, TypeOK, Entry
<1> QED BY <1>1, <1>2, <1>3, <1>4, <1>5, <1>6, <1>7, <1>8, <1>9 DEF Next, Sync

-----------------------------------------------------------------------------
(* Positions. *)

\* The row an INSERT adds, beside those that were there.
LEMMA InsertedRow ==
  ASSUME TypeOK, NEW r \in Requests, NEW a \in Addresses, AddRow(r, a)
  PROVE  LET e == entries[who[r]]
             f == entries'[who[r]]
         IN  /\ Len(e) \in Nat
             /\ DOMAIN e = 1..Len(e) /\ DOMAIN f = 1..(Len(e) + 1) /\ Len(f) = Len(e) + 1
             /\ \A i \in DOMAIN e : f[i] = e[i] /\ e[i] \in Entry
             /\ f[Len(e) + 1].position = next[r] /\ f[Len(e) + 1].seen = seen[r]
<1>1. /\ entries[who[r]] \in Seq(Entry)
      /\ entries'[who[r]] = Append(entries[who[r]],
              [address |-> a, position |-> next[r], seen |-> seen[r]])
  BY Inserted
<1> QED BY <1>1

LEMMA GaplessStep == TypeOK /\ Gapless /\ ReadsHold /\ [Next]_vars => Gapless'
<1> SUFFICES ASSUME TypeOK, Gapless, ReadsHold, [Next]_vars, NEW u \in Users
             PROVE  \E m \in Nat : Positions(u)' = {p \in Nat : p < m}
  BY DEF Gapless, Below
<1>1. PICK m \in Nat : Positions(u) = {p \in Nat : p < m}
  BY DEF Gapless, Below
<1>2. CASE entries'[u] = entries[u]
  BY <1>1, <1>2 DEF Positions
<1>3. ASSUME NEW r \in Requests, NEW a \in Addresses, AddRow(r, a), u = who[r]
      PROVE  \E k \in Nat : Positions(u)' = {p \in Nat : p < k}
  <2> DEFINE e == entries[u]
             f == entries'[u]
  <2>1. /\ Len(e) \in Nat /\ DOMAIN e = 1..Len(e) /\ DOMAIN f = 1..(Len(e) + 1)
        /\ \A i \in DOMAIN e : f[i] = e[i]
        /\ f[Len(e) + 1].position = next[r]
    BY <1>3, InsertedRow
  <2>2. Positions(u) = {e[i].position : i \in DOMAIN e}
        /\ Positions(u)' = {f[i].position : i \in DOMAIN f}
    BY DEF Positions
  <2>3. Positions(u)' = Positions(u) \cup {next[r]}
    <3> HIDE DEF e, f
    <3>1. DOMAIN f = DOMAIN e \cup {Len(e) + 1}
      BY <2>1
    <3> QED BY <2>1, <2>2, <3>1
  <2>4. next[r] \in Nat /\ next[r] <= m
    <3>1. next[r] = 0 \/ next[r] - 1 \in Positions(u)
      BY <1>3, Inserted DEF ReadsHold, Held, Positions
    <3> QED BY <1>1, <3>1 DEF TypeOK
  <2>5. CASE next[r] = m
    <3>1. Positions(u)' = {p \in Nat : p < m + 1}
      BY <1>1, <2>3, <2>5
    <3> QED BY <3>1
  <2>6. CASE next[r] < m
    <3>1. Positions(u)' = {p \in Nat : p < m}
      BY <1>1, <2>3, <2>4, <2>6
    <3> QED BY <3>1
  <2> QED BY <2>4, <2>5, <2>6
<1>4. CASE entries'[u] = <<>>
  <2>1. Positions(u)' = {p \in Nat : p < 0}
    BY <1>4 DEF Positions
  <2> QED BY <2>1
<1>5. ASSUME NEW r \in Requests, NEW a \in Addresses, AddRow(r, a)
      PROVE  \E k \in Nat : Positions(u)' = {p \in Nat : p < k}
  BY <1>2, <1>3, <1>5, Inserted
<1>6. ASSUME NEW v \in Users, DeleteUser(v)
      PROVE  entries'[u] = <<>> \/ entries'[u] = entries[u]
  BY <1>6 DEF DeleteUser, TypeOK
<1>7. CASE UNCHANGED entries
  BY <1>2, <1>7
<1> QED
  BY <1>2, <1>4, <1>5, <1>6, <1>7
     DEF Next, Sync, ReadPosition, Fail, SelectList, BroadcastFails, Emit, EditServer, Insert,
         InsertUnanswered, table, vars

LEMMA BehindStep == TypeOK /\ BehindSeen /\ ReadsHold /\ [Next]_vars => BehindSeen'
<1> SUFFICES ASSUME TypeOK, BehindSeen, ReadsHold, [Next]_vars, NEW u \in Users,
                    NEW i \in DOMAIN entries'[u], NEW j \in DOMAIN entries'[u],
                    i < j, i <= entries'[u][j].seen
             PROVE  entries'[u][i].position < entries'[u][j].position
  BY DEF BehindSeen
<1>1. CASE entries'[u] = entries[u]
  BY <1>1 DEF BehindSeen
<1>2. ASSUME NEW r \in Requests, NEW a \in Addresses, AddRow(r, a), u = who[r]
      PROVE  entries'[u][i].position < entries'[u][j].position
  <2> DEFINE e == entries[u]
             f == entries'[u]
  <2>1. /\ Len(e) \in Nat /\ DOMAIN e = 1..Len(e) /\ DOMAIN f = 1..(Len(e) + 1)
        /\ \A k \in DOMAIN e : f[k] = e[k]
        /\ f[Len(e) + 1].position = next[r] /\ f[Len(e) + 1].seen = seen[r]
    BY <1>2, InsertedRow
  <2>2. \A k \in 1..seen[r] : e[k].position < next[r]
    BY <1>2, Inserted DEF ReadsHold, Held
  <2>3. \A k, l \in DOMAIN e : k < l /\ k <= e[l].seen => e[k].position < e[l].position
    BY DEF BehindSeen
  <2>4. seen[r] \in Nat
    BY DEF TypeOK
  <2> HIDE DEF e, f
  <2>5. i \in DOMAIN f /\ j \in DOMAIN f /\ i < j /\ i <= f[j].seen
    BY DEF f
  <2>6. f[i].position < f[j].position
    <3>1. i \in DOMAIN e
      BY <2>1, <2>5
    <3>2. CASE j = Len(e) + 1
      BY <2>1, <2>2, <2>4, <2>5, <3>1, <3>2
    <3>3. CASE j \in DOMAIN e
      BY <2>1, <2>3, <2>5, <3>1, <3>3
    <3> QED BY <2>1, <2>5, <3>2, <3>3
  <2> QED BY <2>6 DEF f
<1>3. ASSUME NEW r \in Requests, NEW a \in Addresses, AddRow(r, a)
      PROVE  entries'[u][i].position < entries'[u][j].position
  BY <1>1, <1>2, <1>3, Inserted
<1>4. ASSUME NEW v \in Users, DeleteUser(v) PROVE entries'[u] = entries[u]
  <2>1. entries'[v] = <<>> /\ \A w \in Users \ {v} : entries'[w] = entries[w]
    BY <1>4 DEF DeleteUser, TypeOK
  <2> QED BY <2>1
<1>5. CASE UNCHANGED entries
  BY <1>1, <1>5
<1> QED
  BY <1>1, <1>3, <1>4, <1>5
     DEF Next, Sync, ReadPosition, Fail, SelectList, BroadcastFails, Emit, EditServer, Insert,
         InsertUnanswered, table, vars

LEMMA ReadsStep == TypeOK /\ Gapless /\ ReadsHold /\ [Next]_vars => ReadsHold'
<1> SUFFICES ASSUME TypeOK, Gapless, ReadsHold, [Next]_vars, NEW q \in Requests,
                    pc'[q] = "insert", who'[q] \in account'
             PROVE  Held(entries'[who'[q]], next'[q], seen'[q])
  BY DEF ReadsHold
\* The request had read before, and its account's rows are the same.
<1>1. ASSUME pc[q] = "insert", who[q] \in account
      PROVE  Held(entries[who[q]], next[q], seen[q])
  BY <1>1 DEF ReadsHold
<1>2. CASE /\ UNCHANGED requests /\ who[q] \in account
           /\ entries'[who[q]] = entries[who[q]]
  <2>1. pc[q] = "insert"
    BY <1>2 DEF requests
  <2>2. Held(entries[who[q]], next[q], seen[q])
    BY <1>1, <1>2, <2>1
  <2> QED BY <1>2, <2>2 DEF requests
<1>3. ASSUME NEW r \in Requests, Finish(r)
      PROVE  /\ q # r /\ pc[q] = "insert" /\ who'[q] = who[q]
             /\ next'[q] = next[q] /\ seen'[q] = seen[q]
  BY <1>3 DEF Finish, TypeOK
<1>4. ASSUME NEW r \in Requests, NEW u \in Users, ReadPosition(r, u)
      PROVE  Held(entries'[who'[q]], next'[q], seen'[q])
  <2>1. entries' = entries /\ account' = account
    BY <1>4 DEF ReadPosition, table
  <2>2. CASE q = r
    <3>1. who'[q] = u /\ next'[q] = NextPosition(u) /\ seen'[q] = Len(entries[u])
      BY <1>4, <2>2 DEF ReadPosition, TypeOK
    <3>2. PICK m \in Nat : Below(u, m)
      BY DEF Gapless
    <3>3. /\ NextPosition(u) = m
          /\ \A i \in DOMAIN entries[u] : entries[u][i].position < m
      BY <3>2, NextIs
    <3>4. DOMAIN entries[u] = 1..Len(entries[u]) /\ Len(entries[u]) \in Nat
      BY DEF TypeOK
    <3>5. m = 0 \/ m - 1 \in {entries[u][i].position : i \in DOMAIN entries[u]}
      BY <3>2 DEF Below, Positions
    <3> QED BY <2>1, <3>1, <3>3, <3>4, <3>5 DEF Held
  <2>3. CASE q # r
    <3>1. /\ pc[q] = "insert" /\ who'[q] = who[q] /\ who[q] \in account
          /\ next'[q] = next[q] /\ seen'[q] = seen[q]
      BY <1>4, <2>1, <2>3 DEF ReadPosition, TypeOK
    <3> QED BY <1>1, <2>1, <3>1
  <2> QED BY <2>2, <2>3
<1>5. ASSUME NEW r \in Requests, NEW a \in Addresses, AddRow(r, a)
      PROVE  Held(entries'[who'[q]], next'[q], seen'[q])
  <2>1. /\ pc[q] = "insert" /\ who'[q] = who[q] /\ next'[q] = next[q] /\ seen'[q] = seen[q]
        /\ who[q] \in account
    BY <1>3, <1>5, Inserted DEF AddRow
  <2>2. Held(entries[who[q]], next[q], seen[q])
    BY <1>1, <2>1
  <2>3. CASE who[q] = who[r]
    <3> DEFINE e == entries[who[q]]
               f == entries'[who[q]]
    <3>1. /\ Len(e) \in Nat /\ DOMAIN e = 1..Len(e) /\ DOMAIN f = 1..(Len(e) + 1)
          /\ Len(f) = Len(e) + 1
          /\ \A i \in DOMAIN e : f[i] = e[i]
      BY <1>5, <2>1, <2>3, InsertedRow
    <3>2. Held(e, next[q], seen[q]) /\ seen[q] \in Nat
      BY <2>2 DEF TypeOK
    <3> HIDE DEF e, f
    <3>3. {e[i].position : i \in DOMAIN e} \subseteq {f[i].position : i \in DOMAIN f}
      BY <3>1
    <3>4. \A i \in 1..seen[q] : i \in DOMAIN e /\ f[i] = e[i]
      BY <3>1, <3>2 DEF Held
    <3>5. Held(f, next[q], seen[q])
      BY <3>1, <3>2, <3>3, <3>4 DEF Held
    <3> QED BY <2>1, <3>5 DEF f
  <2>4. CASE who[q] # who[r]
    <3>1. who[q] \in Users
      BY <2>1 DEF TypeOK
    <3>2. entries'[who[q]] = entries[who[q]]
      BY <1>5, <2>4, <3>1, Inserted
    <3> QED BY <2>1, <2>2, <3>2
  <2> QED BY <2>3, <2>4
<1>6. ASSUME NEW r \in Requests, Fail(r) PROVE Held(entries'[who'[q]], next'[q], seen'[q])
  <2>1. /\ pc[q] = "insert" /\ who'[q] = who[q] /\ next'[q] = next[q] /\ seen'[q] = seen[q]
        /\ entries' = entries /\ who[q] \in account
    BY <1>3, <1>6 DEF Fail, table
  <2> QED BY <1>1, <2>1
<1>7. ASSUME NEW u \in Users, DeleteUser(u) PROVE Held(entries'[who'[q]], next'[q], seen'[q])
  <2>1. UNCHANGED requests /\ who[q] \in account /\ who[q] \in Users /\ who[q] # u
    BY <1>7 DEF DeleteUser, requests, TypeOK
  <2>2. entries'[who[q]] = entries[who[q]]
    BY <1>7, <2>1 DEF DeleteUser, TypeOK
  <2> QED BY <1>2, <2>1, <2>2
<1>8. CASE UNCHANGED <<table, requests>>
  <2>1. UNCHANGED <<entries, account>> /\ UNCHANGED requests /\ who[q] \in account
    BY <1>8 DEF table, requests
  <2> QED BY <1>2, <2>1
<1> QED
  BY <1>4, <1>5, <1>6, <1>7, <1>8
     DEF Next, Sync, Insert, InsertUnanswered, SelectList, BroadcastFails, Emit, EditServer, vars

-----------------------------------------------------------------------------
(* Broadcasts. *)

\* An address is listed once, so a list is no longer than there are addresses.
LEMMA LengthFits ==
  ASSUME TypeOK, NEW u \in Users
  PROVE  Len(entries[u]) \in Lengths /\ Len(entries[u]) \in Nat
<1>0. entries[u] \in Seq(Entry)
  BY DEF TypeOK, Entry
<1>1. Listed(u) \subseteq Addresses
  <2> SUFFICES ASSUME NEW i \in DOMAIN entries[u] PROVE entries[u][i].address \in Addresses
    BY DEF Listed
  <2>1. entries[u][i] \in Entry
    BY <1>0
  <2> QED BY <2>1 DEF Entry
<1>2. Cardinality(Listed(u)) <= Cardinality(Addresses) /\ Cardinality(Listed(u)) \in Nat
  BY <1>1, LengthsType, FS_Subset, FS_CardinalityType
<1> QED BY <1>2, LengthsType DEF TypeOK, Lengths

LEMMA BroadcastStep ==
  TypeOK /\ TypeOK' /\ AnswersOld /\ SentOrOwed /\ [Next]_vars => AnswersOld' /\ SentOrOwed'
<1> SUFFICES ASSUME TypeOK, TypeOK', AnswersOld, SentOrOwed, [Next]_vars, NEW u \in account'
             PROVE  /\ \A n \in Lengths : answers'[u][n] > 0 => n <= Len(entries'[u])
                    /\ \/ shown'[u] = Len(entries'[u])
                       \/ queued'[u] > 0 \/ answers'[u][Len(entries'[u])] > 0
                       \/ u \in overtaken' \cup failed'
  BY DEF AnswersOld, SentOrOwed, Owed
<1> USE LengthsType
<1>1. u \in account /\ u \in Users
  BY DEF TypeOK, Next, Sync, ReadPosition, Insert, InsertUnanswered, AddRow, Fail, SelectList, BroadcastFails, Emit,
         EditServer, DeleteUser, table, vars
<1>2. /\ \A n \in Lengths : answers[u][n] > 0 => n <= Len(entries[u])
      /\ \/ shown[u] = Len(entries[u])
         \/ queued[u] > 0 \/ answers[u][Len(entries[u])] > 0
         \/ u \in overtaken \cup failed
  BY <1>1 DEF AnswersOld, SentOrOwed, Owed
<1>3. /\ Len(entries[u]) \in Lengths /\ Len(entries[u]) \in Nat
      /\ answers \in [Users -> [Lengths -> Nat]] /\ queued \in [Users -> Nat]
      /\ shown \in [Users -> Lengths] /\ \A n \in Lengths : n \in Nat
  BY <1>1, LengthFits DEF TypeOK
\* What does not touch the account leaves it as it was.
<1>4. CASE /\ entries'[u] = entries[u] /\ queued'[u] = queued[u] /\ answers'[u] = answers[u]
           /\ shown'[u] = shown[u] /\ (u \in overtaken \cup failed => u \in overtaken' \cup failed')
  BY <1>2, <1>4
<1>5. ASSUME NEW r \in Requests, NEW a \in Addresses, Insert(r, a) \/ InsertUnanswered(r, a)
      PROVE  /\ \A n \in Lengths : answers'[u][n] > 0 => n <= Len(entries'[u])
             /\ \/ shown'[u] = Len(entries'[u])
                \/ queued'[u] > 0 \/ answers'[u][Len(entries'[u])] > 0
                \/ u \in overtaken' \cup failed'
  <2>0. AddRow(r, a) /\ UNCHANGED <<answers, shown, overtaken>>
    BY <1>5 DEF Insert, InsertUnanswered, AddRow
  <2>1. CASE u = who[r]
    <3>1. Len(entries'[u]) = Len(entries[u]) + 1
      BY <2>0, <2>1, InsertedRow
    <3>2. queued'[u] = queued[u] + 1 \/ u \in failed'
      BY <1>1, <1>3, <1>5, <2>1 DEF Insert, InsertUnanswered, Broadcasts
    <3> QED BY <1>1, <1>2, <1>3, <2>0, <3>1, <3>2
  <2>2. CASE u # who[r]
    <3>1. /\ entries'[u] = entries[u] /\ queued'[u] = queued[u]
          /\ failed \subseteq failed'
      BY <1>1, <1>3, <1>5, <2>0, <2>2, Inserted DEF Insert, InsertUnanswered
    <3> QED BY <1>4, <2>0, <3>1
  <2> QED BY <2>1, <2>2
<1>6. ASSUME NEW v \in Users, SelectList(v)
      PROVE  /\ \A n \in Lengths : answers'[u][n] > 0 => n <= Len(entries'[u])
             /\ \/ shown'[u] = Len(entries'[u])
                \/ queued'[u] > 0 \/ answers'[u][Len(entries'[u])] > 0
                \/ u \in overtaken' \cup failed'
  <2>0. UNCHANGED <<entries, shown, overtaken, failed>>
    BY <1>6 DEF SelectList, table, history
  <2>1. CASE u = v
    <3>1. answers'[u] = [answers[u] EXCEPT ![Len(entries[u])] = @ + 1]
      BY <1>1, <1>3, <1>6, <2>1 DEF SelectList
    <3>2. /\ answers'[u][Len(entries[u])] = answers[u][Len(entries[u])] + 1
          /\ \A n \in Lengths : n # Len(entries[u]) => answers'[u][n] = answers[u][n]
          /\ answers[u][Len(entries[u])] \in Nat
      <4>1. answers[u] \in [Lengths -> Nat]
        BY <1>1, <1>3
      <4> QED BY <1>3, <3>1, <4>1
    <3>3. ASSUME NEW n \in Lengths, answers'[u][n] > 0 PROVE n <= Len(entries'[u])
      <4>1. CASE n = Len(entries[u])
        BY <1>3, <2>0, <4>1
      <4>2. CASE n # Len(entries[u])
        BY <1>2, <2>0, <3>2, <3>3, <4>2
      <4> QED BY <4>1, <4>2
    <3>4. answers'[u][Len(entries'[u])] > 0
      BY <2>0, <3>2
    <3> QED BY <3>3, <3>4
  <2>2. CASE u # v
    <3>1. queued'[u] = queued[u] /\ answers'[u] = answers[u]
      BY <1>1, <1>3, <1>6, <2>2 DEF SelectList
    <3> QED BY <1>4, <2>0, <3>1
  <2> QED BY <2>1, <2>2
<1>7. ASSUME NEW v \in Users, NEW k \in Lengths, Emit(v, k)
      PROVE  /\ \A n \in Lengths : answers'[u][n] > 0 => n <= Len(entries'[u])
             /\ \/ shown'[u] = Len(entries'[u])
                \/ queued'[u] > 0 \/ answers'[u][Len(entries'[u])] > 0
                \/ u \in overtaken' \cup failed'
  <2>0. UNCHANGED <<entries, queued>>
    BY <1>7 DEF Emit, table
  <2>1. CASE u = v
    <3>1. /\ answers'[u] = [answers[u] EXCEPT ![k] = @ - 1] /\ shown'[u] = k
          /\ answers[u][k] > 0
      BY <1>1, <1>3, <1>7, <2>1 DEF Emit, Answered
    <3>2. /\ answers'[u][k] = answers[u][k] - 1 /\ answers[u][k] \in Nat
          /\ \A n \in Lengths : n # k => answers'[u][n] = answers[u][n]
      <4>1. answers[u] \in [Lengths -> Nat]
        BY <1>1, <1>3
      <4> QED BY <1>3, <3>1, <4>1
    <3>3. ASSUME NEW n \in Lengths, answers'[u][n] > 0 PROVE n <= Len(entries'[u])
      <4>1. answers[u][n] > 0
        <5>1. CASE n = k
          BY <3>1, <5>1
        <5>2. CASE n # k
          BY <3>2, <3>3, <5>2
        <5> QED BY <5>1, <5>2
      <4> QED BY <1>2, <2>0, <4>1
    <3>4. CASE k = Len(entries[u])
      BY <2>0, <3>1, <3>3, <3>4
    \* An older list: if the newest was shown, it has now been overtaken.
    <3>5. CASE k # Len(entries[u])
      <4>1. k < Len(entries[u])
        BY <1>2, <1>3, <3>1, <3>5
      <4>2. /\ failed' = failed
            /\ overtaken' = IF k < shown[u] THEN overtaken \cup {u} ELSE overtaken
        BY <1>7, <2>1, <3>5 DEF Emit
      <4>3. CASE shown[u] = Len(entries[u])
        BY <3>3, <4>1, <4>2, <4>3
      <4>4. CASE shown[u] # Len(entries[u])
        BY <1>2, <1>3, <2>0, <3>2, <3>3, <3>5, <4>2, <4>4
      <4> QED BY <4>3, <4>4
    <3> QED BY <3>4, <3>5
  <2>2. CASE u # v
    <3>1. answers'[u] = answers[u] /\ shown'[u] = shown[u]
      BY <1>1, <1>3, <1>7, <2>2 DEF Emit
    <3>2. u \in overtaken \cup failed => u \in overtaken' \cup failed'
      BY <1>7, <2>2 DEF Emit
    <3> QED BY <1>4, <2>0, <3>1, <3>2
  <2> QED BY <2>1, <2>2
<1>8. ASSUME NEW v \in Users, BroadcastFails(v)
      PROVE  /\ \A n \in Lengths : answers'[u][n] > 0 => n <= Len(entries'[u])
             /\ \/ shown'[u] = Len(entries'[u])
                \/ queued'[u] > 0 \/ answers'[u][Len(entries'[u])] > 0
                \/ u \in overtaken' \cup failed'
  <2>1. UNCHANGED <<entries, answers, shown, overtaken>> /\ failed' = failed \cup {v}
        /\ (u # v => queued'[u] = queued[u])
    BY <1>1, <1>3, <1>8 DEF BroadcastFails, table
  <2>2. CASE u = v
    BY <1>2, <2>1, <2>2
  <2>3. CASE u # v
    BY <1>4, <2>1, <2>3
  <2> QED BY <2>2, <2>3
<1>9. ASSUME NEW v \in Users, DeleteUser(v)
      PROVE  /\ \A n \in Lengths : answers'[u][n] > 0 => n <= Len(entries'[u])
             /\ \/ shown'[u] = Len(entries'[u])
                \/ queued'[u] > 0 \/ answers'[u][Len(entries'[u])] > 0
                \/ u \in overtaken' \cup failed'
  <2>1. u # v /\ entries'[u] = entries[u] /\ UNCHANGED <<queued, answers, shown, overtaken, failed>>
    BY <1>1, <1>9 DEF DeleteUser, TypeOK, broadcast, history
  <2> QED BY <1>4, <2>1
<1>10. CASE UNCHANGED <<entries, queued, answers, shown, overtaken, failed>>
  BY <1>4, <1>10
<1> QED
  BY <1>5, <1>6, <1>7, <1>8, <1>9, <1>10
     DEF Next, Sync, ReadPosition, Fail, EditServer, table, broadcast, history, vars

-----------------------------------------------------------------------------
(* The theorems. *)

LEMMA InitInv == Init => IInv
<1> SUFFICES ASSUME Init PROVE IInv
  OBVIOUS
<1> USE LengthsType
<1>1. \A u \in Users : entries[u] = <<>> /\ Listed(u) = {} /\ Positions(u) = {}
  BY DEF Init, Listed, Positions
<1>2. TypeOK
  <2>1. <<>> \in Seq(Entry)
    OBVIOUS
  <2>2. \A u \in Users : Len(entries[u]) = Cardinality(Listed(u))
    BY <1>1, FS_EmptySet
  <2> QED BY <2>1, <2>2 DEF Init, TypeOK, Entry
<1>3. Gapless
  <2>1. {p \in Nat : p < 0} = {}
    OBVIOUS
  <2> QED BY <1>1, <2>1 DEF Gapless, Below
<1>4. ReadsHold
  BY DEF Init, ReadsHold
<1>5. BehindSeen
  BY <1>1 DEF BehindSeen
<1>6. AnswersOld
  BY DEF Init, AnswersOld
<1>7. SentOrOwed
  BY <1>1 DEF Init, SentOrOwed
<1> QED BY <1>2, <1>3, <1>4, <1>5, <1>6, <1>7 DEF IInv

\* The inductive invariant: what a pending addition has read is a prefix of the rows.
LEMMA Invariance == Spec => []IInv
<1>1. Init => IInv
  BY InitInv
<1>2. IInv /\ [Next]_vars => IInv'
  BY TypeStep, GaplessStep, ReadsStep, BehindStep, BroadcastStep DEF IInv
<1> QED BY <1>1, <1>2, PTL DEF Spec

\* Rows and requests are of their types, and UNIQUE (user_id, server_address) keeps an
\* address from being listed twice, however additions overlap.
THEOREM TypeCorrect == Spec => []TypeOK
<1>1. IInv => TypeOK
  BY DEF IInv
<1> QED BY <1>1, Invariance, PTL

\* addServer puts a server behind every one that was listed when it read the positions.
THEOREM AddedLast == Spec => []LastUnlessOverlapped
<1>1. IInv => LastUnlessOverlapped
  <2> SUFFICES ASSUME IInv, NEW u \in Users, NEW i \in DOMAIN entries[u], NEW j \in DOMAIN entries[u],
                      i < j, entries[u][i].position >= entries[u][j].position
               PROVE  entries[u][j].seen < i
    BY DEF LastUnlessOverlapped
  <2>0. entries[u] \in Seq(Entry)
    BY DEF IInv, TypeOK, Entry
  <2>1. /\ entries[u][i] \in Entry /\ entries[u][j] \in Entry
        /\ i \in Nat /\ j \in Nat
    BY <2>0
  <2>2. ~ (i <= entries[u][j].seen)
    BY <2>1 DEF IInv, BehindSeen, Entry
  <2> QED BY <2>1, <2>2 DEF Entry
<1> QED BY <1>1, Invariance, PTL

\* MAX(position) + 1 leaves no position out, though requests that overlap share one.
THEOREM PositionsWithoutGaps == Spec => []NoGaps
<1>1. IInv => NoGaps
  <2> SUFFICES ASSUME IInv, NEW u \in account, entries[u] # <<>>
               PROVE  Positions(u) = 0..Max(Positions(u))
    BY DEF NoGaps
  <2>1. u \in Users /\ TypeOK
    BY DEF IInv, TypeOK
  <2>2. PICK m \in Nat : Below(u, m)
    BY <2>1 DEF IInv, Gapless
  <2>3. m > 0 /\ Positions(u) = {p \in Nat : p < m}
    BY <2>1, <2>2, NextIs DEF Below
  <2>4. Max(Positions(u)) = m - 1
    BY <2>3, MaxBelow
  <2>5. {p \in Nat : p < m} = 0..(m - 1)
    OBVIOUS
  <2> QED BY <2>3, <2>4, <2>5
<1> QED BY <1>1, Invariance, PTL

\* The safety half of AdditionSynced: whatever order the broadcasts of overlapping
\* additions are answered in, the last one that matters is not lost; when they are
\* done the sockets show what is stored, or one of them failed or was overtaken.
THEOREM QuietIsSynced == Spec => []SyncedOnceQuiet
<1>1. IInv => SyncedOnceQuiet
  <2> SUFFICES ASSUME IInv, NEW u \in account, queued[u] = 0,
                      \A n \in Lengths : answers[u][n] = 0
               PROVE  shown[u] = Len(entries[u]) \/ u \in overtaken \cup failed
    BY DEF SyncedOnceQuiet
  <2>1. TypeOK /\ u \in Users
    BY DEF IInv, TypeOK
  <2>2. Len(entries[u]) \in Lengths
    BY <2>1, LengthFits
  <2> QED BY <2>2 DEF IInv, SentOrOwed, Owed
<1> QED BY <1>1, Invariance, PTL

=============================================================================
