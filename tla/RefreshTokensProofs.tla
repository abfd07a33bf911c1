------------------------- MODULE RefreshTokensProofs -------------------------
(***************************************************************************)
(* The safety of RefreshTokens for any number of accounts, requests and    *)
(* tokens.  The runs check small instances of the same properties.         *)
(***************************************************************************)
EXTENDS PasswordReset, FiniteSetTheorems, TLAPS

-----------------------------------------------------------------------------
(* The inductive invariant. *)

\* Where a token comes from never changes and is older than the token.
LineageOK ==
  \A t \in Issued :
    /\ owner[t] \in Users
    /\ family[t] \in Issued
    /\ parent[t] # 0 => /\ parent[t] < t
                        /\ owner[t] = owner[parent[t]]
                        /\ family[t] = family[parent[t]]

\* The request holds the successor of tok[r] that no client has seen yet.
Carries(r) ==
  /\ next[r] \in Issued \ delivered
  /\ parent[next[r]] = tok[r]
  /\ tok[r] # 0 => next[r] > tok[r]
  /\ tok[r] # 0 => owner[next[r]] = owner[tok[r]]
  /\ tok[r] # 0 => family[next[r]] = family[tok[r]]

\* What a request's local variables mean at each await.
RequestOK(r) ==
  /\ pc[r] \in {"idle", "mint"} => tok[r] = 0
  /\ pc[r] \in {"idle", "mint", "select", "insert", "sweep"} => next[r] = 0
  /\ pc[r] \in {"mint", "insert", "update", "account", "sweep"} => who[r] \in Users
  /\ pc[r] \in {"select", "insert", "update", "account", "sweep"} => tok[r] \in delivered
  /\ pc[r] \in {"insert", "update", "account"} => who[r] = owner[tok[r]]
  /\ pc[r] \in {"update", "account", "reply"} => Carries(r)
  /\ pc[r] \in {"account", "reply"} /\ tok[r] # 0 => ~Unrevoked(tok[r])

\* Two requests never carry the same new token.
NextUnique == \A q, r \in Requests : q # r /\ next[q] # 0 => next[q] # next[r]

\* The request may still hand out a token of session f.
Pending(r, f) ==
  \/ pc[r] \in {"insert", "update", "account"} /\ family[tok[r]] = f
  \/ pc[r] = "reply" /\ family[next[r]] = f

\* A session that no two rotations ever overlapped in is a single cell: one
\* head, which the one pending request holds or has already emptied.
SingleCell(f) ==
  /\ \A s, t \in Heads(f) : s = t
  /\ \A q, r \in Requests : Pending(q, f) /\ Pending(r, f) => q = r
  /\ \A r \in Requests : Pending(r, f) =>
       \A t \in Heads(f) : Rotating(r) /\ t = tok[r]

Cells == \A f \in Issued \ overlapped : SingleCell(f)

\* A row that is not issued yet has no successor.
BlankRows == \A t \in Token \ Issued : replaced_by[t] = 0

Inv == TypeOK /\ LineageOK /\ BlankRows /\ (\A r \in Requests : RequestOK(r)) /\ NextUnique /\ Cells
         /\ RetiredBeforeHandout /\ RotationChain

-----------------------------------------------------------------------------
(* What every step keeps. *)

\* The INSERT names a token beyond all the issued ones and leaves theirs alone.
LEMMA IssueKeepsOldRows ==
  ASSUME TypeOK, NEW u, NEW p \in 0..issued, NEW root \in 1..(issued + 1),
         u \in Users, IssueRefreshToken(u, p, root)
  PROVE  /\ issued' = issued + 1
         /\ issued + 1 \in Token
         /\ owner' \in [Token -> Users \cup {NoUser}]
         /\ parent' \in [Token -> 0..issued']
         /\ family' \in [Token -> 0..issued']
         /\ owner'[issued + 1] = u
         /\ parent'[issued + 1] = p
         /\ family'[issued + 1] = root
         /\ rows' = rows \cup {issued + 1}
         /\ \A t \in Issued : /\ t \in Token
                              /\ owner'[t] = owner[t]
                              /\ parent'[t] = parent[t]
                              /\ family'[t] = family[t]
<1>1. /\ issued \in Nat /\ MaxTokens \in Nat /\ issued < MaxTokens
      /\ issued' = issued + 1
      /\ issued + 1 \in Token
      /\ rows' = rows \cup {issued + 1}
      /\ \A t \in Issued : t \in Token /\ t # issued + 1
  BY MaxTokensAssumption DEF TypeOK, Typed, IssueRefreshToken, Token, Issued
<1>2. /\ owner' \in [Token -> Users \cup {NoUser}]
      /\ owner'[issued + 1] = u
      /\ \A t \in Issued : owner'[t] = owner[t]
  BY <1>1 DEF TypeOK, Typed, IssueRefreshToken
<1>3. /\ parent' \in [Token -> 0..issued']
      /\ parent'[issued + 1] = p
      /\ \A t \in Issued : parent'[t] = parent[t]
  BY <1>1 DEF TypeOK, Typed, IssueRefreshToken
<1>4. /\ family' \in [Token -> 0..issued']
      /\ family'[issued + 1] = root
      /\ \A t \in Issued : family'[t] = family[t]
  BY <1>1 DEF TypeOK, Typed, IssueRefreshToken
<1> QED BY <1>1, <1>2, <1>3, <1>4

\* The arguments Mint and InsertNext give the INSERT are what the lemma needs.
LEMMA IssueByRequest ==
  ASSUME Inv, NEW r \in Requests, Mint(r) \/ InsertNext(r)
  PROVE  \E p \in 0..issued, root \in 1..(issued + 1) :
           /\ who[r] \in Users
           /\ p = tok[r]
           /\ root = IF tok[r] = 0 THEN issued + 1 ELSE family[tok[r]]
           /\ IssueRefreshToken(who[r], p, root)
<1>1. CASE Mint(r)
  BY <1>1 DEF Inv, TypeOK, Typed, RequestOK, Mint
<1>2. CASE InsertNext(r)
  <2>1. tok[r] \in delivered /\ who[r] \in Users
    BY <1>2 DEF Inv, RequestOK, InsertNext
  <2>2. tok[r] \in Issued /\ family[tok[r]] \in Issued /\ tok[r] # 0
    BY <2>1 DEF Inv, TypeOK, Typed, LineageOK, Issued
  <2> QED BY <1>2, <2>1, <2>2 DEF Inv, TypeOK, Typed, InsertNext, Issued
<1> QED BY <1>1, <1>2

\* Issued tokens keep their origin, unusable tokens stay unusable, and only a
\* reply shows a client a token it had not seen.
LEMMA Monotone ==
  ASSUME Inv, [Next]_vars
  PROVE  /\ issued <= issued'
         /\ \A t \in Issued :
              /\ t \in Issued'
              /\ owner'[t] = owner[t]
              /\ parent'[t] = parent[t]
              /\ family'[t] = family[t]
              /\ ~Unrevoked(t) => ~Unrevoked(t)'
         /\ overlapped \subseteq overlapped'
         /\ delivered \subseteq delivered'
         /\ revoked \subseteq revoked'
         /\ expired \in Nat /\ expired' \in Nat /\ expired <= expired'
<1> USE DEF Issued
<1>t. TypeOK /\ issued \in Nat
  BY MaxTokensAssumption DEF Inv, TypeOK, Typed
<1>1. CASE \E r \in Requests : Mint(r) \/ InsertNext(r)
  <2>1. PICK r \in Requests : Mint(r) \/ InsertNext(r)
    BY <1>1
  <2>2. PICK p \in 0..issued, root \in 1..(issued + 1) :
          who[r] \in Users /\ IssueRefreshToken(who[r], p, root)
    BY <2>1, IssueByRequest
  <2>3. UNCHANGED <<revoked, delivered, overlapped, expired>> /\ expired \in Nat
    BY <1>t, <2>1 DEF TypeOK, Typed, Mint, InsertNext
  <2>4. /\ issued' = issued + 1
        /\ rows' = rows \cup {issued + 1}
        /\ \A t \in Issued : owner'[t] = owner[t] /\ parent'[t] = parent[t]
                                /\ family'[t] = family[t]
    BY <1>t, <2>2, IssueKeepsOldRows
  <2> QED BY <1>t, <2>3, <2>4 DEF Unrevoked
<1>2. CASE ~\E r \in Requests : Mint(r) \/ InsertNext(r)
  <2>1. /\ UNCHANGED <<issued, owner, parent, family>>
        /\ rows' \subseteq rows
        /\ revoked \subseteq revoked'
        /\ delivered \subseteq delivered'
        /\ overlapped \subseteq overlapped'
        /\ expired' \in {expired, expired + 1}
    BY <1>2 DEF Next, Handlers, vars, database, requests, history, StartRegister, StartLogin, Reply,
      StartRefresh, RefuseToken, DetectReuse, Sweep, AcceptToken, RetireRow, Retire,
      CheckAccount, RefuseDeleted, Logout, ConfirmPasswordReset, DeleteUser, Expire, Fail,
      RevokeAllForUser, RevokeRefreshToken
  <2>2. expired \in Nat
    BY <1>t DEF TypeOK, Typed
  <2> QED BY <1>t, <2>1, <2>2 DEF Unrevoked
<1> QED BY <1>1, <1>2

-----------------------------------------------------------------------------
(* The conjuncts of the invariant, one lemma each. *)

\* The parts of TypeOK that the two issuing actions change.
LEMMA TypeIssue ==
  ASSUME Inv, NEW r \in Requests, Mint(r) \/ InsertNext(r)
  PROVE  Typed'
<1>t. TypeOK /\ issued \in Nat
  BY MaxTokensAssumption DEF Inv, TypeOK, Typed
<1>1. PICK p \in 0..issued, root \in 1..(issued + 1) :
        who[r] \in Users /\ IssueRefreshToken(who[r], p, root)
  BY IssueByRequest
<1>2. /\ issued' = issued + 1
      /\ issued + 1 \in Token
      /\ owner' \in [Token -> Users \cup {NoUser}]
      /\ parent' \in [Token -> 0..issued']
      /\ family' \in [Token -> 0..issued']
      /\ rows' = rows \cup {issued + 1}
  BY <1>t, <1>1, IssueKeepsOldRows
<1>3. /\ UNCHANGED <<account, revoked, replaced_by, expired, who, tok, delivered, overlapped>>
      /\ next' = [next EXCEPT ![r] = issued + 1]
      /\ pc' \in [Requests -> Labels]
  BY <1>t DEF Mint, InsertNext, TypeOK, Typed, Labels
<1>4. issued' \in 0..MaxTokens
  BY <1>2, MaxTokensAssumption DEF Token
<1>5. Issued \subseteq Issued' /\ 0..issued \subseteq 0..issued' /\ issued + 1 \in Issued'
  BY <1>t, <1>2 DEF Issued
<1>6. next' \in [Requests -> 0..issued']
  BY <1>t, <1>3, <1>2, <1>5 DEF TypeOK, Typed, Issued
<1> QED BY <1>t, <1>2, <1>3, <1>4, <1>5, <1>6 DEF TypeOK, Typed

LEMMA TypedStep == Inv /\ [Next]_vars => Typed'
<1> SUFFICES ASSUME Inv, [Next]_vars PROVE Typed'
  OBVIOUS
<1> USE DEF Labels
<1>t. TypeOK /\ issued \in Nat
  BY MaxTokensAssumption DEF Inv, TypeOK, Typed
<1>f. ASSUME NEW r \in Requests, Finish(r)
      PROVE  /\ pc' \in [Requests -> Labels]
             /\ who' \in [Requests -> Users \cup {NoUser}]
             /\ tok' \in [Requests -> 0..issued]
             /\ next' \in [Requests -> 0..issued]
  BY <1>t, <1>f DEF TypeOK, Typed, Finish
<1>1. ASSUME NEW r \in Requests, NEW u \in Users, StartRegister(r, u) \/ StartLogin(r, u)
      PROVE  Typed'
  <2>1. /\ pc' \in [Requests -> Labels]
        /\ who' \in [Requests -> Users \cup {NoUser}]
    BY <1>t, <1>1 DEF TypeOK, Typed, StartRegister, StartLogin
  <2>2. account' \in [Users -> AccountStates]
    BY <1>t, <1>1 DEF TypeOK, Typed, StartRegister, StartLogin, database, AccountStates
  <2> QED BY <1>t, <1>1, <2>1, <2>2
        DEF TypeOK, Typed, StartRegister, StartLogin, database, history, Issued
<1>2. CASE \E r \in Requests, t \in delivered : StartRefresh(r, t)
  BY <1>t, <1>2 DEF TypeOK, Typed, StartRefresh, database, history, Issued
<1>3. ASSUME NEW r \in Requests, Mint(r) \/ InsertNext(r) PROVE Typed'
  BY <1>3, TypeIssue
<1>4. ASSUME NEW r \in Requests, Reply(r) PROVE Typed'
  <2>1. next[r] \in Issued
    BY <1>4 DEF Inv, RequestOK, Carries, Reply
  <2> QED BY <1>t, <1>f, <1>4, <2>1 DEF TypeOK, Typed, Reply, database, history, Issued
<1>5. ASSUME NEW r \in Requests, RefuseToken(r) \/ RefuseDeleted(r) \/ Fail(r) PROVE Typed'
  BY <1>t, <1>f, <1>5 DEF TypeOK, Typed, RefuseToken, RefuseDeleted, Fail, database, history, Issued
<1>6. ASSUME NEW r \in Requests, DetectReuse(r) \/ AcceptToken(r) PROVE Typed'
  <2>1. tok[r] \in Token
    BY <1>t, <1>6, MaxTokensAssumption
      DEF TypeOK, Typed, DetectReuse, AcceptToken, Acceptable, Unrevoked, Issued, Token
  <2>2. /\ pc' \in [Requests -> Labels]
        /\ who' \in [Requests -> Users \cup {NoUser}]
        /\ UNCHANGED <<database, tok, next, delivered, parent, family>>
    BY <1>t, <1>6, <2>1 DEF TypeOK, Typed, DetectReuse, AcceptToken, history
  <2>3. overlapped' \subseteq Issued
    <3>1. \A q \in Requests : Rotating(q) => family[tok[q]] \in Issued
      BY <1>t DEF Inv, RequestOK, LineageOK, Rotating, TypeOK, Typed
    <3> QED BY <1>t, <1>6, <3>1 DEF DetectReuse, AcceptToken, history, TypeOK, Typed
  <2> QED BY <1>t, <2>2, <2>3 DEF TypeOK, Typed, database, Issued
<1>7. ASSUME NEW r \in Requests, Sweep(r) PROVE Typed'
  BY <1>t, <1>f, <1>7 DEF TypeOK, Typed, Sweep, RevokeAllForUser, history, Issued
<1>8. ASSUME NEW r \in Requests, RetireRow(r) PROVE Typed'
  BY <1>t, <1>8 DEF TypeOK, Typed, RetireRow, Retire, history, Issued
<1>9. ASSUME NEW r \in Requests, CheckAccount(r) PROVE Typed'
  BY <1>t, <1>9 DEF TypeOK, Typed, CheckAccount, database, history, Issued
<1>10. ASSUME NEW t \in delivered, Logout(t) PROVE Typed'
  BY <1>t, <1>10 DEF TypeOK, Typed, Logout, RevokeRefreshToken, requests, history, Issued
<1>11. ASSUME NEW u \in Users, ConfirmPasswordReset(u) \/ DeleteUser(u) PROVE Typed'
  BY <1>t, <1>11
    DEF TypeOK, Typed, ConfirmPasswordReset, DeleteUser, RevokeAllForUser, AccountStates,
    requests, history, Issued
<1>12. CASE Expire
  BY <1>t, <1>12 DEF TypeOK, Typed, Expire, requests, history, Issued
<1>13. CASE UNCHANGED vars
  BY <1>t, <1>13 DEF TypeOK, Typed, vars, database, requests, history, Issued
<1> QED BY <1>1, <1>2, <1>3, <1>4, <1>5, <1>6, <1>7, <1>8, <1>9, <1>10, <1>11, <1>12, <1>13
        DEF Next, Handlers

\* The INSERT finds the account there, and a deletion takes its rows with it.
LEMMA RowsOwnedStep == Inv /\ [Next]_vars => RowsOwned'
<1> SUFFICES ASSUME Inv, [Next]_vars PROVE RowsOwned'
  OBVIOUS
<1>t. /\ TypeOK /\ Typed /\ RowsOwned /\ issued \in Nat
      /\ \A t \in rows : t \in Issued /\ owner[t] \in Users /\ owner'[t] = owner[t]
  BY Monotone, MaxTokensAssumption DEF Inv, TypeOK, Typed, LineageOK
<1>1. ASSUME NEW r \in Requests, Mint(r) \/ InsertNext(r) PROVE RowsOwned'
  <2>1. PICK p \in 0..issued, root \in 1..(issued + 1) :
          who[r] \in Users /\ IssueRefreshToken(who[r], p, root)
    BY <1>1, IssueByRequest
  <2>2. rows' = rows \cup {issued + 1} /\ owner'[issued + 1] = who[r]
    BY <1>t, <2>1, IssueKeepsOldRows
  <2>3. account' = account /\ account[who[r]] = "active"
    BY <1>1, <2>1 DEF Mint, InsertNext, IssueRefreshToken
  <2> QED BY <1>t, <2>2, <2>3 DEF RowsOwned
<1>2. ASSUME NEW r \in Requests, NEW u \in Users, StartRegister(r, u) PROVE RowsOwned'
  <2>1. \A t \in rows : account'[owner[t]] = "active"
    BY <1>t, <1>2 DEF StartRegister, RowsOwned, Typed
  <2> QED BY <1>t, <1>2, <2>1 DEF StartRegister, RowsOwned
<1>3. ASSUME NEW u \in Users, DeleteUser(u) PROVE RowsOwned'
  <2>1. \A t \in rows' : t \in rows /\ account'[owner[t]] = "active"
    BY <1>t, <1>3 DEF DeleteUser, RowsOwned, Typed
  <2> QED BY <1>t, <1>3, <2>1 DEF DeleteUser, RowsOwned
<1>4. CASE /\ ~\E r \in Requests : Mint(r) \/ InsertNext(r)
           /\ ~\E r \in Requests, u \in Users : StartRegister(r, u)
           /\ ~\E u \in Users : DeleteUser(u)
  <2>1. UNCHANGED <<account, rows, owner>>
    BY <1>4 DEF Next, Handlers, vars, database, StartLogin, Reply, StartRefresh, RefuseToken,
      DetectReuse, Sweep, AcceptToken, RetireRow, CheckAccount, RefuseDeleted, Logout,
      ConfirmPasswordReset, Expire, Fail
  <2> QED BY <1>t, <2>1 DEF RowsOwned
<1> QED BY <1>1, <1>2, <1>3, <1>4

LEMMA TypeStep == Inv /\ [Next]_vars => TypeOK'
  BY TypedStep, RowsOwnedStep DEF TypeOK

LEMMA LineageStep == Inv /\ [Next]_vars => LineageOK'
<1> SUFFICES ASSUME Inv, [Next]_vars, NEW t \in Issued'
             PROVE  /\ owner[t]' \in Users
                    /\ family[t]' \in Issued'
                    /\ parent[t]' # 0 => /\ parent[t]' < t
                                         /\ owner[t]' = owner[parent[t]]'
                                         /\ family[t]' = family[parent[t]]'
  BY DEF LineageOK
<1>t. TypeOK /\ LineageOK /\ issued \in Nat
  BY MaxTokensAssumption DEF Inv, TypeOK, Typed
<1>o. ASSUME t \in Issued
      PROVE  /\ owner[t]' \in Users
             /\ family[t]' \in Issued'
             /\ parent[t]' # 0 => /\ parent[t]' < t
                                  /\ owner[t]' = owner[parent[t]]'
                                  /\ family[t]' = family[parent[t]]'
  <2>1. parent[t] # 0 => parent[t] \in Issued
    BY <1>t, <1>o, MaxTokensAssumption DEF LineageOK, TypeOK, Typed, Token, Issued
  <2> QED BY <1>t, <1>o, <2>1, Monotone DEF LineageOK
<1>1. CASE \E r \in Requests : Mint(r) \/ InsertNext(r)
  <2>1. PICK r \in Requests : Mint(r) \/ InsertNext(r)
    BY <1>1
  <2>2. PICK p \in 0..issued, root \in 1..(issued + 1) :
           /\ who[r] \in Users
           /\ p = tok[r]
           /\ root = IF tok[r] = 0 THEN issued + 1 ELSE family[tok[r]]
           /\ IssueRefreshToken(who[r], p, root)
    BY <2>1, IssueByRequest
  <2>3. /\ issued' = issued + 1
        /\ owner'[issued + 1] = who[r]
        /\ parent'[issued + 1] = p
        /\ family'[issued + 1] = root
    BY <1>t, <2>2, IssueKeepsOldRows
  <2>4. p # 0 => who[r] = owner[p] /\ p \in Issued
    BY <1>t, <2>1, <2>2 DEF Inv, RequestOK, Mint, InsertNext, Issued
  <2>5. p # 0 => owner[p]' = owner[p] /\ family[p]' = family[p]
    BY <2>4, Monotone
  <2>6. CASE t = issued + 1
    BY <1>t, <2>2, <2>3, <2>4, <2>5, <2>6 DEF Issued
  <2>7. CASE t # issued + 1
    BY <1>t, <1>o, <2>3, <2>7 DEF Issued
  <2> QED BY <2>6, <2>7
<1>2. CASE ~\E r \in Requests : Mint(r) \/ InsertNext(r)
  <2>1. UNCHANGED issued
    BY <1>2 DEF Next, Handlers, vars, database, requests, history, StartRegister, StartLogin, Reply,
      StartRefresh, RefuseToken, DetectReuse, Sweep, AcceptToken, RetireRow,
      CheckAccount, RefuseDeleted, Logout, ConfirmPasswordReset, DeleteUser, Expire, Fail
  <2> QED BY <1>o, <2>1 DEF Issued
<1> QED BY <1>1, <1>2

-----------------------------------------------------------------------------
(* Requests. *)

\* The steps of one request, and the steps that are nobody's.
StepOf(r) ==
  \/ \E u \in Users : StartRegister(r, u) \/ StartLogin(r, u)
  \/ \E t \in delivered : StartRefresh(r, t)
  \/ Mint(r) \/ InsertNext(r) \/ Reply(r) \/ RefuseToken(r) \/ DetectReuse(r)
  \/ Sweep(r) \/ AcceptToken(r) \/ RetireRow(r) \/ CheckAccount(r)
  \/ RefuseDeleted(r) \/ Fail(r)

OtherStep ==
  \/ \E t \in delivered : Logout(t)
  \/ \E u \in Users : ConfirmPasswordReset(u) \/ DeleteUser(u)
  \/ Expire
  \/ UNCHANGED vars

LEMMA StepCases == [Next]_vars <=> (\E r \in Requests : StepOf(r)) \/ OtherStep
  BY DEF Next, Handlers, StepOf, OtherStep

LEMMA OtherStepFrame == OtherStep => UNCHANGED <<pc, who, tok, next, delivered>>
  BY DEF OtherStep, Logout, ConfirmPasswordReset, DeleteUser, Expire, vars, requests

\* A step of one request leaves the others where they are, and only its reply
\* shows a client a new token.
LEMMA OneActor ==
  ASSUME TypeOK, NEW r \in Requests, StepOf(r)
  PROVE  /\ \A q \in Requests \ {r} : /\ pc'[q] = pc[q] /\ who'[q] = who[q]
                                      /\ tok'[q] = tok[q] /\ next'[q] = next[q]
         /\ delivered' \subseteq delivered \cup {next[r]}
<1>1. CASE \E u \in Users : StartRegister(r, u) \/ StartLogin(r, u)
  BY <1>1 DEF TypeOK, Typed, StartRegister, StartLogin
<1>2. CASE \E t \in delivered : StartRefresh(r, t)
  BY <1>2 DEF TypeOK, Typed, StartRefresh
<1>3. CASE \/ Mint(r) \/ InsertNext(r) \/ DetectReuse(r) \/ AcceptToken(r) \/ RetireRow(r)
           \/ CheckAccount(r)
  BY <1>3 DEF TypeOK, Typed, Mint, InsertNext, DetectReuse, AcceptToken, RetireRow, CheckAccount
<1>4. CASE Reply(r) \/ RefuseToken(r) \/ Sweep(r) \/ RefuseDeleted(r) \/ Fail(r)
  BY <1>4 DEF TypeOK, Typed, Reply, RefuseToken, Sweep, RefuseDeleted, Fail, Finish
<1> QED BY <1>1, <1>2, <1>3, <1>4 DEF StepOf

\* What holds of a request holds after the steps of the others.
LEMMA RequestFrame ==
  ASSUME Inv, [Next]_vars, NEW q \in Requests,
         pc'[q] = pc[q], who'[q] = who[q], tok'[q] = tok[q], next'[q] = next[q],
         next[q] \notin delivered' \ delivered
  PROVE  RequestOK(q)'
<1>1. RequestOK(q) /\ tok[q] \in 0..issued /\ delivered \subseteq Issued /\ issued \in Nat
  BY MaxTokensAssumption DEF Inv, TypeOK, Typed
<1>2. /\ delivered \subseteq delivered'
      /\ \A t \in Issued : /\ t \in Issued' /\ owner'[t] = owner[t]
                           /\ parent'[t] = parent[t] /\ family'[t] = family[t]
                           /\ ~Unrevoked(t) => ~Unrevoked(t)'
  BY Monotone
<1>3. tok[q] # 0 => tok[q] \in Issued
  BY <1>1 DEF Issued
<1>4. Carries(q) => Carries(q)'
  BY <1>1, <1>2, <1>3 DEF Carries
<1>5. pc[q] \in {"select", "insert", "update", "account", "sweep"} => tok[q] \in Issued
  BY <1>1 DEF RequestOK
<1> QED BY <1>1, <1>2, <1>3, <1>4, <1>5 DEF RequestOK

\* The actor of the step: what its next await relies on.
LEMMA RequestActor ==
  ASSUME Inv, NEW r \in Requests, StepOf(r)
  PROVE  RequestOK(r)'
<1>t. TypeOK /\ LineageOK /\ RequestOK(r) /\ issued \in Nat
  BY MaxTokensAssumption DEF Inv, TypeOK, Typed
<1>1. CASE \E u \in Users : StartRegister(r, u) \/ StartLogin(r, u)
  BY <1>t, <1>1 DEF TypeOK, Typed, RequestOK, StartRegister, StartLogin
<1>2. CASE \E t \in delivered : StartRefresh(r, t)
  BY <1>t, <1>2 DEF TypeOK, Typed, RequestOK, StartRefresh
<1>3. CASE Mint(r) \/ InsertNext(r)
  <2>1. PICK p \in 0..issued, root \in 1..(issued + 1) :
           /\ who[r] \in Users
           /\ p = tok[r]
           /\ root = IF tok[r] = 0 THEN issued + 1 ELSE family[tok[r]]
           /\ IssueRefreshToken(who[r], p, root)
    BY <1>3, IssueByRequest
  <2>2. /\ issued' = issued + 1
        /\ owner'[issued + 1] = who[r]
        /\ parent'[issued + 1] = p
        /\ family'[issued + 1] = root
        /\ \A t \in Issued : owner'[t] = owner[t] /\ family'[t] = family[t]
    BY <1>t, <2>1, IssueKeepsOldRows
  <2>3. /\ next'[r] = issued + 1
        /\ issued + 1 \in Issued' \ delivered
        /\ UNCHANGED <<who, tok, delivered>>
        /\ pc'[r] \in {"reply", "update"}
        /\ pc'[r] = "reply" => tok[r] = 0
        /\ pc'[r] = "update" => tok[r] \in delivered /\ who[r] = owner[tok[r]]
    BY <1>t, <1>3, <2>2 DEF TypeOK, Typed, RequestOK, Mint, InsertNext, Issued
  <2>4. tok[r] # 0 => tok[r] \in Issued
    BY <1>t DEF TypeOK, Typed, Issued
  <2>5. Carries(r)'
    <3>1. tok[r] # 0 => issued + 1 > tok[r] /\ who[r] = owner[tok[r]]
      BY <1>t, <1>3, <2>4 DEF RequestOK, Mint, InsertNext, Issued
    <3> QED BY <2>1, <2>2, <2>3, <2>4, <3>1 DEF Carries
  <2>6. tok[r] \in delivered => tok[r] \in Issued /\ tok[r] # 0
    BY <1>t DEF TypeOK, Typed, Issued
  <2> QED BY <2>1, <2>2, <2>3, <2>5, <2>6 DEF RequestOK
<1>4. CASE Reply(r) \/ RefuseToken(r) \/ Sweep(r) \/ RefuseDeleted(r) \/ Fail(r)
  <2>1. Finish(r)
    BY <1>4 DEF Reply, RefuseToken, Sweep, RefuseDeleted, Fail
  <2>2. pc'[r] = "idle" /\ tok'[r] = 0 /\ next'[r] = 0
    BY <1>t, <2>1 DEF TypeOK, Typed, Finish
  <2> QED BY <2>2 DEF RequestOK
<1>5. CASE DetectReuse(r) \/ AcceptToken(r)
  <2>1. /\ tok[r] \in delivered /\ tok[r] \in Issued /\ owner[tok[r]] \in Users /\ next[r] = 0
    BY <1>t, <1>5 DEF TypeOK, Typed, LineageOK, RequestOK, DetectReuse, AcceptToken
  <2>2. /\ pc'[r] \in {"sweep", "insert"}
        /\ who'[r] = owner[tok[r]]
        /\ UNCHANGED <<owner, tok, next, delivered>>
    BY <1>t, <1>5 DEF TypeOK, Typed, DetectReuse, AcceptToken, database
  <2> QED BY <2>1, <2>2 DEF RequestOK
<1>6. CASE RetireRow(r)
  <2>1. /\ pc'[r] = "account"
        /\ UNCHANGED <<issued, rows, owner, who, tok, next, delivered, parent, family>>
        /\ tok[r] \notin rows \ revoked'
    BY <1>t, <1>6 DEF TypeOK, Typed, RetireRow, Retire, history
  <2> QED BY <1>t, <1>6, <2>1 DEF RequestOK, Carries, RetireRow, Unrevoked, Issued
<1>7. CASE CheckAccount(r)
  <2>1. /\ pc'[r] = "reply"
        /\ UNCHANGED <<database, who, tok, next, delivered, parent, family>>
    BY <1>t, <1>7 DEF TypeOK, Typed, CheckAccount, history
  <2> QED BY <1>t, <1>7, <2>1 DEF RequestOK, Carries, CheckAccount, Unrevoked, Issued, database
<1> QED BY <1>1, <1>2, <1>3, <1>4, <1>5, <1>6, <1>7 DEF StepOf

LEMMA RequestStep == Inv /\ [Next]_vars => (\A q \in Requests : RequestOK(q))'
<1> SUFFICES ASSUME Inv, [Next]_vars, NEW q \in Requests PROVE RequestOK(q)'
  OBVIOUS
<1>1. CASE OtherStep
  BY <1>1, OtherStepFrame, RequestFrame
<1>2. ASSUME NEW r \in Requests, StepOf(r) PROVE RequestOK(q)'
  <2>1. CASE q = r
    BY <1>2, <2>1, RequestActor
  <2>2. CASE q # r
    <3>1. /\ pc'[q] = pc[q] /\ who'[q] = who[q] /\ tok'[q] = tok[q] /\ next'[q] = next[q]
          /\ delivered' \subseteq delivered \cup {next[r]}
      BY <1>2, <2>2, OneActor DEF Inv
    <3>2. next[q] = 0 \/ next[q] # next[r]
      BY <2>2 DEF Inv, NextUnique
    <3>3. 0 \notin delivered'
      BY TypeStep DEF TypeOK, Typed, Issued
    <3> QED BY <3>1, <3>2, <3>3, RequestFrame
  <2> QED BY <2>1, <2>2
<1> QED BY <1>1, <1>2, StepCases

LEMMA NextUniqueStep == Inv /\ [Next]_vars => NextUnique'
<1> SUFFICES ASSUME Inv, [Next]_vars PROVE NextUnique'
  OBVIOUS
<1>t. TypeOK /\ NextUnique /\ issued \in Nat
  BY MaxTokensAssumption DEF Inv, TypeOK, Typed
<1>1. CASE \E r \in Requests : Mint(r) \/ InsertNext(r)
  <2>1. PICK r \in Requests : Mint(r) \/ InsertNext(r)
    BY <1>1
  <2>2. next' = [next EXCEPT ![r] = issued + 1]
    BY <2>1 DEF Mint, InsertNext
  <2>3. \A q \in Requests : next[q] # issued + 1
    BY <1>t DEF TypeOK, Typed
  <2> QED BY <1>t, <2>2, <2>3 DEF NextUnique, TypeOK, Typed
<1>2. CASE ~\E r \in Requests : Mint(r) \/ InsertNext(r)
  <2>1. \A q \in Requests : next'[q] \in {0, next[q]}
    BY <1>t, <1>2
      DEF TypeOK, Typed, Next, Handlers, vars, requests, StartRegister, StartLogin, Reply,
      StartRefresh, RefuseToken, DetectReuse, Sweep, AcceptToken, RetireRow, Finish,
      CheckAccount, RefuseDeleted, Logout, ConfirmPasswordReset, DeleteUser, Expire, Fail
  <2> QED BY <1>t, <2>1 DEF NextUnique
<1> QED BY <1>1, <1>2

-----------------------------------------------------------------------------
(* Links between rows. *)

LEMMA RetiredStep == Inv /\ [Next]_vars => RetiredBeforeHandout'
<1> SUFFICES ASSUME Inv, [Next]_vars, NEW t \in delivered', parent'[t] # 0
             PROVE  ~Unrevoked(parent[t])'
  BY DEF RetiredBeforeHandout
<1>t. TypeOK /\ issued \in Nat
  BY MaxTokensAssumption DEF Inv, TypeOK, Typed
<1>p. ASSUME t \in Issued, ~Unrevoked(parent[t]) PROVE ~Unrevoked(parent[t])'
  <2>1. parent'[t] = parent[t] /\ parent[t] \in Issued
    BY <1>t, <1>p, Monotone, MaxTokensAssumption DEF TypeOK, Typed, Token, Issued
  <2> QED BY <1>p, <2>1, Monotone
<1>1. CASE t \in delivered
  <2>1. t \in Issued /\ parent'[t] = parent[t]
    BY <1>t, <1>1, Monotone DEF TypeOK, Typed
  <2> QED BY <1>1, <1>p, <2>1 DEF Inv, RetiredBeforeHandout
<1>2. CASE t \notin delivered
  <2>1. PICK r \in Requests : Reply(r) /\ t = next[r]
    BY <1>2, SMTT(60) DEF Next, Handlers, vars, StartRegister, StartLogin, Reply, Mint, InsertNext,
      StartRefresh, RefuseToken, DetectReuse, Sweep, AcceptToken, RetireRow,
      CheckAccount, RefuseDeleted, Logout, ConfirmPasswordReset, DeleteUser, Expire, Fail
  <2>2. t \in Issued /\ parent[t] = tok[r] /\ (tok[r] # 0 => ~Unrevoked(tok[r]))
    BY <2>1 DEF Inv, RequestOK, Carries, Reply
  <2>3. parent'[t] = parent[t]
    BY <2>2, Monotone
  <2> QED BY <1>p, <2>2, <2>3
<1> QED BY <1>1, <1>2

LEMMA ChainStep == Inv /\ [Next]_vars => BlankRows' /\ RotationChain'
<1> SUFFICES ASSUME Inv, [Next]_vars PROVE BlankRows' /\ RotationChain'
  OBVIOUS
<1>t. TypeOK /\ TypeOK' /\ BlankRows /\ RotationChain /\ issued \in Nat /\ issued' \in Nat
      /\ issued <= issued' /\ Issued \subseteq Token
  <2>1. TypeOK /\ TypeOK' /\ BlankRows /\ RotationChain /\ issued <= issued'
    BY TypeStep, Monotone DEF Inv
  <2>2. issued \in 0..MaxTokens /\ issued' \in 0..MaxTokens
    BY <2>1 DEF TypeOK, Typed
  <2> QED BY <2>1, <2>2, MaxTokensAssumption DEF Issued, Token
<1>m. \A t \in Issued : /\ t \in Issued' /\ owner'[t] = owner[t]
                        /\ parent'[t] = parent[t] /\ family'[t] = family[t]
                        /\ t \in revoked => t \in revoked'
  BY Monotone
<1>1. CASE \E r \in Requests : RetireRow(r)
  <2>1. PICK r \in Requests : RetireRow(r)
    BY <1>1
  <2>2. /\ tok[r] \in Issued /\ tok[r] # 0 /\ next[r] \in Issued /\ next[r] > tok[r]
        /\ parent[next[r]] = tok[r] /\ owner[next[r]] = owner[tok[r]]
        /\ family[next[r]] = family[tok[r]]
    <3>1. RequestOK(r) /\ tok[r] \in delivered /\ Carries(r)
      BY <2>1 DEF Inv, RequestOK, RetireRow
    <3>2. tok[r] \in Issued /\ tok[r] # 0
      BY <1>t, <3>1 DEF TypeOK, Typed, Issued
    <3> QED BY <3>1, <3>2 DEF Carries
  <2>3. UNCHANGED <<issued, rows, owner, parent, family>>
    BY <2>1 DEF RetireRow, history
  <2>4. CASE tok[r] \in rows
    <3>1. replaced_by' = [replaced_by EXCEPT ![tok[r]] = next[r]] /\ tok[r] \in revoked'
      BY <2>1, <2>4 DEF RetireRow, Retire
    <3>2. BlankRows'
      BY <1>t, <2>2, <2>3, <3>1 DEF BlankRows, TypeOK, Typed, Issued
    <3>3. RotationChain'
      <4> SUFFICES ASSUME NEW t \in Issued, replaced_by'[t] # 0
                   PROVE  /\ t \in revoked'
                          /\ replaced_by'[t] > t
                          /\ parent[replaced_by'[t]] = t
                          /\ owner[replaced_by'[t]] = owner[t]
                          /\ family[replaced_by'[t]] = family[t]
        BY <2>3 DEF RotationChain, Issued
      <4>1. CASE t = tok[r]
        BY <1>t, <2>2, <3>1, <4>1 DEF TypeOK, Typed
      <4>2. CASE t # tok[r]
        BY <1>t, <1>m, <3>1, <4>2 DEF TypeOK, Typed, RotationChain
      <4> QED BY <4>1, <4>2
    <3> QED BY <3>2, <3>3
  <2>5. CASE tok[r] \notin rows
    <3>1. UNCHANGED <<replaced_by, revoked>>
      BY <2>1, <2>5 DEF RetireRow, Retire
    <3> QED BY <1>t, <2>3, <3>1 DEF BlankRows, RotationChain, Issued
  <2> QED BY <2>4, <2>5
<1>2. CASE ~\E r \in Requests : RetireRow(r)
  <2>1. UNCHANGED replaced_by
    BY <1>2 DEF Next, Handlers, vars, database, StartRegister, StartLogin, Reply, Mint, InsertNext,
      StartRefresh, RefuseToken, DetectReuse, Sweep, AcceptToken,
      CheckAccount, RefuseDeleted, Logout, ConfirmPasswordReset, DeleteUser, Expire, Fail
  <2>2. BlankRows'
    BY <1>t, <2>1 DEF BlankRows, Issued
  <2>3. ASSUME NEW t \in Issued', replaced_by'[t] # 0
        PROVE  /\ t \in revoked'
               /\ replaced_by'[t] > t
               /\ parent'[replaced_by'[t]] = t
               /\ owner'[replaced_by'[t]] = owner'[t]
               /\ family'[replaced_by'[t]] = family'[t]
    <3>1. t \in Issued
      <4>1. t \in Token
        BY <1>t, MaxTokensAssumption DEF TypeOK, Typed, Token, Issued
      <4> QED BY <1>t, <2>1, <2>3, <4>1 DEF BlankRows
    <3>2. replaced_by[t] \in Issued
      BY <1>t, <2>1, <2>3, <3>1 DEF TypeOK, Typed, Issued
    <3> QED BY <1>t, <1>m, <2>1, <2>3, <3>1, <3>2 DEF RotationChain
  <2> QED BY <2>2, <2>3 DEF RotationChain
<1> QED BY <1>1, <1>2

-----------------------------------------------------------------------------
(* Sessions. *)

\* A step that neither adds a head to a session nor makes a request pending in
\* it keeps it a single cell.
LEMMA CellFrame ==
  ASSUME Inv, NEW f, SingleCell(f),
         Heads(f)' \subseteq Heads(f),
         \A q \in Requests : Pending(q, f)' =>
           /\ Pending(q, f)
           /\ \A t \in Heads(f)' : (Rotating(q) /\ t = tok[q]) => (Rotating(q) /\ t = tok[q])'
  PROVE  SingleCell(f)'
  BY DEF SingleCell

\* An issued token's session is an issued token, and so is that of a request.
LEMMA FamiliesIssued ==
  ASSUME Inv, NEW q \in Requests, NEW f, Pending(q, f)
  PROVE  f \in Issued
<1>1. CASE pc[q] \in {"insert", "update", "account"}
  <2>1. tok[q] \in Issued /\ f = family[tok[q]]
    BY <1>1 DEF Inv, TypeOK, Typed, RequestOK, Pending
  <2> QED BY <2>1 DEF Inv, LineageOK
<1>2. CASE pc[q] = "reply"
  <2>1. next[q] \in Issued /\ f = family[next[q]]
    BY <1>2 DEF Inv, RequestOK, Carries, Pending
  <2> QED BY <2>1 DEF Inv, LineageOK
<1> QED BY <1>1, <1>2 DEF Pending

\* A request whose locals a step leaves alone is pending where it was.
LEMMA PendingFrame ==
  ASSUME Inv, [Next]_vars, NEW q \in Requests, NEW f,
         pc'[q] = pc[q], tok'[q] = tok[q], next'[q] = next[q], Pending(q, f)'
  PROVE  Pending(q, f) /\ (Rotating(q) => Rotating(q)')
<1>1. \A t \in Issued : family'[t] = family[t]
  BY Monotone
<1>2. CASE pc[q] \in {"insert", "update", "account"}
  <2>1. tok[q] \in Issued
    BY <1>2 DEF Inv, TypeOK, Typed, RequestOK
  <2> QED BY <1>1, <1>2, <2>1 DEF Pending, Rotating
<1>3. CASE pc[q] = "reply"
  <2>1. next[q] \in Issued
    BY <1>3 DEF Inv, RequestOK, Carries
  <2> QED BY <1>1, <1>3, <2>1 DEF Pending, Rotating
<1> QED BY <1>2, <1>3 DEF Pending

\* Only a reply adds heads to a session that exists.
LEMMA HeadsShrink ==
  ASSUME Inv, [Next]_vars, NEW f \in Issued, delivered' = delivered
  PROVE  Heads(f)' \subseteq Heads(f)
<1>1. \A t \in delivered : t \in Issued
  BY DEF Inv, TypeOK, Typed
<1> QED BY <1>1, Monotone DEF Heads

LEMMA CellStep ==
  ASSUME Inv, NEW r \in Requests, StepOf(r), NEW f \in Issued, SingleCell(f), f \notin overlapped'
  PROVE  SingleCell(f)'
<1>n. [Next]_vars
  BY StepCases
<1>t. TypeOK /\ LineageOK /\ RequestOK(r) /\ issued \in Nat
  BY MaxTokensAssumption DEF Inv, TypeOK, Typed
<1>o. \A q \in Requests \ {r} : Pending(q, f)' =>
        Pending(q, f) /\ tok'[q] = tok[q] /\ (Rotating(q) => Rotating(q)')
  BY <1>n, <1>t, OneActor, PendingFrame
<1>1. CASE \E u \in Users : StartRegister(r, u) \/ StartLogin(r, u)
  <2>1. pc'[r] = "mint" /\ delivered' = delivered
    BY <1>t, <1>1 DEF TypeOK, Typed, StartRegister, StartLogin
  <2>2. ~Pending(r, f)'
    BY <2>1 DEF Pending
  <2> QED BY <1>n, <1>o, <2>1, <2>2, HeadsShrink, CellFrame
<1>2. CASE (\E t \in delivered : StartRefresh(r, t)) \/ DetectReuse(r)
  <2>1. pc'[r] \in {"select", "sweep"} /\ delivered' = delivered
    BY <1>t, <1>2 DEF TypeOK, Typed, StartRefresh, DetectReuse
  <2>2. ~Pending(r, f)'
    BY <2>1 DEF Pending
  <2> QED BY <1>n, <1>o, <2>1, <2>2, HeadsShrink, CellFrame
<1>3. CASE RefuseToken(r) \/ Sweep(r) \/ RefuseDeleted(r) \/ Fail(r)
  <2>1. pc'[r] = "idle" /\ delivered' = delivered
    BY <1>t, <1>3 DEF TypeOK, Typed, RefuseToken, Sweep, RefuseDeleted, Fail, Finish
  <2>2. ~Pending(r, f)'
    BY <2>1 DEF Pending
  <2> QED BY <1>n, <1>o, <2>1, <2>2, HeadsShrink, CellFrame
<1>4. CASE Mint(r)
  <2>1. pc'[r] = "reply" /\ delivered' = delivered /\ family'[next'[r]] = issued + 1
    <3>1. tok[r] = 0 /\ next'[r] = issued + 1 /\ pc'[r] = "reply" /\ delivered' = delivered
      BY <1>t, <1>4 DEF TypeOK, Typed, RequestOK, Mint
    <3>2. family'[issued + 1] = issued + 1
      BY <1>4, <1>t, MaxTokensAssumption DEF Mint, IssueRefreshToken, TypeOK, Typed, Token
    <3> QED BY <3>1, <3>2
  <2>2. ~Pending(r, f)'
    BY <1>t, <2>1 DEF Pending, Issued
  <2> QED BY <1>n, <1>o, <2>1, <2>2, HeadsShrink, CellFrame
<1>5. CASE InsertNext(r)
  <2>1. pc[r] = "insert" /\ pc'[r] = "update" /\ delivered' = delivered /\ tok'[r] = tok[r]
    BY <1>t, <1>5 DEF TypeOK, Typed, InsertNext
  <2>2. tok[r] \in Issued
    BY <1>t, <2>1 DEF TypeOK, Typed, RequestOK
  <2>3. Pending(r, f)' => Pending(r, f) /\ Rotating(r)'
    BY <1>n, <2>1, <2>2, Monotone DEF Pending, Rotating
  <2> QED BY <1>n, <1>o, <2>1, <2>3, HeadsShrink, CellFrame
<1>6. CASE RetireRow(r)
  <2>1. /\ pc[r] = "update" /\ pc'[r] = "account" /\ delivered' = delivered
        /\ tok'[r] = tok[r] /\ family' = family /\ tok[r] \notin rows' \ revoked'
    BY <1>t, <1>6 DEF TypeOK, Typed, RetireRow, Retire, history
  <2>2. Pending(r, f)' => Pending(r, f)
    BY <2>1 DEF Pending
  <2>3. Pending(r, f) => \A t \in Heads(f) : t = tok[r]
    BY DEF SingleCell
  <2>4. Pending(r, f) => Heads(f)' = {}
    BY <1>n, <2>1, <2>3, HeadsShrink DEF Heads, Unrevoked
  <2> QED BY <1>n, <1>o, <2>1, <2>2, <2>4, HeadsShrink, CellFrame
<1>7. CASE CheckAccount(r)
  <2>1. /\ pc[r] = "account" /\ pc'[r] = "reply" /\ delivered' = delivered
        /\ next'[r] = next[r] /\ family' = family
    BY <1>t, <1>7 DEF TypeOK, Typed, CheckAccount, history
  <2>2. tok[r] \in Issued /\ tok[r] # 0 /\ Carries(r)
    BY <1>t, <2>1 DEF TypeOK, Typed, RequestOK, Issued
  <2>3. Pending(r, f)' => Pending(r, f)
    BY <2>1, <2>2 DEF Pending, Carries
  <2>4. Pending(r, f) => Heads(f) = {}
    BY <2>1 DEF SingleCell, Rotating
  <2> QED BY <1>n, <1>o, <2>1, <2>3, <2>4, HeadsShrink, CellFrame
<1>8. CASE AcceptToken(r)
  <2>1. /\ pc'[r] = "insert" /\ tok'[r] = tok[r] /\ family' = family /\ delivered' = delivered
        /\ tok[r] \in delivered /\ Unrevoked(tok[r])
    BY <1>t, <1>8 DEF TypeOK, Typed, RequestOK, AcceptToken, Acceptable
  <2>2. CASE family[tok[r]] # f
    <3>1. ~Pending(r, f)'
      BY <2>1, <2>2 DEF Pending
    <3> QED BY <1>n, <1>o, <2>1, <3>1, HeadsShrink, CellFrame
  <2>3. CASE family[tok[r]] = f
    <3>1. tok[r] \in Heads(f)
      BY <2>1, <2>3 DEF Heads
    <3>2. \A q \in Requests \ {r} : ~Pending(q, f)
      <4> SUFFICES ASSUME NEW q \in Requests \ {r}, Pending(q, f) PROVE FALSE
        OBVIOUS
      <4>1. Rotating(q) /\ tok[q] = tok[r]
        BY <3>1 DEF SingleCell
      <4>2. f \in overlapped'
        BY <1>8, <2>3, <4>1 DEF AcceptToken
      <4> QED BY <4>2
    <3>3. Rotating(r)' /\ Heads(f)' \subseteq {tok[r]}
      BY <1>n, <2>1, <3>1, HeadsShrink DEF SingleCell, Rotating
    <3> QED BY <1>o, <2>1, <3>2, <3>3 DEF SingleCell
  <2> QED BY <2>2, <2>3
<1>9. CASE Reply(r)
  <2>1. /\ pc[r] = "reply" /\ pc'[r] = "idle" /\ delivered' = delivered \cup {next[r]}
        /\ UNCHANGED <<rows, revoked, family>>
    BY <1>t, <1>9 DEF TypeOK, Typed, Reply, Finish, database, history
  <2>2. ~Pending(r, f)'
    BY <2>1 DEF Pending
  <2>3. CASE family[next[r]] # f
    <3>1. Heads(f)' \subseteq Heads(f)
      BY <2>1, <2>3 DEF Heads, Unrevoked
    <3> QED BY <1>o, <2>2, <3>1, CellFrame
  <2>4. CASE family[next[r]] = f
    <3>1. Pending(r, f) /\ ~Rotating(r)
      BY <2>1, <2>4 DEF Pending, Rotating
    <3>2. Heads(f) = {} /\ \A q \in Requests \ {r} : ~Pending(q, f)
      BY <3>1 DEF SingleCell
    <3>3. Heads(f)' \subseteq {next[r]}
      BY <2>1, <3>2 DEF Heads, Unrevoked
    <3> QED BY <1>o, <2>2, <3>2, <3>3 DEF SingleCell
  <2> QED BY <2>3, <2>4
<1> QED BY <1>1, <1>2, <1>3, <1>4, <1>5, <1>6, <1>7, <1>8, <1>9 DEF StepOf

LEMMA CellsStep == Inv /\ [Next]_vars => Cells'
<1> SUFFICES ASSUME Inv, [Next]_vars, NEW f \in Issued', f \notin overlapped'
             PROVE  SingleCell(f)'
  BY DEF Cells
<1>t. TypeOK /\ LineageOK /\ issued \in Nat /\ overlapped \subseteq overlapped'
  BY Monotone, MaxTokensAssumption DEF Inv, TypeOK, Typed
<1>1. CASE f \in Issued
  <2>1. SingleCell(f)
    BY <1>t, <1>1 DEF Inv, Cells
  <2>2. CASE OtherStep
    <3>1. /\ UNCHANGED <<pc, tok, next, delivered>>
          /\ Heads(f)' \subseteq Heads(f)
      BY <1>1, <2>2, OtherStepFrame, HeadsShrink
    <3>2. \A q \in Requests : Pending(q, f)' => Pending(q, f) /\ (Rotating(q) => Rotating(q)')
      BY <3>1, PendingFrame
    <3> QED BY <2>1, <3>1, <3>2, CellFrame
  <2>3. CASE \E r \in Requests : StepOf(r)
    BY <1>1, <2>1, <2>3, CellStep
  <2> QED BY <2>2, <2>3, StepCases
<1>2. CASE f \notin Issued
  \* The session a login has just opened: nobody holds its token yet.
  <2>1. PICK r \in Requests : Mint(r) \/ InsertNext(r)
    BY <1>2 DEF Next, Handlers, vars, database, requests, history, StartRegister, StartLogin, Reply,
      StartRefresh, RefuseToken, DetectReuse, Sweep, AcceptToken, RetireRow,
      CheckAccount, RefuseDeleted, Logout, ConfirmPasswordReset, DeleteUser, Expire, Fail, Issued
  <2>2. delivered' = delivered /\ pc'[r] \in {"reply", "update"}
    BY <1>t, <2>1 DEF TypeOK, Typed, Mint, InsertNext
  <2>3. \A t \in delivered : t \in Issued /\ family[t] \in Issued
    BY <1>t DEF TypeOK, Typed, LineageOK
  <2>4. Heads(f)' = {}
    BY <1>2, <2>2, <2>3, Monotone DEF Heads
  <2>5. StepOf(r)
    BY <2>1 DEF StepOf
  <2>6. \A q \in Requests \ {r} : ~Pending(q, f)'
    BY <1>2, <1>t, <2>5, OneActor, PendingFrame, FamiliesIssued
  <2> QED BY <2>4, <2>6 DEF SingleCell
<1> QED BY <1>1, <1>2

-----------------------------------------------------------------------------
(* The theorems. *)

LEMMA InitInv == Init => Inv
<1> SUFFICES ASSUME Init PROVE Inv
  OBVIOUS
<1> USE DEF Init
<1>1. TypeOK
  BY MaxTokensAssumption DEF TypeOK, Typed, RowsOwned, AccountStates, Labels, Token, Issued
<1>2. Issued = {}
  BY DEF Issued
<1>3. LineageOK /\ BlankRows /\ Cells /\ RotationChain /\ RetiredBeforeHandout
  BY <1>2 DEF LineageOK, BlankRows, Cells, RotationChain, RetiredBeforeHandout
<1>4. NextUnique /\ \A r \in Requests : RequestOK(r)
  BY DEF NextUnique, RequestOK
<1> QED BY <1>1, <1>3, <1>4 DEF Inv

LEMMA NextInv == Inv /\ [Next]_vars => Inv'
  BY TypeStep, LineageStep, RequestStep, NextUniqueStep, RetiredStep, ChainStep, CellsStep DEF Inv

LEMMA Invariance == Spec => []Inv
  BY InitInv, NextInv, PTL DEF Spec

\* Type correctness, for any accounts, requests and number of tokens.
THEOREM TypeCorrect == Spec => []TypeOK
<1>1. Inv => TypeOK
  BY DEF Inv
<1> QED BY <1>1, Invariance, PTL

\* A session whose rotations never overlapped has one usable token at most.
THEOREM OneHead == Spec => []OneHeadUnlessOverlapped
<1>1. Inv => OneHeadUnlessOverlapped
  <2> SUFFICES ASSUME Inv, NEW f \in Issued \ overlapped PROVE Cardinality(Heads(f)) <= 1
    BY DEF OneHeadUnlessOverlapped
  <2>1. \A s, t \in Heads(f) : s = t
    BY DEF Inv, Cells, SingleCell
  <2>2. CASE Heads(f) = {}
    BY <2>2, FS_EmptySet
  <2>3. CASE Heads(f) # {}
    <3>1. PICK t : Heads(f) = {t}
      BY <2>1, <2>3
    <3>2. Cardinality({t}) = 1
      BY FS_Singleton
    <3> QED BY <3>1, <3>2
  <2> QED BY <2>2, <2>3
<1> QED BY <1>1, Invariance, PTL

\* No client ever holds a live token beside the live one it was issued from.
THEOREM RetiredFirst == Spec => []RetiredBeforeHandout
<1>1. Inv => RetiredBeforeHandout
  BY DEF Inv
<1> QED BY <1>1, Invariance, PTL

\* replaced_by is always a link to a later token issued from the row.
THEOREM ChainLinks == Spec => []RotationChain
<1>1. Inv => RotationChain
  BY DEF Inv
<1> QED BY <1>1, Invariance, PTL

\* A row that a step adds belongs to a new session or to one being rotated.
LEMMA OverStep == Inv /\ [Next]_vars => (\A f \in Issued : Over(f) => Over(f)')
<1> SUFFICES ASSUME Inv, [Next]_vars, NEW f \in Issued, Over(f) PROVE Over(f)'
  OBVIOUS
<1>t. TypeOK /\ issued \in Nat
  BY MaxTokensAssumption DEF Inv, TypeOK, Typed
<1>m. /\ \A t \in Issued : family'[t] = family[t]
      /\ revoked \subseteq revoked'
      /\ expired \in Nat /\ expired' \in Nat /\ expired <= expired'
  BY Monotone
<1>1. ASSUME NEW t \in rows', family'[t] = f PROVE t \in revoked' \/ t <= expired'
  <2>1. CASE t \in rows
    <3>1. t \in Issued /\ family[t] = f
      BY <1>t, <1>m, <1>1, <2>1 DEF TypeOK, Typed
    <3>2. t \in revoked \/ t <= expired
      BY <2>1, <3>1 DEF Over
    <3> QED BY <1>m, <3>1, <3>2 DEF Issued
  <2>2. CASE t \notin rows
    <3>1. PICK r \in Requests : Mint(r) \/ InsertNext(r)
      BY <1>1, <2>2 DEF Next, Handlers, vars, database, StartRegister, StartLogin, Reply,
        StartRefresh, RefuseToken, DetectReuse, Sweep, AcceptToken, RetireRow,
        CheckAccount, RefuseDeleted, Logout, ConfirmPasswordReset, DeleteUser, Expire, Fail
    <3>2. PICK p \in 0..issued, root \in 1..(issued + 1) :
             /\ who[r] \in Users
             /\ root = IF tok[r] = 0 THEN issued + 1 ELSE family[tok[r]]
             /\ IssueRefreshToken(who[r], p, root)
      BY <3>1, IssueByRequest
    <3>3. family'[issued + 1] = root /\ rows' = rows \cup {issued + 1}
      BY <1>t, <3>2, IssueKeepsOldRows
    <3>4. tok[r] # 0 => Rotating(r)
      BY <3>1 DEF Inv, RequestOK, Mint, InsertNext, Rotating
    <3>5. root # f
      BY <1>t, <3>2, <3>4 DEF Over, Issued
    <3> QED BY <1>1, <2>2, <3>3, <3>5
  <2> QED BY <2>1, <2>2
<1>2. ASSUME NEW q \in Requests, Rotating(q)' PROVE family'[tok'[q]] # f
  <2>1. CASE OtherStep
    <3>1. pc'[q] = pc[q] /\ tok'[q] = tok[q]
      BY <2>1, OtherStepFrame
    <3>2. tok[q] \in Issued
      BY <1>2, <3>1 DEF Inv, TypeOK, Typed, RequestOK, Rotating
    <3> QED BY <1>m, <1>2, <3>1, <3>2 DEF Over, Rotating
  <2>2. ASSUME NEW r \in Requests, StepOf(r), pc'[q] = pc[q], tok'[q] = tok[q]
        PROVE  family'[tok'[q]] # f
    <3>1. tok[q] \in Issued
      BY <1>2, <2>2 DEF Inv, TypeOK, Typed, RequestOK, Rotating
    <3> QED BY <1>m, <1>2, <2>2, <3>1 DEF Over, Rotating
  <2>3. ASSUME StepOf(q) PROVE family'[tok'[q]] # f
    <3>1. AcceptToken(q) \/ InsertNext(q)
      BY <1>t, <1>2, <2>3
        DEF StepOf, TypeOK, Typed, Rotating, StartRegister, StartLogin, StartRefresh,
        Mint, Reply, RefuseToken, DetectReuse, Sweep, RetireRow, CheckAccount, RefuseDeleted,
        Fail, Finish
    <3>2. tok'[q] = tok[q]
      BY <3>1 DEF AcceptToken, InsertNext
    <3>3. tok[q] \in Issued /\ family[tok[q]] # f
      BY <1>t, <3>1 DEF AcceptToken, Acceptable, Unrevoked, InsertNext, Over, Rotating, Inv,
        TypeOK, Typed, RequestOK
    <3> QED BY <1>m, <3>2, <3>3
  <2>4. ASSUME NEW r \in Requests, StepOf(r) PROVE family'[tok'[q]] # f
    <3>1. q = r \/ (pc'[q] = pc[q] /\ tok'[q] = tok[q])
      BY <1>t, <2>4, OneActor
    <3> QED BY <2>2, <2>3, <2>4, <3>1
  <2> QED BY <2>1, <2>4, StepCases
<1> QED BY <1>1, <1>2 DEF Over

\* A session that is over stays over: rotateRefreshToken, revokeRefreshToken and
\* revokeAllForUser never clear revoked_at, and a session no row of which can be
\* rotated gets no new row.
OverStaysOver == [][\A f \in Issued : Over(f) => Over(f)']_vars

\* A session that is over never comes back.
THEOREM SessionsStayOver == Spec => OverStaysOver
<1>1. Inv /\ [Next]_vars => [\A f \in Issued : Over(f) => Over(f)']_vars
  BY OverStep
<1> QED BY <1>1, Invariance, PTL DEF Spec, OverStaysOver

-----------------------------------------------------------------------------
(* The sessions implement Session. *)

LEMMA InitSessions == Init => Sessions!Init
BY DEF Init, Sessions!Init, Opened, Closed, Usable, Heads, Issued

\* Every session is named by an issued token.
LEMMA OpenedIssued == Inv => Opened \subseteq Issued /\ Issued \subseteq Token /\ delivered \subseteq Token
<1> SUFFICES ASSUME Inv
             PROVE  Opened \subseteq Issued /\ Issued \subseteq Token /\ delivered \subseteq Token
  OBVIOUS
<1>1. Issued \subseteq Token
  BY MaxTokensAssumption DEF Inv, TypeOK, Typed, Issued, Token
<1>2. Opened \subseteq Issued
  BY DEF Inv, LineageOK, Opened
<1> QED BY <1>1, <1>2 DEF Inv, TypeOK, Typed

\* What a token is worth to a client is what the SELECT of a rotation says.
LEMMA UsableAcceptable == \A f : Usable(f) = {t \in delivered : Acceptable(t) /\ family[t] = f}
BY DEF Usable, Heads, Acceptable

\* A session with a token that could be rotated is not over.
LEMMA LiveNotOver ==
  ASSUME NEW t, Acceptable(t), TypeOK
  PROVE  ~Over(family[t])
<1>1. t \in rows /\ t \notin revoked /\ t > expired
  BY DEF Acceptable, Unrevoked
<1>2. t \in Nat /\ expired \in Nat
  BY <1>1 DEF TypeOK, Typed, Issued
<1> QED BY <1>1, <1>2 DEF Over

\* A step that opens no session and shows no client a token can only end some.
LEMMA EndStep ==
  ASSUME Inv, [Next]_vars, Opened' = Opened, UNCHANGED <<delivered, overlapped>>
  PROVE  Sessions!Next
<1> DEFINE dead == {t \in delivered : ~Acceptable(t)'}
           over == {f \in Opened : Over(f)' /\ ~Over(f)}
<1>1. dead \in SUBSET delivered /\ over \in SUBSET (Opened \ Closed)
  BY DEF Closed
<1>2. Closed' = Closed \cup over
  <2>1. \A f \in Opened : Over(f) => Over(f)'
    BY OverStep, OpenedIssued
  <2> QED BY <2>1 DEF Closed
<1>3. ASSUME NEW f \in Token PROVE Usable(f)' = Usable(f) \ dead
  <2>1. ASSUME NEW t \in delivered
        PROVE  /\ family'[t] = family[t]
               /\ Acceptable(t)' => Acceptable(t)
    <3>1. t \in Issued /\ t \in Nat
      BY DEF Inv, TypeOK, Typed, Issued
    <3>2. /\ family'[t] = family[t]
          /\ ~Unrevoked(t) => ~Unrevoked(t)'
          /\ expired \in Nat /\ expired' \in Nat /\ expired <= expired'
      BY <3>1, Monotone
    <3> QED BY <3>1, <3>2 DEF Acceptable
  <2>2. Usable(f)' = {t \in delivered : Acceptable(t)' /\ family'[t] = f}
    BY DEF Usable, Heads, Acceptable
  <2> QED BY <2>1, <2>2, UsableAcceptable
<1>4. ASSUME NEW f \in over PROVE Usable(f)' = {}
  <2> SUFFICES ASSUME NEW t \in Usable(f)' PROVE FALSE
    OBVIOUS
  <2>1. Acceptable(t)' /\ family'[t] = f
    BY DEF Usable, Heads, Acceptable
  <2>2. TypeOK'
    BY TypeStep
  <2>3. t \in rows' /\ t \notin revoked' /\ t > expired' /\ t \in Nat /\ expired' \in Nat
    BY <2>1, <2>2 DEF Acceptable, Unrevoked, TypeOK, Typed, Issued
  <2> QED BY <2>1, <2>3 DEF Over
<1>5. over \subseteq Token
  BY OpenedIssued
<1> HIDE DEF dead, over
<1>6. [f \in Token |-> Usable(f)]' = [f \in Token |-> [g \in Token |-> Usable(g)][f] \ dead]
  BY <1>3
<1>7. \A f \in over : [g \in Token |-> Usable(g)]'[f] = {}
  BY <1>4, <1>5
<1>8. Sessions!End(dead, over)
  BY <1>2, <1>6, <1>7 DEF Sessions!End
<1> QED BY <1>1, <1>8 DEF Sessions!Next

\* A login opens a session.
LEMMA OpenStep ==
  ASSUME Inv, NEW r \in Requests, Mint(r)
  PROVE  Sessions!Next
<1>0. PICK f : f = issued + 1
  OBVIOUS
<1>t. TypeOK /\ RequestOK(r) /\ issued \in Nat /\ expired \in Nat /\ expired <= issued
  BY MaxTokensAssumption DEF Inv, TypeOK, Typed
<1>1. /\ f \in Token
      /\ Issued' = Issued \cup {f}
      /\ f \notin Issued
      /\ rows' = rows \cup {f}
      /\ family'[f] = f
      /\ \A t \in Issued : family'[t] = family[t]
  <2>1. who[r] \in Users /\ IssueRefreshToken(who[r], 0, f) /\ f \in 1..(issued + 1)
        /\ 0 \in 0..issued
    BY <1>0, <1>t DEF Mint, RequestOK
  <2> QED BY <1>0, <1>t, <2>1, IssueKeepsOldRows DEF Issued
<1>2. UNCHANGED <<revoked, expired, tok, delivered, overlapped>>
      /\ \A q \in Requests : Rotating(q)' <=> Rotating(q)
  <2>1. pc' = [pc EXCEPT ![r] = "reply"] /\ pc[r] = "mint"
    BY DEF Mint
  <2>2. \A q \in Requests : Rotating(q)' <=> Rotating(q)
    BY <1>t, <2>1 DEF Rotating, TypeOK, Typed
  <2> QED BY <2>2 DEF Mint
<1>3. f \notin Opened /\ Opened' = Opened \cup {f}
  BY <1>1, OpenedIssued DEF Opened
<1>4. Closed' = Closed
  <2>1. ~Over(f)'
    <3>1. f \in rows' /\ f \notin revoked' /\ ~(f <= expired')
      BY <1>0, <1>t, <1>1, <1>2 DEF TypeOK, Typed
    <3> QED BY <1>1, <3>1 DEF Over
  <2>2. ASSUME NEW g \in Opened PROVE Over(g)' <=> Over(g)
    <3>1. g # f
      BY <1>3
    <3>2. \A t \in rows : family'[t] = family[t]
      BY <1>t, <1>1 DEF TypeOK, Typed
    <3>3. ASSUME NEW q \in Requests, Rotating(q)
          PROVE  family'[tok[q]] = family[tok[q]]
      BY <1>1, <3>3 DEF Inv, TypeOK, Typed, RequestOK, Rotating
    <3> QED BY <1>1, <1>2, <3>1, <3>2, <3>3 DEF Over
  <2> QED BY <1>3, <2>1, <2>2 DEF Closed
<1>5. \A g : Usable(g)' = Usable(g)
  <2>1. \A t \in delivered : family'[t] = family[t] /\ (Unrevoked(t)' <=> Unrevoked(t))
    BY <1>t, <1>1, <1>2 DEF TypeOK, Typed, Unrevoked
  <2> QED BY <1>2, <2>1 DEF Usable, Heads
<1>6. Sessions!Open(f)
  BY <1>2, <1>3, <1>4, <1>5 DEF Sessions!Open
<1> QED BY <1>1, <1>6 DEF Sessions!Next


\* The answer of a login or a refresh gives a token, to its session alone.
LEMMA GiveStep ==
  ASSUME Inv, NEW r \in Requests, Reply(r)
  PROVE  Sessions!Next
<1>t. TypeOK /\ LineageOK /\ RequestOK(r) /\ [Next]_vars
  BY StepCases DEF Inv, StepOf
<1>0. PICK t : t = next[r]
  OBVIOUS
<1>1. /\ t \in Issued /\ t \in Token /\ t \notin delivered
      /\ delivered' = delivered \cup {t}
      /\ UNCHANGED <<issued, rows, revoked, expired, family, overlapped>>
  BY <1>0, <1>t, OpenedIssued DEF Reply, RequestOK, Carries, database, history
<1>2. PICK f : f = family[t]
  OBVIOUS
<1>3. f \in Opened /\ f \in Token
  BY <1>1, <1>2, OpenedIssued DEF Opened
<1>4. Opened' = Opened /\ Closed' = Closed
  <2>1. \A q \in Requests : /\ Rotating(q)' <=> Rotating(q)
                            /\ Rotating(q) => tok'[q] = tok[q]
    BY <1>t DEF Reply, Finish, TypeOK, Typed, Rotating
  <2>2. Opened' = Opened
    BY <1>1 DEF Opened, Issued
  <2>3. ASSUME NEW g PROVE Over(g)' <=> Over(g)
    BY <1>1, <2>1 DEF Over
  <2> QED BY <2>2, <2>3 DEF Closed
<1>5. \A s : Acceptable(s)' <=> Acceptable(s)
  BY <1>1 DEF Acceptable, Unrevoked
<1>6. \A g : Usable(g)' = {s \in delivered \cup {t} : Acceptable(s) /\ family[s] = g}
  BY <1>1, <1>5 DEF Usable, Heads, Acceptable
<1>7. CASE Acceptable(t)
  <2>1. f \in Opened \ Closed
    BY <1>t, <1>2, <1>3, <1>7, LiveNotOver DEF Closed
  <2>2. f \in overlapped \/ Usable(f) = {}
    <3>1. CASE f \in Issued \ overlapped
      <4>1. SingleCell(f) /\ Pending(r, f) /\ ~Rotating(r)
        BY <1>0, <1>2, <3>1 DEF Inv, Cells, Pending, Rotating, Reply
      <4> QED BY <4>1 DEF SingleCell, Usable
    <3> QED BY <1>3, <3>1, OpenedIssued
  <2>3. \A g : Usable(g)' = IF g = f THEN Usable(g) \cup {t} ELSE Usable(g)
    BY <1>2, <1>6, <1>7, UsableAcceptable
  <2>4. [g \in Token |-> Usable(g)]'
          = [[g \in Token |-> Usable(g)] EXCEPT ![f] = @ \cup {t}]
    BY <1>3, <2>3
  <2>5. Sessions!Give(f, t)
    BY <1>1, <1>3, <1>4, <2>1, <2>2, <2>4 DEF Sessions!Give
  <2> QED BY <1>1, <1>3, <2>5 DEF Sessions!Next
<1>8. CASE ~Acceptable(t)
  <2>1. \A g : Usable(g)' = Usable(g)
    BY <1>6, <1>8, UsableAcceptable
  <2>2. Sessions!GiveDead(t)
    BY <1>1, <1>4, <2>1 DEF Sessions!GiveDead
  <2> QED BY <1>1, <2>2 DEF Sessions!Next
<1> QED BY <1>7, <1>8

\* Accepting a token that another request is rotating makes its session loose.
LEMMA LoosenStep ==
  ASSUME Inv, NEW r \in Requests, AcceptToken(r), overlapped' # overlapped
  PROVE  Sessions!Next
<1>t. TypeOK /\ LineageOK /\ RequestOK(r)
  BY DEF Inv
<1>0. PICK t, f : t = tok[r] /\ f = family[t]
  OBVIOUS
<1>1. /\ t \in delivered /\ t \in Issued /\ Acceptable(t)
      /\ UNCHANGED <<issued, rows, revoked, expired, tok, delivered, family>>
      /\ \A q \in Requests : Rotating(q)' <=> Rotating(q) \/ q = r
  BY <1>0, <1>t DEF AcceptToken, RequestOK, TypeOK, Typed, Rotating, database
<1>2. f \in Opened /\ f \in Token
  BY <1>0, <1>1, OpenedIssued DEF Opened
<1>3. ~Over(f)
  BY <1>t, <1>0, <1>1, LiveNotOver
<1>4. overlapped' = overlapped \cup {f}
  BY <1>0 DEF AcceptToken
<1>5. Opened' = Opened /\ Closed' = Closed
  <2>1. Opened' = Opened
    BY <1>1 DEF Opened, Issued
  <2>2. ~Over(f)'
    BY <1>0, <1>1 DEF Over
  <2>3. ASSUME NEW g, g # f PROVE Over(g)' <=> Over(g)
    BY <1>0, <1>1, <2>3 DEF Over
  <2>4. \A g : Over(g)' <=> Over(g)
    BY <1>3, <2>2, <2>3
  <2> QED BY <2>1, <2>4 DEF Closed
<1>6. \A g : Usable(g)' = Usable(g)
  BY <1>1 DEF Usable, Heads, Unrevoked
<1>7. Sessions!Loosen(f)
  BY <1>1, <1>2, <1>3, <1>4, <1>5, <1>6 DEF Sessions!Loosen, Closed
<1> QED BY <1>2, <1>7 DEF Sessions!Next

\* Every step of the handlers is a step of Session or leaves it where it is.
LEMMA StepSessions == Inv /\ [Next]_vars => [Sessions!Next]_Sessions!vars
<1> SUFFICES ASSUME Inv, [Next]_vars PROVE Sessions!Next
  OBVIOUS
<1>1. ASSUME NEW r \in Requests, Mint(r) PROVE Sessions!Next
  BY <1>1, OpenStep
<1>2. ASSUME NEW r \in Requests, Reply(r) PROVE Sessions!Next
  BY <1>2, GiveStep
<1>3. ASSUME NEW r \in Requests, AcceptToken(r) PROVE Sessions!Next
  <2>1. CASE overlapped' = overlapped
    <3>1. Opened' = Opened /\ delivered' = delivered
      BY <1>3 DEF AcceptToken, database, Opened, Issued
    <3> QED BY <2>1, <3>1, EndStep
  <2> QED BY <1>3, <2>1, LoosenStep
<1>4. ASSUME NEW r \in Requests, InsertNext(r) PROVE Sessions!Next
  <2>1. PICK p \in 0..issued, root \in 1..(issued + 1) :
           /\ who[r] \in Users
           /\ p = tok[r]
           /\ root = IF tok[r] = 0 THEN issued + 1 ELSE family[tok[r]]
           /\ IssueRefreshToken(who[r], p, root)
    BY <1>4, IssueByRequest
  <2>2. TypeOK /\ issued \in Nat /\ tok[r] \in Issued /\ tok[r] # 0
    BY <1>4, MaxTokensAssumption DEF Inv, TypeOK, Typed, RequestOK, InsertNext, Issued
  <2>3. /\ Issued' = Issued \cup {issued + 1}
        /\ family'[issued + 1] = family[tok[r]]
        /\ \A t \in Issued : family'[t] = family[t] /\ t # issued + 1
    <3>1. /\ issued' = issued + 1
          /\ family'[issued + 1] = root
          /\ \A t \in Issued : family'[t] = family[t]
      BY <2>1, <2>2, IssueKeepsOldRows
    <3> QED BY <2>1, <2>2, <3>1 DEF Issued
  <2>4. Opened' = Opened
    BY <2>2, <2>3 DEF Opened
  <2>5. UNCHANGED <<delivered, overlapped>>
    BY <1>4 DEF InsertNext
  <2> QED BY <2>4, <2>5, EndStep
<1>5. CASE ~\E r \in Requests : Mint(r) \/ Reply(r) \/ AcceptToken(r) \/ InsertNext(r)
  <2>1. UNCHANGED <<issued, family, delivered, overlapped>>
    BY <1>5 DEF Next, Handlers, vars, database, history, StartRegister, StartLogin, StartRefresh,
      RefuseToken, DetectReuse, Sweep, RetireRow, CheckAccount, RefuseDeleted, Logout,
      ConfirmPasswordReset, DeleteUser, Expire, Fail
  <2>2. Opened' = Opened
    BY <2>1 DEF Opened, Issued
  <2> QED BY <2>1, <2>2, EndStep
<1> QED BY <1>1, <1>2, <1>3, <1>4, <1>5

\* The rotation protocol implements the promise of a session, for any accounts,
\* requests and number of tokens.
THEOREM SessionsKeepPromise == Spec => SessionPromise
BY Invariance, InitSessions, StepSessions, PTL DEF Spec, SessionPromise, Sessions!Spec

-----------------------------------------------------------------------------
(* Password resets. *)

\* A token belongs to the account of the login its session descends from.
FamilyOwned == \A t \in Issued : owner[t] = owner[family[t]] /\ family[family[t]] = family[t]

\* A session that a reset swept without a rotation between its statements has
\* no usable row, and nothing is about to give it one.
SweptClean ==
  \A f \in cut \ missed :
    /\ f \in Issued
    /\ \A t \in rows : family[t] = f => t \in revoked
    /\ \A r \in Requests : pc[r] = "insert" => family[tok[r]] # f

ResetInv == Inv /\ FamilyOwned /\ SweptClean

LEMMA FamilyOwnedStep == Inv /\ FamilyOwned /\ [Next]_vars => FamilyOwned'
<1> SUFFICES ASSUME Inv, FamilyOwned, [Next]_vars, NEW t \in Issued'
             PROVE  owner'[t] = owner'[family'[t]] /\ family'[family'[t]] = family'[t]
  BY DEF FamilyOwned
<1>t. TypeOK /\ LineageOK /\ issued \in Nat
  BY MaxTokensAssumption DEF Inv, TypeOK, Typed
<1>o. ASSUME NEW s \in Issued
      PROVE  /\ owner'[s] = owner'[family'[s]] /\ family'[family'[s]] = family'[s]
             /\ family'[s] = family[s] /\ owner'[s] = owner[s]
  <2>1. family[s] \in Issued
    BY <1>t DEF LineageOK
  <2> QED BY <2>1, Monotone DEF FamilyOwned
<1>1. CASE \E r \in Requests : Mint(r) \/ InsertNext(r)
  <2>1. PICK r \in Requests : Mint(r) \/ InsertNext(r)
    BY <1>1
  <2>2. PICK p \in 0..issued, root \in 1..(issued + 1) :
           /\ who[r] \in Users
           /\ p = tok[r]
           /\ root = IF tok[r] = 0 THEN issued + 1 ELSE family[tok[r]]
           /\ IssueRefreshToken(who[r], p, root)
    BY <2>1, IssueByRequest
  <2>3. /\ issued' = issued + 1
        /\ owner'[issued + 1] = who[r]
        /\ family'[issued + 1] = root
    BY <1>t, <2>2, IssueKeepsOldRows
  <2>4. tok[r] # 0 => tok[r] \in Issued /\ who[r] = owner[tok[r]]
    BY <1>t, <2>1 DEF Inv, TypeOK, Typed, RequestOK, Mint, InsertNext, Issued
  <2>5. CASE t = issued + 1
    <3>1. CASE tok[r] = 0
      BY <2>2, <2>3, <2>5, <3>1
    <3>2. CASE tok[r] # 0
      BY <1>o, <2>2, <2>3, <2>4, <2>5, <3>2
    <3> QED BY <3>1, <3>2
  <2>6. CASE t # issued + 1
    BY <1>t, <1>o, <2>3, <2>6 DEF Issued
  <2> QED BY <2>5, <2>6
<1>2. CASE ~\E r \in Requests : Mint(r) \/ InsertNext(r)
  <2>1. UNCHANGED issued
    BY <1>2 DEF Next, Handlers, vars, database, requests, history, StartRegister, StartLogin, Reply,
      StartRefresh, RefuseToken, DetectReuse, Sweep, AcceptToken, RetireRow,
      CheckAccount, RefuseDeleted, Logout, ConfirmPasswordReset, DeleteUser, Expire, Fail
  <2> QED BY <1>o, <2>1 DEF Issued
<1> QED BY <1>1, <1>2

\* A swept session gets no new row: only a rotation could add one, and none of
\* its rows can be rotated.
LEMMA CleanStays ==
  ASSUME Inv, [Next]_vars, NEW f \in Issued,
         \A t \in rows : family[t] = f => t \in revoked,
         \A r \in Requests : pc[r] = "insert" => family[tok[r]] # f
  PROVE  /\ f \in Issued'
         /\ \A t \in rows' : family'[t] = f => t \in revoked'
         /\ \A r \in Requests : pc'[r] = "insert" => family'[tok'[r]] # f
<1>t. TypeOK /\ issued \in Nat
  BY MaxTokensAssumption DEF Inv, TypeOK, Typed
<1>m. f \in Issued' /\ revoked \subseteq revoked' /\ \A t \in Issued : family'[t] = family[t]
  BY Monotone
<1>1. ASSUME NEW t \in rows', family'[t] = f PROVE t \in revoked'
  <2>1. CASE t \in rows
    BY <1>t, <1>m, <1>1, <2>1 DEF TypeOK, Typed
  <2>2. CASE t \notin rows
    <3>1. PICK r \in Requests : Mint(r) \/ InsertNext(r)
      BY <1>1, <2>2 DEF Next, Handlers, vars, database, StartRegister, StartLogin, Reply,
        StartRefresh, RefuseToken, DetectReuse, Sweep, AcceptToken, RetireRow,
        CheckAccount, RefuseDeleted, Logout, ConfirmPasswordReset, DeleteUser, Expire, Fail
    <3>2. PICK p \in 0..issued, root \in 1..(issued + 1) :
             /\ who[r] \in Users
             /\ root = IF tok[r] = 0 THEN issued + 1 ELSE family[tok[r]]
             /\ IssueRefreshToken(who[r], p, root)
      BY <3>1, IssueByRequest
    <3>3. family'[issued + 1] = root /\ rows' = rows \cup {issued + 1}
      BY <1>t, <3>2, IssueKeepsOldRows
    <3>4. tok[r] # 0 => pc[r] = "insert"
      BY <3>1 DEF Inv, RequestOK, Mint, InsertNext
    <3>5. root # f
      BY <1>t, <3>2, <3>4 DEF Issued
    <3> QED BY <1>1, <2>2, <3>3, <3>5
  <2> QED BY <2>1, <2>2
<1>2. ASSUME NEW q \in Requests, pc'[q] = "insert" PROVE family'[tok'[q]] # f
  <2>1. CASE pc'[q] = pc[q] /\ tok'[q] = tok[q]
    <3>1. tok[q] \in Issued
      BY <1>2, <2>1 DEF Inv, TypeOK, Typed, RequestOK
    <3> QED BY <1>m, <1>2, <2>1, <3>1
  <2>2. CASE StepOf(q)
    <3>1. AcceptToken(q)
      BY <1>t, <1>2, <2>2 DEF StepOf, TypeOK, Typed, StartRegister, StartLogin, StartRefresh,
        Mint, InsertNext, Reply, RefuseToken, DetectReuse, Sweep, RetireRow, CheckAccount,
        RefuseDeleted, Fail, Finish
    <3>2. tok'[q] = tok[q] /\ tok[q] \in rows \ revoked
      BY <3>1 DEF AcceptToken, Acceptable, Unrevoked
    <3>3. tok[q] \in Issued /\ family[tok[q]] # f
      BY <1>t, <3>2 DEF TypeOK, Typed
    <3> QED BY <1>m, <3>2, <3>3
  <2>3. CASE OtherStep
    BY <2>1, <2>3, OtherStepFrame
  <2>4. ASSUME NEW r \in Requests \ {q}, StepOf(r) PROVE family'[tok'[q]] # f
    BY <1>t, <2>1, <2>4, OneActor
  <2> QED BY <2>2, <2>3, <2>4, StepCases
<1> QED BY <1>m, <1>1, <1>2

\* The sweep leaves no usable row in the sessions it is to close.
LEMMA ResetSweeps ==
  ASSUME Inv, FamilyOwned, NEW u \in Users, Reset(u), NEW f \in SessionsOf(u), f \notin missed'
  PROVE  /\ f \in Issued
         /\ \A t \in rows : family[t] = f => t \in revoked'
         /\ \A r \in Requests : pc[r] = "insert" => family[tok[r]] # f
<1>t. TypeOK /\ LineageOK
  BY DEF Inv
<1>1. PICK s \in rows : owner[s] = u /\ f = family[s]
  BY DEF SessionsOf
<1>2. f \in Issued /\ owner[f] = u
  BY <1>t, <1>1 DEF FamilyOwned, TypeOK, Typed, LineageOK
<1>3. \A t \in rows : family[t] = f => t \in revoked'
  BY <1>t, <1>2 DEF Reset, ConfirmPasswordReset, RevokeAllForUser, FamilyOwned, TypeOK, Typed
<1>4. ASSUME NEW r \in Requests, pc[r] = "insert", family[tok[r]] = f PROVE FALSE
  <2>1. tok[r] \in Issued /\ who[r] = owner[tok[r]]
    BY <1>t, <1>4 DEF Inv, RequestOK, TypeOK, Typed
  <2>2. who[r] = u
    BY <1>2, <1>4, <2>1 DEF FamilyOwned
  <2> QED BY <1>4, <2>2 DEF Reset, BetweenStatements
<1> QED BY <1>2, <1>3, <1>4

LEMMA ResetInvStep == ResetInv /\ [ResetNext]_resetVars => ResetInv'
<1> SUFFICES ASSUME ResetInv, [ResetNext]_resetVars PROVE ResetInv'
  OBVIOUS
<1>n. [Next]_vars
  BY DEF ResetNext, Other, Reset, Next, resetVars
<1>1. Inv' /\ FamilyOwned'
  BY <1>n, NextInv, FamilyOwnedStep DEF ResetInv
<1>2. ASSUME NEW f \in (cut \ missed)'
      PROVE  /\ f \in Issued'
             /\ \A t \in rows' : family'[t] = f => t \in revoked'
             /\ \A r \in Requests : pc'[r] = "insert" => family'[tok'[r]] # f
  <2>1. CASE f \in cut \ missed
    <3>1. /\ f \in Issued
          /\ \A t \in rows : family[t] = f => t \in revoked
          /\ \A r \in Requests : pc[r] = "insert" => family[tok[r]] # f
      BY <2>1 DEF ResetInv, SweptClean
    <3> QED BY <1>n, <3>1, CleanStays DEF ResetInv
  <2>2. CASE f \notin cut \ missed
    <3>1. PICK u \in Users : Reset(u) /\ f \in SessionsOf(u)
      BY <1>2, <2>2 DEF ResetNext, Other, Reset, resetVars
    <3>2. UNCHANGED <<issued, rows, pc, tok, family>>
      BY <3>1 DEF Reset, ConfirmPasswordReset, requests, history
    <3>3. /\ f \in Issued
          /\ \A t \in rows : family[t] = f => t \in revoked'
          /\ \A r \in Requests : pc[r] = "insert" => family[tok[r]] # f
      BY <1>2, <3>1, ResetSweeps DEF ResetInv
    <3> QED BY <3>2, <3>3 DEF Issued
  <2> QED BY <2>1, <2>2
<1> QED BY <1>1, <1>2 DEF ResetInv, SweptClean

\* A password reset closes every session of the account that no refresh was
\* between its SELECT and its INSERT in, for good.
THEOREM ResetCloses == ResetSpec => []OnlyRotationsEscape
<1>1. ResetInit => ResetInv
  BY InitInv DEF ResetInit, ResetInv, FamilyOwned, SweptClean, Init, Issued
<1>2. ResetInv => OnlyRotationsEscape
  BY DEF ResetInv, SweptClean, OnlyRotationsEscape, Unrevoked
<1> QED BY <1>1, <1>2, ResetInvStep, PTL DEF ResetSpec

=============================================================================
