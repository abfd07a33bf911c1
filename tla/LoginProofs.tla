----------------------------- MODULE LoginProofs -----------------------------
(***************************************************************************)
(* The lockout and the reset of Login for any addresses, requests,         *)
(* threshold, window and number of passwords.                              *)
(***************************************************************************)
EXTENDS Login, FiniteSetTheorems, TLAPS

-----------------------------------------------------------------------------
(* The inductive invariant. *)

\* A request past its check holds a password.
EarnedHeld == \A r \in Requests : pc[r] \in Earned => guess[r] \in Passwords

\* Why an older password may still do something: OldPasswordOut's exceptions.
Excused(e, p) ==
  \/ p = password[e]
  \/ Waiting(e, {"sweep"}) # {}
  \/ e \in unswept
  \/ p \in escaped[e]

\* They hold of what may open a session as well as of the sessions.
AllExcused == \A e \in Emails : \A p \in live[e] \cup Outstanding(e) : Excused(e, p)

\* What the next failure will find counted: nothing once the window is over, and
\* nothing that matters once the threshold was reached.
Counted(e) == IF Restarts(e) \/ fail_count[e] >= Threshold THEN 0 ELSE fail_count[e]

\* Every guess compared is counted or about to be; under a lock only requests
\* that were let in before it can add to them.
InCount(e) ==
  IF Locked(e) THEN tried[e] + Cardinality(Waiting(e, {"read"})) <= Budget
               ELSE tried[e] <= Counted(e) + Cardinality(Waiting(e, {"record"}))

GuessesCounted == \A e \in Emails \ lost : InCount(e)

IInv ==
  /\ TypeOK
  /\ LockMatchesCount
  /\ EarnedHeld
  /\ AllExcused
  /\ GuessesCounted

-----------------------------------------------------------------------------
(* Counting requests. *)

LEMMA WaitingBound ==
  ASSUME NEW e, NEW labels
  PROVE  /\ IsFiniteSet(Waiting(e, labels))
         /\ Cardinality(Waiting(e, labels)) \in Nat
         /\ Cardinality(Requests) \in Nat
         /\ Cardinality(Waiting(e, labels)) <= Cardinality(Requests)
<1>1. Waiting(e, labels) \subseteq Requests
  BY DEF Waiting
<1> QED BY <1>1, RequestsAssumption, FS_Subset, FS_CardinalityType

\* The requests that wait for different statements are different ones.
LEMMA TwoWaits ==
  ASSUME NEW e, NEW l1, NEW l2, l1 # l2
  PROVE  Cardinality(Waiting(e, {l1})) + Cardinality(Waiting(e, {l2}))
           <= Cardinality(Requests)
<1> DEFINE A == Waiting(e, {l1})
           B == Waiting(e, {l2})
<1>1. IsFiniteSet(A) /\ IsFiniteSet(B) /\ IsFiniteSet(A \cup B)
  BY WaitingBound, FS_Union
<1>2. A \cap B = {}
  BY DEF Waiting
<1>3. Cardinality(A \cup B) = Cardinality(A) + Cardinality(B) - Cardinality(A \cap B)
  BY <1>1, FS_Union
<1>4. Cardinality(A \cap B) = 0
  BY <1>2, FS_EmptySet
<1>5. A \cup B \subseteq Requests
  BY DEF Waiting
<1>6. Cardinality(A \cup B) <= Cardinality(Requests)
  BY <1>5, RequestsAssumption, FS_Subset
<1>7. Cardinality(A) \in Nat /\ Cardinality(B) \in Nat
  BY WaitingBound
<1> QED BY <1>3, <1>4, <1>6, <1>7

LEMMA BudgetNat == Budget \in Nat /\ Cardinality(Requests) \in Nat
                   /\ Cardinality(Requests) <= Budget
BY WaitingBound, NumbersAssumption DEF Budget

-----------------------------------------------------------------------------
(* Types. *)

LEMMA TypeStep == TypeOK /\ EarnedHeld /\ [Next]_vars => TypeOK'
<1> SUFFICES ASSUME TypeOK, EarnedHeld, [Next]_vars PROVE TypeOK'
  OBVIOUS
<1> USE NumbersAssumption, BudgetNat DEF Passwords, Wrong, failures
<1>f. ASSUME NEW r \in Requests, Finish(r)
      PROVE  /\ pc' \in [Requests -> {"idle", "read", "clear", "record", "mint", "insert",
                                      "update", "sweep", "forget"}]
             /\ email' \in [Requests -> Emails \cup {NoEmail}]
             /\ guess' \in [Requests -> {Wrong} \cup Passwords]
             /\ \A q \in Requests : pc'[q] # "idle" => email'[q] \in Emails
  BY <1>f DEF TypeOK, Finish
<1>w. \A e \in Emails : Cardinality(Waiting(e, {"record"})) \in 0..Budget + 1
  BY WaitingBound
<1>1. ASSUME NEW r \in Requests, NEW e \in Emails, NEW g \in {Wrong} \cup Passwords,
             CheckLockout(r, e, g)
      PROVE  TypeOK'
  BY <1>1 DEF TypeOK, CheckLockout, Begin, rows, history
<1>2. ASSUME NEW r \in Requests, NEW e \in Emails, StartReset(r, e)
      PROVE  TypeOK'
  BY <1>2 DEF TypeOK, StartReset, Begin, rows, history
<1>3. ASSUME NEW r \in Requests, ReadUserRight(r) PROVE TypeOK'
  BY <1>3 DEF TypeOK, ReadUserRight, Goto, rows, history
<1>4. ASSUME NEW r \in Requests, ReadUserWrong(r) PROVE TypeOK'
  BY <1>4 DEF TypeOK, ReadUserWrong, Goto, rows, Least
<1>5. ASSUME NEW r \in Requests, RecordFailure(r) PROVE TypeOK'
  <2>1. email[r] \in Emails
    BY <1>5 DEF TypeOK, RecordFailure
  <2> DEFINE n == IF Restarts(email[r]) THEN 1 ELSE Least(fail_count[email[r]] + 1, Threshold + 1)
  <2>2. n \in 0..Threshold + 1
    BY <2>1 DEF TypeOK, Least
  <2>3. fail_count' \in [Emails -> 0..Threshold + 1]
    BY <1>5, <2>1, <2>2 DEF TypeOK, RecordFailure
  <2>4. since' \in [Emails -> 0..Window + 1] /\ lockLeft' \in [Emails -> 0..Window]
    BY <1>5, <2>1 DEF TypeOK, RecordFailure
  <2> QED BY <1>5, <1>f, <2>3, <2>4 DEF TypeOK, RecordFailure, history
<1>6. ASSUME NEW r \in Requests, ClearFailures(r) PROVE TypeOK'
  BY <1>6, <1>w DEF TypeOK, ClearFailures, Forget, Goto
<1>7. ASSUME NEW r \in Requests, Mint(r) PROVE TypeOK'
  <2>1. email[r] \in Emails /\ guess[r] \in Passwords
    BY <1>7 DEF TypeOK, EarnedHeld, Earned, Mint
  <2> QED BY <1>7, <1>f, <2>1 DEF TypeOK, Mint, history
<1>8. ASSUME NEW r \in Requests, ResetUpdate(r) PROVE TypeOK'
  <2>1. email[r] \in Emails
    BY <1>8 DEF TypeOK, ResetUpdate
  <2>2. password' \in [Emails -> Passwords]
    BY <1>8, <2>1 DEF TypeOK, ResetUpdate
  <2> QED BY <1>8, <2>1, <2>2 DEF TypeOK, ResetUpdate, Goto, history
<1>9. ASSUME NEW r \in Requests, ResetSweep(r) PROVE TypeOK'
  <2>1. email[r] \in Emails /\ Outstanding(email[r]) \subseteq Passwords
    BY <1>9 DEF TypeOK, EarnedHeld, ResetSweep, Outstanding, Waiting
  <2> QED BY <1>9, <2>1 DEF TypeOK, ResetSweep, Left, Goto
<1>10. ASSUME NEW r \in Requests, ResetClear(r) PROVE TypeOK'
  BY <1>10, <1>f, <1>w DEF TypeOK, ResetClear, Forget
<1>11. ASSUME NEW r \in Requests, Fail(r) PROVE TypeOK'
  BY <1>11, <1>f DEF TypeOK, Fail, rows
<1>12. ASSUME NEW e \in Emails, DeleteUser(e) PROVE TypeOK'
  BY <1>12 DEF TypeOK, DeleteUser, requests, history
<1>13. CASE Tick
  <2>1. since' \in [Emails -> 0..Window + 1] /\ lockLeft' \in [Emails -> 0..Window]
    BY <1>13 DEF TypeOK, Tick, Least, Locked
  <2>2. tried' \in [Emails -> 0..Budget + 1]
    BY <1>13, <1>w DEF TypeOK, Tick
  <2> QED BY <1>13, <2>1, <2>2 DEF TypeOK, Tick, requests
<1>15. ASSUME NEW r \in Requests, NEW e \in Emails, NEW p \in Passwords,
              VerifyMfa(r, e, p) \/ StartRefresh(r, e, p)
       PROVE  TypeOK'
  <2>1. Begin(r, "insert", e, p) /\ UNCHANGED <<rows, mfa_tokens, history>>
    BY <1>15 DEF VerifyMfa, StartRefresh
  <2> QED BY <2>1 DEF TypeOK, Begin, rows, history
<1>16. ASSUME NEW e \in Emails, NEW p \in Passwords, ExpireMfaToken(e, p) PROVE TypeOK'
  BY <1>16 DEF TypeOK, ExpireMfaToken, rows, requests, history
<1>17. ASSUME NEW r \in Requests, SignMfaToken(r) PROVE TypeOK'
  <2>1. email[r] \in Emails /\ guess[r] \in Passwords
    BY <1>17 DEF TypeOK, EarnedHeld, Earned, SignMfaToken
  <2> QED BY <1>17, <1>f, <2>1 DEF TypeOK, SignMfaToken, rows, history
<1>14. CASE UNCHANGED vars
  BY <1>14 DEF TypeOK, vars, rows, requests, history
<1> QED
  BY <1>1, <1>2, <1>3, <1>4, <1>5, <1>6, <1>7, <1>8, <1>9, <1>10, <1>11, <1>12, <1>13, <1>14,
     <1>15, <1>16, <1>17
     DEF Next, Step

-----------------------------------------------------------------------------
(* The lock. *)

LEMMA LockStep == TypeOK /\ LockMatchesCount /\ [Next]_vars => LockMatchesCount'
<1> SUFFICES ASSUME TypeOK, LockMatchesCount, [Next]_vars PROVE LockMatchesCount'
  OBVIOUS
<1> USE NumbersAssumption
<1>1. ASSUME NEW r \in Requests, RecordFailure(r) PROVE LockMatchesCount'
  <2>1. email[r] \in Emails
    BY <1>1 DEF TypeOK, RecordFailure
  <2> DEFINE n == IF Restarts(email[r]) THEN 1 ELSE Least(fail_count[email[r]] + 1, Threshold + 1)
  <2>2. n \in 0..Threshold + 1
    BY <2>1 DEF TypeOK, Least
  <2>3. /\ fail_count'[email[r]] = n /\ since'[email[r]] = 0
        /\ lockLeft'[email[r]] = IF n >= Threshold THEN Window ELSE 0
    BY <1>1, <2>1 DEF TypeOK, RecordFailure, Locks
  <2>4. \A e \in Emails \ {email[r]} : /\ fail_count'[e] = fail_count[e]
                                       /\ since'[e] = since[e]
                                       /\ lockLeft'[e] = lockLeft[e]
    BY <1>1, <2>1 DEF TypeOK, RecordFailure
  <2> QED BY <2>2, <2>3, <2>4 DEF LockMatchesCount
<1>2. ASSUME NEW e \in Emails, Forget(e) PROVE LockMatchesCount'
  BY <1>2 DEF TypeOK, LockMatchesCount, Forget
<1>3. CASE Tick
  <2> SUFFICES ASSUME NEW e \in Emails
               PROVE  lockLeft'[e] = IF fail_count'[e] >= Threshold /\ since'[e] < Window
                                       THEN Window - since'[e] ELSE 0
    BY DEF LockMatchesCount
  <2>1. /\ fail_count'[e] = fail_count[e]
        /\ since'[e] = IF fail_count[e] > 0 THEN Least(since[e] + 1, Window + 1) ELSE 0
        /\ lockLeft'[e] = IF lockLeft[e] > 0 THEN lockLeft[e] - 1 ELSE 0
    BY <1>3 DEF Tick, Locked
  <2>2. fail_count[e] \in Nat /\ since[e] \in 0..Window + 1 /\ lockLeft[e] \in 0..Window
    BY DEF TypeOK
  <2>3. lockLeft[e] = IF fail_count[e] >= Threshold /\ since[e] < Window
                        THEN Window - since[e] ELSE 0
    BY DEF LockMatchesCount
  <2> QED BY <2>1, <2>2, <2>3 DEF Least
<1>4. CASE UNCHANGED <<fail_count, since, lockLeft>>
  BY <1>4 DEF LockMatchesCount
<1>5. \A r \in Requests : pc[r] # "idle" => email[r] \in Emails
  BY DEF TypeOK
<1>6. ASSUME NEW r \in Requests, Step(r) PROVE LockMatchesCount'
  BY <1>1, <1>2, <1>4, <1>5, <1>6
     DEF Step, ReadUserRight, ReadUserWrong, ClearFailures, Mint, SignMfaToken, ResetUpdate,
         ResetSweep, ResetClear, Fail, rows, failures
<1> QED
  BY <1>3, <1>4, <1>6 DEF Next, CheckLockout, StartReset, VerifyMfa, StartRefresh, ExpireMfaToken,
         DeleteUser, rows, failures, vars

\* A step that shortens a lock is the clock's, a cleared login's or a reset's.
LEMMA HoldStep ==
  ASSUME TypeOK, LockMatchesCount, [Next]_vars, NEW e \in Emails, lockLeft'[e] < lockLeft[e]
  PROVE  \/ since'[e] = since[e] + 1
         \/ fail_count'[e] = 0 /\ \E r \in Waiting(e, {"clear", "forget"}) : pc'[r] # pc[r]
<1> USE NumbersAssumption
<1>1. ASSUME NEW r \in Requests, RecordFailure(r) PROVE FALSE
  <2>1. email[r] = e
    BY <1>1 DEF TypeOK, RecordFailure
  <2> DEFINE n == IF Restarts(e) THEN 1 ELSE Least(fail_count[e] + 1, Threshold + 1)
  <2>6. lockLeft'[e] = IF Locks(n) THEN Window ELSE 0
    BY <1>1, <2>1 DEF TypeOK, RecordFailure
  <2>7. lockLeft[e] \in 0..Window /\ lockLeft[e] > 0
    BY <2>6 DEF TypeOK
  <2>2. fail_count[e] >= Threshold /\ since[e] < Window
    BY <2>7 DEF LockMatchesCount
  <2>3. ~Restarts(e)
    BY <2>2 DEF TypeOK, Restarts
  <2>4. Locks(Least(fail_count[e] + 1, Threshold + 1))
    BY <2>2 DEF TypeOK, Locks, Least
  <2>5. lockLeft'[e] = Window
    BY <2>3, <2>4, <2>6
  <2> QED BY <2>5, <2>7
<1>2. ASSUME NEW r \in Requests, ClearFailures(r) \/ ResetClear(r)
      PROVE  fail_count'[e] = 0 /\ \E q \in Waiting(e, {"clear", "forget"}) : pc'[q] # pc[q]
  <2>1. email[r] = e
    BY <1>2 DEF TypeOK, ClearFailures, ResetClear, Forget
  <2>2. r \in Waiting(e, {"clear", "forget"}) /\ pc'[r] # pc[r]
    BY <1>2, <2>1 DEF TypeOK, ClearFailures, ResetClear, Waiting, Goto, Finish
  <2> QED BY <1>2, <2>1, <2>2 DEF TypeOK, ClearFailures, ResetClear, Forget
<1>3. CASE Tick
  <2>1. lockLeft[e] \in 0..Window /\ fail_count[e] \in Nat /\ since[e] \in 0..Window + 1
    BY DEF TypeOK
  <2>2. lockLeft'[e] = IF lockLeft[e] > 0 THEN lockLeft[e] - 1 ELSE 0
    BY <1>3 DEF Tick, Locked
  <2>3. lockLeft[e] > 0
    BY <2>1, <2>2
  <2>4. fail_count[e] >= Threshold /\ since[e] < Window
    BY <2>3 DEF LockMatchesCount
  <2> QED BY <1>3, <2>1, <2>4 DEF Tick, Least
<1>4. lockLeft' # lockLeft
  BY DEF TypeOK
<1> QED
  BY <1>1, <1>2, <1>3, <1>4
     DEF Next, Step, CheckLockout, StartReset, VerifyMfa, StartRefresh, ExpireMfaToken, SignMfaToken, ReadUserRight, ReadUserWrong, Mint,
         ResetUpdate, ResetSweep, Fail, DeleteUser, rows, failures, vars

-----------------------------------------------------------------------------
(* The password held, and the sessions it opened. *)

LEMMA HeldStep == TypeOK /\ EarnedHeld /\ [Next]_vars => EarnedHeld'
<1> SUFFICES ASSUME TypeOK, EarnedHeld, [Next]_vars PROVE EarnedHeld'
  OBVIOUS
<1> USE DEF EarnedHeld, Earned, Passwords
<1>1. ASSUME NEW r \in Requests, NEW e \in Emails, NEW g, CheckLockout(r, e, g) \/ StartReset(r, e)
      PROVE  EarnedHeld'
  BY <1>1 DEF TypeOK, CheckLockout, StartReset, Begin
<1>2. ASSUME NEW r \in Requests, NEW e \in Emails, NEW p \in Passwords,
             VerifyMfa(r, e, p) \/ StartRefresh(r, e, p)
      PROVE  EarnedHeld'
  BY <1>2 DEF TypeOK, VerifyMfa, StartRefresh, Begin
<1>3. ASSUME NEW r \in Requests, ReadUserRight(r) PROVE EarnedHeld'
  BY <1>3 DEF TypeOK, ReadUserRight, Right, Goto
<1>4. ASSUME NEW r \in Requests,
             ReadUserWrong(r) \/ ClearFailures(r) \/ ResetUpdate(r) \/ ResetSweep(r)
      PROVE  EarnedHeld'
  BY <1>4 DEF TypeOK, ReadUserWrong, ClearFailures, ResetUpdate, ResetSweep, Goto
<1>5. ASSUME NEW r \in Requests,
             RecordFailure(r) \/ Mint(r) \/ SignMfaToken(r) \/ ResetClear(r) \/ Fail(r)
      PROVE  EarnedHeld'
  BY <1>5 DEF TypeOK, RecordFailure, Mint, SignMfaToken, ResetClear, Fail, Finish
<1>6. CASE UNCHANGED requests
  BY <1>6 DEF requests
<1> QED
  BY <1>1, <1>2, <1>3, <1>4, <1>5, <1>6
     DEF Next, Step, DeleteUser, ExpireMfaToken, Tick, vars

\* What may open a session after a step of one request: what others hold, the
\* mfa_tokens, and what that request holds now.
LEMMA OutstandingAfter ==
  ASSUME NEW r \in Requests, NEW e \in Emails, NEW p \in Outstanding(e)',
         \A q \in Requests \ {r} :
           pc'[q] = pc[q] /\ email'[q] = email[q] /\ guess'[q] = guess[q]
  PROVE  \/ p \in mfa_tokens'[e]
         \/ p \in Outstanding(e)
         \/ pc'[r] \in Earned /\ email'[r] = e /\ p = guess'[r]
<1>1. CASE \E q \in Requests : q \in Waiting(e, Earned)' /\ p = guess'[q]
  <2>1. PICK q \in Requests : q \in Waiting(e, Earned)' /\ p = guess'[q]
    BY <1>1
  <2> QED BY <2>1 DEF Waiting, Outstanding
<1> QED BY <1>1 DEF Outstanding, Waiting

\* A step that adds nothing but the password as it is, and takes no excuse away.
LEMMA ExcusedKept ==
  ASSUME AllExcused, UNCHANGED <<password, escaped>>,
         \A e \in Emails : \A p \in live'[e] \cup Outstanding(e)' :
           p \in live[e] \cup Outstanding(e) \cup {password[e]},
         \A e \in Emails : Waiting(e, {"sweep"}) \subseteq Waiting(e, {"sweep"})' \/ e \in unswept',
         unswept \subseteq unswept'
  PROVE  AllExcused'
BY DEF AllExcused, Excused

LEMMA ExcusedStep == TypeOK /\ EarnedHeld /\ AllExcused /\ [Next]_vars => AllExcused'
<1> SUFFICES ASSUME TypeOK, EarnedHeld, AllExcused, [Next]_vars PROVE AllExcused'
  OBVIOUS
<1> USE DEF Earned
\* What a request itself contributes to Outstanding, before and after.
<1>h. ASSUME NEW r \in Requests, pc[r] \in Earned
      PROVE  guess[r] \in Outstanding(email[r])
  BY <1>h DEF Outstanding, Waiting
<1>1. ASSUME NEW r \in Requests, NEW e \in Emails, NEW g, NEW p \in Passwords,
             \/ CheckLockout(r, e, g) \/ StartReset(r, e)
             \/ VerifyMfa(r, e, p) \/ StartRefresh(r, e, p)
      PROVE  AllExcused'
  <2>1. /\ \A q \in Requests \ {r} : pc'[q] = pc[q] /\ email'[q] = email[q] /\ guess'[q] = guess[q]
        /\ UNCHANGED <<password, escaped, live, mfa_tokens, unswept>>
    BY <1>1 DEF TypeOK, CheckLockout, StartReset, VerifyMfa, StartRefresh, Begin, rows, failures, history
  <2>2. \A d \in Emails : Waiting(d, {"sweep"}) \subseteq Waiting(d, {"sweep"})'
    BY <1>1 DEF TypeOK, Waiting, CheckLockout, StartReset, VerifyMfa, StartRefresh, Begin
  <2>3. pc'[r] \in Earned => email'[r] = e /\ guess'[r] \in live[e] \cup Outstanding(e)
    BY <1>1 DEF TypeOK, CheckLockout, StartReset, VerifyMfa, StartRefresh, Begin, Outstanding
  <2>4. ASSUME NEW d \in Emails, NEW c \in live'[d] \cup Outstanding(d)'
        PROVE  c \in live[d] \cup Outstanding(d) \cup {password[d]}
    BY <2>1, <2>3, OutstandingAfter DEF Outstanding
  <2> QED BY <2>1, <2>2, <2>4, ExcusedKept
<1>2. ASSUME NEW r \in Requests, ReadUserRight(r) \/ ReadUserWrong(r) \/ ClearFailures(r)
      PROVE  AllExcused'
  <2>1. /\ \A q \in Requests \ {r} : pc'[q] = pc[q] /\ email'[q] = email[q] /\ guess'[q] = guess[q]
        /\ UNCHANGED <<password, escaped, live, mfa_tokens, unswept, email, guess>>
    BY <1>2 DEF TypeOK, ReadUserRight, ReadUserWrong, ClearFailures, Goto, rows, failures, history
  <2>2. \A d \in Emails : Waiting(d, {"sweep"}) \subseteq Waiting(d, {"sweep"})'
    BY <1>2 DEF TypeOK, Waiting, ReadUserRight, ReadUserWrong, ClearFailures, Goto
  <2>3. pc'[r] \in Earned => guess[r] \in Outstanding(email[r]) \cup {password[email[r]]}
    BY <1>2, <1>h DEF TypeOK, ReadUserRight, ReadUserWrong, ClearFailures, Goto, Right
  <2>4. ASSUME NEW d \in Emails, NEW c \in live'[d] \cup Outstanding(d)'
        PROVE  c \in live[d] \cup Outstanding(d) \cup {password[d]}
    BY <2>1, <2>3, OutstandingAfter DEF Outstanding
  <2> QED BY <2>1, <2>2, <2>4, ExcusedKept
<1>3. ASSUME NEW r \in Requests,
             RecordFailure(r) \/ ResetClear(r) \/ Mint(r) \/ SignMfaToken(r) \/ Fail(r)
      PROVE  AllExcused'
  <2>1. /\ \A q \in Requests \ {r} : pc'[q] = pc[q] /\ email'[q] = email[q] /\ guess'[q] = guess[q]
        /\ UNCHANGED <<password, escaped>>
        /\ pc'[r] = "idle"
        /\ unswept \subseteq unswept'
    BY <1>3 DEF TypeOK, RecordFailure, ResetClear, Mint, SignMfaToken, Fail, Finish, rows, failures, history
  <2>2. \A d \in Emails : Waiting(d, {"sweep"}) \subseteq Waiting(d, {"sweep"})' \/ d \in unswept'
    BY <1>3 DEF TypeOK, Waiting, RecordFailure, ResetClear, Mint, SignMfaToken, Fail, Finish
  <2>3. ASSUME NEW d \in Emails, NEW c, c \in live'[d] \/ c \in mfa_tokens'[d]
        PROVE  c \in live[d] \cup Outstanding(d)
    <3>1. CASE RecordFailure(r) \/ ResetClear(r) \/ Fail(r)
      BY <2>3, <3>1 DEF RecordFailure, ResetClear, Fail, rows, failures, Outstanding
    <3>2. CASE Mint(r)
      BY <1>h, <2>3, <3>2 DEF TypeOK, Mint, Outstanding
    <3>3. CASE SignMfaToken(r)
      BY <1>h, <2>3, <3>3 DEF TypeOK, SignMfaToken, rows, failures, Outstanding
    <3> QED BY <1>3, <3>1, <3>2, <3>3
  <2>4. ASSUME NEW d \in Emails, NEW c \in live'[d] \cup Outstanding(d)'
        PROVE  c \in live[d] \cup Outstanding(d) \cup {password[d]}
    BY <2>1, <2>3, OutstandingAfter
  <2> QED BY <2>1, <2>2, <2>4, ExcusedKept
<1>4. ASSUME NEW r \in Requests, ResetUpdate(r) PROVE AllExcused'
  <2>1. /\ \A q \in Requests \ {r} : pc'[q] = pc[q] /\ email'[q] = email[q] /\ guess'[q] = guess[q]
        /\ UNCHANGED <<escaped, live, mfa_tokens, unswept>>
        /\ pc'[r] = "sweep"
    BY <1>4 DEF TypeOK, ResetUpdate, Goto, history
  <2>2. /\ \A d \in Emails : Waiting(d, {"sweep"}) \subseteq Waiting(d, {"sweep"})'
        /\ \A d \in Emails : d = email[r] => r \in Waiting(d, {"sweep"})'
    BY <1>4 DEF TypeOK, Waiting, ResetUpdate, Goto
  <2>3. \A d \in Emails : d # email[r] => password'[d] = password[d]
    BY <1>4 DEF TypeOK, ResetUpdate
  <2>4. ASSUME NEW d \in Emails, NEW c \in live'[d] \cup Outstanding(d)'
        PROVE  c \in live[d] \cup Outstanding(d)
    BY <2>1, OutstandingAfter DEF Outstanding
  <2> QED BY <2>1, <2>2, <2>3, <2>4 DEF AllExcused, Excused
<1>5. ASSUME NEW r \in Requests, ResetSweep(r) PROVE AllExcused'
  <2>1. /\ \A q \in Requests \ {r} : pc'[q] = pc[q] /\ email'[q] = email[q] /\ guess'[q] = guess[q]
        /\ UNCHANGED <<password, mfa_tokens>>
        /\ pc'[r] = "forget"
        /\ email[r] \in Emails
    BY <1>5 DEF TypeOK, ResetSweep, Goto
  <2>2. \A d \in Emails : d # email[r] => Waiting(d, {"sweep"}) \subseteq Waiting(d, {"sweep"})'
    BY <1>5 DEF TypeOK, Waiting, ResetSweep, Goto
  <2>3. /\ \A d \in Emails \ {email[r]} : live'[d] = live[d] /\ escaped'[d] = escaped[d]
        /\ \A d \in Emails \ {email[r]} : d \in unswept => d \in unswept'
        /\ live'[email[r]] = {} /\ escaped'[email[r]] = Outstanding(email[r])
    BY <1>5, <2>1 DEF TypeOK, ResetSweep, Left
  <2>4. ASSUME NEW d \in Emails, NEW c \in Outstanding(d)'
        PROVE  c \in Outstanding(d)
    BY <2>1, OutstandingAfter DEF Outstanding
  <2> SUFFICES ASSUME NEW d \in Emails, NEW c \in live'[d] \cup Outstanding(d)'
               PROVE  Excused(d, c)'
    BY DEF AllExcused
  <2>5. CASE d = email[r]
    <3>1. c \in Outstanding(email[r])
      BY <2>3, <2>4, <2>5
    <3> QED BY <2>3, <2>5, <3>1 DEF Excused
  <2>6. CASE d # email[r]
    <3>1. c \in live[d] \cup Outstanding(d)
      BY <2>3, <2>4, <2>6
    <3>2. Excused(d, c)
      BY <3>1 DEF AllExcused
    <3>3. Waiting(d, {"sweep"}) # {} => Waiting(d, {"sweep"})' # {}
      BY <2>2, <2>6
    <3> QED BY <2>1, <2>3, <2>6, <3>2, <3>3 DEF Excused
  <2> QED BY <2>5, <2>6
<1>6. ASSUME UNCHANGED <<requests, password, unswept, escaped>>,
             \A d \in Emails : live'[d] \subseteq live[d] /\ mfa_tokens'[d] \subseteq mfa_tokens[d]
      PROVE  AllExcused'
  <2>1. \A d \in Emails : \A c \in live'[d] \cup Outstanding(d)' : c \in live[d] \cup Outstanding(d)
    BY <1>6 DEF Outstanding, Waiting, requests
  <2> QED BY <1>6, <2>1, ExcusedKept DEF Waiting, requests
<1>7. ASSUME NEW e \in Emails, DeleteUser(e) PROVE AllExcused'
  <2>1. \A d \in Emails : live'[d] \subseteq live[d]
    BY <1>7 DEF TypeOK, DeleteUser
  <2> QED BY <1>6, <1>7, <2>1 DEF DeleteUser, history
<1>8. ASSUME NEW e \in Emails, NEW p \in Passwords, ExpireMfaToken(e, p) PROVE AllExcused'
  <2>1. \A d \in Emails : mfa_tokens'[d] \subseteq mfa_tokens[d]
    BY <1>8 DEF TypeOK, ExpireMfaToken
  <2> QED BY <1>6, <1>8, <2>1 DEF ExpireMfaToken, rows, failures, history
<1>9. CASE Tick \/ UNCHANGED vars
  BY <1>6, <1>9 DEF Tick, vars, rows, failures, history
<1>10. ASSUME NEW r \in Requests, NEW e \in Emails, NEW g, CheckLockout(r, e, g) \/ StartReset(r, e)
       PROVE  AllExcused'
  <2>1. 1 \in Passwords
    BY NumbersAssumption DEF Passwords
  <2> QED BY <1>1, <1>10, <2>1
<1>11. ASSUME NEW r \in Requests, NEW e \in Emails, NEW p \in Passwords,
              VerifyMfa(r, e, p) \/ StartRefresh(r, e, p)
       PROVE  AllExcused'
  BY <1>1, <1>11
<1>12. ASSUME NEW r \in Requests, Step(r) PROVE AllExcused'
  BY <1>2, <1>3, <1>4, <1>5, <1>12 DEF Step
<1> QED BY <1>7, <1>8, <1>9, <1>10, <1>11, <1>12 DEF Next

-----------------------------------------------------------------------------
(* The guesses. *)

\* A set that one element enters or leaves.
LEMMA OneMoves ==
  ASSUME NEW W, IsFiniteSet(W), NEW X, NEW r, \A q : q # r => (q \in W <=> q \in X)
  PROVE  /\ (r \in W <=> r \in X) => Cardinality(X) = Cardinality(W)
         /\ r \notin W /\ r \in X => Cardinality(X) = Cardinality(W) + 1
         /\ r \in W /\ r \notin X => Cardinality(X) = Cardinality(W) - 1
<1>1. (r \in W <=> r \in X) => X = W
  OBVIOUS
<1>2. r \notin W /\ r \in X => X = W \cup {r}
  OBVIOUS
<1>3. r \in W /\ r \notin X => X = W \ {r}
  OBVIOUS
<1>4. r \notin W => Cardinality(W \cup {r}) = Cardinality(W) + 1
  BY FS_AddElement
<1>5. r \in W => Cardinality(W \ {r}) = Cardinality(W) - 1
  BY FS_RemoveElement
<1> QED BY <1>1, <1>2, <1>3, <1>4, <1>5

\* The number of waiting requests stays a natural number.
LEMMA WaitingNat ==
  ASSUME NEW e, NEW label
  PROVE  /\ Cardinality(Waiting(e, {label})) \in Nat
         /\ Cardinality(Waiting(e, {label}))' \in Nat
<1>1. Waiting(e, {label})' \subseteq Requests
  BY DEF Waiting
<1>2. Cardinality(Waiting(e, {label})') \in Nat
  BY <1>1, RequestsAssumption, FS_Subset, FS_CardinalityType
<1> QED BY <1>2, WaitingBound

\* recordFailure: the guess it records moves from the requests to the count, and
\* at the threshold the requests still to come are those let in before.
LEMMA RecordCounts ==
  ASSUME TypeOK, LockMatchesCount, NEW r \in Requests, NEW e \in Emails, email[r] = e,
         RecordFailure(r), InCount(e)
  PROVE  InCount(e)'
<1> DEFINE n == IF Restarts(e) THEN 1 ELSE Least(fail_count[e] + 1, Threshold + 1)
           A == Cardinality(Waiting(e, {"read"}))
           B == Cardinality(Waiting(e, {"record"}))
<1> USE NumbersAssumption
<1>1. /\ fail_count'[e] = n /\ since'[e] = 0 /\ tried'[e] = tried[e]
      /\ lockLeft'[e] = IF n >= Threshold THEN Window ELSE 0
  BY DEF TypeOK, RecordFailure, Locks, history
<1>2. A' = A /\ B' = B - 1
  <2>1. \A q \in Requests \ {r} : pc'[q] = pc[q] /\ email'[q] = email[q]
    BY DEF TypeOK, RecordFailure, Finish
  <2>2. /\ r \notin Waiting(e, {"read"}) /\ r \notin Waiting(e, {"read"})'
        /\ r \in Waiting(e, {"record"}) /\ r \notin Waiting(e, {"record"})'
    BY DEF TypeOK, RecordFailure, Finish, Waiting
  <2>3. /\ \A q : q # r => (q \in Waiting(e, {"read"}) <=> q \in Waiting(e, {"read"})')
        /\ \A q : q # r => (q \in Waiting(e, {"record"}) <=> q \in Waiting(e, {"record"})')
    BY <2>1 DEF Waiting
  <2>4. IsFiniteSet(Waiting(e, {"read"})) /\ IsFiniteSet(Waiting(e, {"record"}))
    BY WaitingBound
  <2>5. A' = A
    BY <2>2, <2>3, <2>4, OneMoves
  <2>6. B' = B - 1
    BY <2>2, <2>3, <2>4, OneMoves
  <2> QED BY <2>5, <2>6
<1>3. A \in Nat /\ B \in Nat /\ B >= 1 /\ B' \in Nat
  <2>1. A \in Nat /\ B \in Nat /\ B' \in Nat
    BY WaitingNat
  <2> QED BY <1>2, <2>1
<1>4. A + B <= Cardinality(Requests)
  BY TwoWaits
<1>5. /\ tried[e] \in Nat /\ fail_count[e] \in Nat /\ since[e] \in Nat
      /\ lockLeft[e] \in Nat /\ Cardinality(Requests) \in Nat
  BY WaitingBound DEF TypeOK
<1>6. n \in Nat \ {0}
  BY <1>5 DEF Least
<1>7. Budget = Threshold - 1 + Cardinality(Requests) /\ Budget' = Budget
  BY DEF Budget
<1> HIDE DEF A, B
<1>8. CASE Locked(e)
  <2>1. fail_count[e] >= Threshold /\ since[e] < Window
    BY <1>8 DEF Locked, LockMatchesCount
  <2>2. n >= Threshold
    BY <1>5, <2>1 DEF Restarts, Least
  <2>3. tried[e] + A <= Budget
    BY <1>8 DEF InCount, A
  <2>4. Locked(e)'
    BY <1>1, <2>2 DEF Locked
  <2> QED BY <1>1, <1>2, <1>7, <2>3, <2>4 DEF InCount, A
<1>9. CASE ~Locked(e)
  <2>1. tried[e] <= Counted(e) + B
    BY <1>9 DEF InCount, B
  <2>2. CASE n >= Threshold
    <3>1. Counted(e) \in Nat /\ Counted(e) <= Threshold - 1
      BY <1>5 DEF Counted
    <3>2. tried[e] + A <= Budget
      BY <1>3, <1>4, <1>5, <1>7, <2>1, <3>1
    <3>3. Locked(e)'
      BY <1>1, <2>2 DEF Locked
    <3> QED BY <1>1, <1>2, <1>7, <3>2, <3>3 DEF InCount, A
  <2>3. CASE ~(n >= Threshold)
    <3>1. fail_count[e] < Threshold \/ Restarts(e)
      BY <1>5, <1>6, <2>3 DEF Least
    <3>2. Counted(e) = n - 1
      BY <1>5, <2>3, <3>1 DEF Counted, Least
    <3>3. Counted(e)' = n
      BY <1>1, <1>6, <2>3 DEF Counted, Restarts
    <3>4. tried[e] <= n + (B - 1)
      BY <1>3, <1>5, <1>6, <2>1, <3>2
    <3>5. ~Locked(e)'
      BY <1>1, <2>3 DEF Locked
    <3> QED BY <1>1, <1>2, <3>3, <3>4, <3>5 DEF InCount, B
  <2> QED BY <2>2, <2>3
<1> QED BY <1>8, <1>9

LEMMA GuessStep ==
  TypeOK /\ LockMatchesCount /\ GuessesCounted /\ [Next]_vars => GuessesCounted'
<1> SUFFICES ASSUME TypeOK, LockMatchesCount, GuessesCounted, [Next]_vars,
                    NEW e \in Emails, e \notin lost'
             PROVE  InCount(e)'
  BY DEF GuessesCounted
<1> DEFINE A == Cardinality(Waiting(e, {"read"}))
           B == Cardinality(Waiting(e, {"record"}))
<1> USE NumbersAssumption
<1>1. InCount(e)
  <2>1. lost \subseteq lost'
    BY DEF Next, Step, CheckLockout, StartReset, VerifyMfa, StartRefresh, ExpireMfaToken, SignMfaToken, ReadUserRight, ReadUserWrong, RecordFailure,
           ClearFailures, Mint, ResetUpdate, ResetSweep, ResetClear, Fail, DeleteUser, Tick,
           vars, history
  <2> QED BY <2>1 DEF GuessesCounted
<1>2. A \in Nat /\ B \in Nat /\ A' \in Nat /\ B' \in Nat
  BY WaitingNat
<1>3. /\ tried[e] \in Nat /\ fail_count[e] \in Nat /\ since[e] \in 0..Window + 1
      /\ lockLeft[e] \in Nat /\ Budget \in Nat /\ Budget' = Budget
  BY BudgetNat DEF TypeOK, Budget
<1>4. Counted(e) \in Nat
  BY <1>3 DEF Counted
\* What a step of request r does to the number of requests that wait: r enters,
\* r leaves, or nothing changes.
<1>5. ASSUME NEW r \in Requests,
             \A q \in Requests \ {r} : pc'[q] = pc[q] /\ email'[q] = email[q]
      PROVE  /\ (r \in Waiting(e, {"read"}) <=> r \in Waiting(e, {"read"})') => A' = A
             /\ r \in Waiting(e, {"read"}) /\ r \notin Waiting(e, {"read"})' => A' = A - 1
             /\ (r \in Waiting(e, {"record"}) <=> r \in Waiting(e, {"record"})') => B' = B
             /\ r \notin Waiting(e, {"record"}) /\ r \in Waiting(e, {"record"})' => B' = B + 1
  <2>1. /\ \A q : q # r => (q \in Waiting(e, {"read"}) <=> q \in Waiting(e, {"read"})')
        /\ \A q : q # r => (q \in Waiting(e, {"record"}) <=> q \in Waiting(e, {"record"})')
    BY <1>5 DEF Waiting
  <2>2. IsFiniteSet(Waiting(e, {"read"})) /\ IsFiniteSet(Waiting(e, {"record"}))
    BY WaitingBound
  <2>3. /\ (r \in Waiting(e, {"read"}) <=> r \in Waiting(e, {"read"})') => A' = A
        /\ r \in Waiting(e, {"read"}) /\ r \notin Waiting(e, {"read"})' => A' = A - 1
    BY <2>1, <2>2, OneMoves
  <2>4. /\ (r \in Waiting(e, {"record"}) <=> r \in Waiting(e, {"record"})') => B' = B
        /\ r \notin Waiting(e, {"record"}) /\ r \in Waiting(e, {"record"})' => B' = B + 1
    BY <2>1, <2>2, OneMoves
  <2> QED BY <2>3, <2>4
\* A step that leaves the row and the guesses of e alone, lets no request into a
\* lock and drops no guess that is still to be recorded.
<1>6. ASSUME UNCHANGED <<fail_count, since, lockLeft>>, tried'[e] = tried[e],
             ~Locked(e) \/ A' <= A, B' >= B
      PROVE  InCount(e)'
  <2>1. Counted(e)' = Counted(e) /\ (Locked(e)' <=> Locked(e))
    BY <1>6 DEF Counted, Restarts, Locked
  <2>2. CASE Locked(e)
    <3>1. tried[e] + A <= Budget
      BY <1>1, <2>2 DEF InCount
    <3>2. tried'[e] + A' <= Budget'
      BY <1>2, <1>3, <1>6, <2>2, <3>1
    <3> QED BY <2>1, <2>2, <3>2 DEF InCount
  <2>3. CASE ~Locked(e)
    <3>1. tried[e] <= Counted(e) + B
      BY <1>1, <2>3 DEF InCount
    <3>2. tried'[e] <= Counted(e)' + B'
      BY <1>2, <1>3, <1>4, <1>6, <2>1, <3>1
    <3> QED BY <2>1, <2>3, <3>2 DEF InCount
  <2> QED BY <2>2, <2>3
\* A step after which only the guesses in flight count.
<1>7. ASSUME ~Locked(e)', tried'[e] = B, B' = B, Counted(e)' \in Nat PROVE InCount(e)'
  BY <1>2, <1>7 DEF InCount
<1>8. ASSUME NEW r \in Requests, NEW d \in Emails, NEW g \in {Wrong} \cup Passwords,
             CheckLockout(r, d, g)
      PROVE  InCount(e)'
  <2>1. \A q \in Requests \ {r} : pc'[q] = pc[q] /\ email'[q] = email[q]
    BY <1>8 DEF TypeOK, CheckLockout, Begin
  <2>2. (r \in Waiting(e, {"record"}) <=> r \in Waiting(e, {"record"})')
    BY <1>8 DEF TypeOK, CheckLockout, Begin, Waiting
  <2>3. ~Locked(e) \/ (r \in Waiting(e, {"read"}) <=> r \in Waiting(e, {"read"})')
    BY <1>8 DEF TypeOK, CheckLockout, MayTry, Begin, Waiting
  <2> QED BY <1>2, <1>5, <1>6, <1>8, <2>1, <2>2, <2>3 DEF CheckLockout, rows, failures, history
<1>9. ASSUME NEW r \in Requests,
             (\E d \in Emails : StartReset(r, d))
               \/ (\E d \in Emails, p \in Passwords : VerifyMfa(r, d, p) \/ StartRefresh(r, d, p))
               \/ ReadUserRight(r) \/ Mint(r)
               \/ SignMfaToken(r) \/ ResetUpdate(r) \/ ResetSweep(r) \/ Fail(r)
      PROVE  InCount(e)'
  <2>1. \A q \in Requests \ {r} : pc'[q] = pc[q] /\ email'[q] = email[q]
    BY <1>9 DEF TypeOK, StartReset, VerifyMfa, StartRefresh, Begin, ReadUserRight, Mint, SignMfaToken, ResetUpdate, ResetSweep, Fail,
                Goto, Finish
  <2>2. r \notin Waiting(e, {"read"})'
    BY <1>9 DEF TypeOK, StartReset, VerifyMfa, StartRefresh, Begin, ReadUserRight, Mint, SignMfaToken, ResetUpdate, ResetSweep, Fail,
                Goto, Finish, Waiting
  <2>3. r \notin Waiting(e, {"record"}) /\ r \notin Waiting(e, {"record"})'
    BY <1>9 DEF TypeOK, StartReset, VerifyMfa, StartRefresh, Begin, ReadUserRight, Mint, SignMfaToken, ResetUpdate, ResetSweep, Fail,
                Goto, Finish, Waiting
  <2>4. UNCHANGED <<fail_count, since, lockLeft, tried>>
    BY <1>9 DEF StartReset, VerifyMfa, StartRefresh, ReadUserRight, Mint, SignMfaToken, ResetUpdate, ResetSweep, Fail, rows, failures, history
  <2>5. A' <= A /\ B' = B
    BY <1>2, <1>5, <2>1, <2>2, <2>3
  <2> QED BY <1>2, <1>6, <2>4, <2>5
<1>10. ASSUME NEW r \in Requests, ReadUserWrong(r) PROVE InCount(e)'
  <2>1. /\ \A q \in Requests \ {r} : pc'[q] = pc[q] /\ email'[q] = email[q]
        /\ UNCHANGED <<fail_count, since, lockLeft>>
    BY <1>10 DEF TypeOK, ReadUserWrong, Goto, rows, failures
  <2>2. CASE email[r] = e
    <3>1. /\ r \in Waiting(e, {"read"}) /\ r \notin Waiting(e, {"read"})'
          /\ r \notin Waiting(e, {"record"}) /\ r \in Waiting(e, {"record"})'
      BY <1>10, <2>2 DEF TypeOK, ReadUserWrong, Goto, Waiting
    <3>2. A' = A - 1 /\ B' = B + 1
      BY <1>5, <2>1, <3>1
    <3>3. tried'[e] \in Nat /\ tried'[e] <= tried[e] + 1
      BY <1>3, <1>10, <2>2 DEF TypeOK, ReadUserWrong, Least
    <3>4. Counted(e)' = Counted(e) /\ (Locked(e)' <=> Locked(e))
      BY <2>1 DEF Counted, Restarts, Locked
    <3>5. CASE Locked(e)
      <4>1. tried[e] + A <= Budget
        BY <1>1, <3>5 DEF InCount
      <4>2. tried'[e] + A' <= Budget'
        BY <1>2, <1>3, <3>2, <3>3, <4>1
      <4> QED BY <3>4, <3>5, <4>2 DEF InCount
    <3>6. CASE ~Locked(e)
      <4>1. tried[e] <= Counted(e) + B
        BY <1>1, <3>6 DEF InCount
      <4>2. tried'[e] <= Counted(e)' + B'
        BY <1>2, <1>3, <1>4, <3>2, <3>3, <3>4, <4>1
      <4> QED BY <3>4, <3>6, <4>2 DEF InCount
    <3> QED BY <3>5, <3>6
  <2>3. CASE email[r] # e
    <3>1. /\ r \notin Waiting(e, {"read"}) /\ r \notin Waiting(e, {"read"})'
          /\ r \notin Waiting(e, {"record"}) /\ r \notin Waiting(e, {"record"})'
      BY <1>10, <2>3 DEF TypeOK, ReadUserWrong, Goto, Waiting
    <3>2. A' = A /\ B' = B
      BY <1>5, <2>1, <3>1
    <3>3. tried'[e] = tried[e]
      BY <1>10, <2>3 DEF TypeOK, ReadUserWrong
    <3> QED BY <1>2, <1>6, <2>1, <3>2, <3>3
  <2> QED BY <2>2, <2>3
<1>11. ASSUME NEW r \in Requests, RecordFailure(r) PROVE InCount(e)'
  <2>1. CASE email[r] = e
    BY <1>1, <1>11, <2>1, RecordCounts
  <2>2. CASE email[r] # e
    <3>1. \A q \in Requests \ {r} : pc'[q] = pc[q] /\ email'[q] = email[q]
      BY <1>11 DEF TypeOK, RecordFailure, Finish
    <3>2. /\ r \notin Waiting(e, {"read"}) /\ r \notin Waiting(e, {"read"})'
          /\ r \notin Waiting(e, {"record"}) /\ r \notin Waiting(e, {"record"})'
      BY <1>11, <2>2 DEF TypeOK, RecordFailure, Finish, Waiting
    <3>3. A' = A /\ B' = B
      BY <1>5, <3>1, <3>2
    <3>4. /\ fail_count'[e] = fail_count[e] /\ since'[e] = since[e]
          /\ lockLeft'[e] = lockLeft[e] /\ tried'[e] = tried[e]
      BY <1>11, <2>2 DEF TypeOK, RecordFailure, history
    <3>5. Counted(e)' = Counted(e) /\ (Locked(e)' <=> Locked(e))
      BY <3>4 DEF Counted, Restarts, Locked
    <3> QED BY <1>1, <1>3, <3>3, <3>4, <3>5 DEF InCount
  <2> QED BY <2>1, <2>2
<1>12. ASSUME NEW r \in Requests, ClearFailures(r) \/ ResetClear(r) PROVE InCount(e)'
  <2>1. \A q \in Requests \ {r} : pc'[q] = pc[q] /\ email'[q] = email[q]
    BY <1>12 DEF TypeOK, ClearFailures, ResetClear, Goto, Finish
  <2>2. /\ r \notin Waiting(e, {"read"}) /\ r \notin Waiting(e, {"read"})'
        /\ r \notin Waiting(e, {"record"}) /\ r \notin Waiting(e, {"record"})'
    BY <1>12 DEF TypeOK, ClearFailures, ResetClear, Goto, Finish, Waiting
  <2>3. A' = A /\ B' = B
    BY <1>5, <2>1, <2>2
  <2>4. CASE email[r] = e
    <3>1. fail_count'[e] = 0 /\ lockLeft'[e] = 0 /\ tried'[e] = B
      BY <1>12, <2>4 DEF TypeOK, ClearFailures, ResetClear, Forget
    <3>2. ~Locked(e)' /\ Counted(e)' = 0
      BY <3>1 DEF Locked, Counted, Restarts
    <3> QED BY <1>7, <2>3, <3>1, <3>2
  <2>5. CASE email[r] # e
    <3>1. /\ fail_count'[e] = fail_count[e] /\ since'[e] = since[e]
          /\ lockLeft'[e] = lockLeft[e] /\ tried'[e] = tried[e]
      BY <1>12, <2>5 DEF TypeOK, ClearFailures, ResetClear, Forget
    <3>2. Counted(e)' = Counted(e) /\ (Locked(e)' <=> Locked(e))
      BY <3>1 DEF Counted, Restarts, Locked
    <3> QED BY <1>1, <1>3, <2>3, <3>1, <3>2 DEF InCount
  <2> QED BY <2>4, <2>5
<1>13. CASE Tick
  <2>1. A' = A /\ B' = B
    BY <1>13 DEF Tick, requests, Waiting
  <2>2. /\ fail_count'[e] = fail_count[e]
        /\ since'[e] = IF fail_count[e] > 0 THEN Least(since[e] + 1, Window + 1) ELSE 0
        /\ lockLeft'[e] = IF lockLeft[e] > 0 THEN lockLeft[e] - 1 ELSE 0
        /\ tried'[e] = IF lockLeft[e] = 1 \/ since[e] = Window THEN B ELSE tried[e]
    BY <1>13 DEF Tick, Locked
  <2>3. Counted(e)' \in Nat
    BY <1>3, <2>2 DEF Counted
  <2>4. lockLeft[e] = IF fail_count[e] >= Threshold /\ since[e] < Window
                        THEN Window - since[e] ELSE 0
    BY DEF LockMatchesCount
  <2>5. CASE lockLeft[e] = 1 \/ since[e] = Window
    <3>1. ~Locked(e)'
      BY <1>3, <2>2, <2>4, <2>5 DEF Locked
    <3> QED BY <1>7, <2>1, <2>2, <2>3, <2>5, <3>1
  <2>6. CASE ~(lockLeft[e] = 1 \/ since[e] = Window)
    <3>1. (Locked(e)' <=> Locked(e)) /\ tried'[e] = tried[e]
      BY <1>3, <2>2, <2>6 DEF Locked
    <3>2. Restarts(e)' <=> Restarts(e)
      BY <1>3, <2>2, <2>6 DEF Restarts, Least
    <3>3. Counted(e)' = Counted(e)
      BY <2>2, <3>2 DEF Counted
    <3> QED BY <1>1, <1>3, <2>1, <3>1, <3>3 DEF InCount
  <2> QED BY <2>5, <2>6
<1>14. CASE \/ \E d \in Emails : DeleteUser(d)
            \/ \E d \in Emails, p \in Passwords : ExpireMfaToken(d, p)
            \/ UNCHANGED vars
  <2>1. A' = A /\ B' = B
    BY <1>14 DEF DeleteUser, ExpireMfaToken, vars, requests, Waiting
  <2> QED BY <1>2, <1>6, <1>14, <2>1 DEF DeleteUser, ExpireMfaToken, vars, rows, failures, history
<1> QED
  BY <1>8, <1>9, <1>10, <1>11, <1>12, <1>13, <1>14 DEF Next, Step

-----------------------------------------------------------------------------
(* The theorems. *)

LEMMA InitIInv == Init => IInv
<1> SUFFICES ASSUME Init PROVE IInv
  OBVIOUS
<1> USE NumbersAssumption, BudgetNat
<1>1. TypeOK
  BY DEF Init, TypeOK, Passwords, Wrong
<1>2. LockMatchesCount
  BY DEF Init, LockMatchesCount
<1>3. EarnedHeld /\ AllExcused
  BY DEF Init, EarnedHeld, AllExcused, Outstanding, Waiting, Earned
<1>4. ASSUME NEW e \in Emails PROVE InCount(e)
  <2>1. Cardinality(Waiting(e, {"record"})) \in Nat
    BY WaitingBound
  <2>2. ~Locked(e) /\ Counted(e) = 0 /\ tried[e] = 0
    BY <1>4 DEF Init, Locked, Counted, Restarts
  <2> QED BY <2>1, <2>2 DEF InCount
<1> QED BY <1>1, <1>2, <1>3, <1>4 DEF IInv, GuessesCounted

LEMMA IInvStep == IInv /\ [Next]_vars => IInv'
BY TypeStep, LockStep, HeldStep, ExcusedStep, GuessStep DEF IInv

LEMMA Invariance == Spec => []IInv
BY InitIInv, IInvStep, PTL DEF Spec

\* Login keeps its types: no count, clock or lock leaves its range.
THEOREM TypeCorrect == Spec => []TypeOK
<1>1. IInv => TypeOK
  BY DEF IInv
<1> QED BY <1>1, Invariance, PTL

\* checkLockout and recordFailure agree at every instant: a row is locked exactly
\* while its count is at the threshold and its last failure younger than the window.
THEOREM LockFollowsCount == Spec => []LockMatchesCount
<1>1. IInv => LockMatchesCount
  BY DEF IInv
<1> QED BY <1>1, Invariance, PTL

\* However many requests are in flight together, the lockout lets through one wrong
\* guess less than the threshold, and one for each of them.
THEOREM GuessesBounded == Spec => []GuessBudget
<1>1. IInv => GuessBudget
  <2> SUFFICES ASSUME IInv, NEW e \in Emails, e \notin lost PROVE tried[e] <= Budget
    BY DEF GuessBudget
  <2> DEFINE A == Cardinality(Waiting(e, {"read"}))
             B == Cardinality(Waiting(e, {"record"}))
  <2>1. A \in Nat /\ B \in Nat /\ Cardinality(Requests) \in Nat /\ B <= Cardinality(Requests)
    BY WaitingBound
  <2>2. tried[e] \in Nat /\ fail_count[e] \in Nat
    BY DEF IInv, TypeOK
  <2>3. Counted(e) \in Nat /\ Counted(e) <= Threshold - 1
    BY <2>2, NumbersAssumption DEF Counted
  <2>4. InCount(e)
    BY DEF IInv, GuessesCounted
  <2>5. CASE Locked(e)
    <3>1. tried[e] + A <= Budget
      BY <2>4, <2>5 DEF InCount
    <3> QED BY <2>1, <2>2, <3>1, BudgetNat
  <2>6. CASE ~Locked(e)
    <3>1. tried[e] <= Counted(e) + B
      BY <2>4, <2>6 DEF InCount
    <3> QED BY <2>1, <2>2, <2>3, <3>1, NumbersAssumption DEF Budget
  <2> QED BY <2>5, <2>6
<1> QED BY <1>1, Invariance, PTL

\* confirmPasswordReset leaves a session of an older password only to what its last
\* sweep could not see, an mfa_token or a request past its check, or while that sweep
\* is to come or has failed.
THEOREM OldPasswordsOut == Spec => []OldPasswordOut
<1>1. IInv => OldPasswordOut
  BY DEF IInv, AllExcused, Excused, OldPasswordOut
<1> QED BY <1>1, Invariance, PTL

\* A smaller number of windows is a shorter time.
LEMMA WindowsShrink ==
  ASSUME NEW a \in Nat, NEW b \in Nat, a <= b
  PROVE  /\ Window * a \in Nat /\ Window * b \in Nat
         /\ Window * a <= Window * b
         /\ a <= b - 1 => Window * a + Window <= Window * b
<1> USE NumbersAssumption
<1>1. PICK d \in Nat : b = a + d
  <2>1. b - a \in Nat /\ b = a + (b - a)
    OBVIOUS
  <2> QED BY <2>1
<1>2. Window * b = Window * a + Window * d
  BY <1>1
<1>3. Window * a \in Nat /\ Window * d \in Nat
  OBVIOUS
<1>4. d >= 1 => Window * d >= Window
  <2> SUFFICES ASSUME d >= 1 PROVE Window * d >= Window
    OBVIOUS
  <2>1. d - 1 \in Nat /\ Window * (d - 1) \in Nat
    OBVIOUS
  <2>2. Window * d = Window * (d - 1) + Window
    OBVIOUS
  <2> QED BY <2>1, <2>2, <1>3
<1> QED BY <1>1, <1>2, <1>3, <1>4

\* Under a lock no request gets past checkLockout, and one that records its failure
\* is past it no more.
LEMMA FlightShrinks ==
  ASSUME TypeOK, [Next]_vars, NEW e \in Emails, Locked(e)
  PROVE  /\ Cardinality(Waiting(e, {"read", "record"})) \in Nat
         /\ Cardinality(Waiting(e, {"read", "record"})') \in Nat
         /\ Cardinality(Waiting(e, {"read", "record"})')
              <= Cardinality(Waiting(e, {"read", "record"}))
         /\ \A r \in Requests : RecordFailure(r) /\ email[r] = e =>
              Cardinality(Waiting(e, {"read", "record"})')
                <= Cardinality(Waiting(e, {"read", "record"})) - 1
<1> DEFINE W == Waiting(e, {"read", "record"})
<1>1. IsFiniteSet(W) /\ Cardinality(W) \in Nat
  BY WaitingBound
<1>2. ASSUME NEW q \in Requests, pc'[q] \in {"read", "record"}, email'[q] = e
      PROVE  pc[q] \in {"read", "record"} /\ email[q] = e
  <2>1. ASSUME NEW r \in Requests, NEW d \in Emails, NEW g, CheckLockout(r, d, g)
        PROVE  pc'[q] = pc[q] /\ email'[q] = email[q]
    BY <1>2, <2>1 DEF TypeOK, CheckLockout, MayTry, Begin
  <2>2. ASSUME NEW r \in Requests, NEW d \in Emails, StartReset(r, d)
        PROVE  pc'[q] = pc[q] /\ email'[q] = email[q]
    BY <1>2, <2>2 DEF TypeOK, StartReset, Begin
  <2>3. ASSUME NEW r \in Requests, Step(r)
        PROVE  pc[q] \in {"read", "record"} /\ email[q] = e
    BY <1>2, <2>3 DEF TypeOK, Step, ReadUserRight, ReadUserWrong, RecordFailure, ClearFailures,
      Mint, SignMfaToken, ResetUpdate, ResetSweep, ResetClear, Fail, Goto, Finish
  <2>4. CASE \/ \E d \in Emails : DeleteUser(d)
             \/ \E d \in Emails, p \in Passwords : ExpireMfaToken(d, p)
             \/ Tick \/ UNCHANGED vars
    BY <1>2, <2>4 DEF DeleteUser, ExpireMfaToken, Tick, vars, requests
  <2>5. ASSUME NEW r \in Requests, NEW d \in Emails, NEW p \in Passwords,
               VerifyMfa(r, d, p) \/ StartRefresh(r, d, p)
        PROVE  pc'[q] = pc[q] /\ email'[q] = email[q]
    BY <1>2, <2>5 DEF TypeOK, VerifyMfa, StartRefresh, Begin
  <2> QED BY <1>2, <2>1, <2>2, <2>3, <2>4, <2>5 DEF Next
<1>3. W' \subseteq W
  BY <1>2 DEF Waiting
<1>4. Cardinality(W') \in Nat /\ Cardinality(W') <= Cardinality(W)
  BY <1>1, <1>3, FS_Subset, FS_CardinalityType
<1>5. ASSUME NEW r \in Requests, RecordFailure(r), email[r] = e
      PROVE  Cardinality(W') <= Cardinality(W) - 1
  <2>1. r \in W /\ r \notin W'
    BY <1>5 DEF TypeOK, RecordFailure, Finish, Waiting
  <2>2. W' \subseteq W \ {r}
    BY <1>3, <2>1
  <2>3. IsFiniteSet(W \ {r}) /\ Cardinality(W \ {r}) = Cardinality(W) - 1
    BY <1>1, <2>1, FS_RemoveElement
  <2> QED BY <2>2, <2>3, FS_Subset
<1> QED BY <1>1, <1>4, <1>5

\* Only a failure recorded for the address sets its lock again.
LEMMA LockProlonged ==
  ASSUME TypeOK, [Next]_vars, NEW e \in Emails, Locked(e)
  PROVE  /\ lockLeft[e] \in Nat /\ lockLeft'[e] \in Nat
         /\ \/ lockLeft'[e] <= lockLeft[e]
            \/ lockLeft'[e] <= Window /\ \E r \in Requests : RecordFailure(r) /\ email[r] = e
         /\ Tick => lockLeft'[e] = lockLeft[e] - 1
<1> USE NumbersAssumption
<1>1. lockLeft[e] \in 0..Window
  BY DEF TypeOK
<1>2. ASSUME NEW r \in Requests, RecordFailure(r), email[r] = e
      PROVE  lockLeft'[e] \in 0..Window
  BY <1>2 DEF TypeOK, RecordFailure
<1>3. ASSUME NEW r \in Requests, RecordFailure(r), email[r] # e
      PROVE  lockLeft'[e] = lockLeft[e]
  BY <1>3 DEF TypeOK, RecordFailure
<1>4. ASSUME NEW r \in Requests, ClearFailures(r) \/ ResetClear(r)
      PROVE  lockLeft'[e] \in {0, lockLeft[e]}
  BY <1>4 DEF TypeOK, ClearFailures, ResetClear, Forget
<1>5. Tick => lockLeft'[e] = lockLeft[e] - 1 /\ lockLeft'[e] \in Nat
  BY <1>1 DEF Tick, Locked
<1>6. CASE lockLeft' = lockLeft
  BY <1>1, <1>5, <1>6
<1>7. CASE lockLeft' # lockLeft
  <2>1. Tick \/ \E r \in Requests : RecordFailure(r) \/ ClearFailures(r) \/ ResetClear(r)
    BY <1>7 DEF Next, Step, CheckLockout, StartReset, VerifyMfa, StartRefresh, ExpireMfaToken, SignMfaToken, ReadUserRight, ReadUserWrong, Mint,
      ResetUpdate, ResetSweep, Fail, DeleteUser, rows, failures, vars
  <2> QED BY <1>1, <1>2, <1>3, <1>4, <1>5, <2>1
<1> QED BY <1>6, <1>7

\* A lock runs out: what prolongs it is used up by doing so.
LEMMA RunOutStep ==
  ASSUME TypeOK, [Next]_vars, NEW e \in Emails
  PROVE  RunsOut(e)
<1> SUFFICES ASSUME Locked(e)
             PROVE  /\ LockedFor(e)' <= LockedFor(e)
                    /\ Tick => LockedFor(e)' < LockedFor(e)
  BY DEF RunsOut
<1>0. PICK a, b : /\ a = Cardinality(Waiting(e, {"read", "record"})')
                  /\ b = Cardinality(Waiting(e, {"read", "record"}))
  OBVIOUS
<1>1. /\ a \in Nat /\ b \in Nat /\ a <= b
      /\ \A r \in Requests : RecordFailure(r) /\ email[r] = e => a <= b - 1
  BY <1>0, FlightShrinks
<1>2. LockedFor(e) = lockLeft[e] + Window * b /\ LockedFor(e)' = lockLeft'[e] + Window * a
  BY <1>0 DEF LockedFor
<1>3. /\ Window * a \in Nat /\ Window * b \in Nat
      /\ Window * a <= Window * b
      /\ a <= b - 1 => Window * a + Window <= Window * b
  BY <1>1, WindowsShrink
<1>4. lockLeft[e] \in Nat /\ lockLeft'[e] \in Nat /\ Window \in Nat
  BY LockProlonged, NumbersAssumption
<1>5. Tick => LockedFor(e)' < LockedFor(e)
  <2>1. Tick => lockLeft'[e] = lockLeft[e] - 1
    BY LockProlonged
  <2> QED BY <1>2, <1>3, <1>4, <2>1
<1>6. CASE lockLeft'[e] <= lockLeft[e]
  BY <1>2, <1>3, <1>4, <1>5, <1>6
<1>7. CASE lockLeft'[e] <= Window /\ \E r \in Requests : RecordFailure(r) /\ email[r] = e
  <2>1. a <= b - 1
    BY <1>1, <1>7
  <2>2. lockLeft'[e] + Window * a <= Window * b
    BY <1>3, <1>4, <1>7, <2>1
  <2> QED BY <1>2, <1>3, <1>4, <1>5, <2>2
<1> QED BY <1>6, <1>7, LockProlonged

\* No failure recorded under a lock cuts it short, and it runs out: the guesses in
\* flight when it fell are all that can prolong it, once each.
THEOREM LocksHold == Spec => LockHolds
<1>1. IInv /\ [Next]_vars => [\A e \in Emails : CutShortFairly(e) /\ RunsOut(e)]_vars
  BY HoldStep, RunOutStep DEF IInv, CutShortFairly
<1> QED BY <1>1, Invariance, PTL DEF Spec, LockHolds

=============================================================================
