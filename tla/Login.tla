-------------------------------- MODULE Login --------------------------------
(***************************************************************************)
(* POST /api/auth/login and the lockout around it, with the password reset *)
(* that ends both (src/src/controllers/authController.js: checkLockout,    *)
(* recordFailure, clearFailures, login, confirmPasswordReset), and the two *)
(* other ways to a session that a login has earned: mfa/verify with its    *)
(* mfa_token, and the refresh of a session it opened.                      *)
(*                                                                         *)
(* A statement is a step; requests interleave between them.  Time is       *)
(* relative, so it may pass for ever: since is the age of last_fail_at,    *)
(* and lockLeft is what is left until locked_until.                        *)
(***************************************************************************)
EXTENDS Naturals, FiniteSets

CONSTANTS
  Emails,       \* addresses, with and without an account
  NoEmail,      \* "none"
  Requests,     \* HTTP requests that can be in flight together
  Threshold,    \* LOCKOUT_THRESHOLD
  Window,       \* LOCKOUT_WINDOW_MIN, in ticks of the clock
  MaxPasswords  \* bound: passwords an account can have, one after the other

ASSUME NoEmailAssumption == NoEmail \notin Emails
ASSUME NumbersAssumption ==
  Threshold \in Nat \ {0} /\ Window \in Nat \ {0} /\ MaxPasswords \in Nat \ {0}
ASSUME RequestsAssumption == IsFiniteSet(Requests)

VARIABLES
  \* PostgreSQL
  registered,  \* addresses of the rows of users
  password,    \* users.password_hash: the password is its number
  fail_count,  \* auth_failures.fail_count, 0 without a row
  since,       \* ticks since auth_failures.last_fail_at
  lockLeft,    \* ticks until auth_failures.locked_until
  live,        \* passwords with which the account's live sessions were opened
  \* clients
  mfa_tokens,  \* passwords behind the mfa_tokens out, until spent or expired
  \* the process: one request each
  pc, email, guess,
  \* history, read by the properties alone
  tried,       \* wrong guesses compared since a clear, a lock's end or a quiet window
  lost,        \* addresses with a wrong guess whose recording failed
  unswept,     \* addresses with a reset that failed before its sweep
  escaped      \* passwords that could still open a session when the last sweep ran

failures == <<fail_count, since, lockLeft>>
rows     == <<registered, password, failures, live>>
requests == <<pc, email, guess>>
history  == <<tried, lost, unswept, escaped>>
vars     == <<rows, mfa_tokens, requests, history>>

Passwords == 1..MaxPasswords

\* A guess that is no password of the account, now or ever.
Wrong == 0

Least(m, n) == IF m < n THEN m ELSE n

Locked(e) == lockLeft[e] > 0

\* What requests do with a password that was right, or earned by one: clear the
\* failures, open its session or sign its mfa_token, insert a successor.
Earned == {"clear", "mint", "insert"}

\* Requests for e that wait for one of the statements named by labels.
Waiting(e, labels) == {r \in Requests : email[r] = e /\ pc[r] \in labels}

\* Passwords that may yet open a session of e without being compared again: of an
\* mfa_token, or of a request past its check.
Outstanding(e) == mfa_tokens[e] \cup {guess[r] : r \in Waiting(e, Earned)}

\* Most wrong guesses one count lets through, with every request in flight.
Budget == Threshold - 1 + Cardinality(Requests)

-----------------------------------------------------------------------------

Init ==
  /\ registered \in SUBSET Emails
  /\ password = [e \in Emails |-> 1]
  /\ fail_count = [e \in Emails |-> 0]
  /\ since = [e \in Emails |-> 0]
  /\ lockLeft = [e \in Emails |-> 0]
  /\ live = [e \in Emails |-> {}]
  /\ mfa_tokens = [e \in Emails |-> {}]
  /\ pc = [r \in Requests |-> "idle"]
  /\ email = [r \in Requests |-> NoEmail]
  /\ guess = [r \in Requests |-> Wrong]
  /\ tried = [e \in Emails |-> 0]
  /\ lost = {} /\ unswept = {}
  /\ escaped = [e \in Emails |-> {}]

Begin(r, label, e, g) ==
  /\ pc[r] = "idle"
  /\ pc' = [pc EXCEPT ![r] = label]
  /\ email' = [email EXCEPT ![r] = e]
  /\ guess' = [guess EXCEPT ![r] = g]

Goto(r, label) ==
  /\ pc' = [pc EXCEPT ![r] = label]
  /\ UNCHANGED <<email, guess>>

Finish(r) ==
  /\ pc' = [pc EXCEPT ![r] = "idle"]
  /\ email' = [email EXCEPT ![r] = NoEmail]
  /\ guess' = [guess EXCEPT ![r] = Wrong]

-----------------------------------------------------------------------------
(* login *)

\* Mutant: login does not ask for a lock.
MutMayTry(e) == TRUE

\* checkLockout finds no locked_until in the future.
MayTry(e) == ~Locked(e)

CheckLockout(r, e, g) ==
  /\ MayTry(e)
  /\ Begin(r, "read", e, g)
  /\ UNCHANGED <<rows, mfa_tokens, history>>

\* Mutant: the password is not compared.
MutRight(r) == email[r] \in registered

\* The SELECT on users, and bcrypt on what it returned: the guess is right, or
\* it is wrong or for an address nobody has.
Right(r) == email[r] \in registered /\ guess[r] = password[email[r]]

ReadUserRight(r) ==
  /\ pc[r] = "read"
  /\ Right(r)
  /\ Goto(r, "clear")
  /\ UNCHANGED <<rows, mfa_tokens, history>>

ReadUserWrong(r) ==
  /\ pc[r] = "read"
  /\ ~Right(r)
  /\ Goto(r, "record")
  /\ tried' = [tried EXCEPT ![email[r]] = Least(@ + 1, Budget + 1)]
  /\ UNCHANGED <<rows, mfa_tokens, lost, unswept, escaped>>

\* Mutant: <= for <.
MutRestarts(e) == fail_count[e] = 0 \/ since[e] >= Window

\* last_fail_at < NOW() - window, or there is no row.
Restarts(e) == fail_count[e] = 0 \/ since[e] > Window

\* Mutant: only the failure that reaches the threshold locks.
MutLocks(n) == n = Threshold

\* The CASE that sets locked_until; its ELSE sets it to NULL.
Locks(n) == n >= Threshold

\* recordFailure, one upsert.  A count past the threshold is as good as any other.
RecordFailure(r) ==
  LET e == email[r]
      n == IF Restarts(e) THEN 1 ELSE Least(fail_count[e] + 1, Threshold + 1)
  IN
  /\ pc[r] = "record"
  /\ fail_count' = [fail_count EXCEPT ![e] = n]
  /\ since' = [since EXCEPT ![e] = 0]
  /\ lockLeft' = [lockLeft EXCEPT ![e] = IF Locks(n) THEN Window ELSE 0]
  /\ Finish(r)
  /\ UNCHANGED <<registered, password, live, mfa_tokens, history>>

\* DELETE FROM auth_failures; the wrong guesses in flight are counted anew.
Forget(e) ==
  /\ fail_count' = [fail_count EXCEPT ![e] = 0]
  /\ since' = [since EXCEPT ![e] = 0]
  /\ lockLeft' = [lockLeft EXCEPT ![e] = 0]
  /\ tried' = [tried EXCEPT ![e] = Cardinality(Waiting(e, {"record"}))]

ClearFailures(r) ==
  /\ pc[r] = "clear"
  /\ Forget(email[r])
  /\ Goto(r, "mint")
  /\ UNCHANGED <<registered, password, live, mfa_tokens, lost, unswept, escaped>>

\* issueRefreshToken, of a login (mintTokenPair), of mfa/verify or of a rotation: the
\* account is there still, or its foreign key fails.
Mint(r) ==
  LET e == email[r] IN
  /\ pc[r] \in {"mint", "insert"}
  /\ e \in registered
  /\ live' = [live EXCEPT ![e] = @ \cup {guess[r]}]
  /\ Finish(r)
  /\ UNCHANGED <<registered, password, failures, mfa_tokens, history>>

\* 2FA is on: the client gets an mfa_token and no session.  Mfa says when it is on;
\* here either may be the case.
SignMfaToken(r) ==
  /\ pc[r] = "mint"
  /\ mfa_tokens' = [mfa_tokens EXCEPT ![email[r]] = @ \cup {guess[r]}]
  /\ Finish(r)
  /\ UNCHANGED <<rows, history>>

-----------------------------------------------------------------------------
(* The requests that go on from a login: they compare no password. *)

\* mfa/verify up to its INSERT: the mfa_token is valid, and so is the code.
VerifyMfa(r, e, p) ==
  /\ p \in mfa_tokens[e]
  /\ Begin(r, "insert", e, p)
  /\ UNCHANGED <<rows, mfa_tokens, history>>

\* rotateRefreshToken up to its INSERT: the SELECT finds the token unrevoked.
StartRefresh(r, e, p) ==
  /\ p \in live[e]
  /\ Begin(r, "insert", e, p)
  /\ UNCHANGED <<rows, mfa_tokens, history>>

\* Five minutes have passed, or mfa/verify has spent the token (revokeJti): it was
\* the last of its password.
ExpireMfaToken(e, p) ==
  /\ p \in mfa_tokens[e]
  /\ mfa_tokens' = [mfa_tokens EXCEPT ![e] = @ \ {p}]
  /\ UNCHANGED <<rows, requests, history>>

-----------------------------------------------------------------------------
(* confirmPasswordReset, from the statement after the link is spent *)

StartReset(r, e) ==
  /\ e \in registered
  /\ Begin(r, "update", e, Wrong)
  /\ UNCHANGED <<rows, mfa_tokens, history>>

\* UPDATE users ... RETURNING email.
ResetUpdate(r) ==
  LET e == email[r] IN
  /\ pc[r] = "update"
  /\ e \in registered
  /\ password[e] < MaxPasswords
  /\ password' = [password EXCEPT ![e] = @ + 1]
  /\ Goto(r, "sweep")
  /\ UNCHANGED <<registered, failures, live, mfa_tokens, history>>

\* Mutant: the sessions are left alone.
MutLeft(sessions) == sessions

\* revokeAllForUser leaves none.
Left(sessions) == {}

ResetSweep(r) ==
  LET e == email[r] IN
  /\ pc[r] = "sweep"
  /\ live' = [live EXCEPT ![e] = Left(@)]
  /\ unswept' = unswept \ {e}
  /\ escaped' = [escaped EXCEPT ![e] = Outstanding(e)]
  /\ Goto(r, "forget")
  /\ UNCHANGED <<registered, password, failures, mfa_tokens, tried, lost>>

ResetClear(r) ==
  /\ pc[r] = "forget"
  /\ Forget(email[r])
  /\ Finish(r)
  /\ UNCHANGED <<registered, password, live, mfa_tokens, lost, unswept, escaped>>

-----------------------------------------------------------------------------
(* The rest of the world *)

\* deleteUser; auth_failures has no foreign key and stays.
DeleteUser(e) ==
  /\ e \in registered
  /\ registered' = registered \ {e}
  /\ live' = [live EXCEPT ![e] = {}]
  /\ UNCHANGED <<password, failures, mfa_tokens, requests, history>>

\* A statement fails or finds the account gone: 500, and nothing is undone.
Fail(r) ==
  LET e == email[r] IN
  /\ pc[r] # "idle"
  /\ lost' = IF pc[r] = "record" THEN lost \cup {e} ELSE lost
  /\ unswept' = IF pc[r] = "sweep" THEN unswept \cup {e} ELSE unswept
  /\ Finish(r)
  /\ UNCHANGED <<rows, mfa_tokens, tried, escaped>>

\* One tick.  When a lock runs out, or the last failure is older than the
\* window, only the guesses in flight count.
Tick ==
  /\ \E e \in Emails : fail_count[e] > 0 /\ since[e] <= Window
  /\ since' = [e \in Emails |->
                 IF fail_count[e] > 0 THEN Least(since[e] + 1, Window + 1) ELSE 0]
  /\ lockLeft' = [e \in Emails |-> IF Locked(e) THEN lockLeft[e] - 1 ELSE 0]
  /\ tried' = [e \in Emails |->
                 IF lockLeft[e] = 1 \/ since[e] = Window
                   THEN Cardinality(Waiting(e, {"record"})) ELSE tried[e]]
  /\ UNCHANGED <<registered, password, fail_count, live, mfa_tokens, requests,
                 lost, unswept, escaped>>

Step(r) ==
  \/ ReadUserRight(r)
  \/ ReadUserWrong(r)
  \/ RecordFailure(r)
  \/ ClearFailures(r)
  \/ Mint(r)
  \/ SignMfaToken(r)
  \/ ResetUpdate(r)
  \/ ResetSweep(r)
  \/ ResetClear(r)
  \/ Fail(r)

Next ==
  \/ \E r \in Requests, e \in Emails, g \in {Wrong} \cup Passwords : CheckLockout(r, e, g)
  \/ \E r \in Requests, e \in Emails : StartReset(r, e)
  \/ \E r \in Requests, e \in Emails, p \in Passwords : VerifyMfa(r, e, p) \/ StartRefresh(r, e, p)
  \/ \E r \in Requests : Step(r)
  \/ \E e \in Emails, p \in Passwords : ExpireMfaToken(e, p)
  \/ \E e \in Emails : DeleteUser(e)
  \/ Tick

Spec == Init /\ [][Next]_vars

\* The clock does not stop; nothing else needs to happen.
FairSpec == Spec /\ WF_vars(Tick)

-----------------------------------------------------------------------------
(* Properties *)

\* Every variable has its type, and a request that is not idle has an address.
TypeOK ==
  /\ registered \subseteq Emails
  /\ password \in [Emails -> Passwords]
  /\ fail_count \in [Emails -> 0..Threshold + 1]
  /\ since \in [Emails -> 0..Window + 1]
  /\ lockLeft \in [Emails -> 0..Window]
  /\ live \in [Emails -> SUBSET Passwords]
  /\ mfa_tokens \in [Emails -> SUBSET Passwords]
  /\ pc \in [Requests -> {"idle", "read", "clear", "record", "mint", "insert",
                          "update", "sweep", "forget"}]
  /\ email \in [Requests -> Emails \cup {NoEmail}]
  /\ guess \in [Requests -> {Wrong} \cup Passwords]
  /\ tried \in [Emails -> 0..Budget + 1]
  /\ lost \subseteq Emails /\ unswept \subseteq Emails
  /\ escaped \in [Emails -> SUBSET Passwords]
  /\ \A r \in Requests : pc[r] # "idle" => email[r] \in Emails

\* The lock is set by the last failure counted, and both clocks run together: a
\* row is locked exactly while its count is at the threshold and its last
\* failure is younger than the window, so no lock outlives the failures it is
\* for, and none is missing.
LockMatchesCount ==
  \A e \in Emails :
    lockLeft[e] = IF fail_count[e] >= Threshold /\ since[e] < Window
                    THEN Window - since[e] ELSE 0

\* How many wrong guesses are compared between two locks, with less than a window
\* from each to the next: four, and as many more as requests were past
\* checkLockout when the fifth was recorded, unless the recording of one failed.
GuessBudget ==
  \A e \in Emails : e \notin lost => tried[e] <= Budget

\* A session of an earlier password is alive only while a sweep is still to come,
\* after a reset that failed before its own, or when the sweep could not see it:
\* when the last one ran, that password was already past its check, in a login, a
\* refresh or an mfa/verify in flight or in an mfa_token yet to be presented.
OldPasswordOut ==
  \A e \in Emails : \A p \in live[e] :
    \/ p = password[e]
    \/ Waiting(e, {"sweep"}) # {}
    \/ e \in unswept
    \/ p \in escaped[e]

\* A lock is cut short by no failure recorded under it: only time shortens it,
\* or a login that held the password before the lock fell, or a reset.
CutShortFairly(e) ==
  lockLeft'[e] < lockLeft[e] =>
    \/ since'[e] = since[e] + 1
    \/ fail_count'[e] = 0 /\ \E r \in Waiting(e, {"clear", "forget"}) : pc'[r] # pc[r]

\* How long an address can still be locked out: what is left of the lock, and a
\* window more for each request that was past checkLockout when it fell.
LockedFor(e) == lockLeft[e] + Window * Cardinality(Waiting(e, {"read", "record"}))

RunsOut(e) ==
  Locked(e) => /\ LockedFor(e)' <= LockedFor(e)
               /\ Tick => LockedFor(e)' < LockedFor(e)

\* A lock holds for its window, and no guesses made under it prolong it for ever:
\* only those let in before it do, each of them once (checkLockout is in front of
\* recordFailure), and every tick brings its end nearer.
LockHolds == [][\A e \in Emails : CutShortFairly(e) /\ RunsOut(e)]_vars

\* Whoever is locked out is let in again, if only for the next guess: a lock
\* feeds on requests that were in flight when it fell, and those run out.
LockEnds == \A e \in Emails : Locked(e) ~> ~Locked(e)

=============================================================================
