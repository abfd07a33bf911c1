---------------------------- MODULE PasswordReset ----------------------------
(***************************************************************************)
(* What a password reset does to the sessions of an account: RefreshTokens *)
(* with a record of the sessions that were open when a reset swept them.   *)
(***************************************************************************)
EXTENDS RefreshTokens

VARIABLES
  \* history, read by the properties alone
  cut,     \* the sessions a reset was to close
  missed   \* those of them a rotation was about to add a row to

resetVars == <<vars, cut, missed>>

\* The sessions of u: every row of it belongs to one.
SessionsOf(u) == {family[t] : t \in {t \in rows : owner[t] = u}}

\* Those whose token a refresh has read, and not yet inserted the successor of.
BetweenStatements(u) ==
  {family[tok[r]] : r \in {r \in Requests : pc[r] = "insert" /\ who[r] = u}}

ResetInit == Init /\ cut = {} /\ missed = {}

\* confirmPasswordReset reaches revokeAllForUser and answers.
Reset(u) ==
  /\ ConfirmPasswordReset(u)
  /\ cut' = cut \cup SessionsOf(u)
  /\ missed' = missed \cup BetweenStatements(u)

\* Every other handler, as in RefreshTokens.
Other == Handlers /\ UNCHANGED <<cut, missed>>

ResetNext == Other \/ \E u \in Users : Reset(u)

ResetSpec == ResetInit /\ [][ResetNext]_resetVars

\* What authController.js:402 says: a reset invalidates every open session of
\* the account.  No client holds a usable token of one afterwards.
ResetClosesSessions == \A t \in delivered : family[t] \in cut => ~Unrevoked(t)

\* What holds of it: a session outlives the reset only through a refresh that
\* stood between its SELECT and its INSERT when revokeAllForUser swept the rows.
OnlyRotationsEscape ==
  \A t \in delivered : family[t] \in cut /\ Unrevoked(t) => family[t] \in missed

=============================================================================
