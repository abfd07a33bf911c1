--------------------------------- MODULE Mfa ---------------------------------
(***************************************************************************)
(* Two-factor authentication (src/src/controllers/mfaController.js): the   *)
(* user_mfa row through setup, enable and disable, its backup codes, and   *)
(* the mfa_token that login hands out and mfa/verify trades for a session. *)
(* A handler's statements are steps of their own and interleave.           *)
(*                                                                         *)
(* Secrets, sets of backup codes and mfa_tokens are numbered in the order  *)
(* they are made.  A response may reach its client as soon as its last     *)
(* statement is done, so what clients know is what was made.               *)
(***************************************************************************)
EXTENDS Naturals, FiniteSets

CONSTANTS
  Users,       \* accounts (users.id)
  NoUser,      \* "nobody"
  Admin,       \* ADMIN_UUID: the one account that cannot be deleted
  Requests,    \* HTTP requests that can be in flight together
  CodeIds,     \* the codes of one set (BACKUP_CODE_COUNT of them)
  NoId,        \* "not a backup code"
  MaxSecrets,  \* bound: how often setup writes a row
  MaxBatches,  \* bound: how often enable makes backup codes
  MaxTokens    \* bound: how many mfa_tokens are ever signed

ASSUME NobodyAssumption == NoUser \notin Users /\ NoId \notin CodeIds
ASSUME BoundsAssumption == MaxSecrets \in Nat /\ MaxBatches \in Nat /\ MaxTokens \in Nat

VARIABLES
  \* PostgreSQL
  deleted,       \* accounts that are gone
  secret,        \* user_mfa.secret, 0 without a row
  enabled,       \* accounts whose user_mfa row has enabled = TRUE
  backup_codes,  \* user_mfa.backup_codes
  revoked_jtis,  \* mfa_tokens whose jti is listed
  \* what was made so far
  secrets, batches, tokens,
  sub,           \* the account each mfa_token names
  expired,       \* mfa_tokens 1..expired are past their five minutes
  \* the process: one request each
  pc, op, who, tok, code,
  \* history, read by the properties alone
  sessions,      \* how many sessions each mfa_token has opened
  uses,          \* how often each backup code was accepted
  confirmed,     \* secrets a live code of which was given to enable
  doubled,       \* mfa_tokens and backup codes that were in two requests at once
  raced          \* accounts that had a setup and an enable at once

tables   == <<deleted, secret, enabled, backup_codes, revoked_jtis>>
made     == <<secrets, batches, tokens, sub, expired>>
requests == <<pc, op, who, tok, code>>
history  == <<sessions, uses, confirmed, doubled, raced>>
vars     == <<tables, made, requests, history>>

Token == 1..MaxTokens

\* What a user can type: the code an authenticator shows for a secret, or a
\* backup code.
Totp(s) == [kind |-> "totp", n |-> s, id |-> NoId]
BackupCode(b, i) == [kind |-> "backup", n |-> b, id |-> i]
Batch(b) == {BackupCode(b, i) : i \in CodeIds}
TotpCodes == {Totp(s) : s \in 0..MaxSecrets}
BackupCodes == UNION {Batch(b) : b \in 1..MaxBatches}
CodesMade == UNION {Batch(b) : b \in 1..batches}
Known == {Totp(s) : s \in 1..secrets} \cup CodesMade

NoCode == Totp(0)

\* Requests of u that wait for the statement named by label.
Waiting(u, label) == {r \in Requests : pc[r] = label /\ who[r] = u}

-----------------------------------------------------------------------------

Init ==
  /\ deleted = {}
  /\ secret = [u \in Users |-> 0]
  /\ enabled = {}
  /\ backup_codes = [u \in Users |-> {}]
  /\ revoked_jtis = {}
  /\ secrets = 0 /\ batches = 0 /\ tokens = 0
  /\ sub = [t \in Token |-> NoUser]
  /\ expired = 0
  /\ pc = [r \in Requests |-> "idle"]
  /\ op = [r \in Requests |-> "verify"]
  /\ who = [r \in Requests |-> NoUser]
  /\ tok = [r \in Requests |-> 0]
  /\ code = [r \in Requests |-> NoCode]
  /\ sessions = [t \in Token |-> 0]
  /\ uses = [c \in BackupCodes |-> 0]
  /\ confirmed = {}
  /\ doubled = [tokens |-> {}, codes |-> {}]
  /\ raced = {}

Begin(r, label, o, u, t, c) ==
  /\ pc[r] = "idle"
  /\ pc' = [pc EXCEPT ![r] = label]
  /\ op' = [op EXCEPT ![r] = o]
  /\ who' = [who EXCEPT ![r] = u]
  /\ tok' = [tok EXCEPT ![r] = t]
  /\ code' = [code EXCEPT ![r] = c]

Finish(r) ==
  /\ pc' = [pc EXCEPT ![r] = "idle"]
  /\ op' = [op EXCEPT ![r] = "verify"]
  /\ who' = [who EXCEPT ![r] = NoUser]
  /\ tok' = [tok EXCEPT ![r] = 0]
  /\ code' = [code EXCEPT ![r] = NoCode]

-----------------------------------------------------------------------------
(* POST /api/auth/mfa/setup *)

\* Mutant: setup does not ask whether 2FA is on.
MutSetupAllowed(u) == TRUE

\* SELECT ... WHERE enabled = TRUE finds nothing.
SetupAllowed(u) == u \notin enabled

StartSetup(r, u) ==
  /\ SetupAllowed(u)
  /\ Begin(r, "setup", "setup", u, 0, NoCode)
  /\ raced' = IF Waiting(u, "enable") # {} THEN raced \cup {u} ELSE raced
  /\ UNCHANGED <<tables, made, sessions, uses, confirmed, doubled>>

\* The upsert: a new secret, not enabled, without backup codes.
SetupWrite(r) ==
  LET u == who[r] IN
  /\ pc[r] = "setup"
  /\ u \notin deleted
  /\ secrets < MaxSecrets
  /\ secrets' = secrets + 1
  /\ secret' = [secret EXCEPT ![u] = secrets + 1]
  /\ enabled' = enabled \ {u}
  /\ backup_codes' = [backup_codes EXCEPT ![u] = {}]
  /\ Finish(r)
  /\ UNCHANGED <<deleted, revoked_jtis, batches, tokens, sub, expired, history>>

-----------------------------------------------------------------------------
(* POST /api/auth/mfa/enable *)

\* Mutant: verifyCode is not called.
MutLiveCode(u, c) == secret[u] # 0

\* The row is there and verifyCode accepts the code for its secret.
LiveCode(u, c) == secret[u] # 0 /\ c = Totp(secret[u])

StartEnable(r, u, c) ==
  /\ u \notin enabled
  /\ LiveCode(u, c)
  /\ Begin(r, "enable", "enable", u, 0, NoCode)
  /\ confirmed' = IF c = Totp(secret[u]) THEN confirmed \cup {secret[u]} ELSE confirmed
  /\ raced' = IF Waiting(u, "setup") # {} THEN raced \cup {u} ELSE raced
  /\ UNCHANGED <<tables, made, sessions, uses, doubled>>

\* Mutant: the codes are made once and used again.
MutNextBatch == 1

NextBatch == batches + 1

\* Mutant: an upsert in place of the UPDATE.
MutRowThere(u) == TRUE

RowThere(u) == secret[u] # 0

\* The UPDATE, without effect if the row is gone by now; the response carries
\* new backup codes in any case.
EnableWrite(r) ==
  LET u == who[r] IN
  /\ pc[r] = "enable"
  /\ batches < MaxBatches
  /\ batches' = batches + 1
  /\ IF RowThere(u)
       THEN /\ enabled' = enabled \cup {u}
            /\ backup_codes' = [backup_codes EXCEPT ![u] = Batch(NextBatch)]
       ELSE UNCHANGED <<enabled, backup_codes>>
  /\ Finish(r)
  /\ UNCHANGED <<deleted, secret, revoked_jtis, secrets, tokens, sub, expired, history>>

-----------------------------------------------------------------------------
(* POST /api/auth/login with 2FA on, and POST /api/auth/mfa/verify. *)

\* login: the password holds and the SELECT finds 2FA enabled.
SignMfaToken(u) ==
  /\ u \in enabled
  /\ tokens < MaxTokens
  /\ tokens' = tokens + 1
  /\ sub' = [sub EXCEPT ![tokens + 1] = u]
  /\ UNCHANGED <<tables, secrets, batches, expired, requests, history>>

\* Mutant: the blacklist is not read.
MutFreshJti(t) == TRUE

\* isJtiRevoked answers no.
FreshJti(t) == t \notin revoked_jtis

\* Requests past isJtiRevoked that have not listed their mfa_token yet.
Spending(r) == op[r] = "verify" /\ pc[r] \in {"check", "consume", "spend"}

\* The mfa_token was signed here, is not expired and not on the blacklist.
StartVerify(r, t) ==
  /\ t > expired
  /\ FreshJti(t)
  /\ Begin(r, "check", "verify", sub[t], t, NoCode)
  /\ doubled' = IF \E q \in Requests : Spending(q) /\ tok[q] = t
                  THEN [doubled EXCEPT !.tokens = @ \cup {t}] ELSE doubled
  /\ UNCHANGED <<tables, made, sessions, uses, confirmed, raced>>

\* checkAnyCode, its SELECT: 2FA is on and the code is the authenticator's, or
\* one of the backup codes.
TotpFits(u, c)   == u \in enabled /\ c = Totp(secret[u])
BackupFits(u, c) == u \in enabled /\ c \in backup_codes[u]

\* A backup code that another request is about to remove too.
NoteDoubled(u, c) ==
  doubled' = IF \E q \in Waiting(u, "consume") : code[q] = c
               THEN [doubled EXCEPT !.codes = @ \cup {c}] ELSE doubled

\* checkAnyCode in verify: the code that came with the request is looked at here
\* for the first time.
AcceptTotp(r, c) ==
  /\ pc[r] = "check"
  /\ TotpFits(who[r], c)
  /\ pc' = [pc EXCEPT ![r] = "spend"]
  /\ UNCHANGED <<tables, made, op, who, tok, code, history>>

FindBackupCode(r, c) ==
  /\ pc[r] = "check"
  /\ BackupFits(who[r], c)
  /\ pc' = [pc EXCEPT ![r] = "consume"]
  /\ code' = [code EXCEPT ![r] = c]
  /\ NoteDoubled(who[r], c)
  /\ UNCHANGED <<tables, made, op, who, tok, sessions, uses, confirmed, raced>>

\* Mutant: the code stays in the row.
MutWithout(u, c) == backup_codes[u]

\* backup_codes - $2, computed on the row as it is now.
Without(u, c) == backup_codes[u] \ {c}

ConsumeBackupCode(r) ==
  LET u == who[r] IN
  /\ pc[r] = "consume"
  /\ backup_codes' = [backup_codes EXCEPT ![u] = Without(u, code[r])]
  /\ uses' = [uses EXCEPT ![code[r]] = @ + 1]
  /\ pc' = [pc EXCEPT ![r] = IF op[r] = "verify" THEN "spend" ELSE "delete"]
  /\ code' = [code EXCEPT ![r] = NoCode]
  /\ UNCHANGED <<deleted, secret, enabled, revoked_jtis, made, op, who, tok, sessions, confirmed,
                 doubled, raced>>

\* Mutant: the blacklist is given nothing.
MutRevokeJti(t) == UNCHANGED revoked_jtis

RevokeJti(t) == revoked_jtis' = revoked_jtis \cup {t}

SpendMfaToken(r) ==
  /\ pc[r] = "spend"
  /\ RevokeJti(tok[r])
  /\ pc' = [pc EXCEPT ![r] = "session"]
  /\ UNCHANGED <<deleted, secret, enabled, backup_codes, made, op, who, tok, code, history>>

\* The account is still there: identity token and refresh token.
OpenSession(r) ==
  /\ pc[r] = "session"
  /\ who[r] \notin deleted
  /\ sessions' = [sessions EXCEPT ![tok[r]] = @ + 1]
  /\ Finish(r)
  /\ UNCHANGED <<tables, made, uses, confirmed, doubled, raced>>

-----------------------------------------------------------------------------
(* POST /api/auth/mfa/disable *)

\* checkAnyCode is its first statement.
StartDisableByTotp(r, u, c) ==
  /\ TotpFits(u, c)
  /\ Begin(r, "delete", "disable", u, 0, NoCode)
  /\ UNCHANGED <<tables, made, history>>

StartDisableByBackup(r, u, c) ==
  /\ BackupFits(u, c)
  /\ Begin(r, "consume", "disable", u, 0, c)
  /\ NoteDoubled(u, c)
  /\ UNCHANGED <<tables, made, sessions, uses, confirmed, raced>>

\* DELETE FROM user_mfa, as a function of the account.
DropRow(u) ==
  /\ secret' = [secret EXCEPT ![u] = 0]
  /\ enabled' = enabled \ {u}
  /\ backup_codes' = [backup_codes EXCEPT ![u] = {}]

DisableDelete(r) ==
  /\ pc[r] = "delete"
  /\ DropRow(who[r])
  /\ Finish(r)
  /\ UNCHANGED <<deleted, revoked_jtis, made, history>>

-----------------------------------------------------------------------------
(* The rest of the world. *)

\* DELETE /api/admin/users/:id: the row goes with the account (ON DELETE CASCADE).
DeleteUser(u) ==
  /\ u # Admin
  /\ u \notin deleted
  /\ deleted' = deleted \cup {u}
  /\ DropRow(u)
  /\ UNCHANGED <<revoked_jtis, made, requests, history>>

Expire ==
  /\ expired < tokens
  /\ expired' = expired + 1
  /\ UNCHANGED <<tables, secrets, batches, tokens, sub, requests, history>>

\* The handler answers 4xx or 500, or dies.
Fail(r) ==
  /\ pc[r] # "idle"
  /\ Finish(r)
  /\ UNCHANGED <<tables, made, history>>

-----------------------------------------------------------------------------

Next ==
  \/ \E r \in Requests, u \in Users :
       \/ StartSetup(r, u)
       \/ \E c \in Known :
            \/ StartEnable(r, u, c)
            \/ StartDisableByTotp(r, u, c) \/ StartDisableByBackup(r, u, c)
  \/ \E r \in Requests, t \in 1..tokens : StartVerify(r, t)
  \/ \E r \in Requests, c \in Known : AcceptTotp(r, c) \/ FindBackupCode(r, c)
  \/ \E r \in Requests :
       \/ SetupWrite(r) \/ EnableWrite(r)
       \/ ConsumeBackupCode(r)
       \/ SpendMfaToken(r) \/ OpenSession(r)
       \/ DisableDelete(r)
       \/ Fail(r)
  \/ \E u \in Users : SignMfaToken(u) \/ DeleteUser(u)
  \/ Expire

Spec == Init /\ [][Next]_vars

-----------------------------------------------------------------------------
(* Properties. *)

\* Every variable stays in its type; only an account with a row has 2FA on or
\* backup codes (user_mfa).
TypeOK ==
  /\ deleted \subseteq Users
  /\ secret \in [Users -> 0..secrets]
  /\ enabled \subseteq Users
  /\ backup_codes \in [Users -> SUBSET BackupCodes]
  /\ \A u \in Users : secret[u] = 0 => u \notin enabled /\ backup_codes[u] = {}
  /\ revoked_jtis \subseteq 1..tokens
  /\ secrets \in 0..MaxSecrets
  /\ batches \in 0..MaxBatches
  /\ tokens \in 0..MaxTokens
  /\ sub \in [Token -> Users \cup {NoUser}]
  /\ expired \in 0..tokens
  /\ pc \in [Requests -> {"idle", "setup", "enable", "check", "consume", "spend",
                          "session", "delete"}]
  /\ op \in [Requests -> {"setup", "enable", "verify", "disable"}]
  /\ who \in [Requests -> Users \cup {NoUser}]
  /\ tok \in [Requests -> 0..tokens]
  /\ code \in [Requests -> TotpCodes \cup BackupCodes]
  /\ sessions \in [Token -> Nat]
  /\ uses \in [BackupCodes -> Nat]
  /\ confirmed \subseteq 1..secrets
  /\ doubled \in [tokens : SUBSET Token, codes : SUBSET BackupCodes]
  /\ raced \subseteq Users

\* A session was opened only for an mfa_token already on the blacklist, so a
\* failure after the code was accepted costs the token and never leaves it good
\* for a second session (verify: revokeJti before issueRefreshToken).
SessionsSpend == \A t \in Token : sessions[t] > 0 => t \in revoked_jtis

\* The mfa_tokens keep the promise of OneShot: however one is replayed, delayed or
\* retried it opens one session, and only two verifications of it that overlap
\* make it loose (isJtiRevoked and revokeJti are two statements with the code
\* check between them).
MfaTokens == INSTANCE OneShot WITH
  Tokens   <- Token,
  issued   <- 1..tokens,
  honoured <- sessions,
  loose    <- doubled.tokens

TokenPromise == MfaTokens!Spec

\* The backup codes keep it too, whether verify or disable accepts them: only two
\* requests that hold one at once make it loose (checkAnyCode reads and removes a
\* code in two statements).
Backups == INSTANCE OneShot WITH
  Tokens   <- BackupCodes,
  issued   <- CodesMade,
  honoured <- uses,
  loose    <- doubled.codes

CodePromise == Backups!Spec

\* A backup code that was accepted is never in a row again, whatever enrolments
\* follow and whatever other codes were being removed at the time.
UsedCodesGone ==
  \A c \in BackupCodes : uses[c] > 0 => \A u \in Users : c \notin backup_codes[u]

\* 2FA is on only with a secret whose live code was given to enable, unless a
\* setup and an enable of the account overlapped.
ConfirmedUnlessRaced ==
  \A u \in enabled : u \in raced \/ secret[u] \in confirmed

\* 2FA goes off only when a disable whose code was accepted deletes the row or
\* the account is deleted, unless a setup and an enable overlapped.
OffOnlyByCode ==
  [][\A u \in enabled \ enabled' :
       \/ \E r \in Waiting(u, "delete") : DisableDelete(r)
       \/ u \in deleted'
       \/ u \in raced]_vars

=============================================================================
