---------------------------- MODULE RefreshTokens ----------------------------
(***************************************************************************)
(* Rotating refresh tokens (src/src/services/sessions.js) and the handlers *)
(* that mint, rotate and revoke them.  Every statement against PostgreSQL  *)
(* is an await, so one request is a sequence of atomic steps and the steps *)
(* of two requests interleave.                                             *)
(*                                                                         *)
(* A token is named by its place in the order of the INSERTs: 1 is the     *)
(* first row ever issued, 0 is "no token".                                 *)
(***************************************************************************)
EXTENDS Naturals, FiniteSets

CONSTANTS
  Users,      \* accounts (users.id)
  NoUser,     \* "no account yet"
  Admin,      \* ADMIN_UUID: the one account that cannot be deleted
  Requests,   \* HTTP requests that can be in flight together
  MaxTokens   \* bound: how many refresh tokens are ever issued

ASSUME NoUserAssumption == NoUser \notin Users
ASSUME MaxTokensAssumption == MaxTokens \in Nat

VARIABLES
  \* PostgreSQL
  account,      \* users: "none" before register, "active", "deleted"
  issued,       \* how many rows were ever inserted in refresh_tokens
  rows,         \* the rows of refresh_tokens that exist
  owner,        \* user_id of each row
  revoked,      \* the rows whose revoked_at is set
  replaced_by,  \* replaced_by of each row, 0 for NULL
  expired,      \* rows 1..expired are past expires_at: one lifetime for all
  \* the process: one request each
  pc, who, tok, next,
  \* the clients
  delivered,    \* tokens some client received in a response
  \* history, read by the properties alone
  parent,       \* the token each one was issued to replace, 0 after a login
  family,       \* the login token each one descends from
  overlapped    \* families one of whose tokens was in two rotations at once

database == <<account, issued, rows, owner, revoked, replaced_by, expired>>
requests == <<pc, who, tok, next>>
history  == <<parent, family, overlapped>>
vars     == <<database, requests, delivered, history>>

Token  == 1..MaxTokens
Issued == 1..issued

AccountStates == {"none", "active", "deleted"}
Labels == {"idle", "mint", "select", "insert", "update", "account", "sweep", "reply"}

\* What the rows say of a token: known, still usable.
Unrevoked(t) == t \in rows \ revoked

\* A rotation that has accepted its token and has not revoked it yet.
Rotating(r) == pc[r] \in {"insert", "update"}

-----------------------------------------------------------------------------
(* The initial state: an empty schema and an idle process. *)

Init ==
  /\ account = [u \in Users |-> "none"]
  /\ issued = 0
  /\ rows = {}
  /\ owner = [t \in Token |-> NoUser]
  /\ revoked = {}
  /\ replaced_by = [t \in Token |-> 0]
  /\ expired = 0
  /\ pc = [r \in Requests |-> "idle"]
  /\ who = [r \in Requests |-> NoUser]
  /\ tok = [r \in Requests |-> 0]
  /\ next = [r \in Requests |-> 0]
  /\ delivered = {}
  /\ parent = [t \in Token |-> 0]
  /\ family = [t \in Token |-> 0]
  /\ overlapped = {}

-----------------------------------------------------------------------------
(* The statements of sessions.js. *)

\* Mutant: the row does not depend on the account's (no foreign key).
MutIssueRefreshToken(u, p, root) ==
  /\ issued < MaxTokens
  /\ issued' = issued + 1
  /\ rows' = rows \cup {issued + 1}
  /\ owner' = [owner EXCEPT ![issued + 1] = u]
  /\ parent' = [parent EXCEPT ![issued + 1] = p]
  /\ family' = [family EXCEPT ![issued + 1] = root]

\* issueRefreshToken: the INSERT, refused by the foreign key on user_id once
\* the account is gone.  p and root only feed the history.
IssueRefreshToken(u, p, root) ==
  /\ issued < MaxTokens
  /\ account[u] = "active"
  /\ issued' = issued + 1
  /\ rows' = rows \cup {issued + 1}
  /\ owner' = [owner EXCEPT ![issued + 1] = u]
  /\ parent' = [parent EXCEPT ![issued + 1] = p]
  /\ family' = [family EXCEPT ![issued + 1] = root]

\* Mutant: the UPDATE revokes the successor in place of the presented token.
MutRetire(old, new) ==
  /\ revoked' = revoked \cup ({new} \cap rows)
  /\ replaced_by' = IF old \in rows THEN [replaced_by EXCEPT ![old] = new] ELSE replaced_by

\* The UPDATE of a rotation, which does nothing once the row was deleted.
Retire(old, new) ==
  /\ revoked' = revoked \cup ({old} \cap rows)
  /\ replaced_by' = IF old \in rows THEN [replaced_by EXCEPT ![old] = new] ELSE replaced_by

RevokeAllForUser(u) == revoked' = revoked \cup {t \in rows : owner[t] = u}

RevokeRefreshToken(t) == revoked' = revoked \cup ({t} \cap rows)

\* The handler answers without a token, or dies: nothing of it is left.
Finish(r) ==
  /\ pc' = [pc EXCEPT ![r] = "idle"]
  /\ who' = [who EXCEPT ![r] = NoUser]
  /\ tok' = [tok EXCEPT ![r] = 0]
  /\ next' = [next EXCEPT ![r] = 0]

-----------------------------------------------------------------------------
(* POST /api/auth/register, /login and /mfa/verify: mintTokenPair. *)

\* register: the INSERT INTO users, then the pair.
StartRegister(r, u) ==
  /\ pc[r] = "idle"
  /\ account[u] = "none"
  /\ account' = [account EXCEPT ![u] = "active"]
  /\ pc' = [pc EXCEPT ![r] = "mint"]
  /\ who' = [who EXCEPT ![r] = u]
  /\ UNCHANGED <<issued, rows, owner, revoked, replaced_by, expired, tok, next, delivered, history>>

\* login or mfa/verify: the SELECT found the account and the credentials hold.
StartLogin(r, u) ==
  /\ pc[r] = "idle"
  /\ account[u] = "active"
  /\ pc' = [pc EXCEPT ![r] = "mint"]
  /\ who' = [who EXCEPT ![r] = u]
  /\ UNCHANGED <<database, tok, next, delivered, history>>

Mint(r) ==
  /\ pc[r] = "mint"
  /\ IssueRefreshToken(who[r], 0, issued + 1)
  /\ next' = [next EXCEPT ![r] = issued + 1]
  /\ pc' = [pc EXCEPT ![r] = "reply"]
  /\ UNCHANGED <<account, revoked, replaced_by, expired, who, tok, delivered, overlapped>>

\* The response arrives: the only copy of the plaintext is now the client's.
Reply(r) ==
  /\ pc[r] = "reply"
  /\ delivered' = delivered \cup {next[r]}
  /\ Finish(r)
  /\ UNCHANGED <<database, history>>

-----------------------------------------------------------------------------
(* POST /api/auth/refresh: rotateRefreshToken, then the account again. *)

\* A client presents a token it once received, rotated or revoked ones included.
StartRefresh(r, t) ==
  /\ pc[r] = "idle"
  /\ pc' = [pc EXCEPT ![r] = "select"]
  /\ tok' = [tok EXCEPT ![r] = t]
  /\ UNCHANGED <<database, who, next, delivered, history>>

\* SELECT: no such row, or a live row past its lifetime.
Refusable(t) == t \notin rows \/ (Unrevoked(t) /\ t <= expired)

RefuseToken(r) ==
  /\ pc[r] = "select"
  /\ Refusable(tok[r])
  /\ Finish(r)
  /\ UNCHANGED <<database, delivered, history>>

\* SELECT: revoked_at is set, so the whole account is to be swept.
DetectReuse(r) ==
  /\ pc[r] = "select"
  /\ tok[r] \in rows \cap revoked
  /\ pc' = [pc EXCEPT ![r] = "sweep"]
  /\ who' = [who EXCEPT ![r] = owner[tok[r]]]
  /\ UNCHANGED <<database, tok, next, delivered, history>>

Sweep(r) ==
  /\ pc[r] = "sweep"
  /\ RevokeAllForUser(who[r])
  /\ Finish(r)
  /\ UNCHANGED <<account, issued, rows, owner, replaced_by, expired, delivered, history>>

\* Mutant: revoked_at is not looked at.
MutAcceptable(t) == t \in rows /\ t > expired

\* SELECT: the token may be rotated.
Acceptable(t) == Unrevoked(t) /\ t > expired

AcceptToken(r) ==
  /\ pc[r] = "select"
  /\ Acceptable(tok[r])
  /\ pc' = [pc EXCEPT ![r] = "insert"]
  /\ who' = [who EXCEPT ![r] = owner[tok[r]]]
  /\ overlapped' = overlapped \cup
       {family[tok[q]] : q \in {q \in Requests \ {r} : Rotating(q) /\ tok[q] = tok[r]}}
  /\ UNCHANGED <<database, tok, next, delivered, parent, family>>

InsertNext(r) ==
  /\ pc[r] = "insert"
  /\ IssueRefreshToken(who[r], tok[r], family[tok[r]])
  /\ next' = [next EXCEPT ![r] = issued + 1]
  /\ pc' = [pc EXCEPT ![r] = "update"]
  /\ UNCHANGED <<account, revoked, replaced_by, expired, who, tok, delivered, overlapped>>

RetireRow(r) ==
  /\ pc[r] = "update"
  /\ Retire(tok[r], next[r])
  /\ pc' = [pc EXCEPT ![r] = "account"]
  /\ UNCHANGED <<account, issued, rows, owner, expired, who, tok, next, delivered, history>>

\* The users row is still there: sign the identity token and answer.
CheckAccount(r) ==
  /\ pc[r] = "account"
  /\ account[who[r]] = "active"
  /\ pc' = [pc EXCEPT ![r] = "reply"]
  /\ UNCHANGED <<database, who, tok, next, delivered, history>>

RefuseDeleted(r) ==
  /\ pc[r] = "account"
  /\ account[who[r]] = "deleted"
  /\ Finish(r)
  /\ UNCHANGED <<database, delivered, history>>

-----------------------------------------------------------------------------
(* The other handlers that end sessions, the clock and failures. *)

\* POST /api/auth/logout with a refresh token in its body.
Logout(t) ==
  /\ RevokeRefreshToken(t)
  /\ UNCHANGED <<account, issued, rows, owner, replaced_by, expired, requests, delivered, history>>

\* POST /api/auth/password-reset/confirm: its one statement on these tables.
ConfirmPasswordReset(u) ==
  /\ account[u] = "active"
  /\ RevokeAllForUser(u)
  /\ UNCHANGED <<account, issued, rows, owner, replaced_by, expired, requests, delivered, history>>

\* DELETE /api/admin/users/:id: the rows go with the account (ON DELETE CASCADE).
DeleteUser(u) ==
  /\ u # Admin
  /\ account[u] = "active"
  /\ account' = [account EXCEPT ![u] = "deleted"]
  /\ rows' = {t \in rows : owner[t] # u}
  /\ UNCHANGED <<issued, owner, revoked, replaced_by, expired, requests, delivered, history>>

Expire ==
  /\ expired < issued
  /\ expired' = expired + 1
  /\ UNCHANGED <<account, issued, rows, owner, revoked, replaced_by, requests, delivered, history>>

\* An error from PostgreSQL (answered 500), a lost connection, a crash.
Fail(r) ==
  /\ pc[r] # "idle"
  /\ Finish(r)
  /\ UNCHANGED <<database, delivered, history>>

-----------------------------------------------------------------------------

\* Every step but the sweep of a password reset.
Handlers ==
  \/ \E r \in Requests, u \in Users : StartRegister(r, u) \/ StartLogin(r, u)
  \/ \E r \in Requests, t \in delivered : StartRefresh(r, t)
  \/ \E r \in Requests :
       \/ Mint(r) \/ Reply(r)
       \/ RefuseToken(r) \/ DetectReuse(r) \/ Sweep(r)
       \/ AcceptToken(r) \/ InsertNext(r) \/ RetireRow(r)
       \/ CheckAccount(r) \/ RefuseDeleted(r)
       \/ Fail(r)
  \/ \E t \in delivered : Logout(t)
  \/ \E u \in Users : DeleteUser(u)
  \/ Expire

Next == Handlers \/ \E u \in Users : ConfirmPasswordReset(u)

Spec == Init /\ [][Next]_vars

-----------------------------------------------------------------------------
(* Properties. *)

Typed ==
  /\ account \in [Users -> AccountStates]
  /\ issued \in 0..MaxTokens
  /\ rows \subseteq Issued
  /\ owner \in [Token -> Users \cup {NoUser}]
  /\ revoked \subseteq Issued
  /\ replaced_by \in [Token -> 0..issued]
  /\ expired \in 0..issued
  /\ pc \in [Requests -> Labels]
  /\ who \in [Requests -> Users \cup {NoUser}]
  /\ tok \in [Requests -> 0..issued]
  /\ next \in [Requests -> 0..issued]
  /\ delivered \subseteq Issued
  /\ parent \in [Token -> 0..issued]
  /\ family \in [Token -> 0..issued]
  /\ overlapped \subseteq Issued

\* No row outlives its account.
RowsOwned == \A t \in rows : account[owner[t]] = "active"

\* Every variable stays in its type, no field of a row or of a request names a
\* token that was never issued, and no row is left or comes back behind a
\* deleted account, also when a login or a rotation of it is half way
\* (DELETE /api/admin/users/:id against issueRefreshToken).
TypeOK == Typed /\ RowsOwned

\* The tokens of a session that a client holds and the server still honours.
Heads(f) == {t \in delivered : Unrevoked(t) /\ family[t] = f}

\* A session has one usable token at a time, however its clients retry and
\* whatever fails half way: only two rotations of one token that overlap can
\* give it two (rotateRefreshToken reads revoked_at before it writes it).
OneHeadUnlessOverlapped ==
  \A f \in Issued \ overlapped : Cardinality(Heads(f)) <= 1

\* The token a client received is never alive beside the one it replaces: the
\* UPDATE of rotateRefreshToken comes before the response of refresh.
RetiredBeforeHandout ==
  \A t \in delivered : parent[t] # 0 => ~Unrevoked(parent[t])

\* replaced_by links a revoked row to a later token of the same account that
\* was issued from it, also when two rotations of that row overlap.
RotationChain ==
  \A t \in Issued : replaced_by[t] # 0 =>
    /\ t \in revoked
    /\ replaced_by[t] > t
    /\ parent[replaced_by[t]] = t
    /\ owner[replaced_by[t]] = owner[t]
    /\ family[replaced_by[t]] = family[t]

\* A session is over: every row of it is revoked, expired or deleted and no
\* rotation of it runs.
Over(f) ==
  /\ \A t \in rows : family[t] = f => t \in revoked \/ t <= expired
  /\ \A r \in Requests : Rotating(r) => family[tok[r]] # f

\* What a client of session f can still trade for a new pair.
Usable(f) == {t \in Heads(f) : t > expired}

Opened == {family[t] : t \in Issued}
Closed == {f \in Opened : Over(f)}

\* The sessions keep the promise of Session: no replay, retry, failure or late
\* step of another request gives a session a second usable token (unless two
\* rotations of it overlapped), makes a token work that had stopped working, or
\* brings back a session that is over (sessions.js, refresh, logout).
Sessions == INSTANCE Session WITH
  Tokens <- Token,
  opened <- Opened,
  closed <- Closed,
  loose  <- overlapped,
  given  <- delivered,
  usable <- [f \in Token |-> Usable(f)]

SessionPromise == Sessions!Spec

\* What sessions.js:9-12 promises: each use of a token revokes it and issues
\* one new token, so no two tokens in clients' hands replace the same one.
OneSuccessor ==
  \A s, t \in delivered : parent[s] = parent[t] /\ parent[s] # 0 => s = t

=============================================================================
