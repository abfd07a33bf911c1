------------------------------- MODULE Identity -------------------------------
(***************************************************************************)
(* Identity tokens: minted with every refresh token, checked by            *)
(* requireAuth, requireAdmin and the socket handshake, traded for server   *)
(* tokens, listed by logout, and void while the process runs with another  *)
(* key.  (src/src/services/tokens.js, config/keys.js, middleware/,         *)
(* the blacklist of services/sessions.js, logout and serverToken of        *)
(* controllers/authController.js.)                                         *)
(*                                                                         *)
(* Token t stands for the pair that login or refresh answers with, the JWT *)
(* and the refresh token; a server token has no second half.  The          *)
(* statements of one rotation are RefreshTokens' matter: here a refresh is *)
(* the SELECT that finds the token good and the writes that follow it.     *)
(***************************************************************************)
EXTENDS Naturals, FiniteSets

CONSTANTS
  Users,      \* accounts (users.id)
  NoUser,     \* "nobody"
  Admin,      \* ADMIN_UUID
  Requests,   \* HTTP requests and handshakes that can be in flight together
  MaxTokens,  \* bound: tokens ever minted
  MaxKeys     \* bound: keys there are to start the process with

ASSUME NobodyAssumption == NoUser \notin Users
ASSUME BoundsAssumption == MaxTokens \in Nat /\ MaxKeys \in Nat \ {0}

VARIABLES
  \* PostgreSQL
  account,    \* accounts that exist
  live,       \* tokens whose refresh token is not revoked
  listed,     \* tokens whose jti is in revoked_jtis
  \* tokens minted so far
  minted, kind, sub, root, signedBy,
  expired,    \* tokens 1..expired are past their time
  \* the process
  key,        \* the pair of keys that getKeys loaded
  pc, op,     \* a request's next step and its handler
  tok, ref,   \* the token in its header, and the one in its body or 0
  \* history, read by the properties alone
  forked,     \* sessions with a rotation of a token that was already revoked
  ended,      \* sessions that a logout revoked the one live token of
  out         \* tokens that a logout listed or whose time has passed

tables   == <<account, live, listed>>
tokens   == <<minted, kind, sub, root, signedBy, expired>>
requests == <<pc, op, tok, ref>>
history  == <<forked, ended, out>>
vars     == <<tables, tokens, key, requests, history>>

Token == 1..MaxTokens

\* Refreshes under way in a session, which is named by the token of its login.
Rotating(s) == {r \in Requests : pc[r] = "rotate" /\ root[ref[r]] = s}

-----------------------------------------------------------------------------

Init ==
  /\ account = Users
  /\ live = {} /\ listed = {}
  /\ minted = 0
  /\ kind = [t \in Token |-> "identity"]
  /\ sub = [t \in Token |-> NoUser]
  /\ root = [t \in Token |-> t]
  /\ signedBy = [t \in Token |-> 0]
  /\ expired = 0
  /\ key = 1
  /\ pc = [r \in Requests |-> "idle"]
  /\ op = [r \in Requests |-> "none"]
  /\ tok = [r \in Requests |-> 0]
  /\ ref = [r \in Requests |-> 0]
  /\ forked = {} /\ ended = {} /\ out = {}

\* A refused request and one that has not begun differ in nothing that matters.
Finish(r) ==
  /\ pc' = [pc EXCEPT ![r] = "idle"]
  /\ op' = [op EXCEPT ![r] = "none"]
  /\ tok' = [tok EXCEPT ![r] = 0]
  /\ ref' = [ref EXCEPT ![r] = 0]

\* signIdentityToken and signServerToken, with the key of the moment.
Sign(k, u, s) ==
  /\ minted < MaxTokens
  /\ minted' = minted + 1
  /\ kind' = [kind EXCEPT ![minted + 1] = k]
  /\ sub' = [sub EXCEPT ![minted + 1] = u]
  /\ root' = [root EXCEPT ![minted + 1] = s]
  /\ signedBy' = [signedBy EXCEPT ![minted + 1] = key]
  /\ UNCHANGED expired

-----------------------------------------------------------------------------
(* login and refresh, which no identity token guards *)

\* Mutant: refresh_tokens.user_id without its foreign key.
MutMayInsert(u) == TRUE

\* refresh_tokens.user_id references users(id).
MayInsert(u) == u \in account

\* mintTokenPair, at the end of register and login.
MintTokenPair(u) ==
  /\ MayInsert(u)
  /\ Sign("identity", u, minted + 1)
  /\ live' = live \cup {minted + 1}
  /\ UNCHANGED <<account, listed, key, requests, history>>

\* rotateRefreshToken finds the token unrevoked.
StartRefresh(r, f) ==
  /\ pc[r] = "idle"
  /\ f \in live
  /\ pc' = [pc EXCEPT ![r] = "rotate"]
  /\ ref' = [ref EXCEPT ![r] = f]
  /\ UNCHANGED <<tables, tokens, key, op, tok, history>>

\* The successor is inserted and signed for, and the presented token revoked.
Rotate(r) ==
  LET u == sub[ref[r]] IN
  /\ pc[r] = "rotate"
  /\ MayInsert(u)
  /\ Sign("identity", u, root[ref[r]])
  /\ live' = (live \ {ref[r]}) \cup {minted + 1}
  /\ forked' = IF ref[r] \in live THEN forked ELSE forked \cup {root[ref[r]]}
  /\ Finish(r)
  /\ UNCHANGED <<account, listed, key, ended, out>>

\* A replayed token or a password reset: revokeAllForUser.
RevokeAllForUser(u) ==
  /\ \E f \in live : sub[f] = u
  /\ live' = {f \in live : sub[f] # u}
  /\ UNCHANGED <<account, listed, tokens, key, requests, history>>

-----------------------------------------------------------------------------
(* requireAuth, requireAdmin and the handshake: signature, then blacklist *)

\* verifyIdentityToken: the one key in the local set signed it, it has not
\* expired, and its audience is the Federation, not a chat server.
Verifies(t) == signedBy[t] = key /\ t > expired /\ kind[t] = "identity"

\* The guarded handlers that touch tokens.  The others, the handshake among them,
\* only take req.userId from the token, and change nothing that is modelled here.
Handlers == {"logout", "serverToken"}

\* isJtiRevoked answers no.
Unlisted(t) == t \notin listed

\* What requireAuth, requireAdmin and the handshake ask of a token.
Accepted(t) == Verifies(t) /\ Unlisted(t)

\* Accepted, the handler runs; the blacklist's SELECT is the only await between.
Present(r, t, o, f) ==
  /\ pc[r] = "idle"
  /\ Accepted(t)
  /\ f # 0 => o = "logout" /\ kind[f] = "identity"
  /\ pc' = [pc EXCEPT ![r] = "run"]
  /\ op' = [op EXCEPT ![r] = o]
  /\ tok' = [tok EXCEPT ![r] = t]
  /\ ref' = [ref EXCEPT ![r] = f]
  /\ UNCHANGED <<tables, tokens, key, history>>

-----------------------------------------------------------------------------
(* The handlers *)

\* Mutant: the body's token is looked up and not revoked.
MutRevoked(f) == {}

\* The rows revokeRefreshToken sets revoked_at of.
Revoked(f) == {f}

\* revokeJti.
LogoutList(r) ==
  /\ pc[r] = "run" /\ op[r] = "logout"
  /\ listed' = listed \cup {tok[r]}
  /\ IF ref[r] = 0 THEN Finish(r)
                   ELSE /\ pc' = [pc EXCEPT ![r] = "revoke"]
                        /\ tok' = [tok EXCEPT ![r] = 0]
                        /\ UNCHANGED <<op, ref>>
  /\ out' = out \cup {tok[r]}
  /\ UNCHANGED <<account, live, tokens, key, forked, ended>>

\* revokeRefreshToken.  A refresh that is past its SELECT, or that has replaced
\* the token meanwhile, goes on.
LogoutRevoke(r) ==
  LET s == root[ref[r]] IN
  /\ pc[r] = "revoke"
  /\ live' = live \ Revoked(ref[r])
  /\ ended' = IF ref[r] \in live /\ Rotating(s) = {} THEN ended \cup {s} ELSE ended
  /\ Finish(r)
  /\ UNCHANGED <<account, listed, tokens, key, forked, out>>

\* serverToken: 404 for an account that is gone; between its SELECT and its
\* answer nothing of the program's state is touched.
ServerToken(r) ==
  LET t == tok[r] IN
  /\ pc[r] = "run" /\ op[r] = "serverToken"
  /\ sub[t] \in account
  /\ Sign("server", sub[t], root[t])
  /\ Finish(r)
  /\ UNCHANGED <<tables, key, history>>

\* deleteUser, by the admin: the refresh tokens go with the account, its JWTs
\* stay good.
DeleteUser(u) ==
  /\ u \in account \ {Admin}
  /\ account' = account \ {u}
  /\ live' = {f \in live : sub[f] # u}
  /\ UNCHANGED <<listed, tokens, key, requests, history>>

\* A handler is done, or a request is refused (401, 403, 404) or fails (500).
Leave(r) ==
  /\ pc[r] # "idle"
  /\ Finish(r)
  /\ UNCHANGED <<tables, tokens, key, history>>

-----------------------------------------------------------------------------
(* Time, and the process *)

\* An hour after it was minted an identity token expires; all live as long, so
\* they expire in order.  A server token's time is for its server to tell.
Expire ==
  /\ expired < minted
  /\ expired' = expired + 1
  /\ out' = out \cup {expired + 1}
  /\ UNCHANGED <<tables, minted, kind, sub, root, signedBy, key, requests, forked, ended>>

\* Mutant: the blacklist lives in memory.
MutKept(rows) == {}

\* revoked_jtis is a table, and nothing calls pruneRevokedJtis.
Kept(rows) == rows

\* The process ends and starts again with whatever JWT_PRIVATE_KEY holds: the same
\* key, a new one or an earlier one.  getKeys keeps that one alone, and the requests
\* in flight are cut off.
Restart ==
  /\ key' \in 1..MaxKeys
  /\ listed' = Kept(listed)
  /\ pc' = [r \in Requests |-> "idle"]
  /\ op' = [r \in Requests |-> "none"]
  /\ tok' = [r \in Requests |-> 0]
  /\ ref' = [r \in Requests |-> 0]
  /\ UNCHANGED <<account, live, tokens, history>>

Step(r) ==
  \/ Rotate(r)
  \/ LogoutList(r)
  \/ LogoutRevoke(r)
  \/ ServerToken(r)
  \/ Leave(r)

Next ==
  \/ \E u \in Users : MintTokenPair(u) \/ RevokeAllForUser(u) \/ DeleteUser(u)
  \/ \E r \in Requests, f \in 1..minted : StartRefresh(r, f)
  \/ \E r \in Requests, t \in 1..minted, o \in Handlers, f \in {0} \cup (1..minted) :
       Present(r, t, o, f)
  \/ \E r \in Requests : Step(r)
  \/ Expire
  \/ Restart

Spec == Init /\ [][Next]_vars

-----------------------------------------------------------------------------
(* Properties *)

\* Every variable has its type; only a logout has a token in its body, a pair's
\* refresh token is a pair's, and a request past the check has verified.
TypeOK ==
  /\ account \subseteq Users
  /\ minted \in 0..MaxTokens
  /\ live \subseteq {t \in 1..minted : kind[t] = "identity" /\ sub[t] \in account}
  /\ listed \subseteq 1..minted
  /\ kind \in [Token -> {"identity", "server"}]
  /\ sub \in [Token -> Users \cup {NoUser}]
  /\ root \in [Token -> Token]
  /\ signedBy \in [Token -> 0..MaxKeys]
  /\ expired \in 0..minted
  /\ key \in 1..MaxKeys
  /\ pc \in [Requests -> {"idle", "rotate", "run", "revoke"}]
  /\ op \in [Requests -> Handlers \cup {"none"}]
  /\ tok \in [Requests -> 0..minted]
  /\ ref \in [Requests -> 0..minted]
  /\ forked \subseteq Token /\ ended \subseteq Token /\ out \subseteq 1..minted
  /\ \A r \in Requests : (pc[r] = "run") = (tok[r] # 0)

\* A logout that revokes the live token of a session ends it for good: no later
\* refresh finds a token of it, unless one was past its SELECT at that moment or
\* two refreshes had forked the session before.
LogoutEndsSession ==
  \A t \in live : root[t] \in ended => root[t] \in forked

\* A refused token is accepted again in one case only: the process is started with
\* the key that signed it.  What a logout listed or time ran out for does not come
\* back even then, through any restarts and keys in between.
BackOnlyWithKey ==
  [][\A t \in 1..minted : ~Accepted(t) /\ Accepted(t)' =>
       /\ t \notin out
       /\ signedBy[t] = key' /\ key' # key]_vars

=============================================================================
