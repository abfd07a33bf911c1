----------------------------- MODULE EmailTokens -----------------------------
(***************************************************************************)
(* One-time links sent by e-mail (email_tokens): address verification and  *)
(* password reset, with the handlers of src/src/controllers/authController *)
(* that create and redeem them and the admin's changes of the account they *)
(* belong to.  A link is one step to redeem and a later step to act on.    *)
(*                                                                         *)
(* A token is named by its place in the order of the INSERTs.              *)
(***************************************************************************)
EXTENDS Naturals, FiniteSets

CONSTANTS
  Users,      \* accounts (users.id)
  NoUser,     \* "nobody"
  Addresses,  \* e-mail addresses
  NoAddress,  \* "no address"
  Admin,      \* ADMIN_UUID: the one account that cannot be deleted
  Requests,   \* HTTP requests that can be in flight together
  MaxTokens   \* bound: how many links are ever created

ASSUME NobodyAssumption == NoUser \notin Users /\ NoAddress \notin Addresses
ASSUME MaxTokensAssumption == MaxTokens \in Nat

VARIABLES
  \* PostgreSQL: users
  account,         \* "none" before register, "active", "deleted"
  email,           \* users.email
  email_verified,  \* users.email_verified
  password,        \* the reset link that set password_hash, 0 for register
  \* PostgreSQL: email_tokens
  issued,          \* how many rows were ever inserted
  rows,            \* the rows that exist
  user_id,         \* of each row
  purpose,         \* of each row
  used,            \* rows whose used_at is set
  lapsed,          \* rows past expires_at
  \* the process: one request each
  pc, who, tok, goal, addr,
  \* the mailboxes
  mailed,          \* links that arrived
  sentTo,          \* the address each one was sent to
  \* history, read by the properties alone
  held,            \* the addresses each account has had
  effects          \* how often each link was acted on

users    == <<account, email, email_verified, password>>
tokens   == <<issued, rows, user_id, purpose, used, lapsed>>
requests == <<pc, who, tok, goal, addr>>
mail     == <<mailed, sentTo>>
vars     == <<users, tokens, requests, mail, held, effects>>

Token    == 1..MaxTokens
Issued   == 1..issued
Purposes == {"verify", "reset"}

-----------------------------------------------------------------------------

Init ==
  /\ account = [u \in Users |-> "none"]
  /\ email = [u \in Users |-> NoAddress]
  /\ email_verified = [u \in Users |-> FALSE]
  /\ password = [u \in Users |-> 0]
  /\ issued = 0
  /\ rows = {}
  /\ user_id = [t \in Token |-> NoUser]
  /\ purpose = [t \in Token |-> "verify"]
  /\ used = {}
  /\ lapsed = {}
  /\ pc = [r \in Requests |-> "idle"]
  /\ who = [r \in Requests |-> NoUser]
  /\ tok = [r \in Requests |-> 0]
  /\ goal = [r \in Requests |-> "verify"]
  /\ addr = [r \in Requests |-> NoAddress]
  /\ mailed = {}
  /\ sentTo = [t \in Token |-> NoAddress]
  /\ held = [u \in Users |-> {}]
  /\ effects = [t \in Token |-> 0]

Finish(r) ==
  /\ pc' = [pc EXCEPT ![r] = "idle"]
  /\ who' = [who EXCEPT ![r] = NoUser]
  /\ tok' = [tok EXCEPT ![r] = 0]
  /\ goal' = [goal EXCEPT ![r] = "verify"]
  /\ addr' = [addr EXCEPT ![r] = NoAddress]

-----------------------------------------------------------------------------
(* Creating a link. *)

\* The account and the address a handler read, kept while it awaits the rest.
Begin(r, u, p, a) ==
  /\ pc' = [pc EXCEPT ![r] = "insert"]
  /\ who' = [who EXCEPT ![r] = u]
  /\ goal' = [goal EXCEPT ![r] = p]
  /\ addr' = [addr EXCEPT ![r] = a]
  /\ UNCHANGED tok

\* No other account has the address (users.email UNIQUE).
Free(a, u) == \A v \in Users \ {u} : email[v] # a

\* POST /api/auth/register: the INSERT INTO users, refused by UNIQUE when the
\* address was taken since the SELECT; sendVerificationEmail follows unawaited.
Register(r, u, a) ==
  /\ pc[r] = "idle"
  /\ account[u] = "none"
  /\ Free(a, u)
  /\ account' = [account EXCEPT ![u] = "active"]
  /\ email' = [email EXCEPT ![u] = a]
  /\ held' = [held EXCEPT ![u] = @ \cup {a}]
  /\ Begin(r, u, "verify", a)
  /\ UNCHANGED <<email_verified, password, tokens, mail, effects>>

\* POST /api/auth/verify-email/request
RequestEmailVerify(r, u) ==
  /\ pc[r] = "idle"
  /\ account[u] = "active"
  /\ ~email_verified[u]
  /\ Begin(r, u, "verify", email[u])
  /\ UNCHANGED <<users, tokens, mail, held, effects>>

\* Mutant: the SELECT is not restricted to the address.
MutRequestPasswordReset(r, u, a) ==
  /\ pc[r] = "idle"
  /\ account[u] = "active"
  /\ Begin(r, u, "reset", a)
  /\ UNCHANGED <<users, tokens, mail, held, effects>>

\* POST /api/auth/password-reset/request: an unknown address is answered alike
\* and changes nothing.
RequestPasswordReset(r, u, a) ==
  /\ pc[r] = "idle"
  /\ account[u] = "active"
  /\ email[u] = a
  /\ Begin(r, u, "reset", a)
  /\ UNCHANGED <<users, tokens, mail, held, effects>>

\* Mutant: the token is handed out before its row is there.
MutCreateEmailToken(r) ==
  /\ pc[r] = "insert"
  /\ issued < MaxTokens
  /\ tok' = [tok EXCEPT ![r] = issued + 1]
  /\ pc' = [pc EXCEPT ![r] = "send"]
  /\ UNCHANGED <<users, tokens, who, goal, addr, mail, held, effects>>

\* createEmailToken: refused by the foreign key once the account is gone.
CreateEmailToken(r) ==
  /\ pc[r] = "insert"
  /\ account[who[r]] = "active"
  /\ issued < MaxTokens
  /\ issued' = issued + 1
  /\ rows' = rows \cup {issued + 1}
  /\ user_id' = [user_id EXCEPT ![issued + 1] = who[r]]
  /\ purpose' = [purpose EXCEPT ![issued + 1] = goal[r]]
  /\ tok' = [tok EXCEPT ![r] = issued + 1]
  /\ pc' = [pc EXCEPT ![r] = "send"]
  /\ UNCHANGED <<users, used, lapsed, who, goal, addr, mail, held, effects>>

\* sendEmail, to the address read before the row was created.
SendEmail(r) ==
  /\ pc[r] = "send"
  /\ mailed' = mailed \cup {tok[r]}
  /\ sentTo' = [sentTo EXCEPT ![tok[r]] = addr[r]]
  /\ Finish(r)
  /\ UNCHANGED <<users, tokens, held, effects>>

-----------------------------------------------------------------------------
(* Redeeming a link. *)

\* Mutant: the UPDATE has no used_at IS NULL.
MutUnspent(t) == t \in rows \ lapsed

\* used_at IS NULL AND expires_at > NOW().
Unspent(t) == t \in rows \ (used \cup lapsed)

\* Mutant: the UPDATE does not look at the purpose.
MutRedeemable(t, p) == Unspent(t)

\* The WHERE clause of the UPDATE that sets used_at.
Redeemable(t, p) == Unspent(t) /\ purpose[t] = p

\* UPDATE ... RETURNING user_id: the test and the mark are one statement.
Redeem(r, t, p) ==
  /\ used' = used \cup {t}
  /\ pc' = [pc EXCEPT ![r] = "apply"]
  /\ who' = [who EXCEPT ![r] = user_id[t]]
  /\ tok' = [tok EXCEPT ![r] = t]
  /\ goal' = [goal EXCEPT ![r] = p]
  /\ UNCHANGED addr

\* POST /api/auth/verify-email/confirm and /password-reset/confirm.
ConfirmLink(r, t, p) ==
  /\ pc[r] = "idle"
  /\ Redeemable(t, p)
  /\ Redeem(r, t, p)
  /\ UNCHANGED <<users, issued, rows, user_id, purpose, lapsed, mail, held, effects>>

\* The second statement of confirmEmailVerify; no row of a deleted account.
ConfirmEmailVerify(r) ==
  /\ pc[r] = "apply" /\ goal[r] = "verify"
  /\ email_verified' = IF account[who[r]] = "active" THEN [email_verified EXCEPT ![who[r]] = TRUE]
                                                     ELSE email_verified
  /\ effects' = [effects EXCEPT ![tok[r]] = @ + 1]
  /\ Finish(r)
  /\ UNCHANGED <<account, email, password, tokens, mail, held>>

\* The second statement of confirmPasswordReset.
ConfirmPasswordReset(r) ==
  /\ pc[r] = "apply" /\ goal[r] = "reset"
  /\ password' = IF account[who[r]] = "active" THEN [password EXCEPT ![who[r]] = tok[r]]
                                               ELSE password
  /\ effects' = [effects EXCEPT ![tok[r]] = @ + 1]
  /\ Finish(r)
  /\ UNCHANGED <<account, email, email_verified, tokens, mail, held>>

-----------------------------------------------------------------------------
(* The admin, the clock and failures. *)

\* PATCH /api/admin/users/:id with an address: email_verified is left as it is.
UpdateUser(u, a) ==
  /\ account[u] = "active"
  /\ Free(a, u)
  /\ email' = [email EXCEPT ![u] = a]
  /\ held' = [held EXCEPT ![u] = @ \cup {a}]
  /\ UNCHANGED <<account, email_verified, password, tokens, requests, mail, effects>>

\* DELETE /api/admin/users/:id: the links go with the account, and its address
\* is free again.
DeleteUser(u) ==
  /\ u # Admin
  /\ account[u] = "active"
  /\ account' = [account EXCEPT ![u] = "deleted"]
  /\ email' = [email EXCEPT ![u] = NoAddress]
  /\ email_verified' = [email_verified EXCEPT ![u] = FALSE]
  /\ password' = [password EXCEPT ![u] = 0]
  /\ rows' = {t \in rows : user_id[t] # u}
  /\ UNCHANGED <<issued, user_id, purpose, used, lapsed, requests, mail, held, effects>>

Lapse(t) ==
  /\ t \in rows \ lapsed
  /\ lapsed' = lapsed \cup {t}
  /\ UNCHANGED <<users, issued, rows, user_id, purpose, used, requests, mail, held, effects>>

\* An error from PostgreSQL or from the mail service, a crash: the rest of the
\* handler is lost and nothing takes it up again.
Fail(r) ==
  /\ pc[r] # "idle"
  /\ Finish(r)
  /\ UNCHANGED <<users, tokens, mail, held, effects>>

-----------------------------------------------------------------------------

Next ==
  \/ \E r \in Requests, u \in Users :
       \/ RequestEmailVerify(r, u)
       \/ \E a \in Addresses : Register(r, u, a) \/ RequestPasswordReset(r, u, a)
  \/ \E r \in Requests, t \in mailed, p \in Purposes : ConfirmLink(r, t, p)
  \/ \E r \in Requests :
       \/ CreateEmailToken(r) \/ SendEmail(r)
       \/ ConfirmEmailVerify(r) \/ ConfirmPasswordReset(r)
       \/ Fail(r)
  \/ \E u \in Users, a \in Addresses : UpdateUser(u, a)
  \/ \E u \in Users : DeleteUser(u)
  \/ \E t \in Issued : Lapse(t)

Spec == Init /\ [][Next]_vars

-----------------------------------------------------------------------------
(* Properties. *)

\* Every variable stays in its type (users, email_tokens, the handlers' locals).
TypeOK ==
  /\ account \in [Users -> {"none", "active", "deleted"}]
  /\ email \in [Users -> Addresses \cup {NoAddress}]
  /\ email_verified \in [Users -> BOOLEAN]
  /\ password \in [Users -> 0..issued]
  /\ issued \in 0..MaxTokens
  /\ rows \subseteq Issued
  /\ user_id \in [Token -> Users \cup {NoUser}]
  /\ purpose \in [Token -> Purposes]
  /\ used \subseteq Issued
  /\ lapsed \subseteq Issued
  /\ pc \in [Requests -> {"idle", "insert", "send", "apply"}]
  /\ who \in [Requests -> Users \cup {NoUser}]
  /\ tok \in [Requests -> 0..issued]
  /\ goal \in [Requests -> Purposes]
  /\ addr \in [Requests -> Addresses \cup {NoAddress}]
  /\ mailed \subseteq Issued
  /\ sentTo \in [Token -> Addresses \cup {NoAddress}]
  /\ held \in [Users -> SUBSET Addresses]
  /\ effects \in [Token -> Nat]

\* The links keep the promise of OneShot, none of them ever loose: however often one is opened, by
\* however many requests at once and whatever fails half way, the account is
\* written for it at most once (confirmEmailVerify, confirmPasswordReset).
Links == INSTANCE OneShot WITH
  Tokens   <- Token,
  issued   <- Issued,
  honoured <- effects,
  loose    <- {}

LinkPromise == Links!Spec

\* A link reaches only a mailbox its account has had, also when the admin moves
\* an address from one account to another while the link is being created
\* (sendVerificationEmail, requestPasswordReset).
OwnMailOnly == \A t \in mailed : sentTo[t] \in held[user_id[t]]

\* A password that is not the one of register was set through a reset link of
\* that very account, now spent, that was sent to an address the account had;
\* and an address was verified through a verification link likewise.
Earned(u, t, p) ==
  /\ t \in used \cap mailed
  /\ purpose[t] = p
  /\ user_id[t] = u
  /\ sentTo[t] \in held[u]

ChangesEarned ==
  \A u \in Users :
    /\ password[u] # 0 => Earned(u, password[u], "reset")
    /\ email_verified[u] => \E t \in used : Earned(u, t, "verify")

=============================================================================
