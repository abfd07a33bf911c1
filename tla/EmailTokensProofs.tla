-------------------------- MODULE EmailTokensProofs --------------------------
(***************************************************************************)
(* Proofs about EmailTokens for any accounts, addresses, requests and      *)
(* number of links: the type invariant, where links go, what changes an    *)
(* account, and that the links implement OneShot.                          *)
(***************************************************************************)
EXTENDS EmailTokens, TLAPS

\* A request that creates a link: what it read and what it inserted.
CreatorOK(r) ==
  /\ pc[r] \in {"insert", "send"} => who[r] \in Users /\ addr[r] \in held[who[r]]
  /\ pc[r] = "send" => /\ tok[r] \in Issued
                       /\ user_id[tok[r]] = who[r]

\* A request between the two statements of a confirmation: the link is spent
\* and nothing was done for it yet.
RedeemerOK(r) ==
  pc[r] = "apply" =>
    /\ tok[r] \in used \cap mailed
    /\ user_id[tok[r]] = who[r]
    /\ purpose[tok[r]] = goal[r]
    /\ effects[tok[r]] = 0

\* No two confirmations hold the same link.
RedeemersApart ==
  \A q, r \in Requests : pc[q] = "apply" /\ pc[r] = "apply" /\ tok[q] = tok[r] => q = r

\* Only a spent link was acted on.
OnlySpentActed == \A t \in Token : effects[t] # 0 => t \in used

\* An account that can ask for a link has had the address it is sent to.
AddressHeld == \A u \in Users : account[u] = "active" => email[u] \in held[u]

\* Every row belongs to an account.
RowsOwned == \A t \in Issued : user_id[t] \in Users

IInv ==
  /\ TypeOK
  /\ RowsOwned
  /\ AddressHeld
  /\ \A r \in Requests : CreatorOK(r) /\ RedeemerOK(r)
  /\ RedeemersApart
  /\ OnlySpentActed
  /\ OwnMailOnly
  /\ ChangesEarned

-----------------------------------------------------------------------------
(* Steps of one request leave the others alone. *)

\* The locals of every other request.
Others(r) ==
  \A q \in Requests \ {r} :
    /\ pc'[q] = pc[q] /\ who'[q] = who[q] /\ tok'[q] = tok[q]
    /\ goal'[q] = goal[q] /\ addr'[q] = addr[q]

LEMMA FinishLocals ==
  ASSUME TypeOK, NEW r \in Requests, Finish(r), issued' = issued
  PROVE  /\ pc' \in [Requests -> {"idle", "insert", "send", "apply"}]
         /\ who' \in [Requests -> Users \cup {NoUser}]
         /\ tok' \in [Requests -> 0..issued']
         /\ goal' \in [Requests -> Purposes]
         /\ addr' \in [Requests -> Addresses \cup {NoAddress}]
         /\ pc'[r] = "idle" /\ Others(r)
BY DEF TypeOK, Finish, Others, Purposes

LEMMA BeginLocals ==
  ASSUME TypeOK, NEW r \in Requests, NEW u \in Users, NEW p \in Purposes, NEW a \in Addresses,
         Begin(r, u, p, a), issued' = issued
  PROVE  /\ pc' \in [Requests -> {"idle", "insert", "send", "apply"}]
         /\ who' \in [Requests -> Users \cup {NoUser}]
         /\ tok' \in [Requests -> 0..issued']
         /\ goal' \in [Requests -> Purposes]
         /\ addr' \in [Requests -> Addresses \cup {NoAddress}]
         /\ pc'[r] = "insert" /\ who'[r] = u /\ addr'[r] = a /\ Others(r)
BY DEF TypeOK, Begin, Others, Purposes

-----------------------------------------------------------------------------
(* Requests that start. *)

LEMMA RegisterStep ==
  ASSUME IInv, NEW r \in Requests, NEW u \in Users, NEW a \in Addresses, Register(r, u, a)
  PROVE  IInv'
<1>0. /\ TypeOK /\ RowsOwned /\ AddressHeld /\ RedeemersApart /\ OnlySpentActed /\ OwnMailOnly
      /\ ChangesEarned
      /\ \A q \in Requests : CreatorOK(q) /\ RedeemerOK(q)
  BY DEF IInv
<1>l. /\ pc' \in [Requests -> {"idle", "insert", "send", "apply"}]
      /\ who' \in [Requests -> Users \cup {NoUser}]
      /\ tok' \in [Requests -> 0..issued']
      /\ goal' \in [Requests -> Purposes]
      /\ addr' \in [Requests -> Addresses \cup {NoAddress}]
      /\ pc'[r] = "insert" /\ who'[r] = u /\ addr'[r] = a /\ Others(r)
  BY <1>0, BeginLocals DEF Register, tokens, Purposes
<1>h. /\ held' \in [Users -> SUBSET Addresses]
      /\ \A v \in Users : held[v] \subseteq held'[v]
      /\ a \in held'[u]
  BY <1>0 DEF TypeOK, Register
<1>1. TypeOK'
  <2>1. account' \in [Users -> {"none", "active", "deleted"}]
    BY <1>0 DEF TypeOK, Register
  <2>2. email' \in [Users -> Addresses \cup {NoAddress}]
    BY <1>0 DEF TypeOK, Register
  <2> QED BY <1>0, <1>l, <1>h, <2>1, <2>2 DEF TypeOK, Register, tokens, mail, Issued
<1>2. RowsOwned'
  BY <1>0 DEF Register, RowsOwned, tokens, Issued
<1>3. \A q \in Requests : CreatorOK(q)' /\ RedeemerOK(q)'
  <2> TAKE q \in Requests
  <2>1. CASE q = r
    BY <1>l, <1>h, <2>1 DEF CreatorOK, RedeemerOK
  <2>2. CASE q # r
    BY <1>0, <1>l, <1>h, <2>2 DEF CreatorOK, RedeemerOK, Others, Register, tokens, mail, Issued
  <2> QED BY <2>1, <2>2
<1>4. RedeemersApart'
  BY <1>0, <1>l DEF RedeemersApart, Others
<1>5. OnlySpentActed'
  BY <1>0 DEF OnlySpentActed, Register, tokens
<1>6. OwnMailOnly' /\ ChangesEarned'
  BY <1>0, <1>h DEF OwnMailOnly, ChangesEarned, Earned, Register, tokens, mail, TypeOK, RowsOwned, Issued
<1>7. AddressHeld'
  BY <1>0, <1>h DEF AddressHeld, Register, TypeOK
<1> QED BY <1>1, <1>2, <1>3, <1>4, <1>5, <1>6, <1>7 DEF IInv

\* requestEmailVerify and requestPasswordReset, once the account was read.
LEMMA RequestLinkStep ==
  ASSUME IInv, NEW r \in Requests, NEW u \in Users, NEW p \in Purposes,
         account[u] = "active", Begin(r, u, p, email[u]),
         UNCHANGED <<users, tokens, mail, held, effects>>
  PROVE  IInv'
<1>0. /\ TypeOK /\ RowsOwned /\ AddressHeld /\ RedeemersApart /\ OnlySpentActed /\ OwnMailOnly
      /\ ChangesEarned
      /\ \A q \in Requests : CreatorOK(q) /\ RedeemerOK(q)
  BY DEF IInv
<1>a. email[u] \in Addresses /\ email[u] \in held[u]
  BY <1>0 DEF AddressHeld, TypeOK
<1>l. /\ pc' \in [Requests -> {"idle", "insert", "send", "apply"}]
      /\ who' \in [Requests -> Users \cup {NoUser}]
      /\ tok' \in [Requests -> 0..issued']
      /\ goal' \in [Requests -> Purposes]
      /\ addr' \in [Requests -> Addresses \cup {NoAddress}]
      /\ pc'[r] = "insert" /\ who'[r] = u /\ addr'[r] = email[u] /\ Others(r)
  BY <1>0, <1>a, BeginLocals DEF tokens
<1>1. TypeOK'
  BY <1>0, <1>l DEF TypeOK, users, tokens, mail, Issued
<1>2. RowsOwned' /\ AddressHeld' /\ OnlySpentActed' /\ OwnMailOnly' /\ ChangesEarned'
  BY <1>0 DEF RowsOwned, AddressHeld, OnlySpentActed, OwnMailOnly, ChangesEarned, Earned,
              users, tokens, mail, Issued
<1>3. \A q \in Requests : CreatorOK(q)' /\ RedeemerOK(q)'
  BY <1>0, <1>a, <1>l DEF CreatorOK, RedeemerOK, Others, tokens, mail, Issued
<1>4. RedeemersApart'
  BY <1>0, <1>l DEF RedeemersApart, Others
<1> QED BY <1>1, <1>2, <1>3, <1>4 DEF IInv

LEMMA ConfirmLinkStep ==
  ASSUME IInv, NEW r \in Requests, NEW t \in mailed, NEW p \in Purposes, ConfirmLink(r, t, p)
  PROVE  IInv'
<1>0. /\ TypeOK /\ RowsOwned /\ AddressHeld /\ RedeemersApart /\ OnlySpentActed /\ OwnMailOnly
      /\ ChangesEarned
      /\ \A q \in Requests : CreatorOK(q) /\ RedeemerOK(q)
  BY DEF IInv
<1>t. /\ t \in Issued /\ t \in Token /\ t \notin used /\ purpose[t] = p
      /\ effects[t] = 0 /\ user_id[t] \in Users
  <2>1. t \in Issued /\ t \in Token
    BY <1>0, MaxTokensAssumption DEF TypeOK, Issued, Token
  <2> QED BY <1>0, <2>1
          DEF ConfirmLink, Redeemable, Unspent, OnlySpentActed, RowsOwned
<1>l. /\ pc' = [pc EXCEPT ![r] = "apply"]
      /\ who' = [who EXCEPT ![r] = user_id[t]]
      /\ tok' = [tok EXCEPT ![r] = t]
      /\ goal' = [goal EXCEPT ![r] = p]
      /\ addr' = addr
      /\ used' = used \cup {t}
  BY DEF ConfirmLink, Redeem
<1>1. TypeOK'
  BY <1>0, <1>t, <1>l DEF TypeOK, ConfirmLink, users, mail, Issued
<1>2. RowsOwned' /\ AddressHeld' /\ OwnMailOnly'
  BY <1>0 DEF RowsOwned, AddressHeld, OwnMailOnly, ConfirmLink, users, mail, Issued
<1>3. OnlySpentActed' /\ ChangesEarned'
  BY <1>0, <1>l DEF OnlySpentActed, ChangesEarned, Earned, ConfirmLink, users, mail
<1>4. \A q \in Requests : CreatorOK(q)' /\ RedeemerOK(q)'
  <2> TAKE q \in Requests
  <2>1. CASE q = r
    BY <1>0, <1>t, <1>l, <2>1 DEF TypeOK, CreatorOK, RedeemerOK, ConfirmLink, mail
  <2>2. CASE q # r
    BY <1>0, <1>l, <2>2 DEF TypeOK, CreatorOK, RedeemerOK, ConfirmLink, mail, Issued
  <2> QED BY <2>1, <2>2
<1>5. RedeemersApart'
  BY <1>0, <1>t, <1>l DEF RedeemersApart, RedeemerOK, TypeOK
<1> QED BY <1>1, <1>2, <1>3, <1>4, <1>5 DEF IInv

-----------------------------------------------------------------------------
(* Requests that go on. *)

LEMMA CreateEmailTokenStep ==
  ASSUME IInv, NEW r \in Requests, CreateEmailToken(r)
  PROVE  IInv'
<1>0. /\ TypeOK /\ RowsOwned /\ AddressHeld /\ RedeemersApart /\ OnlySpentActed /\ OwnMailOnly
      /\ ChangesEarned
      /\ \A q \in Requests : CreatorOK(q) /\ RedeemerOK(q)
  BY DEF IInv
<1>n. /\ issued + 1 \in Token /\ issued + 1 \notin Issued
      /\ issued + 1 \notin used /\ issued + 1 \notin mailed
      /\ Issued' = Issued \cup {issued + 1} /\ issued' \in 0..MaxTokens
  BY <1>0, MaxTokensAssumption DEF TypeOK, CreateEmailToken, Token, Issued
<1>w. who[r] \in Users /\ addr[r] \in held[who[r]]
  BY <1>0 DEF CreatorOK, CreateEmailToken
<1>l. /\ pc' = [pc EXCEPT ![r] = "send"]
      /\ tok' = [tok EXCEPT ![r] = issued + 1]
      /\ who' = who /\ goal' = goal /\ addr' = addr
      /\ user_id' = [user_id EXCEPT ![issued + 1] = who[r]]
      /\ purpose' = [purpose EXCEPT ![issued + 1] = goal[r]]
      /\ rows' = rows \cup {issued + 1}
      /\ UNCHANGED <<users, used, lapsed, mail, held, effects>>
  BY DEF CreateEmailToken
<1>k. \A t \in Issued : user_id'[t] = user_id[t] /\ purpose'[t] = purpose[t]
  BY <1>0, <1>n, <1>l DEF TypeOK
<1>1. TypeOK'
  <2>1. /\ password' \in [Users -> 0..issued']
        /\ tok' \in [Requests -> 0..issued']
    BY <1>0, <1>n, <1>l DEF TypeOK, users, CreateEmailToken
  <2>2. /\ rows' \subseteq Issued' /\ used' \subseteq Issued' /\ lapsed' \subseteq Issued'
        /\ mailed' \subseteq Issued'
    BY <1>0, <1>n, <1>l DEF TypeOK, mail
  <2>3. /\ user_id' \in [Token -> Users \cup {NoUser}]
        /\ purpose' \in [Token -> Purposes]
        /\ pc' \in [Requests -> {"idle", "insert", "send", "apply"}]
    BY <1>0, <1>w, <1>l DEF TypeOK
  <2> QED BY <1>0, <1>n, <1>l, <2>1, <2>2, <2>3 DEF TypeOK, users, mail
<1>2. RowsOwned'
  BY <1>0, <1>n, <1>k, <1>w, <1>l DEF RowsOwned, TypeOK
<1>3. AddressHeld' /\ OnlySpentActed'
  BY <1>0, <1>l DEF AddressHeld, OnlySpentActed, users
<1>4. OwnMailOnly' /\ ChangesEarned'
  BY <1>0, <1>k, <1>l DEF OwnMailOnly, ChangesEarned, Earned, TypeOK, users, mail
<1>5. \A q \in Requests : CreatorOK(q)' /\ RedeemerOK(q)'
  <2> TAKE q \in Requests
  <2>1. CASE q = r
    BY <1>0, <1>n, <1>w, <1>l, <2>1 DEF TypeOK, CreatorOK, RedeemerOK
  <2>2. CASE q # r
    <3>1. pc'[q] = pc[q] /\ tok'[q] = tok[q]
      BY <1>0, <1>l, <2>2 DEF TypeOK
    <3> QED BY <1>0, <1>n, <1>k, <1>l, <3>1 DEF TypeOK, CreatorOK, RedeemerOK, mail
  <2> QED BY <2>1, <2>2
<1>6. RedeemersApart'
  BY <1>0, <1>l DEF RedeemersApart, TypeOK
<1> QED BY <1>1, <1>2, <1>3, <1>4, <1>5, <1>6 DEF IInv

LEMMA SendEmailStep ==
  ASSUME IInv, NEW r \in Requests, SendEmail(r)
  PROVE  IInv'
<1>0. /\ TypeOK /\ RowsOwned /\ AddressHeld /\ RedeemersApart /\ OnlySpentActed /\ OwnMailOnly
      /\ ChangesEarned
      /\ \A q \in Requests : CreatorOK(q) /\ RedeemerOK(q)
  BY DEF IInv
<1>l. /\ pc' \in [Requests -> {"idle", "insert", "send", "apply"}]
      /\ who' \in [Requests -> Users \cup {NoUser}]
      /\ tok' \in [Requests -> 0..issued']
      /\ goal' \in [Requests -> Purposes]
      /\ addr' \in [Requests -> Addresses \cup {NoAddress}]
      /\ pc'[r] = "idle" /\ Others(r)
  BY <1>0, FinishLocals DEF SendEmail, tokens
<1>t. /\ tok[r] \in Issued /\ tok[r] \in Token /\ who[r] \in Users
      /\ user_id[tok[r]] = who[r] /\ addr[r] \in held[who[r]]
  BY <1>0, MaxTokensAssumption DEF SendEmail, CreatorOK, TypeOK, Issued, Token
<1>m. /\ mailed' = mailed \cup {tok[r]}
      /\ sentTo' = [sentTo EXCEPT ![tok[r]] = addr[r]]
      /\ UNCHANGED <<users, tokens, held, effects>>
  BY DEF SendEmail
<1>1. TypeOK'
  BY <1>0, <1>l, <1>t, <1>m DEF TypeOK, users, tokens, Issued
<1>2. RowsOwned' /\ AddressHeld' /\ OnlySpentActed'
  BY <1>0, <1>m DEF RowsOwned, AddressHeld, OnlySpentActed, users, tokens, Issued
<1>3. OwnMailOnly'
  BY <1>0, <1>t, <1>m DEF OwnMailOnly, TypeOK, tokens
<1>4. ChangesEarned'
  <2>1. ASSUME NEW u \in Users, NEW t \in Token, NEW p \in Purposes, Earned(u, t, p)
        PROVE  Earned(u, t, p)'
    BY <1>0, <1>t, <1>m, <2>1 DEF Earned, TypeOK, tokens
  <2> QED BY <1>0, <1>m, <2>1, MaxTokensAssumption
          DEF ChangesEarned, TypeOK, users, tokens, Issued, Token, Purposes
<1>5. \A q \in Requests : CreatorOK(q)' /\ RedeemerOK(q)'
  BY <1>0, <1>l, <1>m DEF CreatorOK, RedeemerOK, Others, tokens, Issued
<1>6. RedeemersApart'
  BY <1>0, <1>l DEF RedeemersApart, Others
<1> QED BY <1>1, <1>2, <1>3, <1>4, <1>5, <1>6 DEF IInv

\* The second statement of either confirmation: what both do to the link and to
\* the request.
LEMMA ApplyStep ==
  ASSUME IInv, NEW r \in Requests, pc[r] = "apply", Finish(r),
         effects' = [effects EXCEPT ![tok[r]] = @ + 1],
         UNCHANGED <<account, email, tokens, mail, held>>,
         email_verified' \in [Users -> BOOLEAN], password' \in [Users -> 0..issued],
         ChangesEarned'
  PROVE  IInv'
<1>0. /\ TypeOK /\ RowsOwned /\ AddressHeld /\ RedeemersApart /\ OnlySpentActed /\ OwnMailOnly
      /\ ChangesEarned
      /\ \A q \in Requests : CreatorOK(q) /\ RedeemerOK(q)
  BY DEF IInv
<1>l. /\ pc' \in [Requests -> {"idle", "insert", "send", "apply"}]
      /\ who' \in [Requests -> Users \cup {NoUser}]
      /\ tok' \in [Requests -> 0..issued']
      /\ goal' \in [Requests -> Purposes]
      /\ addr' \in [Requests -> Addresses \cup {NoAddress}]
      /\ pc'[r] = "idle" /\ Others(r)
  BY <1>0, FinishLocals DEF tokens
<1>t. tok[r] \in used /\ tok[r] \in Token /\ effects[tok[r]] = 0
  BY <1>0, MaxTokensAssumption DEF RedeemerOK, TypeOK, Issued, Token
<1>1. TypeOK'
  <2>1. effects' \in [Token -> Nat]
    BY <1>0, <1>t DEF TypeOK
  <2> QED BY <1>0, <1>l, <2>1 DEF TypeOK, tokens, mail, Issued
<1>2. RowsOwned' /\ AddressHeld' /\ OwnMailOnly'
  BY <1>0 DEF RowsOwned, AddressHeld, OwnMailOnly, tokens, mail, Issued
<1>3. OnlySpentActed'
  BY <1>0, <1>t DEF OnlySpentActed, TypeOK, tokens
<1>4. \A q \in Requests : CreatorOK(q)' /\ RedeemerOK(q)'
  <2> TAKE q \in Requests
  <2>1. CASE q = r
    BY <1>l, <2>1 DEF CreatorOK, RedeemerOK
  <2>2. CASE q # r
    <3>1. pc[q] = "apply" => tok[q] # tok[r]
      BY <1>0, <2>2 DEF RedeemersApart
    <3> QED BY <1>0, <1>l, <1>t, <2>2, <3>1
            DEF CreatorOK, RedeemerOK, Others, TypeOK, tokens, mail, Issued
  <2> QED BY <2>1, <2>2
<1>5. RedeemersApart'
  BY <1>0, <1>l DEF RedeemersApart, Others
<1> QED BY <1>1, <1>2, <1>3, <1>4, <1>5 DEF IInv

LEMMA ConfirmEmailVerifyStep ==
  ASSUME IInv, NEW r \in Requests, ConfirmEmailVerify(r)
  PROVE  IInv'
<1>0. TypeOK /\ OwnMailOnly /\ ChangesEarned /\ CreatorOK(r) /\ RedeemerOK(r)
  BY DEF IInv
<1>1. email_verified' \in [Users -> BOOLEAN] /\ password' \in [Users -> 0..issued]
  BY <1>0 DEF TypeOK, ConfirmEmailVerify
<1>2. Earned(who[r], tok[r], "verify") /\ tok[r] \in used
  BY <1>0 DEF ConfirmEmailVerify, RedeemerOK, Earned, OwnMailOnly
<1>3. \A u \in Users, t \in used, p \in Purposes : Earned(u, t, p)' <=> Earned(u, t, p)
  BY DEF ConfirmEmailVerify, Earned, tokens, mail
<1>4. ChangesEarned'
  <2> SUFFICES ASSUME NEW u \in Users
               PROVE  /\ password'[u] # 0 => Earned(u, password[u], "reset")'
                      /\ email_verified'[u] => (\E t \in used : Earned(u, t, "verify"))'
    BY DEF ChangesEarned
  <2>1. password'[u] # 0 => Earned(u, password[u], "reset")'
    BY <1>0 DEF ChangesEarned, ConfirmEmailVerify, Earned, tokens, mail
  <2>2. email_verified'[u] => (\E t \in used : Earned(u, t, "verify"))'
    <3>1. CASE u = who[r]
      BY <1>2, <1>3, <3>1 DEF ConfirmEmailVerify, tokens, Purposes
    <3>2. CASE u # who[r]
      BY <1>0, <1>3, <3>2 DEF ConfirmEmailVerify, ChangesEarned, TypeOK, tokens, Purposes
    <3> QED BY <3>1, <3>2
  <2> QED BY <2>1, <2>2
<1> QED BY <1>1, <1>4, ApplyStep DEF ConfirmEmailVerify

LEMMA ConfirmPasswordResetStep ==
  ASSUME IInv, NEW r \in Requests, ConfirmPasswordReset(r)
  PROVE  IInv'
<1>0. TypeOK /\ OwnMailOnly /\ ChangesEarned /\ CreatorOK(r) /\ RedeemerOK(r)
  BY DEF IInv
<1>1. email_verified' \in [Users -> BOOLEAN] /\ password' \in [Users -> 0..issued]
  BY <1>0 DEF TypeOK, ConfirmPasswordReset
<1>2. Earned(who[r], tok[r], "reset")
  BY <1>0 DEF ConfirmPasswordReset, RedeemerOK, Earned, OwnMailOnly
<1>3. ChangesEarned'
  BY <1>0, <1>2 DEF ConfirmPasswordReset, ChangesEarned, Earned, TypeOK, tokens, mail
<1> QED BY <1>1, <1>3, ApplyStep DEF ConfirmPasswordReset

-----------------------------------------------------------------------------
(* The admin, the clock and failures. *)

LEMMA UpdateUserStep ==
  ASSUME IInv, NEW u \in Users, NEW a \in Addresses, UpdateUser(u, a)
  PROVE  IInv'
<1>0. /\ TypeOK /\ RowsOwned /\ AddressHeld /\ RedeemersApart /\ OnlySpentActed /\ OwnMailOnly
      /\ ChangesEarned
      /\ \A q \in Requests : CreatorOK(q) /\ RedeemerOK(q)
  BY DEF IInv
<1>h. /\ held' \in [Users -> SUBSET Addresses]
      /\ \A v \in Users : held[v] \subseteq held'[v]
      /\ a \in held'[u]
  BY <1>0 DEF TypeOK, UpdateUser
<1>1. TypeOK'
  <2>1. email' \in [Users -> Addresses \cup {NoAddress}]
    BY <1>0 DEF TypeOK, UpdateUser
  <2> QED BY <1>0, <1>h, <2>1 DEF TypeOK, UpdateUser, tokens, requests, mail, Issued
<1>2. RowsOwned' /\ OnlySpentActed' /\ RedeemersApart'
  BY <1>0 DEF RowsOwned, OnlySpentActed, RedeemersApart, UpdateUser, tokens, requests, Issued
<1>3. AddressHeld'
  BY <1>0, <1>h DEF AddressHeld, UpdateUser, TypeOK
<1>4. OwnMailOnly' /\ ChangesEarned'
  BY <1>0, <1>h DEF OwnMailOnly, ChangesEarned, Earned, UpdateUser, tokens, mail, TypeOK,
                    RowsOwned, Issued
<1>5. \A q \in Requests : CreatorOK(q)' /\ RedeemerOK(q)'
  BY <1>0, <1>h DEF CreatorOK, RedeemerOK, UpdateUser, tokens, requests, mail, Issued
<1> QED BY <1>1, <1>2, <1>3, <1>4, <1>5 DEF IInv

LEMMA DeleteUserStep ==
  ASSUME IInv, NEW u \in Users, DeleteUser(u)
  PROVE  IInv'
<1>0. /\ TypeOK /\ RowsOwned /\ AddressHeld /\ RedeemersApart /\ OnlySpentActed /\ OwnMailOnly
      /\ ChangesEarned
      /\ \A q \in Requests : CreatorOK(q) /\ RedeemerOK(q)
  BY DEF IInv
<1>1. TypeOK'
  <2>1. account' \in [Users -> {"none", "active", "deleted"}]
        /\ email' \in [Users -> Addresses \cup {NoAddress}]
    BY <1>0 DEF TypeOK, DeleteUser
  <2>2. email_verified' \in [Users -> BOOLEAN] /\ password' \in [Users -> 0..issued']
    BY <1>0 DEF TypeOK, DeleteUser
  <2>3. rows' \subseteq Issued'
    BY <1>0 DEF TypeOK, DeleteUser, Issued
  <2> QED BY <1>0, <2>1, <2>2, <2>3 DEF TypeOK, DeleteUser, requests, mail, Issued
<1>2. RowsOwned' /\ OnlySpentActed' /\ RedeemersApart' /\ OwnMailOnly'
  BY <1>0 DEF RowsOwned, OnlySpentActed, RedeemersApart, OwnMailOnly, DeleteUser, requests,
              mail, Issued
<1>3. AddressHeld'
  BY <1>0 DEF AddressHeld, DeleteUser, TypeOK
<1>4. ChangesEarned'
  BY <1>0 DEF ChangesEarned, Earned, DeleteUser, mail, TypeOK
<1>5. \A q \in Requests : CreatorOK(q)' /\ RedeemerOK(q)'
  BY <1>0 DEF CreatorOK, RedeemerOK, DeleteUser, requests, mail, Issued
<1> QED BY <1>1, <1>2, <1>3, <1>4, <1>5 DEF IInv

LEMMA LapseStep ==
  ASSUME IInv, NEW t \in Issued, Lapse(t)
  PROVE  IInv'
<1>0. /\ TypeOK /\ RowsOwned /\ AddressHeld /\ RedeemersApart /\ OnlySpentActed /\ OwnMailOnly
      /\ ChangesEarned
      /\ \A q \in Requests : CreatorOK(q) /\ RedeemerOK(q)
  BY DEF IInv
<1>1. TypeOK'
  BY <1>0 DEF TypeOK, Lapse, users, requests, mail, Issued
<1>2. RowsOwned' /\ AddressHeld' /\ OnlySpentActed' /\ RedeemersApart' /\ OwnMailOnly'
      /\ ChangesEarned'
  BY <1>0 DEF RowsOwned, AddressHeld, OnlySpentActed, RedeemersApart, OwnMailOnly, ChangesEarned,
              Earned, Lapse, users, requests, mail, Issued
<1>3. \A q \in Requests : CreatorOK(q)' /\ RedeemerOK(q)'
  BY <1>0 DEF CreatorOK, RedeemerOK, Lapse, requests, mail, Issued
<1> QED BY <1>1, <1>2, <1>3 DEF IInv

LEMMA FailStep ==
  ASSUME IInv, NEW r \in Requests, Fail(r)
  PROVE  IInv'
<1>0. /\ TypeOK /\ RowsOwned /\ AddressHeld /\ RedeemersApart /\ OnlySpentActed /\ OwnMailOnly
      /\ ChangesEarned
      /\ \A q \in Requests : CreatorOK(q) /\ RedeemerOK(q)
  BY DEF IInv
<1>l. /\ pc' \in [Requests -> {"idle", "insert", "send", "apply"}]
      /\ who' \in [Requests -> Users \cup {NoUser}]
      /\ tok' \in [Requests -> 0..issued']
      /\ goal' \in [Requests -> Purposes]
      /\ addr' \in [Requests -> Addresses \cup {NoAddress}]
      /\ pc'[r] = "idle" /\ Others(r)
  BY <1>0, FinishLocals DEF Fail, tokens
<1>1. TypeOK'
  BY <1>0, <1>l DEF TypeOK, Fail, users, tokens, mail, Issued
<1>2. RowsOwned' /\ AddressHeld' /\ OnlySpentActed' /\ OwnMailOnly' /\ ChangesEarned'
  BY <1>0 DEF RowsOwned, AddressHeld, OnlySpentActed, OwnMailOnly, ChangesEarned, Earned, Fail,
              users, tokens, mail, Issued
<1>3. \A q \in Requests : CreatorOK(q)' /\ RedeemerOK(q)'
  BY <1>0, <1>l DEF CreatorOK, RedeemerOK, Others, Fail, tokens, mail, Issued
<1>4. RedeemersApart'
  BY <1>0, <1>l DEF RedeemersApart, Others
<1> QED BY <1>1, <1>2, <1>3, <1>4 DEF IInv

-----------------------------------------------------------------------------
(* The theorems. *)

LEMMA InitInv == Init => IInv
<1> SUFFICES ASSUME Init PROVE IInv
  OBVIOUS
<1>1. TypeOK
  BY MaxTokensAssumption DEF Init, TypeOK, Issued, Purposes
<1>2. RowsOwned /\ AddressHeld /\ OnlySpentActed /\ RedeemersApart /\ OwnMailOnly /\ ChangesEarned
  BY DEF Init, RowsOwned, AddressHeld, OnlySpentActed, RedeemersApart, OwnMailOnly, ChangesEarned,
         Issued
<1>3. \A q \in Requests : CreatorOK(q) /\ RedeemerOK(q)
  BY DEF Init, CreatorOK, RedeemerOK
<1> QED BY <1>1, <1>2, <1>3 DEF IInv

LEMMA NextInv == IInv /\ [Next]_vars => IInv'
<1> SUFFICES ASSUME IInv, [Next]_vars PROVE IInv'
  OBVIOUS
<1>1. ASSUME NEW r \in Requests, NEW u \in Users, RequestEmailVerify(r, u) PROVE IInv'
  BY <1>1, RequestLinkStep DEF RequestEmailVerify, Purposes
<1>2. ASSUME NEW r \in Requests, NEW u \in Users, NEW a \in Addresses,
             RequestPasswordReset(r, u, a)
      PROVE  IInv'
  BY <1>2, RequestLinkStep DEF RequestPasswordReset, Purposes
<1>3. ASSUME NEW r \in Requests,
             \/ CreateEmailToken(r) \/ SendEmail(r)
             \/ ConfirmEmailVerify(r) \/ ConfirmPasswordReset(r) \/ Fail(r)
      PROVE  IInv'
  BY <1>3, CreateEmailTokenStep, SendEmailStep, ConfirmEmailVerifyStep, ConfirmPasswordResetStep,
     FailStep
<1>4. CASE UNCHANGED vars
  <2>1. TypeOK /\ RowsOwned /\ AddressHeld /\ OnlySpentActed /\ RedeemersApart /\ OwnMailOnly
        /\ ChangesEarned /\ \A q \in Requests : CreatorOK(q) /\ RedeemerOK(q)
    BY DEF IInv
  <2>2. TypeOK'
    BY <1>4, <2>1 DEF TypeOK, vars, users, tokens, requests, mail, Issued
  <2>3. RowsOwned' /\ AddressHeld' /\ OnlySpentActed' /\ RedeemersApart' /\ OwnMailOnly'
        /\ ChangesEarned'
    BY <1>4, <2>1 DEF RowsOwned, AddressHeld, OnlySpentActed, RedeemersApart, OwnMailOnly,
                      ChangesEarned, Earned, vars, users, tokens, requests, mail, Issued
  <2>4. \A q \in Requests : CreatorOK(q)' /\ RedeemerOK(q)'
    BY <1>4, <2>1 DEF CreatorOK, RedeemerOK, vars, tokens, requests, mail, Issued
  <2> QED BY <2>2, <2>3, <2>4 DEF IInv
<1> QED BY <1>1, <1>2, <1>3, <1>4, RegisterStep, ConfirmLinkStep, UpdateUserStep, DeleteUserStep,
           LapseStep DEF Next

LEMMA Invariance == Spec => []IInv
BY InitInv, NextInv, PTL DEF Spec

\* Type correctness of the links, for any accounts, requests and number of links.
THEOREM TypeCorrect == Spec => []TypeOK
<1>1. IInv => TypeOK
  BY DEF IInv
<1> QED BY <1>1, Invariance, PTL

\* A link reaches only a mailbox its account has had.
THEOREM MailOwned == Spec => []OwnMailOnly
<1>1. IInv => OwnMailOnly
  BY DEF IInv
<1> QED BY <1>1, Invariance, PTL

\* Passwords and verified addresses are earned by a spent link of that account.
THEOREM AllEarned == Spec => []ChangesEarned
<1>1. IInv => ChangesEarned
  BY DEF IInv
<1> QED BY <1>1, Invariance, PTL

-----------------------------------------------------------------------------
(* The links implement OneShot. *)

LEMMA InitLinks == Init => Links!Init
BY DEF Init, Links!Init, Issued

\* An INSERT issues a token, the second statement of a confirmation honours it,
\* and every other step is a stutter of the links.
LEMMA StepLinks == IInv /\ [Next]_vars => [Links!Next]_Links!vars
<1> SUFFICES ASSUME IInv, [Next]_vars PROVE [Links!Next]_Links!vars
  OBVIOUS
<1> USE DEF Links!vars
<1>0. TypeOK /\ \A q \in Requests : RedeemerOK(q)
  BY DEF IInv
<1>1. ASSUME NEW r \in Requests, CreateEmailToken(r) PROVE Links!Next
  <2>1. /\ issued + 1 \in Token /\ issued + 1 \notin Issued
        /\ Issued' = Issued \cup {issued + 1} /\ effects' = effects
    BY <1>0, <1>1, MaxTokensAssumption DEF TypeOK, CreateEmailToken, Token, Issued
  <2>2. Links!Issue({issued + 1}) /\ {issued + 1} \in SUBSET (Token \ Issued)
    BY <2>1 DEF Links!Issue
  <2> QED BY <2>2 DEF Links!Next
<1>2. ASSUME NEW r \in Requests, ConfirmEmailVerify(r) \/ ConfirmPasswordReset(r)
      PROVE  Links!Next
  <2>1. /\ tok[r] \in Issued /\ tok[r] \in Token /\ effects[tok[r]] = 0
        /\ effects' = [effects EXCEPT ![tok[r]] = @ + 1] /\ Issued' = Issued
    BY <1>0, <1>2, MaxTokensAssumption
       DEF TypeOK, RedeemerOK, ConfirmEmailVerify, ConfirmPasswordReset, tokens, Token, Issued
  <2>2. Links!Honour(tok[r])
    BY <2>1 DEF Links!Honour
  <2> QED BY <2>1, <2>2 DEF Links!Next
<1>3. ASSUME NEW r \in Requests, SendEmail(r) \/ Fail(r) PROVE UNCHANGED Links!vars
  BY <1>3 DEF SendEmail, Fail, tokens, Issued
<1>4. ASSUME NEW r \in Requests, NEW u \in Users, NEW a \in Addresses,
             Register(r, u, a) \/ RequestPasswordReset(r, u, a)
      PROVE  UNCHANGED Links!vars
  BY <1>4 DEF Register, RequestPasswordReset, tokens, Issued
<1>5. ASSUME NEW r \in Requests, NEW u \in Users, RequestEmailVerify(r, u)
      PROVE  UNCHANGED Links!vars
  BY <1>5 DEF RequestEmailVerify, tokens, Issued
<1>6. ASSUME NEW r \in Requests, NEW t \in mailed, NEW p \in Purposes, ConfirmLink(r, t, p)
      PROVE  UNCHANGED Links!vars
  BY <1>6 DEF ConfirmLink, Issued
<1>7. ASSUME NEW u \in Users, NEW a \in Addresses, UpdateUser(u, a)
      PROVE  UNCHANGED Links!vars
  BY <1>7 DEF UpdateUser, tokens, Issued
<1>8. ASSUME NEW u \in Users, DeleteUser(u) PROVE UNCHANGED Links!vars
  BY <1>8 DEF DeleteUser, Issued
<1>9. ASSUME NEW t \in Issued, Lapse(t) PROVE UNCHANGED Links!vars
  BY <1>9 DEF Lapse, Issued
<1>10. CASE UNCHANGED vars
  BY <1>10 DEF vars, tokens, Issued
<1> QED BY <1>1, <1>2, <1>3, <1>4, <1>5, <1>6, <1>7, <1>8, <1>9, <1>10 DEF Next

\* The links implement the promise of a single-use token.
THEOREM LinksOneShot == Spec => LinkPromise
BY Invariance, InitLinks, StepLinks, PTL DEF Spec, LinkPromise, Links!Spec

=============================================================================
