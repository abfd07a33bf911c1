---------------------------- MODULE IdentityProofs ----------------------------
(***************************************************************************)
(* The identity tokens of Identity for any accounts, requests, tokens and  *)
(* keys.                                                                   *)
(***************************************************************************)
EXTENDS Identity, TLAPS

-----------------------------------------------------------------------------
(* The inductive invariant. *)

\* A minted token names an account, descends from the identity token of a login
\* for that account.
Descent ==
  \A t \in 1..minted :
    /\ sub[t] \in Users
    /\ root[t] \in 1..minted
    /\ sub[root[t]] = sub[t]
    /\ kind[root[t]] = "identity"

\* What a request past its check holds: the header's token is an identity token,
\* and the second token is the refresh half of one.
Held ==
  \A r \in Requests :
    /\ pc[r] = "run" => kind[tok[r]] = "identity"
    /\ pc[r] \in {"rotate", "revoke"} => ref[r] # 0
    /\ ref[r] # 0 => kind[ref[r]] = "identity"

\* A session that no rotation has forked has one live token at the most.
OneLive ==
  /\ forked \subseteq 1..minted
  /\ \A t, f \in live : root[t] = root[f] /\ root[t] \notin forked => t = f

\* A session that a logout ended, and that is not forked, has no live token, and
\* no refresh that could bring one.
EndedQuiet ==
  /\ ended \subseteq 1..minted
  /\ \A s \in ended \ forked :
       /\ \A t \in live : root[t] # s
       /\ \A r \in Requests : pc[r] = "rotate" => root[ref[r]] # s

\* What a logout listed is on the blacklist still, and time has not gone back.
OutKept == out \subseteq listed \cup (1..expired)

IInv == TypeOK /\ Descent /\ Held /\ OneLive /\ EndedQuiet /\ OutKept

-----------------------------------------------------------------------------

\* Signing leaves the earlier tokens as they are.
LEMMA Signed ==
  ASSUME TypeOK, NEW k, NEW u, NEW s, Sign(k, u, s)
  PROVE  /\ minted \in Nat /\ minted + 1 \in Token /\ minted' = minted + 1
         /\ 1..minted' = (1..minted) \cup {minted + 1}
         /\ \A t \in 1..minted :
              /\ t # minted + 1
              /\ kind'[t] = kind[t] /\ sub'[t] = sub[t]
              /\ root'[t] = root[t] /\ signedBy'[t] = signedBy[t]
         /\ kind'[minted + 1] = k /\ sub'[minted + 1] = u
         /\ root'[minted + 1] = s /\ signedBy'[minted + 1] = key
         /\ expired' = expired
<1> USE BoundsAssumption DEF Token
<1>1. minted \in Nat /\ minted + 1 \in Token /\ minted' = minted + 1
  BY DEF TypeOK, Sign
<1>2. 1..minted' = (1..minted) \cup {minted + 1}
  BY <1>1
<1>3. /\ kind' = [kind EXCEPT ![minted + 1] = k]
      /\ sub' = [sub EXCEPT ![minted + 1] = u]
      /\ root' = [root EXCEPT ![minted + 1] = s]
      /\ signedBy' = [signedBy EXCEPT ![minted + 1] = key]
      /\ DOMAIN kind = Token /\ DOMAIN sub = Token /\ DOMAIN root = Token /\ DOMAIN signedBy = Token
      /\ expired' = expired
  BY DEF TypeOK, Sign
<1>4. \A t \in 1..minted : t # minted + 1 /\ t \in Token
  BY <1>1
<1> QED BY <1>1, <1>2, <1>3, <1>4

\* ... and keeps the types of what is signed.
LEMMA SignedTypes ==
  ASSUME TypeOK, NEW k \in {"identity", "server"}, NEW u \in Users, NEW s \in Token, Sign(k, u, s)
  PROVE  /\ minted' \in 0..MaxTokens
         /\ kind' \in [Token -> {"identity", "server"}]
         /\ sub' \in [Token -> Users \cup {NoUser}]
         /\ root' \in [Token -> Token]
         /\ signedBy' \in [Token -> 0..MaxKeys]
         /\ expired' \in 0..minted'
<1>1. minted + 1 \in Token /\ minted' = minted + 1
  BY Signed
<1>2. minted' \in 0..MaxTokens /\ expired' \in 0..minted'
  BY <1>1, BoundsAssumption DEF TypeOK, Sign, Token
<1>3. kind' \in [Token -> {"identity", "server"}] /\ sub' \in [Token -> Users \cup {NoUser}]
  BY <1>1 DEF TypeOK, Sign
<1>4. root' \in [Token -> Token]
  BY <1>1 DEF TypeOK, Sign
<1>5. signedBy' \in [Token -> 0..MaxKeys]
  BY <1>1, BoundsAssumption DEF TypeOK, Sign
<1> QED BY <1>2, <1>3, <1>4, <1>5

LEMMA TypeStep == IInv /\ [Next]_vars => TypeOK'
<1> SUFFICES ASSUME IInv, [Next]_vars PROVE TypeOK'
  OBVIOUS
<1> USE BoundsAssumption DEF IInv, Handlers
<1>1. ASSUME NEW u \in Users, MintTokenPair(u) PROVE TypeOK'
  <2>0. minted + 1 \in Token
    BY <1>1 DEF MintTokenPair, Sign, TypeOK, Token
  <2>1. PICK m \in Token : Sign("identity", u, m) /\ m = minted + 1
    BY <1>1, <2>0 DEF MintTokenPair
  <2>2. /\ minted' \in 0..MaxTokens
        /\ kind' \in [Token -> {"identity", "server"}]
        /\ sub' \in [Token -> Users \cup {NoUser}]
        /\ root' \in [Token -> Token]
        /\ signedBy' \in [Token -> 0..MaxKeys]
        /\ expired' \in 0..minted'
    BY <2>1, SignedTypes
  <2>3. live' \subseteq {t \in 1..minted' : kind'[t] = "identity" /\ sub'[t] \in account'}
    BY <1>1, <2>1, Signed DEF MintTokenPair, MayInsert, TypeOK
  <2>4. minted' = minted + 1 /\ minted \in Nat
    BY <2>1, Signed
  <2> QED BY <1>1, <2>2, <2>3, <2>4 DEF MintTokenPair, TypeOK, requests, history
<1>2. ASSUME NEW r \in Requests, NEW f \in 1..minted, StartRefresh(r, f) PROVE TypeOK'
  BY <1>2 DEF StartRefresh, TypeOK, tables, tokens, history
<1>3. ASSUME NEW r \in Requests, Finish(r)
      PROVE  /\ pc' \in [Requests -> {"idle", "rotate", "run", "revoke"}]
             /\ op' \in [Requests -> Handlers \cup {"none"}]
             /\ tok' \in [Requests -> 0..minted] /\ ref' \in [Requests -> 0..minted]
             /\ \A q \in Requests : (pc'[q] = "run") = (tok'[q] # 0)
  BY <1>3 DEF Finish, TypeOK
<1>4. ASSUME NEW r \in Requests, Rotate(r) PROVE TypeOK'
  <2>1. /\ ref[r] \in 1..minted /\ sub[ref[r]] \in account /\ sub[ref[r]] \in Users
        /\ root[ref[r]] \in Token /\ Sign("identity", sub[ref[r]], root[ref[r]])
    BY <1>4 DEF Rotate, MayInsert, Held, Descent, TypeOK, Token
  <2>2. /\ minted' \in 0..MaxTokens
        /\ kind' \in [Token -> {"identity", "server"}]
        /\ sub' \in [Token -> Users \cup {NoUser}]
        /\ root' \in [Token -> Token]
        /\ signedBy' \in [Token -> 0..MaxKeys]
        /\ expired' \in 0..minted'
    BY <2>1, SignedTypes
  <2>3. live' \subseteq {t \in 1..minted' : kind'[t] = "identity" /\ sub'[t] \in account'}
    BY <1>4, <2>1, Signed DEF Rotate, TypeOK
  <2>4. minted' = minted + 1 /\ minted \in Nat
    BY <2>1, Signed
  <2>5. forked' \subseteq Token /\ UNCHANGED <<account, listed, key, ended>>
    BY <1>4, <2>1 DEF Rotate, TypeOK
  <2> QED BY <1>3, <1>4, <2>2, <2>3, <2>4, <2>5 DEF Rotate, TypeOK
<1>5. ASSUME NEW r \in Requests, ServerToken(r) PROVE TypeOK'
  <2>1. /\ tok[r] \in 1..minted /\ sub[tok[r]] \in Users
        /\ root[tok[r]] \in Token /\ Sign("server", sub[tok[r]], root[tok[r]])
    BY <1>5 DEF ServerToken, Descent, TypeOK, Token
  <2>2. /\ minted' \in 0..MaxTokens
        /\ kind' \in [Token -> {"identity", "server"}]
        /\ sub' \in [Token -> Users \cup {NoUser}]
        /\ root' \in [Token -> Token]
        /\ signedBy' \in [Token -> 0..MaxKeys]
        /\ expired' \in 0..minted'
    BY <2>1, SignedTypes
  <2>3. live' \subseteq {t \in 1..minted' : kind'[t] = "identity" /\ sub'[t] \in account'}
    BY <1>5, <2>1, Signed DEF ServerToken, TypeOK, tables
  <2>4. minted' = minted + 1 /\ minted \in Nat
    BY <2>1, Signed
  <2> QED BY <1>3, <1>5, <2>2, <2>3, <2>4 DEF ServerToken, TypeOK, tables, history
<1>6. ASSUME NEW u \in Users, RevokeAllForUser(u) \/ DeleteUser(u) PROVE TypeOK'
  BY <1>6 DEF RevokeAllForUser, DeleteUser, TypeOK, tokens, requests, history
<1>7. ASSUME NEW r \in Requests, NEW t \in 1..minted, NEW o \in Handlers,
             NEW f \in {0} \cup (1..minted), Present(r, t, o, f)
      PROVE  TypeOK'
  BY <1>7 DEF Present, TypeOK, tables, tokens, history
<1>8. ASSUME NEW r \in Requests, LogoutList(r) PROVE TypeOK'
  <2>1. tok[r] \in 1..minted
    BY <1>8 DEF LogoutList, TypeOK
  <2>2. CASE ref[r] = 0
    BY <1>3, <1>8, <2>1, <2>2 DEF LogoutList, TypeOK, tokens, history
  <2>3. CASE ref[r] # 0
    BY <1>8, <2>1, <2>3 DEF LogoutList, TypeOK, tokens, history
  <2> QED BY <2>2, <2>3
<1>9. ASSUME NEW r \in Requests, LogoutRevoke(r) PROVE TypeOK'
  <2>1. root[ref[r]] \in Token
    BY <1>9 DEF LogoutRevoke, Held, Descent, TypeOK, Token
  <2> QED BY <1>3, <1>9, <2>1 DEF LogoutRevoke, Revoked, TypeOK, tokens
<1>10. ASSUME NEW r \in Requests, Leave(r) PROVE TypeOK'
  BY <1>3, <1>10 DEF Leave, TypeOK, tables, tokens, history
<1>11. CASE Expire
  BY <1>11 DEF Expire, TypeOK, tables, requests, history
<1>12. CASE Restart
  BY <1>12 DEF Restart, Kept, TypeOK, tokens, history
<1>13. CASE UNCHANGED vars
  BY <1>13 DEF vars, tables, tokens, requests, history, TypeOK
<1> QED
  BY <1>1, <1>2, <1>4, <1>5, <1>6, <1>7, <1>8, <1>9, <1>10, <1>11, <1>12, <1>13 DEF Next, Step

-----------------------------------------------------------------------------
(* Descent. *)

LEMMA DescentSigned ==
  ASSUME TypeOK, Descent, NEW k, NEW u \in Users, NEW s, Sign(k, u, s),
         \/ s = minted + 1 /\ k = "identity"
         \/ s \in 1..minted /\ sub[s] = u /\ kind[s] = "identity"
  PROVE  Descent'
<1> SUFFICES ASSUME NEW t \in 1..minted'
             PROVE  /\ sub'[t] \in Users
                    /\ root'[t] \in 1..minted'
                    /\ sub'[root'[t]] = sub'[t]
                    /\ kind'[root'[t]] = "identity"
  BY DEF Descent
<1>1. CASE t \in 1..minted
  BY <1>1, Signed DEF Descent
<1>2. CASE t = minted + 1
  BY <1>2, Signed DEF Descent
<1> QED BY <1>1, <1>2, Signed

LEMMA DescentStep == IInv /\ [Next]_vars => Descent'
<1> SUFFICES ASSUME IInv, [Next]_vars PROVE Descent'
  OBVIOUS
<1> USE DEF IInv
<1>1. ASSUME NEW u \in Users, MintTokenPair(u) PROVE Descent'
  <2>1. PICK m : Sign("identity", u, m) /\ m = minted + 1
    BY <1>1 DEF MintTokenPair
  <2> QED BY <2>1, DescentSigned
<1>2. ASSUME NEW r \in Requests, Rotate(r) PROVE Descent'
  <2>1. /\ ref[r] \in 1..minted /\ sub[ref[r]] \in Users
        /\ Sign("identity", sub[ref[r]], root[ref[r]])
    BY <1>2 DEF Rotate, Held, Descent, TypeOK
  <2>2. /\ root[ref[r]] \in 1..minted /\ sub[root[ref[r]]] = sub[ref[r]]
        /\ kind[root[ref[r]]] = "identity"
    BY <2>1 DEF Descent
  <2> QED BY <2>1, <2>2, DescentSigned
<1>3. ASSUME NEW r \in Requests, ServerToken(r) PROVE Descent'
  <2>1. /\ tok[r] \in 1..minted /\ sub[tok[r]] \in Users
        /\ Sign("server", sub[tok[r]], root[tok[r]])
    BY <1>3 DEF ServerToken, Descent, TypeOK
  <2>2. /\ root[tok[r]] \in 1..minted /\ sub[root[tok[r]]] = sub[tok[r]]
        /\ kind[root[tok[r]]] = "identity"
    BY <2>1 DEF Descent
  <2> QED BY <2>1, <2>2, DescentSigned
<1>4. CASE UNCHANGED tokens
  BY <1>4 DEF Descent, tokens
<1>5. CASE Expire
  BY <1>5 DEF Expire, Descent
<1> QED
  BY <1>1, <1>2, <1>3, <1>4, <1>5
     DEF Next, Step, StartRefresh, RevokeAllForUser, DeleteUser, Present, LogoutList,
         LogoutRevoke, Leave, Restart, vars

-----------------------------------------------------------------------------
(* What requests hold. *)

LEMMA HeldStep == IInv /\ [Next]_vars => Held'
<1> SUFFICES ASSUME IInv, [Next]_vars PROVE Held'
  OBVIOUS
<1> USE DEF IInv
\* A request that finishes holds nothing; the others hold what was minted before.
<1>1. ASSUME NEW r \in Requests, Finish(r), \A t \in 1..minted : kind'[t] = kind[t]
      PROVE  Held'
  BY <1>1 DEF Held, Finish, TypeOK
<1>2. ASSUME NEW k, NEW u, NEW s, Sign(k, u, s)
      PROVE  \A t \in 1..minted : kind'[t] = kind[t]
  BY <1>2, Signed
<1>3. ASSUME NEW u \in Users, MintTokenPair(u) PROVE Held'
  <2>1. PICK m : Sign("identity", u, m)
    BY <1>3 DEF MintTokenPair
  <2>2. \A t \in 1..minted : kind'[t] = kind[t]
    BY <1>2, <2>1
  <2> QED BY <1>3, <2>2 DEF MintTokenPair, Held, TypeOK, requests
<1>4. ASSUME NEW r \in Requests, Rotate(r) \/ ServerToken(r) PROVE Held'
  <2>1. \A t \in 1..minted : kind'[t] = kind[t]
    BY <1>2, <1>4 DEF Rotate, ServerToken
  <2> QED BY <1>1, <1>4, <2>1 DEF Rotate, ServerToken
<1>5. ASSUME NEW r \in Requests, NEW f \in 1..minted, StartRefresh(r, f) PROVE Held'
  BY <1>5 DEF StartRefresh, Held, TypeOK, tokens
<1>6. ASSUME NEW r \in Requests, NEW t \in 1..minted, NEW o \in Handlers,
             NEW f \in {0} \cup (1..minted), Present(r, t, o, f)
      PROVE  Held'
  BY <1>6 DEF Present, Accepted, Verifies, Held, TypeOK, tokens
<1>7. ASSUME NEW r \in Requests, LogoutList(r) PROVE Held'
  <2>1. CASE ref[r] = 0
    BY <1>1, <1>7, <2>1 DEF LogoutList, tokens
  <2>2. CASE ref[r] # 0
    BY <1>7, <2>2 DEF LogoutList, Held, TypeOK, tokens
  <2> QED BY <2>1, <2>2
<1>8. ASSUME NEW r \in Requests, LogoutRevoke(r) \/ Leave(r) PROVE Held'
  BY <1>1, <1>8 DEF LogoutRevoke, Leave, tokens
<1>9. CASE UNCHANGED <<kind, requests>>
  BY <1>9 DEF Held, requests
<1>10. CASE Restart
  BY <1>10 DEF Restart, Held, tokens
<1> QED
  BY <1>3, <1>4, <1>5, <1>6, <1>7, <1>8, <1>9, <1>10
     DEF Next, Step, RevokeAllForUser, DeleteUser, Expire, tokens, vars

-----------------------------------------------------------------------------
(* Sessions: one live token, and none after a logout. *)

LEMMA OneLiveStep == IInv /\ [Next]_vars => OneLive'
<1> SUFFICES ASSUME IInv, [Next]_vars PROVE OneLive'
  OBVIOUS
<1> USE DEF IInv
<1>1. \A t \in live : t \in 1..minted /\ root[t] \in 1..minted
  BY DEF TypeOK, Descent
<1>2. ASSUME NEW u \in Users, MintTokenPair(u) PROVE OneLive'
  <2>1. PICK m : Sign("identity", u, m) /\ m = minted + 1
    BY <1>2 DEF MintTokenPair
  <2>2. /\ 1..minted' = (1..minted) \cup {m} /\ m \notin 1..minted /\ root'[m] = m
        /\ \A t \in 1..minted : root'[t] = root[t]
    BY <2>1, Signed
  <2>3. live' = live \cup {m} /\ forked' = forked
    BY <1>2, <2>1 DEF MintTokenPair, history
  <2> QED BY <1>1, <2>2, <2>3 DEF OneLive
<1>3. ASSUME NEW r \in Requests, Rotate(r) PROVE OneLive'
  <2> DEFINE n == minted + 1
             s == root[ref[r]]
  <2>1. ref[r] \in 1..minted /\ s \in 1..minted /\ Sign("identity", sub[ref[r]], s)
    BY <1>3 DEF Rotate, Held, Descent, TypeOK
  <2>2. /\ 1..minted' = (1..minted) \cup {n} /\ n \notin 1..minted /\ root'[n] = s
        /\ \A t \in 1..minted : root'[t] = root[t]
    BY <2>1, Signed
  <2>3. /\ live' = (live \ {ref[r]}) \cup {n}
        /\ forked' = IF ref[r] \in live THEN forked ELSE forked \cup {s}
    BY <1>3 DEF Rotate
  <2> HIDE DEF n
  <2>4. forked' \subseteq 1..minted' /\ forked \subseteq forked'
    BY <2>1, <2>2, <2>3 DEF OneLive
  <2>5. ASSUME NEW t \in live', NEW f \in live', root'[t] = root'[f], root'[t] \notin forked'
        PROVE  t = f
    <3>1. \A g \in live' : g = n \/ (g \in live /\ g # ref[r] /\ root'[g] = root[g])
      BY <1>1, <2>2, <2>3
    <3>2. ASSUME NEW g \in live, g # ref[r], root[g] = s, s \notin forked' PROVE FALSE
      BY <2>3, <3>2 DEF OneLive
    <3> QED BY <2>2, <2>4, <2>5, <3>1, <3>2 DEF OneLive
  <2> QED BY <2>4, <2>5 DEF OneLive
<1>4. ASSUME NEW r \in Requests, ServerToken(r) PROVE OneLive'
  <2>1. /\ 1..minted' = (1..minted) \cup {minted + 1}
        /\ \A t \in 1..minted : root'[t] = root[t]
    BY <1>4, Signed DEF ServerToken
  <2> QED BY <1>1, <1>4, <2>1 DEF ServerToken, OneLive, tables, history
<1>5. CASE live' \subseteq live /\ UNCHANGED <<minted, root, forked>>
  BY <1>5 DEF OneLive
<1>6. ASSUME NEW u, RevokeAllForUser(u) \/ DeleteUser(u)
      PROVE  live' \subseteq live /\ UNCHANGED <<minted, root, forked>>
  BY <1>6 DEF RevokeAllForUser, DeleteUser, tokens, history
<1>7. ASSUME NEW r, LogoutRevoke(r)
      PROVE  live' \subseteq live /\ UNCHANGED <<minted, root, forked>>
  BY <1>7 DEF LogoutRevoke, tokens
<1> QED
  BY <1>2, <1>3, <1>4, <1>5, <1>6, <1>7
     DEF Next, Step, StartRefresh, Present, LogoutList, Leave, Expire, Restart,
         tables, tokens, history, vars

LEMMA EndedStep == IInv /\ [Next]_vars => EndedQuiet'
<1> SUFFICES ASSUME IInv, [Next]_vars PROVE EndedQuiet'
  OBVIOUS
<1> USE DEF IInv
<1>1. /\ \A t \in live : t \in 1..minted
      /\ \A r \in Requests : pc[r] = "rotate" => ref[r] \in 1..minted
  BY DEF TypeOK, Held
\* Nothing is added to a session but by its own refreshes.
<1>2. ASSUME ended' = ended, forked \subseteq forked', 1..minted \subseteq 1..minted',
             \A t \in 1..minted : root'[t] = root[t],
             \A t \in live' : t \in live \/ root'[t] \notin ended \ forked,
             \A r \in Requests : pc'[r] = "rotate" =>
               \/ pc[r] = "rotate" /\ ref'[r] = ref[r]
               \/ ref'[r] \in live
      PROVE  EndedQuiet'
  <2> SUFFICES ASSUME NEW s \in ended' \ forked'
               PROVE  /\ \A t \in live' : root'[t] # s
                      /\ \A r \in Requests : pc'[r] = "rotate" => root'[ref'[r]] # s
    BY <1>2 DEF EndedQuiet
  <2>1. s \in ended \ forked
    BY <1>2
  <2> QED BY <1>1, <1>2, <2>1 DEF EndedQuiet
<1>3. ASSUME NEW u \in Users, MintTokenPair(u) PROVE EndedQuiet'
  <2>1. PICK m : Sign("identity", u, m) /\ m = minted + 1
    BY <1>3 DEF MintTokenPair
  <2>2. /\ 1..minted' = (1..minted) \cup {m} /\ m \notin 1..minted /\ root'[m] = m
        /\ \A t \in 1..minted : root'[t] = root[t]
    BY <2>1, Signed
  <2>3. live' = live \cup {m} /\ UNCHANGED <<forked, ended, requests>> /\ m \notin ended
    BY <1>3, <2>1, <2>2 DEF MintTokenPair, history, EndedQuiet
  <2> QED BY <1>2, <2>2, <2>3 DEF requests
<1>4. ASSUME NEW r \in Requests, NEW f \in 1..minted, StartRefresh(r, f) PROVE EndedQuiet'
  <2>1. \A q \in Requests : \/ pc'[q] = pc[q] /\ ref'[q] = ref[q]
                            \/ ref'[q] \in live
    BY <1>4 DEF StartRefresh, TypeOK
  <2> QED BY <1>2, <1>4, <2>1 DEF StartRefresh, tables, tokens, history
<1>5. ASSUME NEW r \in Requests, Rotate(r) PROVE EndedQuiet'
  <2> DEFINE n == minted + 1
             s == root[ref[r]]
  <2>1. Sign("identity", sub[ref[r]], s) /\ s \notin ended \ forked
    BY <1>5 DEF Rotate, EndedQuiet
  <2>2. /\ 1..minted' = (1..minted) \cup {n} /\ root'[n] = s
        /\ \A t \in 1..minted : root'[t] = root[t]
    BY <2>1, Signed
  <2>3. /\ live' = (live \ {ref[r]}) \cup {n}
        /\ forked \subseteq forked' /\ ended' = ended
    BY <1>5 DEF Rotate
  <2>4. \A q \in Requests : pc'[q] = "rotate" =>
          \/ pc[q] = "rotate" /\ ref'[q] = ref[q]
          \/ ref'[q] \in live
    BY <1>5 DEF Rotate, Finish, TypeOK
  <2> HIDE DEF n
  <2>5. \A t \in live' : t \in live \/ root'[t] \notin ended \ forked
    BY <2>1, <2>2, <2>3
  <2>6. 1..minted \subseteq 1..minted' /\ \A t \in 1..minted : root'[t] = root[t]
    BY <2>2
  <2>7. ended' = ended /\ forked \subseteq forked'
    BY <2>3
  <2> QED BY <1>2, <2>4, <2>5, <2>6, <2>7
<1>6. ASSUME NEW r \in Requests, ServerToken(r) PROVE EndedQuiet'
  <2>1. /\ 1..minted' = (1..minted) \cup {minted + 1}
        /\ \A t \in 1..minted : root'[t] = root[t]
    BY <1>6, Signed DEF ServerToken
  <2>2. \A q \in Requests : pc'[q] = "rotate" => pc[q] = "rotate" /\ ref'[q] = ref[q]
    BY <1>6 DEF ServerToken, Finish, TypeOK
  <2> QED BY <1>2, <1>6, <2>1, <2>2 DEF ServerToken, tables, history
<1>7. ASSUME NEW r \in Requests, LogoutRevoke(r) PROVE EndedQuiet'
  <2> DEFINE s == root[ref[r]]
  <2>1. ref[r] \in 1..minted /\ s \in 1..minted
    BY <1>7 DEF LogoutRevoke, Held, Descent, TypeOK
  <2>2. /\ live' = live \ {ref[r]} /\ UNCHANGED <<minted, root, forked>>
        /\ ended' = IF ref[r] \in live /\ Rotating(s) = {} THEN ended \cup {s} ELSE ended
    BY <1>7 DEF LogoutRevoke, Revoked, tokens
  <2>3. \A q \in Requests : pc'[q] = "rotate" => pc[q] = "rotate" /\ ref'[q] = ref[q]
    BY <1>7 DEF LogoutRevoke, Finish, TypeOK
  <2>4. CASE ref[r] \in live /\ Rotating(s) = {}
    <3>1. \A q \in Requests : pc[q] = "rotate" => root[ref[q]] # s
      BY <2>4 DEF Rotating
    <3>2. s \notin forked => \A t \in live' : root[t] # s
      BY <2>2, <2>4 DEF OneLive
    <3>3. ended' = ended \cup {s} /\ ended' \subseteq 1..minted'
      BY <2>1, <2>2, <2>4 DEF EndedQuiet
    <3>4. ASSUME NEW e \in ended' \ forked'
          PROVE  /\ \A t \in live' : root'[t] # e
                 /\ \A q \in Requests : pc'[q] = "rotate" => root'[ref'[q]] # e
      <4>1. CASE e = s
        BY <2>2, <2>3, <3>1, <3>2, <3>4, <4>1
      <4>2. CASE e # s
        BY <2>2, <2>3, <3>3, <3>4, <4>2 DEF EndedQuiet
      <4> QED BY <4>1, <4>2
    <3> QED BY <3>3, <3>4 DEF EndedQuiet
  <2>5. CASE ~(ref[r] \in live /\ Rotating(s) = {})
    BY <1>2, <2>2, <2>3, <2>5
  <2> QED BY <2>4, <2>5
<1>8. ASSUME live' \subseteq live, UNCHANGED <<minted, root, forked, ended>>,
             \A q \in Requests : pc'[q] = "rotate" => pc[q] = "rotate" /\ ref'[q] = ref[q]
      PROVE  EndedQuiet'
  BY <1>2, <1>8
<1>9. ASSUME NEW u \in Users, RevokeAllForUser(u) \/ DeleteUser(u) PROVE EndedQuiet'
  BY <1>8, <1>9 DEF RevokeAllForUser, DeleteUser, tokens, requests, history
<1>10. ASSUME NEW r \in Requests, NEW t \in 1..minted, NEW o \in Handlers,
              NEW f \in {0} \cup (1..minted), Present(r, t, o, f)
       PROVE  EndedQuiet'
  <2>1. \A q \in Requests : pc'[q] = "rotate" => pc[q] = "rotate" /\ ref'[q] = ref[q]
    BY <1>10 DEF Present, TypeOK
  <2> QED BY <1>8, <1>10, <2>1 DEF Present, tables, tokens, history
<1>11. ASSUME NEW r \in Requests, LogoutList(r) \/ Leave(r) PROVE EndedQuiet'
  <2>1. \A q \in Requests : pc'[q] = "rotate" => pc[q] = "rotate" /\ ref'[q] = ref[q]
    BY <1>11 DEF LogoutList, Leave, Finish, TypeOK
  <2> QED BY <1>8, <1>11, <2>1 DEF LogoutList, Leave, tables, tokens, history
<1>12. CASE Expire
  BY <1>8, <1>12 DEF Expire, tables, requests, history
<1>13. CASE Restart
  <2>1. \A q \in Requests : pc'[q] = "idle"
    BY <1>13 DEF Restart
  <2> QED BY <1>8, <1>13, <2>1 DEF Restart, tokens, history
<1>14. CASE UNCHANGED vars
  BY <1>8, <1>14 DEF vars, tables, tokens, requests, history
<1> QED
  BY <1>3, <1>4, <1>5, <1>6, <1>7, <1>9, <1>10, <1>11, <1>12, <1>13, <1>14 DEF Next, Step

-----------------------------------------------------------------------------
(* What makes a refusal last. *)

\* A token stays what it was signed as.
LEMMA TokensStay ==
  ASSUME TypeOK, [Next]_vars, NEW t \in 1..minted
  PROVE  kind'[t] = kind[t] /\ signedBy'[t] = signedBy[t]
<1>1. UNCHANGED <<kind, signedBy>> \/ \E k, u, s : Sign(k, u, s)
  BY DEF Next, Step, MintTokenPair, StartRefresh, Rotate, RevokeAllForUser, Present,
         LogoutList, LogoutRevoke, ServerToken, DeleteUser, Leave, Expire, Restart,
         tokens, vars
<1> QED BY <1>1, Signed

\* The blacklist loses no row, and time goes one way.
LEMMA RefusalsGrow ==
  ASSUME TypeOK, [Next]_vars
  PROVE  listed \subseteq listed' /\ expired' \in {expired, expired + 1}
<1>1. listed \subseteq listed'
  BY DEF Next, Step, MintTokenPair, StartRefresh, Rotate, RevokeAllForUser, Present,
         LogoutList, LogoutRevoke, ServerToken, DeleteUser, Leave, Expire, Restart, Kept,
         tables, vars
<1>2. expired' \in {expired, expired + 1}
  BY DEF Next, Step, MintTokenPair, StartRefresh, Rotate, RevokeAllForUser, Present,
         LogoutList, LogoutRevoke, ServerToken, DeleteUser, Leave, Expire, Restart, Sign,
         tokens, vars
<1> QED BY <1>1, <1>2

LEMMA OutStep == IInv /\ [Next]_vars => OutKept'
<1> SUFFICES ASSUME IInv, [Next]_vars PROVE OutKept'
  OBVIOUS
<1> USE DEF IInv
<1>1. listed \subseteq listed' /\ expired \in Nat /\ expired' \in {expired, expired + 1}
  BY RefusalsGrow DEF TypeOK
<1>2. 1..expired \subseteq 1..expired'
  BY <1>1
<1>3. CASE out' = out
  BY <1>1, <1>2, <1>3 DEF OutKept
<1>4. CASE Expire
  BY <1>1, <1>2, <1>4 DEF Expire, OutKept
<1>5. ASSUME NEW r \in Requests, LogoutList(r) PROVE OutKept'
  BY <1>1, <1>2, <1>5 DEF LogoutList, OutKept
<1> QED
  BY <1>3, <1>4, <1>5
     DEF Next, Step, MintTokenPair, StartRefresh, Rotate, RevokeAllForUser, Present,
         LogoutRevoke, ServerToken, DeleteUser, Leave, Restart, history, vars

-----------------------------------------------------------------------------
(* The theorems. *)

LEMMA InitIInv == Init => IInv
<1> SUFFICES ASSUME Init PROVE IInv
  OBVIOUS
<1> USE BoundsAssumption DEF Init
<1>1. TypeOK
  BY DEF TypeOK, Token, Handlers
<1>2. Descent /\ Held /\ OneLive /\ EndedQuiet /\ OutKept
  BY DEF Descent, Held, OneLive, EndedQuiet, OutKept
<1> QED BY <1>1, <1>2 DEF IInv

LEMMA IInvStep == IInv /\ [Next]_vars => IInv'
BY TypeStep, DescentStep, HeldStep, OneLiveStep, EndedStep, OutStep DEF IInv

LEMMA Invariance == Spec => []IInv
BY InitIInv, IInvStep, PTL DEF Spec

\* The tables, the tokens and the requests keep their types; no refresh token is
\* live whose account is gone.
THEOREM TypeCorrect == Spec => []TypeOK
<1>1. IInv => TypeOK
  BY DEF IInv
<1> QED BY <1>1, Invariance, PTL

\* logout ends the session whose live refresh token it revokes, whatever other
\* requests are under way, but for a refresh past its SELECT and a forked session.
THEOREM LogoutsEnd == Spec => []LogoutEndsSession
<1>1. IInv => LogoutEndsSession
  BY DEF IInv, EndedQuiet, LogoutEndsSession
<1> QED BY <1>1, Invariance, PTL

\* A refused token comes back only with the key that signed it, and never once a
\* logout has listed it or its time has passed, however often the process restarts and
\* with whatever keys.
THEOREM RefusalsStand == Spec => BackOnlyWithKey
<1>1. IInv /\ [Next]_vars =>
        [\A t \in 1..minted : ~Accepted(t) /\ Accepted(t)' =>
           /\ t \notin out
           /\ signedBy[t] = key' /\ key' # key]_vars
  <2> SUFFICES ASSUME IInv, [Next]_vars, NEW t \in 1..minted, ~Accepted(t), Accepted(t)'
               PROVE  t \notin out /\ signedBy[t] = key' /\ key' # key
    OBVIOUS
  <2>1. kind'[t] = kind[t] /\ signedBy'[t] = signedBy[t]
    BY TokensStay DEF IInv
  <2>2. listed \subseteq listed' /\ expired \in Nat /\ expired' \in {expired, expired + 1}
    BY RefusalsGrow DEF IInv, TypeOK
  <2>3. Unlisted(t) /\ t > expired
    BY <2>2 DEF Accepted, Unlisted, Verifies
  <2>4. t \notin out
    BY <2>2, <2>3 DEF IInv, OutKept, Unlisted
  <2> QED BY <2>1, <2>3, <2>4 DEF Accepted, Verifies
<1> QED BY <1>1, Invariance, PTL DEF Spec, BackOnlyWithKey

=============================================================================
