------------------------------- MODULE MfaProofs -------------------------------
(***************************************************************************)
(* The second factor of Mfa for any accounts, requests, codes and bounds.  *)
(***************************************************************************)
EXTENDS Mfa, TLAPS

-----------------------------------------------------------------------------
(* The inductive invariant. *)

\* A verification between its check of the blacklist and its session.
Verifying(r) == op[r] = "verify" /\ pc[r] \in {"check", "consume", "spend", "session"}

\* What a request holds: an account; in a verification an mfa_token, on the
\* blacklist by the time a session is opened; a backup code that was made.
Held ==
  /\ \A t \in 1..tokens : sub[t] \in Users
  /\ \A r \in Requests :
       /\ pc[r] # "idle" => who[r] \in Users
       /\ pc[r] \in {"check", "spend", "session"} => op[r] = "verify"
       /\ Verifying(r) => tok[r] \in 1..tokens
       /\ pc[r] = "session" => tok[r] \in revoked_jtis
       /\ pc[r] = "consume" => code[r] \in CodesMade

\* An mfa_token that was never in two requests is in one at the most, and in none
\* once it has opened a session.
TokenSpent(t) ==
  /\ sessions[t] <= 1
  /\ \A r \in Requests : Verifying(r) /\ tok[r] = t =>
       /\ sessions[t] = 0
       /\ \A q \in Requests : Verifying(q) /\ tok[q] = t => q = r

Tokens ==
  /\ SessionsSpend
  /\ \A t \in Token \ doubled.tokens : TokenSpent(t)

\* A backup code belongs to one account, in its row and in the requests about to
\* remove it.
OneOwner ==
  /\ \A u, v \in Users : backup_codes[u] \cap backup_codes[v] # {} => u = v
  /\ \A u \in Users, r \in Requests :
       pc[r] = "consume" /\ code[r] \in backup_codes[u] => who[r] = u
  /\ \A r, q \in Requests :
       pc[r] = "consume" /\ pc[q] = "consume" /\ code[r] = code[q] => who[r] = who[q]

\* A backup code that two requests never held at once is held by one at the most,
\* and by none once it was accepted.
CodeSpent(c) ==
  /\ uses[c] <= 1
  /\ \A r \in Requests : pc[r] = "consume" /\ code[r] = c =>
       /\ uses[c] = 0
       /\ \A q \in Requests : pc[q] = "consume" /\ code[q] = c => q = r

Codes ==
  /\ \A u \in Users : backup_codes[u] \subseteq CodesMade
  /\ \A c \in BackupCodes : uses[c] > 0 => c \in CodesMade
  /\ OneOwner
  /\ UsedCodesGone
  /\ \A c \in BackupCodes \ doubled.codes : CodeSpent(c)

\* An enrolment under way when 2FA is on or about to be is a race; without one the
\* secret that enable switches on is the one whose code it has seen.
Enrolment ==
  /\ \A r \in Requests : pc[r] = "setup" =>
       /\ who[r] \in enabled => who[r] \in raced
       /\ \A q \in Requests : pc[q] = "enable" /\ who[q] = who[r] => who[r] \in raced
  /\ \A r \in Requests : pc[r] = "enable" =>
       \/ who[r] \in raced
       \/ secret[who[r]] = 0
       \/ secret[who[r]] \in confirmed
  /\ ConfirmedUnlessRaced

IInv == TypeOK /\ Held /\ Tokens /\ Codes /\ Enrolment

-----------------------------------------------------------------------------
(* Codes. *)

LEMMA BatchFacts ==
  /\ NoCode \in TotpCodes
  /\ \A b \in 1..MaxBatches : Batch(b) \subseteq BackupCodes
  /\ \A b, d : \A c : c \in Batch(b) /\ c \in Batch(d) => b = d
<1>1. NoCode \in TotpCodes
  BY BoundsAssumption DEF NoCode, TotpCodes
<1>2. \A b \in 1..MaxBatches : Batch(b) \subseteq BackupCodes
  BY DEF BackupCodes
<1>3. \A b, d : \A c : c \in Batch(b) /\ c \in Batch(d) => b = d
  BY DEF Batch, BackupCode
<1> QED BY <1>1, <1>2, <1>3

\* The codes of the next batch are new.
LEMMA NewBatch ==
  ASSUME TypeOK, batches < MaxBatches, batches' = batches + 1
  PROVE  /\ CodesMade' = CodesMade \cup Batch(NextBatch)
         /\ CodesMade \cap Batch(NextBatch) = {}
         /\ Batch(NextBatch) \subseteq BackupCodes
<1>1. batches \in Nat /\ NextBatch = batches + 1 /\ NextBatch \in 1..MaxBatches
  BY BoundsAssumption DEF TypeOK, NextBatch
<1>2. 1..batches' = (1..batches) \cup {NextBatch} /\ NextBatch \notin 1..batches
  BY <1>1
<1>3. CodesMade' = CodesMade \cup Batch(NextBatch)
  BY <1>2 DEF CodesMade, Batch
<1>4. CodesMade \cap Batch(NextBatch) = {}
  BY <1>2, BatchFacts DEF CodesMade
<1> QED BY <1>1, <1>3, <1>4, BatchFacts

LEMMA MadeAreCodes == TypeOK => CodesMade \subseteq BackupCodes
BY BoundsAssumption DEF TypeOK, CodesMade, BackupCodes

-----------------------------------------------------------------------------
(* Types. *)

LEMMA TypeStep == IInv /\ [Next]_vars => TypeOK'
<1> SUFFICES ASSUME IInv, [Next]_vars PROVE TypeOK'
  OBVIOUS
<1> USE BoundsAssumption, BatchFacts DEF IInv
<1>b. ASSUME NEW r \in Requests, NEW l, NEW o, NEW u, NEW t, NEW c, Begin(r, l, o, u, t, c),
             l \in {"setup", "enable", "check", "consume", "delete"},
             o \in {"setup", "enable", "verify", "disable"},
             u \in Users, t \in 0..tokens, c \in TotpCodes \cup BackupCodes
      PROVE  /\ pc' \in [Requests -> {"idle", "setup", "enable", "check", "consume", "spend",
                                      "session", "delete"}]
             /\ op' \in [Requests -> {"setup", "enable", "verify", "disable"}]
             /\ who' \in [Requests -> Users \cup {NoUser}]
             /\ tok' \in [Requests -> 0..tokens]
             /\ code' \in [Requests -> TotpCodes \cup BackupCodes]
  BY <1>b DEF Begin, TypeOK
<1>f. ASSUME NEW r \in Requests, Finish(r)
      PROVE  /\ pc' \in [Requests -> {"idle", "setup", "enable", "check", "consume", "spend",
                                      "session", "delete"}]
             /\ op' \in [Requests -> {"setup", "enable", "verify", "disable"}]
             /\ who' \in [Requests -> Users \cup {NoUser}]
             /\ tok' \in [Requests -> 0..tokens]
             /\ code' \in [Requests -> TotpCodes \cup BackupCodes]
  BY <1>f DEF Finish, TypeOK
<1>1. ASSUME NEW r \in Requests, NEW u \in Users, StartSetup(r, u) PROVE TypeOK'
  <2>1. Begin(r, "setup", "setup", u, 0, NoCode) /\ 0 \in 0..tokens
    BY <1>1 DEF StartSetup, TypeOK
  <2> QED BY <1>1, <1>b, <2>1 DEF StartSetup, TypeOK, tables, made
<1>2. ASSUME NEW r \in Requests, SetupWrite(r) PROVE TypeOK'
  <2>1. who[r] \in Users /\ secrets' = secrets + 1 /\ secrets \in Nat /\ secrets' \in 0..MaxSecrets
    BY <1>2 DEF SetupWrite, Held, TypeOK
  <2>2. secret' \in [Users -> 0..secrets'] /\ confirmed' \subseteq 1..secrets'
    BY <1>2, <2>1 DEF SetupWrite, TypeOK, history
  <2>3. \A u \in Users : secret'[u] = 0 => u \notin enabled' /\ backup_codes'[u] = {}
    BY <1>2, <2>1 DEF SetupWrite, TypeOK
  <2> QED BY <1>2, <1>f, <2>1, <2>2, <2>3 DEF SetupWrite, TypeOK, history
<1>3. ASSUME NEW r \in Requests, NEW u \in Users, NEW c \in Known, StartEnable(r, u, c)
      PROVE  TypeOK'
  <2>1. Begin(r, "enable", "enable", u, 0, NoCode) /\ 0 \in 0..tokens
    BY <1>3 DEF StartEnable, TypeOK
  <2>0. secret[u] \in 1..secrets /\ confirmed \subseteq 1..secrets
    BY <1>3 DEF StartEnable, LiveCode, TypeOK
  <2>2. confirmed' \subseteq 1..secrets
    BY <1>3, <2>0 DEF StartEnable
  <2> QED BY <1>3, <1>b, <2>1, <2>2 DEF StartEnable, TypeOK, tables, made
<1>4. ASSUME NEW r \in Requests, EnableWrite(r) PROVE TypeOK'
  <2>1. who[r] \in Users /\ batches' \in 0..MaxBatches /\ Batch(NextBatch) \subseteq BackupCodes
    BY <1>4, NewBatch DEF EnableWrite, Held, TypeOK
  <2>2. /\ enabled' \subseteq Users /\ backup_codes' \in [Users -> SUBSET BackupCodes]
        /\ \A u \in Users : secret[u] = 0 => u \notin enabled' /\ backup_codes'[u] = {}
    BY <1>4, <2>1 DEF EnableWrite, RowThere, TypeOK
  <2> QED BY <1>4, <1>f, <2>1, <2>2 DEF EnableWrite, TypeOK, history
<1>5. ASSUME NEW u \in Users, SignMfaToken(u) PROVE TypeOK'
  <2>1. tokens' = tokens + 1 /\ tokens \in Nat /\ tokens' \in 0..MaxTokens
    BY <1>5 DEF SignMfaToken, TypeOK
  <2>2. sub' \in [Token -> Users \cup {NoUser}]
    BY <1>5 DEF SignMfaToken, TypeOK
  <2>3. tok \in [Requests -> 0..tokens'] /\ expired \in 0..tokens' /\ revoked_jtis \subseteq 1..tokens'
    BY <2>1 DEF TypeOK
  <2> QED BY <1>5, <2>1, <2>2, <2>3 DEF SignMfaToken, TypeOK, tables, requests, history
<1>6. ASSUME NEW r \in Requests, NEW t \in 1..tokens, StartVerify(r, t) PROVE TypeOK'
  <2>1. Begin(r, "check", "verify", sub[t], t, NoCode) /\ sub[t] \in Users /\ t \in 0..tokens
    BY <1>6 DEF StartVerify, Held, TypeOK
  <2>0. t \in Token /\ doubled \in [tokens : SUBSET Token, codes : SUBSET BackupCodes]
    BY DEF TypeOK, Token
  <2>2. doubled' \in [tokens : SUBSET Token, codes : SUBSET BackupCodes]
    BY <1>6, <2>0 DEF StartVerify
  <2> QED BY <1>6, <1>b, <2>1, <2>2 DEF StartVerify, TypeOK, tables, made
<1>7. ASSUME NEW r \in Requests, NEW c \in Known, AcceptTotp(r, c) PROVE TypeOK'
  BY <1>7 DEF AcceptTotp, TypeOK, tables, made, history
<1>8. ASSUME NEW u \in Users, NEW c, BackupFits(u, c), NoteDoubled(u, c)
      PROVE  c \in BackupCodes /\ doubled' \in [tokens : SUBSET Token, codes : SUBSET BackupCodes]
  BY <1>8 DEF BackupFits, NoteDoubled, TypeOK
<1>9. ASSUME NEW r \in Requests, NEW c \in Known, FindBackupCode(r, c) PROVE TypeOK'
  <2>1. /\ c \in BackupCodes /\ doubled' \in [tokens : SUBSET Token, codes : SUBSET BackupCodes]
    BY <1>8, <1>9 DEF FindBackupCode, Held
  <2> QED BY <1>9, <2>1 DEF FindBackupCode, TypeOK, tables, made
<1>10. ASSUME NEW r \in Requests, ConsumeBackupCode(r) PROVE TypeOK'
  <2>1. who[r] \in Users /\ code[r] \in BackupCodes
    BY <1>10, MadeAreCodes DEF ConsumeBackupCode, Held
  <2>2. /\ backup_codes' \in [Users -> SUBSET BackupCodes]
        /\ \A u \in Users : secret[u] = 0 => u \notin enabled /\ backup_codes'[u] = {}
    BY <1>10, <2>1 DEF ConsumeBackupCode, Without, TypeOK
  <2>3. uses' \in [BackupCodes -> Nat]
    BY <1>10, <2>1 DEF ConsumeBackupCode, TypeOK
  <2>4. /\ pc' \in [Requests -> {"idle", "setup", "enable", "check", "consume", "spend",
                                 "session", "delete"}]
        /\ code' \in [Requests -> TotpCodes \cup BackupCodes]
    BY <1>10 DEF ConsumeBackupCode, TypeOK
  <2> QED BY <1>10, <2>2, <2>3, <2>4 DEF ConsumeBackupCode, TypeOK, made
<1>11. ASSUME NEW r \in Requests, SpendMfaToken(r) PROVE TypeOK'
  <2>1. tok[r] \in 1..tokens
    BY <1>11 DEF SpendMfaToken, Held, Verifying
  <2> QED BY <1>11, <2>1 DEF SpendMfaToken, RevokeJti, TypeOK, made, history
<1>12. ASSUME NEW r \in Requests, OpenSession(r) PROVE TypeOK'
  <2>0. tok[r] \in Token /\ sessions[tok[r]] \in Nat
    BY <1>12 DEF OpenSession, Held, Verifying, TypeOK, Token
  <2>1. sessions' \in [Token -> Nat]
    BY <1>12, <2>0 DEF OpenSession, TypeOK
  <2> QED BY <1>12, <1>f, <2>1 DEF OpenSession, TypeOK, tables, made
<1>13. ASSUME NEW r \in Requests, NEW u \in Users, NEW c \in Known, StartDisableByTotp(r, u, c)
       PROVE  TypeOK'
  <2>1. Begin(r, "delete", "disable", u, 0, NoCode) /\ 0 \in 0..tokens
    BY <1>13 DEF StartDisableByTotp, TypeOK
  <2> QED BY <1>13, <1>b, <2>1 DEF StartDisableByTotp, TypeOK, tables, made, history
<1>14. ASSUME NEW r \in Requests, NEW u \in Users, NEW c \in Known, StartDisableByBackup(r, u, c)
       PROVE  TypeOK'
  <2>1. Begin(r, "consume", "disable", u, 0, c) /\ 0 \in 0..tokens
    BY <1>14 DEF StartDisableByBackup, TypeOK
  <2>2. c \in BackupCodes /\ doubled' \in [tokens : SUBSET Token, codes : SUBSET BackupCodes]
    BY <1>8, <1>14 DEF StartDisableByBackup
  <2> QED BY <1>14, <1>b, <2>1, <2>2 DEF StartDisableByBackup, TypeOK, tables, made
<1>15. ASSUME NEW u, DropRow(u)
       PROVE  /\ secret' \in [Users -> 0..secrets] /\ enabled' \subseteq Users
              /\ backup_codes' \in [Users -> SUBSET BackupCodes]
              /\ \A v \in Users : secret'[v] = 0 => v \notin enabled' /\ backup_codes'[v] = {}
  <2>0. 0 \in 0..secrets /\ secret \in [Users -> 0..secrets]
    BY DEF TypeOK
  <2>1. secret' \in [Users -> 0..secrets]
    BY <1>15, <2>0 DEF DropRow
  <2>2. enabled' \subseteq Users /\ backup_codes' \in [Users -> SUBSET BackupCodes]
    BY <1>15 DEF DropRow, TypeOK
  <2>3. ASSUME NEW v \in Users, secret'[v] = 0 PROVE v \notin enabled' /\ backup_codes'[v] = {}
    BY <1>15, <2>3 DEF DropRow, TypeOK
  <2> QED BY <2>1, <2>2, <2>3
<1>16. ASSUME NEW r \in Requests, DisableDelete(r) PROVE TypeOK'
  BY <1>15, <1>16, <1>f DEF DisableDelete, TypeOK, made, history
<1>17. ASSUME NEW u \in Users, DeleteUser(u) PROVE TypeOK'
  BY <1>15, <1>17 DEF DeleteUser, TypeOK, made, requests, history
<1>18. CASE Expire
  BY <1>18 DEF Expire, TypeOK, tables, requests, history
<1>19. ASSUME NEW r \in Requests, Fail(r) PROVE TypeOK'
  BY <1>19, <1>f DEF Fail, TypeOK, tables, made, history
<1>20. CASE UNCHANGED vars
  BY <1>20 DEF vars, tables, made, requests, history, TypeOK
<1> QED
  BY <1>1, <1>2, <1>3, <1>4, <1>5, <1>6, <1>7, <1>9, <1>10, <1>11, <1>12, <1>13, <1>14,
     <1>16, <1>17, <1>18, <1>19, <1>20 DEF Next

-----------------------------------------------------------------------------
(* What requests hold. *)

LEMMA HeldStep == IInv /\ [Next]_vars => Held'
<1> SUFFICES ASSUME IInv, [Next]_vars PROVE Held'
  OBVIOUS
<1> USE DEF IInv
\* No request comes to hold anything new.
<1>1. ASSUME revoked_jtis \subseteq revoked_jtis', CodesMade \subseteq CodesMade', UNCHANGED <<tokens, sub>>,
             \A q \in Requests :
               \/ pc'[q] = "idle"
               \/ UNCHANGED <<pc[q], op[q], who[q], tok[q], code[q]>>
      PROVE  Held'
  BY <1>1 DEF Held, Verifying
<1>2. ASSUME NEW r \in Requests, Finish(r)
      PROVE  \A q \in Requests :
               \/ pc'[q] = "idle"
               \/ UNCHANGED <<pc[q], op[q], who[q], tok[q], code[q]>>
  BY <1>2 DEF Finish, TypeOK
<1>3. batches' = batches => CodesMade' = CodesMade
  BY DEF CodesMade
<1>4. ASSUME NEW r \in Requests, NEW u \in Users,
             StartSetup(r, u) \/ \E c \in Known : StartEnable(r, u, c) \/ StartDisableByTotp(r, u, c)
      PROVE  Held'
  BY <1>3, <1>4 DEF StartSetup, StartEnable, StartDisableByTotp, Begin, Held, Verifying, TypeOK,
                    tables, made
<1>5. ASSUME NEW r \in Requests, NEW t \in 1..tokens, StartVerify(r, t) PROVE Held'
  BY <1>3, <1>5 DEF StartVerify, Begin, Held, Verifying, TypeOK, tables, made
<1>6. ASSUME NEW u \in Users, NEW c, BackupFits(u, c) PROVE c \in CodesMade
  BY <1>6 DEF BackupFits, Codes
<1>7. ASSUME NEW r \in Requests, NEW c \in Known, FindBackupCode(r, c) PROVE Held'
  <2>1. who[r] \in Users /\ c \in CodesMade /\ CodesMade' = CodesMade
    BY <1>3, <1>6, <1>7 DEF FindBackupCode, Held, made
  <2> QED BY <1>7, <2>1 DEF FindBackupCode, Held, Verifying, TypeOK, tables, made
<1>8. ASSUME NEW r \in Requests, NEW u \in Users, NEW c \in Known, StartDisableByBackup(r, u, c)
      PROVE  Held'
  <2>1. c \in CodesMade /\ CodesMade' = CodesMade
    BY <1>3, <1>6, <1>8 DEF StartDisableByBackup, made
  <2> QED BY <1>8, <2>1 DEF StartDisableByBackup, Begin, Held, Verifying, TypeOK, tables, made
<1>9. ASSUME NEW r \in Requests, NEW c \in Known, AcceptTotp(r, c) PROVE Held'
  BY <1>3, <1>9 DEF AcceptTotp, Held, Verifying, TypeOK, tables, made
<1>10. ASSUME NEW r \in Requests, ConsumeBackupCode(r) PROVE Held'
  <2>1. CodesMade' = CodesMade
    BY <1>3, <1>10 DEF ConsumeBackupCode, made
  <2> QED BY <1>10, <2>1 DEF ConsumeBackupCode, Held, Verifying, TypeOK, made
<1>11. ASSUME NEW r \in Requests, SpendMfaToken(r) PROVE Held'
  <2>1. CodesMade' = CodesMade
    BY <1>3, <1>11 DEF SpendMfaToken, made
  <2> QED BY <1>11, <2>1 DEF SpendMfaToken, RevokeJti, Held, Verifying, TypeOK, made
<1>12. ASSUME NEW r \in Requests, SetupWrite(r) \/ OpenSession(r) \/ DisableDelete(r) \/ Fail(r)
       PROVE  Held'
  BY <1>1, <1>2, <1>3, <1>12 DEF SetupWrite, OpenSession, DisableDelete, Fail, tables, made
<1>13. ASSUME NEW r \in Requests, EnableWrite(r) PROVE Held'
  <2>1. CodesMade \subseteq CodesMade'
    BY <1>13, NewBatch DEF EnableWrite
  <2> QED BY <1>1, <1>2, <1>13, <2>1 DEF EnableWrite
<1>14. ASSUME NEW u \in Users, SignMfaToken(u) PROVE Held'
  <2>1. /\ 1..tokens' = (1..tokens) \cup {tokens + 1} /\ tokens + 1 \in Token
        /\ tokens + 1 \notin 1..tokens
    BY <1>14, BoundsAssumption DEF SignMfaToken, TypeOK, Token
  <2>2. \A t \in 1..tokens' : sub'[t] \in Users
    BY <1>14, <2>1 DEF SignMfaToken, Held, TypeOK
  <2> QED BY <1>3, <1>14, <2>1, <2>2 DEF SignMfaToken, Held, Verifying, tables, requests
<1>15. CASE (\E u \in Users : DeleteUser(u)) \/ Expire \/ UNCHANGED vars
  BY <1>1, <1>3, <1>15 DEF DeleteUser, Expire, vars, tables, made, requests
<1> QED
  BY <1>4, <1>5, <1>7, <1>8, <1>9, <1>10, <1>11, <1>12, <1>13, <1>14, <1>15 DEF Next

-----------------------------------------------------------------------------
(* mfa_tokens. *)

LEMMA TokensStep == IInv /\ [Next]_vars => Tokens'
<1> SUFFICES ASSUME IInv, [Next]_vars PROVE Tokens'
  OBVIOUS
<1> USE DEF IInv
\* No mfa_token is presented and no session opened.
<1>1. ASSUME sessions' = sessions, revoked_jtis \subseteq revoked_jtis',
             doubled.tokens \subseteq doubled'.tokens,
             \A q \in Requests : Verifying(q)' => Verifying(q) /\ tok'[q] = tok[q]
      PROVE  Tokens'
  BY <1>1 DEF Tokens, SessionsSpend, TokenSpent
<1>2. ASSUME NEW r \in Requests, Finish(r)
      PROVE  \A q \in Requests : Verifying(q)' => Verifying(q) /\ tok'[q] = tok[q]
  BY <1>2 DEF Finish, Verifying, TypeOK
<1>3. ASSUME NEW u, NEW c, NoteDoubled(u, c) PROVE doubled'.tokens = doubled.tokens
  BY <1>3 DEF NoteDoubled, TypeOK
<1>4. ASSUME NEW r \in Requests, NEW l, NEW o, NEW u, NEW c, Begin(r, l, o, u, 0, c), o # "verify"
      PROVE  \A q \in Requests : Verifying(q)' => Verifying(q) /\ tok'[q] = tok[q]
  BY <1>4 DEF Begin, Verifying, TypeOK
<1>5. ASSUME NEW r \in Requests, NEW u \in Users, NEW c,
             StartSetup(r, u) \/ StartEnable(r, u, c) \/ StartDisableByTotp(r, u, c)
               \/ StartDisableByBackup(r, u, c)
      PROVE  Tokens'
  <2>1. \A q \in Requests : Verifying(q)' => Verifying(q) /\ tok'[q] = tok[q]
    BY <1>4, <1>5 DEF StartSetup, StartEnable, StartDisableByTotp, StartDisableByBackup
  <2> QED BY <1>1, <1>3, <1>5, <2>1
          DEF StartSetup, StartEnable, StartDisableByTotp, StartDisableByBackup, tables, history
<1>6. ASSUME NEW r \in Requests, NEW t \in 1..tokens, StartVerify(r, t) PROVE Tokens'
  <2>1. t \in Token /\ sessions[t] \in Nat /\ sessions[t] = 0
    BY <1>6, BoundsAssumption DEF StartVerify, FreshJti, Tokens, SessionsSpend, TypeOK, Token
  <2>2. doubled.tokens \subseteq doubled'.tokens
    BY <1>6 DEF StartVerify, TypeOK
  <2>3. ASSUME t \notin doubled'.tokens, NEW q \in Requests, Verifying(q), tok[q] = t PROVE FALSE
    <3>1. pc[q] # "session"
      BY <1>6, <2>3 DEF StartVerify, FreshJti, Held
    <3>2. Spending(q)
      BY <2>3, <3>1 DEF Spending, Verifying
    <3> QED BY <1>6, <2>3, <3>2 DEF StartVerify, TypeOK
  <2>4. /\ Verifying(r)' /\ tok'[r] = t /\ sessions' = sessions
        /\ \A q \in Requests \ {r} : (Verifying(q)' <=> Verifying(q)) /\ tok'[q] = tok[q]
    BY <1>6 DEF StartVerify, Begin, Verifying, TypeOK
  <2>5. ASSUME NEW d \in Token \ doubled'.tokens PROVE TokenSpent(d)'
    <3>1. TokenSpent(d)
      BY <2>2, <2>5 DEF Tokens
    <3>2. CASE d = t
      BY <2>1, <2>3, <2>4, <2>5, <3>1, <3>2 DEF TokenSpent
    <3>3. CASE d # t
      BY <2>4, <3>1, <3>3 DEF TokenSpent
    <3> QED BY <3>2, <3>3
  <2>6. SessionsSpend'
    BY <1>6 DEF StartVerify, Tokens, SessionsSpend, tables
  <2> QED BY <2>5, <2>6 DEF Tokens
<1>7. ASSUME NEW r \in Requests, NEW c, AcceptTotp(r, c) \/ FindBackupCode(r, c) PROVE Tokens'
  <2>1. \A q \in Requests : Verifying(q)' => Verifying(q) /\ tok'[q] = tok[q]
    BY <1>7 DEF AcceptTotp, FindBackupCode, Held, Verifying, TypeOK
  <2> QED BY <1>1, <1>3, <1>7, <2>1 DEF AcceptTotp, FindBackupCode, tables, history
<1>8. ASSUME NEW r \in Requests, ConsumeBackupCode(r) \/ SpendMfaToken(r) PROVE Tokens'
  <2>1. \A q \in Requests : Verifying(q)' => Verifying(q) /\ tok'[q] = tok[q]
    BY <1>8 DEF ConsumeBackupCode, SpendMfaToken, Held, Verifying, TypeOK
  <2> QED BY <1>1, <1>8, <2>1 DEF ConsumeBackupCode, SpendMfaToken, RevokeJti, history
<1>9. ASSUME NEW r \in Requests, OpenSession(r) PROVE Tokens'
  <2>0. Verifying(r) /\ tok[r] \in revoked_jtis
    BY <1>9 DEF OpenSession, Held, Verifying
  <2>1. Verifying(r) /\ tok[r] \in Token /\ tok[r] \in revoked_jtis
    BY <2>0, BoundsAssumption DEF TypeOK, Token
  <2>2. /\ sessions'[tok[r]] = sessions[tok[r]] + 1 /\ sessions[tok[r]] \in Nat
        /\ \A t \in Token \ {tok[r]} : sessions'[t] = sessions[t]
        /\ UNCHANGED <<doubled, revoked_jtis>>
    BY <1>9, <2>1 DEF OpenSession, TypeOK, tables
  <2>3. \A q \in Requests : Verifying(q)' => q # r /\ Verifying(q) /\ tok'[q] = tok[q]
    BY <1>9 DEF OpenSession, Finish, Verifying, TypeOK
  <2>4. ASSUME NEW t \in Token \ doubled.tokens PROVE TokenSpent(t)'
    <3>1. TokenSpent(t)
      BY <2>4 DEF Tokens
    <3>2. CASE t = tok[r]
      <4>1. sessions[t] = 0 /\ \A q \in Requests : Verifying(q) /\ tok[q] = t => q = r
        BY <2>1, <3>1, <3>2 DEF TokenSpent
      <4> QED BY <2>2, <2>3, <3>2, <4>1 DEF TokenSpent
    <3>3. CASE t # tok[r]
      BY <2>2, <2>3, <2>4, <3>1, <3>3 DEF TokenSpent
    <3> QED BY <3>2, <3>3
  <2>5. SessionsSpend'
    BY <2>1, <2>2 DEF Tokens, SessionsSpend
  <2> QED BY <2>2, <2>4, <2>5 DEF Tokens
<1>10. ASSUME NEW r \in Requests, SetupWrite(r) \/ EnableWrite(r) \/ DisableDelete(r) \/ Fail(r)
       PROVE  Tokens'
  BY <1>1, <1>2, <1>10 DEF SetupWrite, EnableWrite, DisableDelete, Fail, tables, history
<1>11. CASE (\E u \in Users : SignMfaToken(u) \/ DeleteUser(u)) \/ Expire \/ UNCHANGED vars
  BY <1>1, <1>11 DEF SignMfaToken, DeleteUser, Expire, vars, tables, requests, history, Verifying
<1> QED
  BY <1>5, <1>6, <1>7, <1>8, <1>9, <1>10, <1>11 DEF Next

-----------------------------------------------------------------------------
(* Backup codes. *)

LEMMA CodesStep == IInv /\ [Next]_vars => Codes'
<1> SUFFICES ASSUME IInv, [Next]_vars PROVE Codes'
  OBVIOUS
<1> USE DEF IInv
\* No code is issued, taken up or accepted.
<1>1. ASSUME \A u \in Users : backup_codes'[u] \subseteq backup_codes[u],
             uses' = uses, batches' = batches, doubled.codes \subseteq doubled'.codes,
             \A q \in Requests : pc'[q] = "consume" =>
               pc[q] = "consume" /\ code'[q] = code[q] /\ who'[q] = who[q]
      PROVE  Codes'
  <2>1. CodesMade' = CodesMade
    BY <1>1 DEF CodesMade
  <2>2. OneOwner'
    BY <1>1 DEF Codes, OneOwner
  <2>3. UsedCodesGone'
    BY <1>1 DEF Codes, UsedCodesGone
  <2>4. \A c \in BackupCodes \ doubled'.codes : CodeSpent(c)'
    BY <1>1 DEF Codes, CodeSpent
  <2> QED BY <1>1, <2>1, <2>2, <2>3, <2>4 DEF Codes
<1>2. ASSUME NEW r \in Requests, Finish(r)
      PROVE  \A q \in Requests : pc'[q] = "consume" =>
               pc[q] = "consume" /\ code'[q] = code[q] /\ who'[q] = who[q]
  BY <1>2 DEF Finish, TypeOK
<1>3. ASSUME NEW u, DropRow(u) PROVE \A v \in Users : backup_codes'[v] \subseteq backup_codes[v]
  BY <1>3 DEF DropRow, TypeOK
\* Request r takes up code c of account u.
<1>4. ASSUME NEW r \in Requests, NEW u \in Users, NEW c, BackupFits(u, c), NoteDoubled(u, c),
             UNCHANGED <<backup_codes, uses, batches>>,
             pc[r] # "consume", pc'[r] = "consume", code'[r] = c, who'[r] = u,
             \A q \in Requests \ {r} : UNCHANGED <<pc[q], code[q], who[q]>>
      PROVE  Codes'
  <2>1. CodesMade' = CodesMade
    BY <1>4 DEF CodesMade
  <2>2. c \in backup_codes[u] /\ c \in BackupCodes /\ uses[c] \in Nat /\ uses[c] = 0
    BY <1>4 DEF BackupFits, Codes, UsedCodesGone, TypeOK
  <2>3. OneOwner'
    <3>1. \A v \in Users : c \in backup_codes[v] => v = u
      BY <2>2 DEF Codes, OneOwner
    <3>2. \A q \in Requests : pc[q] = "consume" /\ code[q] = c => who[q] = u
      BY <2>2 DEF Codes, OneOwner
    <3>3. \A q \in Requests : pc'[q] = "consume" =>
            \/ q = r
            \/ pc[q] = "consume" /\ code'[q] = code[q] /\ who'[q] = who[q]
      BY <1>4
    <3>4. \A v, w \in Users : backup_codes'[v] \cap backup_codes'[w] # {} => v = w
      BY <1>4 DEF Codes, OneOwner
    <3>5. \A v \in Users, q \in Requests :
            pc'[q] = "consume" /\ code'[q] \in backup_codes'[v] => who'[q] = v
      BY <1>4, <3>1, <3>3 DEF Codes, OneOwner
    <3>6. ASSUME NEW p \in Requests, NEW q \in Requests,
                 pc'[p] = "consume", pc'[q] = "consume", code'[p] = code'[q]
          PROVE  who'[p] = who'[q]
      BY <1>4, <3>2, <3>3, <3>6 DEF Codes, OneOwner
    <3> QED BY <3>4, <3>5, <3>6 DEF OneOwner
  <2>4. UsedCodesGone'
    BY <1>4 DEF Codes, UsedCodesGone
  <2>5. /\ doubled.codes \subseteq doubled'.codes
        /\ c \notin doubled'.codes => \A q \in Requests : ~(pc[q] = "consume" /\ code[q] = c)
    <3>1. \A q \in Requests : pc[q] = "consume" /\ code[q] = c => q \in Waiting(u, "consume")
      BY <2>2 DEF Codes, OneOwner, Waiting
    <3> QED BY <1>4, <3>1 DEF NoteDoubled, TypeOK
  <2>6. ASSUME NEW d \in BackupCodes \ doubled'.codes PROVE CodeSpent(d)'
    <3>1. CodeSpent(d)
      BY <2>5, <2>6 DEF Codes
    <3>2. CASE d = c
      BY <1>4, <2>2, <2>5, <2>6, <3>1, <3>2 DEF CodeSpent
    <3>3. CASE d # c
      BY <1>4, <3>1, <3>3 DEF CodeSpent
    <3> QED BY <3>2, <3>3
  <2> QED BY <1>4, <2>1, <2>3, <2>4, <2>6 DEF Codes
<1>5. ASSUME NEW r \in Requests, NEW u \in Users, NEW c,
             StartSetup(r, u) \/ StartEnable(r, u, c) \/ StartDisableByTotp(r, u, c)
      PROVE  Codes'
  <2>1. \A q \in Requests : pc'[q] = "consume" =>
          pc[q] = "consume" /\ code'[q] = code[q] /\ who'[q] = who[q]
    BY <1>5 DEF StartSetup, StartEnable, StartDisableByTotp, Begin, TypeOK
  <2> QED BY <1>1, <1>5, <2>1
          DEF StartSetup, StartEnable, StartDisableByTotp, tables, made, history
<1>6. ASSUME NEW r \in Requests, NEW u \in Users, NEW c, StartDisableByBackup(r, u, c)
      PROVE  Codes'
  <2>1. /\ pc[r] # "consume" /\ pc'[r] = "consume" /\ code'[r] = c /\ who'[r] = u
        /\ \A q \in Requests \ {r} : UNCHANGED <<pc[q], code[q], who[q]>>
    BY <1>6 DEF StartDisableByBackup, Begin, TypeOK
  <2> QED BY <1>4, <1>6, <2>1 DEF StartDisableByBackup, tables, made
<1>7. ASSUME NEW r \in Requests, NEW c, FindBackupCode(r, c) PROVE Codes'
  <2>1. /\ pc[r] # "consume" /\ pc'[r] = "consume" /\ code'[r] = c /\ who'[r] = who[r]
        /\ who[r] \in Users
        /\ \A q \in Requests \ {r} : UNCHANGED <<pc[q], code[q], who[q]>>
    BY <1>7 DEF FindBackupCode, Held, TypeOK
  <2> QED BY <1>4, <1>7, <2>1 DEF FindBackupCode, tables, made
<1>8. ASSUME NEW r \in Requests, ConsumeBackupCode(r) PROVE Codes'
  <2> DEFINE u == who[r]
             c == code[r]
  <2>1. /\ pc[r] = "consume" /\ u \in Users /\ c \in CodesMade /\ c \in BackupCodes
        /\ CodesMade' = CodesMade
    BY <1>8, MadeAreCodes DEF ConsumeBackupCode, Held, CodesMade, made
  <2>2. /\ \A v \in Users : backup_codes'[v] = IF v = u THEN backup_codes[v] \ {c}
                                                     ELSE backup_codes[v]
        /\ doubled' = doubled
    BY <1>8, <2>1 DEF ConsumeBackupCode, Without, TypeOK
  <2>3. /\ uses'[c] = uses[c] + 1 /\ uses[c] \in Nat
        /\ \A d \in BackupCodes \ {c} : uses'[d] = uses[d]
    BY <1>8, <2>1 DEF ConsumeBackupCode, TypeOK
  <2>4. \A q \in Requests : pc'[q] = "consume" =>
          q # r /\ pc[q] = "consume" /\ code'[q] = code[q] /\ who'[q] = who[q]
    BY <1>8 DEF ConsumeBackupCode, TypeOK
  <2> HIDE DEF u, c
  <2>5. \A v \in Users : c \notin backup_codes'[v]
    <3>1. \A v \in Users : c \in backup_codes[v] => v = u
      BY <2>1 DEF Codes, OneOwner, u, c
    <3> QED BY <2>2, <3>1
  <2>6. \A v \in Users : backup_codes'[v] \subseteq backup_codes[v]
    BY <2>2
  <2>7. UsedCodesGone'
    BY <2>3, <2>5, <2>6 DEF Codes, UsedCodesGone
  <2>8. OneOwner'
    BY <2>4, <2>6 DEF Codes, OneOwner
  <2>9. ASSUME NEW d \in BackupCodes \ doubled.codes PROVE CodeSpent(d)'
    <3>1. CodeSpent(d)
      BY <2>9 DEF Codes
    <3>2. CASE d = c
      <4>1. uses[d] = 0 /\ \A q \in Requests : pc[q] = "consume" /\ code[q] = d => q = r
        BY <2>1, <3>1, <3>2 DEF CodeSpent, c
      <4> QED BY <2>3, <2>4, <3>2, <4>1 DEF CodeSpent
    <3>3. CASE d # c
      BY <2>3, <2>4, <2>9, <3>1, <3>3 DEF CodeSpent
    <3> QED BY <3>2, <3>3
  <2>10. \A d \in BackupCodes : uses'[d] > 0 => d \in CodesMade
    BY <2>1, <2>3 DEF Codes
  <2> QED BY <2>1, <2>2, <2>6, <2>7, <2>8, <2>9, <2>10 DEF Codes
<1>9. ASSUME NEW r \in Requests, EnableWrite(r) PROVE Codes'
  <2> DEFINE u == who[r]
             New == Batch(NextBatch)
  <2>1. u \in Users /\ CodesMade' = CodesMade \cup New /\ CodesMade \cap New = {} /\ New \subseteq BackupCodes
    BY <1>9, NewBatch DEF EnableWrite, Held
  <2>2. \A v \in Users : \/ backup_codes'[v] = backup_codes[v]
                         \/ v = u /\ backup_codes'[v] = New
    BY <1>9, <2>1 DEF EnableWrite, TypeOK
  <2>3. \A q \in Requests : pc'[q] = "consume" =>
          /\ pc[q] = "consume" /\ code'[q] = code[q] /\ who'[q] = who[q]
          /\ code[q] \in CodesMade
    BY <1>2, <1>9 DEF EnableWrite, Held
  <2>4. UNCHANGED <<uses, doubled>>
    BY <1>9 DEF EnableWrite, history
  <2> HIDE DEF u, New
  <2>5. UsedCodesGone'
    BY <2>1, <2>2, <2>4 DEF Codes, UsedCodesGone
  <2>6. OneOwner'
    <3>1. \A v, w \in Users : backup_codes'[v] \cap backup_codes'[w] # {} => v = w
      BY <2>1, <2>2 DEF Codes, OneOwner
    <3>2. \A v \in Users, q \in Requests :
            pc'[q] = "consume" /\ code'[q] \in backup_codes'[v] => who'[q] = v
      BY <2>1, <2>2, <2>3 DEF Codes, OneOwner
    <3>3. \A p, q \in Requests :
            pc'[p] = "consume" /\ pc'[q] = "consume" /\ code'[p] = code'[q] => who'[p] = who'[q]
      BY <2>3 DEF Codes, OneOwner
    <3> QED BY <3>1, <3>2, <3>3 DEF OneOwner
  <2>7. \A c \in BackupCodes \ doubled'.codes : CodeSpent(c)'
    BY <2>3, <2>4 DEF Codes, CodeSpent
  <2> QED BY <2>1, <2>2, <2>4, <2>5, <2>6, <2>7 DEF Codes
<1>10. ASSUME NEW r \in Requests, SetupWrite(r) \/ DisableDelete(r) \/ OpenSession(r) \/ Fail(r)
       PROVE  Codes'
  <2>1. \A v \in Users : backup_codes'[v] \subseteq backup_codes[v]
    BY <1>3, <1>10 DEF SetupWrite, DisableDelete, OpenSession, Fail, TypeOK, tables
  <2> QED BY <1>1, <1>2, <1>10, <2>1 DEF SetupWrite, DisableDelete, OpenSession, Fail, made, history
<1>11. ASSUME NEW r \in Requests,
              (\E t \in 1..tokens : StartVerify(r, t)) \/ (\E c \in Known : AcceptTotp(r, c))
                \/ SpendMfaToken(r)
       PROVE  Codes'
  <2>1. \A q \in Requests : pc'[q] = "consume" =>
          pc[q] = "consume" /\ code'[q] = code[q] /\ who'[q] = who[q]
    BY <1>11 DEF StartVerify, AcceptTotp, SpendMfaToken, Begin, TypeOK
  <2>2. doubled'.codes = doubled.codes
    BY <1>11 DEF StartVerify, AcceptTotp, SpendMfaToken, TypeOK, history
  <2> QED BY <1>1, <1>11, <2>1, <2>2 DEF StartVerify, AcceptTotp, SpendMfaToken, tables, made, history
<1>12. ASSUME NEW u \in Users, DeleteUser(u) PROVE Codes'
  BY <1>1, <1>3, <1>12 DEF DeleteUser, made, requests, history
<1>13. CASE (\E u \in Users : SignMfaToken(u)) \/ Expire \/ UNCHANGED vars
  BY <1>1, <1>13 DEF SignMfaToken, Expire, vars, tables, made, requests, history
<1> QED
  BY <1>5, <1>6, <1>7, <1>8, <1>9, <1>10, <1>11, <1>12, <1>13 DEF Next

-----------------------------------------------------------------------------
(* Enrolment. *)

LEMMA EnrolmentStep == IInv /\ [Next]_vars => Enrolment'
<1> SUFFICES ASSUME IInv, [Next]_vars PROVE Enrolment'
  OBVIOUS
<1> USE DEF IInv
\* No enrolment begins, and rows only go.
<1>1. ASSUME raced \subseteq raced', confirmed \subseteq confirmed', enabled' \subseteq enabled,
             \A u \in Users : secret'[u] = secret[u] \/ (secret'[u] = 0 /\ u \notin enabled'),
             \A q \in Requests : pc'[q] \in {"setup", "enable"} =>
               pc'[q] = pc[q] /\ who'[q] = who[q]
      PROVE  Enrolment'
  <2>1. ConfirmedUnlessRaced'
    BY <1>1 DEF Enrolment, ConfirmedUnlessRaced, TypeOK
  <2>2. ASSUME NEW r \in Requests, pc'[r] = "enable"
        PROVE  \/ who'[r] \in raced'
               \/ secret'[who'[r]] = 0
               \/ secret'[who'[r]] \in confirmed'
    BY <1>1, <2>2 DEF Enrolment, Held
  <2>3. ASSUME NEW r \in Requests, pc'[r] = "setup"
        PROVE  /\ who'[r] \in enabled' => who'[r] \in raced'
               /\ \A q \in Requests : pc'[q] = "enable" /\ who'[q] = who'[r] => who'[r] \in raced'
    BY <1>1, <2>3 DEF Enrolment
  <2> QED BY <2>1, <2>2, <2>3 DEF Enrolment
<1>2. ASSUME NEW r \in Requests, Finish(r)
      PROVE  /\ pc'[r] = "idle"
             /\ \A q \in Requests : pc'[q] \in {"setup", "enable"} =>
                  pc'[q] = pc[q] /\ who'[q] = who[q]
  BY <1>2 DEF Finish, TypeOK
<1>3. ASSUME NEW u, DropRow(u)
      PROVE  /\ enabled' \subseteq enabled
             /\ \A v \in Users : secret'[v] = secret[v] \/ (secret'[v] = 0 /\ v \notin enabled')
  BY <1>3 DEF DropRow, TypeOK
<1>4. ASSUME NEW r \in Requests, NEW u \in Users, StartSetup(r, u) PROVE Enrolment'
  <2>1. /\ pc'[r] = "setup" /\ who'[r] = u /\ u \notin enabled
        /\ \A q \in Requests \ {r} : pc'[q] = pc[q] /\ who'[q] = who[q]
        /\ raced \subseteq raced' /\ UNCHANGED <<secret, enabled, confirmed>>
    BY <1>4 DEF StartSetup, SetupAllowed, Begin, TypeOK, tables
  <2>2. \A q \in Requests : pc[q] = "enable" /\ who[q] = u => u \in raced'
    BY <1>4 DEF StartSetup, Waiting
  <2> QED BY <2>1, <2>2 DEF Enrolment, ConfirmedUnlessRaced
<1>5. ASSUME NEW r \in Requests, SetupWrite(r) PROVE Enrolment'
  <2> DEFINE u == who[r]
  <2>1. /\ pc[r] = "setup" /\ u \in Users /\ enabled' = enabled \ {u}
        /\ \A v \in Users \ {u} : secret'[v] = secret[v]
        /\ UNCHANGED <<raced, confirmed>>
    BY <1>5 DEF SetupWrite, Held, TypeOK, history
  <2>2. \A q \in Requests : pc'[q] \in {"setup", "enable"} => pc'[q] = pc[q] /\ who'[q] = who[q]
    BY <1>2, <1>5 DEF SetupWrite
  <2>3. \A q \in Requests : pc[q] = "enable" /\ who[q] = u => u \in raced
    BY <2>1 DEF Enrolment
  <2>4. ConfirmedUnlessRaced'
    BY <2>1 DEF Enrolment, ConfirmedUnlessRaced, TypeOK
  <2>5. ASSUME NEW q \in Requests, pc'[q] = "enable"
        PROVE  \/ who'[q] \in raced'
               \/ secret'[who'[q]] = 0
               \/ secret'[who'[q]] \in confirmed'
    BY <2>1, <2>2, <2>3, <2>5 DEF Enrolment, Held
  <2>6. ASSUME NEW q \in Requests, pc'[q] = "setup"
        PROVE  /\ who'[q] \in enabled' => who'[q] \in raced'
               /\ \A p \in Requests : pc'[p] = "enable" /\ who'[p] = who'[q] => who'[q] \in raced'
    BY <2>1, <2>2, <2>6 DEF Enrolment
  <2> QED BY <2>4, <2>5, <2>6 DEF Enrolment
<1>6. ASSUME NEW r \in Requests, NEW u \in Users, NEW c, StartEnable(r, u, c) PROVE Enrolment'
  <2>1. /\ pc'[r] = "enable" /\ who'[r] = u /\ secret[u] \in confirmed'
        /\ \A q \in Requests \ {r} : pc'[q] = pc[q] /\ who'[q] = who[q]
        /\ raced \subseteq raced' /\ confirmed \subseteq confirmed' /\ UNCHANGED <<secret, enabled>>
    BY <1>6 DEF StartEnable, LiveCode, Begin, TypeOK, tables
  <2>2. \A q \in Requests : pc[q] = "setup" /\ who[q] = u => u \in raced'
    BY <1>6 DEF StartEnable, Waiting
  <2> QED BY <2>1, <2>2 DEF Enrolment, ConfirmedUnlessRaced
<1>7. ASSUME NEW r \in Requests, EnableWrite(r) PROVE Enrolment'
  <2> DEFINE u == who[r]
  <2>1. /\ pc[r] = "enable" /\ u \in Users
        /\ enabled' = enabled \/ (enabled' = enabled \cup {u} /\ secret[u] # 0)
        /\ UNCHANGED <<raced, confirmed, secret>>
    BY <1>7 DEF EnableWrite, RowThere, Held, history
  <2>2. \A q \in Requests : pc'[q] \in {"setup", "enable"} => pc'[q] = pc[q] /\ who'[q] = who[q]
    BY <1>2, <1>7 DEF EnableWrite
  <2>3. /\ \A q \in Requests : pc[q] = "setup" /\ who[q] = u => u \in raced
        /\ u \in raced \/ secret[u] = 0 \/ secret[u] \in confirmed
    BY <2>1 DEF Enrolment
  <2>4. ConfirmedUnlessRaced'
    BY <2>1, <2>3 DEF Enrolment, ConfirmedUnlessRaced
  <2>5. ASSUME NEW q \in Requests, pc'[q] = "setup"
        PROVE  /\ who'[q] \in enabled' => who'[q] \in raced'
               /\ \A p \in Requests : pc'[p] = "enable" /\ who'[p] = who'[q] => who'[q] \in raced'
    BY <2>1, <2>2, <2>3, <2>5 DEF Enrolment
  <2>6. ASSUME NEW q \in Requests, pc'[q] = "enable"
        PROVE  \/ who'[q] \in raced'
               \/ secret'[who'[q]] = 0
               \/ secret'[who'[q]] \in confirmed'
    BY <2>1, <2>2, <2>6 DEF Enrolment
  <2> QED BY <2>4, <2>5, <2>6 DEF Enrolment
<1>8. ASSUME NEW r \in Requests, NEW u, NEW c,
             StartDisableByTotp(r, u, c) \/ StartDisableByBackup(r, u, c)
      PROVE  Enrolment'
  <2>1. \A q \in Requests : pc'[q] \in {"setup", "enable"} => pc'[q] = pc[q] /\ who'[q] = who[q]
    BY <1>8 DEF StartDisableByTotp, StartDisableByBackup, Begin, TypeOK
  <2> QED BY <1>1, <1>8, <2>1 DEF StartDisableByTotp, StartDisableByBackup, tables, history
<1>9. ASSUME NEW r \in Requests,
             (\E t \in 1..tokens : StartVerify(r, t))
               \/ (\E c \in Known : AcceptTotp(r, c) \/ FindBackupCode(r, c))
               \/ ConsumeBackupCode(r) \/ SpendMfaToken(r)
      PROVE  Enrolment'
  <2>1. \A q \in Requests : pc'[q] \in {"setup", "enable"} => pc'[q] = pc[q] /\ who'[q] = who[q]
    BY <1>9 DEF StartVerify, AcceptTotp, FindBackupCode, ConsumeBackupCode, SpendMfaToken,
                Begin, TypeOK
  <2> QED BY <1>1, <1>9, <2>1
          DEF StartVerify, AcceptTotp, FindBackupCode, ConsumeBackupCode, SpendMfaToken,
              tables, history
<1>10. ASSUME NEW r \in Requests, OpenSession(r) \/ Fail(r) PROVE Enrolment'
  BY <1>1, <1>2, <1>10 DEF OpenSession, Fail, tables, history
<1>11. ASSUME NEW r \in Requests, DisableDelete(r) PROVE Enrolment'
  BY <1>1, <1>2, <1>3, <1>11 DEF DisableDelete, history
<1>12. ASSUME NEW u \in Users, DeleteUser(u) PROVE Enrolment'
  BY <1>1, <1>3, <1>12 DEF DeleteUser, requests, history
<1>13. CASE (\E u \in Users : SignMfaToken(u)) \/ Expire \/ UNCHANGED vars
  BY <1>1, <1>13 DEF SignMfaToken, Expire, vars, tables, requests, history
<1> QED
  BY <1>4, <1>5, <1>6, <1>7, <1>8, <1>9, <1>10, <1>11, <1>12, <1>13 DEF Next

-----------------------------------------------------------------------------
(* The theorems. *)

LEMMA InitIInv == Init => IInv
<1> SUFFICES ASSUME Init PROVE IInv
  OBVIOUS
<1> USE BoundsAssumption DEF Init
<1>1. TypeOK
  BY BatchFacts DEF TypeOK, Token
<1>2. Held /\ Enrolment
  BY DEF Held, Enrolment, ConfirmedUnlessRaced, Verifying
<1>3. Tokens
  BY DEF Tokens, SessionsSpend, TokenSpent, Verifying
<1>4. Codes
  BY DEF Codes, OneOwner, UsedCodesGone, CodeSpent
<1> QED BY <1>1, <1>2, <1>3, <1>4 DEF IInv

LEMMA IInvStep == IInv /\ [Next]_vars => IInv'
BY TypeStep, HeldStep, TokensStep, CodesStep, EnrolmentStep DEF IInv

LEMMA Invariance == Spec => []IInv
BY InitIInv, IInvStep, PTL DEF Spec

\* user_mfa, the tokens and the requests keep their types; only an account with a row
\* has 2FA on or backup codes.
THEOREM TypeCorrect == Spec => []TypeOK
<1>1. IInv => TypeOK
  BY DEF IInv
<1> QED BY <1>1, Invariance, PTL

\* verify lists the mfa_token before it opens the session, so no failure in between
\* leaves the token good for a second one.
THEOREM SessionsCostTokens == Spec => []SessionsSpend
<1>1. IInv => SessionsSpend
  BY DEF IInv, Tokens
<1> QED BY <1>1, Invariance, PTL

\* However a verification is replayed, delayed or retried, its mfa_token opens one
\* session, unless two verifications of it overlapped.
OneSessionUnlessDoubled ==
  \A t \in Token : t \notin doubled.tokens => sessions[t] <= 1

THEOREM TokensOpenOne == Spec => []OneSessionUnlessDoubled
<1>1. IInv => OneSessionUnlessDoubled
  BY DEF IInv, Tokens, TokenSpent, OneSessionUnlessDoubled
<1> QED BY <1>1, Invariance, PTL

\* Whether verify or disable takes it, a backup code is accepted once, unless two
\* requests held it at the same time.
BackupCodeOnceUnlessDoubled ==
  \A c \in BackupCodes : c \notin doubled.codes => uses[c] <= 1

THEOREM CodesAcceptedOnce == Spec => []BackupCodeOnceUnlessDoubled
<1>1. IInv => BackupCodeOnceUnlessDoubled
  BY DEF IInv, Codes, CodeSpent, BackupCodeOnceUnlessDoubled
<1> QED BY <1>1, Invariance, PTL

\* A backup code that was accepted is in no row ever after.
THEOREM AcceptedCodesGone == Spec => []UsedCodesGone
<1>1. IInv => UsedCodesGone
  BY DEF IInv, Codes
<1> QED BY <1>1, Invariance, PTL

\* enable switches on the secret whose code it has seen, unless a setup overlapped.
THEOREM EnabledConfirmed == Spec => []ConfirmedUnlessRaced
<1>1. IInv => ConfirmedUnlessRaced
  BY DEF IInv, Enrolment
<1> QED BY <1>1, Invariance, PTL

\* Only disable, with its code accepted, or the end of the account switches 2FA off,
\* unless a setup and an enable overlapped.
THEOREM OffByCode == Spec => OffOnlyByCode
<1>1. IInv /\ [Next]_vars =>
        [\A u \in enabled \ enabled' :
           \/ \E r \in Waiting(u, "delete") : DisableDelete(r)
           \/ u \in deleted'
           \/ u \in raced]_vars
  <2> SUFFICES ASSUME IInv, [Next]_vars, NEW u \in enabled \ enabled'
               PROVE  \/ \E r \in Waiting(u, "delete") : DisableDelete(r)
                      \/ u \in deleted'
                      \/ u \in raced
    OBVIOUS
  <2>1. \/ \E r \in Requests : SetupWrite(r) \/ DisableDelete(r)
        \/ \E v \in Users : DeleteUser(v)
    BY DEF Next, StartSetup, StartEnable, StartDisableByTotp, StartDisableByBackup, StartVerify,
           AcceptTotp, FindBackupCode, EnableWrite, ConsumeBackupCode, SpendMfaToken,
           OpenSession, Fail, SignMfaToken, Expire, tables, vars
  <2>2. ASSUME NEW r \in Requests, SetupWrite(r) PROVE u \in raced
    <3>1. u = who[r] /\ pc[r] = "setup"
      BY <2>2 DEF SetupWrite
    <3> QED BY <3>1 DEF IInv, Enrolment
  <2>3. ASSUME NEW r \in Requests, DisableDelete(r)
        PROVE  \E q \in Waiting(u, "delete") : DisableDelete(q)
    <3>1. u = who[r] /\ pc[r] = "delete"
      BY <2>3 DEF DisableDelete, DropRow
    <3>2. r \in Waiting(u, "delete")
      BY <3>1 DEF Waiting
    <3> QED BY <2>3, <3>2
  <2>4. ASSUME NEW v \in Users, DeleteUser(v) PROVE u \in deleted'
    BY <2>4 DEF DeleteUser, DropRow
  <2> QED BY <2>1, <2>2, <2>3, <2>4
<1> QED BY <1>1, Invariance, PTL DEF Spec, OffOnlyByCode
-----------------------------------------------------------------------------
(* The mfa_tokens and the backup codes implement OneShot. *)

LEMMA InitPromises == Init => MfaTokens!Init /\ Backups!Init
BY DEF Init, MfaTokens!Init, Backups!Init, CodesMade

\* login issues an mfa_token, the session it is traded for honours it, and a second
\* verification of it on the way makes it loose; the rest is a stutter.
LEMMA MfaTokensStep == IInv /\ [Next]_vars => [MfaTokens!Next]_MfaTokens!vars
<1> SUFFICES ASSUME IInv, [Next]_vars PROVE [MfaTokens!Next]_MfaTokens!vars
  OBVIOUS
<1>t. TypeOK /\ 1..tokens \subseteq Token
  BY BoundsAssumption DEF IInv, TypeOK, Token
<1>1. ASSUME NEW u \in Users, SignMfaToken(u) PROVE MfaTokens!Next
  <2>1. /\ {tokens + 1} \in SUBSET (Token \ 1..tokens)
        /\ 1..tokens' = 1..tokens \cup {tokens + 1}
        /\ UNCHANGED <<sessions, doubled>>
    BY <1>t, <1>1, BoundsAssumption DEF TypeOK, SignMfaToken, Token, history
  <2>2. MfaTokens!Issue({tokens + 1})
    BY <2>1 DEF MfaTokens!Issue
  <2> QED BY <2>1, <2>2 DEF MfaTokens!Next
<1>2. ASSUME NEW r \in Requests, NEW t \in 1..tokens, StartVerify(r, t)
      PROVE  [MfaTokens!Next]_MfaTokens!vars
  <2>1. UNCHANGED <<tokens, sessions>>
    BY <1>2 DEF StartVerify, made
  <2>2. doubled'.tokens \in {doubled.tokens, doubled.tokens \cup {t}}
    BY <1>t, <1>2 DEF StartVerify, TypeOK
  <2>3. CASE doubled'.tokens = doubled.tokens \cup {t}
    <3>1. MfaTokens!Loosen(t)
      BY <2>1, <2>3 DEF MfaTokens!Loosen
    <3> QED BY <1>t, <3>1 DEF MfaTokens!Next
  <2>4. CASE doubled'.tokens = doubled.tokens
    BY <2>1, <2>4 DEF MfaTokens!vars
  <2> QED BY <2>2, <2>3, <2>4
<1>3. ASSUME NEW r \in Requests, OpenSession(r) PROVE MfaTokens!Next
  <2>1. Verifying(r) /\ tok[r] \in 1..tokens
    BY <1>3 DEF IInv, Held, OpenSession, Verifying
  <2>2. sessions[tok[r]] = 0 \/ tok[r] \in doubled.tokens
    BY <1>t, <2>1 DEF IInv, Tokens, TokenSpent
  <2>3. MfaTokens!Honour(tok[r])
    BY <1>3, <2>1, <2>2 DEF OpenSession, MfaTokens!Honour, made
  <2> QED BY <1>t, <2>1, <2>3 DEF MfaTokens!Next
<1>4. ASSUME NEW r \in Requests, NEW u, NEW c, NoteDoubled(u, c)
      PROVE  doubled'.tokens = doubled.tokens
  BY <1>t, <1>4 DEF NoteDoubled, TypeOK
<1>5. CASE \E r \in Requests, c \in Known :
             FindBackupCode(r, c) \/ \E u \in Users : StartDisableByBackup(r, u, c)
  <2>1. doubled'.tokens = doubled.tokens
    BY <1>4, <1>5 DEF FindBackupCode, StartDisableByBackup
  <2> QED BY <1>5, <2>1 DEF FindBackupCode, StartDisableByBackup, made, MfaTokens!vars
<1>6. CASE /\ ~\E u \in Users : SignMfaToken(u)
           /\ ~\E r \in Requests, t \in 1..tokens : StartVerify(r, t)
           /\ ~\E r \in Requests : OpenSession(r)
           /\ ~\E r \in Requests, c \in Known :
                 FindBackupCode(r, c) \/ \E u \in Users : StartDisableByBackup(r, u, c)
  <2>1. UNCHANGED <<tokens, sessions, doubled>>
    BY <1>6 DEF Next, StartSetup, SetupWrite, StartEnable, EnableWrite, StartDisableByTotp,
      AcceptTotp, ConsumeBackupCode, SpendMfaToken, DisableDelete, DeleteUser, Expire, Fail,
      made, history, vars
  <2> QED BY <2>1 DEF MfaTokens!vars
<1> QED BY <1>1, <1>2, <1>3, <1>5, <1>6

\* enable issues a set of backup codes, checkAnyCode honours one when it removes it,
\* and a second request that has read the code by then makes it loose.
LEMMA BackupsStep == IInv /\ [Next]_vars => [Backups!Next]_Backups!vars
<1> SUFFICES ASSUME IInv, [Next]_vars PROVE [Backups!Next]_Backups!vars
  OBVIOUS
<1>t. TypeOK /\ CodesMade \subseteq BackupCodes
  BY MadeAreCodes DEF IInv
<1>1. ASSUME NEW r \in Requests, EnableWrite(r) PROVE Backups!Next
  <2>1. /\ CodesMade' = CodesMade \cup Batch(NextBatch)
        /\ Batch(NextBatch) \in SUBSET (BackupCodes \ CodesMade)
    BY <1>t, <1>1, NewBatch DEF EnableWrite
  <2>2. Backups!Issue(Batch(NextBatch))
    BY <1>1, <2>1 DEF EnableWrite, Backups!Issue, history
  <2> QED BY <2>1, <2>2 DEF Backups!Next
<1>2. ASSUME NEW u, NEW c \in CodesMade, NoteDoubled(u, c), UNCHANGED <<batches, uses>>
      PROVE  [Backups!Next]_Backups!vars
  <2>1. doubled'.codes \in {doubled.codes, doubled.codes \cup {c}}
    BY <1>t, <1>2 DEF NoteDoubled, TypeOK
  <2>2. CodesMade' = CodesMade
    BY <1>2 DEF CodesMade, Batch
  <2>3. CASE doubled'.codes = doubled.codes \cup {c}
    <3>1. Backups!Loosen(c)
      BY <1>2, <2>2, <2>3 DEF Backups!Loosen
    <3> QED BY <1>t, <3>1 DEF Backups!Next
  <2>4. CASE doubled'.codes = doubled.codes
    BY <1>2, <2>2, <2>4 DEF Backups!vars
  <2> QED BY <2>1, <2>3, <2>4
<1>3. ASSUME NEW r \in Requests, NEW c \in Known, FindBackupCode(r, c)
      PROVE  [Backups!Next]_Backups!vars
  <2>1. c \in CodesMade
    <3>1. who[r] \in Users /\ c \in backup_codes[who[r]]
      BY <1>3 DEF IInv, Held, FindBackupCode, BackupFits
    <3> QED BY <3>1 DEF IInv, Codes
  <2> QED BY <1>2, <1>3, <2>1 DEF FindBackupCode, made
<1>4. ASSUME NEW r \in Requests, NEW u \in Users, NEW c \in Known, StartDisableByBackup(r, u, c)
      PROVE  [Backups!Next]_Backups!vars
  <2>1. c \in CodesMade
    BY <1>4 DEF IInv, Codes, StartDisableByBackup, BackupFits
  <2> QED BY <1>2, <1>4, <2>1 DEF StartDisableByBackup, made
<1>5. ASSUME NEW r \in Requests, ConsumeBackupCode(r) PROVE Backups!Next
  <2>1. code[r] \in CodesMade /\ code[r] \in BackupCodes /\ pc[r] = "consume"
    BY <1>t, <1>5 DEF IInv, Held, ConsumeBackupCode
  <2>2. uses[code[r]] = 0 \/ code[r] \in doubled.codes
    BY <2>1 DEF IInv, Codes, CodeSpent
  <2>3. CodesMade' = CodesMade
    BY <1>5 DEF ConsumeBackupCode, made, CodesMade, Batch
  <2>4. Backups!Honour(code[r])
    BY <1>5, <2>1, <2>2, <2>3 DEF ConsumeBackupCode, Backups!Honour
  <2> QED BY <2>1, <2>4 DEF Backups!Next
<1>6. ASSUME NEW r \in Requests, NEW t \in 1..tokens, StartVerify(r, t)
      PROVE  UNCHANGED Backups!vars
  <2>1. doubled'.codes = doubled.codes
    BY <1>t, <1>6 DEF StartVerify, TypeOK
  <2> QED BY <1>6, <2>1 DEF StartVerify, made, CodesMade, Batch, Backups!vars
<1>7. CASE /\ ~\E r \in Requests : EnableWrite(r) \/ ConsumeBackupCode(r)
           /\ ~\E r \in Requests, t \in 1..tokens : StartVerify(r, t)
           /\ ~\E r \in Requests, c \in Known :
                 FindBackupCode(r, c) \/ \E u \in Users : StartDisableByBackup(r, u, c)
  <2>1. UNCHANGED <<batches, uses, doubled>>
    BY <1>7 DEF Next, StartSetup, SetupWrite, StartEnable, StartDisableByTotp, AcceptTotp,
      SignMfaToken, SpendMfaToken, OpenSession, DisableDelete, DeleteUser, Expire, Fail,
      made, history, vars
  <2> QED BY <2>1 DEF CodesMade, Batch, Backups!vars
<1> QED BY <1>1, <1>3, <1>4, <1>5, <1>6, <1>7

\* The mfa_tokens keep the promise of a single-use token, for any accounts, requests
\* and number of tokens.
THEOREM TokensKeepPromise == Spec => TokenPromise
BY Invariance, InitPromises, MfaTokensStep, PTL DEF Spec, TokenPromise, MfaTokens!Spec

\* So do the backup codes, of any number per set and sets.
THEOREM CodesKeepPromise == Spec => CodePromise
BY Invariance, InitPromises, BackupsStep, PTL DEF Spec, CodePromise, Backups!Spec

=============================================================================
