---------------------------- MODULE DashboardProofs ----------------------------
(***************************************************************************)
(* The dashboard of Dashboard for any accounts, requests, reloads and      *)
(* values.                                                                 *)
(***************************************************************************)
EXTENDS Dashboard, TLAPS

-----------------------------------------------------------------------------
(* The inductive invariant. *)

\* Everything rw holds is among the first c values, and m says it was chosen for u.
ChosenFor(c, m, u, rw) ==
  \A f \in Fields : rw[f] > 0 => rw[f] <= c /\ m[rw[f]] = <<u, f>>

\* So does every copy of a row: in a list, in an answer, in the form and in the save.
CopiesChosen ==
  /\ \A u \in Users : ChosenFor(chosen, meant, u, row[u])
  /\ \A u \in DOMAIN allUsers : ChosenFor(chosen, meant, u, allUsers[u])
  /\ \A l \in Loads : \A u \in DOMAIN snap[l] : ChosenFor(chosen, meant, u, snap[l][u])
  /\ ChosenFor(chosen, meant, modal, form)
  /\ ChosenFor(chosen, meant, target, payload)

\* A save under way is for an account of the list, and done with the form's values
\* once both statements are through.
SaveNamed ==
  /\ save \in {"users", "settings", "select"} => target \in Users
  /\ save \notin {"users", "settings"} => payload = Default

\* An account that is still to be registered has sent nothing.
Unborn ==
  \A u \in joining : u \notin account /\ Syncing(u) = {} /\ synced[u] = 0

\* The owner's broadcasts: one at a time, of the theme that is stored.
OwnerInStep ==
  \A u \in account \ crossed :
    /\ \A r \in Syncing(u) : ret[r] = row[u]["theme"] /\ Syncing(u) = {r}
    /\ Syncing(u) = {} => synced[u] = row[u]["theme"]

\* A change is done whose reload is still to be asked for.
Owed == save \in {"settings", "select", "ok"} \/ del = "ok"

\* A list that nothing excuses is current, or about to be: one reload at a time,
\* and what it has read is what there is, or another is still to come.
ReloadsInStep ==
  ~ excused =>
    /\ \A l, m \in InFlight : l = m
    /\ \/ Owed
       \/ /\ \A l \in Loads : load[l] = "back" => Names(snap[l]) = Known
          /\ InFlight = {} => Names(allUsers) = Known

IInv ==
  /\ TypeOK
  /\ CopiesChosen
  /\ SaveNamed
  /\ Unborn
  /\ OwnerInStep
  /\ ReloadsInStep

-----------------------------------------------------------------------------
(* Types. *)

LEMMA Defaults ==
  /\ Default \in Rows /\ 0 \in Values
  /\ <<>> \in Snapshots
  /\ \A S : \A g : S \subseteq Users /\ g \in [S -> Rows] => g \in Snapshots
<1>1. 0 \in Values /\ Default \in Rows
  BY BoundAssumption DEF Values, Default, Rows
<1>2. <<>> \in [{} -> Rows]
  OBVIOUS
<1>3. \A S : \A g : S \subseteq Users /\ g \in [S -> Rows] => g \in Snapshots
  BY DEF Snapshots
<1> QED BY <1>1, <1>2, <1>3

LEMMA TypeStep == TypeOK /\ SaveNamed /\ [Next]_vars => TypeOK'
<1> SUFFICES ASSUME TypeOK, SaveNamed, [Next]_vars PROVE TypeOK'
  OBVIOUS
<1> USE Defaults
<1>c. ASSUME NEW u \in Users, NEW f \in Fields, Choose(u, f)
      PROVE  /\ chosen + 1 \in Values /\ chosen' \in Values
             /\ meant' \in [1..MaxValues -> (Users \cup {NoUser}) \X Fields]
  <2>1. chosen + 1 \in 1..MaxValues /\ chosen' = chosen + 1
    BY <1>c, BoundAssumption DEF Choose, TypeOK, Values
  <2>2. <<u, f>> \in (Users \cup {NoUser}) \X Fields
    OBVIOUS
  <2> QED BY <1>c, <2>1, <2>2 DEF Choose, TypeOK, Values
<1>1. ASSUME NEW r \in Requests, NEW u \in Owners, NEW n \in Values, UpdateSettings(r, u, n)
      PROVE  TypeOK'
  <2>0. u \in Users /\ "theme" \in Fields
    BY BoundAssumption DEF Fields
  <2>1. chosen' \in Values /\ meant' \in [1..MaxValues -> (Users \cup {NoUser}) \X Fields]
    BY <1>1, <1>c, <2>0 DEF UpdateSettings, Again, TypeOK, made
  <2>2. row[u] \in Rows /\ [row[u] EXCEPT !["theme"] = n] \in Rows
    BY <2>0 DEF TypeOK, Rows
  <2>3. row' \in [Users -> Rows] /\ \A v \in Users \ account : row'[v] = Default
    BY <1>1, <2>0, <2>2 DEF UpdateSettings, TypeOK
  <2>4. crossed' \subseteq Users
    BY <1>1, <2>0 DEF UpdateSettings, TypeOK
  <2>5. /\ pc' \in [Requests -> {"idle", "sync"}]
        /\ who' \in [Requests -> Users \cup {NoUser}]
        /\ ret' \in [Requests -> Values]
        /\ \A q \in Requests : pc'[q] = "idle" <=> who'[q] = NoUser
    BY <1>1, <2>0, NobodyAssumption DEF UpdateSettings, TypeOK
  <2> QED BY <1>1, <2>1, <2>3, <2>4, <2>5 DEF UpdateSettings, TypeOK, list, edit, delete
<1>0. ASSUME NEW u \in Users, Register(u) PROVE TypeOK'
  BY <1>0 DEF Register, TypeOK, process, edit, delete, made, history
<1>a. ASSUME NEW r \in Requests, UpdateFails(r) PROVE TypeOK'
  <2>1. who[r] \in Users
    BY <1>a DEF UpdateFails, TypeOK
  <2> QED BY <1>a, <2>1 DEF UpdateFails, Answer, TypeOK, tables, list, edit, delete, made
<1>2. ASSUME NEW r \in Requests, EmitSettingsSync(r) PROVE TypeOK'
  <2>1. Sent(r) \in Values
    BY DEF Sent, TypeOK
  <2>2. synced' \in [Users -> Values] /\ crossed' \subseteq Users
    BY <1>2, <2>1 DEF EmitSettingsSync, TypeOK
  <2>3. /\ pc' \in [Requests -> {"idle", "sync"}]
        /\ who' \in [Requests -> Users \cup {NoUser}]
        /\ ret' \in [Requests -> Values]
        /\ \A q \in Requests : pc'[q] = "idle" <=> who'[q] = NoUser
    BY <1>2 DEF EmitSettingsSync, Answer, TypeOK
  <2> QED BY <1>2, <2>2, <2>3 DEF EmitSettingsSync, TypeOK, tables, list, edit, delete, made
<1>3. ASSUME NEW l \in Loads, LoadUsers(l)
      PROVE  /\ load' \in [Loads -> {"idle", "sent", "back"}]
             /\ UNCHANGED <<allUsers, snap, late>>
  BY <1>3 DEF LoadUsers, TypeOK
<1>4. ASSUME NEW l \in Loads, SelectUsers(l) PROVE TypeOK'
  <2>1. Selected \in Snapshots
    <3>1. Selected \in [account -> Rows] /\ account \subseteq Users
      BY DEF Selected, TypeOK
    <3> QED BY <3>1
  <2>2. snap' \in [Loads -> Snapshots] /\ load' \in [Loads -> {"idle", "sent", "back"}]
    BY <1>4, <2>1 DEF SelectUsers, TypeOK
  <2> QED BY <1>4, <2>2 DEF SelectUsers, TypeOK, tables, process, edit, delete, made, history
<1>5. ASSUME NEW l \in Loads, ShowUsers(l) PROVE TypeOK'
  <2>1. /\ allUsers' \in Snapshots /\ snap' \in [Loads -> Snapshots]
        /\ load' \in [Loads -> {"idle", "sent", "back"}] /\ excused' \in BOOLEAN
    BY <1>5 DEF ShowUsers, TypeOK
  <2> QED BY <1>5, <2>1 DEF ShowUsers, TypeOK, tables, process, edit, delete, made
<1>6. ASSUME NEW l \in Loads, LoadFails(l) PROVE TypeOK'
  BY <1>6 DEF LoadFails, TypeOK, tables, process, edit, delete, made
<1>7. ASSUME NEW u \in Users, OpenEditModal(u) PROVE TypeOK'
  <2>1. Filled(u) \in Rows
    BY <1>7 DEF OpenEditModal, Filled, TypeOK, Snapshots
  <2> QED BY <1>7, <2>1 DEF OpenEditModal, TypeOK, tables, process, list, delete, made, history
<1>8. ASSUME NEW f \in Fields, Type(f) PROVE TypeOK'
  <2>1. modal \in Users /\ Choose(modal, f)
    BY <1>8 DEF Type, TypeOK
  <2>2. form' \in Rows
    BY <1>8, <1>c, <2>1 DEF Type, TypeOK, Rows
  <2> QED BY <1>8, <1>c, <2>1, <2>2 DEF Type, TypeOK, tables, process, list, delete, history
<1>9. CASE CloseEditModal \/ Submit \/ AskDelete \/ ConfirmCancel \/ ConfirmOk
  <2>1. CASE CloseEditModal
    BY <2>1 DEF CloseEditModal, TypeOK, tables, process, list, delete, made, history
  <2>2. CASE Submit
    BY <2>2 DEF Submit, TypeOK, tables, process, list, delete, made, history
  <2>3. CASE AskDelete \/ ConfirmCancel
    BY <2>3 DEF AskDelete, ConfirmCancel, TypeOK, tables, process, list, edit, made, history
  <2>4. CASE ConfirmOk
    BY <2>4 DEF ConfirmOk, TypeOK, tables, process, list, edit, made, history
  <2> QED BY <1>9, <2>1, <2>2, <2>3, <2>4
<1>10. CASE SaveName
  <2>1. target \in Users
    BY <1>10 DEF SaveName, SaveNamed
  <2>2. [row[target] EXCEPT !["name"] = payload["name"]] \in Rows
    BY <2>1 DEF TypeOK, Rows, Fields
  <2>3. row' \in [Users -> Rows] /\ \A v \in Users \ account : row'[v] = Default
    BY <1>10, <2>1, <2>2 DEF SaveName, TypeOK
  <2> QED BY <1>10, <2>3 DEF SaveName, TypeOK, process, list, delete, made, history
<1>11. CASE SaveSettings
  <2>1. target \in Users /\ target \in account
    BY <1>11 DEF SaveSettings, SaveNamed, MayUpsert
  <2>2. [row[target] EXCEPT !["theme"] = payload["theme"]] \in Rows
    BY <2>1 DEF TypeOK, Rows, Fields
  <2>3. row' \in [Users -> Rows] /\ \A v \in Users \ account : row'[v] = Default
    BY <1>11, <2>1, <2>2 DEF SaveSettings, TypeOK
  <2> QED BY <1>11, <2>1, <2>3 DEF SaveSettings, TypeOK, process, list, delete, made
<1>12. CASE SaveSelect \/ SaveFails \/ SaveLost
  <2>1. CASE SaveSelect
    BY <2>1 DEF SaveSelect, TypeOK, tables, process, list, delete, made, history
  <2>2. CASE SaveFails
    BY <2>2 DEF SaveFails, TypeOK, tables, process, list, delete, made
  <2>3. CASE SaveLost
    BY <2>3 DEF SaveLost, TypeOK, tables, process, list, delete, made
  <2> QED BY <1>12, <2>1, <2>2, <2>3
<1>13. CASE SaveAnswered \/ DeleteAnswered
  <2>1. /\ load' \in [Loads -> {"idle", "sent", "back"}]
        /\ UNCHANGED <<allUsers, snap, late>>
    BY <1>3, <1>13 DEF SaveAnswered, DeleteAnswered
  <2>2. excused' \in BOOLEAN
    BY <1>13 DEF SaveAnswered, DeleteAnswered, Overlap, TypeOK
  <2> QED BY <1>13, <2>1, <2>2 DEF SaveAnswered, DeleteAnswered, TypeOK, tables, process, made, delete
<1>14. CASE DeleteUser
  <2>1. doomed \in Users
    BY <1>14 DEF DeleteUser, TypeOK
  <2>2. row' \in [Users -> Rows] /\ \A v \in Users \ account' : row'[v] = Default
    BY <1>14, <2>1 DEF DeleteUser, TypeOK
  <2> QED BY <1>14, <2>2 DEF DeleteUser, TypeOK, process, list, edit, made, history
<1>15. CASE DeleteFails \/ DeleteLost
  <2>1. CASE DeleteFails
    BY <2>1 DEF DeleteFails, TypeOK, tables, process, list, edit, made, history
  <2>2. CASE DeleteLost
    BY <2>2 DEF DeleteLost, TypeOK, tables, process, list, edit, made
  <2> QED BY <1>15, <2>1, <2>2
<1>16. CASE UNCHANGED vars
  BY <1>16 DEF vars, tables, process, list, edit, delete, made, history, TypeOK, Selected
<1> QED
  BY <1>0, <1>a, <1>1, <1>2, <1>4, <1>5, <1>6, <1>7, <1>8, <1>9, <1>10, <1>11, <1>12, <1>13, <1>14,
     <1>15, <1>16
     DEF Next, Owner, Reload, Save, Delete, Click

LEMMA SaveStep == TypeOK /\ SaveNamed /\ [Next]_vars => SaveNamed'
<1> SUFFICES ASSUME TypeOK, SaveNamed, [Next]_vars PROVE SaveNamed'
  OBVIOUS
<1>1. CASE UNCHANGED <<save, target, payload>>
  BY <1>1 DEF SaveNamed
<1>2. CASE Submit
  BY <1>2 DEF Submit, SaveNamed, TypeOK
<1>3. CASE SaveName \/ SaveSettings \/ SaveSelect \/ SaveFails \/ SaveLost
  BY <1>3 DEF SaveName, SaveSettings, SaveSelect, SaveFails, SaveLost, SaveNamed
<1>4. CASE SaveAnswered
  BY <1>4 DEF SaveAnswered, SaveNamed
<1> QED
  BY <1>1, <1>2, <1>3, <1>4
     DEF Next, Register, Owner, Reload, Save, Delete, Click, UpdateSettings, EmitSettingsSync,
         UpdateFails, SelectUsers,
         ShowUsers, LoadFails, OpenEditModal, Type, CloseEditModal, AskDelete, ConfirmCancel,
         ConfirmOk, DeleteUser, DeleteFails, DeleteAnswered, DeleteLost, edit, vars

-----------------------------------------------------------------------------
(* Values. *)

LEMMA CopiesStep == TypeOK /\ SaveNamed /\ CopiesChosen /\ [Next]_vars => CopiesChosen'
<1> SUFFICES ASSUME TypeOK, SaveNamed, CopiesChosen, [Next]_vars PROVE CopiesChosen'
  OBVIOUS
<1>1. \A u : ChosenFor(chosen, meant, u, Default) /\ ChosenFor(chosen', meant', u, Default)
  BY DEF ChosenFor, Default
\* What was chosen stays chosen.
<1>2. ASSUME UNCHANGED made \/ \E v, h : Choose(v, h),
             NEW u, NEW g \in Rows, ChosenFor(chosen, meant, u, g)
      PROVE  ChosenFor(chosen', meant', u, g)
  <2> SUFFICES ASSUME NEW f \in Fields, g[f] > 0
               PROVE  g[f] <= chosen' /\ meant'[g[f]] = <<u, f>>
    BY DEF ChosenFor
  <2>0. g[f] \in Values
    BY DEF Rows
  <2>1. g[f] \in 1..MaxValues /\ chosen \in 0..MaxValues
    BY <2>0, BoundAssumption DEF Values, TypeOK
  <2>2. g[f] <= chosen /\ meant[g[f]] = <<u, f>>
    BY <1>2 DEF ChosenFor
  <2>3. CASE UNCHANGED made
    BY <2>2, <2>3 DEF made
  <2>4. ASSUME NEW v, NEW h, Choose(v, h) PROVE g[f] <= chosen' /\ meant'[g[f]] = <<u, f>>
    <3>1. chosen' = chosen + 1 /\ g[f] # chosen + 1 /\ g[f] <= chosen + 1
      BY <2>1, <2>2, <2>4, BoundAssumption DEF Choose
    <3>2. meant' = [meant EXCEPT ![chosen + 1] = <<v, h>>] /\ meant \in [1..MaxValues -> (Users \cup {NoUser}) \X Fields]
      BY <2>4 DEF Choose, TypeOK
    <3> QED BY <2>1, <2>2, <3>1, <3>2
  <2> QED BY <1>2, <2>3, <2>4
\* A step that chooses one value at the most, and whose new copies are right.
<1>3. ASSUME UNCHANGED made \/ \E v, h : Choose(v, h),
             \A u \in Users : row'[u] = row[u] \/ ChosenFor(chosen', meant', u, row'[u]),
             allUsers' = allUsers \/ \A u \in DOMAIN allUsers' : ChosenFor(chosen', meant', u, allUsers'[u]),
             \A l \in Loads : snap'[l] = snap[l]
                             \/ \A u \in DOMAIN snap'[l] : ChosenFor(chosen', meant', u, snap'[l][u]),
             UNCHANGED <<modal, form>> \/ ChosenFor(chosen', meant', modal', form'),
             UNCHANGED <<target, payload>> \/ ChosenFor(chosen', meant', target', payload')
      PROVE  CopiesChosen'
  <2>1. \A g \in Snapshots : \A u \in DOMAIN g : g[u] \in Rows
    BY DEF Snapshots
  <2>2. \A u \in Users : ChosenFor(chosen', meant', u, row'[u])
    <3> SUFFICES ASSUME NEW u \in Users, row'[u] = row[u] PROVE ChosenFor(chosen', meant', u, row'[u])
      BY <1>3
    <3>1. ChosenFor(chosen, meant, u, row[u]) /\ row[u] \in Rows
      BY DEF CopiesChosen, TypeOK
    <3> QED BY <1>2, <1>3, <3>1
  <2>3. \A u \in DOMAIN allUsers' : ChosenFor(chosen', meant', u, allUsers'[u])
    <3> SUFFICES ASSUME NEW u \in DOMAIN allUsers, allUsers' = allUsers
                 PROVE  ChosenFor(chosen', meant', u, allUsers'[u])
      BY <1>3
    <3>1. ChosenFor(chosen, meant, u, allUsers[u]) /\ allUsers[u] \in Rows
      BY <2>1 DEF CopiesChosen, TypeOK
    <3> QED BY <1>2, <1>3, <3>1 DEF ChosenFor
  <2>4. \A l \in Loads : \A u \in DOMAIN snap'[l] : ChosenFor(chosen', meant', u, snap'[l][u])
    <3> SUFFICES ASSUME NEW l \in Loads, NEW u \in DOMAIN snap[l], snap'[l] = snap[l]
                 PROVE  ChosenFor(chosen', meant', u, snap'[l][u])
      BY <1>3
    <3>1. ChosenFor(chosen, meant, u, snap[l][u]) /\ snap[l][u] \in Rows
      BY <2>1 DEF CopiesChosen, TypeOK
    <3> QED BY <1>2, <1>3, <3>1
  <2>5. ChosenFor(chosen', meant', modal', form')
    <3>1. ChosenFor(chosen, meant, modal, form) /\ form \in Rows
      BY DEF CopiesChosen, TypeOK
    <3> QED BY <1>2, <1>3, <3>1
  <2>6. ChosenFor(chosen', meant', target', payload')
    <3>1. ChosenFor(chosen, meant, target, payload) /\ payload \in Rows
      BY DEF CopiesChosen, TypeOK
    <3> QED BY <1>2, <1>3, <3>1
  <2> QED BY <2>2, <2>3, <2>4, <2>5, <2>6 DEF CopiesChosen
<1>4. ASSUME NEW r \in Requests, NEW u \in Owners, NEW n \in Values, UpdateSettings(r, u, n)
      PROVE  CopiesChosen'
  <2>0. u \in Users /\ row[u] \in Rows /\ "theme" \in Fields
    BY BoundAssumption DEF TypeOK, Fields
  <2>1. UNCHANGED made \/ Choose(u, "theme")
    BY <1>4 DEF UpdateSettings, Again
  <2>2. ChosenFor(chosen, meant, u, row[u]) /\ ChosenFor(chosen, meant, u, row[u]) => \A f \in Fields : row[u][f] > 0 =>
          row[u][f] <= chosen' /\ meant'[row[u][f]] = <<u, f>>
    BY <1>2, <2>0, <2>1 DEF CopiesChosen, ChosenFor
  <2>3. n > 0 => n <= chosen' /\ meant'[n] = <<u, "theme">>
    <3>1. CASE Again(n, u, "theme")
      BY <3>1 DEF Again, made, TypeOK, Values
    <3>2. CASE n = chosen + 1 /\ Choose(u, "theme")
      BY <3>2, BoundAssumption DEF Choose, TypeOK, Values
    <3> QED BY <1>4, <3>1, <3>2 DEF UpdateSettings
  <2>4. /\ row'[u]["theme"] = n
        /\ \A f \in Fields \ {"theme"} : row'[u][f] = row[u][f]
        /\ \A v \in Users \ {u} : row'[v] = row[v]
    BY <1>4, <2>0 DEF UpdateSettings, TypeOK, Rows
  <2>5. ChosenFor(chosen, meant, u, row[u])
    BY <2>0 DEF CopiesChosen
  <2>6. ChosenFor(chosen', meant', u, row'[u])
    BY <2>2, <2>3, <2>4, <2>5 DEF ChosenFor
  <2> QED BY <1>3, <1>4, <2>1, <2>4, <2>6 DEF UpdateSettings, list, edit
<1>5. ASSUME NEW r \in Requests, EmitSettingsSync(r) \/ UpdateFails(r) PROVE CopiesChosen'
  BY <1>3, <1>5 DEF EmitSettingsSync, UpdateFails, tables, list, edit
<1>6. ASSUME NEW l \in Loads, SelectUsers(l) PROVE CopiesChosen'
  <2>1. /\ snap'[l] = Selected /\ \A k \in Loads \ {l} : snap'[k] = snap[k]
        /\ UNCHANGED <<row, allUsers, made>>
    BY <1>6 DEF SelectUsers, TypeOK, tables
  <2>2. \A u \in DOMAIN snap'[l] : u \in Users /\ snap'[l][u] = row[u]
    BY <2>1 DEF Selected, TypeOK
  <2>3. \A u \in DOMAIN snap'[l] : ChosenFor(chosen', meant', u, snap'[l][u])
    <3> SUFFICES ASSUME NEW u \in DOMAIN snap'[l] PROVE ChosenFor(chosen', meant', u, snap'[l][u])
      OBVIOUS
    <3>1. ChosenFor(chosen, meant, u, row[u]) /\ row[u] \in Rows
      BY <2>2 DEF CopiesChosen, TypeOK
    <3> QED BY <1>2, <2>1, <2>2, <3>1
  <2> QED BY <1>3, <1>6, <2>1, <2>3 DEF SelectUsers, edit
<1>7. ASSUME NEW l \in Loads, ShowUsers(l) PROVE CopiesChosen'
  <2>1. /\ allUsers' = snap[l] /\ DOMAIN snap'[l] = {} /\ UNCHANGED made
        /\ \A k \in Loads \ {l} : snap'[k] = snap[k]
    BY <1>7 DEF ShowUsers, TypeOK
  <2>2. \A u \in DOMAIN allUsers' : ChosenFor(chosen', meant', u, allUsers'[u])
    <3> SUFFICES ASSUME NEW u \in DOMAIN snap[l] PROVE ChosenFor(chosen', meant', u, allUsers'[u])
      BY <2>1
    <3>1. ChosenFor(chosen, meant, u, snap[l][u]) /\ snap[l][u] \in Rows
      BY DEF CopiesChosen, TypeOK, Snapshots
    <3> QED BY <1>2, <2>1, <3>1 DEF ChosenFor
  <2> QED BY <1>3, <1>7, <2>1, <2>2 DEF ShowUsers, tables, edit
<1>8. ASSUME NEW u \in Users, OpenEditModal(u) PROVE CopiesChosen'
  <2>1. ChosenFor(chosen, meant, u, allUsers[u]) /\ allUsers[u] \in Rows
    BY <1>8 DEF OpenEditModal, CopiesChosen, TypeOK, Snapshots
  <2>2. ChosenFor(chosen', meant', modal', form')
    BY <1>2, <1>8, <2>1 DEF OpenEditModal, Filled, ChosenFor, made
  <2> QED BY <1>3, <1>8, <2>2 DEF OpenEditModal, tables, list
<1>9. ASSUME NEW f \in Fields, Type(f) PROVE CopiesChosen'
  <2>1. /\ Choose(modal, f) /\ form' = [form EXCEPT ![f] = chosen + 1] /\ modal' = modal
        /\ form \in Rows /\ modal \in Users
    BY <1>9 DEF Type, TypeOK
  <2>2. ChosenFor(chosen, meant, modal, form)
    BY DEF CopiesChosen
  <2>3. \A h \in Fields : form[h] > 0 => form[h] <= chosen' /\ meant'[form[h]] = <<modal, h>>
    BY <1>2, <2>1, <2>2 DEF ChosenFor
  <2>4. chosen + 1 <= chosen' /\ meant'[chosen + 1] = <<modal, f>>
    BY <2>1, BoundAssumption DEF Choose, TypeOK, Values
  <2>5. form'[f] = chosen + 1 /\ \A h \in Fields \ {f} : form'[h] = form[h]
    BY <2>1 DEF Rows
  <2>6. ChosenFor(chosen', meant', modal', form')
    BY <2>1, <2>3, <2>4, <2>5 DEF ChosenFor
  <2> QED BY <1>3, <1>9, <2>1, <2>6 DEF Type, tables, list
<1>10. CASE CloseEditModal \/ SaveAnswered \/ DeleteAnswered
  <2>1. form' = Default /\ UNCHANGED <<row, allUsers, snap, target, payload, made>>
    BY <1>10 DEF CloseEditModal, SaveAnswered, DeleteAnswered, LoadUsers, tables, list
  <2>2. ChosenFor(chosen', meant', modal', form')
    BY <1>1, <2>1 DEF ChosenFor
  <2> QED BY <1>3, <2>1, <2>2
<1>11. CASE Submit
  <2>1. ChosenFor(chosen, meant, modal, form) /\ form \in Rows
    BY DEF CopiesChosen, TypeOK
  <2>2. ChosenFor(chosen', meant', target', payload')
    BY <1>2, <1>11, <2>1 DEF Submit, ChosenFor, made
  <2> QED BY <1>3, <1>11, <2>2 DEF Submit, tables, list
<1>12. CASE SaveName \/ SaveSettings
  <2>0. /\ target \in Users /\ row[target] \in Rows /\ {"name", "theme"} = Fields
        /\ ChosenFor(chosen, meant, target, row[target]) /\ ChosenFor(chosen, meant, target, payload)
    BY <1>12 DEF SaveName, SaveSettings, SaveNamed, TypeOK, CopiesChosen, Fields
  <2>1. /\ UNCHANGED <<allUsers, snap, modal, form, made, target>>
        /\ payload' = payload \/ payload' = Default
    BY <1>12 DEF SaveName, SaveSettings, list
  <2>2. /\ \A v \in Users \ {target} : row'[v] = row[v]
        /\ \A f \in Fields : row'[target][f] \in {row[target][f], payload[f]}
    BY <1>12, <2>0 DEF SaveName, SaveSettings, TypeOK, Rows
  <2>3. ChosenFor(chosen', meant', target, row'[target])
    BY <2>0, <2>1, <2>2 DEF ChosenFor, made
  <2>4. UNCHANGED <<target, payload>> \/ ChosenFor(chosen', meant', target', payload')
    BY <1>1, <2>1 DEF ChosenFor
  <2>5. \A u \in Users : row'[u] = row[u] \/ ChosenFor(chosen', meant', u, row'[u])
    BY <2>1, <2>2, <2>3 DEF ChosenFor
  <2> QED BY <1>3, <2>1, <2>4, <2>5
<1>13. CASE SaveSelect \/ SaveFails \/ SaveLost
  <2>1. payload' = Default /\ UNCHANGED <<row, allUsers, snap, modal, form, made>>
    BY <1>13 DEF SaveSelect, SaveFails, SaveLost, SaveNamed, tables, list
  <2>2. ChosenFor(chosen', meant', target', payload')
    BY <1>1, <2>1 DEF ChosenFor
  <2> QED BY <1>3, <2>1, <2>2
<1>14. CASE DeleteUser
  <2>1. \A u \in Users : row'[u] = row[u] \/ row'[u] = Default
    BY <1>14 DEF DeleteUser, TypeOK
  <2>2. \A u \in Users : row'[u] = row[u] \/ ChosenFor(chosen', meant', u, row'[u])
    BY <1>1, <2>1 DEF ChosenFor
  <2> QED BY <1>3, <1>14, <2>2 DEF DeleteUser, list, edit
<1>15. CASE UNCHANGED <<row, allUsers, snap, modal, form, target, payload, made>>
  BY <1>3, <1>15
<1> QED
  BY <1>4, <1>5, <1>6, <1>7, <1>8, <1>9, <1>10, <1>11, <1>12, <1>13, <1>14, <1>15
     DEF Next, Register, Owner, Reload, Save, Delete, Click, LoadFails, AskDelete, ConfirmCancel, ConfirmOk,
         DeleteFails, DeleteLost, tables, list, edit, vars

-----------------------------------------------------------------------------
(* The owner's broadcasts. *)

\* An account is made once, and asks for nothing before.
LEMMA UnbornStep == TypeOK /\ Unborn /\ [Next]_vars => Unborn'
<1> SUFFICES ASSUME TypeOK, Unborn, [Next]_vars, NEW u \in joining'
             PROVE  u \notin account' /\ Syncing(u)' = {} /\ synced'[u] = 0
  BY DEF Unborn
<1>1. ASSUME u \in joining PROVE u \notin account /\ Syncing(u) = {} /\ synced[u] = 0 /\ u \in Users
  BY <1>1 DEF Unborn, TypeOK
<1>2. ASSUME NEW v \in Users, Register(v)
      PROVE  u \notin account' /\ Syncing(u)' = {} /\ synced'[u] = 0
  BY <1>1, <1>2 DEF Register, process, Syncing
<1>3. ASSUME NEW r \in Requests, NEW v \in Owners, NEW n \in Values, UpdateSettings(r, v, n)
      PROVE  u \notin account' /\ Syncing(u)' = {} /\ synced'[u] = 0
  <2>1. u \in joining /\ UNCHANGED <<account, synced>> /\ u # v
    BY <1>1, <1>3 DEF UpdateSettings
  <2>2. \A q \in Requests : pc'[q] = "sync" => who'[q] = v \/ (pc[q] = "sync" /\ who'[q] = who[q])
    BY <1>3 DEF UpdateSettings, TypeOK
  <2> QED BY <1>1, <2>1, <2>2 DEF Syncing
<1>4. ASSUME NEW r \in Requests, EmitSettingsSync(r) \/ UpdateFails(r)
      PROVE  u \notin account' /\ Syncing(u)' = {} /\ synced'[u] = 0
  <2>1. u \in joining /\ UNCHANGED account /\ r \in Syncing(who[r])
    BY <1>4 DEF EmitSettingsSync, UpdateFails, tables, Syncing
  <2>2. who[r] # u
    BY <1>1, <2>1
  <2>3. synced'[u] = synced[u]
    BY <1>1, <1>4, <2>1, <2>2 DEF EmitSettingsSync, UpdateFails, TypeOK
  <2>4. \A q \in Requests : pc'[q] = "sync" => pc[q] = "sync" /\ who'[q] = who[q]
    BY <1>4 DEF EmitSettingsSync, UpdateFails, Answer, TypeOK
  <2> QED BY <1>1, <2>1, <2>3, <2>4 DEF Syncing
<1>5. CASE DeleteUser
  BY <1>1, <1>5 DEF DeleteUser, process, Syncing
<1>6. CASE UNCHANGED <<account, joining, process>>
  BY <1>1, <1>6 DEF process, Syncing
<1> QED
  BY <1>2, <1>3, <1>4, <1>5, <1>6
     DEF Next, Owner, Reload, Save, Delete, Click, SelectUsers, ShowUsers, LoadFails, OpenEditModal,
         Type, CloseEditModal, Submit, AskDelete, ConfirmCancel, ConfirmOk, SaveName, SaveSettings,
         SaveSelect, SaveFails, SaveAnswered, SaveLost, DeleteFails, DeleteAnswered, DeleteLost,
         tables, vars

LEMMA OwnerStep == TypeOK /\ Unborn /\ OwnerInStep /\ [Next]_vars => OwnerInStep'
<1> SUFFICES ASSUME TypeOK, Unborn, OwnerInStep, [Next]_vars,
                    NEW u \in account', u \notin crossed'
             PROVE  /\ \A r \in Syncing(u)' : /\ ret'[r] = row'[u]["theme"]
                                              /\ Syncing(u)' = {r}
                    /\ Syncing(u)' = {} => synced'[u] = row'[u]["theme"]
  BY DEF OwnerInStep
\* What the invariant says of u, where it says something.
<1>1. ASSUME u \in account, u \notin crossed
      PROVE  /\ \A r \in Syncing(u) : ret[r] = row[u]["theme"] /\ Syncing(u) = {r}
             /\ Syncing(u) = {} => synced[u] = row[u]["theme"]
  BY <1>1 DEF OwnerInStep
<1>2. ASSUME UNCHANGED <<process, crossed>>, u \in account, row'[u]["theme"] = row[u]["theme"]
      PROVE  /\ \A r \in Syncing(u)' : ret'[r] = row'[u]["theme"] /\ Syncing(u)' = {r}
             /\ Syncing(u)' = {} => synced'[u] = row'[u]["theme"]
  BY <1>1, <1>2 DEF Syncing, process
<1>3. ASSUME NEW r \in Requests, NEW v \in Owners, NEW n \in Values, UpdateSettings(r, v, n)
      PROVE  /\ \A q \in Syncing(u)' : ret'[q] = row'[u]["theme"] /\ Syncing(u)' = {q}
             /\ Syncing(u)' = {} => synced'[u] = row'[u]["theme"]
  <2>0. /\ v \in Users /\ u \in account /\ u \in Users
        /\ row[v] \in [Fields -> Values] /\ "theme" \in Fields
    BY <1>3, BoundAssumption DEF UpdateSettings, TypeOK, Rows, Fields
  <2>1. /\ \A q \in Requests \ {r} : pc'[q] = pc[q] /\ who'[q] = who[q] /\ ret'[q] = ret[q]
        /\ pc[r] = "idle" /\ pc'[r] = "sync" /\ who'[r] = v /\ ret'[r] = n
        /\ UNCHANGED synced
    BY <1>3, <2>0 DEF UpdateSettings, TypeOK
  <2>2. /\ row'[v]["theme"] = n
        /\ \A w \in Users \ {v} : row'[w] = row[w]
    BY <1>3, <2>0 DEF UpdateSettings, TypeOK
  <2>3. CASE u = v
    <3>1. Syncing(u) = {} /\ u \notin crossed
      BY <1>3, <2>3 DEF UpdateSettings
    <3>2. Syncing(u)' = {r}
      BY <2>1, <2>3, <3>1 DEF Syncing
    <3> QED BY <2>1, <2>2, <2>3, <3>2
  <2>4. CASE u # v
    <3>1. u \notin crossed
      BY <1>3, <2>4 DEF UpdateSettings
    <3>2. Syncing(u)' = Syncing(u) /\ r \notin Syncing(u) /\ Syncing(u) \subseteq Requests
      BY <2>1, <2>4 DEF Syncing
    <3>3. row'[u] = row[u]
      BY <2>0, <2>2, <2>4
    <3> QED BY <1>1, <2>0, <2>1, <3>1, <3>2, <3>3
  <2> QED BY <2>3, <2>4
<1>4. ASSUME NEW r \in Requests, EmitSettingsSync(r)
      PROVE  /\ \A q \in Syncing(u)' : ret'[q] = row'[u]["theme"] /\ Syncing(u)' = {q}
             /\ Syncing(u)' = {} => synced'[u] = row'[u]["theme"]
  <2>0. u \in account /\ u \in Users /\ row' = row
    BY <1>4 DEF EmitSettingsSync, tables, TypeOK
  <2>1. /\ \A q \in Requests \ {r} : pc'[q] = pc[q] /\ who'[q] = who[q] /\ ret'[q] = ret[q]
        /\ pc[r] = "sync" /\ pc'[r] = "idle"
        /\ synced' = [synced EXCEPT ![who[r]] = ret[r]]
    BY <1>4 DEF EmitSettingsSync, Answer, TypeOK, Sent
  <2>2. CASE who[r] = u
    <3>1. Syncing(u) = {r} /\ ret[r] = row[u]["theme"]
      <4>1. r \in Syncing(u)
        BY <2>1, <2>2 DEF Syncing
      <4> QED BY <1>1, <1>4, <2>0, <2>2, <4>1 DEF EmitSettingsSync
    <3>2. Syncing(u)' = {}
      BY <2>1, <3>1 DEF Syncing
    <3>3. synced'[u] = ret[r]
      BY <2>0, <2>1, <2>2 DEF TypeOK
    <3> QED BY <2>0, <3>1, <3>2, <3>3
  <2>3. CASE who[r] # u
    <3>1. u \notin crossed
      BY <1>4, <2>3 DEF EmitSettingsSync
    <3>2. Syncing(u)' = Syncing(u) /\ r \notin Syncing(u) /\ Syncing(u) \subseteq Requests
      BY <2>1, <2>3 DEF Syncing
    <3>3. synced'[u] = synced[u]
      BY <2>0, <2>1, <2>3 DEF TypeOK
    <3> QED BY <1>1, <2>0, <2>1, <3>1, <3>2, <3>3
  <2> QED BY <2>2, <2>3
<1>5. CASE SaveName
  <2>1. row'[u]["theme"] = row[u]["theme"] /\ u \in account
    BY <1>5 DEF SaveName, TypeOK, Rows, Fields
  <2> QED BY <1>2, <1>5, <2>1 DEF SaveName, history
<1>6. CASE SaveSettings
  <2>1. u # target /\ u \in account /\ u \notin crossed
    BY <1>6 DEF SaveSettings
  <2>2. row'[u] = row[u] /\ UNCHANGED process
    BY <1>6, <2>1 DEF SaveSettings, TypeOK
  <2> QED BY <1>1, <2>1, <2>2 DEF Syncing, process
<1>7. CASE DeleteUser
  <2>1. u \in account /\ row'[u] = row[u]
    BY <1>7 DEF DeleteUser, TypeOK
  <2> QED BY <1>2, <1>7, <2>1 DEF DeleteUser, history
<1>8. CASE UNCHANGED <<tables, process, crossed>>
  BY <1>2, <1>8 DEF tables
<1>9. ASSUME NEW r \in Requests, UpdateFails(r)
      PROVE  /\ \A q \in Syncing(u)' : ret'[q] = row'[u]["theme"] /\ Syncing(u)' = {q}
             /\ Syncing(u)' = {} => synced'[u] = row'[u]["theme"]
  <2>1. /\ u \in account /\ u \notin crossed /\ u # who[r]
        /\ UNCHANGED <<row, synced>>
    BY <1>9 DEF UpdateFails, tables
  <2>2. \A q \in Requests \ {r} : pc'[q] = pc[q] /\ who'[q] = who[q] /\ ret'[q] = ret[q]
    BY <1>9 DEF UpdateFails, Answer, TypeOK
  <2>3. pc'[r] # "sync"
    BY <1>9 DEF UpdateFails, Answer, TypeOK
  <2>4. Syncing(u)' = Syncing(u) /\ r \notin Syncing(u) /\ Syncing(u) \subseteq Requests
    BY <2>1, <2>2, <2>3 DEF Syncing
  <2> QED BY <1>1, <2>1, <2>2, <2>4
\* The account that registers has default settings, and nothing was sent of it.
<1>10. ASSUME NEW v \in Users, Register(v)
       PROVE  /\ \A q \in Syncing(u)' : ret'[q] = row'[u]["theme"] /\ Syncing(u)' = {q}
              /\ Syncing(u)' = {} => synced'[u] = row'[u]["theme"]
  <2>0. UNCHANGED <<row, process, crossed>>
    BY <1>10 DEF Register, history
  <2>1. CASE u = v
    <3>1. Syncing(u) = {} /\ synced[u] = 0 /\ row[u] = Default
      BY <1>10, <2>1 DEF Register, Unborn, TypeOK
    <3> QED BY <2>0, <3>1 DEF process, Syncing, Default, Fields
  <2>2. CASE u # v
    <3>1. u \in account
      BY <1>10, <2>2 DEF Register
    <3> QED BY <1>2, <2>0, <3>1
  <2> QED BY <2>1, <2>2
<1> QED
  BY <1>3, <1>4, <1>5, <1>6, <1>7, <1>8, <1>9, <1>10
     DEF Next, Owner, Reload, Save, Delete, Click, SelectUsers, ShowUsers, LoadFails, OpenEditModal,
         Type, CloseEditModal, Submit, AskDelete, ConfirmCancel, ConfirmOk, SaveSelect, SaveFails,
         SaveAnswered, SaveLost, DeleteFails, DeleteAnswered, DeleteLost, history, vars

-----------------------------------------------------------------------------
(* The list. *)

LEMMA ReloadStep == TypeOK /\ Unborn /\ SaveNamed /\ ReloadsInStep /\ [Next]_vars => ReloadsInStep'
<1> SUFFICES ASSUME TypeOK, Unborn, SaveNamed, ReloadsInStep, [Next]_vars, ~ excused'
             PROVE  /\ \A l, m \in InFlight' : l = m
                    /\ \/ Owed'
                       \/ /\ \A l \in Loads : load'[l] = "back" => Names(snap'[l]) = Known'
                          /\ InFlight' = {} => Names(allUsers') = Known'
  BY DEF ReloadsInStep
<1>1. ASSUME ~ excused
      PROVE  /\ \A l, m \in InFlight : l = m
             /\ \/ Owed
                \/ /\ \A l \in Loads : load[l] = "back" => Names(snap[l]) = Known
                   /\ InFlight = {} => Names(allUsers) = Known
  BY <1>1 DEF ReloadsInStep
\* What the list shows of the tables is the accounts and their names.
<1>2. ASSUME account' = account, late' = late, \A u \in Users : row'[u]["name"] = row[u]["name"]
      PROVE  Known' = Known
  BY <1>2 DEF Known, TypeOK
\* A step that leaves the reloads alone, and the tables or only the names.
<1>3. ASSUME UNCHANGED <<list, excused>>, Owed' = Owed, Known' = Known
      PROVE  /\ \A l, m \in InFlight' : l = m
             /\ \/ Owed'
                \/ /\ \A l \in Loads : load'[l] = "back" => Names(snap'[l]) = Known'
                   /\ InFlight' = {} => Names(allUsers') = Known'
  BY <1>1, <1>3 DEF InFlight, list
\* A step that does a change whose reload is to come.
<1>4. ASSUME UNCHANGED <<list, excused>>, Owed'
      PROVE  \A l, m \in InFlight' : l = m
  BY <1>1, <1>4 DEF InFlight, list
<1>5. ASSUME NEW r \in Requests, NEW u \in Owners, NEW n \in Values, UpdateSettings(r, u, n)
      PROVE  \A v \in Users : row'[v]["name"] = row[v]["name"]
  <2>1. u \in Users /\ row[u] \in Rows
    BY BoundAssumption DEF TypeOK
  <2>2. row' = [row EXCEPT ![u] = [row[u] EXCEPT !["theme"] = n]]
    BY <1>5 DEF UpdateSettings
  <2> QED BY <2>1, <2>2 DEF TypeOK, Rows, Fields
<1>6. ASSUME NEW r \in Requests, Owner(r)
      PROVE  UNCHANGED <<list, excused>> /\ Owed' = Owed /\ Known' = Known
  <2>1. CASE EmitSettingsSync(r) \/ UpdateFails(r)
    BY <1>2, <2>1 DEF EmitSettingsSync, UpdateFails, Owed, tables, list, edit, delete
  <2>2. ASSUME NEW u \in Owners, NEW n \in Values, UpdateSettings(r, u, n)
        PROVE  UNCHANGED <<list, excused>> /\ Owed' = Owed /\ Known' = Known
    BY <1>2, <1>5, <2>2 DEF UpdateSettings, Owed, list, edit, delete
  <2> QED BY <1>6, <2>1, <2>2 DEF Owner
<1>7. ASSUME NEW l \in Loads, SelectUsers(l)
      PROVE  /\ \A k, m \in InFlight' : k = m
             /\ \/ Owed'
                \/ /\ \A k \in Loads : load'[k] = "back" => Names(snap'[k]) = Known'
                   /\ InFlight' = {} => Names(allUsers') = Known'
  <2>1. /\ load[l] = "sent" /\ load'[l] = "back" /\ snap'[l] = Selected
        /\ \A k \in Loads \ {l} : load'[k] = load[k] /\ snap'[k] = snap[k]
        /\ ~ excused /\ late' = {} /\ UNCHANGED <<account, row>>
    BY <1>7 DEF SelectUsers, TypeOK, tables, history
  <2>3. Known' = Names(Selected)
    <3>1. Known' = [u \in account |-> row[u]["name"]]
      BY <2>1 DEF Known
    <3> QED BY <3>1 DEF Names, Selected
  <2>2. InFlight' = InFlight /\ l \in InFlight
    BY <2>1 DEF InFlight
  <2>4. \A k \in Loads : load'[k] = "back" => k = l
    BY <1>1, <2>1, <2>2 DEF InFlight
  <2> QED BY <1>1, <2>1, <2>2, <2>3, <2>4
<1>8. ASSUME NEW l \in Loads, ShowUsers(l)
      PROVE  /\ \A k, m \in InFlight' : k = m
             /\ \/ Owed'
                \/ /\ \A k \in Loads : load'[k] = "back" => Names(snap'[k]) = Known'
                   /\ InFlight' = {} => Names(allUsers') = Known'
  <2>1. /\ load[l] = "back" /\ load'[l] = "idle" /\ allUsers' = snap[l]
        /\ \A k \in Loads \ {l} : load'[k] = load[k]
        /\ Known' = Known /\ Owed' = Owed
    BY <1>2, <1>8 DEF ShowUsers, TypeOK, Owed, tables, edit, delete
  <2>2. l \in InFlight /\ InFlight' = InFlight \ {l}
    BY <2>1 DEF InFlight
  <2>3. InFlight = {l} /\ (Owed \/ Names(snap[l]) = Known)
    <3>1. CASE excused
      BY <1>8, <3>1 DEF ShowUsers
    <3>2. CASE ~ excused
      BY <1>1, <2>1, <2>2, <3>2
    <3> QED BY <3>1, <3>2
  <2>4. InFlight' = {}
    BY <2>2, <2>3
  <2>5. \A k \in Loads : load'[k] # "back"
    BY <2>4 DEF InFlight
  <2> QED BY <2>1, <2>3, <2>4, <2>5
<1>9. ASSUME NEW l \in Loads, LoadUsers(l), ~ Overlap
      PROVE  /\ \A k, m \in InFlight' : k = m
             /\ \A k \in Loads : load'[k] # "back"
             /\ InFlight' # {}
  <2>1. load'[l] = "sent" /\ \A k \in Loads \ {l} : load'[k] = "idle"
    BY <1>9 DEF LoadUsers, Overlap, InFlight, TypeOK
  <2>2. InFlight' = {l}
    BY <2>1 DEF InFlight
  <2> QED BY <2>1, <2>2
<1>10. CASE SaveAnswered \/ DeleteAnswered
  <2>1. (\E l \in Loads : LoadUsers(l)) /\ ~ Overlap
    BY <1>10 DEF SaveAnswered, DeleteAnswered
  <2> QED BY <1>9, <2>1
<1>11. CASE SaveName \/ SaveSettings \/ SaveSelect \/ DeleteUser
  <2>1. UNCHANGED <<list, excused>> /\ Owed'
    BY <1>11 DEF SaveName, SaveSettings, SaveSelect, DeleteUser, Owed, history
  <2> QED BY <1>4, <2>1
<1>12. CASE SaveFails
  <2>1. UNCHANGED <<list, excused, tables>> /\ Owed' = Owed
    BY <1>12 DEF SaveFails, Owed, TypeOK, delete
  <2> QED BY <1>2, <1>3, <2>1 DEF tables, list
<1>13. CASE DeleteFails \/ ConfirmOk
  <2>1. UNCHANGED <<list, excused, tables>> /\ Owed' = Owed
    BY <1>13 DEF DeleteFails, ConfirmOk, Owed, TypeOK, history, edit
  <2> QED BY <1>2, <1>3, <2>1 DEF tables, list
\* The account that registers is not among those a list can show.
<1>21. ASSUME NEW u \in Users, Register(u)
       PROVE  /\ \A k, m \in InFlight' : k = m
              /\ \/ Owed'
                 \/ /\ \A k \in Loads : load'[k] = "back" => Names(snap'[k]) = Known'
                    /\ InFlight' = {} => Names(allUsers') = Known'
  <2>1. /\ u \notin account /\ account' = account \cup {u} /\ late' = late \cup {u}
        /\ UNCHANGED <<row, allUsers, load, snap, excused>> /\ Owed' = Owed
    BY <1>21 DEF Register, Unborn, Owed, edit, delete, history
  <2>2. account' \ late' = account \ late
    BY <2>1
  <2>3. Known' = Known
    BY <2>1, <2>2 DEF Known
  <2> QED BY <1>1, <2>1, <2>3 DEF InFlight
<1>14. CASE Submit
  <2>1. UNCHANGED <<list, excused, tables>> /\ Owed' = Owed
    BY <1>14 DEF Submit, Owed, history, delete
  <2> QED BY <1>2, <1>3, <2>1 DEF tables, list
<1>15. CASE UNCHANGED <<list, excused, tables, save, del>>
  BY <1>2, <1>3, <1>15 DEF tables, list, Owed
<1>16. ASSUME NEW u \in Users, OpenEditModal(u)
       PROVE  UNCHANGED <<list, excused, tables, save, del>>
  BY <1>16 DEF OpenEditModal, history, delete
<1>17. CASE CloseEditModal \/ AskDelete \/ ConfirmCancel \/ (\E f \in Fields : Type(f))
  BY <1>15, <1>17 DEF CloseEditModal, AskDelete, ConfirmCancel, Type, history, edit, delete
<1>18. CASE UNCHANGED vars
  BY <1>15, <1>18 DEF vars, history, edit, delete
<1>19. ~ SaveLost /\ ~ DeleteLost /\ \A l \in Loads : ~ LoadFails(l)
  BY DEF SaveLost, DeleteLost, LoadFails
<1>20. CASE \E r \in Requests : Owner(r)
  BY <1>3, <1>6, <1>20
<1> QED
  BY <1>7, <1>8, <1>10, <1>11, <1>12, <1>13, <1>14, <1>15, <1>16, <1>17, <1>18, <1>19, <1>20,
     <1>21
     DEF Next, Reload, Save, Delete, Click

-----------------------------------------------------------------------------
(* The theorems. *)

LEMMA InitInv == Init => IInv
<1> SUFFICES ASSUME Init PROVE IInv
  OBVIOUS
<1> USE Defaults
<1>1. row \in [Users -> Rows] /\ allUsers \in Snapshots
  <2>1. row \in [Users -> Rows] /\ account \subseteq Users /\ allUsers \in [account -> Rows]
    BY DEF Init
  <2> QED BY <2>1
<1>2. TypeOK
  <2>1. meant \in [1..MaxValues -> (Users \cup {NoUser}) \X Fields]
    BY DEF Init, Fields
  <2> QED BY <1>1, <2>1, BoundAssumption DEF Init, TypeOK, Snapshots
<1>3. CopiesChosen
  BY DEF Init, CopiesChosen, ChosenFor, Default
<1>4. SaveNamed
  BY DEF Init, SaveNamed
<1>5. OwnerInStep /\ Unborn
  <2>1. \A u : Syncing(u) = {}
    BY DEF Init, Syncing
  <2>2. \A u \in Joining : u \in Users
    BY BoundAssumption
  <2>3. Unborn
    BY <2>1, <2>2 DEF Init, Unborn
  <2>4. OwnerInStep
    BY <2>1 DEF Init, OwnerInStep, Default, Fields
  <2> QED BY <2>3, <2>4
<1>6. ReloadsInStep
  <2>1. InFlight = {} /\ \A l \in Loads : load[l] # "back"
    BY DEF Init, InFlight
  <2>2. Names(allUsers) = Known
    <3>1. account \ late = account /\ \A u \in account : u \in Users /\ row[u] = Default
      BY DEF Init
    <3> QED BY <3>1 DEF Init, Names, Known
  <2> QED BY <2>1, <2>2 DEF ReloadsInStep
<1> QED BY <1>2, <1>3, <1>4, <1>5, <1>6 DEF IInv

\* The inductive invariant.
LEMMA Invariance == Spec => []IInv
<1>1. Init => IInv
  BY InitInv
<1>2. IInv /\ [Next]_vars => IInv'
  BY TypeStep, SaveStep, CopiesStep, UnbornStep, OwnerStep, ReloadStep DEF IInv
<1> QED BY <1>1, <1>2, PTL DEF Spec

\* What the tables, the process, the page and the history hold is of their types, and
\* an account that deleteUser removed has no columns left to be saved to.
THEOREM TypeCorrect == Spec => []TypeOK
<1>1. IInv => TypeOK
  BY DEF IInv
<1> QED BY <1>1, Invariance, PTL

\* updateUser stores in an account's columns only what was chosen for that account and
\* that column, whichever forms were opened and closed while it ran.
THEOREM OwnValues == Spec => []NothingInvented
<1>1. IInv => NothingInvented
  BY DEF IInv, CopiesChosen, ChosenFor, NothingInvented
<1> QED BY <1>1, Invariance, PTL

\* A quiet dashboard shows every account by its name, but those that registered after
\* its list was read, after any sequence of registrations, saves and deletions whose
\* reloads did not fail, overlap or get lost.
THEOREM ListCurrent == Spec => []ListCurrentUnlessExcused
<1>1. IInv => ListCurrentUnlessExcused
  BY DEF IInv, ReloadsInStep, ListCurrentUnlessExcused, Quiet, Owed
<1> QED BY <1>1, Invariance, PTL

\* The owner's sessions have the stored theme once the broadcasts are out, but for
\* crossed and unanswered writes and the admin's.
THEOREM OwnerSynced == Spec => []SyncedUnlessCrossed
<1>1. IInv => SyncedUnlessCrossed
  BY DEF IInv, OwnerInStep, SyncedUnlessCrossed
<1> QED BY <1>1, Invariance, PTL
=============================================================================
