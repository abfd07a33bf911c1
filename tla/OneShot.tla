------------------------------- MODULE OneShot -------------------------------
(***************************************************************************)
(* What single-use tokens promise: each is issued once, and the effect it  *)
(* stands for happens at most once, and only after it was issued.          *)
(* honoured counts the effects, so that a second one would be a step of    *)
(* its own and not a stutter.  A token may become loose: the promise of    *)
(* one effect is not made for it any more.                                 *)
(***************************************************************************)
EXTENDS Naturals

CONSTANT Tokens

VARIABLES issued, honoured, loose

vars == <<issued, honoured, loose>>

Init ==
  /\ issued = {}
  /\ honoured = [t \in Tokens |-> 0]
  /\ loose = {}

Issue(new) ==
  /\ issued' = issued \cup new
  /\ UNCHANGED <<honoured, loose>>

Honour(t) ==
  /\ t \in issued
  /\ honoured[t] = 0 \/ t \in loose
  /\ honoured' = [honoured EXCEPT ![t] = @ + 1]
  /\ UNCHANGED <<issued, loose>>

Loosen(t) ==
  /\ t \in issued
  /\ loose' = loose \cup {t}
  /\ UNCHANGED <<issued, honoured>>

Next ==
  \/ \E new \in SUBSET (Tokens \ issued) : Issue(new)
  \/ \E t \in Tokens : Honour(t) \/ Loosen(t)

Spec == Init /\ [][Next]_vars

=============================================================================
