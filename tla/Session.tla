------------------------------- MODULE Session -------------------------------
(***************************************************************************)
(* What a session promises its client: one token at a time gives access to *)
(* it, a token that stopped working never works again, and a session that  *)
(* was closed stays closed.  A session is named by the token that opened   *)
(* it.  It may become loose, and then has any number of tokens.            *)
(***************************************************************************)
EXTENDS Naturals

CONSTANT Tokens

VARIABLES
  opened,  \* the sessions there ever were
  closed,  \* those that are over
  loose,   \* those that lost the promise of one token at a time
  given,   \* the tokens clients ever received
  usable   \* of each session: the tokens that give access to it

vars == <<opened, closed, loose, given, usable>>

Init ==
  /\ opened = {}
  /\ closed = {}
  /\ loose = {}
  /\ given = {}
  /\ usable = [f \in Tokens |-> {}]

Open(f) ==
  /\ f \notin opened
  /\ opened' = opened \cup {f}
  /\ UNCHANGED <<closed, loose, given, usable>>

\* A client receives the next token of an open session, which has no other.
Give(f, t) ==
  /\ f \in opened \ closed
  /\ t \notin given
  /\ f \in loose \/ usable[f] = {}
  /\ given' = given \cup {t}
  /\ usable' = [usable EXCEPT ![f] = @ \cup {t}]
  /\ UNCHANGED <<opened, closed, loose>>

\* A client receives a token that was taken back on its way.
GiveDead(t) ==
  /\ t \notin given
  /\ given' = given \cup {t}
  /\ UNCHANGED <<opened, closed, loose, usable>>

\* Tokens stop working and sessions end; a session that ends has none left.
End(dead, over) ==
  /\ closed' = closed \cup over
  /\ usable' = [f \in Tokens |-> usable[f] \ dead]
  /\ \A f \in over : usable'[f] = {}
  /\ UNCHANGED <<opened, loose, given>>

Loosen(f) ==
  /\ f \in opened \ closed
  /\ loose' = loose \cup {f}
  /\ UNCHANGED <<opened, closed, given, usable>>

Next ==
  \/ \E f \in Tokens : Open(f) \/ Loosen(f)
  \/ \E f, t \in Tokens : Give(f, t)
  \/ \E t \in Tokens : GiveDead(t)
  \/ \E dead \in SUBSET given, over \in SUBSET (opened \ closed) : End(dead, over)

Spec == Init /\ [][Next]_vars

=============================================================================
