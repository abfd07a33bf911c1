----------------------------- MODULE MCIdentity -----------------------------
(***************************************************************************)
(* A small instance of Identity: one account, two requests in flight, three *)
(* tokens and two keys, to change from and return to.  Accounts share no   *)
(* token.                                                                  *)
(***************************************************************************)
EXTENDS Identity, TLC

\* Requests run the same code.
RequestSymmetry == Permutations(Requests)

=============================================================================
