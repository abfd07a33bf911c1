---------------------------- MODULE MCEmailTokens ----------------------------
(***************************************************************************)
(* Small instances of EmailTokens: two requests in flight, and addresses   *)
(* that can move between accounts.                                         *)
(***************************************************************************)
EXTENDS EmailTokens, TLC

\* Requests run the same code and addresses are only compared.
AddressSymmetry == Permutations(Requests) \cup Permutations(Addresses)

=============================================================================
