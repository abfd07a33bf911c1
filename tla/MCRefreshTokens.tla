--------------------------- MODULE MCRefreshTokens ---------------------------
(***************************************************************************)
(* Small instances of RefreshTokens: the master admin and one more         *)
(* account, two requests in flight.                                        *)
(***************************************************************************)
EXTENDS RefreshTokens, TLC

\* Requests run the same code: permuting them changes nothing.
RequestSymmetry == Permutations(Requests)

=============================================================================
