-------------------------------- MODULE MCMfa --------------------------------
(***************************************************************************)
(* Small instances of Mfa: one account, two requests in flight.  Accounts  *)
(* share no row, no code and no token.                                     *)
(***************************************************************************)
EXTENDS Mfa, TLC

\* Requests run the same code, and the backup codes of a set are only compared.
MfaSymmetry == Permutations(Requests) \cup Permutations(CodeIds)

=============================================================================
