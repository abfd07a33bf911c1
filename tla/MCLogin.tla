------------------------------- MODULE MCLogin -------------------------------
(***************************************************************************)
(* A small instance of Login: one address, which has an account or has     *)
(* none, and two requests.  Addresses share no row, so one stands for all. *)
(***************************************************************************)
EXTENDS Login, TLC

=============================================================================
