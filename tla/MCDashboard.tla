---------------------------- MODULE MCDashboard ----------------------------
(***************************************************************************)
(* A small instance of Dashboard: the admin's account and one that is      *)
(* registered while the page is open, two settings requests, two reloads.  *)
(* The last two are only compared.                                         *)
(***************************************************************************)
EXTENDS Dashboard, TLC

Symmetry == Permutations(Requests) \cup Permutations(Loads)
=============================================================================
