---------------------------- MODULE MCServerList ----------------------------
(***************************************************************************)
(* A small instance of ServerList: one account, three servers, two         *)
(* requests in flight.  Accounts share no row and no room.                 *)
(***************************************************************************)
EXTENDS ServerList, TLC

=============================================================================
