------------------------------ MODULE MCPresence ------------------------------
(***************************************************************************)
(* Small instances of Presence.  Two sockets of one account, so that the    *)
(* one it opened last is not always the last to close; and a second account *)
(* with a socket of its own, since the dashboard's snapshot is of them all. *)
(* Only the first account is followed through timers and status writes:     *)
(* they touch one account at a time.                                        *)
(***************************************************************************)
EXTENDS Presence, TLC

CONSTANTS u1, u2, s1, s2, s3

TwoOfOne == s1 :> u1 @@ s2 :> u1
TwoAndOne == TwoOfOne @@ s3 :> u2

=============================================================================
