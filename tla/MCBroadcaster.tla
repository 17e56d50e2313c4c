---------------------------- MODULE MCBroadcaster ----------------------------
(* Instances of Broadcaster for TLC. *)
EXTENDS Broadcaster
=============================================================================
