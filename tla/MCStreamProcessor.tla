-------------------------- MODULE MCStreamProcessor --------------------------
(* Instances of StreamProcessor for TLC. *)
EXTENDS StreamProcessor
=============================================================================
