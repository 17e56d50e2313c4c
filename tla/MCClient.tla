------------------------------- MODULE MCClient -------------------------------
(* An instance of Client for TLC: a flag that may be missing, of the wrong     *)
(* type, a migration stage, or have a prerequisite.                            *)
EXTENDS Client
=============================================================================
