------------------------- MODULE MCFlagChangeEvents -------------------------
(* Instances of FlagChangeEvents for TLC. *)
EXTENDS FlagChangeEvents

CONSTANTS f1, f2, s1

\* Two flags that may be each other's prerequisites, and a segment of one of them
CycleRefs == [v \in Vertices |-> CASE v = f1 -> {f2, s1} [] v = f2 -> {f1} [] OTHER -> {}]
=============================================================================
