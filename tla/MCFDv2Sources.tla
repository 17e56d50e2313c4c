---------------------------- MODULE MCFDv2Sources ----------------------------
(* An instance of FDv2Sources for TLC: f1 has the prerequisite f2 and both use *)
(* the segment s1.                                                             *)
EXTENDS FDv2Sources

CONSTANTS f1, f2, s1

MCRefs == [i \in {f1, f2, s1} |-> CASE i = f1 -> {f2, s1} [] i = f2 -> {s1} [] OTHER -> {}]
=============================================================================
