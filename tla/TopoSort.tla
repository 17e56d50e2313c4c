------------------------------- MODULE TopoSort -------------------------------
(***************************************************************************)
(* internal/toposort: the order in which items are written to a persistent *)
(* store.  Segments come first, in the order given; flags are visited      *)
(* depth first, each after its prerequisites, from a starting point that   *)
(* Go's map iteration picks.  The recursion is an explicit stack.          *)
(***************************************************************************)
EXTENDS Naturals, Sequences, FiniteSets

CONSTANTS Features, Segments        \* the keys of flags and of segments

ASSUME KindsAssumption ==
    /\ Features \cap Segments = {}
    /\ IsFiniteSet(Features) /\ IsFiniteSet(Segments)

VARIABLES
    neighbors,      \* what each of the items to sort refers to (GetNeighbors)
    remaining,      \* remainingItems: flags not yet visited
    stack,          \* the calls of addWithDependenciesFirst, innermost last
    out             \* the items sorted so far

sortVars == <<neighbors, remaining, stack, out>>

Items == Features \cup Segments
Orders(S) == {s \in [1 .. Cardinality(S) -> S] : \A i, j \in DOMAIN s : s[i] = s[j] => i = j}
Top == stack[Len(stack)]

SortInit ==
    /\ neighbors = [i \in {} |-> {}]
    /\ remaining = {} /\ stack = <<>> /\ out = <<>>

\* Sort has returned and its result has been used.
SortForget ==
    neighbors' = [i \in {} |-> {}] /\ remaining' = {} /\ stack' = <<>> /\ out' = <<>>

\* Sort of the items in DOMAIN refs; dataKindPriority puts segments first.
Sort(refs) ==
    /\ neighbors' = refs
    /\ remaining' = Features \cap DOMAIN refs
    /\ stack' = <<>>
    /\ out' \in Orders(Segments \cap DOMAIN refs)

Visit(i) ==
    /\ i \in remaining
    /\ remaining' = remaining \ {i}
    /\ stack' = Append(stack, i)
    /\ UNCHANGED <<neighbors, out>>

\* addItemsInDependencyOrder picks any flag to start from
Pick == stack = <<>> /\ \E i \in remaining : Visit(i)

\* addWithDependenciesFirst, the loop over a flag's prerequisites ...
Descend == stack # <<>> /\ \E i \in neighbors[Top] : Visit(i)

\* Mutant: a flag is appended without its prerequisites.
AppendItemAtOnce ==
    /\ stack # <<>>
    /\ out' = Append(out, Top)
    /\ stack' = SubSeq(stack, 1, Len(stack) - 1)
    /\ UNCHANGED <<neighbors, remaining>>

\* ... and its end
AppendItem ==
    /\ stack # <<>> /\ neighbors[Top] \cap remaining = {}
    /\ out' = Append(out, Top)
    /\ stack' = SubSeq(stack, 1, Len(stack) - 1)
    /\ UNCHANGED <<neighbors, remaining>>

Sorting == Pick \/ Descend \/ AppendItem
Sorted == stack = <<>> /\ remaining = {}
=============================================================================
