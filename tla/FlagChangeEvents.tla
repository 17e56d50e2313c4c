-------------------------- MODULE FlagChangeEvents --------------------------
(***************************************************************************)
(* How DataSourceUpdateSinkImpl.Init and Upsert keep the dependency graph  *)
(* and find the flags to send change events for                            *)
(* (internal/datasource/data_source_update_sink_impl.go and                *)
(* data_model_dependencies.go).                                            *)
(*                                                                         *)
(* All of it runs on the data source's goroutine; the steps are the        *)
(* iterations of its loops, in the arbitrary order of Go maps.  An item is *)
(* its version and the flags and segments it refers to; a tombstone refers *)
(* to none.  The store applies Init and newer Upserts; when it reports an  *)
(* error it has changed nothing, except that a store with an infinite      *)
(* cache serves the data it could not write (KeepsRefused).                *)
(***************************************************************************)
EXTENDS Integers, FiniteSets

CONSTANTS
    Flags, Segments,  \* keys of the two data kinds
    Refs,             \* what each item may refer to
    MaxVersion,       \* bound on versions
    InOrder,          \* whether Init never delivers older or altered versions
    ReadFails,        \* whether reading the old data before Init may fail
    KeepsRefused      \* whether the store has an infinite cache

ASSUME KindsDisjoint == Flags \cap Segments = {}
ASSUME VersionsAssumption == MaxVersion \in Nat \ {0}
ASSUME SwitchesAssumption == {InOrder, ReadFails, KeepsRefused} \subseteq BOOLEAN

Vertices == Flags \cup Segments
Kinds == {Flags, Segments}          \* datakinds.AllDataKinds()

\* GetNeighbors: a flag refers to prerequisite flags and to segments, a
\* segment to segments.  Version 0 stands for "no such item".
ASSUME RefsAssumption == /\ Refs \in [Vertices -> SUBSET Vertices]
                         /\ \A s \in Segments : Refs[s] \subseteq Segments
Items(v) == [ver : 1 .. MaxVersion, deps : SUBSET Refs[v]]
NoItem == [ver |-> 0, deps |-> {}]
AnyItem == [ver : 0 .. MaxVersion, deps : SUBSET Vertices]
DataSets == {d \in [Vertices -> AnyItem] :
                \A v \in Vertices : d[v] = NoItem \/ d[v] \in Items(v)}
NoDeps == [v \in Vertices |-> {}]

VARIABLES
    store,      \* the data store
    from, to,   \* dependencyTracker.dependenciesFrom and dependenciesTo
    listening,  \* flagChangeEventBroadcaster.HasListeners()
    pc,         \* "idle", "load" (rebuild the graph), "affect" (find the
                \* affected items) or "sent"
    todo,       \* items still to be loaded into the graph
    notify,     \* was someone listening when Init began (oldData != nil)
    compare,    \* the kinds whose old data Init has read
    old,        \* the store before the operation in progress, if there is one
    work,       \* items still to be passed to addAffectedItems
    itemsOut,   \* the affected items found so far
    lastStoreUpdateFailed,
    known,      \* history: has an Init succeeded, so that the graph is known
    behind      \* history: has the infinite cache taken data since then that the
                \* sink does not know to be served

vars == <<store, from, to, listening, pc, todo, notify, compare, old, work, itemsOut,
          lastStoreUpdateFailed, known, behind>>

Init ==
    /\ store \in DataSets
    /\ from = NoDeps /\ to = NoDeps
    /\ listening \in BOOLEAN
    /\ pc = "idle"
    /\ todo = {} /\ compare = {} /\ work = {} /\ itemsOut = {}
    /\ old = store
    /\ notify = FALSE /\ known = FALSE /\ lastStoreUpdateFailed = FALSE
    /\ behind = FALSE

-----------------------------------------------------------------------------
\* updateDependenciesFrom(kind, fromKey, fromItem): undo the old edges, add
\* the new ones
updateDependenciesFrom(v, deps) ==
    LET removed == [w \in Vertices |-> IF w \in from[v] THEN to[w] \ {v} ELSE to[w]]
    IN /\ from' = [from EXCEPT ![v] = deps]
       /\ to' = [w \in Vertices |-> IF w \in deps THEN removed[w] \cup {v}
                                                  ELSE removed[w]]

\* Whether an update may be delivered: an ordered feed never goes back, and a
\* version never stands for two contents.
Follows(new, cur) == InOrder => new.ver > cur.ver \/ new = cur \/ new = NoItem

\* Mutant: the graph is not reset.
InitDataNoReset(data) ==
    /\ pc = "idle"
    /\ \A v \in Vertices : Follows(data[v], store[v])
    /\ compare' = IF listening THEN Kinds ELSE {}
    /\ notify' = listening
    /\ old' = store
    /\ store' = data
    /\ todo' = {v \in Vertices : data[v] # NoItem}
    /\ pc' = "load"
    /\ known' = TRUE /\ behind' = FALSE
    /\ lastStoreUpdateFailed' = FALSE
    /\ UNCHANGED <<from, to, listening, work, itemsOut>>

\* Init(allData) on a store that accepts the data: the old data is read if
\* someone is listening, the store is overwritten, the graph is reset.
InitData(data) ==
    /\ pc = "idle"
    /\ \A v \in Vertices : Follows(data[v], store[v])
    /\ \E readable \in SUBSET Kinds :
          /\ ReadFails \/ readable = Kinds
          /\ compare' = IF listening THEN readable ELSE {}
    /\ notify' = listening
    /\ old' = store
    /\ store' = data
    /\ from' = NoDeps /\ to' = NoDeps
    /\ todo' = {v \in Vertices : data[v] # NoItem}
    /\ pc' = "load"
    /\ known' = TRUE /\ behind' = FALSE
    /\ lastStoreUpdateFailed' = FALSE
    /\ UNCHANGED <<listening, work, itemsOut>>

\* updateDependencyTrackerFromFullDataSet, one item
LoadItem(v) ==
    /\ pc = "load"
    /\ v \in todo
    /\ updateDependenciesFrom(v, store[v].deps)
    /\ todo' = todo \ {v}
    /\ UNCHANGED <<store, listening, pc, notify, compare, old, work, itemsOut, lastStoreUpdateFailed, known, behind>>

\* Mutant: items that are gone do not count as changed.
ChangedItemsIgnoreGone ==
    LET oldItem(v) == IF \E K \in compare : v \in K THEN old[v] ELSE NoItem
    IN {v \in Vertices : oldItem(v).ver < store[v].ver}

\* computeChangedItemsForFullDataSet: an item whose old version could not be
\* read counts as new; one that is older or the same does not count.
ChangedItems ==
    LET oldItem(v) == IF \E K \in compare : v \in K THEN old[v] ELSE NoItem
    IN {v \in Vertices : \/ (oldItem(v) = NoItem) # (store[v] = NoItem)
                         \/ oldItem(v).ver < store[v].ver}

InitLoaded ==
    /\ pc = "load"
    /\ todo = {}
    /\ IF notify THEN pc' = "affect" /\ work' = ChangedItems /\ UNCHANGED old
                 ELSE pc' = "idle" /\ old' = store /\ UNCHANGED work
    /\ UNCHANGED <<store, from, to, listening, todo, notify, compare, itemsOut, lastStoreUpdateFailed, known, behind>>

\* Init(allData) on a store that reports an error: maybeUpdateError, and
\* neither the graph nor the listeners learn of the data.
InitRefused(data) ==
    /\ pc = "idle"
    /\ \A v \in Vertices : Follows(data[v], store[v])
    /\ store' = IF KeepsRefused THEN data ELSE store
    /\ old' = store'
    /\ behind' = (behind \/ KeepsRefused)
    /\ lastStoreUpdateFailed' = TRUE
    /\ UNCHANGED <<from, to, listening, pc, todo, notify, compare, work, itemsOut, known>>

\* Upsert(kind, key, item) of a newer item
Upsert(v, item) ==
    /\ pc = "idle"
    /\ item.ver > store[v].ver
    /\ store' = [store EXCEPT ![v] = item]
    /\ updateDependenciesFrom(v, item.deps)
    /\ IF listening THEN pc' = "affect" /\ work' = {v} /\ old' = store
                    ELSE old' = store' /\ UNCHANGED <<pc, work>>
    /\ lastStoreUpdateFailed' = FALSE
    /\ UNCHANGED <<listening, todo, notify, compare, itemsOut, known, behind>>

\* Upsert of an item the store already has in that version or a later one
UpsertOutdated(v, item) ==
    /\ pc = "idle"
    /\ item.ver <= store[v].ver
    /\ lastStoreUpdateFailed' = FALSE
    /\ UNCHANGED <<store, from, to, listening, pc, todo, notify, compare, old, work, itemsOut, known, behind>>

\* Upsert on a store that reports an error.  An infinite cache takes the item
\* whatever its version.
UpsertRefused(v, item) ==
    /\ pc = "idle"
    /\ Follows(item, store[v])
    /\ store' = IF KeepsRefused THEN [store EXCEPT ![v] = item] ELSE store
    /\ old' = store'
    /\ behind' = (behind \/ KeepsRefused)
    /\ lastStoreUpdateFailed' = TRUE
    /\ UNCHANGED <<from, to, listening, pc, todo, notify, compare, work, itemsOut, known>>

\* Mutant: a visited item is visited again.
AddAffectedItemNoCheck(v) ==
    /\ pc = "affect"
    /\ v \in work
    /\ work' = (work \ {v}) \cup to[v]
    /\ itemsOut' = itemsOut \cup {v}
    /\ UNCHANGED <<store, from, to, listening, pc, todo, notify, compare, old, lastStoreUpdateFailed, known, behind>>

\* addAffectedItems: visit an item and, unless it was visited before, go on
\* to the items that depend on it.
AddAffectedItem(v) ==
    /\ pc = "affect"
    /\ v \in work
    /\ IF v \in itemsOut
       THEN work' = work \ {v} /\ UNCHANGED itemsOut
       ELSE work' = (work \ {v}) \cup to[v] /\ itemsOut' = itemsOut \cup {v}
    /\ UNCHANGED <<store, from, to, listening, pc, todo, notify, compare, old, lastStoreUpdateFailed, known, behind>>

\* sendChangeEvents: an event for every affected item that is a flag
SendChangeEvents ==
    /\ pc = "affect"
    /\ work = {}
    /\ pc' = "sent"
    /\ UNCHANGED <<store, from, to, listening, todo, notify, compare, old, work, itemsOut, lastStoreUpdateFailed, known, behind>>

Events == itemsOut \cap Flags

Return ==
    /\ pc = "sent"
    /\ pc' = "idle"
    /\ itemsOut' = {} /\ compare' = {} /\ notify' = FALSE /\ old' = store
    /\ UNCHANGED <<store, from, to, listening, todo, work, lastStoreUpdateFailed, known, behind>>

\* The first listener comes or the last one goes, at any time.
ToggleListener ==
    /\ listening' = ~listening
    /\ UNCHANGED <<store, from, to, pc, todo, notify, compare, old, work, itemsOut, lastStoreUpdateFailed, known, behind>>

Operation ==
    \/ \E data \in DataSets : InitData(data) \/ InitRefused(data)
    \/ \E v \in Vertices : \E item \in Items(v) :
          Upsert(v, item) \/ UpsertOutdated(v, item) \/ UpsertRefused(v, item)

Step ==
    \/ \E v \in Vertices : LoadItem(v)
    \/ InitLoaded
    \/ \E v \in Vertices : AddAffectedItem(v)
    \/ SendChangeEvents
    \/ Return

Next == Operation \/ Step \/ ToggleListener

Spec == Init /\ [][Next]_vars

\* The data source's goroutine finishes the operation it is in.
FairSpec == Spec /\ WF_vars(Step)

-----------------------------------------------------------------------------
(* Properties *)

\* Every variable has its type: the graph only mentions flags and segments.
TypeOK ==
    /\ store \in DataSets /\ old \in DataSets
    /\ from \in [Vertices -> SUBSET Vertices]
    /\ to \in [Vertices -> SUBSET Vertices]
    /\ listening \in BOOLEAN /\ notify \in BOOLEAN /\ known \in BOOLEAN
    /\ behind \in BOOLEAN
    /\ lastStoreUpdateFailed \in BOOLEAN
    /\ pc \in {"idle", "load", "affect", "sent"}
    /\ todo \subseteq Vertices /\ work \subseteq Vertices /\ itemsOut \subseteq Vertices
    /\ compare \subseteq Kinds

\* The two directions of the dependency graph are kept consistent by every
\* sequence of Init and Upsert.
GraphIsBidirectional ==
    \A v, w \in Vertices : w \in from[v] <=> v \in to[w]

\* Once an Init has been loaded the graph is that of the stored data ("We must
\* always update the dependency graph"), unless an infinite cache serves data that
\* its database refused.
GraphMatchesStore ==
    known /\ ~behind /\ pc # "load" => \A v \in Vertices : from[v] = store[v].deps

\* The items found to be affected include everything that refers to one of
\* them, and the search is over only when nothing is left to visit.
AffectedIsClosed ==
    pc = "sent" => \A v \in itemsOut, w \in Vertices : v \in from[w] => w \in itemsOut

\* What a flag's evaluation can depend on: the items reachable from it, which are
\* the least set that has the flag and, with an item, what the item refers to.
Closed(data, S) == \A v \in S : data[v].deps \subseteq S
Reachable(data, f) ==
    {v \in Vertices : \A S \in SUBSET Vertices : f \in S /\ Closed(data, S) => v \in S}

Configuration(data, f) == [v \in Reachable(data, f) |-> data[v]]

\* Whether the sink had what it needs to tell what changed: it knows the graph,
\* and an Init could read all the old data.
Informed == known /\ ~behind /\ (notify => compare = Kinds)

\* A flag gets an event if and only if its own configuration, or that of anything
\* it directly or indirectly refers to, differs from before the operation: no
\* change is missed and none is reported without a difference.
EventsAreExact ==
    pc = "sent" /\ Informed =>
        \A f \in Flags : f \in Events <=> Configuration(old, f) # Configuration(store, f)

\* Reporting the changes ends, even when flags refer to each other in cycles.
OperationEnds == pc # "idle" ~> pc = "idle"
=============================================================================
