---------------------- MODULE DataSourceUpdateSink_proof ----------------------
(* Machine-checked proofs about DataSourceUpdateSinkImpl: how it finds the flags *)
(* to send events for (FlagChangeEvents), and its status (DataSourceStatus).     *)
EXTENDS FlagChangeEvents, DataSourceStatus, SequenceTheorems, TLAPS

(***************************************************************************)
(* The inductive invariant.  While Init reloads the graph, the items that  *)
(* are still to come have no edges; while the affected items are being     *)
(* collected, whatever refers to a collected item is collected or waiting. *)
(***************************************************************************)
Deps(v) == store[v].deps

Loading ==
    pc = "load" => /\ todo \subseteq Vertices
                   /\ \A v \in Vertices : from[v] = IF v \in todo THEN {} ELSE Deps(v)
Collecting ==
    /\ pc = "affect" => \A v \in itemsOut : to[v] \subseteq itemsOut \cup work
    /\ pc = "sent" => \A v \in itemsOut : to[v] \subseteq itemsOut
    /\ pc \in {"idle", "load"} => itemsOut = {}
LoadedIsKnown == pc = "load" => known

GraphInv ==
    /\ GraphIsBidirectional
    /\ GraphMatchesStore
    /\ Loading
    /\ Collecting
    /\ LoadedIsKnown

\* The data sets that Init and Upsert deal in are well typed.
LEMMA ItemTypes ==
    /\ NoItem \in AnyItem
    /\ \A v \in Vertices : Items(v) \subseteq AnyItem
    /\ NoDeps \in [Vertices -> SUBSET Vertices]
BY VersionsAssumption, RefsAssumption DEF NoItem, AnyItem, Items, NoDeps, Vertices

\* updateDependenciesFrom replaces the edges of one vertex in both directions.
LEMMA UpdateGraph ==
    ASSUME from \in [Vertices -> SUBSET Vertices], to \in [Vertices -> SUBSET Vertices],
           GraphIsBidirectional, NEW v \in Vertices, NEW deps \in SUBSET Vertices,
           updateDependenciesFrom(v, deps)
    PROVE  /\ from' = [from EXCEPT ![v] = deps]
           /\ from' \in [Vertices -> SUBSET Vertices]
           /\ to' \in [Vertices -> SUBSET Vertices]
           /\ GraphIsBidirectional'
<1>1. /\ from' = [from EXCEPT ![v] = deps]
      /\ from' \in [Vertices -> SUBSET Vertices]
  BY DEF updateDependenciesFrom
<1>2. \A w \in Vertices :
         to'[w] = IF w \in deps THEN (IF w \in from[v] THEN to[w] \ {v} ELSE to[w]) \cup {v}
                  ELSE IF w \in from[v] THEN to[w] \ {v} ELSE to[w]
  BY DEF updateDependenciesFrom
<1>3. to' \in [Vertices -> SUBSET Vertices]
  BY DEF updateDependenciesFrom
<1>4. ASSUME NEW u \in Vertices, NEW w \in Vertices
      PROVE  w \in from'[u] <=> u \in to'[w]
  <2>1. w \in from[u] <=> u \in to[w]
    BY DEF GraphIsBidirectional
  <2>2. CASE u = v
    BY <1>1, <1>2, <2>1, <2>2
  <2>3. CASE u # v
    <3>1. from'[u] = from[u]
      BY <1>1, <2>3
    <3>2. u \in to'[w] <=> u \in to[w]
      BY <1>2, <2>3
    <3> QED
      BY <2>1, <3>1, <3>2
  <2> QED
    BY <2>2, <2>3
<1> QED
  BY <1>1, <1>3, <1>4 DEF GraphIsBidirectional

(***************************************************************************)
(* Types                                                                   *)
(***************************************************************************)
LEMMA InitGraph == Init => TypeOK /\ GraphInv
<1> SUFFICES ASSUME Init PROVE TypeOK /\ GraphInv
  OBVIOUS
<1>1. TypeOK
  BY ItemTypes DEF Init, TypeOK
<1>2. GraphInv
  BY DEF Init, GraphInv, GraphIsBidirectional, GraphMatchesStore, Loading, Collecting,
         LoadedIsKnown, NoDeps
<1> QED
  BY <1>1, <1>2

LEMMA StepGraph ==
    ASSUME TypeOK, GraphInv, [Next]_vars
    PROVE  TypeOK' /\ GraphInv'
<1> USE DEF GraphInv
<1>a. \A v \in Vertices : store[v] \in AnyItem /\ store[v].deps \in SUBSET Vertices
  BY DEF TypeOK, DataSets, AnyItem
<1>1. CASE UNCHANGED vars
  BY <1>1 DEF vars, TypeOK, GraphIsBidirectional, GraphMatchesStore, Loading,
              Collecting, LoadedIsKnown, Deps
<1>2. ASSUME NEW data \in DataSets, InitData(data)
      PROVE  TypeOK' /\ GraphInv'
  <2>1. TypeOK'
    BY <1>2, ItemTypes DEF InitData, TypeOK
  <2>2. Loading'
    BY <1>2 DEF InitData, Loading, Deps, NoDeps, NoItem
  <2>3. GraphInv'
    BY <1>2, <2>2 DEF InitData, GraphIsBidirectional, GraphMatchesStore, Collecting,
                      LoadedIsKnown, NoDeps
  <2> QED
    BY <2>1, <2>3
<1>3. ASSUME NEW v \in Vertices, NEW item \in Items(v), Upsert(v, item)
      PROVE  TypeOK' /\ GraphInv'
  <2>1. item \in AnyItem /\ item.deps \in SUBSET Vertices
    BY ItemTypes DEF AnyItem
  <2>2. /\ from' = [from EXCEPT ![v] = item.deps]
        /\ from' \in [Vertices -> SUBSET Vertices]
        /\ to' \in [Vertices -> SUBSET Vertices]
        /\ GraphIsBidirectional'
    BY <1>3, <2>1, UpdateGraph DEF Upsert, TypeOK
  <2>3. store' \in DataSets
    BY <1>3, <2>1 DEF Upsert, TypeOK, DataSets
  <2>4. TypeOK'
    BY <1>3, <2>2, <2>3 DEF Upsert, TypeOK
  <2>5. \A w \in Vertices : store'[w] = IF w = v THEN item ELSE store[w]
    BY <1>3 DEF Upsert, TypeOK, DataSets
  <2>6. GraphMatchesStore'
    BY <1>3, <2>2, <2>5 DEF Upsert, GraphMatchesStore, TypeOK
  <2>7. Loading' /\ Collecting' /\ LoadedIsKnown'
    BY <1>3 DEF Upsert, Loading, Collecting, LoadedIsKnown
  <2> QED
    BY <2>2, <2>4, <2>6, <2>7
<1>4. ASSUME NEW v \in Vertices, LoadItem(v)
      PROVE  TypeOK' /\ GraphInv'
  <2>2. /\ from' = [from EXCEPT ![v] = store[v].deps]
        /\ from' \in [Vertices -> SUBSET Vertices]
        /\ to' \in [Vertices -> SUBSET Vertices]
        /\ GraphIsBidirectional'
    BY <1>4, <1>a, UpdateGraph DEF LoadItem, TypeOK
  <2>3. TypeOK'
    BY <1>4, <2>2 DEF LoadItem, TypeOK
  <2>4. Loading'
    BY <1>4, <2>2 DEF LoadItem, Loading, Deps, TypeOK
  <2>5. GraphMatchesStore' /\ Collecting' /\ LoadedIsKnown'
    BY <1>4 DEF LoadItem, GraphMatchesStore, Collecting, LoadedIsKnown
  <2> QED
    BY <2>2, <2>3, <2>4, <2>5
<1>5. CASE InitLoaded
  <2>1. TypeOK'
    BY <1>5 DEF InitLoaded, TypeOK, ChangedItems
  <2>2. GraphIsBidirectional' /\ GraphMatchesStore'
    BY <1>5 DEF InitLoaded, Loading, Deps, GraphIsBidirectional, GraphMatchesStore
  <2>3. Loading' /\ Collecting' /\ LoadedIsKnown'
    BY <1>5 DEF InitLoaded, Loading, Collecting, LoadedIsKnown
  <2> QED
    BY <2>1, <2>2, <2>3
<1>6. ASSUME NEW v \in Vertices, AddAffectedItem(v)
      PROVE  TypeOK' /\ GraphInv'
  <2>1. TypeOK'
    BY <1>6 DEF AddAffectedItem, TypeOK
  <2>2. Collecting'
    BY <1>6 DEF AddAffectedItem, Collecting
  <2>3. GraphIsBidirectional' /\ GraphMatchesStore' /\ Loading' /\ LoadedIsKnown'
    BY <1>6 DEF AddAffectedItem, GraphIsBidirectional, GraphMatchesStore, Loading,
                LoadedIsKnown
  <2> QED
    BY <2>1, <2>2, <2>3
<1>7. CASE SendChangeEvents
  BY <1>7 DEF SendChangeEvents, TypeOK, GraphIsBidirectional, GraphMatchesStore, Loading,
              Collecting, LoadedIsKnown
<1>8. CASE Return
  BY <1>8 DEF Return, TypeOK, GraphIsBidirectional, GraphMatchesStore, Loading,
              Collecting, LoadedIsKnown
<1>9. CASE ToggleListener
  BY <1>9 DEF ToggleListener, TypeOK, GraphIsBidirectional, GraphMatchesStore, Loading,
              Collecting, LoadedIsKnown, Deps
<1>10. ASSUME NEW data \in DataSets, InitRefused(data)
       PROVE  TypeOK' /\ GraphInv'
  BY <1>10 DEF InitRefused, TypeOK, GraphIsBidirectional, GraphMatchesStore, Loading,
               Collecting, LoadedIsKnown
<1>11. ASSUME NEW v \in Vertices, NEW item \in Items(v), UpsertOutdated(v, item)
       PROVE  TypeOK' /\ GraphInv'
  BY <1>11 DEF UpsertOutdated, TypeOK, GraphIsBidirectional, GraphMatchesStore, Loading,
               Collecting, LoadedIsKnown
<1>12. ASSUME NEW v \in Vertices, NEW item \in Items(v), UpsertRefused(v, item)
       PROVE  TypeOK' /\ GraphInv'
  <2>1. [store EXCEPT ![v] = item] \in DataSets
    BY ItemTypes DEF TypeOK, DataSets
  <2>2. TypeOK'
    BY <1>12, <2>1 DEF UpsertRefused, TypeOK
  <2>3. GraphInv'
    BY <1>12 DEF UpsertRefused, GraphIsBidirectional, GraphMatchesStore, Loading,
                 Collecting, LoadedIsKnown
  <2> QED
    BY <2>2, <2>3
<1> QED
  BY <1>1, <1>2, <1>3, <1>4, <1>5, <1>6, <1>7, <1>8, <1>9, <1>10, <1>11, <1>12
     DEF Next, Operation, Step

LEMMA GraphInvHolds == Spec => [](TypeOK /\ GraphInv)
<1>1. TypeOK /\ GraphInv /\ [Next]_vars => (TypeOK /\ GraphInv)'
  BY StepGraph
<1> QED
  BY InitGraph, <1>1, PTL DEF Spec

-----------------------------------------------------------------------------
(***************************************************************************)
(* The dependency graph kept by Init and Upsert is consistent in both      *)
(* directions, for any number of flags, segments and versions.             *)
(***************************************************************************)
THEOREM GraphStaysBidirectional == Spec => []GraphIsBidirectional
<1>1. GraphInv => GraphIsBidirectional
  BY DEF GraphInv
<1> QED
  BY <1>1, GraphInvHolds, PTL

(***************************************************************************)
(* Except while Init reloads it, it is exactly the graph of the stored     *)
(* items, unless an infinite cache serves data that its database refused.  *)
(***************************************************************************)
THEOREM GraphStaysCurrent == Spec => []GraphMatchesStore
<1>1. GraphInv => GraphMatchesStore
  BY DEF GraphInv
<1> QED
  BY <1>1, GraphInvHolds, PTL

(***************************************************************************)
(* The set that addAffectedItems computes is closed under "is referred to  *)
(* by", whatever cycles the graph has and in whatever order it is visited. *)
(***************************************************************************)
THEOREM AffectedSetIsClosed == Spec => []AffectedIsClosed
<1>1. TypeOK /\ GraphInv => AffectedIsClosed
  <2> SUFFICES ASSUME TypeOK, GraphInv, pc = "sent",
                      NEW v \in itemsOut, NEW w \in Vertices, v \in from[w]
               PROVE  w \in itemsOut
    BY DEF AffectedIsClosed
  <2>1. w \in to[v]
    BY DEF TypeOK, GraphInv, GraphIsBidirectional
  <2> QED
    BY <2>1 DEF GraphInv, Collecting
<1> QED
  BY <1>1, GraphInvHolds, PTL

-----------------------------------------------------------------------------
(***************************************************************************)
(* Exactly the affected flags get an event.  The search begins with the    *)
(* items that have changed (Seeded), and what it has found or is about to  *)
(* visit is in every set that has those items and everything that refers   *)
(* to a member.  So it ends with the least such set, and its complement is *)
(* closed under references, before the operation as well as after it.      *)
(***************************************************************************)
Changed == {v \in Vertices : old[v] # store[v]}
Upward(S) == \A v \in S : to[v] \subseteq S

Seeded ==
    pc \in {"affect", "sent"} /\ Informed =>
        /\ Changed \subseteq itemsOut \cup work
        /\ \A S \in SUBSET Vertices :
              Changed \subseteq S /\ Upward(S) => itemsOut \cup work \subseteq S

EventInv ==
    /\ Seeded
    /\ pc = "load" => \A v \in Vertices : Follows(store[v], old[v])
    /\ pc = "sent" => work = {}
    /\ pc = "idle" => ~notify

\* The least closed set is closed and has the flag it begins with.
LEMMA ReachableIsLeast ==
    ASSUME NEW data \in DataSets, NEW f \in Vertices
    PROVE  /\ Reachable(data, f) \subseteq Vertices
           /\ f \in Reachable(data, f)
           /\ Closed(data, Reachable(data, f))
           /\ \A S \in SUBSET Vertices :
                 f \in S /\ Closed(data, S) => Reachable(data, f) \subseteq S
<1>1. \A v \in Vertices : data[v].deps \subseteq Vertices
  BY ItemTypes DEF DataSets, AnyItem
<1>2. Reachable(data, f) \subseteq Vertices /\ f \in Reachable(data, f)
  BY DEF Reachable
<1>3. \A S \in SUBSET Vertices : f \in S /\ Closed(data, S) => Reachable(data, f) \subseteq S
  BY DEF Reachable
<1>4. Closed(data, Reachable(data, f))
  <2> SUFFICES ASSUME NEW v \in Reachable(data, f), NEW w \in data[v].deps
               PROVE  w \in Reachable(data, f)
    BY DEF Closed
  <2>1. w \in Vertices
    BY <1>1, <1>2
  <2>2. \A S \in SUBSET Vertices : f \in S /\ Closed(data, S) => w \in S
    BY <1>3 DEF Closed
  <2> QED
    BY <2>1, <2>2 DEF Reachable
<1> QED
  BY <1>2, <1>3, <1>4

\* If all the old data was read and the feed is ordered, computeChangedItems
\* finds the items that differ and no others.
LEMMA ChangedItemsAreExact ==
    ASSUME InOrder, TypeOK, compare = Kinds,
           \A v \in Vertices : Follows(store[v], old[v])
    PROVE  ChangedItems = Changed
<1>1. \A v \in Vertices : \E K \in compare : v \in K
  BY DEF Kinds, Vertices
<1>2. \A v \in Vertices : /\ store[v] = NoItem \/ store[v].ver \in 1 .. MaxVersion
                          /\ old[v] = NoItem \/ old[v].ver \in 1 .. MaxVersion
  BY DEF TypeOK, DataSets, Items
<1>3. NoItem.ver = 0
  BY DEF NoItem
<1>4. ASSUME NEW v \in Vertices
      PROVE  old[v] # store[v] <=> \/ (old[v] = NoItem) # (store[v] = NoItem)
                                   \/ old[v].ver < store[v].ver
  <2>1. store[v].ver > old[v].ver \/ store[v] = old[v] \/ store[v] = NoItem
    BY DEF Follows
  <2>2. store[v] = old[v] => ~(old[v].ver < store[v].ver)
    BY <1>2, <1>3, VersionsAssumption
  <2>3. store[v] = NoItem => ~(old[v].ver < store[v].ver)
    BY <1>2, <1>3, VersionsAssumption
  <2>4. store[v].ver > old[v].ver <=> old[v].ver < store[v].ver
    BY <1>2, <1>3, VersionsAssumption
  <2> QED
    BY <2>1, <2>2, <2>3, <2>4
<1> QED
  BY <1>1, <1>4 DEF ChangedItems, Changed

LEMMA EventInit == Init => EventInv
BY DEF Init, EventInv, Seeded

LEMMA EventStep ==
    ASSUME InOrder, TypeOK, TypeOK', GraphInv, EventInv, [Next]_vars
    PROVE  EventInv'
<1> USE DEF EventInv
<1>1. CASE UNCHANGED vars
  BY <1>1 DEF vars, Seeded, Informed, Changed, Upward
<1>2. ASSUME NEW data \in DataSets, InitData(data)
      PROVE  EventInv'
  BY <1>2 DEF InitData, Seeded
<1>3. ASSUME NEW data \in DataSets, InitRefused(data)
      PROVE  EventInv'
  BY <1>3 DEF InitRefused, Seeded
<1>4. ASSUME NEW v \in Vertices, NEW item \in Items(v), Upsert(v, item)
      PROVE  EventInv'
  <2>1. itemsOut' = {} /\ pc' # "load" /\ pc' # "sent" /\ ~notify'
    BY <1>4 DEF Upsert, GraphInv, Collecting
  <2>2. pc' = "affect" => work' = {v} /\ old' = store
    BY <1>4 DEF Upsert
  <2>3. store' = [store EXCEPT ![v] = item] /\ item # store[v]
    BY <1>4, VersionsAssumption DEF Upsert, TypeOK, DataSets, Items, NoItem
  <2>4. ASSUME pc' = "affect" PROVE Changed' = {v}
    BY <2>2, <2>3, <2>4 DEF Changed, TypeOK, DataSets
  <2> QED
    BY <2>1, <2>2, <2>4 DEF Seeded
<1>5. ASSUME NEW v \in Vertices, NEW item \in Items(v), UpsertOutdated(v, item)
      PROVE  EventInv'
  BY <1>5 DEF UpsertOutdated, Seeded
<1>6. ASSUME NEW v \in Vertices, NEW item \in Items(v), UpsertRefused(v, item)
      PROVE  EventInv'
  BY <1>6 DEF UpsertRefused, Seeded
<1>7. ASSUME NEW v \in Vertices, LoadItem(v)
      PROVE  EventInv'
  BY <1>7 DEF LoadItem, Seeded, Follows
<1>8. CASE InitLoaded
  <2>1. CASE notify
    <3>1. /\ pc' = "affect" /\ work' = ChangedItems /\ old' = old /\ store' = store
          /\ itemsOut' = {}
      BY <1>8, <2>1 DEF InitLoaded, GraphInv, Collecting
    <3>2. Informed' => compare = Kinds
      BY <1>8, <2>1 DEF InitLoaded, Informed
    <3>3. Informed' => ChangedItems = Changed
      BY <1>8, <3>2, ChangedItemsAreExact DEF InitLoaded
    <3>4. Changed' = Changed
      BY <3>1 DEF Changed
    <3> QED
      BY <3>1, <3>3, <3>4 DEF Seeded
  <2>2. CASE ~notify
    BY <1>8, <2>2 DEF InitLoaded, Seeded
  <2> QED
    BY <2>1, <2>2
<1>9. ASSUME NEW v \in Vertices, AddAffectedItem(v)
      PROVE  EventInv'
  <2>1. /\ pc = "affect" /\ pc' = pc /\ v \in work
        /\ Informed' <=> Informed
        /\ Changed' = Changed
        /\ \A S : Upward(S)' <=> Upward(S)
    BY <1>9 DEF AddAffectedItem, Informed, Changed, Upward
  <2>2. itemsOut' \cup work' = itemsOut \cup work \/
        itemsOut' \cup work' = itemsOut \cup work \cup to[v]
    BY <1>9 DEF AddAffectedItem
  <2>3. \A S \in SUBSET Vertices :
           itemsOut \cup work \subseteq S /\ Upward(S) => itemsOut' \cup work' \subseteq S
    BY <2>1, <2>2 DEF Upward
  <2>4. Seeded'
    BY <2>1, <2>2, <2>3 DEF Seeded
  <2> QED
    BY <2>1, <2>4
<1>10. CASE SendChangeEvents
  BY <1>10 DEF SendChangeEvents, Seeded, Informed, Changed, Upward
<1>11. CASE Return
  BY <1>11 DEF Return, Seeded
<1>12. CASE ToggleListener
  BY <1>12 DEF ToggleListener, Seeded, Informed, Changed, Upward, Follows
<1> QED
  BY <1>1, <1>2, <1>3, <1>4, <1>5, <1>6, <1>7, <1>8, <1>9, <1>10, <1>11, <1>12
     DEF Next, Operation, Step

\* The flags of a set that is least among those that have the changed items and
\* all that refers to a member are the flags whose configuration has changed.
LEMMA SentEventsAreExact ==
    ASSUME TypeOK, GraphInv, EventInv, pc = "sent", Informed, NEW f \in Flags
    PROVE  f \in Events <=> Configuration(old, f) # Configuration(store, f)
<1> DEFINE Before == Reachable(old, f)
           After  == Reachable(store, f)
           Rest   == Vertices \ itemsOut
<1>1. f \in Vertices /\ old \in DataSets /\ store \in DataSets
  BY DEF Vertices, TypeOK
<1>2. /\ Before \subseteq Vertices /\ f \in Before /\ Closed(old, Before)
      /\ \A S \in SUBSET Vertices : f \in S /\ Closed(old, S) => Before \subseteq S
  BY <1>1, ReachableIsLeast
<1>3. /\ After \subseteq Vertices /\ f \in After /\ Closed(store, After)
      /\ \A S \in SUBSET Vertices : f \in S /\ Closed(store, S) => After \subseteq S
  BY <1>1, ReachableIsLeast
<1>4. \A v, w \in Vertices : w \in store[v].deps <=> v \in to[w]
  BY DEF GraphInv, GraphMatchesStore, GraphIsBidirectional, Informed
<1>5. \A v \in Vertices : store[v].deps \subseteq Vertices /\ old[v].deps \subseteq Vertices
  BY <1>1, ItemTypes DEF DataSets, AnyItem
<1>6. /\ Upward(itemsOut)
      /\ \A v \in Vertices : old[v] # store[v] => v \in itemsOut
      /\ \A S \in SUBSET Vertices : Changed \subseteq S /\ Upward(S) => itemsOut \subseteq S
  BY DEF EventInv, Seeded, GraphInv, Collecting, Upward, Changed
<1>7. itemsOut \subseteq Vertices /\ (f \in Events <=> f \in itemsOut)
  BY DEF TypeOK, Events
<1>a. \A v \in Vertices : to[v] \subseteq Vertices
  BY DEF TypeOK
<1>8. /\ Configuration(old, f) = [v \in Before |-> old[v]]
      /\ Configuration(store, f) = [v \in After |-> store[v]]
  BY DEF Configuration
<1> HIDE DEF Before, After
<1>9. ASSUME f \in itemsOut, Configuration(old, f) = Configuration(store, f)
      PROVE  FALSE
  <2>1. Before = After
    BY <1>8, <1>9
  <2>2. \A v \in After : old[v] = store[v]
    BY <1>8, <1>9, <2>1
  <2>3. Changed \subseteq Vertices \ After
    BY <2>2 DEF Changed
  <2>4. Upward(Vertices \ After)
    BY <1>3, <1>4, <1>a DEF Upward, Closed
  <2>5. itemsOut \subseteq Vertices \ After
    BY <1>6, <2>3, <2>4
  <2> QED
    BY <1>3, <1>9, <2>5
<1>10. ASSUME f \notin itemsOut
       PROVE  Configuration(old, f) = Configuration(store, f)
  <2>1. Closed(store, Rest)
    BY <1>4, <1>5, <1>6 DEF Upward, Closed
  <2>2. \A v \in Rest : old[v] = store[v]
    BY <1>6
  <2>3. Closed(old, Rest)
    BY <2>1, <2>2 DEF Closed
  <2>4. f \in Rest /\ Rest \subseteq Vertices
    BY <1>1, <1>10
  <2>5. Before \subseteq Rest /\ After \subseteq Rest
    BY <1>2, <1>3, <2>1, <2>3, <2>4
  <2>6. Closed(store, Before) /\ Closed(old, After)
    BY <1>2, <1>3, <2>2, <2>5 DEF Closed
  <2>7. Before = After
    BY <1>2, <1>3, <2>6
  <2> QED
    BY <1>8, <2>2, <2>5, <2>7
<1> QED
  BY <1>7, <1>9, <1>10

(***************************************************************************)
(* A flag gets a change event if and only if its configuration, or that of *)
(* an item it refers to, directly or not, has changed: for any references, *)
(* cycles included, as long as data comes in order (a version that goes    *)
(* back, or stands for two contents, causes no event).                     *)
(***************************************************************************)
THEOREM EventsReportChanges ==
    ASSUME InOrder
    PROVE  Spec => []EventsAreExact
<1>1. TypeOK /\ GraphInv /\ EventInv /\ [Next]_vars => EventInv'
  BY StepGraph, EventStep
<1>2. TypeOK /\ GraphInv /\ EventInv => EventsAreExact
  BY SentEventsAreExact DEF EventsAreExact
<1> QED
  BY EventInit, GraphInvHolds, <1>1, <1>2, PTL DEF Spec

-----------------------------------------------------------------------------
(***************************************************************************)
(* The variant behind OperationEnds.  Every step of an operation goes on   *)
(* to the next phase, or loads an item, or visits one that was not         *)
(* visited, or drops one that was: with finitely many flags and segments   *)
(* no operation goes on for ever, whatever cycles the references have.     *)
(***************************************************************************)
Phase == IF pc = "load" THEN 3 ELSE IF pc = "affect" THEN 2 ELSE IF pc = "sent" THEN 1 ELSE 0
Loses(S, T) == T \subseteq S /\ T # S
Unvisited == Vertices \ itemsOut
Closer ==
    \/ Phase' < Phase
    \/ pc' = "load" /\ pc = "load" /\ Loses(todo, todo')
    \/ pc' = "affect" /\ pc = "affect" /\ Loses(Unvisited, Unvisited')
    \/ pc' = "affect" /\ pc = "affect" /\ UNCHANGED itemsOut /\ Loses(work, work')
EveryStepIsCloser == [][pc # "idle" => Closer \/ UNCHANGED <<pc, todo, work, itemsOut>>]_vars

\* addAffectedItems never visits an item twice, so that the recursion of
\* computing the events ends, though flags refer to each other in cycles.
THEOREM SearchGetsCloser == Spec => EveryStepIsCloser
<1>1. TypeOK /\ [Next]_vars
          => [pc # "idle" => Closer \/ UNCHANGED <<pc, todo, work, itemsOut>>]_vars
  <2> SUFFICES ASSUME TypeOK, Next, pc # "idle"
               PROVE  Closer \/ UNCHANGED <<pc, todo, work, itemsOut>>
    OBVIOUS
  <2>0. pc \in {"load", "affect", "sent"} /\ itemsOut \subseteq Vertices
    BY DEF TypeOK
  <2>1. CASE Operation
    BY <2>1 DEF Operation, InitData, InitRefused, Upsert, UpsertOutdated, UpsertRefused
  <2>2. ASSUME NEW v \in Vertices, LoadItem(v)
        PROVE  Closer
    BY <2>2 DEF LoadItem, Closer, Loses
  <2>3. CASE InitLoaded \/ SendChangeEvents \/ Return
    BY <2>3 DEF InitLoaded, SendChangeEvents, Return, Closer, Phase
  <2>4. ASSUME NEW v \in Vertices, AddAffectedItem(v)
        PROVE  Closer
    <3>1. pc = "affect" /\ pc' = "affect" /\ v \in work
      BY <2>4 DEF AddAffectedItem
    <3>2. CASE v \in itemsOut
      BY <2>4, <3>1, <3>2 DEF AddAffectedItem, Closer, Loses
    <3>3. CASE v \notin itemsOut
      <4>1. itemsOut' = itemsOut \cup {v}
        BY <2>4, <3>3 DEF AddAffectedItem
      <4> QED
        BY <3>1, <3>3, <4>1 DEF Closer, Loses, Unvisited
    <3> QED
      BY <3>2, <3>3
  <2>5. CASE ToggleListener
    BY <2>5 DEF ToggleListener
  <2> QED
    BY <2>1, <2>2, <2>3, <2>4, <2>5 DEF Next, Step
<1> QED
  BY <1>1, GraphInvHolds, PTL DEF Spec, EveryStepIsCloser

-----------------------------------------------------------------------------
(* The status of the data source *)

Goroutines == Updaters \cup {App}

(***************************************************************************)
(* The inductive invariant.  Every outage was begun by an update; as long  *)
(* as no two updates have overlapped, at most one broadcast is outstanding *)
(* and it is of the current state, and everything that waitFor has been    *)
(* sent was the state at some time since it was called.                    *)
(***************************************************************************)
OutageRunning == inOutage => outage > 0
OutageInv == outage <= updates /\ OutageRunning /\ CloserIsCurrent

Outstanding ==
    ~overlapped =>
        /\ \A u, w \in Goroutines : outbox[u] # None /\ outbox[w] # None => u = w
        /\ \A u \in Goroutines : outbox[u] # None => outbox[u] = state

SentWasState ==
    ~overlapped /\ waiter = "waiting" =>
        /\ {state} \cap Ends \subseteq since
        /\ \A i \in 1 .. Len(statusCh) : {statusCh[i]} \cap Ends \subseteq since

AppIdle == closed = "no" => outbox[App] = None
IdleIsEmpty == waiter # "waiting" => statusCh = <<>>

StatusInv ==
    /\ Outstanding /\ ListenerIsCurrent /\ SentWasState /\ WaitForIsSound
    /\ IdleIsEmpty /\ AppIdle

AllStatusInv == StatusTypeOK /\ OutageInv /\ StatusInv

\* Nothing has happened at first.
LEMMA InitStatus == StatusInit => AllStatusInv
<1> SUFFICES ASSUME StatusInit PROVE AllStatusInv
  OBVIOUS
<1>1. StatusTypeOK
  <2>1. statusCh \in Seq(States)
    BY DEF StatusInit
  <2>2. /\ state \in States /\ latest \in States
        /\ outbox \in [Updaters \cup {App} -> States \cup {None}]
        /\ since \subseteq Ends /\ stopped \subseteq Outages /\ reports \subseteq Outages
    BY DEF StatusInit, States
  <2>3. timer \in [Outages -> {None, "waiting", "due", "done"}]
    BY DEF StatusInit
  <2>4. outage \in 0 .. MaxUpdates /\ updates \in 0 .. MaxUpdates
    BY BoundsAssumption DEF StatusInit
  <2> QED
    BY <2>1, <2>2, <2>3, <2>4 DEF StatusInit, StatusTypeOK
<1>2. OutageInv
  BY BoundsAssumption DEF StatusInit, OutageInv, OutageRunning, CloserIsCurrent
<1>3. StatusInv
  BY DEF StatusInit, StatusInv, Outstanding, ListenerIsCurrent, SentWasState, WaitForIsSound,
         IdleIsEmpty, AppIdle, Goroutines
<1> QED
  BY <1>1, <1>2, <1>3 DEF AllStatusInv

\* A change of state begins at most one outage, which some update pays for.
LEMMA TrackOutage ==
    ASSUME StatusTypeOK, OutageInv, NEW s \in States, NEW e \in BOOLEAN,
           trackOutage(s, e),
           \/ updates < MaxUpdates /\ updates' = updates + 1
           \/ s = "Off" /\ e = FALSE /\ updates' = updates
    PROVE  /\ OutageInv'
           /\ inOutage' \in BOOLEAN
           /\ timeoutCloser' \in Outages \cup {0}
           /\ stopped' \subseteq Outages
           /\ timer' \in [Outages -> {None, "waiting", "due", "done"}]
           /\ outage' \in 0 .. MaxUpdates
           /\ reports' \subseteq Outages
<1>0. /\ inOutage \in BOOLEAN /\ timeoutCloser \in Outages \cup {0} /\ stopped \subseteq Outages
      /\ timer \in [Outages -> {None, "waiting", "due", "done"}]
      /\ outage \in 0 .. MaxUpdates /\ reports \subseteq Outages
      /\ updates \in 0 .. MaxUpdates /\ MaxUpdates \in Nat
      /\ outage <= updates /\ (timeoutCloser # 0 => inOutage /\ timeoutCloser = outage)
  BY BoundsAssumption DEF StatusTypeOK, OutageInv, OutageRunning, CloserIsCurrent
<1>1. CASE s = "Interrupted" \/ e \/ (s = "Initializing" /\ inOutage)
  <2>1. CASE inOutage
    <3>1. UNCHANGED outageVars
      BY <1>1, <2>1 DEF trackOutage
    <3> QED
      BY <1>0, <3>1 DEF outageVars, OutageInv, OutageRunning, CloserIsCurrent
  <2>2. CASE ~inOutage
    <3>1. updates < MaxUpdates /\ updates' = updates + 1
      BY <1>1, <2>2
    <3>2. outage + 1 \in Outages
      BY <1>0, <3>1 DEF Outages
    <3>3. /\ inOutage' = TRUE /\ outage' = outage + 1 /\ timeoutCloser' = outage + 1
          /\ timer' = [timer EXCEPT ![outage + 1] = "waiting"]
          /\ stopped' = stopped /\ reports' = reports
      BY <1>1, <2>2 DEF trackOutage
    <3>4. OutageInv' /\ outage' \in 0 .. MaxUpdates
      BY <1>0, <3>1, <3>3 DEF OutageInv, OutageRunning, CloserIsCurrent
    <3>5. timer' \in [Outages -> {None, "waiting", "due", "done"}]
      BY <1>0, <3>3
    <3> QED
      BY <1>0, <3>2, <3>3, <3>4, <3>5
  <2> QED
    BY <1>0, <2>1, <2>2
<1>2. CASE ~(s = "Interrupted" \/ e \/ (s = "Initializing" /\ inOutage))
  <2>1. /\ inOutage' = FALSE
        /\ stopped' = IF timeoutCloser = 0 THEN stopped ELSE stopped \cup {timeoutCloser}
        /\ timeoutCloser' = 0
        /\ timer' = timer /\ outage' = outage /\ reports' = reports
    BY <1>2 DEF trackOutage
  <2>2. stopped' \subseteq Outages
    BY <1>0, <2>1
  <2>3. OutageInv'
    BY <1>0, <2>1 DEF OutageInv, OutageRunning, CloserIsCurrent
  <2> QED
    BY <1>0, <2>1, <2>2, <2>3
<1> QED
  BY <1>1, <1>2

\* The same of trackDataSourceState, with any timeout
LEMMA Track ==
    ASSUME StatusTypeOK, OutageInv, NEW s \in States, NEW e \in BOOLEAN,
           trackDataSourceState(s, e),
           \/ updates < MaxUpdates /\ updates' = updates + 1
           \/ s = "Off" /\ e = FALSE /\ updates' = updates
    PROVE  /\ OutageInv'
           /\ inOutage' \in BOOLEAN
           /\ timeoutCloser' \in Outages \cup {0}
           /\ stopped' \subseteq Outages
           /\ timer' \in [Outages -> {None, "waiting", "due", "done"}]
           /\ outage' \in 0 .. MaxUpdates
           /\ reports' \subseteq Outages
<1>1. CASE OutageLoggingTimeout = 0
  <2>1. UNCHANGED outageVars
    BY <1>1 DEF trackDataSourceState
  <2>2. outage \in Nat /\ updates \in Nat /\ outage <= updates /\ updates <= updates'
    BY BoundsAssumption DEF StatusTypeOK, OutageInv
  <2>3. outage <= updates'
    BY BoundsAssumption, <2>2 DEF StatusTypeOK
  <2> QED
    BY <2>1, <2>3 DEF outageVars, StatusTypeOK, OutageInv, OutageRunning, CloserIsCurrent
<1>2. CASE OutageLoggingTimeout # 0
  <2>1. trackOutage(s, e)
    BY <1>2 DEF trackDataSourceState
  <2> QED
    BY <2>1, TrackOutage
<1> QED
  BY <1>1, <1>2

\* What maybeUpdateStatus does to the status: nothing, or it sets it to some s
\* that the goroutine has yet to broadcast.
LEMMA Update ==
    ASSUME AllStatusInv, NEW u \in Goroutines, NEW newState \in States, NEW e \in BOOLEAN,
           maybeUpdateStatus(u, newState, e), NoteOverlap(u), outbox[u] = None,
           \/ updates < MaxUpdates /\ updates' = updates + 1
           \/ newState = "Off" /\ e = FALSE /\ updates' = updates,
           \/ closed' = closed /\ u # App
           \/ closed = "no" /\ closed' = "source",
           UNCHANGED <<latest, waiter, statusCh>>
    PROVE  AllStatusInv'
<1> DEFINE effective == IF newState = "Interrupted" /\ state = "Initializing"
                        THEN "Initializing" ELSE newState
<1>0. effective \in States /\ (newState = "Off" => effective = "Off")
  BY DEF States
<1>1. CASE effective = state /\ ~e
  <2>1. UNCHANGED <<state, outbox, since>> /\ UNCHANGED outageVars
    BY <1>1 DEF maybeUpdateStatus
  <2>2. updates' \in 0 .. MaxUpdates /\ outage <= updates'
    BY BoundsAssumption DEF AllStatusInv, StatusTypeOK, OutageInv
  <2>3. overlapped' \in BOOLEAN /\ (~overlapped' => ~overlapped)
    BY DEF NoteOverlap, AllStatusInv, StatusTypeOK
  <2>4. StatusTypeOK'
    BY <2>1, <2>2, <2>3 DEF AllStatusInv, StatusTypeOK, outageVars, Goroutines
  <2>5. OutageInv'
    BY <2>1, <2>2 DEF AllStatusInv, OutageInv, OutageRunning, CloserIsCurrent, outageVars
  <2>6. StatusInv'
    BY <2>1, <2>3 DEF AllStatusInv, StatusTypeOK, StatusInv, Outstanding, ListenerIsCurrent,
                      SentWasState, WaitForIsSound, IdleIsEmpty, AppIdle, Goroutines
  <2> QED
    BY <2>4, <2>5, <2>6 DEF AllStatusInv
<1>2. CASE ~(effective = state /\ ~e)
  <2>1. /\ state' = effective
        /\ outbox' = [outbox EXCEPT ![u] = effective]
        /\ since' = IF waiter = "waiting" THEN since \cup ({effective} \cap Ends) ELSE since
        /\ trackDataSourceState(effective, e)
    BY <1>2 DEF maybeUpdateStatus
  <2>2. /\ OutageInv'
        /\ inOutage' \in BOOLEAN
        /\ timeoutCloser' \in Outages \cup {0}
        /\ stopped' \subseteq Outages
        /\ timer' \in [Outages -> {None, "waiting", "due", "done"}]
        /\ outage' \in 0 .. MaxUpdates
        /\ reports' \subseteq Outages
    BY <1>0, <2>1, Track DEF AllStatusInv
  <2>3. updates' \in 0 .. MaxUpdates
    BY BoundsAssumption DEF AllStatusInv, StatusTypeOK
  <2>4. overlapped' \in BOOLEAN
    BY DEF NoteOverlap, AllStatusInv, StatusTypeOK
  <2>5. StatusTypeOK'
    BY <1>0, <2>1, <2>2, <2>3, <2>4 DEF AllStatusInv, StatusTypeOK, Goroutines, Ends
  <2>6. ~overlapped' => ~overlapped /\ \A w \in Goroutines : outbox[w] = None
    BY DEF NoteOverlap, Goroutines
  <2>7. effective # None
    BY <1>0 DEF States, None
  <2>8. \A w \in Goroutines : outbox'[w] = IF w = u THEN effective ELSE outbox[w]
    BY <2>1 DEF AllStatusInv, StatusTypeOK, Goroutines
  <2>9. Outstanding'
    BY <2>1, <2>6, <2>8 DEF Outstanding, Goroutines
  <2>10. ListenerIsCurrent'
    BY <2>7, <2>8 DEF ListenerIsCurrent, Goroutines
  <2>11. SentWasState' /\ WaitForIsSound' /\ IdleIsEmpty'
    BY <2>1, <2>6 DEF AllStatusInv, StatusInv, SentWasState, WaitForIsSound, IdleIsEmpty
  <2>12. AppIdle'
    BY <2>8 DEF AllStatusInv, StatusInv, AppIdle, Goroutines
  <2> QED
    BY <2>2, <2>5, <2>9, <2>10, <2>11, <2>12 DEF AllStatusInv, StatusInv
<1> QED
  BY <1>1, <1>2

\* A broadcast sends the current state, to a listener and to waitFor.
LEMMA BroadcastStep ==
    ASSUME AllStatusInv, NEW u \in Goroutines, Broadcast(u)
    PROVE  AllStatusInv'
<1>1. /\ outbox[u] # None
      /\ outbox' = [outbox EXCEPT ![u] = None]
      /\ latest' = IF closed = "all" THEN latest ELSE outbox[u]
      /\ statusCh' = IF closed # "all" /\ waiter = "waiting"
                     THEN Append(statusCh, outbox[u]) ELSE statusCh
      /\ UNCHANGED <<state, closed, waiter, since, overlapped, updates>>
      /\ UNCHANGED outageVars
  BY DEF Broadcast
<1>2. outbox[u] \in States /\ statusCh \in Seq(States)
  BY <1>1 DEF AllStatusInv, StatusTypeOK, Goroutines
<1>3. \A w \in Goroutines : outbox'[w] = IF w = u THEN None ELSE outbox[w]
  BY <1>1 DEF AllStatusInv, StatusTypeOK, Goroutines
<1>4. StatusTypeOK'
  <2>1. statusCh' \in Seq(States)
    BY <1>1, <1>2, AppendProperties
  <2>2. outbox' \in [Updaters \cup {App} -> States \cup {None}]
    BY <1>1 DEF AllStatusInv, StatusTypeOK
  <2>3. latest' \in States
    BY <1>1, <1>2 DEF AllStatusInv, StatusTypeOK
  <2> QED
    BY <1>1, <2>1, <2>2, <2>3 DEF AllStatusInv, StatusTypeOK, outageVars
<1>5. OutageInv'
  BY <1>1 DEF AllStatusInv, OutageInv, OutageRunning, CloserIsCurrent, outageVars
<1>6. ~overlapped => outbox[u] = state
  BY <1>1 DEF AllStatusInv, StatusInv, Outstanding
<1>7. Outstanding' /\ ListenerIsCurrent'
  BY <1>1, <1>3, <1>6 DEF AllStatusInv, StatusInv, Outstanding, ListenerIsCurrent, Goroutines
<1>8. SentWasState'
  <2> SUFFICES ASSUME ~overlapped, waiter = "waiting"
               PROVE  /\ {state} \cap Ends \subseteq since
                      /\ \A i \in 1 .. Len(statusCh') : {statusCh'[i]} \cap Ends \subseteq since
    BY <1>1 DEF SentWasState
  <2>1. /\ {state} \cap Ends \subseteq since
        /\ \A i \in 1 .. Len(statusCh) : {statusCh[i]} \cap Ends \subseteq since
    BY DEF AllStatusInv, StatusInv, SentWasState
  <2>2. CASE statusCh' = statusCh
    BY <2>1, <2>2
  <2>3. CASE statusCh' = Append(statusCh, outbox[u])
    <3>1. /\ Len(statusCh') = Len(statusCh) + 1
          /\ \A i \in 1 .. Len(statusCh) : statusCh'[i] = statusCh[i]
          /\ statusCh'[Len(statusCh) + 1] = state
      BY <1>2, <1>6, <2>3, AppendProperties
    <3>2. Len(statusCh) \in Nat
      BY <1>2
    <3>3. \A i \in 1 .. Len(statusCh') : i \in 1 .. Len(statusCh) \/ i = Len(statusCh) + 1
      BY <3>1, <3>2
    <3> QED
      BY <2>1, <3>1, <3>3
  <2> QED
    BY <1>1, <2>1, <2>2, <2>3
<1>9. WaitForIsSound' /\ IdleIsEmpty'
  BY <1>1 DEF AllStatusInv, StatusInv, WaitForIsSound, IdleIsEmpty
<1>10. AppIdle'
  BY <1>1, <1>3 DEF AllStatusInv, StatusInv, AppIdle, Goroutines
<1> QED
  BY <1>4, <1>5, <1>7, <1>8, <1>9, <1>10 DEF AllStatusInv, StatusInv

\* waitFor begins with an empty channel and receives what it has been sent.
LEMMA WaitStep ==
    ASSUME AllStatusInv, waitFor \/ WaitReceive \/ WaitTimeout
    PROVE  AllStatusInv'
<1>0. /\ UNCHANGED statusVars /\ UNCHANGED outageVars /\ UNCHANGED <<overlapped, updates>>
      /\ waiter' \in {"idle", "waiting", "yes", "no"} /\ since' \subseteq Ends
  BY DEF waitFor, WaitReceive, WaitTimeout, AllStatusInv, StatusTypeOK
<1>1. Outstanding' /\ ListenerIsCurrent' /\ AppIdle'
  BY <1>0 DEF statusVars, AllStatusInv, StatusInv, Outstanding, ListenerIsCurrent, AppIdle
<1>2. OutageInv'
  BY <1>0 DEF outageVars, AllStatusInv, OutageInv, OutageRunning, CloserIsCurrent
<1>3. ASSUME statusCh' \in Seq(States)
      PROVE  StatusTypeOK'
  BY <1>0, <1>3 DEF statusVars, outageVars, AllStatusInv, StatusTypeOK
<1>4. CASE waitFor
  <2>1. statusCh' = <<>> /\ since' = {state} \cap Ends /\ state' = state
    BY <1>4 DEF waitFor, statusVars, AllStatusInv, StatusInv, IdleIsEmpty
  <2>2. SentWasState' /\ IdleIsEmpty'
    BY <2>1 DEF SentWasState, IdleIsEmpty
  <2>3. WaitForIsSound'
    BY <1>4 DEF waitFor, WaitForIsSound, Ends
  <2>4. statusCh' \in Seq(States)
    BY <2>1
  <2> QED
    BY <1>1, <1>2, <1>3, <2>2, <2>3, <2>4 DEF AllStatusInv, StatusInv
<1>5. CASE WaitTimeout
  <2>1. statusCh' = <<>> /\ waiter' = "no"
    BY <1>5 DEF WaitTimeout
  <2>2. SentWasState' /\ IdleIsEmpty' /\ WaitForIsSound'
    BY <2>1 DEF SentWasState, IdleIsEmpty, WaitForIsSound
  <2>4. statusCh' \in Seq(States)
    BY <2>1
  <2> QED
    BY <1>1, <1>2, <1>3, <2>2, <2>4 DEF AllStatusInv, StatusInv
<1>6. CASE WaitReceive
  <2>1. waiter = "waiting" /\ statusCh # <<>> /\ statusCh \in Seq(States) /\ since' = since
    BY <1>6 DEF WaitReceive, AllStatusInv, StatusTypeOK
  <2>2. /\ Head(statusCh) = statusCh[1]
        /\ Tail(statusCh) \in Seq(States)
        /\ Len(Tail(statusCh)) = Len(statusCh) - 1
        /\ \A i \in 1 .. Len(statusCh) - 1 : Tail(statusCh)[i] = statusCh[i + 1]
        /\ Len(statusCh) \in Nat /\ 1 \in 1 .. Len(statusCh)
    BY <2>1, HeadTailProperties, EmptySeq
  <2>3. ~overlapped => /\ {state} \cap Ends \subseteq since
                       /\ \A i \in 1 .. Len(statusCh) : {statusCh[i]} \cap Ends \subseteq since
    BY <2>1 DEF AllStatusInv, StatusInv, SentWasState
  <2>4. CASE Head(statusCh) \in Ends
    <3>1. /\ statusCh' = <<>>
          /\ waiter' = IF Head(statusCh) = Desired THEN "yes" ELSE "no"
      BY <1>6, <2>4 DEF WaitReceive
    <3>2. WaitForIsSound'
      BY <1>0, <2>1, <2>2, <2>3, <2>4, <3>1 DEF WaitForIsSound, Ends
    <3>3. SentWasState' /\ IdleIsEmpty'
      BY <3>1 DEF SentWasState, IdleIsEmpty
    <3>4. statusCh' \in Seq(States)
      BY <3>1
    <3> QED
      BY <1>1, <1>2, <1>3, <3>2, <3>3, <3>4 DEF AllStatusInv, StatusInv
  <2>5. CASE Head(statusCh) \notin Ends
    <3>1. statusCh' = Tail(statusCh) /\ waiter' = "waiting"
      BY <1>6, <2>1, <2>5 DEF WaitReceive
    <3>2. \A i \in 1 .. Len(statusCh') :
             i + 1 \in 1 .. Len(statusCh) /\ statusCh'[i] = statusCh[i + 1]
      BY <2>2, <3>1
    <3>3. SentWasState'
      BY <1>0, <2>1, <2>3, <3>2 DEF SentWasState, statusVars
    <3>4. WaitForIsSound' /\ IdleIsEmpty'
      BY <3>1 DEF WaitForIsSound, IdleIsEmpty
    <3> QED
      BY <1>1, <1>2, <1>3, <2>2, <3>1, <3>3, <3>4 DEF AllStatusInv, StatusInv
  <2> QED
    BY <2>4, <2>5
<1> QED
  BY <1>4, <1>5, <1>6

\* The timers only touch the outage tracker.
LEMMA TimerStep ==
    ASSUME AllStatusInv, NEW o \in Outages, TimerStopped(o) \/ TimerElapses(o) \/ ReportOutage(o)
    PROVE  AllStatusInv'
<1>1. /\ UNCHANGED statusVars /\ UNCHANGED waitVars
      /\ UNCHANGED <<overlapped, updates, outage, inOutage, stopped>>
  BY DEF TimerStopped, TimerElapses, ReportOutage
<1>2. StatusInv'
  BY <1>1 DEF AllStatusInv, StatusInv, Outstanding, ListenerIsCurrent, SentWasState, WaitForIsSound,
              IdleIsEmpty, AppIdle, statusVars, waitVars
<1>3. /\ timer' \in [Outages -> {None, "waiting", "due", "done"}]
      /\ timeoutCloser' \in {timeoutCloser, 0}
  BY DEF TimerStopped, TimerElapses, ReportOutage, AllStatusInv, StatusTypeOK
<1>4. OutageInv'
  BY <1>1, <1>3 DEF AllStatusInv, OutageInv, OutageRunning, CloserIsCurrent
<1>5. reports' \subseteq Outages
  <2>1. inOutage => outage \in Outages
    BY BoundsAssumption DEF AllStatusInv, StatusTypeOK, OutageRunning, OutageInv, Outages
  <2> QED
    BY <2>1 DEF TimerStopped, TimerElapses, ReportOutage, AllStatusInv, StatusTypeOK
<1>6. StatusTypeOK'
  BY <1>1, <1>3, <1>5 DEF AllStatusInv, StatusTypeOK, statusVars, waitVars
<1> QED
  BY <1>2, <1>4, <1>6 DEF AllStatusInv

\* Every step preserves the invariant.
LEMMA StepStatus ==
    ASSUME AllStatusInv, [StatusNext]_allStatusVars
    PROVE  AllStatusInv'
<1>1. CASE UNCHANGED allStatusVars
  BY <1>1 DEF allStatusVars, statusVars, waitVars, outageVars, AllStatusInv, StatusTypeOK,
              OutageInv, OutageRunning,
              CloserIsCurrent, StatusInv, Outstanding, ListenerIsCurrent, SentWasState,
              WaitForIsSound, IdleIsEmpty, AppIdle
<1>2. ASSUME NEW u \in Updaters, NEW s \in Reported, NEW e \in BOOLEAN, UpdateStatus(u, s, e)
      PROVE  AllStatusInv'
  <2>1. CASE s = ""
    <3>1. /\ UNCHANGED <<state, outbox, since, latest, closed, waiter, statusCh>>
          /\ UNCHANGED outageVars
          /\ updates < MaxUpdates /\ updates' = updates + 1 /\ NoteOverlap(u)
      BY <1>2, <2>1 DEF UpdateStatus
    <3>2. updates' \in 0 .. MaxUpdates /\ outage <= updates'
      BY <3>1, BoundsAssumption DEF AllStatusInv, StatusTypeOK, OutageInv
    <3>3. overlapped' \in BOOLEAN /\ (~overlapped' => ~overlapped)
      BY <3>1 DEF NoteOverlap, AllStatusInv, StatusTypeOK
    <3>4. StatusTypeOK' /\ OutageInv'
      BY <3>1, <3>2, <3>3 DEF AllStatusInv, StatusTypeOK, outageVars, OutageInv, OutageRunning,
                              CloserIsCurrent
    <3>5. StatusInv'
      BY <3>1, <3>3 DEF AllStatusInv, StatusInv, Outstanding, ListenerIsCurrent, SentWasState,
                        WaitForIsSound, IdleIsEmpty, AppIdle
    <3> QED
      BY <3>4, <3>5 DEF AllStatusInv
  <2>2. CASE s # ""
    <3>1. s \in States /\ u \in Goroutines
      BY <2>2, StatesAssumption DEF Goroutines
    <3>2. /\ maybeUpdateStatus(u, s, e) /\ NoteOverlap(u) /\ outbox[u] = None
          /\ updates < MaxUpdates /\ updates' = updates + 1
          /\ closed' = closed /\ u # App /\ UNCHANGED <<latest, waiter, statusCh>>
      BY <1>2, <2>2, AppAssumption DEF UpdateStatus
    <3> QED
      BY <3>1, <3>2, Update
  <2> QED
    BY <2>1, <2>2
<1>3. ASSUME NEW u \in Updaters \cup {App}, Broadcast(u)
      PROVE  AllStatusInv'
  BY <1>3, BroadcastStep DEF Goroutines
<1>4. CASE waitFor \/ WaitReceive \/ WaitTimeout
  BY <1>4, WaitStep
<1>5. ASSUME NEW o \in Outages, TimerStopped(o) \/ TimerElapses(o) \/ ReportOutage(o)
      PROVE  AllStatusInv'
  BY <1>5, TimerStep
<1>6. CASE CloseDataSource
  <2>1. /\ maybeUpdateStatus(App, "Off", FALSE) /\ NoteOverlap(App)
        /\ closed = "no" /\ closed' = "source" /\ updates' = updates
        /\ UNCHANGED <<latest, waiter, statusCh>>
    BY <1>6 DEF CloseDataSource
  <2>2. outbox[App] = None
    BY <2>1 DEF AllStatusInv, StatusInv, AppIdle
  <2> QED
    BY <2>1, <2>2, Update DEF Goroutines, States
<1>7. CASE CloseBroadcasters
  <2>1. /\ closed' = "all" /\ UNCHANGED <<state, outbox, latest, overlapped, updates>>
        /\ UNCHANGED waitVars /\ UNCHANGED outageVars
    BY <1>7 DEF CloseBroadcasters
  <2>2. StatusInv'
    BY <2>1 DEF AllStatusInv, StatusInv, Outstanding, ListenerIsCurrent, SentWasState,
                WaitForIsSound, IdleIsEmpty, AppIdle, waitVars
  <2>3. StatusTypeOK' /\ OutageInv'
    BY <2>1 DEF AllStatusInv, StatusTypeOK, OutageInv, OutageRunning, CloserIsCurrent, waitVars,
                outageVars
  <2> QED
    BY <2>2, <2>3 DEF AllStatusInv
<1> QED
  BY <1>1, <1>2, <1>3, <1>4, <1>5, <1>6, <1>7 DEF StatusNext

\* The invariant holds.
LEMMA StatusInvHolds == StatusSpec => []AllStatusInv
BY InitStatus, StepStatus, PTL DEF StatusSpec

-----------------------------------------------------------------------------
(***************************************************************************)
(* Every reachable state is well typed; in particular the empty state that *)
(* UpdateStatus ignores never becomes the current one.                     *)
(***************************************************************************)
THEOREM StatusTypeCorrect == StatusSpec => []StatusTypeOK
<1>1. AllStatusInv => StatusTypeOK
  BY DEF AllStatusInv
<1> QED
  BY <1>1, StatusInvHolds, PTL

(***************************************************************************)
(* The closer that trackDataSourceState closes when an outage ends is that *)
(* of the timer of this outage, whatever timers have elapsed before.       *)
(***************************************************************************)
THEOREM CloserStaysCurrent == StatusSpec => []CloserIsCurrent
<1>1. AllStatusInv => CloserIsCurrent
  BY DEF AllStatusInv, OutageInv
<1> QED
  BY <1>1, StatusInvHolds, PTL

(***************************************************************************)
(* As long as updates do not overlap, a listener that has received every   *)
(* broadcast knows the current status, for any number of goroutines.       *)
(***************************************************************************)
THEOREM ListenersAreCurrent == StatusSpec => []ListenerIsCurrent
<1>1. AllStatusInv => ListenerIsCurrent
  BY DEF AllStatusInv, StatusInv
<1> QED
  BY <1>1, StatusInvHolds, PTL

(***************************************************************************)
(* As long as updates do not overlap, waitFor answers yes only if the      *)
(* state was the desired one when it was called or later.                  *)
(***************************************************************************)
THEOREM WaitForNeverLies == StatusSpec => []WaitForIsSound
<1>1. AllStatusInv => WaitForIsSound
  BY DEF AllStatusInv, StatusInv
<1> QED
  BY <1>1, StatusInvHolds, PTL

-----------------------------------------------------------------------------
(***************************************************************************)
(* Outages are reported.  The timer of the present outage has not been     *)
(* stopped: it runs, or its goroutine is about to report the outage,       *)
(* unless the outage has been reported.                                    *)
(***************************************************************************)
OutageIsTimed ==
    inOutage => \/ timer[outage] = "waiting" /\ outage \notin stopped
                \/ timer[outage] = "due"
                \/ outage \in reports
StoppedInv == \A o \in stopped : o <= outage /\ (inOutage => o < outage)
TimedInv == OutageIsTimed /\ StoppedInv

\* What a step does to the outage tracker
LEMMA OutageSteps ==
    ASSUME [StatusNext]_allStatusVars
    PROVE  \/ UNCHANGED outageVars
           \/ \E s \in States, e \in BOOLEAN :
                 trackOutage(s, e) /\ (updates < MaxUpdates \/ (s = "Off" /\ e = FALSE))
           \/ \E o \in Outages : TimerStopped(o) \/ TimerElapses(o) \/ ReportOutage(o)
<1>1. ASSUME NEW u, NEW s \in States, NEW e \in BOOLEAN, maybeUpdateStatus(u, s, e),
             updates < MaxUpdates \/ (s = "Off" /\ e = FALSE)
      PROVE  \/ UNCHANGED outageVars
             \/ \E t \in States, f \in BOOLEAN :
                   trackOutage(t, f) /\ (updates < MaxUpdates \/ (t = "Off" /\ f = FALSE))
  BY <1>1 DEF maybeUpdateStatus, trackDataSourceState, States
<1>2. ASSUME NEW u \in Updaters, NEW s \in Reported, NEW e \in BOOLEAN, UpdateStatus(u, s, e)
      PROVE  \/ UNCHANGED outageVars
             \/ \E t \in States, f \in BOOLEAN :
                   trackOutage(t, f) /\ (updates < MaxUpdates \/ (t = "Off" /\ f = FALSE))
  <2>1. CASE s = ""
    BY <1>2, <2>1 DEF UpdateStatus
  <2>2. CASE s # ""
    <3>1. s \in States /\ maybeUpdateStatus(u, s, e) /\ updates < MaxUpdates
      BY <1>2, <2>2, StatesAssumption DEF UpdateStatus
    <3> QED
      BY <1>1, <3>1
  <2> QED
    BY <2>1, <2>2
<1>3. CASE CloseDataSource
  <2>1. maybeUpdateStatus(App, "Off", FALSE) /\ "Off" \in States
    BY <1>3 DEF CloseDataSource, States
  <2> QED
    BY <1>1, <2>1
<1>4. CASE waitFor \/ WaitReceive \/ WaitTimeout \/ CloseBroadcasters
           \/ \E u \in Updaters \cup {App} : Broadcast(u)
  BY <1>4 DEF waitFor, WaitReceive, WaitTimeout, CloseBroadcasters, Broadcast
<1>5. CASE UNCHANGED allStatusVars
  BY <1>5 DEF allStatusVars
<1> QED
  BY <1>2, <1>3, <1>4, <1>5 DEF StatusNext

LEMMA InitTimed == StatusInit => TimedInv
BY DEF StatusInit, TimedInv, OutageIsTimed, StoppedInv

LEMMA StepTimed ==
    ASSUME AllStatusInv, TimedInv, [StatusNext]_allStatusVars
    PROVE  TimedInv'
<1>0. /\ inOutage \in BOOLEAN /\ timeoutCloser \in Outages \cup {0} /\ stopped \subseteq Outages
      /\ timer \in [Outages -> {None, "waiting", "due", "done"}]
      /\ outage \in 0 .. MaxUpdates /\ updates \in 0 .. MaxUpdates /\ MaxUpdates \in Nat
      /\ outage <= updates /\ (timeoutCloser # 0 => inOutage /\ timeoutCloser = outage)
      /\ (inOutage => outage > 0)
  BY BoundsAssumption DEF AllStatusInv, StatusTypeOK, OutageInv, OutageRunning, CloserIsCurrent
<1>1. CASE UNCHANGED outageVars
  BY <1>1 DEF outageVars, TimedInv, OutageIsTimed, StoppedInv
<1>2. ASSUME NEW s \in States, NEW e \in BOOLEAN, trackOutage(s, e),
             updates < MaxUpdates \/ (s = "Off" /\ e = FALSE)
      PROVE  TimedInv'
  <2>1. CASE s = "Interrupted" \/ e \/ (s = "Initializing" /\ inOutage)
    <3>1. CASE inOutage
      <4>1. UNCHANGED outageVars
        BY <1>2, <2>1, <3>1 DEF trackOutage
      <4> QED
        BY <1>1, <4>1
    <3>2. CASE ~inOutage
      <4>1. /\ inOutage' = TRUE /\ outage' = outage + 1 /\ stopped' = stopped
            /\ timer' = [timer EXCEPT ![outage + 1] = "waiting"]
        BY <1>2, <2>1, <3>2 DEF trackOutage
      <4>2. updates < MaxUpdates
        BY <1>2, <2>1
      <4>3. outage + 1 \in Outages
        BY <1>0, <4>2 DEF Outages
      <4>4. timer'[outage + 1] = "waiting"
        BY <1>0, <4>1, <4>3
      <4>5. \A o \in stopped : o \in Nat /\ o <= outage
        BY <1>0 DEF TimedInv, StoppedInv, Outages
      <4>6. outage + 1 \notin stopped
        BY <1>0, <4>5
      <4>7. StoppedInv'
        BY <1>0, <4>1, <4>5 DEF StoppedInv
      <4> QED
        BY <4>1, <4>4, <4>6, <4>7 DEF TimedInv, OutageIsTimed
    <3> QED
      BY <1>0, <3>1, <3>2
  <2>2. CASE ~(s = "Interrupted" \/ e \/ (s = "Initializing" /\ inOutage))
    <3>1. /\ inOutage' = FALSE /\ outage' = outage
          /\ stopped' = IF timeoutCloser = 0 THEN stopped ELSE stopped \cup {timeoutCloser}
      BY <1>2, <2>2 DEF trackOutage
    <3>2. StoppedInv'
      BY <1>0, <3>1 DEF TimedInv, StoppedInv
    <3> QED
      BY <3>1, <3>2 DEF TimedInv, OutageIsTimed
  <2> QED
    BY <2>1, <2>2
<1>3. ASSUME NEW o \in Outages, TimerStopped(o) \/ TimerElapses(o) \/ ReportOutage(o)
      PROVE  TimedInv'
  <2>1. UNCHANGED <<inOutage, outage, stopped>>
    BY <1>3 DEF TimerStopped, TimerElapses, ReportOutage
  <2>2. OutageIsTimed'
    <3> SUFFICES ASSUME inOutage PROVE OutageIsTimed'
      BY <2>1 DEF OutageIsTimed
    <3>0. outage \in Outages
      BY <1>0 DEF Outages
    <3>1. CASE TimerStopped(o)
      <4>1. o \in stopped /\ timer[o] = "waiting" /\ timer' = [timer EXCEPT ![o] = "done"]
            /\ reports' = reports
        BY <3>1 DEF TimerStopped
      <4>2. o # outage
        BY <1>0, <4>1 DEF TimedInv, StoppedInv, Outages
      <4>3. timer'[outage] = timer[outage]
        BY <1>0, <3>0, <4>1, <4>2
      <4> QED
        BY <2>1, <4>1, <4>3 DEF TimedInv, OutageIsTimed
    <3>2. CASE TimerElapses(o)
      <4>1. timer' = [timer EXCEPT ![o] = "due"] /\ reports' = reports
        BY <3>2 DEF TimerElapses
      <4>2. timer'[outage] = "due" \/ timer'[outage] = timer[outage]
        BY <1>0, <3>0, <4>1
      <4> QED
        BY <2>1, <4>1, <4>2 DEF TimedInv, OutageIsTimed
    <3>3. CASE ReportOutage(o)
      <4>1. outage \in reports'
        BY <3>3 DEF ReportOutage
      <4> QED
        BY <2>1, <4>1 DEF OutageIsTimed
    <3> QED
      BY <1>3, <3>1, <3>2, <3>3
  <2>3. StoppedInv'
    BY <2>1 DEF TimedInv, StoppedInv
  <2> QED
    BY <2>2, <2>3 DEF TimedInv
<1> QED
  BY <1>1, <1>2, <1>3, OutageSteps

(***************************************************************************)
(* No outage goes unreported because a timer was stopped that is still     *)
(* needed, or none was started: as long as an outage lasts, its timer runs *)
(* or is about to report it, or it has been reported, however outages      *)
(* begin and end while the timers of earlier ones elapse                   *)
(* (outageTracker.trackDataSourceState, awaitTimeout).                     *)
(***************************************************************************)
THEOREM OutagesAreTimed == StatusSpec => []OutageIsTimed
<1>1. TimedInv => OutageIsTimed
  BY DEF TimedInv
<1> QED
  BY <1>1, InitTimed, StepTimed, StatusInvHolds, InitStatus, StepStatus, PTL DEF StatusSpec

-----------------------------------------------------------------------------
(***************************************************************************)
(* waitFor misses nothing.  If a state that ends it has come since it was  *)
(* called, such a state is in its channel, or is outstanding; after the    *)
(* data source has been closed, that holds of Off.                         *)
(***************************************************************************)
EndInChannel == \E i \in 1 .. Len(statusCh) : statusCh[i] \in Ends
EndOutstanding == \E u \in Goroutines : outbox[u] \in Ends
WaitInv ==
    waiter = "waiting" =>
        /\ state \in Ends => state \in since
        /\ closed # "all" /\ since # {} => EndInChannel \/ EndOutstanding
        /\ closed = "source" /\ ~overlapped => EndInChannel \/ outbox[App] = "Off"
        /\ closed = "all" /\ ~overlapped => EndInChannel

LEMMA InitWait == StatusInit => WaitInv
BY DEF StatusInit, WaitInv

LEMMA EndsAreStates == Ends \subseteq States /\ None \notin Ends /\ "Off" \in Ends
BY StatesAssumption DEF Ends, States, None

\* An update while waitFor waits
LEMMA UpdateWait ==
    ASSUME AllStatusInv, WaitInv, NEW u \in Goroutines, NEW newState \in States, NEW e \in BOOLEAN,
           maybeUpdateStatus(u, newState, e), NoteOverlap(u), outbox[u] = None,
           UNCHANGED <<waiter, statusCh>>,
           \/ u # App /\ closed' = closed
           \/ u = App /\ newState = "Off" /\ closed = "no" /\ closed' = "source"
    PROVE  WaitInv'
<1> SUFFICES ASSUME waiter = "waiting" PROVE WaitInv'
  BY DEF WaitInv
<1> DEFINE effective == IF newState = "Interrupted" /\ state = "Initializing"
                        THEN "Initializing" ELSE newState
<1>0. newState = "Off" => effective = "Off"
  OBVIOUS
<1>1. /\ ~overlapped' => ~overlapped /\ \A w \in Goroutines \ {u} : outbox[w] = None
      /\ EndInChannel' = EndInChannel
  BY DEF NoteOverlap, EndInChannel, Goroutines
<1>2. CASE UNCHANGED <<state, outbox, since>> /\ state = effective
  <2>1. EndOutstanding' = EndOutstanding
    BY <1>2 DEF EndOutstanding
  <2>2. CASE closed' = closed
    BY <1>1, <1>2, <2>1, <2>2 DEF WaitInv
  <2>3. CASE u = App /\ newState = "Off" /\ closed = "no" /\ closed' = "source"
    <3>1. state \in Ends /\ state \in since
      BY <1>0, <1>2, <2>3, EndsAreStates DEF WaitInv
    <3>2. EndInChannel \/ EndOutstanding
      BY <2>3, <3>1 DEF WaitInv
    <3>3. ~overlapped' => ~EndOutstanding
      BY <1>1, EndsAreStates DEF EndOutstanding
    <3> QED
      BY <1>1, <1>2, <2>1, <2>3, <3>1, <3>2, <3>3 DEF WaitInv
  <2> QED
    BY <2>2, <2>3
<1>3. CASE /\ state' = effective
           /\ outbox' = [outbox EXCEPT ![u] = effective]
           /\ since' = since \cup ({effective} \cap Ends)
  <2>1. \A w \in Goroutines : outbox'[w] = IF w = u THEN effective ELSE outbox[w]
    BY <1>3 DEF AllStatusInv, StatusTypeOK, Goroutines
  <2>2. effective \in Ends => EndOutstanding'
    BY <2>1 DEF EndOutstanding
  <2>3. EndOutstanding => EndOutstanding'
    BY <2>1, EndsAreStates DEF EndOutstanding
  <2>4. since' # {} => since # {} \/ effective \in Ends
    BY <1>3
  <2>5. CASE u # App /\ closed' = closed
    <3>1. outbox'[App] = outbox[App]
      BY <2>1, <2>5 DEF Goroutines
    <3> QED
      BY <1>1, <1>3, <2>2, <2>3, <2>4, <2>5, <3>1 DEF WaitInv
  <2>6. CASE u = App /\ newState = "Off" /\ closed = "no" /\ closed' = "source"
    <3>1. outbox'[App] = "Off"
      BY <1>0, <2>1, <2>6
    <3> QED
      BY <1>1, <1>3, <2>2, <2>3, <2>4, <2>6, <3>1 DEF WaitInv
  <2> QED
    BY <2>5, <2>6
<1> QED
  BY <1>2, <1>3 DEF maybeUpdateStatus

LEMMA BroadcastWait ==
    ASSUME AllStatusInv, WaitInv, NEW u \in Goroutines, Broadcast(u)
    PROVE  WaitInv'
<1> SUFFICES ASSUME waiter = "waiting" PROVE WaitInv'
  BY DEF Broadcast, WaitInv
<1>1. /\ outbox' = [outbox EXCEPT ![u] = None] /\ UNCHANGED <<state, closed, waiter, since, overlapped>>
      /\ closed # "all" => statusCh' = Append(statusCh, outbox[u])
      /\ closed = "all" => statusCh' = statusCh
      /\ outbox[u] \in States /\ statusCh \in Seq(States)
  BY DEF Broadcast, AllStatusInv, StatusTypeOK, Goroutines
<1>2. \A w \in Goroutines : outbox'[w] = IF w = u THEN None ELSE outbox[w]
  BY <1>1 DEF AllStatusInv, StatusTypeOK, Goroutines
<1>3. CASE closed = "all"
  BY <1>1, <1>3 DEF WaitInv, EndInChannel
<1>4. CASE closed # "all"
  <2>1. /\ Len(statusCh) \in Nat /\ Len(statusCh') = Len(statusCh) + 1
        /\ \A i \in 1 .. Len(statusCh) : statusCh'[i] = statusCh[i]
        /\ statusCh'[Len(statusCh) + 1] = outbox[u]
    BY <1>1, <1>4, AppendProperties
  <2>2. EndInChannel => EndInChannel'
    BY <2>1 DEF EndInChannel
  <2>3. outbox[u] \in Ends => EndInChannel'
    BY <2>1 DEF EndInChannel
  <2>4. EndOutstanding => EndOutstanding' \/ outbox[u] \in Ends
    BY <1>2 DEF EndOutstanding
  <2>5. outbox[App] = "Off" => outbox'[App] = "Off" \/ outbox[u] \in Ends
    BY <1>2, EndsAreStates DEF Goroutines
  <2> QED
    BY <1>1, <1>4, <2>2, <2>3, <2>4, <2>5 DEF WaitInv
<1> QED
  BY <1>3, <1>4

LEMMA StepWait ==
    ASSUME AllStatusInv, WaitInv, [StatusNext]_allStatusVars
    PROVE  WaitInv'
<1>1. CASE UNCHANGED <<statusVars, waitVars, overlapped>>
  BY <1>1 DEF statusVars, waitVars, WaitInv, EndInChannel, EndOutstanding
<1>2. ASSUME NEW u \in Updaters, NEW s \in Reported, NEW e \in BOOLEAN, UpdateStatus(u, s, e)
      PROVE  WaitInv'
  <2>1. CASE s = ""
    <3>1. /\ UNCHANGED <<state, outbox, since, closed, waiter, statusCh>>
          /\ ~overlapped' => ~overlapped
      BY <1>2, <2>1 DEF UpdateStatus, NoteOverlap
    <3> QED
      BY <3>1 DEF WaitInv, EndInChannel, EndOutstanding
  <2>2. CASE s # ""
    <3>1. s \in States /\ u \in Goroutines /\ u # App
      BY <2>2, StatesAssumption, AppAssumption DEF Goroutines
    <3>2. /\ maybeUpdateStatus(u, s, e) /\ NoteOverlap(u) /\ outbox[u] = None
          /\ UNCHANGED <<closed, waiter, statusCh>>
      BY <1>2, <2>2 DEF UpdateStatus
    <3> QED
      BY <3>1, <3>2, UpdateWait
  <2> QED
    BY <2>1, <2>2
<1>3. ASSUME NEW u \in Goroutines, Broadcast(u) PROVE WaitInv'
  BY <1>3, BroadcastWait
<1>4. CASE waitFor
  <2>1. /\ since' = {state} \cap Ends /\ closed = "no" /\ state' = state /\ closed' = closed
        /\ waiter' = "waiting" => state # Desired /\ state # "Off"
    BY <1>4 DEF waitFor, statusVars
  <2>2. waiter' = "waiting" => state' \notin Ends /\ since' = {}
    BY <2>1 DEF Ends
  <2> QED
    BY <2>1, <2>2 DEF WaitInv
<1>5. CASE WaitReceive
  <2> SUFFICES ASSUME waiter' = "waiting" PROVE WaitInv'
    BY DEF WaitInv
  <2>1. /\ waiter = "waiting" /\ statusCh # <<>> /\ Head(statusCh) \notin Ends
        /\ statusCh' = Tail(statusCh) /\ statusCh \in Seq(States)
        /\ UNCHANGED <<state, outbox, closed, since, overlapped>>
    BY <1>5 DEF WaitReceive, AllStatusInv, StatusTypeOK, statusVars
  <2>2. /\ Head(statusCh) = statusCh[1] /\ Len(statusCh) \in Nat
        /\ Len(statusCh') = Len(statusCh) - 1
        /\ \A i \in 1 .. Len(statusCh) - 1 : statusCh'[i] = statusCh[i + 1]
    BY <2>1, HeadTailProperties
  <2>3. ASSUME EndInChannel PROVE EndInChannel'
    <3>1. PICK i \in 1 .. Len(statusCh) : statusCh[i] \in Ends
      BY <2>3 DEF EndInChannel
    <3>2. i # 1
      BY <2>1, <2>2, <3>1
    <3>3. i - 1 \in 1 .. Len(statusCh') /\ statusCh'[i - 1] = statusCh[i]
      BY <2>2, <3>2
    <3> QED
      BY <3>1, <3>3 DEF EndInChannel
  <2>4. EndOutstanding' = EndOutstanding
    BY <2>1 DEF EndOutstanding
  <2> QED
    BY <2>1, <2>3, <2>4 DEF WaitInv
<1>6. CASE WaitTimeout
  BY <1>6 DEF WaitTimeout, WaitInv
<1>7. ASSUME NEW o \in Outages, TimerStopped(o) \/ TimerElapses(o) \/ ReportOutage(o)
      PROVE  WaitInv'
  <2>1. UNCHANGED <<statusVars, waitVars, overlapped>>
    BY <1>7 DEF TimerStopped, TimerElapses, ReportOutage
  <2> QED
    BY <1>1, <2>1
<1>8. CASE CloseDataSource
  <2>1. /\ maybeUpdateStatus(App, "Off", FALSE) /\ NoteOverlap(App)
        /\ closed = "no" /\ closed' = "source" /\ UNCHANGED <<waiter, statusCh>>
    BY <1>8 DEF CloseDataSource
  <2>2. outbox[App] = None /\ App \in Goroutines /\ "Off" \in States
    BY <2>1 DEF AllStatusInv, StatusInv, AppIdle, Goroutines, States
  <2> QED
    BY <2>1, <2>2, UpdateWait
<1>9. CASE CloseBroadcasters
  <2>1. /\ closed = "source" /\ outbox[App] = None /\ closed' = "all"
        /\ UNCHANGED <<state, outbox, overlapped, waiter, statusCh, since>>
    BY <1>9 DEF CloseBroadcasters, waitVars
  <2>2. EndInChannel' = EndInChannel /\ outbox[App] # "Off"
    BY <2>1 DEF EndInChannel, None
  <2> QED
    BY <2>1, <2>2 DEF WaitInv
<1>10. CASE UNCHANGED allStatusVars
  BY <1>1, <1>10 DEF allStatusVars
<1> QED
  BY <1>2, <1>3, <1>4, <1>5, <1>6, <1>7, <1>8, <1>9, <1>10 DEF StatusNext, Goroutines

(***************************************************************************)
(* As long as waitFor waits, and the desired state or Off has come since   *)
(* it was called, or the client has been closed, a status that ends the    *)
(* wait is in its channel or about to be sent to it; unless the            *)
(* broadcasters were closed between an update and its broadcast.  The      *)
(* order of FDv1.Stop, the data source before the broadcasters, is what    *)
(* makes it hold of closing.                                               *)
(***************************************************************************)
WaitForIsTold ==
    waiter = "waiting" /\ (since # {} \/ closed = "all") /\ ~(overlapped /\ closed = "all") =>
        EndInChannel \/ (closed # "all" /\ EndOutstanding)
THEOREM WaitForMissesNothing == StatusSpec => []WaitForIsTold
<1>1. AllStatusInv /\ WaitInv => WaitForIsTold
  BY DEF WaitInv, WaitForIsTold
<1> QED
  BY <1>1, InitWait, StepWait, InitStatus, StepStatus, PTL DEF StatusSpec
=============================================================================
