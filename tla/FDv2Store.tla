------------------------------ MODULE FDv2Store ------------------------------
(***************************************************************************)
(* The FDv2 data store (internal/datasystem/store.go): a memory store that *)
(* changesets replace or extend atomically, and an optional persistent     *)
(* store that is read until the memory store has data and that receives    *)
(* what the memory store has, item by item, unless it is read-only.        *)
(*                                                                         *)
(* An item descriptor is a version and what the Item field holds: a flag   *)
(* or segment ("object"), nothing (a tombstone), or another descriptor,    *)
(* which is what the polling source puts there.  Readers accept objects    *)
(* only (variation, ldclient.go), and Serialize has no bytes for anything  *)
(* but objects and tombstones: what is stored of the rest is "empty".      *)
(***************************************************************************)
EXTENDS TopoSort

CONSTANTS
    Refs,           \* what the object of each item refers to
    Modes           \* "none" (no persistent store), "read" or "readwrite"

ASSUME RefsAssumption == Refs \in [Items -> SUBSET Items]
ASSUME ModesAssumption == Modes \subseteq {"none", "read", "readwrite"}

Absent == [ver |-> 0, item |-> "none"]
Empty == [i \in Items |-> Absent]
Full == [i \in Items |-> [ver |-> 1, item |-> "object"]]
NoBatch == [i \in {} |-> Absent]

VARIABLES
    mode,           \* the persistent store's mode, one of Modes
    memory,         \* memoryStore.data
    initialized,    \* memoryStore.initialized
    selector,       \* the payload version of the data, 0 for NoSelector
    persist,
    active,         \* which store is read: "memory" or "persistent"
    db,             \* the contents of the persistent store
    batch,          \* the collections that are being written to it
    writing,        \* by: "no", "sort", "Init", "Upsert" or "Commit"
    clean           \* history: no write has failed since the last complete Init

storeVars == <<mode, memory, initialized, selector, persist, active, db, batch, writing,
               clean, sortVars>>

\* Mutant: a deletion does not replace anything.
UpsertedObjectsOnly(data, i, d) ==
    IF data[i].ver < d.ver /\ d.item # "none" THEN [data EXCEPT ![i] = d] ELSE data

Upserted(data, i, d) == IF data[i].ver < d.ver THEN [data EXCEPT ![i] = d] ELSE data

\* The data kinds' Serialize, by which the persistent store gets what it keeps
Serialized(d) == [ver |-> d.ver, item |-> IF d.item = "descriptor" THEN "empty" ELSE d.item]

\* fdv2proto: a put-object or delete-object event, and what is stored of it
Event(name, version, object) == [name |-> name, version |-> version, object |-> object]
ToStorableItems(events) ==
    [i \in DOMAIN events |->
        [ver |-> events[i].version,
         item |-> IF events[i].name = "put-object" THEN events[i].object ELSE "none"]]

\* memorystorev2
memorySetBasis(coll) == [i \in Items |-> IF i \in DOMAIN coll THEN coll[i] ELSE Absent]
memoryApplyDelta(coll) ==
    [i \in Items |-> IF i \in DOMAIN coll THEN Upserted(memory, i, coll[i])[i] ELSE memory[i]]
GetAllKinds == [i \in {j \in Items : memory[j] # Absent} |-> memory[i]]

\* GetNeighbors: only an object of the right type refers to anything.
GetNeighbors(i, d) == IF d.item = "object" THEN Refs[i] ELSE {}

\* NewStore, WithPersistence; an earlier process may have left data in the
\* persistent store.
StoreInit ==
    /\ mode \in Modes
    /\ memory = Empty /\ initialized = FALSE /\ selector = 0 /\ persist = FALSE
    /\ active = IF mode = "none" THEN "memory" ELSE "persistent"
    /\ db \in {Empty, Full} /\ batch = NoBatch /\ writing = "no" /\ clean = TRUE
    /\ SortInit

\* Writing to the persistent store, while the lock is held
shouldPersist == persist' /\ mode = "readwrite"
Persist(coll, call) ==
    IF shouldPersist
    THEN /\ Sort([i \in DOMAIN coll |-> GetNeighbors(i, coll[i])])
         /\ batch' = coll /\ writing' = call
    ELSE UNCHANGED <<batch, writing, sortVars>>

SetBasis(events, sel) ==
    /\ writing = "no"
    /\ memory' = memorySetBasis(ToStorableItems(events))
    /\ initialized' = TRUE
    /\ selector' = sel /\ persist' = TRUE
    /\ active' = "memory"
    /\ Persist(ToStorableItems(events), "Init")
    /\ UNCHANGED <<mode, db, clean>>

\* Mutant: the items of a delta replace what is there.
ApplyDeltaBlind(events, sel) ==
    /\ writing = "no"
    /\ memory' = memorySetBasis(ToStorableItems(events))
    /\ selector' = sel /\ persist' = TRUE
    /\ Persist(ToStorableItems(events), "Upsert")
    /\ UNCHANGED <<mode, initialized, active, db, clean>>

\* Mutant: the selector of a delta is not recorded.
ApplyDeltaKeepsSelector(events, sel) ==
    /\ writing = "no"
    /\ memory' = memoryApplyDelta(ToStorableItems(events))
    /\ selector' = selector /\ persist' = TRUE
    /\ Persist(ToStorableItems(events), "Upsert")
    /\ UNCHANGED <<mode, initialized, active, db, clean>>

\* Mutant: a delta is not written to the persistent store.
ApplyDeltaMemoryOnly(events, sel) ==
    /\ writing = "no"
    /\ memory' = memoryApplyDelta(ToStorableItems(events))
    /\ selector' = sel /\ persist' = TRUE
    /\ UNCHANGED <<mode, initialized, active, db, clean, batch, writing, sortVars>>

ApplyDelta(events, sel) ==
    /\ writing = "no"
    /\ memory' = memoryApplyDelta(ToStorableItems(events))
    /\ selector' = sel /\ persist' = TRUE
    /\ Persist(ToStorableItems(events), "Upsert")
    /\ UNCHANGED <<mode, initialized, active, db, clean>>

\* Commit writes what GetAllKinds returns, in the order of Go's maps, if the last
\* changeset was to be persisted.  It holds the lock for reading, so that the data
\* does not change.
Commit ==
    /\ writing = "no" /\ persist /\ mode = "readwrite"
    /\ batch' = GetAllKinds
    /\ writing' = "Commit"
    /\ out' \in Orders(DOMAIN batch')
    /\ neighbors' = [i \in DOMAIN batch' |-> {}] /\ UNCHANGED <<remaining, stack>>
    /\ UNCHANGED <<mode, memory, initialized, selector, persist, active, db, clean>>

\* A non-atomic Init adds or updates each item in the order given ...
InitItem ==
    /\ writing \in {"Init", "Commit"} /\ Sorted /\ out # <<>>
    /\ db' = [db EXCEPT ![Head(out)] = Serialized(batch[Head(out)])]
    /\ out' = Tail(out)
    /\ UNCHANGED <<mode, memory, initialized, selector, persist, active, batch, writing, clean,
                   neighbors, remaining, stack>>

\* ... and then deletes what was not in the input.
InitRest ==
    /\ writing \in {"Init", "Commit"} /\ Sorted /\ out = <<>>
    /\ db' = [i \in Items |-> IF i \in DOMAIN batch THEN Serialized(batch[i]) ELSE Absent]
    /\ writing' = "no" /\ clean' = TRUE
    /\ batch' = NoBatch /\ SortForget
    /\ UNCHANGED <<mode, memory, initialized, selector, persist, active>>

\* Init stops at an error, which is ignored (Commit reports it).
InitFails ==
    /\ writing \in {"Init", "Commit"} /\ Sorted
    /\ writing' = "no" /\ clean' = FALSE
    /\ batch' = NoBatch /\ SortForget
    /\ UNCHANGED <<mode, memory, initialized, selector, persist, active, db>>

\* The loop of ApplyDelta, which goes on after an error
UpsertItem ==
    /\ writing = "Upsert" /\ Sorted /\ out # <<>>
    /\ db' = Upserted(db, Head(out), Serialized(batch[Head(out)]))
    /\ out' = Tail(out)
    /\ UNCHANGED <<mode, memory, initialized, selector, persist, active, batch, writing, clean,
                   neighbors, remaining, stack>>

UpsertFails ==
    /\ writing = "Upsert" /\ Sorted /\ out # <<>>
    /\ clean' = FALSE
    /\ out' = Tail(out)
    /\ UNCHANGED <<mode, memory, initialized, selector, persist, active, db, batch, writing,
                   neighbors, remaining, stack>>

UpsertDone ==
    /\ writing = "Upsert" /\ Sorted /\ out = <<>>
    /\ writing' = "no"
    /\ batch' = NoBatch /\ SortForget
    /\ UNCHANGED <<mode, memory, initialized, selector, persist, active, db, clean>>

Sorts ==
    /\ writing # "no" /\ Sorting
    /\ UNCHANGED <<mode, memory, initialized, selector, persist, active, db, batch, writing,
                   clean>>

\* The versions that a store has of everything but tombstones
Held(data) == [i \in Items |-> IF data[i].item = "none" THEN 0 ELSE data[i].ver]

\* Get, GetAll, and variation's check of the type: the versions of the objects that
\* readers can use, in data or in the store that they read (getActive)
Readable(data) == [i \in Items |-> IF data[i].item = "object" THEN data[i].ver ELSE 0]
View == IF active = "memory" THEN Readable(memory) ELSE Readable(db)
=============================================================================
