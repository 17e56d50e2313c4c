------------------ MODULE PersistentDataStoreWrapper_proof ------------------
(* Machine-checked proofs about PersistentDataStoreWrapper. *)
EXTENDS PersistentDataStoreWrapper, TLAPS

(***************************************************************************)
(* The constant values that the actions assign have their types.           *)
(***************************************************************************)
LEMMA ConstantTypes ==
    /\ AnyKind \in Kinds
    /\ AnyKey \in Keys
    /\ NotFound \in Items
    /\ Versions \subseteq Items
    /\ Absent \notin Items
    /\ Empty \in Snapshots
    /\ NoAll \in [Keys -> Items \cup {Absent}]
    /\ NoAll \notin Snapshots
    /\ NoData \in DataSets
    /\ IdleWr \in WriteCalls
    /\ IdleCall \in ReadCalls
    /\ PollerOff \in Pollers
    /\ PollerOn \in Pollers
<1>1. AnyKind \in Kinds /\ AnyKey \in Keys
  BY KindsAssumption, KeysAssumption DEF AnyKind, AnyKey
<1>2. NotFound \in Items /\ Versions \subseteq Items /\ Absent \notin Items
  BY VersionAssumption DEF NotFound, Items, Versions, Absent
<1>3. Empty \in Snapshots /\ NoAll \in [Keys -> Items \cup {Absent}]
  BY <1>2 DEF Empty, Snapshots, NoAll
<1>4. NoAll \notin Snapshots
  BY <1>1, <1>2 DEF NoAll, Snapshots
<1>5. NoData \in DataSets
  BY <1>3 DEF NoData, DataSets
<1>6. IdleWr \in WriteCalls
  BY <1>1, <1>2, <1>3, <1>5 DEF IdleWr, WriteCalls, WrPCs
<1>7. IdleCall \in ReadCalls
  BY <1>1, <1>3 DEF IdleCall, ReadCalls, CallPCs
<1>8. PollerOff \in Pollers /\ PollerOn \in Pollers
  BY <1>5 DEF PollerOff, PollerOn, Pollers, PollPCs
<1> QED
  BY <1>1, <1>2, <1>3, <1>4, <1>5, <1>6, <1>7, <1>8

-----------------------------------------------------------------------------
\* The part of TypeOK about reads
CallsTyped ==
    /\ call \in [Callers -> ReadCalls]
    /\ \A c \in Callers : FillComplete(call[c])

(***************************************************************************)
(* What the steps shared by several actions preserve.                      *)
(***************************************************************************)
LEMMA CoreInitType ==
    ASSUME TypeOK, NEW data \in DataSets, NEW bad \in SUBSET (Kinds \X Keys),
           CoreInit(data, bad)
    PROVE  /\ core' \in DataSets
           /\ coreInited' \in BOOLEAN
           /\ held' \in [Kinds -> SUBSET Snapshots]
           /\ garbled' \in SUBSET (Kinds \X Keys)
BY DEF TypeOK, CoreInit, DataSets

LEMMA CoreUpsertType ==
    ASSUME TypeOK, NEW k \in Kinds, NEW i \in Keys, NEW v \in Versions,
           NEW bad \in SUBSET (Kinds \X Keys), CoreUpsert(k, i, v, bad)
    PROVE  /\ core' \in DataSets
           /\ coreInited' \in BOOLEAN
           /\ held' \in [Kinds -> SUBSET Snapshots]
           /\ garbled' \in SUBSET (Kinds \X Keys)
<1>1. core' \in DataSets
  BY ConstantTypes DEF TypeOK, CoreUpsert, DataSets, Snapshots
<1> QED
  BY <1>1 DEF TypeOK, CoreUpsert, DataSets

LEMMA CallType ==
    ASSUME TypeOK, NEW c \in Callers, NEW r \in ReadCalls, FillComplete(r),
           call' = [call EXCEPT ![c] = r]
    PROVE  CallsTyped'
BY DEF TypeOK, CallsTyped

LEMMA StartReadType ==
    ASSUME TypeOK, NEW c \in Callers, NEW isAll \in BOOLEAN, NEW k \in Kinds,
           NEW i \in Keys, StartRead(c, isAll, k, i)
    PROVE  CallsTyped'
<1> DEFINE r == [Request(isAll, k, i) EXCEPT !.pc = IF hasCache THEN "missed" ELSE "query"]
<1>1. r \in ReadCalls
  BY ConstantTypes DEF Request, ReadCalls, CallPCs
<1>2. r.pc \in {"missed", "query"}
  BY DEF Request, IdleCall
<1>3. FillComplete(r)
  BY <1>2 DEF FillComplete
<1>4. call' = call \/ call' = [call EXCEPT ![c] = r]
  BY DEF StartRead
<1> QED
  BY <1>1, <1>3, <1>4, CallType DEF TypeOK, CallsTyped

LEMMA ReturnType ==
    ASSUME TypeOK, NEW c \in Callers, call' = Return(c)
    PROVE  CallsTyped'
<1>1. FillComplete(IdleCall)
  BY DEF FillComplete, IdleCall
<1> QED
  BY <1>1, ConstantTypes DEF TypeOK, CallsTyped, Return

LEMMA UpdateAvailabilityType ==
    ASSUME TypeOK, UpdateAvailability(FALSE)
    PROVE  lastAvailable' \in BOOLEAN /\ poll' \in Pollers
BY ConstantTypes DEF TypeOK, UpdateAvailability

(***************************************************************************)
(* Every step preserves the types.                                         *)
(***************************************************************************)
LEMMA TypeStep == TypeOK /\ [Next]_vars => TypeOK'
<1> SUFFICES ASSUME TypeOK, [Next]_vars PROVE TypeOK'
  OBVIOUS
<1> USE DEF dbVars, contents, cacheVars, pollVars
<1>1. CASE UNCHANGED vars
  BY <1>1 DEF TypeOK, vars
<1>2. CASE Environment
  <2>1. CASE StoreGoesDown \/ StoreComesBack
    BY <2>1 DEF TypeOK, StoreGoesDown, StoreComesBack
  <2>2. ASSUME NEW k \in Kinds, NEW i \in Keys, NEW v \in Versions, ExternalUpsert(k, i, v)
        PROVE  TypeOK'
    <3>1. PICK bad \in SUBSET {<<k, i>>} : CoreUpsert(k, i, v, bad)
      BY <2>2 DEF ExternalUpsert
    <3>2. bad \in SUBSET (Kinds \X Keys)
      OBVIOUS
    <3> QED
      BY <2>2, <3>1, <3>2, CoreUpsertType DEF TypeOK, ExternalUpsert
  <2>3. ASSUME NEW data \in DataSets, ExternalInit(data)
        PROVE  TypeOK'
    <3>1. PICK bad \in SUBSET (Kinds \X Keys) : CoreInit(data, bad)
      BY <2>3 DEF ExternalInit, Stored
    <3> QED
      BY <2>3, <3>1, CoreInitType DEF TypeOK, ExternalInit
  <2> QED
    BY <1>2, <2>1, <2>2, <2>3 DEF Environment
<1>3. CASE Poller
  <2>1. CASE PollTick
    BY <2>1 DEF TypeOK, PollTick, Pollers, PollPCs
  <2>2. ASSUME NEW k \in Kinds, PollReadCache(k)
        PROVE  TypeOK'
    <3>1. (IF cacheAll[k] = NoAll THEN Empty ELSE cacheAll[k]) \in Snapshots
      BY ConstantTypes DEF TypeOK
    <3> QED
      BY <2>2, <3>1 DEF TypeOK, PollReadCache, Pollers, PollPCs, DataSets
  <2>3. CASE PollWriteCore
    <3>1. poll.snap \in DataSets
      BY DEF TypeOK, Pollers
    <3>2. /\ core' \in DataSets
          /\ coreInited' \in BOOLEAN
          /\ held' \in [Kinds -> SUBSET Snapshots]
          /\ garbled' \in SUBSET (Kinds \X Keys)
      BY <2>3, <3>1, CoreInitType DEF TypeOK, PollWriteCore
    <3> QED
      BY <2>3, <3>2 DEF TypeOK, PollWriteCore, Pollers, PollPCs
  <2>4. CASE PollReport
    BY <2>4, ConstantTypes DEF TypeOK, PollReport, Pollers, PollPCs
  <2>5. CASE PollSignal
    BY <2>5, ConstantTypes DEF TypeOK, PollSignal
  <2>6. CASE PollStop
    BY <2>6, ConstantTypes DEF TypeOK, PollStop
  <2> QED
    BY <1>3, <2>1, <2>2, <2>3, <2>4, <2>5, <2>6 DEF Poller
<1>4. CASE WriterStep
  <2>1. CASE WrReport
    <3>1. wr' \in WriteCalls
      BY <2>1, ConstantTypes DEF TypeOK, WrReport, AfterUpsert, WriteCalls, WrPCs
    <3> QED
      BY <2>1, <3>1, UpdateAvailabilityType DEF TypeOK, WrReport
  <2>2. CASE InitFlush
    <3>1. wr' \in WriteCalls
      BY <2>2, ConstantTypes DEF TypeOK, InitFlush, WriteCalls, WrPCs
    <3> QED
      BY <2>2, <3>1, ConstantTypes DEF TypeOK, InitFlush
  <2>3. ASSUME NEW k \in Kinds, InitFillAll(k)
        PROVE  TypeOK'
    <3>1. wr' \in WriteCalls
      BY <2>3 DEF TypeOK, InitFillAll, WriteCalls, WrPCs
    <3>2. cacheAll' \in [Kinds -> Snapshots \cup {NoAll}]
      BY <2>3 DEF TypeOK, InitFillAll, WriteCalls, DataSets
    <3> QED
      BY <2>3, <3>1, <3>2 DEF TypeOK, InitFillAll
  <2>4. ASSUME NEW i \in Keys, InitFillItem(i)
        PROVE  TypeOK'
    <3>1. wr' \in WriteCalls
      BY <2>4 DEF TypeOK, InitFillItem, WriteCalls, WrPCs
    <3>2. wr.kind \in Kinds /\ wr.data[wr.kind][i] \in Items
      BY DEF TypeOK, WriteCalls, DataSets, Snapshots
    <3> QED
      BY <2>4, <3>1, <3>2 DEF TypeOK, InitFillItem
  <2>5. CASE InitNextKind
    BY <2>5 DEF TypeOK, InitNextKind, WriteCalls, WrPCs
  <2>6. CASE InitSetInited
    BY <2>6, ConstantTypes DEF TypeOK, InitSetInited
  <2>7. CASE UpsertSetItem
    <3>1. wr' \in WriteCalls
      BY <2>7 DEF TypeOK, UpsertSetItem, WriteCalls, WrPCs
    <3>2. wr.kind \in Kinds /\ wr.ver \in Items
      BY DEF TypeOK, WriteCalls
    <3> QED
      BY <2>7, <3>1, <3>2 DEF TypeOK, UpsertSetItem
  <2>8. CASE UpsertReadAll
    <3> DEFINE items == IF cacheAll[wr.kind] = NoAll THEN Empty ELSE cacheAll[wr.kind]
    <3>1. wr.kind \in Kinds /\ wr.key \in Keys /\ wr.ver \in Items
      BY DEF TypeOK, WriteCalls
    <3>2. items \in Snapshots
      BY <3>1, ConstantTypes DEF TypeOK
    <3>3. updateSingleItem(items, wr.key, wr.ver) \in Snapshots
      BY <3>1, <3>2 DEF updateSingleItem, Snapshots
    <3>4. wr' \in WriteCalls
      BY <2>8, <3>3, ConstantTypes DEF TypeOK, UpsertReadAll, WriteCalls, WrPCs
    <3> QED
      BY <2>8, <3>4 DEF TypeOK, UpsertReadAll
  <2>9. CASE UpsertWriteAll
    BY <2>9, ConstantTypes DEF TypeOK, UpsertWriteAll, WriteCalls
  <2>10. CASE UpsertDelItem
    BY <2>10 DEF TypeOK, UpsertDelItem, WriteCalls, WrPCs
  <2>11. CASE UpsertDelAll
    BY <2>11, ConstantTypes DEF TypeOK, UpsertDelAll, WriteCalls, WrPCs
  <2>12. CASE UpsertReget
    <3>1. CallsTyped'
      BY <2>12, StartReadType DEF TypeOK, UpsertReget, WriteCalls, Callers
    <3> QED
      BY <2>12, <3>1, ConstantTypes DEF TypeOK, CallsTyped, UpsertReget
  <2> QED
    BY <1>4, <2>1, <2>2, <2>3, <2>4, <2>5, <2>6, <2>7, <2>8, <2>9, <2>10, <2>11,
       <2>12 DEF WriterStep
<1>5. CASE Feed
  <2>1. ASSUME NEW data \in DataSets, InitBegin(data)
        PROVE  TypeOK'
    <3>1. wr' \in WriteCalls
      BY <2>1, ConstantTypes DEF TypeOK, InitBegin, WriteCalls, WrPCs
    <3>2. /\ core' \in DataSets
          /\ coreInited' \in BOOLEAN
          /\ held' \in [Kinds -> SUBSET Snapshots]
          /\ garbled' \in SUBSET (Kinds \X Keys)
      BY <2>1, CoreInitType DEF TypeOK, InitBegin
    <3> QED
      BY <2>1, <3>1, <3>2 DEF TypeOK, InitBegin
  <2>2. ASSUME NEW k \in Kinds, NEW i \in Keys, NEW v \in Versions, UpsertBegin(k, i, v)
        PROVE  TypeOK'
    <3>1. wr' \in WriteCalls
      BY <2>2, ConstantTypes DEF TypeOK, UpsertBegin, AfterUpsert, WriteCalls, WrPCs
    <3>2. /\ core' \in DataSets
          /\ coreInited' \in BOOLEAN
          /\ held' \in [Kinds -> SUBSET Snapshots]
          /\ garbled' \in SUBSET (Kinds \X Keys)
      BY <2>2, CoreUpsertType DEF TypeOK, UpsertBegin
    <3>3. view' \in DataSets
      BY <2>2, ConstantTypes DEF TypeOK, UpsertBegin, DataSets, Snapshots
    <3> QED
      BY <2>2, <3>1, <3>2, <3>3 DEF TypeOK, UpsertBegin
  <2> QED
    BY <1>5, <2>1, <2>2 DEF Feed
<1>6. ASSUME NEW c \in Callers, Query(c)
      PROVE  TypeOK'
  <2>1. ASSUME NEW k \in Kinds, NEW i \in Keys, Get(c, k, i)
        PROVE  TypeOK'
    BY <2>1, StartReadType DEF TypeOK, CallsTyped, Get
  <2>2. ASSUME NEW k \in Kinds, GetAll(c, k)
        PROVE  TypeOK'
    BY <2>2, StartReadType, ConstantTypes DEF TypeOK, CallsTyped, GetAll
  <2>3. CASE IsInitialized(c)
    <3> DEFINE r == [call[c] EXCEPT !.pc = "initQuery"]
    <3>1. r \in ReadCalls /\ FillComplete(r)
      BY DEF TypeOK, ReadCalls, CallPCs, FillComplete
    <3>2. call' = [call EXCEPT ![c] = r]
      BY <2>3 DEF IsInitialized
    <3> QED
      BY <2>3, <3>1, <3>2, CallType DEF TypeOK, CallsTyped, IsInitialized
  <2> QED
    BY <1>6, <2>1, <2>2, <2>3 DEF Query
<1>7. ASSUME NEW c \in Callers, ReadStep(c)
      PROVE  TypeOK'
  <2>0. call[c] \in ReadCalls
    BY DEF TypeOK
  <2>1. CASE Do(c)
    <3> DEFINE r(pc) == [call[c] EXCEPT !.pc = pc]
    <3>1. \A pc \in {"join", "query"} : r(pc) \in ReadCalls /\ FillComplete(r(pc))
      BY <2>0 DEF ReadCalls, CallPCs, FillComplete
    <3>2. PICK pc \in {"join", "query"} : call' = [call EXCEPT ![c] = r(pc)]
      BY <2>1 DEF Do
    <3> QED
      BY <2>1, <3>1, <3>2, CallType DEF TypeOK, CallsTyped, Do
  <2>2. CASE QueryCore(c)
    <3> DEFINE found == IF call[c].isAll THEN core[call[c].kind]
                        ELSE [NoAll EXCEPT ![call[c].key] = core[call[c].kind][call[c].key]]
    <3>1. /\ found \in [Keys -> Items \cup {Absent}]
          /\ IF call[c].isAll THEN found \in Snapshots
                              ELSE found[call[c].key] \in Items
      BY <2>0, ConstantTypes DEF TypeOK, ReadCalls, DataSets, Snapshots
    <3> HIDE DEF found
    <3> DEFINE unreadable == \E i \in Keys : /\ <<call[c].kind, i>> \in garbled
                                            /\ (call[c].isAll \/ i = call[c].key)
               fails == ~up \/ unreadable
    <3>2. CASE fails
      <4> DEFINE r == [call[c] EXCEPT !.pc = "report"]
      <4>1. r \in ReadCalls /\ FillComplete(r)
        BY <2>0 DEF ReadCalls, CallPCs, FillComplete
      <4>2. call' = [call EXCEPT ![c] = r]
        BY <2>2, <3>2 DEF QueryCore
      <4> QED
        BY <2>2, <4>1, <4>2, CallType DEF TypeOK, CallsTyped, QueryCore
    <3>3. CASE ~fails /\ hasCache
      <4> DEFINE r == [call[c] EXCEPT !.pc = "fill", !.res = found]
      <4>1. r \in ReadCalls /\ FillComplete(r)
        BY <2>0, <3>1 DEF ReadCalls, CallPCs, FillComplete
      <4>2. call' = [call EXCEPT ![c] = r]
        BY <2>2, <3>3 DEF QueryCore, found
      <4> QED
        BY <2>2, <4>1, <4>2, CallType DEF TypeOK, CallsTyped, QueryCore
    <3>4. CASE ~fails /\ ~hasCache
      <4>1. FillComplete(IdleCall)
        BY DEF FillComplete, IdleCall
      <4>2. call' = [call EXCEPT ![c] = IdleCall]
        BY <2>2, <3>4 DEF QueryCore
      <4> QED
        BY <2>2, <4>1, <4>2, ConstantTypes, CallType DEF TypeOK, CallsTyped, QueryCore
    <3> QED
      BY <3>2, <3>3, <3>4
  <2>3. CASE ReadReport(c)
    BY <2>3, ReturnType, UpdateAvailabilityType DEF TypeOK, CallsTyped, ReadReport
  <2>4. CASE ReadFill(c)
    <3>1. CallsTyped'
      BY <2>4, ReturnType DEF ReadFill
    <3>2. /\ call[c].kind \in Kinds /\ call[c].key \in Keys
          /\ call[c].isAll => call[c].res \in Snapshots
          /\ ~call[c].isAll => call[c].res[call[c].key] \in Items
      BY <2>0, <2>4 DEF TypeOK, ReadFill, ReadCalls, FillComplete
    <3>3. cacheAll' \in [Kinds -> Snapshots \cup {NoAll}]
      BY <2>4, <3>2 DEF TypeOK, ReadFill
    <3>4. cacheItem' \in [Kinds -> [Keys -> Items \cup {Absent}]]
      <4>1. CASE call[c].isAll
        BY <2>4, <4>1 DEF TypeOK, ReadFill
      <4>2. CASE ~call[c].isAll
        <5> DEFINE v == call[c].res[call[c].key]
        <5>1. cacheItem' = [cacheItem EXCEPT ![call[c].kind][call[c].key] = v]
          BY <2>4, <4>2 DEF ReadFill
        <5>2. v \in Items
          BY <3>2, <4>2
        <5> HIDE DEF v
        <5> QED
          BY <3>2, <5>1, <5>2 DEF TypeOK
      <4> QED
        BY <4>1, <4>2
    <3> QED
      BY <2>4, <3>1, <3>3, <3>4 DEF TypeOK, CallsTyped, ReadFill
  <2>5. CASE InitQuery(c)
    <3> DEFINE r(pc) == [call[c] EXCEPT !.pc = pc]
    <3>1. \A pc \in {"initFound", "initMissing"} : r(pc) \in ReadCalls /\ FillComplete(r(pc))
      BY <2>0 DEF ReadCalls, CallPCs, FillComplete
    <3>2. PICK pc \in {"initFound", "initMissing"} : call' = [call EXCEPT ![c] = r(pc)]
      BY <2>5 DEF InitQuery
    <3> QED
      BY <2>5, <3>1, <3>2, CallType DEF TypeOK, CallsTyped, InitQuery
  <2>6. CASE InitFound(c) \/ InitMissing(c)
    <3>1. FillComplete(IdleCall)
      BY DEF FillComplete, IdleCall
    <3>2. CallsTyped'
      BY <2>6, <3>1, ConstantTypes, CallType DEF InitFound, InitMissing
    <3> QED
      BY <2>6, <3>2 DEF TypeOK, CallsTyped, InitFound, InitMissing, hasCache
  <2> QED
    BY <1>7, <2>1, <2>2, <2>3, <2>4, <2>5, <2>6 DEF ReadStep
<1>8. CASE Expire
  <2>1. ASSUME NEW k \in Kinds, NEW i \in Keys, ExpireItem(k, i)
        PROVE  TypeOK'
    BY <2>1 DEF TypeOK, ExpireItem
  <2>2. ASSUME NEW k \in Kinds, ExpireAll(k)
        PROVE  TypeOK'
    BY <2>2 DEF TypeOK, ExpireAll
  <2>3. CASE ExpireInitChecked
    BY <2>3 DEF TypeOK, ExpireInitChecked
  <2> QED
    BY <1>8, <2>1, <2>2, <2>3 DEF Expire
<1>9. CASE Close
  BY <1>9 DEF TypeOK, Close, Pollers, PollPCs
<1> QED
  BY <1>1, <1>2, <1>3, <1>4, <1>5, <1>6, <1>7, <1>8, <1>9 DEF Next

\* At first every variable has its type.
LEMMA TypeInit == Init => TypeOK
<1> SUFFICES ASSUME Init PROVE TypeOK
  OBVIOUS
<1>1. core \in DataSets
  BY ConstantTypes DEF Init
<1>2. CallsTyped
  BY ConstantTypes DEF Init, CallsTyped, FillComplete, IdleCall
<1>3. garbled \in SUBSET (Kinds \X Keys)
  BY DEF Init, Stored
<1> QED
  BY <1>1, <1>2, <1>3, ConstantTypes DEF Init, TypeOK, CallsTyped, DataSets

(***************************************************************************)
(* The type invariant, for every value of the constants.                   *)
(***************************************************************************)
THEOREM TypeCorrect == Spec => []TypeOK
BY TypeInit, TypeStep, PTL DEF Spec

-----------------------------------------------------------------------------
(***************************************************************************)
(* The inductive invariant behind CacheHoldsOnlyStoredData and             *)
(* InitedOnlyAfterStored.  What the cache holds was written there by a     *)
(* call that had the database's answer in hand, so each call in progress   *)
(* has to be covered as well: what it is about to cache has been stored.   *)
(***************************************************************************)
WasStored(k, i, v) == \E s \in held[k] : s[i] = v

CoreIsHeld == \A k \in Kinds : core[k] \in held[k]

\* A successful Init has stored its data; a failed one never reaches the
\* cache.  An Upsert that goes on to set the item has stored it.
WriterHolds ==
    /\ wr.pc \in {"fill", "fillItems", "setInited"} => ~wr.err
    /\ wr.pc \in {"flush", "fill", "fillItems", "setInited"} /\ ~wr.err =>
          coreInited /\ \A k \in Kinds : wr.data[k] \in held[k]
    /\ wr.pc = "report" => wr.err
    /\ wr.pc = "setItem" => WasStored(wr.kind, wr.key, wr.ver)
    /\ wr.pc \notin {"readAll", "writeAll"}

ReadHolds(r) ==
    /\ r.pc = "fill" => IF r.isAll THEN r.res \in held[r.kind]
                                   ELSE WasStored(r.kind, r.key, r.res[r.key])
    /\ r.pc = "initFound" => coreInited

StoredInv ==
    /\ CoreIsHeld
    /\ CacheHoldsOnlyStoredData
    /\ WriterHolds
    /\ \A c \in Callers : ReadHolds(call[c])
    /\ InitedOnlyAfterStored

(***************************************************************************)
(* A step leaves the database alone, initializes it or upserts an item.    *)
(* Either way the history only grows and includes the present contents.    *)
(***************************************************************************)
HistoryGrows ==
    /\ \A k \in Kinds : held[k] \subseteq held'[k]
    /\ coreInited => coreInited'

LEMMA DatabaseSteps ==
    ASSUME TypeOK, [Next]_vars
    PROVE  \/ UNCHANGED <<core, coreInited, held>>
           \/ \E data \in DataSets, bad \in SUBSET (Kinds \X Keys) : CoreInit(data, bad)
           \/ \E k \in Kinds, i \in Keys, v \in Versions, bad \in SUBSET (Kinds \X Keys) :
                 CoreUpsert(k, i, v, bad)
<1> USE DEF dbVars, contents
<1>1. CASE UNCHANGED vars
  BY <1>1 DEF vars
<1>2. CASE Environment
  <2>1. CASE StoreGoesDown \/ StoreComesBack
    BY <2>1 DEF StoreGoesDown, StoreComesBack
  <2>2. ASSUME NEW k \in Kinds, NEW i \in Keys, NEW v \in Versions, ExternalUpsert(k, i, v)
        PROVE  \E bad \in SUBSET (Kinds \X Keys) : CoreUpsert(k, i, v, bad)
    <3>1. PICK bad \in SUBSET {<<k, i>>} : CoreUpsert(k, i, v, bad)
      BY <2>2 DEF ExternalUpsert
    <3>2. bad \in SUBSET (Kinds \X Keys)
      OBVIOUS
    <3> QED
      BY <3>1, <3>2
  <2>3. ASSUME NEW data \in DataSets, ExternalInit(data)
        PROVE  \E bad \in SUBSET (Kinds \X Keys) : CoreInit(data, bad)
    BY <2>3 DEF ExternalInit, Stored
  <2> QED
    BY <1>2, <2>1, <2>2, <2>3 DEF Environment
<1>3. CASE Poller
  <2>1. poll.snap \in DataSets
    BY DEF TypeOK, Pollers
  <2> QED
    BY <1>3, <2>1 DEF Poller, PollTick, PollReadCache, PollWriteCore, PollReport,
                      PollSignal, PollStop
<1>4. CASE WriterStep
  BY <1>4 DEF WriterStep, WrReport, InitFlush, InitFillAll, InitFillItem, InitNextKind,
              InitSetInited, UpsertSetItem, UpsertReadAll, UpsertWriteAll,
              UpsertDelItem, UpsertDelAll, UpsertReget
<1>5. CASE Feed
  BY <1>5 DEF Feed, InitBegin, UpsertBegin
<1>6. CASE \E c \in Callers : Query(c)
  BY <1>6 DEF Query, Get, GetAll, IsInitialized
<1>7. CASE \E c \in Callers : ReadStep(c)
  BY <1>7 DEF ReadStep, Do, QueryCore, ReadReport, ReadFill, InitQuery, InitFound,
              InitMissing
<1>8. CASE Expire
  BY <1>8 DEF Expire, ExpireItem, ExpireAll, ExpireInitChecked
<1>9. CASE Close
  BY <1>9 DEF Close
<1> QED
  BY <1>1, <1>2, <1>3, <1>4, <1>5, <1>6, <1>7, <1>8, <1>9 DEF Next

LEMMA DatabaseHistory ==
    ASSUME ~hasInfiniteCache, TypeOK, CoreIsHeld, [Next]_vars
    PROVE  HistoryGrows /\ CoreIsHeld'
<1>1. CASE UNCHANGED <<core, coreInited, held>>
  BY <1>1 DEF HistoryGrows, CoreIsHeld
<1>2. ASSUME NEW data \in DataSets, NEW bad, CoreInit(data, bad)
      PROVE  HistoryGrows /\ CoreIsHeld'
  BY <1>2 DEF CoreInit, HistoryGrows, CoreIsHeld
<1>3. ASSUME NEW k \in Kinds, NEW i \in Keys, NEW v \in Versions, NEW bad,
             CoreUpsert(k, i, v, bad)
      PROVE  HistoryGrows /\ CoreIsHeld'
  <2>1. core' = [core EXCEPT ![k][i] = IF v > core[k][i] THEN v ELSE core[k][i]]
    BY <1>3 DEF CoreUpsert
  <2>2. \A l \in Kinds : l # k => core'[l] = core[l]
    BY <2>1 DEF TypeOK, DataSets
  <2>3. held' = [held EXCEPT ![k] = @ \cup {core'[k]}]
    BY <1>3 DEF CoreUpsert
  <2> QED
    BY <1>3, <2>2, <2>3 DEF TypeOK, CoreUpsert, HistoryGrows, CoreIsHeld
<1> QED
  BY <1>1, <1>2, <1>3, DatabaseSteps

(***************************************************************************)
(* What a growing history preserves when the rest is left alone.           *)
(***************************************************************************)
LEMMA CacheFrame ==
    ASSUME StoredInv, HistoryGrows, UNCHANGED <<cacheItem, cacheAll>>
    PROVE  CacheHoldsOnlyStoredData'
BY DEF StoredInv, CacheHoldsOnlyStoredData, HistoryGrows

LEMMA WriterFrame ==
    ASSUME TypeOK, StoredInv, HistoryGrows, UNCHANGED wr
    PROVE  WriterHolds'
<1>1. wr.kind \in Kinds
  BY DEF TypeOK, WriteCalls
<1> QED
  BY <1>1 DEF StoredInv, WriterHolds, WasStored, HistoryGrows

LEMMA IdleWriterHolds ==
    ASSUME wr' = IdleWr
    PROVE  WriterHolds'
BY DEF WriterHolds, IdleWr

LEMMA ReadFrame ==
    ASSUME TypeOK, StoredInv, HistoryGrows, NEW d \in Callers,
           \/ call'[d] = call[d]
           \/ call'[d].pc \notin {"fill", "initFound"}
    PROVE  ReadHolds(call[d])'
<1>1. call[d].kind \in Kinds
  BY DEF TypeOK, ReadCalls
<1>2. ReadHolds(call[d])
  BY DEF StoredInv
<1> QED
  BY <1>1, <1>2 DEF ReadHolds, WasStored, HistoryGrows

LEMMA StartReadFrame ==
    ASSUME TypeOK, StoredInv, HistoryGrows, NEW c \in Callers, NEW isAll \in BOOLEAN,
           NEW k \in Kinds, NEW i \in Keys, StartRead(c, isAll, k, i)
    PROVE  \A d \in Callers : ReadHolds(call[d])'
<1> DEFINE r == [Request(isAll, k, i) EXCEPT !.pc = IF hasCache THEN "missed" ELSE "query"]
<1>1. r.pc \in {"missed", "query"}
  BY DEF Request, IdleCall
<1>2. call' = call \/ call' = [call EXCEPT ![c] = r]
  BY DEF StartRead
<1> HIDE DEF r
<1>3. \A d \in Callers : call'[d] = call[d] \/ call'[d].pc \notin {"fill", "initFound"}
  BY <1>1, <1>2 DEF TypeOK
<1> QED
  BY <1>3, ReadFrame

LEMMA ReturnFrame ==
    ASSUME TypeOK, StoredInv, HistoryGrows, NEW c \in Callers, call' = Return(c)
    PROVE  \A d \in Callers : ReadHolds(call[d])'
<1>1. \A d \in Callers : call'[d] = call[d] \/ call'[d].pc \notin {"fill", "initFound"}
  BY DEF Return, IdleCall
<1> QED
  BY <1>1, ReadFrame

(***************************************************************************)
(* The invariant is inductive unless the cache is infinite.                *)
(***************************************************************************)
LEMMA StoredStep ==
    ASSUME CacheMode # "infinite", TypeOK, StoredInv, [Next]_vars
    PROVE  StoredInv'
<1> USE DEF dbVars, contents, cacheVars, pollVars
<1>a. ~hasInfiniteCache
  BY DEF hasInfiniteCache
<1>b. HistoryGrows /\ CoreIsHeld'
  BY <1>a, DatabaseHistory DEF StoredInv
<1>c. (inited' => inited \/ coreInited) => InitedOnlyAfterStored'
  BY <1>b DEF StoredInv, InitedOnlyAfterStored, HistoryGrows
<1> DEFINE CacheOK == CacheHoldsOnlyStoredData'
           WriterOK == WriterHolds'
           ReadsOK == \A d \in Callers : ReadHolds(call[d])'
<1>d. UNCHANGED call => ReadsOK
  BY <1>b, ReadFrame
<1>e. UNCHANGED <<cacheItem, cacheAll>> => CacheOK
  BY <1>b, CacheFrame
<1>f. UNCHANGED wr => WriterOK
  BY <1>b, WriterFrame
<1>g. CacheOK /\ WriterOK /\ ReadsOK /\ InitedOnlyAfterStored' => StoredInv'
  BY <1>b DEF StoredInv
<1> HIDE DEF CacheOK, WriterOK, ReadsOK
<1>1. CASE UNCHANGED vars
  BY <1>1, <1>c, <1>d, <1>e, <1>f, <1>g DEF vars
<1>2. CASE Environment
  BY <1>2, <1>c, <1>d, <1>e, <1>f, <1>g
     DEF Environment, StoreGoesDown, StoreComesBack, ExternalUpsert, ExternalInit
<1>3. CASE Poller
  <2>1. UNCHANGED <<cacheItem, cacheAll, wr, call, inited>>
    BY <1>3
       DEF Poller, PollTick, PollReadCache, PollWriteCore, PollReport, PollSignal, PollStop
  <2> QED
    BY <2>1, <1>c, <1>d, <1>e, <1>f, <1>g
<1>4. CASE WriterStep
  <2>0. wr \in WriteCalls /\ WriterHolds
    BY DEF TypeOK, StoredInv
  <2>1. CASE WrReport
    <3>1. wr' = IdleWr \/ (wr' = [wr EXCEPT !.pc = "flush"] /\ wr.err)
      BY <2>0, <2>1, <1>a DEF WrReport, AfterUpsert, WriterHolds
    <3>2. WriterOK
      BY <3>1, <2>0, IdleWriterHolds DEF WriterHolds, WriteCalls, WriterOK
    <3> QED
      BY <2>1, <3>2, <1>c, <1>d, <1>e, <1>g DEF WrReport
  <2>2. CASE InitFlush
    <3>1. CacheOK
      BY <2>2 DEF InitFlush, CacheHoldsOnlyStoredData, NoAll, CacheOK
    <3>2. \/ wr' = IdleWr
          \/ ~wr.err /\ wr' = [wr EXCEPT !.pc = "fill"]
          \/ ~wr.err /\ wr' = [wr EXCEPT !.pc = "setInited"]
      BY <2>2, <1>a DEF InitFlush
    <3>3. WriterOK
      BY <2>0, <2>2, <3>2, <1>b, IdleWriterHolds
         DEF InitFlush, WriterHolds, WriteCalls, HistoryGrows, WriterOK
    <3> QED
      BY <2>2, <3>1, <3>3, <1>c, <1>d, <1>g DEF InitFlush
  <2>3. ASSUME NEW k \in Kinds, InitFillAll(k)
        PROVE  StoredInv'
    <3>1. ~wr.err /\ \A l \in Kinds : wr.data[l] \in held[l] /\ wr.data[l] \in held'[l]
      BY <2>0, <2>3, <1>b DEF InitFillAll, WriterHolds, HistoryGrows
    <3>2. CacheOK
      BY <2>3, <3>1, <1>b DEF TypeOK, InitFillAll, StoredInv, CacheHoldsOnlyStoredData,
                              HistoryGrows, CacheOK
    <3>3. WriterOK
      BY <2>0, <2>3, <3>1, <1>b DEF InitFillAll, WriterHolds, WriteCalls, HistoryGrows, WriterOK
    <3> QED
      BY <2>3, <3>2, <3>3, <1>c, <1>d, <1>g DEF InitFillAll
  <2>4. ASSUME NEW i \in Keys, InitFillItem(i)
        PROVE  StoredInv'
    <3>1. ~wr.err /\ wr.kind \in Kinds /\ wr.data[wr.kind] \in held'[wr.kind]
      BY <2>0, <2>4, <1>b DEF InitFillItem, WriterHolds, WriteCalls, HistoryGrows
    <3>2. CacheOK
      BY <2>4, <3>1, <1>b DEF TypeOK, InitFillItem, StoredInv, CacheHoldsOnlyStoredData,
                              HistoryGrows, CacheOK
    <3>3. WriterOK
      BY <2>0, <2>4, <3>1, <1>b DEF InitFillItem, WriterHolds, WriteCalls, HistoryGrows, WriterOK
    <3> QED
      BY <2>4, <3>2, <3>3, <1>c, <1>d, <1>g DEF InitFillItem
  <2>5. CASE InitNextKind
    <3>1. WriterOK
      BY <2>0, <2>5, <1>b DEF InitNextKind, WriterHolds, WriteCalls, HistoryGrows, WriterOK
    <3> QED
      BY <2>5, <3>1, <1>c, <1>d, <1>e, <1>g DEF InitNextKind
  <2>6. CASE InitSetInited
    <3>1. coreInited
      BY <2>0, <2>6 DEF InitSetInited, WriterHolds
    <3>2. WriterOK
      BY <2>6, IdleWriterHolds DEF InitSetInited, WriterOK
    <3> QED
      BY <2>6, <3>1, <3>2, <1>c, <1>d, <1>e, <1>g DEF InitSetInited
  <2>7. CASE UpsertSetItem
    <3>1. wr.kind \in Kinds /\ wr.key \in Keys /\ \E s \in held'[wr.kind] : s[wr.key] = wr.ver
      BY <2>0, <2>7, <1>b DEF UpsertSetItem, WriterHolds, WriteCalls, WasStored, HistoryGrows
    <3>2. CacheOK
      BY <2>7, <3>1, <1>b DEF TypeOK, UpsertSetItem, StoredInv, CacheHoldsOnlyStoredData,
                              HistoryGrows, CacheOK
    <3>3. WriterOK
      BY <2>0, <2>7, <1>a DEF UpsertSetItem, WriterHolds, WriteCalls, WriterOK
    <3> QED
      BY <2>7, <3>2, <3>3, <1>c, <1>d, <1>g DEF UpsertSetItem
  <2>8. CASE UpsertReadAll \/ UpsertWriteAll
    BY <2>0, <2>8 DEF UpsertReadAll, UpsertWriteAll, WriterHolds
  <2>9. CASE UpsertDelItem
    <3>1. CacheOK
      BY <2>9, <1>b DEF TypeOK, UpsertDelItem, StoredInv, CacheHoldsOnlyStoredData,
                        HistoryGrows, WriteCalls, CacheOK
    <3>2. WriterOK
      BY <2>0, <2>9 DEF UpsertDelItem, WriterHolds, WriteCalls, WriterOK
    <3> QED
      BY <2>9, <3>1, <3>2, <1>c, <1>d, <1>g DEF UpsertDelItem
  <2>10. CASE UpsertDelAll
    <3>1. CacheOK
      BY <2>10, <1>b DEF TypeOK, UpsertDelAll, StoredInv, CacheHoldsOnlyStoredData,
                         HistoryGrows, WriteCalls, CacheOK
    <3>2. WriterOK
      BY <2>0, <2>10, IdleWriterHolds DEF UpsertDelAll, WriterHolds, WriteCalls, WriterOK
    <3> QED
      BY <2>10, <3>1, <3>2, <1>c, <1>d, <1>g DEF UpsertDelAll
  <2>11. CASE UpsertReget
    <3>1. ReadsOK
      BY <2>0, <2>11, <1>b, StartReadFrame DEF UpsertReget, WriteCalls, Callers, ReadsOK
    <3>2. WriterOK
      BY <2>11, IdleWriterHolds DEF UpsertReget, WriterOK
    <3> QED
      BY <2>11, <3>1, <3>2, <1>c, <1>e, <1>g DEF UpsertReget
  <2> QED
    BY <1>4, <2>1, <2>2, <2>3, <2>4, <2>5, <2>6, <2>7, <2>8, <2>9, <2>10, <2>11
       DEF WriterStep
<1>5. CASE Feed
  <2>1. ASSUME NEW data \in DataSets, InitBegin(data)
        PROVE  StoredInv'
    <3>1. /\ wr'.pc \in {"flush", "report"} /\ wr'.data = data /\ wr'.err = ~up
          /\ wr'.pc = "report" => wr'.err
      BY <2>1 DEF InitBegin, IdleWr
    <3>2. up => coreInited' /\ \A k \in Kinds : data[k] \in held'[k]
      BY <1>a, <2>1 DEF InitBegin, CoreInit
    <3>3. WriterOK
      BY <3>1, <3>2 DEF WriterHolds, WriterOK
    <3> QED
      BY <2>1, <3>3, <1>c, <1>d, <1>e, <1>g DEF InitBegin
  <2>2. ASSUME NEW k \in Kinds, NEW i \in Keys, NEW v \in Versions, UpsertBegin(k, i, v)
        PROVE  StoredInv'
    <3>1. \/ wr' = IdleWr
          \/ wr'.pc \in {"delItem", "report"} /\ (wr'.pc = "report" => wr'.err)
          \/ /\ up /\ v > core[k][i] /\ wr'.pc = "setItem"
             /\ wr'.kind = k /\ wr'.key = i /\ wr'.ver = v
      BY <2>2, <1>a DEF UpsertBegin, AfterUpsert, IdleWr
    <3>2. ASSUME up, v > core[k][i]
          PROVE  \E s \in held'[k] : s[i] = v
      <4>1. core'[k][i] = v
        BY <2>2, <3>2 DEF UpsertBegin, CoreUpsert, TypeOK, DataSets, Snapshots
      <4> QED
        BY <4>1, <1>b DEF CoreIsHeld
    <3>3. WriterOK
      BY <3>1, <3>2, IdleWriterHolds DEF WriterHolds, WasStored, WriterOK
    <3> QED
      BY <2>2, <3>3, <1>c, <1>d, <1>e, <1>g DEF UpsertBegin
  <2> QED
    BY <1>5, <2>1, <2>2 DEF Feed
<1>6. ASSUME NEW c \in Callers, Query(c)
      PROVE  StoredInv'
  <2>1. ASSUME NEW k \in Kinds, NEW i \in Keys, Get(c, k, i)
        PROVE  StoredInv'
    <3>1. ReadsOK
      BY <2>1, <1>b, StartReadFrame DEF Get, ReadsOK
    <3> QED
      BY <2>1, <3>1, <1>c, <1>e, <1>f, <1>g DEF Get
  <2>2. ASSUME NEW k \in Kinds, GetAll(c, k)
        PROVE  StoredInv'
    <3>1. ReadsOK
      BY <2>2, <1>b, StartReadFrame, ConstantTypes DEF GetAll, ReadsOK
    <3> QED
      BY <2>2, <3>1, <1>c, <1>e, <1>f, <1>g DEF GetAll
  <2>3. CASE IsInitialized(c)
    <3>1. \A d \in Callers : call'[d] = call[d] \/ call'[d].pc \notin {"fill", "initFound"}
      BY <2>3 DEF IsInitialized, TypeOK, ReadCalls
    <3>2. ReadsOK
      BY <3>1, <1>b, ReadFrame DEF ReadsOK
    <3> QED
      BY <2>3, <3>2, <1>c, <1>e, <1>f, <1>g DEF IsInitialized
  <2> QED
    BY <1>6, <2>1, <2>2, <2>3 DEF Query
<1>7. ASSUME NEW c \in Callers, ReadStep(c)
      PROVE  StoredInv'
  <2>0. call[c] \in ReadCalls /\ ReadHolds(call[c])
    BY DEF TypeOK, StoredInv
  <2>1. CASE Do(c)
    <3>1. \A d \in Callers : call'[d] = call[d] \/ call'[d].pc \notin {"fill", "initFound"}
      BY <2>1 DEF Do, TypeOK, ReadCalls
    <3>2. ReadsOK
      BY <3>1, <1>b, ReadFrame DEF ReadsOK
    <3> QED
      BY <2>1, <3>2, <1>c, <1>e, <1>f, <1>g DEF Do
  <2>2. CASE QueryCore(c)
    <3>1. \A d \in Callers : d # c => call'[d] = call[d]
      BY <2>2 DEF QueryCore, TypeOK
    <3>2. ReadHolds(call[c])'
      <4> DEFINE found == IF call[c].isAll THEN core[call[c].kind]
                          ELSE [NoAll EXCEPT ![call[c].key] = core[call[c].kind][call[c].key]]
                 r == [call[c] EXCEPT !.pc = "fill", !.res = found]
      <4>1. CASE call'[c].pc \notin {"fill", "initFound"}
        BY <4>1 DEF ReadHolds
      <4>2. CASE call'[c] = r
        <5>1. /\ r.pc = "fill" /\ r.isAll = call[c].isAll /\ r.kind = call[c].kind
              /\ r.key = call[c].key /\ r.res = found
          BY <2>0 DEF ReadCalls
        <5>2. core[call[c].kind] \in held'[call[c].kind]
          BY <2>0, <2>2, <1>b DEF QueryCore, CoreIsHeld, ReadCalls
        <5>3. ~call[c].isAll => found[call[c].key] = core[call[c].kind][call[c].key]
          BY <2>0, ConstantTypes DEF ReadCalls
        <5> HIDE DEF r, found
        <5>4. call[c].isAll => found = core[call[c].kind]
          BY DEF found
        <5> QED
          BY <4>2, <5>1, <5>2, <5>3, <5>4 DEF ReadHolds, WasStored
      <4>3. \/ call'[c] = [call[c] EXCEPT !.pc = "report"]
            \/ call'[c] = r
            \/ call'[c] = IdleCall
        BY <2>2 DEF QueryCore, TypeOK
      <4>4. call'[c] = r \/ call'[c].pc \in {"report", "idle"}
        BY <4>3, <2>0 DEF IdleCall, ReadCalls
      <4> QED
        BY <4>1, <4>2, <4>4
    <3>3. ReadsOK
      BY <3>1, <3>2, <1>b, ReadFrame DEF ReadsOK
    <3> QED
      BY <2>2, <3>3, <1>c, <1>e, <1>f, <1>g DEF QueryCore
  <2>3. CASE ReadReport(c)
    <3>1. ReadsOK
      BY <2>3, <1>b, ReturnFrame DEF ReadReport, ReadsOK
    <3> QED
      BY <2>3, <3>1, <1>c, <1>e, <1>f, <1>g DEF ReadReport
  <2>4. CASE ReadFill(c)
    <3>1. ReadsOK
      BY <2>4, <1>b, ReturnFrame DEF ReadFill, ReadsOK
    <3>2. call[c].kind \in Kinds /\ call[c].key \in Keys
      BY <2>0 DEF ReadCalls
    <3>3. CASE call[c].isAll
      <4>1. call[c].res \in held'[call[c].kind]
        BY <2>0, <2>4, <3>2, <3>3, <1>b DEF ReadFill, ReadHolds, HistoryGrows
      <4>2. CacheOK
        BY <2>4, <3>2, <3>3, <4>1, <1>b DEF ReadFill, TypeOK, StoredInv,
                 CacheHoldsOnlyStoredData, HistoryGrows, CacheOK
      <4> QED
        BY <2>4, <3>1, <4>2, <1>c, <1>f, <1>g DEF ReadFill
    <3>4. CASE ~call[c].isAll
      <4> DEFINE v == call[c].res[call[c].key]
      <4>1. \E s \in held'[call[c].kind] : s[call[c].key] = v
        BY <2>0, <2>4, <3>2, <3>4, <1>b DEF ReadFill, ReadHolds, WasStored, HistoryGrows
      <4>2. cacheItem' = [cacheItem EXCEPT ![call[c].kind][call[c].key] = v] /\ UNCHANGED cacheAll
        BY <2>4, <3>4 DEF ReadFill
      <4> HIDE DEF v
      <4>3. CacheOK
        BY <3>2, <4>1, <4>2, <1>b DEF TypeOK, StoredInv,
                 CacheHoldsOnlyStoredData, HistoryGrows, CacheOK
      <4> QED
        BY <2>4, <3>1, <4>3, <1>c, <1>f, <1>g DEF ReadFill
    <3> QED
      BY <3>3, <3>4
  <2>5. CASE InitQuery(c)
    <3>1. \A d \in Callers : d # c => call'[d] = call[d]
      BY <2>5 DEF InitQuery, TypeOK
    <3>2. ReadHolds(call[c])'
      <4>1. call'[c].pc = "initMissing" \/ (call'[c].pc = "initFound" /\ coreInited)
        BY <2>0, <2>5 DEF InitQuery, TypeOK, ReadCalls
      <4> QED
        BY <4>1, <1>b DEF ReadHolds, HistoryGrows
    <3>3. ReadsOK
      BY <3>1, <3>2, <1>b, ReadFrame DEF ReadsOK
    <3> QED
      BY <2>5, <3>3, <1>c, <1>e, <1>f, <1>g DEF InitQuery
  <2>6. CASE InitFound(c) \/ InitMissing(c)
    <3>1. \A d \in Callers : call'[d] = call[d] \/ call'[d].pc \notin {"fill", "initFound"}
      BY <2>6 DEF InitFound, InitMissing, IdleCall, TypeOK
    <3>2. ReadsOK
      BY <3>1, <1>b, ReadFrame DEF ReadsOK
    <3>3. inited' => inited \/ coreInited
      BY <2>0, <2>6 DEF InitFound, InitMissing, ReadHolds
    <3> QED
      BY <2>6, <3>2, <3>3, <1>c, <1>e, <1>f, <1>g DEF InitFound, InitMissing
  <2> QED
    BY <1>7, <2>1, <2>2, <2>3, <2>4, <2>5, <2>6 DEF ReadStep
<1>8. CASE Expire
  <2>1. CacheOK
    BY <1>8, <1>b DEF Expire, ExpireItem, ExpireAll, ExpireInitChecked, TypeOK, StoredInv,
                      CacheHoldsOnlyStoredData, HistoryGrows, CacheOK
  <2> QED
    BY <1>8, <2>1, <1>c, <1>d, <1>f, <1>g DEF Expire, ExpireItem, ExpireAll, ExpireInitChecked
<1>9. CASE Close
  BY <1>9, <1>c, <1>d, <1>e, <1>f, <1>g DEF Close
<1> QED
  BY <1>1, <1>2, <1>3, <1>4, <1>5, <1>6, <1>7, <1>8, <1>9 DEF Next

(***************************************************************************)
(* The two safety theorems for a cache that is not infinite: the SDK shows *)
(* nothing the database did not hold, and claims to be initialized only    *)
(* when the database is.                                                   *)
(***************************************************************************)
LEMMA StoredCorrect ==
    ASSUME CacheMode # "infinite"
    PROVE  Spec => []StoredInv
<1>1. Init => StoredInv
  <2> SUFFICES ASSUME Init PROVE StoredInv
    OBVIOUS
  <2>1. CoreIsHeld
    BY DEF Init, CoreIsHeld
  <2>2. CacheHoldsOnlyStoredData
    BY DEF Init, CacheHoldsOnlyStoredData, NoAll
  <2>3. WriterHolds
    BY DEF Init, WriterHolds, IdleWr
  <2>4. \A c \in Callers : ReadHolds(call[c])
    BY DEF Init, ReadHolds, IdleCall
  <2> QED
    BY <2>1, <2>2, <2>3, <2>4 DEF Init, StoredInv, InitedOnlyAfterStored
<1>2. TypeOK /\ StoredInv /\ [Next]_vars => StoredInv'
  BY StoredStep
<1> QED
  BY <1>1, <1>2, TypeCorrect, PTL DEF Spec

\* Whatever happens to the database, the feed and the readers, an expiring
\* cache only ever holds data that the database contained at some moment.
THEOREM OnlyStoredDataIsCached ==
    ASSUME CacheMode # "infinite"
    PROVE  Spec => []CacheHoldsOnlyStoredData
<1>1. StoredInv => CacheHoldsOnlyStoredData
  BY DEF StoredInv
<1> QED
  BY <1>1, StoredCorrect, PTL

\* IsInitialized never answers "true" for a database that no one initialized.
THEOREM InitializedMeansStored ==
    ASSUME CacheMode # "infinite"
    PROVE  Spec => []InitedOnlyAfterStored
<1>1. StoredInv => InitedOnlyAfterStored
  BY DEF StoredInv
<1> QED
  BY <1>1, StoredCorrect, PTL

-----------------------------------------------------------------------------
(***************************************************************************)
(* The safety part of FiniteCacheConverges.  Once the cache, and what each *)
(* call in progress is about to cache, agrees with the database, no call   *)
(* brings anything else back while the database stays as it is: whatever   *)
(* is stale has been left from before its last change.                     *)
(***************************************************************************)
WriterAgrees ==
    /\ wr.pc \in {"flush", "fill", "fillItems"} /\ ~wr.err => wr.data = core
    /\ wr.pc = "setItem" => wr.ver = core[wr.kind][wr.key]
ReadAgrees(r) ==
    r.pc = "fill" => IF r.isAll THEN r.res = core[r.kind]
                                ELSE r.res[r.key] = core[r.kind][r.key]
Settled == Agrees /\ WriterAgrees /\ \A c \in Callers : ReadAgrees(call[c])

\* What a call that has begun to read, or returns, leaves to be cached
LEMMA ReadsStayAgreed ==
    ASSUME Settled, core' = core,
           \A d \in Callers : call'[d] = call[d] \/ call'[d].pc # "fill"
    PROVE  \A d \in Callers : ReadAgrees(call[d])'
BY DEF Settled, ReadAgrees

LEMMA StartReadAgrees ==
    ASSUME TypeOK, Settled, core' = core, NEW c \in Callers, NEW isAll \in BOOLEAN,
           NEW k \in Kinds, NEW i \in Keys, StartRead(c, isAll, k, i)
    PROVE  \A d \in Callers : ReadAgrees(call[d])'
<1> DEFINE r == [Request(isAll, k, i) EXCEPT !.pc = IF hasCache THEN "missed" ELSE "query"]
<1>1. r.pc \in {"missed", "query"}
  BY DEF Request, IdleCall
<1>2. call' = call \/ call' = [call EXCEPT ![c] = r]
  BY DEF StartRead
<1> HIDE DEF r
<1>3. \A d \in Callers : call'[d] = call[d] \/ call'[d].pc # "fill"
  BY <1>1, <1>2 DEF TypeOK
<1> QED
  BY <1>3, ReadsStayAgreed

LEMMA ReturnAgrees ==
    ASSUME Settled, core' = core, NEW c \in Callers, call' = Return(c)
    PROVE  \A d \in Callers : ReadAgrees(call[d])'
<1>1. \A d \in Callers : call'[d] = call[d] \/ call'[d].pc # "fill"
  BY DEF Return, IdleCall
<1> QED
  BY <1>1, ReadsStayAgreed

(***************************************************************************)
(* No step leads out of agreement, unless it changes the database.         *)
(***************************************************************************)
LEMMA AgreementStep ==
    ASSUME CacheMode # "infinite", TypeOK, StoredInv, Settled, [Next]_vars, core' = core
    PROVE  Settled'
<1> USE DEF dbVars, contents, cacheVars, pollVars
<1>a. ~hasInfiniteCache
  BY DEF hasInfiniteCache
<1>b. WriterHolds /\ WriterAgrees /\ Agrees /\ \A c \in Callers : ReadAgrees(call[c])
  BY DEF StoredInv, Settled
<1> DEFINE CacheOK == Agrees'
           WriterOK == WriterAgrees'
           ReadsOK == \A d \in Callers : ReadAgrees(call[d])'
<1>d. UNCHANGED call => ReadsOK
  BY ReadsStayAgreed
<1>e. UNCHANGED <<cacheItem, cacheAll>> => CacheOK
  BY <1>b DEF Agrees
<1>f. UNCHANGED wr => WriterOK
  BY <1>b DEF WriterAgrees
<1>h. wr' = IdleWr => WriterOK
  BY DEF WriterAgrees, IdleWr
<1>g. CacheOK /\ WriterOK /\ ReadsOK => Settled'
  BY DEF Settled
<1> HIDE DEF CacheOK, WriterOK, ReadsOK
<1>1. CASE UNCHANGED vars
  BY <1>1, <1>d, <1>e, <1>f, <1>g DEF vars
<1>2. CASE Environment
  BY <1>2, <1>d, <1>e, <1>f, <1>g
     DEF Environment, StoreGoesDown, StoreComesBack, ExternalUpsert, ExternalInit
<1>3. CASE Poller
  <2>1. UNCHANGED <<cacheItem, cacheAll, wr, call>>
    BY <1>3
       DEF Poller, PollTick, PollReadCache, PollWriteCore, PollReport, PollSignal, PollStop
  <2> QED
    BY <2>1, <1>d, <1>e, <1>f, <1>g
<1>4. CASE WriterStep
  <2>0. wr \in WriteCalls
    BY DEF TypeOK
  <2>1. CASE WrReport
    <3>1. wr' = IdleWr \/ (wr' = [wr EXCEPT !.pc = "flush"] /\ wr.err)
      BY <2>0, <2>1, <1>a, <1>b DEF WrReport, AfterUpsert, WriterHolds
    <3>2. WriterOK
      BY <3>1, <2>0, <1>h DEF WriterAgrees, WriteCalls, WriterOK
    <3> QED
      BY <2>1, <3>2, <1>d, <1>e, <1>g DEF WrReport
  <2>2. CASE InitFlush
    <3>1. CacheOK
      BY <2>2 DEF InitFlush, Agrees, NoAll, CacheOK
    <3>2. \/ wr' = IdleWr
          \/ ~wr.err /\ wr' = [wr EXCEPT !.pc = "fill"]
          \/ ~wr.err /\ wr' = [wr EXCEPT !.pc = "setInited"]
      BY <2>2, <1>a DEF InitFlush
    <3>3. WriterOK
      BY <2>0, <2>2, <3>2, <1>b, <1>h DEF InitFlush, WriterAgrees, WriteCalls, WriterOK
    <3> QED
      BY <2>2, <3>1, <3>3, <1>d, <1>g DEF InitFlush
  <2>3. ASSUME NEW k \in Kinds, InitFillAll(k)
        PROVE  Settled'
    <3>1. wr.data = core
      BY <2>3, <1>b DEF InitFillAll, WriterHolds, WriterAgrees
    <3>2. CacheOK
      BY <2>3, <3>1, <1>b DEF TypeOK, InitFillAll, Agrees, CacheOK
    <3>3. WriterOK
      BY <2>0, <2>3, <3>1 DEF InitFillAll, WriterAgrees, WriteCalls, WriterOK
    <3> QED
      BY <2>3, <3>2, <3>3, <1>d, <1>g DEF InitFillAll
  <2>4. ASSUME NEW i \in Keys, InitFillItem(i)
        PROVE  Settled'
    <3>1. wr.kind \in Kinds /\ wr.data = core
      BY <2>0, <2>4, <1>b DEF InitFillItem, WriterHolds, WriterAgrees, WriteCalls
    <3>2. CacheOK
      BY <2>4, <3>1, <1>b DEF TypeOK, InitFillItem, Agrees, CacheOK
    <3>3. WriterOK
      BY <2>0, <2>4, <3>1 DEF InitFillItem, WriterAgrees, WriteCalls, WriterOK
    <3> QED
      BY <2>4, <3>2, <3>3, <1>d, <1>g DEF InitFillItem
  <2>5. CASE InitNextKind
    <3>1. WriterOK
      BY <2>0, <2>5, <1>b DEF InitNextKind, WriterAgrees, WriteCalls, WriterOK
    <3> QED
      BY <2>5, <3>1, <1>d, <1>e, <1>g DEF InitNextKind
  <2>6. CASE InitSetInited
    BY <2>6, <1>d, <1>e, <1>g, <1>h DEF InitSetInited
  <2>7. CASE UpsertSetItem
    <3>1. wr.kind \in Kinds /\ wr.key \in Keys /\ core[wr.kind][wr.key] = wr.ver
      BY <2>0, <2>7, <1>b DEF UpsertSetItem, WriterAgrees, WriteCalls
    <3>2. CacheOK
      BY <2>7, <3>1, <1>b DEF TypeOK, UpsertSetItem, Agrees, CacheOK
    <3>3. WriterOK
      BY <2>0, <2>7, <1>a DEF UpsertSetItem, WriterAgrees, WriteCalls, WriterOK
    <3> QED
      BY <2>7, <3>2, <3>3, <1>d, <1>g DEF UpsertSetItem
  <2>8. CASE UpsertReadAll \/ UpsertWriteAll
    BY <2>8, <1>b DEF UpsertReadAll, UpsertWriteAll, WriterHolds
  <2>9. CASE UpsertDelItem
    <3>1. CacheOK
      BY <2>9, <1>b DEF TypeOK, UpsertDelItem, Agrees, WriteCalls, CacheOK
    <3>2. WriterOK
      BY <2>0, <2>9 DEF UpsertDelItem, WriterAgrees, WriteCalls, WriterOK
    <3> QED
      BY <2>9, <3>1, <3>2, <1>d, <1>g DEF UpsertDelItem
  <2>10. CASE UpsertDelAll
    <3>1. CacheOK
      BY <2>10, <1>b DEF TypeOK, UpsertDelAll, Agrees, WriteCalls, CacheOK
    <3>2. WriterOK
      BY <2>0, <2>10, <1>h DEF UpsertDelAll, WriterAgrees, WriteCalls, WriterOK
    <3> QED
      BY <2>10, <3>1, <3>2, <1>d, <1>g DEF UpsertDelAll
  <2>11. CASE UpsertReget
    <3>1. ReadsOK
      BY <2>0, <2>11, StartReadAgrees DEF UpsertReget, WriteCalls, Callers, ReadsOK
    <3> QED
      BY <2>11, <3>1, <1>e, <1>g, <1>h DEF UpsertReget
  <2> QED
    BY <1>4, <2>1, <2>2, <2>3, <2>4, <2>5, <2>6, <2>7, <2>8, <2>9, <2>10, <2>11
       DEF WriterStep
<1>5. CASE Feed
  <2>1. ASSUME NEW data \in DataSets, InitBegin(data)
        PROVE  Settled'
    <3>1. wr'.pc \in {"flush", "report"} /\ wr'.data = data /\ wr'.err = ~up
      BY <2>1 DEF InitBegin, IdleWr
    <3>2. up => core' = data
      BY <2>1 DEF InitBegin, CoreInit
    <3>3. WriterOK
      BY <3>1, <3>2 DEF WriterAgrees, WriterOK
    <3> QED
      BY <2>1, <3>3, <1>d, <1>e, <1>g DEF InitBegin
  <2>2. ASSUME NEW k \in Kinds, NEW i \in Keys, NEW v \in Versions, UpsertBegin(k, i, v)
        PROVE  Settled'
    <3>1. \/ wr' = IdleWr
          \/ wr'.pc \in {"delItem", "report"}
          \/ /\ up /\ v > core[k][i] /\ wr'.pc = "setItem"
             /\ wr'.kind = k /\ wr'.key = i /\ wr'.ver = v
      BY <2>2, <1>a DEF UpsertBegin, AfterUpsert, IdleWr
    <3>2. up /\ v > core[k][i] => core'[k][i] = v
      BY <2>2 DEF UpsertBegin, CoreUpsert, TypeOK, DataSets, Snapshots
    <3>3. WriterOK
      BY <3>1, <3>2, <1>h DEF WriterAgrees, WriterOK
    <3> QED
      BY <2>2, <3>3, <1>d, <1>e, <1>g DEF UpsertBegin
  <2> QED
    BY <1>5, <2>1, <2>2 DEF Feed
<1>6. ASSUME NEW c \in Callers, Query(c)
      PROVE  Settled'
  <2>1. ASSUME NEW k \in Kinds, NEW i \in Keys, Get(c, k, i)
        PROVE  Settled'
    <3>1. ReadsOK
      BY <2>1, StartReadAgrees DEF Get, ReadsOK
    <3> QED
      BY <2>1, <3>1, <1>e, <1>f, <1>g DEF Get
  <2>2. ASSUME NEW k \in Kinds, GetAll(c, k)
        PROVE  Settled'
    <3>1. ReadsOK
      BY <2>2, StartReadAgrees, ConstantTypes DEF GetAll, ReadsOK
    <3> QED
      BY <2>2, <3>1, <1>e, <1>f, <1>g DEF GetAll
  <2>3. CASE IsInitialized(c)
    <3>1. \A d \in Callers : call'[d] = call[d] \/ call'[d].pc # "fill"
      BY <2>3 DEF IsInitialized, TypeOK, ReadCalls
    <3>2. ReadsOK
      BY <3>1, ReadsStayAgreed DEF ReadsOK
    <3> QED
      BY <2>3, <3>2, <1>e, <1>f, <1>g DEF IsInitialized
  <2> QED
    BY <1>6, <2>1, <2>2, <2>3 DEF Query
<1>7. ASSUME NEW c \in Callers, ReadStep(c)
      PROVE  Settled'
  <2>0. call[c] \in ReadCalls /\ ReadAgrees(call[c])
    BY <1>b DEF TypeOK
  <2>1. CASE Do(c) \/ InitQuery(c) \/ InitFound(c) \/ InitMissing(c)
    <3>1. \A d \in Callers : call'[d] = call[d] \/ call'[d].pc # "fill"
      BY <2>1 DEF Do, InitQuery, InitFound, InitMissing, IdleCall, TypeOK, ReadCalls
    <3>2. ReadsOK
      BY <3>1, ReadsStayAgreed DEF ReadsOK
    <3> QED
      BY <2>1, <3>2, <1>e, <1>f, <1>g DEF Do, InitQuery, InitFound, InitMissing
  <2>2. CASE QueryCore(c)
    <3>1. \A d \in Callers : d # c => call'[d] = call[d]
      BY <2>2 DEF QueryCore, TypeOK
    <3>2. ReadAgrees(call[c])'
      <4> DEFINE found == IF call[c].isAll THEN core[call[c].kind]
                          ELSE [NoAll EXCEPT ![call[c].key] = core[call[c].kind][call[c].key]]
                 r == [call[c] EXCEPT !.pc = "fill", !.res = found]
      <4>1. CASE call'[c].pc # "fill"
        BY <4>1 DEF ReadAgrees
      <4>2. CASE call'[c] = r
        <5>1. /\ r.pc = "fill" /\ r.isAll = call[c].isAll /\ r.kind = call[c].kind
              /\ r.key = call[c].key /\ r.res = found
          BY <2>0 DEF ReadCalls
        <5>2. ~call[c].isAll => found[call[c].key] = core[call[c].kind][call[c].key]
          BY <2>0, ConstantTypes DEF ReadCalls
        <5> HIDE DEF r, found
        <5>3. call[c].isAll => found = core[call[c].kind]
          BY DEF found
        <5> QED
          BY <4>2, <5>1, <5>2, <5>3 DEF ReadAgrees
      <4>3. \/ call'[c] = [call[c] EXCEPT !.pc = "report"]
            \/ call'[c] = r
            \/ call'[c] = IdleCall
        BY <2>2 DEF QueryCore, TypeOK
      <4>4. call'[c] = r \/ call'[c].pc \in {"report", "idle"}
        BY <4>3, <2>0 DEF IdleCall, ReadCalls
      <4> QED
        BY <4>1, <4>2, <4>4
    <3>3. ReadsOK
      BY <3>1, <3>2, <1>b DEF ReadAgrees, ReadsOK
    <3> QED
      BY <2>2, <3>3, <1>e, <1>f, <1>g DEF QueryCore
  <2>3. CASE ReadReport(c)
    <3>1. ReadsOK
      BY <2>3, ReturnAgrees DEF ReadReport, ReadsOK
    <3> QED
      BY <2>3, <3>1, <1>e, <1>f, <1>g DEF ReadReport
  <2>4. CASE ReadFill(c)
    <3>1. ReadsOK
      BY <2>4, ReturnAgrees DEF ReadFill, ReadsOK
    <3>2. call[c].kind \in Kinds /\ call[c].key \in Keys
      BY <2>0 DEF ReadCalls
    <3>3. CASE call[c].isAll
      <4>1. call[c].res = core[call[c].kind]
        BY <2>0, <2>4, <3>3 DEF ReadFill, ReadAgrees
      <4>2. CacheOK
        BY <2>4, <3>2, <3>3, <4>1, <1>b DEF ReadFill, TypeOK, Agrees, CacheOK
      <4> QED
        BY <2>4, <3>1, <4>2, <1>f, <1>g DEF ReadFill
    <3>4. CASE ~call[c].isAll
      <4> DEFINE v == call[c].res[call[c].key]
      <4>1. core[call[c].kind][call[c].key] = v
        BY <2>0, <2>4, <3>4 DEF ReadFill, ReadAgrees
      <4>2. cacheItem' = [cacheItem EXCEPT ![call[c].kind][call[c].key] = v] /\ UNCHANGED cacheAll
        BY <2>4, <3>4 DEF ReadFill
      <4> HIDE DEF v
      <4>3. CacheOK
        BY <3>2, <4>1, <4>2, <1>b DEF TypeOK, Agrees, CacheOK
      <4> QED
        BY <2>4, <3>1, <4>3, <1>f, <1>g DEF ReadFill
    <3> QED
      BY <3>3, <3>4
  <2> QED
    BY <1>7, <2>1, <2>2, <2>3, <2>4 DEF ReadStep
<1>8. CASE Expire
  <2>1. CacheOK
    BY <1>8, <1>b DEF Expire, ExpireItem, ExpireAll, ExpireInitChecked, TypeOK, Agrees, CacheOK
  <2> QED
    BY <1>8, <2>1, <1>d, <1>f, <1>g DEF Expire, ExpireItem, ExpireAll, ExpireInitChecked
<1>9. CASE Close
  BY <1>9, <1>d, <1>e, <1>f, <1>g DEF Close
<1> QED
  BY <1>1, <1>2, <1>3, <1>4, <1>5, <1>6, <1>7, <1>8, <1>9 DEF Next

\* Reads, updates, refused updates and initializations that begin when everything agrees
\* leave everything in agreement as long as the database does not change; what
\* FiniteCacheConverges adds is that earlier calls end and that entries expire.
AgreementIsKept == [][Settled /\ core' = core => Settled']_vars
THEOREM CacheStaysInAgreement ==
    ASSUME CacheMode # "infinite"
    PROVE  Spec => AgreementIsKept
<1>1. TypeOK /\ StoredInv /\ [Next]_vars => [Settled /\ core' = core => Settled']_vars
  BY AgreementStep
<1> QED
  BY <1>1, StoredCorrect, TypeCorrect, PTL DEF Spec, AgreementIsKept

-----------------------------------------------------------------------------
(***************************************************************************)
(* An outage always has exactly one poller until Close.  Its inductive     *)
(* invariant adds that only Close asks a poller to stop.                   *)
(***************************************************************************)
PollInv ==
    /\ OutageIsPolled
    /\ poll.stop => closed

THEOREM OutagesArePolled == Spec => []OutageIsPolled
<1> USE DEF dbVars, contents, cacheVars, pollVars
<1>1. Init => PollInv
  BY DEF Init, PollInv, OutageIsPolled, PollerOff
<1>2. ASSUME TypeOK, PollInv, [Next]_vars
      PROVE  PollInv'
  <2>0. poll \in Pollers
    BY <1>2 DEF TypeOK
  <2>1. CASE UNCHANGED <<lastAvailable, poll, closed>>
    BY <1>2, <2>1 DEF PollInv, OutageIsPolled
  <2>2. CASE UpdateAvailability(FALSE) /\ UNCHANGED closed
    BY <1>2, <2>2 DEF PollInv, OutageIsPolled, UpdateAvailability, PollerOn, PollerOff
  <2>3. CASE Poller
    <3>1. CASE PollTick
      BY <1>2, <2>0, <3>1 DEF PollInv, OutageIsPolled, PollTick, Pollers
    <3>2. ASSUME NEW k \in Kinds, PollReadCache(k)
          PROVE  PollInv'
      BY <1>2, <2>0, <3>2 DEF PollInv, OutageIsPolled, PollReadCache, Pollers
    <3>3. CASE PollWriteCore
      BY <1>2, <2>0, <3>3 DEF PollInv, OutageIsPolled, PollWriteCore, Pollers
    <3>4. CASE PollReport
      BY <1>2, <2>0, <3>4 DEF PollInv, OutageIsPolled, PollReport, PollerOn, PollerOff, Pollers
    <3>5. CASE PollSignal
      BY <1>2, <3>5 DEF PollInv, OutageIsPolled, PollSignal, PollerOff
    <3>6. CASE PollStop
      BY <1>2, <3>6 DEF PollInv, OutageIsPolled, PollStop, PollerOff
    <3> QED
      BY <2>3, <3>1, <3>2, <3>3, <3>4, <3>5, <3>6 DEF Poller
  <2>4. CASE Close
    BY <1>2, <2>0, <2>4 DEF PollInv, OutageIsPolled, Close, Pollers
  <2>5. CASE WriterStep
    <3>1. \/ UNCHANGED <<lastAvailable, poll, closed>>
          \/ UpdateAvailability(FALSE) /\ UNCHANGED closed
      BY <2>5 DEF WriterStep, WrReport, InitFlush, InitFillAll, InitFillItem, InitNextKind,
                  InitSetInited, UpsertSetItem, UpsertReadAll, UpsertWriteAll,
                  UpsertDelItem, UpsertDelAll, UpsertReget
    <3> QED
      BY <3>1, <2>1, <2>2
  <2>6. CASE \E c \in Callers : ReadStep(c)
    <3>1. \/ UNCHANGED <<lastAvailable, poll, closed>>
          \/ UpdateAvailability(FALSE) /\ UNCHANGED closed
      BY <2>6 DEF ReadStep, Do, QueryCore, ReadReport, ReadFill, InitQuery, InitFound,
                  InitMissing
    <3> QED
      BY <3>1, <2>1, <2>2
  <2>7. CASE Environment \/ Feed \/ Expire \/ (\E c \in Callers : Query(c)) \/ UNCHANGED vars
    <3>1. UNCHANGED <<lastAvailable, poll, closed>>
      BY <2>7 DEF vars, Environment, StoreGoesDown, StoreComesBack, ExternalUpsert,
                  ExternalInit, Feed, InitBegin, UpsertBegin, Expire, ExpireItem, ExpireAll,
                  ExpireInitChecked, Query, Get, GetAll, IsInitialized
    <3> QED
      BY <3>1, <2>1
  <2> QED
    BY <1>2, <2>3, <2>4, <2>5, <2>6, <2>7 DEF Next
<1>3. PollInv => OutageIsPolled
  BY DEF PollInv
<1>4. TypeOK /\ PollInv /\ [Next]_vars => PollInv'
  BY <1>2
<1> QED
  BY <1>1, <1>3, <1>4, TypeCorrect, PTL DEF Spec

-----------------------------------------------------------------------------
(***************************************************************************)
(* An infinite cache mirrors its feed.  Nothing anywhere is newer than     *)
(* what the feed has delivered, so the database applies every Upsert it    *)
(* can be reached for, and the cache is never emptied by one.  Init brings *)
(* one kind after the other in line with the feed; an Upsert leaves only   *)
(* its own item behind until it has written it back.                       *)
(***************************************************************************)
Below(f, g) == \A i \in Keys : f[i] <= g[i]

Initing ==
    \/ wr.pc \in {"flush", "fill", "fillItems", "setInited"}
    \/ wr.pc = "report" /\ wr.ver = NotFound
Upserting ==
    \/ wr.pc \in {"setItem", "readAll", "writeAll"}
    \/ wr.pc = "report" /\ wr.ver # NotFound

MirrorsItem(k, i) ==
    cacheAll[k][i] = view[k][i] /\ (view[k][i] # NotFound => cacheItem[k][i] = view[k][i])
Mirrors(k) == cacheAll[k] # NoAll /\ \A i \in Keys : MirrorsItem(k, i)

\* Nothing is newer than the feed.
NothingNewer ==
    /\ \A k \in Kinds : /\ Below(core[k], view[k]) /\ Below(cacheAll[k], view[k])
                        /\ Below(poll.snap[k], view[k])
    /\ call[Writer].pc = "fill" /\ call[Writer].isAll =>
          Below(call[Writer].res, view[call[Writer].kind])
    /\ wr.pc = "writeAll" => Below(wr.all, view[wr.kind])

\* The data source reads only between its writes, and only what the feed does not have.
ReadsBetween ==
    /\ call[Writer].pc \notin {"initQuery", "initFound", "initMissing"}
    /\ wr.pc # "idle" => call[Writer].pc = "idle"
    /\ inited /\ call[Writer].pc # "idle" =>
          ~call[Writer].isAll /\ view[call[Writer].kind][call[Writer].key] = NotFound
    /\ inited /\ wr.pc = "idle" => \A k \in Kinds : Mirrors(k)

\* An Init in progress has filled the kinds that are not left to do.
InitMirrors ==
    /\ Initing => wr.data = view
    /\ wr.pc \in {"report", "flush"} /\ Initing => wr.todo = Kinds
    /\ wr.pc \in {"fill", "fillItems", "setInited"} =>
          \A k \in Kinds \ wr.todo : wr.pc # "fillItems" \/ k # wr.kind => Mirrors(k)
    /\ wr.pc = "fillItems" =>
          /\ cacheAll[wr.kind] = view[wr.kind]
          /\ \A i \in Keys \ wr.items : MirrorsItem(wr.kind, i)
    /\ wr.pc = "setInited" => wr.todo = {}

\* An Upsert in progress has only its own item left to do.
UpsertMirrors ==
    /\ wr.pc \notin {"delItem", "delAll", "reget"}
    /\ Upserting => wr.ver = view[wr.kind][wr.key]
    /\ Upserting /\ inited =>
          /\ \A k \in Kinds : cacheAll[k] # NoAll
          /\ \A k \in Kinds, i \in Keys : (k = wr.kind /\ i = wr.key) \/ MirrorsItem(k, i)
          /\ wr.pc \in {"readAll", "writeAll"} => cacheItem[wr.kind][wr.key] = wr.ver
          /\ wr.pc = "writeAll" => wr.all = view[wr.kind]

MirrorInv == NothingNewer /\ ReadsBetween /\ InitMirrors /\ UpsertMirrors

\* The feed is the only one to write, and the only one to read.
OnlyFeed == CacheMode = "infinite" /\ InOrder /\ ~External /\ Readers = {}

\* What is compared are numbers, and nothing is below an item that was not found.
LEMMA Numbers ==
    ASSUME TypeOK, NEW k \in Kinds, NEW i \in Keys
    PROVE  /\ core[k][i] \in Int /\ view[k][i] \in Int /\ cacheAll[k][i] \in Int
           /\ poll.snap[k][i] \in Int /\ NotFound <= view[k][i] /\ NotFound \in Int
<1>1. \A v \in Items \cup {Absent} : v \in Int
  BY VersionAssumption DEF Items, Versions, NotFound, Absent
<1>2. \A v \in Items : NotFound <= v /\ NotFound \in Int
  BY VersionAssumption DEF Items, Versions, NotFound
<1>3. core[k][i] \in Items /\ view[k][i] \in Items /\ poll.snap[k][i] \in Items
  BY DEF TypeOK, DataSets, Snapshots, Pollers
<1>4. cacheAll[k][i] \in Items \cup {Absent}
  BY DEF TypeOK, Snapshots, NoAll
<1> QED
  BY <1>1, <1>2, <1>3, <1>4

\* The empty collections are below every other.
LEMMA EmptyBelow ==
    ASSUME TypeOK, NEW k \in Kinds
    PROVE  Below(Empty, view[k]) /\ Below(NoAll, view[k]) /\ NoData[k] = Empty
<1>1. \A i \in Keys : Empty[i] <= view[k][i] /\ NoAll[i] <= view[k][i]
  <2> SUFFICES ASSUME NEW i \in Keys PROVE Empty[i] <= view[k][i] /\ NoAll[i] <= view[k][i]
    OBVIOUS
  <2>1. view[k][i] \in Int /\ NotFound <= view[k][i]
    BY Numbers
  <2> QED
    BY <2>1 DEF Empty, NoAll, NotFound, Absent
<1> QED
  BY <1>1 DEF Below, NoData

\* Steps of the database, the poller and Close
LEMMA MirrorKept ==
    ASSUME MirrorInv, UNCHANGED <<cacheItem, cacheAll, view, wr, inited, call>>,
           \A k \in Kinds : Below(core'[k], view[k]) /\ Below(poll'.snap[k], view[k])
    PROVE  MirrorInv'
<1> USE DEF MirrorInv
<1>1. NothingNewer'
  BY DEF NothingNewer
<1>2. ReadsBetween'
  BY DEF ReadsBetween, Mirrors, MirrorsItem
<1>3. InitMirrors'
  BY DEF InitMirrors, Initing, Mirrors, MirrorsItem
<1>4. UpsertMirrors'
  BY DEF UpsertMirrors, Upserting, MirrorsItem
<1> QED
  BY <1>1, <1>2, <1>3, <1>4

\* The poller writes what it has read from the cache.
LEMMA PollerMirror ==
    ASSUME TypeOK, MirrorInv, Poller
    PROVE  MirrorInv'
<1> USE DEF dbVars, contents, cacheVars
<1>0. \A k \in Kinds : Below(core[k], view[k]) /\ Below(poll.snap[k], view[k])
                       /\ Below(cacheAll[k], view[k])
  BY DEF MirrorInv, NothingNewer
<1>1. UNCHANGED <<cacheItem, cacheAll, view, wr, inited, call>>
  BY DEF Poller, PollTick, PollReadCache, PollWriteCore, PollReport, PollSignal, PollStop
<1>2. \A k \in Kinds : Below(NoData[k], view[k])
  BY EmptyBelow
<1>3. PollerOff.snap = NoData /\ PollerOn.snap = NoData
  BY DEF PollerOff, PollerOn
<1>4. poll \in Pollers
  BY DEF TypeOK
<1>5. CASE PollTick \/ PollReport \/ PollSignal \/ PollStop
  <2>1. core' = core
    BY <1>5 DEF PollTick, PollReport, PollSignal, PollStop
  <2>2. poll'.snap = poll.snap \/ poll'.snap = NoData
    BY <1>3, <1>4, <1>5 DEF PollTick, PollReport, PollSignal, PollStop, Pollers
  <2> QED
    BY <1>0, <1>1, <1>2, <2>1, <2>2, MirrorKept
<1>6. ASSUME NEW k \in Kinds, PollReadCache(k) PROVE MirrorInv'
  <2>1. core' = core
    BY <1>6 DEF PollReadCache
  <2>2. \A l \in Kinds : \/ poll'.snap[l] = poll.snap[l]
                         \/ poll'.snap[l] = Empty
                         \/ poll'.snap[l] = cacheAll[l]
    BY <1>4, <1>6 DEF PollReadCache, Pollers, DataSets
  <2>3. \A l \in Kinds : Below(Empty, view[l])
    BY EmptyBelow
  <2>4. \A l \in Kinds : Below(poll'.snap[l], view[l])
    BY <1>0, <2>2, <2>3
  <2> QED
    BY <1>0, <1>1, <2>1, <2>4, MirrorKept
<1>7. CASE PollWriteCore
  <2>1. core' = core \/ core' = poll.snap
    BY <1>7 DEF PollWriteCore, CoreInit
  <2>2. poll'.snap = poll.snap
    BY <1>4, <1>7 DEF PollWriteCore, Pollers
  <2> QED
    BY <1>0, <1>1, <2>1, <2>2, MirrorKept
<1> QED
  BY <1>5, <1>6, <1>7 DEF Poller

\* The types of the Init or Upsert in progress, and of the cache
LEMMA WriterTypes ==
    ASSUME TypeOK
    PROVE  /\ wr \in WriteCalls /\ wr.kind \in Kinds /\ wr.key \in Keys
           /\ cacheAll \in [Kinds -> [Keys -> Items \cup {Absent}]]
           /\ cacheItem \in [Kinds -> [Keys -> Items \cup {Absent}]]
           /\ \A k \in Kinds : view[k] \in Snapshots /\ view[k] # NoAll
<1>1. wr \in WriteCalls /\ wr.kind \in Kinds /\ wr.key \in Keys
  BY DEF TypeOK, WriteCalls
<1>2. cacheAll \in [Kinds -> [Keys -> Items \cup {Absent}]]
  BY DEF TypeOK, Snapshots, NoAll
<1>3. \A k \in Kinds : view[k] \in Snapshots /\ view[k] # NoAll
  BY ConstantTypes DEF TypeOK, DataSets
<1> QED
  BY <1>1, <1>2, <1>3 DEF TypeOK

\* The data source does not read while it writes.
LEMMA WriterKept ==
    ASSUME MirrorInv, wr.pc # "idle", UNCHANGED <<core, view, call>>,
           \A k \in Kinds : Below(cacheAll'[k], view[k]) /\ Below(poll'.snap[k], view[k]),
           wr'.pc = "writeAll" => Below(wr'.all, view[wr'.kind]),
           inited' /\ wr'.pc = "idle" => \A k \in Kinds : Mirrors(k)',
           InitMirrors', UpsertMirrors'
    PROVE  MirrorInv'
<1>1. call[Writer].pc = "idle"
  BY DEF MirrorInv, ReadsBetween
<1>2. NothingNewer'
  BY <1>1 DEF MirrorInv, NothingNewer
<1>3. ReadsBetween'
  BY <1>1 DEF ReadsBetween
<1> QED
  BY <1>2, <1>3 DEF MirrorInv

\* A call that failed goes on as if the database had answered.
LEMMA ReportMirror ==
    ASSUME OnlyFeed, TypeOK, MirrorInv, WrReport
    PROVE  MirrorInv'
<1> USE DEF dbVars, contents, cacheVars
<1>1. wr.pc = "report" /\ UNCHANGED <<core, view, call, cacheItem, cacheAll, inited>>
  BY DEF WrReport
<1>2. wr' = [wr EXCEPT !.pc = IF wr.ver = NotFound THEN "flush" ELSE "setItem"]
  BY DEF WrReport, AfterUpsert, OnlyFeed, hasInfiniteCache
<1>3. /\ wr'.pc = IF wr.ver = NotFound THEN "flush" ELSE "setItem"
      /\ wr'.kind = wr.kind /\ wr'.key = wr.key /\ wr'.ver = wr.ver
      /\ wr'.data = wr.data /\ wr'.todo = wr.todo
  BY <1>2, WriterTypes DEF WriteCalls
<1>4. \A k \in Kinds : Below(cacheAll[k], view[k]) /\ Below(poll.snap[k], view[k])
  BY DEF MirrorInv, NothingNewer
<1>5. \A k \in Kinds : Below(poll'.snap[k], view[k])
  <2>1. poll' = poll \/ poll' = PollerOn
    BY DEF WrReport, UpdateAvailability
  <2>2. PollerOn.snap = NoData
    BY DEF PollerOn, PollerOff
  <2> QED
    BY <1>4, <2>1, <2>2, EmptyBelow
<1>6. InitMirrors'
  BY <1>1, <1>3 DEF MirrorInv, InitMirrors, Initing
<1>7. UpsertMirrors'
  BY <1>1, <1>3 DEF MirrorInv, UpsertMirrors, Upserting, MirrorsItem
<1> QED
  BY <1>1, <1>3, <1>4, <1>5, <1>6, <1>7, WriterKept

\* Init empties the cache and begins with all kinds to do.
LEMMA FlushMirror ==
    ASSUME OnlyFeed, TypeOK, MirrorInv, InitFlush
    PROVE  MirrorInv'
<1> USE DEF dbVars, contents, pollVars
<1>1. wr.pc = "flush" /\ UNCHANGED <<core, view, call, poll, inited>>
  BY DEF InitFlush
<1>2. wr' = [wr EXCEPT !.pc = "fill"]
  BY DEF InitFlush, OnlyFeed, hasInfiniteCache, hasCache
<1>3. wr'.pc = "fill" /\ wr'.data = wr.data /\ wr'.todo = wr.todo
  BY <1>2, WriterTypes DEF WriteCalls
<1>4. \A k \in Kinds : Below(cacheAll'[k], view[k]) /\ Below(poll'.snap[k], view[k])
  BY <1>1, EmptyBelow DEF InitFlush, MirrorInv, NothingNewer
<1>5. InitMirrors'
  BY <1>1, <1>3 DEF MirrorInv, InitMirrors, Initing
<1>6. UpsertMirrors'
  BY <1>3 DEF UpsertMirrors, Upserting
<1> QED
  BY <1>1, <1>3, <1>4, <1>5, <1>6, WriterKept

\* Init caches the collection of a kind,
LEMMA FillAllMirror ==
    ASSUME OnlyFeed, TypeOK, MirrorInv, NEW k \in Kinds, InitFillAll(k)
    PROVE  MirrorInv'
<1> USE DEF dbVars, contents, pollVars
<1>1. wr.pc = "fill" /\ k \in wr.todo /\ UNCHANGED <<core, view, call, poll, inited, cacheItem>>
  BY DEF InitFillAll
<1>2. wr.data = view
  BY <1>1 DEF MirrorInv, InitMirrors, Initing
<1>3. cacheAll'[k] = view[k] /\ \A l \in Kinds : l # k => cacheAll'[l] = cacheAll[l]
  BY <1>2, WriterTypes DEF InitFillAll
<1>4. /\ wr'.pc = "fillItems" /\ wr'.kind = k /\ wr'.data = wr.data /\ wr'.todo = wr.todo \ {k}
      /\ wr'.items = {i \in Keys : view[k][i] # NotFound}
  BY <1>2, WriterTypes DEF InitFillAll, WriteCalls
<1>5. \A l \in Kinds : Below(cacheAll'[l], view[l]) /\ Below(poll'.snap[l], view[l])
  <2>1. \A l \in Kinds : Below(view[l], view[l])
    BY Numbers DEF Below
  <2> QED
    BY <1>1, <1>3, <2>1 DEF MirrorInv, NothingNewer
<1>6. InitMirrors'
  <2>1. \A l \in Kinds \ wr'.todo : l # k => Mirrors(l)'
    BY <1>1, <1>3, <1>4 DEF MirrorInv, InitMirrors, Mirrors, MirrorsItem
  <2>2. \A i \in Keys \ wr'.items : MirrorsItem(k, i)'
    BY <1>1, <1>3, <1>4 DEF MirrorsItem
  <2>3. \A i \in Keys \ wr'.items : MirrorsItem(wr.kind, i)'
    BY <1>4, <2>2 DEF MirrorsItem
  <2> QED
    BY <1>1, <1>2, <1>3, <1>4, <2>1, <2>3 DEF InitMirrors, Initing
<1>7. UpsertMirrors'
  BY <1>4 DEF UpsertMirrors, Upserting
<1> QED
  BY <1>1, <1>4, <1>5, <1>6, <1>7, WriterKept

\* and then its items one by one.
LEMMA FillItemMirror ==
    ASSUME OnlyFeed, TypeOK, MirrorInv, NEW i \in Keys, InitFillItem(i)
    PROVE  MirrorInv'
<1> USE DEF dbVars, contents, pollVars
<1>1. wr.pc = "fillItems" /\ UNCHANGED <<core, view, call, poll, inited, cacheAll>>
  BY DEF InitFillItem
<1>2. wr.data = view /\ cacheAll[wr.kind] = view[wr.kind]
  BY <1>1 DEF MirrorInv, InitMirrors, Initing
<1>3. /\ cacheItem'[wr.kind][i] = view[wr.kind][i]
      /\ \A l \in Kinds : l # wr.kind => cacheItem'[l] = cacheItem[l]
      /\ \A j \in Keys : j # i => cacheItem'[wr.kind][j] = cacheItem[wr.kind][j]
  BY <1>2, WriterTypes DEF InitFillItem
<1>4. /\ wr'.pc = "fillItems" /\ wr'.kind = wr.kind /\ wr'.data = wr.data
      /\ wr'.todo = wr.todo /\ wr'.items = wr.items \ {i}
  BY <1>1, WriterTypes DEF InitFillItem, WriteCalls
<1>5. \A l \in Kinds : Below(cacheAll'[l], view[l]) /\ Below(poll'.snap[l], view[l])
  BY <1>1 DEF MirrorInv, NothingNewer
<1>6. InitMirrors'
  <2>1. \A l \in Kinds \ wr.todo : l # wr.kind => Mirrors(l)'
    BY <1>1, <1>3 DEF MirrorInv, InitMirrors, Mirrors, MirrorsItem
  <2>2. ASSUME NEW j \in Keys \ wr'.items PROVE MirrorsItem(wr.kind, j)'
    <3>1. CASE j = i
      BY <1>1, <1>2, <1>3, <1>4, <3>1 DEF MirrorsItem
    <3>2. CASE j # i
      <4>1. MirrorsItem(wr.kind, j)
        BY <1>1, <1>4, <3>2 DEF MirrorInv, InitMirrors
      <4> QED
        BY <1>1, <1>3, <1>4, <3>2, <4>1 DEF MirrorsItem
    <3> QED
      BY <3>1, <3>2
  <2> QED
    BY <1>1, <1>2, <1>4, <2>1, <2>2 DEF InitMirrors, Initing
<1>7. UpsertMirrors'
  BY <1>4 DEF UpsertMirrors, Upserting
<1> QED
  BY <1>1, <1>4, <1>5, <1>6, <1>7, WriterKept

\* A kind whose items are all cached is done; Init ends when all kinds are.
LEMMA EndMirror ==
    ASSUME OnlyFeed, TypeOK, MirrorInv, InitNextKind \/ InitSetInited
    PROVE  MirrorInv'
<1> USE DEF dbVars, contents, pollVars, cacheVars
<1>1. UNCHANGED <<core, view, call, poll, cacheAll, cacheItem>>
  BY DEF InitNextKind, InitSetInited
<1>2. \A l \in Kinds : Below(cacheAll'[l], view[l]) /\ Below(poll'.snap[l], view[l])
  BY <1>1 DEF MirrorInv, NothingNewer
<1>3. CASE InitNextKind
  <2>1. /\ wr.pc = "fillItems" /\ wr.items = {} /\ inited' = inited
        /\ wr'.pc = IF wr.todo = {} THEN "setInited" ELSE "fill"
        /\ wr'.data = wr.data /\ wr'.todo = wr.todo
    BY <1>3, WriterTypes DEF InitNextKind, WriteCalls
  <2>2. Mirrors(wr.kind)
    BY <2>1, WriterTypes DEF MirrorInv, InitMirrors, Mirrors
  <2>3. \A l \in Kinds \ wr.todo : Mirrors(l)
    BY <2>1, <2>2 DEF MirrorInv, InitMirrors
  <2>4. InitMirrors'
    BY <1>1, <2>1, <2>3 DEF MirrorInv, InitMirrors, Initing, Mirrors, MirrorsItem
  <2>5. UpsertMirrors'
    BY <2>1 DEF UpsertMirrors, Upserting
  <2> QED
    BY <1>1, <1>2, <2>1, <2>4, <2>5, WriterKept
<1>4. CASE InitSetInited
  <2>1. wr.pc = "setInited" /\ wr' = IdleWr /\ IdleWr.pc = "idle"
    BY <1>4 DEF InitSetInited, IdleWr
  <2>2. \A l \in Kinds : Mirrors(l)
    BY <2>1 DEF MirrorInv, InitMirrors
  <2>3. \A l \in Kinds : Mirrors(l)'
    BY <1>1, <2>2 DEF Mirrors, MirrorsItem
  <2>4. InitMirrors' /\ UpsertMirrors'
    BY <2>1 DEF InitMirrors, Initing, UpsertMirrors, Upserting
  <2> QED
    BY <1>1, <1>2, <2>1, <2>3, <2>4, WriterKept
<1> QED
  BY <1>3, <1>4

\* Upsert caches the item, then reads the collection, changes it and writes it back.
LEMMA SetItemMirror ==
    ASSUME OnlyFeed, TypeOK, MirrorInv, UpsertSetItem
    PROVE  MirrorInv'
<1> USE DEF dbVars, contents, pollVars
<1>1. wr.pc = "setItem" /\ UNCHANGED <<core, view, call, poll, inited, cacheAll>>
  BY DEF UpsertSetItem
<1>2. /\ cacheItem'[wr.kind][wr.key] = wr.ver
      /\ \A k \in Kinds, i \in Keys :
            (k = wr.kind /\ i = wr.key) \/ cacheItem'[k][i] = cacheItem[k][i]
  BY WriterTypes DEF UpsertSetItem
<1>3. wr'.pc = "readAll" /\ wr'.kind = wr.kind /\ wr'.key = wr.key /\ wr'.ver = wr.ver
  BY WriterTypes DEF UpsertSetItem, OnlyFeed, hasInfiniteCache, WriteCalls
<1>4. \A k \in Kinds : Below(cacheAll'[k], view[k]) /\ Below(poll'.snap[k], view[k])
  BY <1>1 DEF MirrorInv, NothingNewer
<1>5. InitMirrors'
  BY <1>3 DEF InitMirrors, Initing
<1>6. UpsertMirrors'
  <2>1. Upserting /\ wr.ver = view[wr.kind][wr.key]
    BY <1>1 DEF MirrorInv, UpsertMirrors, Upserting
  <2>2. ASSUME inited, NEW k \in Kinds, NEW i \in Keys
        PROVE  (k = wr.kind /\ i = wr.key) \/ MirrorsItem(k, i)'
    <3>1. (k = wr.kind /\ i = wr.key) \/ MirrorsItem(k, i)
      BY <2>1, <2>2 DEF MirrorInv, UpsertMirrors
    <3> QED
      BY <1>1, <1>2, <3>1 DEF MirrorsItem
  <2>3. inited => \A k \in Kinds : cacheAll[k] # NoAll
    BY <2>1 DEF MirrorInv, UpsertMirrors
  <2> QED
    BY <1>1, <1>2, <1>3, <2>1, <2>2, <2>3 DEF UpsertMirrors
<1> QED
  BY <1>1, <1>3, <1>4, <1>5, <1>6, WriterKept

LEMMA ReadAllMirror ==
    ASSUME OnlyFeed, TypeOK, MirrorInv, UpsertReadAll
    PROVE  MirrorInv'
<1> USE DEF dbVars, contents, pollVars, cacheVars
<1>1. wr.pc = "readAll" /\ UNCHANGED <<core, view, call, poll, inited, cacheAll, cacheItem>>
  BY DEF UpsertReadAll
<1>2. Upserting /\ wr.ver = view[wr.kind][wr.key]
  BY <1>1 DEF MirrorInv, UpsertMirrors, Upserting
<1>3. \A k \in Kinds : Below(cacheAll'[k], view[k]) /\ Below(poll'.snap[k], view[k])
  BY <1>1 DEF MirrorInv, NothingNewer
<1>4. CASE wr' = IdleWr
  <2>1. cacheAll[wr.kind] = NoAll \/ wr'.pc = "writeAll"
    BY WriterTypes DEF UpsertReadAll, WriteCalls
  <2>2. IdleWr.pc = "idle"
    BY DEF IdleWr
  <2>3. ~inited
    BY <1>2, <1>4, <2>1, <2>2, WriterTypes DEF MirrorInv, UpsertMirrors
  <2>4. InitMirrors' /\ UpsertMirrors'
    BY <1>4, <2>2 DEF InitMirrors, Initing, UpsertMirrors, Upserting
  <2> QED
    BY <1>1, <1>3, <1>4, <2>2, <2>3, <2>4, WriterKept
<1>5. CASE wr' # IdleWr
  <2> DEFINE items == IF cacheAll[wr.kind] = NoAll THEN Empty ELSE cacheAll[wr.kind]
  <2>1. /\ wr'.pc = "writeAll" /\ wr'.kind = wr.kind /\ wr'.key = wr.key /\ wr'.ver = wr.ver
        /\ wr'.all = [items EXCEPT ![wr.key] = wr.ver]
    BY <1>5, WriterTypes DEF UpsertReadAll, WriteCalls, updateSingleItem
  <2>2. items \in [Keys -> Items \cup {Absent}] /\ Below(items, view[wr.kind])
    BY WriterTypes, EmptyBelow, ConstantTypes DEF MirrorInv, NothingNewer, Snapshots
  <2>3. inited => items = cacheAll[wr.kind]
    BY <1>2, WriterTypes DEF MirrorInv, UpsertMirrors
  <2> HIDE DEF items
  <2>4. \A i \in Keys : wr'.all[i] = IF i = wr.key THEN wr.ver ELSE items[i]
    BY <2>1, <2>2, WriterTypes
  <2>5. Below(wr'.all, view[wr.kind])
    <3>1. \A i \in Keys : view[wr.kind][i] <= view[wr.kind][i]
      BY Numbers, WriterTypes
    <3> QED
      BY <1>2, <2>2, <2>4, <3>1 DEF Below
  <2>6. inited => wr'.all = view[wr.kind]
    <3>1. ASSUME inited, NEW i \in Keys PROVE wr'.all[i] = view[wr.kind][i]
      BY <1>2, <2>3, <2>4, <3>1, WriterTypes DEF MirrorInv, UpsertMirrors, MirrorsItem
    <3>2. DOMAIN wr'.all = Keys /\ wr'.all = [i \in Keys |-> wr'.all[i]]
      BY <2>1, <2>2
    <3>3. view[wr.kind] = [i \in Keys |-> view[wr.kind][i]]
      BY WriterTypes DEF Snapshots
    <3> QED
      BY <3>1, <3>2, <3>3
  <2>7. InitMirrors'
    BY <2>1 DEF InitMirrors, Initing
  <2>8. UpsertMirrors'
    BY <1>1, <1>2, <2>1, <2>6 DEF MirrorInv, UpsertMirrors, MirrorsItem
  <2> QED
    BY <1>1, <1>3, <2>1, <2>5, <2>7, <2>8, WriterKept
<1> QED
  BY <1>4, <1>5

LEMMA WriteAllMirror ==
    ASSUME OnlyFeed, TypeOK, MirrorInv, UpsertWriteAll
    PROVE  MirrorInv'
<1> USE DEF dbVars, contents, pollVars
<1>1. /\ wr.pc = "writeAll" /\ wr' = IdleWr /\ IdleWr.pc = "idle"
      /\ UNCHANGED <<core, view, call, poll, inited, cacheItem>>
  BY DEF UpsertWriteAll, IdleWr
<1>2. cacheAll'[wr.kind] = wr.all /\ \A k \in Kinds : k # wr.kind => cacheAll'[k] = cacheAll[k]
  BY WriterTypes DEF UpsertWriteAll
<1>3. \A k \in Kinds : Below(cacheAll'[k], view[k]) /\ Below(poll'.snap[k], view[k])
  BY <1>1, <1>2 DEF MirrorInv, NothingNewer
<1>4. Upserting
  BY <1>1 DEF Upserting
<1>5. ASSUME inited, NEW k \in Kinds PROVE Mirrors(k)'
  <2>1. /\ wr.all = view[wr.kind] /\ wr.ver = view[wr.kind][wr.key]
        /\ cacheItem[wr.kind][wr.key] = wr.ver /\ \A l \in Kinds : cacheAll[l] # NoAll
        /\ \A l \in Kinds, i \in Keys : (l = wr.kind /\ i = wr.key) \/ MirrorsItem(l, i)
    BY <1>1, <1>4, <1>5 DEF MirrorInv, UpsertMirrors
  <2>2. cacheAll'[k] # NoAll
    BY <1>2, <2>1, WriterTypes
  <2>3. ASSUME NEW i \in Keys PROVE MirrorsItem(k, i)'
    BY <1>1, <1>2, <2>1 DEF MirrorsItem
  <2> QED
    BY <2>2, <2>3 DEF Mirrors
<1>6. InitMirrors' /\ UpsertMirrors'
  BY <1>1 DEF InitMirrors, Initing, UpsertMirrors, Upserting
<1> QED
  BY <1>1, <1>3, <1>5, <1>6, WriterKept

\* The other steps of an Upsert are for data that the database has a newer version of.
LEMMA WriterMirror ==
    ASSUME OnlyFeed, TypeOK, MirrorInv, WriterStep
    PROVE  MirrorInv'
<1>1. ~(UpsertDelItem \/ UpsertDelAll \/ UpsertReget)
  BY DEF MirrorInv, UpsertMirrors, UpsertDelItem, UpsertDelAll, UpsertReget
<1> QED
  BY <1>1, ReportMirror, FlushMirror, FillAllMirror, FillItemMirror, EndMirror, SetItemMirror,
     ReadAllMirror, WriteAllMirror DEF WriterStep

\* What is no newer than the feed stays so when the feed goes on.
LEMMA StaysBelow ==
    ASSUME TypeOK, TypeOK', NEW k \in Kinds, NEW f, \A i \in Keys : f[i] \in Int,
           Below(f, view[k]), Below(view[k], view'[k])
    PROVE  Below(f, view'[k])
<1>1. \A i \in Keys : view[k][i] \in Int
  BY Numbers
<1>2. view' \in DataSets
  BY DEF TypeOK
<1>3. \A v \in Items : v \in Int
  BY VersionAssumption DEF Items, Versions, NotFound
<1>4. \A i \in Keys : view'[k][i] \in Int
  BY <1>2, <1>3 DEF DataSets, Snapshots
<1>5. ASSUME NEW i \in Keys PROVE f[i] <= view'[k][i]
  <2>1. f[i] <= view[k][i] /\ view[k][i] <= view'[k][i] /\ f[i] \in Int
    BY DEF Below
  <2> QED
    BY <1>1, <1>4, <2>1
<1> QED
  BY <1>5 DEF Below

\* The feed delivers something newer: nothing else changes but the database.
LEMMA FeedKept ==
    ASSUME TypeOK, TypeOK', MirrorInv, WriterIdle, UNCHANGED <<cacheItem, cacheAll, poll, call>>,
           \A k \in Kinds : Below(view[k], view'[k]) /\ Below(core'[k], view'[k]),
           wr'.pc \notin {"writeAll", "idle"}, InitMirrors', UpsertMirrors'
    PROVE  MirrorInv'
<1>1. call[Writer].pc = "idle"
  BY DEF WriterIdle
<1>2. ASSUME NEW k \in Kinds PROVE Below(cacheAll[k], view'[k]) /\ Below(poll.snap[k], view'[k])
  <2>1. \A i \in Keys : cacheAll[k][i] \in Int /\ poll.snap[k][i] \in Int
    BY Numbers
  <2>2. Below(cacheAll[k], view[k]) /\ Below(poll.snap[k], view[k])
    BY DEF MirrorInv, NothingNewer
  <2> QED
    BY <2>1, <2>2, StaysBelow
<1>3. NothingNewer'
  BY <1>1, <1>2 DEF NothingNewer
<1>4. ReadsBetween'
  BY <1>1 DEF ReadsBetween
<1> QED
  BY <1>3, <1>4 DEF MirrorInv

LEMMA FeedMirror ==
    ASSUME OnlyFeed, TypeOK, TypeOK', MirrorInv, Feed
    PROVE  MirrorInv'
<1> USE DEF dbVars, contents, pollVars, cacheVars
<1>1. ASSUME NEW data \in DataSets, InitBegin(data) PROVE MirrorInv'
  <2>1. /\ WriterIdle /\ view' = data /\ UNCHANGED <<cacheItem, cacheAll, poll, call>>
        /\ \A k \in Kinds, i \in Keys : data[k][i] >= view[k][i]
    BY <1>1 DEF InitBegin, OnlyFeed
  <2>2. core' = core \/ core' = data
    BY <1>1 DEF InitBegin, CoreInit
  <2>3. \A k \in Kinds, i \in Keys : data[k][i] \in Int /\ view[k][i] \in Int
    <3>1. \A v \in Items : v \in Int
      BY VersionAssumption DEF Items, Versions, NotFound
    <3> QED
      BY <3>1 DEF TypeOK, DataSets, Snapshots
  <2>4. \A k \in Kinds : Below(view[k], view'[k]) /\ Below(data[k], data[k])
    BY <2>1, <2>3 DEF Below
  <2>5. \A k \in Kinds : Below(core'[k], view'[k])
    <3>1. CASE core' = data
      BY <2>1, <2>4, <3>1
    <3>2. CASE core' = core
      <4>1. \A k \in Kinds : Below(core[k], view[k]) /\ \A i \in Keys : core[k][i] \in Int
        BY Numbers DEF MirrorInv, NothingNewer
      <4> QED
        BY <2>4, <3>2, <4>1, StaysBelow
    <3> QED
      BY <2>2, <3>1, <3>2
  <2>6. /\ wr'.pc \in {"flush", "report"} /\ wr'.data = data /\ wr'.todo = Kinds
        /\ wr'.ver = NotFound
    BY <1>1 DEF InitBegin, IdleWr
  <2>7. InitMirrors' /\ UpsertMirrors'
    BY <2>1, <2>6 DEF InitMirrors, UpsertMirrors, Upserting
  <2> QED
    BY <2>1, <2>4, <2>5, <2>6, <2>7, FeedKept
<1>2. ASSUME NEW k \in Kinds, NEW i \in Keys, NEW v \in Versions, UpsertBegin(k, i, v)
      PROVE  MirrorInv'
  <2>1. /\ WriterIdle /\ UNCHANGED <<cacheItem, cacheAll, poll, call, inited>>
        /\ v > view[k][i] /\ view' = [view EXCEPT ![k][i] = v]
    BY <1>2 DEF UpsertBegin, OnlyFeed
  <2>2. /\ view'[k][i] = v
        /\ \A l \in Kinds, j \in Keys : (l = k /\ j = i) \/ view'[l][j] = view[l][j]
    BY <2>1 DEF TypeOK, DataSets, Snapshots
  <2>3. v \in Int /\ v # NotFound /\ \A l \in Kinds, j \in Keys : view[l][j] \in Int
    BY Numbers, VersionAssumption DEF Versions, NotFound
  <2>4. \A l \in Kinds : Below(view[l], view'[l])
    BY <2>1, <2>2, <2>3 DEF Below
  <2>5. core[k][i] \in Int /\ core[k][i] <= view[k][i] /\ core[k][i] < v
    <3>1. core[k][i] \in Int /\ core[k][i] <= view[k][i]
      BY Numbers DEF MirrorInv, NothingNewer, Below
    <3> QED
      BY <2>1, <2>3, <3>1
  <2>6. /\ core' = core \/ core' = [core EXCEPT ![k][i] = v]
        /\ wr'.pc \in {"setItem", "report"} /\ wr'.kind = k /\ wr'.key = i /\ wr'.ver = v
    <3>1. CASE up
      <4>1. v > core[k][i] /\ core' = [core EXCEPT ![k][i] = IF v > @ THEN v ELSE @]
        BY <1>2, <2>3, <2>5, <3>1 DEF UpsertBegin, CoreUpsert
      <4>2. core' = [core EXCEPT ![k][i] = v]
        BY <4>1
      <4>3. AfterUpsert(FALSE, up /\ v > core[k][i]) = "setItem"
        BY <3>1, <4>1 DEF AfterUpsert, OnlyFeed, hasCache
      <4> QED
        BY <1>2, <3>1, <4>2, <4>3 DEF UpsertBegin, IdleWr
    <3>2. CASE ~up
      BY <1>2, <3>2 DEF UpsertBegin, IdleWr
    <3> QED
      BY <3>1, <3>2
  <2>7. ASSUME NEW l \in Kinds PROVE Below(core'[l], view'[l])
    <3>1. \A j \in Keys : core'[l][j] = core[l][j] \/ (l = k /\ j = i /\ core'[l][j] = v)
      BY <2>6 DEF TypeOK, DataSets, Snapshots
    <3>2. Below(core[l], view'[l])
      <4>1. Below(core[l], view[l]) /\ \A j \in Keys : core[l][j] \in Int
        BY Numbers DEF MirrorInv, NothingNewer
      <4> QED
        BY <2>4, <4>1, StaysBelow
    <3> QED
      BY <2>2, <2>3, <3>1, <3>2 DEF Below
  <2>8. InitMirrors'
    BY <2>3, <2>6 DEF InitMirrors, Initing
  <2>9. UpsertMirrors'
    <3>1. ASSUME inited
          PROVE  /\ \A l \in Kinds : cacheAll[l] # NoAll
                 /\ \A l \in Kinds, j \in Keys : (l = k /\ j = i) \/ MirrorsItem(l, j)'
      <4>1. \A l \in Kinds : Mirrors(l)
        BY <2>1, <3>1 DEF MirrorInv, ReadsBetween, WriterIdle
      <4> QED
        BY <2>1, <2>2, <4>1 DEF Mirrors, MirrorsItem
    <3> QED
      BY <2>1, <2>2, <2>6, <3>1 DEF UpsertMirrors
  <2> QED
    BY <2>1, <2>4, <2>6, <2>7, <2>8, <2>9, FeedKept
<1> QED
  BY <1>1, <1>2 DEF Feed

\* A read by the data source, between its writes
LEMMA ReadKept ==
    ASSUME MirrorInv, wr.pc = "idle", UNCHANGED <<core, view, wr, inited>>,
           \A k \in Kinds : Below(cacheAll'[k], view[k]) /\ Below(poll'.snap[k], view[k]),
           call'[Writer].pc \notin {"initQuery", "initFound", "initMissing"},
           call'[Writer].pc = "fill" /\ call'[Writer].isAll =>
              Below(call'[Writer].res, view[call'[Writer].kind]),
           inited /\ call'[Writer].pc # "idle" =>
              ~call'[Writer].isAll /\ view[call'[Writer].kind][call'[Writer].key] = NotFound,
           inited => \A k \in Kinds : Mirrors(k) => Mirrors(k)'
    PROVE  MirrorInv'
<1>1. NothingNewer'
  BY DEF MirrorInv, NothingNewer
<1>2. ReadsBetween'
  BY DEF MirrorInv, ReadsBetween
<1>3. InitMirrors' /\ UpsertMirrors'
  BY DEF InitMirrors, Initing, UpsertMirrors, Upserting
<1> QED
  BY <1>1, <1>2, <1>3 DEF MirrorInv

\* A read begins where the cache has nothing.
LEMMA QueryMirror ==
    ASSUME OnlyFeed, TypeOK, MirrorInv, Query(Writer)
    PROVE  MirrorInv'
<1> USE DEF dbVars, contents, pollVars, cacheVars
<1>0. call[Writer] \in ReadCalls /\ Writer \in Callers /\ call \in [Callers -> ReadCalls]
  BY DEF TypeOK, Callers
<1>1. /\ wr.pc = "idle" /\ UNCHANGED <<core, view, wr, inited, cacheAll, cacheItem, poll>>
      /\ call[Writer].pc = "idle"
  BY DEF Query, Get, GetAll, IsInitialized
<1>2. \A k \in Kinds : Below(cacheAll'[k], view[k]) /\ Below(poll'.snap[k], view[k])
  BY <1>1 DEF MirrorInv, NothingNewer
<1>3. \A k \in Kinds : (Mirrors(k) => Mirrors(k)') /\ (inited => Mirrors(k))
  BY <1>1 DEF MirrorInv, ReadsBetween, Mirrors, MirrorsItem
<1>4. CASE call' = call
  BY <1>1, <1>2, <1>3, <1>4, ReadKept
<1>5. ASSUME NEW k \in Kinds, NEW i \in Keys, Get(Writer, k, i), call' # call PROVE MirrorInv'
  <2>1. /\ call'[Writer].pc = "missed" /\ ~call'[Writer].isAll
        /\ call'[Writer].kind = k /\ call'[Writer].key = i /\ cacheItem[k][i] = Absent
    BY <1>0, <1>5 DEF Get, StartRead, Request, IdleCall, OnlyFeed, hasCache
  <2>2. inited => view[k][i] = NotFound
    <3>1. view[k][i] # Absent
      BY ConstantTypes DEF TypeOK, DataSets, Snapshots
    <3> QED
      BY <1>3, <2>1, <3>1 DEF Mirrors, MirrorsItem
  <2> QED
    BY <1>1, <1>2, <1>3, <2>1, <2>2, ReadKept
<1>6. ASSUME NEW k \in Kinds, GetAll(Writer, k), call' # call PROVE MirrorInv'
  <2>1. call'[Writer].pc = "missed" /\ cacheAll[k] = NoAll
    BY <1>0, <1>6 DEF GetAll, StartRead, Request, IdleCall, OnlyFeed, hasCache
  <2>2. ~inited
    BY <1>3, <2>1 DEF Mirrors
  <2> QED
    BY <1>1, <1>2, <1>3, <2>1, <2>2, ReadKept
<1> QED
  BY <1>4, <1>5, <1>6 DEF Query, IsInitialized

\* A read finds nothing newer than the feed, and changes no item that the feed has.
LEMMA ReadStepMirror ==
    ASSUME OnlyFeed, TypeOK, MirrorInv, ReadStep(Writer)
    PROVE  MirrorInv'
<1> USE DEF dbVars, contents, pollVars, cacheVars
<1>0. /\ call[Writer] \in ReadCalls /\ Writer \in Callers /\ call \in [Callers -> ReadCalls]
      /\ call[Writer].kind \in Kinds /\ call[Writer].key \in Keys
  BY DEF TypeOK, Callers, ReadCalls
<1>1. call[Writer].pc \notin {"idle", "initQuery", "initFound", "initMissing"}
  BY DEF ReadStep, Do, QueryCore, ReadReport, ReadFill, InitQuery, InitFound, InitMissing,
         MirrorInv, ReadsBetween
<1>2. /\ wr.pc = "idle" /\ UNCHANGED <<core, view, wr, inited>>
      /\ inited => ~call[Writer].isAll /\ view[call[Writer].kind][call[Writer].key] = NotFound
  BY <1>1 DEF ReadStep, Do, QueryCore, ReadReport, ReadFill, InitQuery, InitFound, InitMissing,
              MirrorInv, ReadsBetween
<1>3. \A k \in Kinds : /\ Below(cacheAll[k], view[k]) /\ Below(poll.snap[k], view[k])
                       /\ Below(core[k], view[k])
  BY DEF MirrorInv, NothingNewer
<1>4. UNCHANGED <<cacheAll, cacheItem>> => \A k \in Kinds : Mirrors(k) => Mirrors(k)'
  BY <1>2 DEF Mirrors, MirrorsItem
<1>5. IdleCall.pc = "idle"
  BY DEF IdleCall
<1>6. CASE Do(Writer)
  <2>1. UNCHANGED <<cacheAll, cacheItem, poll>>
    BY <1>6 DEF Do
  <2>2. /\ call'[Writer].pc \in {"join", "query"} /\ call'[Writer].isAll = call[Writer].isAll
        /\ call'[Writer].kind = call[Writer].kind /\ call'[Writer].key = call[Writer].key
    BY <1>0, <1>6 DEF Do, ReadCalls
  <2> QED
    BY <1>2, <1>3, <1>4, <2>1, <2>2, ReadKept
<1>7. CASE QueryCore(Writer)
  <2>1. UNCHANGED <<cacheAll, cacheItem, poll>>
    BY <1>7 DEF QueryCore
  <2>2. \/ call'[Writer].pc = "idle"
        \/ /\ call'[Writer].pc \in {"report", "fill"} /\ call'[Writer].isAll = call[Writer].isAll
           /\ call'[Writer].kind = call[Writer].kind /\ call'[Writer].key = call[Writer].key
           /\ call'[Writer].pc = "fill" /\ call[Writer].isAll =>
                 call'[Writer].res = core[call[Writer].kind]
    BY <1>0, <1>5, <1>7 DEF QueryCore, ReadCalls
  <2> QED
    BY <1>0, <1>2, <1>3, <1>4, <2>1, <2>2, ReadKept
<1>8. CASE ReadReport(Writer)
  <2>1. UNCHANGED <<cacheAll, cacheItem>> /\ call'[Writer] = IdleCall
    BY <1>0, <1>8 DEF ReadReport, Return
  <2>2. \A k \in Kinds : Below(poll'.snap[k], view[k])
    <3>1. poll' = poll \/ poll' = PollerOn
      BY <1>8 DEF ReadReport, UpdateAvailability
    <3>2. PollerOn.snap = NoData
      BY DEF PollerOn, PollerOff
    <3> QED
      BY <1>3, <3>1, <3>2, EmptyBelow
  <2> QED
    BY <1>2, <1>3, <1>4, <1>5, <2>1, <2>2, ReadKept
<1>9. CASE ReadFill(Writer)
  <2>1. poll' = poll /\ call'[Writer] = IdleCall
    BY <1>0, <1>9 DEF ReadFill, Return
  <2>2. CASE call[Writer].isAll
    <3>1. \A k \in Kinds : cacheAll'[k] = cacheAll[k] \/
                           (k = call[Writer].kind /\ cacheAll'[k] = call[Writer].res)
      BY <1>9, <2>2, WriterTypes DEF ReadFill
    <3>2. Below(call[Writer].res, view[call[Writer].kind])
      BY <1>9, <2>2 DEF ReadFill, MirrorInv, NothingNewer
    <3>3. \A k \in Kinds : Below(cacheAll'[k], view[k])
      BY <1>3, <3>1, <3>2
    <3>4. ~inited
      BY <1>2, <2>2
    <3> QED
      BY <1>2, <1>3, <1>5, <2>1, <3>3, <3>4, ReadKept
  <2>3. CASE ~call[Writer].isAll
    <3> DEFINE v == call[Writer].res[call[Writer].key]
    <3>1. /\ cacheItem' = [cacheItem EXCEPT ![call[Writer].kind][call[Writer].key] = v]
          /\ cacheAll' = cacheAll
      BY <1>9, <2>3 DEF ReadFill
    <3> HIDE DEF v
    <3>2. \A k \in Kinds, i \in Keys :
             (k = call[Writer].kind /\ i = call[Writer].key) \/ cacheItem'[k][i] = cacheItem[k][i]
      BY <1>0, <3>1, WriterTypes
    <3>3. inited => \A k \in Kinds : Mirrors(k) => Mirrors(k)'
      BY <1>2, <3>1, <3>2 DEF Mirrors, MirrorsItem
    <3> QED
      BY <1>2, <1>3, <1>5, <2>1, <3>1, <3>3, ReadKept
  <2> QED
    BY <2>2, <2>3
<1> QED
  BY <1>1, <1>6, <1>7, <1>8, <1>9 DEF ReadStep, InitQuery, InitFound, InitMissing

\* Nobody else takes part.
LEMMA MirrorStep ==
    ASSUME OnlyFeed, TypeOK, TypeOK', MirrorInv, [Next]_vars
    PROVE  MirrorInv'
<1> USE DEF dbVars, contents, cacheVars, pollVars
<1>0. \A k \in Kinds : Below(core[k], view[k]) /\ Below(poll.snap[k], view[k])
  BY DEF MirrorInv, NothingNewer
<1>1. CASE UNCHANGED vars
  BY <1>0, <1>1, MirrorKept DEF vars
<1>2. CASE Environment
  BY <1>0, <1>2, MirrorKept DEF Environment, StoreGoesDown, StoreComesBack, ExternalUpsert,
                                ExternalInit, OnlyFeed
<1>3. CASE Close
  <2>1. poll'.snap = poll.snap
    BY <1>3 DEF Close, TypeOK, Pollers
  <2> QED
    BY <1>0, <1>3, <2>1, MirrorKept DEF Close
<1>4. CASE Expire
  BY <1>4 DEF Expire, ExpireItem, ExpireAll, ExpireInitChecked, OnlyFeed
<1>5. \A c \in Callers : c = Writer
  BY DEF Callers, OnlyFeed
<1> QED
  BY <1>1, <1>2, <1>3, <1>4, <1>5, PollerMirror, WriterMirror, FeedMirror, QueryMirror,
     ReadStepMirror DEF Next

\* With an infinite cache and a feed that delivers ever newer data, without another
\* process or a concurrent reader, the cache is what was delivered from the first Init
\* on, through any outages, failed writes and recoveries of the database.
THEOREM InfiniteCacheMirrorsFeed ==
    ASSUME OnlyFeed
    PROVE  Spec => []CacheMirrorsFeed
<1>1. ASSUME Init PROVE MirrorInv
  <2>1. TypeOK
    BY <1>1, TypeInit
  <2>2. /\ view = core /\ wr.pc = "idle" /\ call[Writer].pc = "idle" /\ ~inited
        /\ cacheAll = [k \in Kinds |-> NoAll] /\ poll.snap = NoData
    BY <1>1 DEF Init, OnlyFeed, IdleWr, IdleCall, PollerOff, Callers
  <2>3. \A k \in Kinds : Below(core[k], view[k])
    BY <2>1, <2>2, Numbers DEF Below
  <2>4. \A k \in Kinds : Below(cacheAll[k], view[k]) /\ Below(poll.snap[k], view[k])
    BY <2>1, <2>2, EmptyBelow
  <2> QED
    BY <2>2, <2>3, <2>4 DEF MirrorInv, NothingNewer, ReadsBetween, InitMirrors, Initing,
                            UpsertMirrors, Upserting
<1>2. ASSUME TypeOK, MirrorInv PROVE CacheMirrorsFeed
  <2> SUFFICES ASSUME inited, WriterIdle, NEW k \in Kinds
               PROVE  /\ cacheAll[k] = view[k]
                      /\ \A i \in Keys : view[k][i] # NotFound => cacheItem[k][i] = view[k][i]
    BY DEF CacheMirrorsFeed
  <2>1. Mirrors(k)
    BY <1>2 DEF MirrorInv, ReadsBetween, WriterIdle
  <2>2. cacheAll[k] \in [Keys -> Items \cup {Absent}] /\ view[k] \in [Keys -> Items]
    BY <1>2, WriterTypes DEF Snapshots
  <2>3. \A i \in Keys : cacheAll[k][i] = view[k][i]
    BY <2>1 DEF Mirrors, MirrorsItem
  <2>4. cacheAll[k] = view[k]
    BY <2>2, <2>3
  <2> QED
    BY <2>1, <2>4 DEF Mirrors, MirrorsItem
<1>3. TypeOK /\ TypeOK' /\ MirrorInv /\ [Next]_vars => MirrorInv'
  BY MirrorStep
<1> QED
  BY <1>1, <1>2, <1>3, TypeCorrect, PTL DEF Spec
=============================================================================
