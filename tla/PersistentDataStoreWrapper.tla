--------------------- MODULE PersistentDataStoreWrapper ---------------------
(***************************************************************************)
(* The caching wrapper that the SDK puts around every persistent data      *)
(* store (internal/datastore/persistent_data_store_wrapper.go), with the   *)
(* status poller it owns (internal/datastore/data_store_status_poller.go). *)
(*                                                                         *)
(* One goroutine, Writer, is the data source: it calls Init and Upsert.    *)
(* Readers are the goroutines that evaluate flags: they call Get, GetAll   *)
(* and IsInitialized.  The poller is a goroutine of its own.  A step is    *)
(* one access to shared state: a query of the database, a cache access, or *)
(* an update under a lock.  An item is abstracted to its version, which    *)
(* identifies its content and whether it is a tombstone (ItemSerialization *)
(* justifies that); a collection is a function from keys to versions.      *)
(***************************************************************************)
EXTENDS Integers

CONSTANTS
    Kinds,       \* data kinds (flags, segments)
    Keys,        \* item keys within a kind
    MaxVersion,  \* bound on item versions
    Readers,     \* goroutines that evaluate flags
    Writer,      \* the goroutine of the data source
    CacheMode,   \* "none" (TTL = 0), "finite" (TTL > 0), "infinite" (TTL < 0)
    External,    \* whether another process also writes to the database
    InOrder      \* whether the data source delivers ever newer data

ASSUME KindsAssumption == Kinds # {}
ASSUME KeysAssumption == Keys # {}
ASSUME VersionAssumption == MaxVersion \in Nat \ {0}
ASSUME WriterAssumption == Writer \notin Readers
ASSUME ModeAssumption == CacheMode \in {"none", "finite", "infinite"}
ASSUME FeedAssumption == External \in BOOLEAN /\ InOrder \in BOOLEAN

Callers == Readers \cup {Writer}

NotFound == -1                      \* ItemDescriptor{}.NotFound()
Absent == -2                        \* no cache entry
Versions == 1 .. MaxVersion
Items == Versions \cup {NotFound}

Snapshots == [Keys -> Items]        \* what GetAll of one kind returns
Empty == [i \in Keys |-> NotFound]
NoAll == [i \in Keys |-> Absent]    \* no "all items" cache entry
DataSets == [Kinds -> Snapshots]    \* what Init is given

hasCache == CacheMode # "none"
hasInfiniteCache == CacheMode = "infinite"

VARIABLES
    up,             \* external: does the database answer
    core,           \* external: the database's contents
    coreInited,     \* external: has the database ever been initialized
    garbled,        \* external: the items in it that the SDK cannot deserialize
    cacheItem,      \* w.cache, entries "kind:key"
    cacheAll,       \* w.cache, entries "all:kind"
    initChecked,    \* w.cache, entry "$initChecked"
    inited,         \* w.inited
    wr,             \* the Init or Upsert call of the data source
    call,           \* the Get, GetAll or IsInitialized call of each goroutine
    lastAvailable,  \* statusPoller.lastAvailable
    poll,           \* the goroutine startStatusPoller starts
    closed,         \* has Close been called
    held,           \* history, unless the cache is infinite: the snapshots the
                    \* database has held, per kind
    view            \* history, if InOrder: what data sources have delivered

contents == <<core, coreInited, garbled, held>>
dbVars == <<up, contents>>
cacheVars == <<cacheItem, cacheAll, initChecked>>
pollVars == <<lastAvailable, poll>>
vars == <<dbVars, cacheVars, inited, wr, call, pollVars, closed, view>>

AnyKind == CHOOSE k \in Kinds : TRUE
AnyKey == CHOOSE i \in Keys : TRUE
NoData == [k \in Kinds |-> Empty]
Stored(data) == {x \in Kinds \X Keys : data[x[1]][x[2]] # NotFound}

IdleWr == [pc |-> "idle", kind |-> AnyKind, key |-> AnyKey, ver |-> NotFound,
           data |-> NoData, todo |-> {}, items |-> {}, all |-> NoAll,
           err |-> FALSE, updated |-> FALSE]
IdleCall == [pc |-> "idle", isAll |-> FALSE, kind |-> AnyKind, key |-> AnyKey,
             res |-> NoAll]
PollerOff == [pc |-> "off", todo |-> {}, snap |-> NoData, err |-> FALSE,
              stop |-> FALSE]
PollerOn == [PollerOff EXCEPT !.pc = "wait"]

WrPCs == {"idle", "report", "flush", "fill", "fillItems", "setInited",
          "setItem", "readAll", "writeAll", "delItem", "delAll", "reget"}
CallPCs == {"idle", "missed", "query", "join", "report", "fill",
            "initQuery", "initFound", "initMissing"}
PollPCs == {"off", "wait", "read", "write", "report", "signal"}

WriteCalls ==
    [pc : WrPCs, kind : Kinds, key : Keys, ver : Items, data : DataSets,
     todo : SUBSET Kinds, items : SUBSET Keys, all : Snapshots \cup {NoAll},
     err : BOOLEAN, updated : BOOLEAN]
ReadCalls ==
    [pc : CallPCs, isAll : BOOLEAN, kind : Kinds, key : Keys,
     res : [Keys -> Items \cup {Absent}]]
Pollers ==
    [pc : PollPCs, todo : SUBSET Kinds, snap : DataSets, err : BOOLEAN,
     stop : BOOLEAN]

Init ==
    /\ up \in BOOLEAN
    /\ \/ core = NoData /\ coreInited = FALSE
       \/ core \in DataSets /\ coreInited = TRUE
    /\ garbled \in SUBSET (IF External THEN Stored(core) ELSE {})
    /\ held = [k \in Kinds |-> {core[k]}]
    /\ cacheItem = [k \in Kinds |-> NoAll]
    /\ cacheAll = [k \in Kinds |-> NoAll]
    /\ initChecked = FALSE
    /\ inited = FALSE
    /\ wr = IdleWr
    /\ call = [c \in Callers |-> IdleCall]
    /\ lastAvailable = TRUE
    /\ poll = PollerOff
    /\ closed = FALSE
    /\ view = IF InOrder THEN core ELSE NoData

-----------------------------------------------------------------------------
(* The database, and the other processes that use it (external). *)

\* core.Init: replaces the whole contents, regardless of versions.  What the SDK
\* itself writes it can read again; what others write may be garbled, bad.
CoreInit(data, bad) ==
    /\ core' = data
    /\ coreInited' = TRUE
    /\ garbled' = bad
    /\ held' = IF hasInfiniteCache THEN held
               ELSE [k \in Kinds |-> held[k] \cup {data[k]}]

\* core.Upsert: stores the item if its version is newer
CoreUpsert(k, i, v, bad) ==
    /\ core' = [core EXCEPT ![k][i] = IF v > @ THEN v ELSE @]
    /\ garbled' = IF v > core[k][i] THEN (garbled \ {<<k, i>>}) \cup bad ELSE garbled
    /\ held' = IF hasInfiniteCache THEN held
               ELSE [held EXCEPT ![k] = @ \cup {core'[k]}]
    /\ UNCHANGED coreInited

StoreGoesDown ==
    /\ up
    /\ up' = FALSE
    /\ UNCHANGED <<contents, cacheVars, inited, wr, call, pollVars, closed, view>>

StoreComesBack ==
    /\ ~up
    /\ up' = TRUE
    /\ UNCHANGED <<contents, cacheVars, inited, wr, call, pollVars, closed, view>>

\* Another process upserts an item, or initializes the database.
ExternalUpsert(k, i, v) ==
    /\ External /\ up
    /\ v > core[k][i]
    /\ \E bad \in SUBSET {<<k, i>>} : CoreUpsert(k, i, v, bad)
    /\ UNCHANGED <<up, cacheVars, inited, wr, call, pollVars, closed, view>>

ExternalInit(data) ==
    /\ External /\ up /\ ~coreInited
    /\ \E bad \in SUBSET Stored(data) : CoreInit(data, bad)
    /\ UNCHANGED <<up, cacheVars, inited, wr, call, pollVars, closed, view>>

-----------------------------------------------------------------------------
(* dataStoreStatusPoller *)

\* Mutant: the poller is not started.
UpdateAvailabilityNoPoller(available) ==
    /\ lastAvailable' = available
    /\ UNCHANGED poll

\* UpdateAvailability(available): a change is published, and an outage starts
\* a poller.
UpdateAvailability(available) ==
    /\ lastAvailable' = available
    /\ poll' = IF lastAvailable /\ ~available THEN PollerOn ELSE poll

\* Mutant: the poller gives up after one failed attempt.
PollTickOnce ==
    /\ poll.pc = "wait"
    /\ poll' = IF ~up THEN PollerOff
               ELSE IF hasInfiniteCache
                    THEN [poll EXCEPT !.pc = "read", !.todo = Kinds]
                    ELSE [poll EXCEPT !.pc = "signal"]
    /\ UNCHANGED <<dbVars, cacheVars, inited, wr, call, lastAvailable, closed, view>>

\* The ticker fires: pollFn asks the database.  Only an infinite cache is
\* written back to it.
PollTick ==
    /\ poll.pc = "wait"
    /\ poll' = IF ~up THEN poll
               ELSE IF hasInfiniteCache
                    THEN [poll EXCEPT !.pc = "read", !.todo = Kinds]
                    ELSE [poll EXCEPT !.pc = "signal"]
    /\ UNCHANGED <<dbVars, cacheVars, inited, wr, call, lastAvailable, closed, view>>

\* Collect the cached collections, one cache access per kind; a kind that is
\* not cached is left out of the data set.
PollReadCache(k) ==
    /\ poll.pc = "read"
    /\ k \in poll.todo
    /\ poll' = [poll EXCEPT !.todo = @ \ {k},
                            !.pc = IF poll.todo = {k} THEN "write" ELSE @,
                            !.snap[k] = IF cacheAll[k] = NoAll THEN Empty
                                                               ELSE cacheAll[k]]
    /\ UNCHANGED <<dbVars, cacheVars, inited, wr, call, lastAvailable, closed, view>>

\* initCore(allData), which may fail if the database has gone away again
PollWriteCore ==
    /\ poll.pc = "write"
    /\ IF up THEN CoreInit(poll.snap, {}) ELSE UNCHANGED contents
    /\ poll' = [poll EXCEPT !.err = ~up,
                            !.pc = IF up THEN "signal" ELSE "report"]
    /\ UNCHANGED <<up, cacheVars, inited, wr, call, lastAvailable, closed, view>>

\* initCore's processError.  The status is still "unavailable", so
\* UpdateAvailability(false) returns at once; pollFn goes on to return true.
PollReport ==
    /\ poll.pc = "report"
    /\ lastAvailable' = FALSE
    /\ poll' = IF lastAvailable THEN PollerOn ELSE [poll EXCEPT !.pc = "signal"]
    /\ UNCHANGED <<dbVars, cacheVars, inited, wr, call, closed, view>>

\* pollFn returned true: UpdateAvailability(true), and the goroutine returns.
PollSignal ==
    /\ poll.pc = "signal"
    /\ lastAvailable' = TRUE
    /\ poll' = PollerOff
    /\ UNCHANGED <<dbVars, cacheVars, inited, wr, call, closed, view>>

PollStop ==
    /\ poll.pc = "wait"
    /\ poll.stop
    /\ poll' = PollerOff
    /\ UNCHANGED <<dbVars, cacheVars, inited, wr, call, lastAvailable, closed, view>>

\* statusPoller.Close reads pollCloser without the lock that guards it, so it
\* may or may not see the channel of a poller that is running.
Close ==
    /\ ~closed
    /\ closed' = TRUE
    /\ \E seen \in BOOLEAN :
          poll' = [poll EXCEPT !.stop = poll.pc # "off" /\ seen]
    /\ UNCHANGED <<dbVars, cacheVars, inited, wr, call, lastAvailable, view>>

-----------------------------------------------------------------------------
(* The data source's goroutine: Init and Upsert.  Both query the database   *)
(* first; wr.pc is then the next thing the call does.                       *)

WriterIdle == wr.pc = "idle" /\ call[Writer].pc = "idle"

\* Init(allData), up to and including the database's answer
InitBegin(data) ==
    /\ WriterIdle
    /\ InOrder => \A k \in Kinds, i \in Keys : data[k][i] >= view[k][i]
    /\ IF up THEN CoreInit(data, {}) ELSE UNCHANGED contents
    /\ wr' = [IdleWr EXCEPT !.pc = IF up THEN "flush" ELSE "report",
                            !.data = data, !.todo = Kinds, !.err = ~up]
    /\ view' = IF InOrder THEN data ELSE view
    /\ UNCHANGED <<up, cacheVars, inited, call, pollVars, closed>>

\* Mutant: a failed update reaches an expiring cache too.
AfterUpsertNoErrorCheck(err, updated) ==
    IF ~hasCache THEN "idle"
    ELSE IF err \/ updated THEN "setItem" ELSE "delItem"

\* Where Upsert goes once it knows the database's answer
AfterUpsert(err, updated) ==
    IF err THEN IF hasInfiniteCache THEN "setItem" ELSE "idle"
    ELSE IF ~hasCache THEN "idle"
    ELSE IF updated THEN "setItem" ELSE "delItem"

\* Upsert(kind, key, item), up to and including the database's answer
UpsertBegin(k, i, v) ==
    /\ WriterIdle
    /\ InOrder => v > view[k][i]
    /\ IF up THEN CoreUpsert(k, i, v, {}) ELSE UNCHANGED contents
    /\ LET updated == up /\ v > core[k][i]
           next == IF up THEN AfterUpsert(FALSE, updated) ELSE "report"
       IN wr' = IF next = "idle" THEN IdleWr
                ELSE [IdleWr EXCEPT !.pc = next, !.kind = k, !.key = i,
                                    !.ver = v, !.err = ~up, !.updated = updated]
    /\ view' = IF InOrder THEN [view EXCEPT ![k][i] = v] ELSE view
    /\ UNCHANGED <<up, cacheVars, inited, call, pollVars, closed>>

\* processError of a failed database call.  wr.ver tells the two calls apart.
WrReport ==
    /\ wr.pc = "report"
    /\ UpdateAvailability(FALSE)
    /\ LET next == IF wr.ver = NotFound THEN "flush" ELSE AfterUpsert(TRUE, FALSE)
       IN wr' = IF next = "idle" THEN IdleWr ELSE [wr EXCEPT !.pc = next]
    /\ UNCHANGED <<dbVars, cacheVars, inited, call, closed, view>>

\* Mutant: a failed Init does not return early.
InitFlushNoReturn ==
    /\ wr.pc = "flush"
    /\ cacheItem' = [k \in Kinds |-> NoAll]
    /\ cacheAll' = [k \in Kinds |-> NoAll]
    /\ initChecked' = FALSE
    /\ wr' = [wr EXCEPT !.pc = IF hasCache THEN "fill" ELSE "setInited"]
    /\ UNCHANGED <<dbVars, inited, call, pollVars, closed, view>>

\* cache.Flush(), whether or not the database took the data.  A failed Init
\* ends here unless the cache is infinite.
InitFlush ==
    /\ wr.pc = "flush"
    /\ cacheItem' = [k \in Kinds |-> NoAll]
    /\ cacheAll' = [k \in Kinds |-> NoAll]
    /\ initChecked' = FALSE
    /\ wr' = IF wr.err /\ ~hasInfiniteCache THEN IdleWr
             ELSE [wr EXCEPT !.pc = IF hasCache THEN "fill" ELSE "setInited"]
    /\ UNCHANGED <<dbVars, inited, call, pollVars, closed, view>>

\* cacheItems(kind, items): first the collection, then its items one by one
InitFillAll(k) ==
    /\ wr.pc = "fill"
    /\ k \in wr.todo
    /\ cacheAll' = [cacheAll EXCEPT ![k] = wr.data[k]]
    /\ wr' = [wr EXCEPT !.pc = "fillItems", !.kind = k, !.todo = @ \ {k},
                        !.items = {i \in Keys : wr.data[k][i] # NotFound}]
    /\ UNCHANGED <<dbVars, cacheItem, initChecked, inited, call, pollVars, closed, view>>

InitFillItem(i) ==
    /\ wr.pc = "fillItems"
    /\ i \in wr.items
    /\ cacheItem' = [cacheItem EXCEPT ![wr.kind][i] = wr.data[wr.kind][i]]
    /\ wr' = [wr EXCEPT !.items = @ \ {i}]
    /\ UNCHANGED <<dbVars, cacheAll, initChecked, inited, call, pollVars, closed, view>>

InitNextKind ==
    /\ wr.pc = "fillItems"
    /\ wr.items = {}
    /\ wr' = [wr EXCEPT !.pc = IF wr.todo = {} THEN "setInited" ELSE "fill"]
    /\ UNCHANGED <<dbVars, cacheVars, inited, call, pollVars, closed, view>>

InitSetInited ==
    /\ wr.pc = "setInited"
    /\ inited' = TRUE
    /\ wr' = IdleWr
    /\ UNCHANGED <<dbVars, cacheVars, call, pollVars, closed, view>>

\* cache.Set(cacheKey, newItem): whatever the cache held, and after an error
\* in infinite mode without a comparison of versions
UpsertSetItem ==
    /\ wr.pc = "setItem"
    /\ cacheItem' = [cacheItem EXCEPT ![wr.kind][wr.key] = wr.ver]
    /\ wr' = [wr EXCEPT !.pc = IF hasInfiniteCache THEN "readAll" ELSE "delAll"]
    /\ UNCHANGED <<dbVars, cacheAll, initChecked, inited, call, pollVars, closed, view>>

\* updateSingleItem(items, key, newItem)
updateSingleItem(items, i, v) == [items EXCEPT ![i] = v]

\* Mutant: after an error the collection is left alone.
UpsertReadAllNotOnError ==
    /\ wr.pc = "readAll"
    /\ LET cached == cacheAll[wr.kind]
       IN wr' = IF cached = NoAll \/ wr.err THEN IdleWr
                ELSE [wr EXCEPT !.pc = "writeAll",
                                !.all = updateSingleItem(cached, wr.key, wr.ver)]
    /\ UNCHANGED <<dbVars, cacheVars, inited, call, pollVars, closed, view>>

\* Infinite cache: the collection is read, changed and written back.  After a
\* successful update an uncached collection stays uncached; after an error it
\* starts from an empty one.
UpsertReadAll ==
    /\ wr.pc = "readAll"
    /\ LET cached == cacheAll[wr.kind]
           items == IF cached = NoAll THEN Empty ELSE cached
       IN wr' = IF cached = NoAll /\ ~wr.err THEN IdleWr
                ELSE [wr EXCEPT !.pc = "writeAll",
                                !.all = updateSingleItem(items, wr.key, wr.ver)]
    /\ UNCHANGED <<dbVars, cacheVars, inited, call, pollVars, closed, view>>

UpsertWriteAll ==
    /\ wr.pc = "writeAll"
    /\ cacheAll' = [cacheAll EXCEPT ![wr.kind] = wr.all]
    /\ wr' = IdleWr
    /\ UNCHANGED <<dbVars, cacheItem, initChecked, inited, call, pollVars, closed, view>>

\* The database kept a newer item: drop both entries and read the item again.
UpsertDelItem ==
    /\ wr.pc = "delItem"
    /\ cacheItem' = [cacheItem EXCEPT ![wr.kind][wr.key] = Absent]
    /\ wr' = [wr EXCEPT !.pc = "delAll"]
    /\ UNCHANGED <<dbVars, cacheAll, initChecked, inited, call, pollVars, closed, view>>

UpsertDelAll ==
    /\ wr.pc = "delAll"
    /\ cacheAll' = [cacheAll EXCEPT ![wr.kind] = NoAll]
    /\ wr' = IF wr.updated THEN IdleWr ELSE [wr EXCEPT !.pc = "reget"]
    /\ UNCHANGED <<dbVars, cacheItem, initChecked, inited, call, pollVars, closed, view>>

-----------------------------------------------------------------------------
(* Get and GetAll, by any goroutine. *)

Request(isAll, k, i) == [IdleCall EXCEPT !.isAll = isAll, !.kind = k, !.key = i]

\* w.requests.Do uses the keys "get:kind:key" and "all:kind".
SameRequest(c, d) ==
    /\ call[c].isAll = call[d].isAll
    /\ call[c].kind = call[d].kind
    /\ call[c].isAll \/ call[c].key = call[d].key

\* Goroutines running the function given to requests.Do
Leaders == {c \in Callers : hasCache /\ call[c].pc \in {"query", "report", "fill"}}
Joined(c) == {d \in Callers : call[d].pc = "join" /\ SameRequest(c, d)}

\* The cache is consulted first.  A hit ends the call.
StartRead(c, isAll, k, i) ==
    LET hit == IF isAll THEN cacheAll[k] # NoAll ELSE cacheItem[k][i] # Absent
    IN call' = IF hit THEN call
               ELSE [call EXCEPT ![c] = [Request(isAll, k, i) EXCEPT
                        !.pc = IF hasCache THEN "missed" ELSE "query"]]

Get(c, k, i) ==
    /\ call[c].pc = "idle"
    /\ c = Writer => wr.pc = "idle"
    /\ StartRead(c, FALSE, k, i)
    /\ UNCHANGED <<dbVars, cacheVars, inited, wr, pollVars, closed, view>>

GetAll(c, k) ==
    /\ call[c].pc = "idle"
    /\ c = Writer => wr.pc = "idle"
    /\ StartRead(c, TRUE, k, AnyKey)
    /\ UNCHANGED <<dbVars, cacheVars, inited, wr, pollVars, closed, view>>

\* The w.Get at the end of an Upsert that the database did not apply
UpsertReget ==
    /\ wr.pc = "reget"
    /\ wr' = IdleWr
    /\ StartRead(Writer, FALSE, wr.kind, wr.key)
    /\ UNCHANGED <<dbVars, cacheVars, inited, pollVars, closed, view>>

\* requests.Do: run the query, or wait for the goroutine that is running it
Do(c) ==
    /\ call[c].pc = "missed"
    /\ call' = [call EXCEPT ![c].pc =
                   IF \E d \in Leaders : SameRequest(c, d) THEN "join" ELSE "query"]
    /\ UNCHANGED <<dbVars, cacheVars, inited, wr, pollVars, closed, view>>

\* getAndDeserializeItem or getAllAndDeserialize: an item that cannot be
\* deserialized is an error like that of a database which does not answer.
QueryCore(c) ==
    /\ call[c].pc = "query"
    /\ LET r == call[c]
           found == IF r.isAll THEN core[r.kind]
                    ELSE [NoAll EXCEPT ![r.key] = core[r.kind][r.key]]
           unreadable == \E i \in Keys : <<r.kind, i>> \in garbled /\ (r.isAll \/ i = r.key)
       IN call' = [call EXCEPT ![c] =
             IF ~up \/ unreadable THEN [r EXCEPT !.pc = "report"]
             ELSE IF hasCache THEN [r EXCEPT !.pc = "fill", !.res = found]
             ELSE IdleCall]
    /\ UNCHANGED <<dbVars, cacheVars, inited, wr, pollVars, closed, view>>

\* The leader returns, and with it everyone who waited for it.
Return(c) == [d \in Callers |-> IF d = c \/ d \in Joined(c) THEN IdleCall ELSE call[d]]

\* processError of a failed query; nothing is cached
ReadReport(c) ==
    /\ call[c].pc = "report"
    /\ UpdateAvailability(FALSE)
    /\ call' = Return(c)
    /\ UNCHANGED <<dbVars, cacheVars, inited, wr, closed, view>>

\* cache.Set with the query's result, a "not found" result included
ReadFill(c) ==
    /\ call[c].pc = "fill"
    /\ LET r == call[c]
       IN IF r.isAll
          THEN /\ cacheAll' = [cacheAll EXCEPT ![r.kind] = r.res]
               /\ UNCHANGED cacheItem
          ELSE /\ cacheItem' = [cacheItem EXCEPT ![r.kind][r.key] = r.res[r.key]]
               /\ UNCHANGED cacheAll
    /\ call' = Return(c)
    /\ UNCHANGED <<dbVars, initChecked, inited, wr, pollVars, closed, view>>

-----------------------------------------------------------------------------
(* IsInitialized *)

\* A known answer, or a recent negative one, ends the call.
IsInitialized(c) ==
    /\ call[c].pc = "idle"
    /\ c # Writer
    /\ ~inited
    /\ ~initChecked
    /\ call' = [call EXCEPT ![c].pc = "initQuery"]
    /\ UNCHANGED <<dbVars, cacheVars, inited, wr, pollVars, closed, view>>

\* core.IsInitialized() answers false when the database does not answer.
InitQuery(c) ==
    /\ call[c].pc = "initQuery"
    /\ call' = [call EXCEPT ![c].pc = IF up /\ coreInited THEN "initFound"
                                                          ELSE "initMissing"]
    /\ UNCHANGED <<dbVars, cacheVars, inited, wr, pollVars, closed, view>>

InitFound(c) ==
    /\ call[c].pc = "initFound"
    /\ inited' = TRUE
    /\ initChecked' = FALSE
    /\ call' = [call EXCEPT ![c] = IdleCall]
    /\ UNCHANGED <<dbVars, cacheItem, cacheAll, wr, pollVars, closed, view>>

InitMissing(c) ==
    /\ call[c].pc = "initMissing"
    /\ initChecked' = hasCache
    /\ call' = [call EXCEPT ![c] = IdleCall]
    /\ UNCHANGED <<dbVars, cacheItem, cacheAll, inited, wr, pollVars, closed, view>>

-----------------------------------------------------------------------------
(* go-cache drops entries of a finite cache after their TTL (external). *)

\* Mutant: a cached "not found" has no expiration.
ExpireItemFoundOnly(k, i) ==
    /\ CacheMode = "finite"
    /\ cacheItem[k][i] \notin {Absent, NotFound}
    /\ cacheItem' = [cacheItem EXCEPT ![k][i] = Absent]
    /\ UNCHANGED <<dbVars, cacheAll, initChecked, inited, wr, call, pollVars, closed, view>>

ExpireItem(k, i) ==
    /\ CacheMode = "finite"
    /\ cacheItem[k][i] # Absent
    /\ cacheItem' = [cacheItem EXCEPT ![k][i] = Absent]
    /\ UNCHANGED <<dbVars, cacheAll, initChecked, inited, wr, call, pollVars, closed, view>>

ExpireAll(k) ==
    /\ CacheMode = "finite"
    /\ cacheAll[k] # NoAll
    /\ cacheAll' = [cacheAll EXCEPT ![k] = NoAll]
    /\ UNCHANGED <<dbVars, cacheItem, initChecked, inited, wr, call, pollVars, closed, view>>

ExpireInitChecked ==
    /\ CacheMode = "finite"
    /\ initChecked
    /\ initChecked' = FALSE
    /\ UNCHANGED <<dbVars, cacheItem, cacheAll, inited, wr, call, pollVars, closed, view>>

-----------------------------------------------------------------------------
Environment ==
    \/ StoreGoesDown
    \/ StoreComesBack
    \/ \E k \in Kinds, i \in Keys, v \in Versions : ExternalUpsert(k, i, v)
    \/ \E data \in DataSets : ExternalInit(data)

Poller ==
    \/ PollTick
    \/ \E k \in Kinds : PollReadCache(k)
    \/ PollWriteCore
    \/ PollReport
    \/ PollSignal
    \/ PollStop

\* The next step of the Init or Upsert call in progress
WriterStep ==
    \/ WrReport
    \/ InitFlush
    \/ \E k \in Kinds : InitFillAll(k)
    \/ \E i \in Keys : InitFillItem(i)
    \/ InitNextKind
    \/ InitSetInited
    \/ UpsertSetItem
    \/ UpsertReadAll
    \/ UpsertWriteAll
    \/ UpsertDelItem
    \/ UpsertDelAll
    \/ UpsertReget

\* The data source receives something.
Feed ==
    \/ \E data \in DataSets : InitBegin(data)
    \/ \E k \in Kinds, i \in Keys, v \in Versions : UpsertBegin(k, i, v)

\* A goroutine begins to read.
Query(c) ==
    \/ \E k \in Kinds, i \in Keys : Get(c, k, i)
    \/ \E k \in Kinds : GetAll(c, k)
    \/ IsInitialized(c)

\* The next step of the read in progress
ReadStep(c) ==
    \/ Do(c)
    \/ QueryCore(c)
    \/ ReadReport(c)
    \/ ReadFill(c)
    \/ InitQuery(c)
    \/ InitFound(c)
    \/ InitMissing(c)

Expire ==
    \/ \E k \in Kinds, i \in Keys : ExpireItem(k, i)
    \/ \E k \in Kinds : ExpireAll(k)
    \/ ExpireInitChecked

Next ==
    \/ Environment
    \/ Poller
    \/ WriterStep
    \/ Feed
    \/ \E c \in Callers : Query(c)
    \/ \E c \in Callers : ReadStep(c)
    \/ Expire
    \/ Close

Spec == Init /\ [][Next]_vars

\* A goroutine that is not blocked keeps running, the ticker keeps firing and
\* a finite TTL runs out.  Nothing forces the application to evaluate flags,
\* the data source to deliver anything or the database to come back.
Fairness ==
    /\ WF_vars(Poller)
    /\ WF_vars(WriterStep)
    /\ \A c \in Callers : WF_vars(ReadStep(c))
    /\ \A k \in Kinds, i \in Keys : WF_vars(ExpireItem(k, i))
    /\ \A k \in Kinds : WF_vars(ExpireAll(k))

FairSpec == Spec /\ Fairness

-----------------------------------------------------------------------------
(* Properties *)

\* What a read is about to cache is complete.
FillComplete(r) ==
    r.pc = "fill" => IF r.isAll THEN r.res \in Snapshots
                                ELSE r.res[r.key] \in Items

\* Every variable has its type: a cache entry holds an item or nothing, and a
\* cached collection, or one about to be cached, is complete.
TypeOK ==
    /\ up \in BOOLEAN /\ coreInited \in BOOLEAN /\ inited \in BOOLEAN
    /\ initChecked \in BOOLEAN /\ lastAvailable \in BOOLEAN /\ closed \in BOOLEAN
    /\ core \in DataSets /\ garbled \in SUBSET (Kinds \X Keys)
    /\ view \in DataSets
    /\ held \in [Kinds -> SUBSET Snapshots]
    /\ cacheItem \in [Kinds -> [Keys -> Items \cup {Absent}]]
    /\ cacheAll \in [Kinds -> Snapshots \cup {NoAll}]
    /\ wr \in WriteCalls
    /\ call \in [Callers -> ReadCalls]
    /\ poll \in Pollers
    /\ \A c \in Callers : FillComplete(call[c])

\* With an expiring cache the SDK never shows data that the database did not
\* hold: every cached item, and every cached collection as a whole, is one
\* the database contained at some moment.  (Init and Upsert: "better to stay
\* in a consistent state of having old data than to act like we have new
\* data, but then suddenly fall back to old data when the cache expires".)
CacheHoldsOnlyStoredData ==
    \A k \in Kinds :
        /\ cacheAll[k] # NoAll => cacheAll[k] \in held[k]
        /\ \A i \in Keys : cacheItem[k][i] # Absent =>
               \E s \in held[k] : s[i] = cacheItem[k][i]

\* Without an infinite cache the wrapper only reports that it is initialized
\* when the database really is: a failed Init must not set w.inited.
InitedOnlyAfterStored == inited => coreInited

\* An outage that was reported has a poller looking for its end until Close,
\* and no poller runs while the store counts as available.
OutageIsPolled ==
    /\ ~lastAvailable /\ ~closed => poll.pc # "off"
    /\ poll.pc # "off" => ~lastAvailable

\* If the database comes back for good and the wrapper is not closed, the
\* store is reported available again and again, however many items cannot be
\* deserialized (each of which counts as an outage), and for good if in the end
\* all of them can.
RecoveryIsReported ==
    <>[](up /\ ~closed) =>
        /\ []<>lastAvailable
        /\ <>[](garbled = {}) => <>[]lastAvailable

\* Once the database stops changing, an expiring cache ends up agreeing with
\* it for good, whatever reads were in flight.
Agrees ==
    \A k \in Kinds :
        /\ cacheAll[k] # NoAll => cacheAll[k] = core[k]
        /\ \A i \in Keys : cacheItem[k][i] # Absent => cacheItem[k][i] = core[k][i]

FiniteCacheConverges == <>[][core' = core]_core => <>[]Agrees

\* With an infinite cache, a feed that delivers ever newer data, no other
\* process and no concurrent reader, the cache holds what was delivered,
\* outage or not, from the first Init on and between any two calls: the whole
\* collection, and every item that is part of it.
CacheMirrorsFeed ==
    inited /\ WriterIdle =>
        \A k \in Kinds :
            /\ cacheAll[k] = view[k]
            /\ \A i \in Keys :
                  view[k][i] # NotFound => cacheItem[k][i] = view[k][i]

-----------------------------------------------------------------------------
(* What comments and documentation say, and the code does not do. *)

\* pollAvailabilityAfterOutage: when the write of the cached data fails,
\* "w.initCore() has already put us back into the failed state".
FailedRecoveryStaysFailed ==
    [][~lastAvailable /\ lastAvailable' => ~poll.err]_vars

=============================================================================
