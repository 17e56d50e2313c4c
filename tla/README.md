# TLA+ models of the LaunchDarkly Go server SDK

This directory holds TLA+ specifications of the parts of the SDK that run
concurrently, fail and recover; the TLC configurations that check them; and
TLAPS proofs of the results that matter most.  Source paths are relative to
`src/`.

Contents: 1 the system (inventory), 2 the modules, 3 the runs and their bounds,
4 fairness, 5 the proofs, 6 what is only model-checked, 7 where the code and its
documentation disagree, 8 what is not modelled, 9 the plan.

## 1. The system

The SDK keeps a copy of an environment's feature flags and segments in a *data
store*, keeps that copy current with a *data source*, evaluates flags against it,
and tells the application about changes through *broadcasters*.  Data flows

    LaunchDarkly -> data source -> DataSourceUpdateSink -> data store -> evaluation
                                        |                    |
                                        v                    v
                          status, flag change events    store status
                                (broadcasters)          (broadcaster) -> data source

| Component | State it keeps | Operations | What is hard | What makes it correct |
|---|---|---|---|---|
| Persistent store wrapper (`internal/datastore/persistent_data_store_wrapper.go`) | cache (per item, per collection, "not initialized"), `inited`, requests in flight | Init, Upsert, Get, GetAll, IsInitialized, Close | readers fill the cache while the data source changes it; the database fails between any two steps | nothing is served that was never stored; the cache converges |
| Status poller (`data_store_status_poller.go`) | `lastAvailable`, the polling goroutine | UpdateAvailability, poll, Close | starts and ends on other goroutines' errors | an outage is polled until it ends |
| Update sink: data (`internal/datasource/data_source_update_sink_impl.go`, `data_model_dependencies.go`) | dependency graph in both directions, `lastStoreUpdateFailed` | Init, Upsert | long sequences of updates; cycles; refused updates | exactly the affected flags get an event |
| Update sink: status (same file) | current status, outage tracker and its timer | UpdateStatus, waitFor, awaitTimeout | several goroutines report; the broadcast is outside the lock | nothing is missed, nothing invented |
| Streaming data source (`streaming_data_source.go`) | stream, `isInitialized`, readiness, store status channel | Start, event handlers, errorHandler, Close | reconnections, broken events, refused updates, store outages, Close at any time | lost updates are fetched again; the store never goes back |
| Polling data source (`polling_data_source.go`) | ticker, readiness | Start, poll, Close | HTTP cache against refused updates | as above |
| Broadcasters (`internal/broadcasters.go`) | subscriber list under an RWMutex, bounded channels | AddListener, RemoveListener, HasListeners, Broadcast, Close | a send blocks with the lock held | no panic, no lost value, no deadlock |
| FDv1 data system (`internal/datasystem/fdv1_datasystem.go`, `internal/datastore/in_memory_data_store_impl.go`) | the parts above | Start, Stop, DataAvailability | construction that fails half way, the order of Stop | a closed client leaves nobody waiting |
| FDv2 store and sources (`internal/datasystem/store.go`, `internal/memorystorev2`, `internal/datasourcev2`, `internal/fdv2proto`, `internal/toposort`) | active store, selector, pending changeset | SetBasis, ApplyDelta, Commit, consumeStream, poll | a changeset cut off in the middle; two stores to keep in step | readers see whole payloads, in order |
| Client (`ldclient.go`, `ldclient_events.go`) | data system, event processor, hooks | MakeCustomClient, Close, the Variation methods, AllFlagsState, Identify, Track | start timeout against readiness; evaluation while the data source becomes ready; Close at any time | answers come from the data; events tell what was answered |
| Hooks (`internal/hooks`) | series data per hook | BeforeEvaluation, AfterEvaluation | hooks that fail | they nest, each with its own data |
| Migrations (`migrator.go`, `migration_op_tracker.go`) | the tracker | Read, Write, Build | one of two operations fails; concurrent reads | the authoritative origin decides, the event tells what was done |
| Big segments (`subsystems/ldstoreimpl/big_segment_store_wrapper.go`) | membership cache, shared query, polling task, status | GetMembership, GetStatus, SetPollingActive, ClearCache, Close | polling, queries, expiry and clearing at once | the status reflects the store; a cleared cache is not filled with old data |
| Flag tracker (`internal/flag_tracker_impl.go`) | value listeners | add, remove | evaluation against change events | every change of value is reported |
| File data source (`ldfiledata`, `ldfilewatch`) | the files' items, watches | Start, reload, watch, Close | files that change while they are read or watched | the client ends up with the files |
| Test data source (`testhelpers/ldtestdata`) | current flags and builders, the client's instance | Update, Flag, Build, Start, Close; the flag builder | updates that leave the lock before they reach the client | the client ends up with the latest data |
| Serialization, flag state snapshots, configuration builders, test service | see `PROJECT.json` | | | |

`PROJECT.json` lists all of them with their status, and every hazard found while
reading at the line where it bites.

## 2. The modules

A step is one access to state that another goroutine can see: a database query, a
cache access, a critical section, a send.  Definitions keep the names of the code
where they model one function; `map` in `PROJECT.json` gives their lines.
Operators whose comment begins with "Mutant:" are the faulty variants that show that
each property depends on the code; they are used by nothing else.

**PersistentDataStoreWrapper** - wrapper, poller, cache (go-cache), request merging
(singleflight) and the database.
*State*: `core`, `coreInited`, `up` (database), `garbled` (its items that the SDK cannot
deserialize: other processes store them, and every query that meets one fails); `cacheItem`,
`cacheAll`, `initChecked` (the three kinds of entry of `w.cache`); `inited`; `wr` (the Init
or Upsert of the data source and how far it is); `call` (the read of each goroutine);
`lastAvailable`, `poll` (the status poller).
*Actions*: `InitBegin` to `InitSetInited` are the statements of Init, `UpsertBegin` to
`UpsertReget` those of Upsert, `Get`/`GetAll`, `Do`, `QueryCore`, `ReadFill`,
`ReadReport` a read, `IsInitialized` to `InitMissing` the initialization check, `Poll...`
the poller and the write-back of an infinite cache, `Expire...` the cache's TTL,
`External...` other processes that use the database.
*Abstraction*: an item is its version; a collection is a function from keys to versions.

**FlagChangeEvents** - Init and Upsert of the update sink, the dependency tracker and the
computation of change events.  An item is a version and the items it refers to.  Loops
over Go maps are one action per iteration, in any order.  `InitRefused`, `UpsertRefused`
are the error paths (`maybeUpdateError`); with an infinite cache (`KeepsRefused`) the
store serves the refused data, which the history variable `behind` records.

**StreamProcessor** - the streaming data source, between the service (which sends everything
on each connection and changes afterwards), the eventsource library, the store (without
monitoring, with a finite, with an infinite cache: `storeType` is chosen at the start) and
an application that may call Close.  `pc` is the position in `consumeStream`; `Put`,
`Patch`, `Malformed`, `Ignored`, `StoreStatus`, `Halt`, `EventsClosed` are the branches of
its select.  Parsing is reduced to well formed, malformed and unknown events; "delete" is a
patch with a tombstone. The store is `database`, and for an infinite cache its entries per
item and per collection (`items`, `cachedAll`), which lead the database from an outage until
the status poller has written the collection back: `PollTick` finds the database working and
takes the `snapshot`, `PollWrite` writes it, `PollSignal` reports it.  Upsert compares a
patch with the database only (`UpsertTaken`, `UpsertRefused`, `UpsertFails`).  `ReadItem`
and `ReadAll` are readers that fill the cache.  `store` is what evaluations read.  A call of
the store is one step, which the wrapper's module splits up.

**Broadcaster** - the subscriber list, its RWMutex (a waiting writer keeps new readers
out, as in Go) and the bounded channels, for any number of publishers and listeners.

**DataSourceStatus** - UpdateStatus, maybeUpdateStatus, waitFor, the outage tracker with its
timers, and FDv1.Stop with a streaming data source.  The lock's two halves are separate: the
change (`UpdateStatus`) and its broadcast (`Broadcast`).  Without an `OutageLoggingTimeout`
no outage is tracked.  Channels have room here; Broadcaster covers what happens when they do
not.

**TopoSort**, **FDv2Store**, **FDv2Sources** - the FDv2 data system, one module extending
the other.  TopoSort is `Sort` with its depth-first visit as an explicit stack (`Visit`,
`AppendItem`), from a start that Go's map iteration picks.  FDv2Store has the memory store
(`memory`, `initialized`), which SetBasis and ApplyDelta change in one critical section, the
persistent store (`db`), which is then written item by item in the sorted order and may
refuse any of the writes, and Commit.  A descriptor's item is an object, nothing, or another
descriptor, which is what the polling source stores: `Readable` is what readers accept,
`Serialized` what a data kind makes of a descriptor for the persistent store, `Held` the
versions that are there, readable or not.  FDv2Sources adds the service, the streaming source
(`ServerIntent`, `Object`, `Transferred`, `ErrorEvent`, `Malformed` and `OtherEvent` are the
branches for its events; `pending` is the changeset that is collected) and the polling source with
its HTTP cache.  That an intent opens every transfer is assumed of the service; that it starts
over after an error event is not: it may go on with the transfer, whose end finds no intent
and ends the process (`pc` is "panic").
**PayloadStore** is the abstract specification: one sees nothing or exactly one payload of the
service, and never an older one than before.  FDv2Sources implements it in two ways, with
`history` what the service has published.  In `SeesWholePayloads`, `seen` is what readers can
use of streamed data once the memory store serves it.  In `HoldsWholePayloads` it is the
versions that the memory store has of polled data, of which readers can use nothing (7).

**PollingSource**, **Evaluation**, **Migrator**, **Client** - a client with the FDv1 data
system and its polling source (or none, when it is offline), again one module extending the
other. PollingSource has the poller's goroutine, the HTTP cache, the in-memory store and
DataAvailability.  Evaluation is one call of the application: `BeforeEvaluation` and
`AfterEvaluation` of the hooks, the two checks of the availability (`CheckRefreshed`,
`CheckCached`), the read of the store, the type check, the stage of a migration, the event.
Migrator executes the old and the new origin in the order the stage asks for, with the
tracker.  Client builds the parts one by one (any of them may fail), starts, waits or not,
makes calls and closes.
*Abstraction*: data is a version and the content of one flag in each version (missing, a
word, a boolean, a stage, with a prerequisite or not).

**BigSegmentStoreWrapper** - callers, the shared query, the cache, the polling task and the
status.  `lastStatus` is what the wrapper keeps, `told` the last call of statusUpdateFn,
which is made outside the lock.  A membership is the version of the store it is from.

**FlagTracker**, **FileDataSource**, **FlagBuilder**, **TestDataSource**, **LocalClient** - a client
whose data is local.  FlagTracker has the store, a sink that several goroutines write
through (`CallInit` and `CallUpsert`, then `ReadOld`, `StoreInit` or `StoreUpsert`,
`HasListeners`, `Broadcast`, `Send`), the
listener's channel and its goroutine.  `told` is the value when the listener was added, then
the last one that the application has read; `early` says that the value had changed by the
goroutine's first evaluation, which the application is not told.  `FlagChanged` receives an
event and evaluates the flag in one step: nothing else reads what the goroutine has received.
FileDataSource is Start, reload, merge and the loop of
the watcher with its retries; TestDataSource the lock, the data of the test and the updates
that leave the lock before they reach the sink; FlagBuilder the methods of a flag builder as
operators on a record.  LocalClient composes them: either files, or a test, or (by itself,
because it is sequential) a long sequence of builder calls.

`MC<Module>` instantiates a module for TLC and `<Module>_proof` holds its proofs.
`DataSourceUpdateSink_proof` is about both halves of the update sink, FlagChangeEvents and
DataSourceStatus, which is why the initial condition, next-state relation and type invariant
of the latter have names of their own (`StatusInit`, `StatusNext`, `StatusTypeOK`).

The modules share the following interfaces, each modelled from both sides: the store's
answer to Init and Upsert (wrapper; environment of FlagChangeEvents and StreamProcessor),
the store status (`UpdateAvailability` in the wrapper; a channel in StreamProcessor), and
the data source status (StreamProcessor's `UpdateStatus`; DataSourceStatus).  Where a
composition matters to a property the modules are composed: source and store (FDv2Sources),
source, store, evaluation and client (Client), source, sink, broadcaster and listener
(LocalClient).

## 3. The runs

The wrapper's runs and that of FlagChangeEvents check for deadlock; the other programs
really end (closed stream or client, no more values, updates or calls).  Type invariants are
not part of the runs: they are proved (5), as `TypeOK` or as the first part of the inductive
invariant (FDv2Sources, Client, BigSegmentStoreWrapper, LocalClient).

| Run | What it asks | Bounds and why they are enough |
|---|---|---|
| `wrapper_finite` | Is only stored data cached (`CacheHoldsOnlyStoredData`, `InitedOnlyAfterStored`)?  Is every outage polled (`OutageIsPolled`) and its end reported (`RecoveryIsReported`)?  Does the cache end up agreeing with the database (`FiniteCacheConverges`)? | one kind, key and version: a value is there or not, and Init can take it away again, so old and new contents differ; one reader, the data source's own reads, the poller and another process are the four parties that race; the other process may store what the SDK cannot deserialize, so that an outage is reported again and again with the database up |
| `wrapper_infinite` | Does an infinite cache hold exactly what the data source delivered, through outages, failed write-backs and recoveries (`CacheMirrorsFeed`)? | two kinds, so that the write-back can be interrupted between them, and two versions; a feed of ever newer data and no concurrent reader, which are the conditions under which the property holds (see 7) |
| `flag_change_events` | Does the dependency graph follow the store (`GraphMatchesStore`)?  Do exactly the flags whose configuration changed, directly or not, get an event (`EventsAreExact`)?  Does the search end (`OperationEnds`)? | two flags that may refer to each other and a segment: chains, cycles, and an indirect dependency of length two; two versions, so that references come and go; old data that cannot be read; an infinite cache |
| `stream` | Is every lost update fetched again (`LostUpdatesAreRefetched`)?  Does the store go back only in the named cases of an infinite cache (`StoreNeverGoesBack`)?  Does the SDK end up with the service's data and say so (`Converges`)?  Does Close end the stream (`CloseEndsStream`)? | all three kinds of store; one item with three versions; two faults of any kind (connection, malformed, unknown or repeated event, database), since scenarios of the code's header comment combine at most two, and an outage with an older patch in its aftermath is two; Close and an unrecoverable error at any time |
| `broadcaster` | Can a send meet a closed channel (`SendsGoToOpenChannels`)?  Is any value lost or repeated (`DeliveredExactlyOnce`)?  Do calls return (`CallsReturn`)? | two publishers, two listeners, capacity 1: with two values a channel is full and a publisher blocked |
| `status` | Does waitFor miss nothing and end with the client (`WaitForReturns`), and invent nothing (`WaitForIsSound`)?  Do listeners end up with the current status (`ListenerIsCurrent`)?  Is an outage that lasts reported (`OutageIsReported`)? | two goroutines of the data source, the closing application and a waiting one; three updates: an outage, its end and the next one; a timeout, without which there are no timers |
| `fdv2` | Do readers of streamed data see whole payloads, in order (`SeesWholePayloads`, a refinement of PayloadStore), and are the versions of polled data those of whole payloads (`HoldsWholePayloads`, another)?  Does the selector name the data, so that the next transfer starts from the right place (`SelectorIdentifiesData`)?  Does the persistent store follow (`PersistentStoreIsCurrent`), no object before what it refers to (`ReferencesAreStoredFirst`)?  Do all converge, unless a transfer goes on after an error event (`Converges`)? | a flag with a prerequisite and a segment both use: the smallest chain through both kinds; both sources and both modes of the persistent store, which an earlier process may have filled; two payloads that differ in up to two items, so that a changeset has a middle; one fault of any kind (broken connection, error event, goodbye, malformed event, refused write) |
| `client` | Do hooks nest (`HooksNest`)?  Does the event tell the value that the application got, and is there none when events are disabled (`EventsTellResults`)?  Is a call answered from the data (`AnswersFromData`)?  Does the wait for the start report the truth (`StartResultIsRight`)?  Is everything released (`ClosedPartsAreReleased`)?  Do migrations keep to the authoritative origin and tell what they did (`OperationsAreTracked`)?  Does the data arrive (`Converges`), and does Close end it all (`CloseStopsAll`)? | one call of the application at a time, of every kind, against the source; two hooks, the least that have an order; two versions of the data, so that the flag changes during a call; one fault of any kind (request, response, store, hook, execution) |
| `big_segments` | Does a call that begins after ClearCache get data at least as new (`ClearedCacheStaysCleared`)?  Does the status become that of the store, and is it reported (`StatusConverges`)?  Does Close end the task (`CloseEndsPolling`)? | two callers of one context, because they share the query and the cache entry; one polling task at a time; one change of the store and one of its status |
| `local_data` | Does the client end up with the data of its files, or of its test (`LocalDataConverges`)?  Does a value change listener end up with the flag's value, from the moment it was added (`ValueChangesAreReported`)?  Does a flag builder serve each target its variation (`TargetsAreServed`)? | two files, so that one is missing or broken while the other changes; two changes of files; two updates by two goroutines of a test, one of them through a builder; a listener's channel with room for one event; one refused write; three edits of a builder |

The runs `failed_recovery` and `client_not_ready` state what a comment or the documentation
says, and TLC finds a behaviour of the code that violates it; see 7.

Each property has a mutant: a plausible fault of the code (a dropped guard, a missing reset,
a swapped order) with which TLC finds the property violated.

## 4. Fairness

Each fairness condition is one the program's scheduling gives:

* a goroutine that is not blocked takes its next step: `WriterStep`, `ReadStep`, `Poller`
  (wrapper), `Step` (FlagChangeEvents), `ConsumeStream` (stream), `Broadcast`,
  `WaitReceive`, `CloseBroadcasters` (status);
* timers fire: the poller's ticker, TTLs (`ExpireItem`, `ExpireAll`), outage timers;
* a lock is not withheld for ever from one that waits (strong fairness of `Progress` in
  Broadcaster; RWMutex does not starve writers), and listeners in `Attentive` read;
* the eventsource library retries until it connects, and a database that fails finitely
  often recovers (stream);
* in FDv2Sources the library connects (`WF(Connect)`), what the service sends arrives in the
  end though heart-beats keep coming (strong fairness of `Receive` and `OtherEvent`, each of
  which the other disables for a while); the goroutines of the sources and of the store take
  their steps.  Callers of Commit may go on for ever: `Converges` has that in its formula;
* in Client the construction, Close and the poller go on; the poller's select between ticker
  and `quit` is fair to both (`SF(Quit)`).  Application calls are not forced to continue;
* in BigSegmentStoreWrapper a call, the shared query and the polling task go on, and the
  task's select does not pass over `Stop` for ever;
* in LocalClient each writer, the listener's goroutine and the watcher go on, the retry
  timer fires, Start returns, and the application reads the value changes it has asked for
  (with an application that does not, the sink blocks: see Broadcaster).  Faults are
  bounded, so "once faults stop" needs no condition.

Otherwise nothing is assumed of the application, of the service's changes or, in the
wrapper, of the database: `RecoveryIsReported` and `FiniteCacheConverges` have their hypotheses in
the formula.

## 5. The proofs

Proved by TLAPS for every value of the constants, from the named ASSUMEs of the modules.
Every safety invariant and action property of the runs is a theorem, and so is the refinement
of PayloadStore.  Of each liveness property a *safety core* is proved: what must hold at every
moment for the property to be true, which is where the code can go wrong (6 has the list).
A lemma per action or group of actions shows that it preserves the inductive invariant,
another puts them together, and the theorem is the temporal step.  The inductive invariants
and the safety cores have been checked by TLC on the instances of the runs, too.

* **PersistentDataStoreWrapper_proof**.  `TypeCorrect`: types, and every cached collection
  is complete.  `OnlyStoredDataIsCached` and `InitializedMeansStored` (unless the cache is
  infinite): the inductive invariant `StoredInv` adds to the property that the present
  contents are part of the history (`CoreIsHeld`) and that what any call in progress is
  *about to* cache has been stored (`WriterHolds`, `ReadHolds`), because every cache write
  happens a step or more after the query that justifies it.  The lemma behind it is that
  a step leaves the history alone or extends it (`HistoryGrows`).  `OutagesArePolled`:
  `PollInv` adds that only Close asks a poller to stop.
  `InfiniteCacheMirrorsFeed` (`CacheMirrorsFeed`), under `OnlyFeed`: the cache is infinite,
  the feed is ordered, and no other process or reader is there.  These are the conditions
  of its run, and 7 says how each of the others breaks it.  `MirrorInv` says that neither the
  database, nor a snapshot for the write-back, nor a result on its way into the cache is newer
  than the feed (`NothingNewer`), that the data source reads only between its writes
  (`ReadsBetween`), and, label by label of Init and Upsert, which of the cache's entries
  have the new data already (`InitMirrors`, `UpsertMirrors`).
  `CacheStaysInAgreement`, unless the cache is infinite: when the cache and what calls are
  about to cache agree with the database (`Settled`), no step but a change of the database
  ends that, so whatever is stale is left from before the last change.
* **DataSourceUpdateSink_proof**.  Of FlagChangeEvents: `GraphStaysBidirectional`,
  `GraphStaysCurrent`, `AffectedSetIsClosed`, together by `GraphInv`: while Init reloads the
  graph, items still to come have no edges (`Loading`); while affected items are collected,
  whatever refers to a collected item is collected or waiting (`Collecting`).  The lemma
  `UpdateGraph` says what updateDependenciesFrom does to both directions.
  `EventsReportChanges` (`EventsAreExact`), for a feed in order: what a flag depends on is
  defined as the *least* set that has the flag and all that a member refers to, which needs
  no induction over paths.  `Seeded` says that the search holds the changed items and lies
  within every set that has them and all that refers to a member; so it ends with the least
  such set, and the complement of that is closed under references both before and after the
  operation, because nothing in it has changed.  `SearchGetsCloser` gives the variant of the
  search: phase, unvisited items, items waiting.
  Of DataSourceStatus: `StatusTypeCorrect`, `CloserStaysCurrent`, `ListenersAreCurrent`,
  `WaitForNeverLies`.  `OutageInv`: an outage was begun by an update and the closer is that of
  the present one.  `StatusInv`: as long as no two updates have overlapped, at most one
  broadcast is outstanding, it is of the current state, and whatever waitFor has been sent was
  the state at some time since it was called.  `OutagesAreTimed`: the timer of the present
  outage runs and has not been stopped, is due, or has reported it; the invariant adds that
  only timers of earlier outages have been stopped (`StoppedInv`).  `WaitForMissesNothing`:
  while waitFor waits for a state that has come, or for a client that has closed, what ends
  the wait is in its channel or about to be sent (`WaitInv`).
* **Broadcaster_proof**.  `TypeCorrect`, `NoDoubleClose`, `NoSendOnClosedChannel`, by an
  invariant that says who holds the lock (`LockInv`), that what is left to send goes to
  subscribers and only while the lock is held for reading (`RestInv`), and that a channel is
  not subscribed before its listener has been added (`ListenerInv`).
  `NothingLostOrRepeated` (`DeliveredExactlyOnce`): `DeliveryInv` adds that what a listener
  has read and what is in its channel are distinct past values, that a value still to be sent
  is not among them (`FlightInv`), and that each value since the listener joined is among them
  or still to be sent to it (`CoverInv`).
  `OnlyListenersBlock`: from any state with a call in progress some call can go on, or a
  publisher waits for a listener that has something to read; `WhoInv` relates the lock's
  holders and waiters to where each goroutine is.
* **StreamProcessor_proof**.  `TypeCorrect`, `ClientWaitsForAResult` (`ReadyMeansSettled`) and
  the action property `StoreMovesForward` (`StoreNeverGoesBack`).  The invariant adds what
  makes a put harmless (`QueueInv`): it is only ever the first event of its connection, a new
  connection begins with an empty queue, so a put that is still to be received is at least as
  new as all that database, cache and poller hold (`Within`); and no queued event and none of
  what they hold is newer than the service.
  `LossesAreRepaired` (`LostUpdatesAreRefetched`): `LossInv` says that every item is current
  or an event in the queue brings its current version, unless a refetch is under way
  (`Refetching`); that behind a put nothing is missing (`PutInv`); that after a refused
  update the outage, or its end, is still to be noticed (`FailedInv`); and that an infinite
  cache lacks an item only before the first put (`FirstInv`), so that only then do evaluations
  read the lagging database behind it, which the write-back may change.
  `RestsOnlyWhenConverged` and `NoStreamIsAbandoned`: `ServedInv` adds that on a connection
  whose put has been received the state is Valid and the client told, unless the goroutine
  is at a label from which it will still do so (`ValidInv`, `ToldInv`).
* **FDv2Sources_proof**, in layers.  `StoreInv`: types, the history of the service (an item
  that differs between two payloads has the higher version in the later one), the protocol
  (`ProtocolInv`: a transfer has its intent, unless an error event has taken it away, and
  starts from what the selector names), and what the persistent store lacks (`PersistInv`:
  at most what is still to be written, and what Serialize has no bytes for).  From it
  `PersistentStoreFollows` (`PersistentStoreIsCurrent`).  `DataInv` adds what a pending
  changeset contains relative to the payload its intent was made from (`ChangeSetInv`) and
  that memory holds the payload the selector, or the HTTP cache, names (`MemoryInv`).  From
  it `SelectorNamesData` (`SelectorIdentifiesData`), `ImplementsPayloadStore`
  (`SeesWholePayloads`) and `PolledVersionsAreWhole` (`HoldsWholePayloads`): every step maps
  to a step of PayloadStore or a stutter.  They assume `"syntax" \notin Garbled`, an object
  with a syntax error being a way in which the code breaks them (see 7).
  `StoresReferencesFirst` (`ReferencesAreStoredFirst`) adds `OrderInv`: on the stack of the
  sort, ranks fall; what an item of the result refers to comes before it or has been
  written.  It assumes `Ranked(rank)`, that references have no cycle (with one, no order is
  right) and that segments refer to nothing, because the sort follows only the references of
  flags; and that no syntax error hides an object's fields, because the tombstone that is
  stored for it would stand before what refers to the object (see 7).
  `RestsOnlyWhenConverged`, under the same assumption about syntax errors, adds
  `NotifiedInv`: a source that has handed data to the store has told so, or its goroutine is
  about to.  With the protocol (a stream at rest is at the payload that the selector names)
  and `MemoryInv`, a source can only come to rest where Converges wants it: with the
  service's payload before the readers (stream), or with its versions in the memory store
  (poll).
* **BigSegmentStoreWrapper_proof**.  `NothingOlderThanTheClearing` (`ClearedCacheStaysCleared`):
  data goes from the store to the shared query, from there to those who asked and to the
  cache, and from the cache to later callers.  Nothing on this way is older than the version at
  which the cache was last cleared without a query under way (`CacheInv`, `AnswerInv`,
  `MembershipInv`).
  `TasksAreStopped`: `TaskInv` says that the polling tasks are the one that pollCloser stops and
  those that have been told to stop, so none is forgotten and no channel is closed twice.
  `ChangesAreTold`: unless two changes have raced, statusUpdateFn has last told lastStatus or its
  only call under way brings it.
* **Client_proof**, one inductive invariant in parts.  `SourceInv`: what the HTTP cache holds has
  been stored, is being stored, or was lost; `ClientInv`: which parts exist at which step of the
  construction and of Close; `CallInv`: what a call in progress has decided and read;
  `EventsInv`, `TraceInv`, `MigrationInv`: what has been recorded, which hooks have run, what
  has been executed and tracked.  From them `StartReportsTheSource` (`StartResultIsRight`),
  `CloseReleasesAll` (`ClosedPartsAreReleased`), `HooksRunAroundCalls` (`HooksNest`),
  `EventsMatchResults` (`EventsTellResults`), `CallsUseTheData` (`AnswersFromData`) and
  `MigrationsAreTracked` (`OperationsAreTracked`).  `DefaultsAssumption` (Evaluation) says that the
  default stage of a migration is one of the six that the SDK defines (its Go type, a string,
  would admit others).  `DataIsNotStuck` and `WaitingIsNotForgotten` (`FlowInv`): what the HTTP
  cache holds, and the service will not send again, is in the store and has been announced,
  unless it was lost; whoever waits for the source has a poller that has not ended without
  letting him go, and a closed system has told its poller to quit.
* **LocalClient_proof**, an invariant for each part, on types and the sink's calls (`CallInv`).
  `TargetsGetTheirVariation` (`TargetsAreServed`): the targets of a builder's present variations
  are disjoint, and a context that was asked for is a target of what was asked for last.
  (`VariationsAssumption` of FlagBuilder says no more than that Variation3 is a sequence of
  three.)  `ListenerFollowsTheValue` and the action property `OnlyChangesAreTold`: as long as
  someone listens, what the application was last told, or is about to be told, is the flag's
  value, or an event is on its way that makes the goroutine look again (`ToldInv`, `EventInv`).
  A value that had changed before the goroutine's first evaluation is the exception, until the
  application is told another (`Unheard`; see 7).
  `WatcherMissesNothing`: a file that has changed since it was read has an event or a retry on
  its way to the watcher, or is to be read by the reload that is under way (`WatchInv`,
  `LoadInv`).  `UpdatesReachTheClient`: the latest version of each item is in the store, or with
  a goroutine that is about to store it, or part of what Start carries (`UpdateInv`, `ArriveInv`).

`TypeOK`, `GraphIsBidirectional`, `AffectedIsClosed`, `ReadyMeansSettled`, `SubscribedIsOpen`
and `CloserIsCurrent` hold for every instance by these theorems and are not repeated in the
runs.

## 6. What is only model-checked

Liveness: TLAPS does not prove it under fairness, nor can it reason about ENABLED.  TLC checks
each of these properties on its run; the theorem beside it is its safety core, for every value
of the constants.  What is left to TLC is that the steps which the core names do happen.

| Liveness property | Safety core |
|---|---|
| `RecoveryIsReported` | `OutagesArePolled`: an outage has a poller |
| `FiniteCacheConverges` | `CacheStaysInAgreement`: agreement, once there, is kept |
| `OperationEnds` | `SearchGetsCloser`: each step decreases the variant |
| `Converges` (StreamProcessor) | `RestsOnlyWhenConverged`, `LossesAreRepaired` |
| `CloseEndsStream` | `NoStreamIsAbandoned` |
| `CallsReturn` | `OnlyListenersBlock`: deadlock freedom |
| `WaitForReturns` | `WaitForMissesNothing` |
| `OutageIsReported` | `OutagesAreTimed` |
| `Converges` (FDv2Sources) | `RestsOnlyWhenConverged` |
| `Converges` (Client) | `DataIsNotStuck` |
| `CloseStopsAll` | `WaitingIsNotForgotten` |
| `StatusConverges` | `ChangesAreTold` |
| `CloseEndsPolling` | `TasksAreStopped` |
| `LocalDataConverges` | `WatcherMissesNothing`, `UpdatesReachTheClient` |
| `ValueChangesAreReported` | `ListenerFollowsTheValue`, `OnlyChangesAreTold` |

The two runs that expect a violation (7) are counterexamples, which need no proof.

## 7. Where the code and its documentation disagree

Shown by a run:

* `failed_recovery`: when the write-back of an infinite cache fails,
  pollAvailabilityAfterOutage still returns true and the store is reported available;
  the comment says that initCore "has already put us back into the failed state", but
  UpdateAvailability(false) does nothing while the status is still false.
* `client_not_ready`: evaluateInternal (and AllFlagsState) asks for the availability of data
  twice and refuses when it is not Refreshed at the first and not Cached at the second.  If
  the data source becomes initialized in between the answer is ErrClientNotInitialized
  although there was data all the time.

Seen while modelling, and reflected in the conditions of the properties:

* A value that cannot be deserialized is an error like any other
  (`persistent_data_store_wrapper.go:325`, `337-339`): each read of it reports the store
  unavailable while the database is up, and the poller reports it available again, so the status
  flaps for as long as the item is there (`RecoveryIsReported` says that it is reported available
  again and again, and for good once nothing in the database is `garbled`).
* An infinite cache takes an item whose Upsert the database failed to store without comparing
  versions, so a repeated older patch during an outage takes the store back
  (`regressed` in StreamProcessor).
* So it does after the outage, until the write-back: the database lags behind the cache, and
  core.Upsert compares with the database.  An older patch that the database takes is copied
  over the newer cached item (`persistent_data_store_wrapper.go:184-196`); after one that it
  refuses the item is read again from the lagging database and the cached collection is dropped
  (200-204).  Nothing fetches the newer data again: `LostUpdatesAreRefetched` and `Converges`
  except it (`regressed`), and `StoreNeverGoesBack` names the case.
* The write-back writes the cached collection, or an empty one when none is cached.  The comment
  in pollAvailabilityAfterOutage says that the cache can be assumed to have a full set of
  data.  It has not before the first put, and not after a refused patch has dropped the
  collection (as above): a patch of the next outage then begins a collection of one item, which
  replaces the database's contents.
* The write-back reads the cached collections and then calls Init: an update between the
  two is overwritten in the database; an outage that begins before the first Init, or
  between Init's Flush and its refill, writes an empty or partial data set.
* Data that an infinite cache serves although the database refused it never reaches the
  dependency graph or the change listeners (`behind` in FlagChangeEvents).
* Init compares versions only: contents that change without a higher version, or go back,
  cause no event (`InOrder`); if the old data of a kind cannot be read, removed items of that
  kind cause no event (`Informed`).
* UpdateStatus broadcasts after it has released its lock: the statuses of overlapping
  updates may be delivered in the other order, and waitFor may accept one from before the
  call (`overlapped` in DataSourceStatus).  Nothing keeps a late handler from replacing Off
  by another state.
* A store that recovers from an outage before the first put marks the data source as
  initialized; with a monitored store the state becomes Valid right after the store refused
  the first put.
* The polling data source's Close does not report Off, and waitFor does not notice that its
  channel was closed: without a timeout it does not return.  (DataSourceStatus models Stop
  with a streaming data source.)
* A timer that elapses as its outage ends may report the next outage at once.
* A Get that queried the database before an Init or Upsert sets the cache after it; with an
  infinite cache the old item stays, although the comment at
  `persistent_data_store_wrapper.go:208` says that it "always has the latest data".  (A finite
  one forgets it: `FiniteCacheConverges`; the run of the infinite cache has no such reader.)
* The stream breaks before the first put and the reconnection is refused with a 401:
  errorHandler's CloseNow ends the stream and consumeStream returns
  (`streaming_data_source.go:149`) without closing closeWhenReady, which the comment at line
  42 promises when initialization has "permanently failed"; the client waits until its own
  timeout.  The FDv2 streaming source does the same.
* Broadcast waits for room in a full channel with the read lock held (`broadcasters.go:76`),
  and RemoveListener, which `interfaces/data_source_status_provider.go:57` names as the way
  out, needs the write lock: both wait for ever.  (`CallsReturn` assumes listeners that read.)
  The status poller broadcasts with its own lock held, so a full channel of the stream's
  goroutine stops every store operation that fails.
* UpdateAvailability(false) after Close starts a poller that nothing stops, and Close reads
  `pollCloser` without the lock that guards it (`Close` in the wrapper chooses either
  outcome).

In FDv2:

* deserializeEvents does not look at the reader's error, so a put-object whose object has a
  syntax error is stored as a tombstone and the selector advances past it
  (`Garbled = {"syntax"}` violates `SelectorIdentifiesData`), where the comment of the
  streaming source says that a malformed event restarts the stream.  The run has objects that
  the reader notices.
* The polling source hands the store a descriptor as the object
  (`polling_http_request.go:149`), the streaming source the item itself.  Readers reject the
  type (`ldclient.go:1270-1278`, and so does the evaluator's data provider), and Serialize makes
  nothing of it (`data_kinds_impl.go:48-60`, `96-108`): nothing that is polled can be evaluated
  or is kept in the persistent store.  So `HoldsWholePayloads` and, for a polling source,
  `Converges` are about versions in the memory store; `SeesWholePayloads`, `SelectorIdentifiesData`
  and `ReferencesAreStoredFirst` say something about streamed data only.
* An error event drops the intent with the changeset (`streaming_data_source.go:249` has a
  TODO about it).  If the service goes on with the transfer, payload-transferred
  dereferences the missing intent (line 266) and the process panics, because nothing
  recovers in that goroutine. fdv2proto does not say that the service starts over
  (`ErrorEvent`, `Transferred`; `Converges` has this end as an exception).  Without an
  intent at the start of a transfer the code would panic, or add to a changeset that was cut
  off; that the service sends one is assumed.
* A write of a delta to the persistent store that fails is only logged (`store.go:200`), and the
  item is missing there until the next complete Init (`clean`).
* Commit writes the data unsorted (`store.go:228`); `ReferencesAreStoredFirst` excludes it.
* A segment's rules may refer to other segments, but doesDataKindSupportDependencies
  (`toposort.go`) sorts flags only, so a segment may be written before the segments it refers
  to (`Ranked` in FDv2Sources_proof).
* An intent "none" skips the end of the loop, so an interrupted source is not reported Valid
  until the next event.  The polling source always asks without a selector; the model's
  service sends it changes only relative to a payload that it has.
* A polling response that cannot be parsed stays in the HTTP cache, and the 304 that follows
  makes the source valid and initialized without data (`etag.bad`).

In the client:

* NewFDv1 does not close the data store when the data source cannot be built, although
  MakeCustomClient says that intermediate components "will be disposed of"
  (`ClosedPartsAreReleased` has the exception).
* poll ignores the result of Init, and a malformed response stays in the HTTP cache: the next
  answer is a 304, and the client is initialized without data (`lost`).
* Stop of the ticker does not end the goroutine of newTickerWithInitialTick
  (`polling_data_source.go:189`), which waits for ever; the ticker is not in the model.

In big segments:

* A context that a new query does not find is reported Healthy when the store is stale; from
  the cache the same answer is reported as stale.
* A query that is under way when the cache is cleared fills it again with what it read.
* statusUpdateFn is called outside the lock: two changes may be reported in the wrong order
  (`raced`).
* SetPollingActive(true) after Close starts a task that nothing stops.

In the local data sources:

* ValueForAll documents the same value whether targeting is on or off, but the off variation
  stays, and after On(false) it is out of range.
* An Update between Build and the Init of Start is overwritten by the older Init, and a late
  older Upsert may follow (`UpdatesArrived` states what remains true).
* AddFlagValueChangeListener is documented to evaluate the flag immediately
  (`interfaces/flag_tracker.go:41`), but its goroutine does so, some time after it has returned
  (`flag_tracker_impl.go:57`, `86`).  A change in between becomes the listener's starting point,
  and its event finds nothing new, so it is never reported (`early` in FlagTracker).
* Value changes without a newer version, by a full data set, and those of an Init whose
  HasListeners came before the listener, are not reported (`missed`).
* A refused Init is not retried by the file data source; without a reloader a failed load
  signals readiness of a source that is not initialized.

## 8. What is not modelled

Serialization of items, request construction, logging, diagnostics, the sending of analytics
events and the evaluation of rules (separate libraries); times are abstracted to "may
elapse".  The wrapper without a cache is in the module and the proofs but in no run: it is
the finite cache with every read missing.  Configuration builders, flag state snapshots,
getters and SecureModeHash have no behaviour over time.  The representations of a big segment
membership and the hash of its key are opaque values.  The text of a data file is abstracted
to its items, or to a file that is missing or cannot be parsed.  The test service and the
test suites of the repository are not part of the SDK.  The components left out are listed
as `not_modelled` or `partly` in `PROJECT.json` with the reason.

## 9. The plan

Modelled and checked: all of 2.  Proved: all of 5.  What could follow:

1. The composition of Broadcaster and StreamProcessor for the store status channel, which the
   stream's own goroutine may have to fill (7 has the deadlock that this would show).
2. Serialization of items and tombstones, on which the abstraction of an item to its version
   rests.
3. `StatusConverges` and `ListenerIsCurrent` without the condition that updates do not overlap,
   should the code come to call its listeners in the order of the changes.
