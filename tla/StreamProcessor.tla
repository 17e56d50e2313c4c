--------------------------- MODULE StreamProcessor ---------------------------
(***************************************************************************)
(* The streaming data source (internal/datasource/streaming_data_source.go)*)
(* between the LaunchDarkly service and a data store.                      *)
(*                                                                         *)
(* Four threads of control meet here: consumeStream, which handles events, *)
(* store status notifications and the halt signal; the eventsource         *)
(* library's goroutine, which connects and calls errorHandler; the store's *)
(* status poller; and the application, which may call Close.  All of them  *)
(* set the status of the data source.                                      *)
(*                                                                         *)
(* The service holds a version per item.  On every new connection it sends *)
(* a "put" with all of them and then a "patch" per change ("delete" is a   *)
(* patch with a tombstone).  A connection that breaks loses what was       *)
(* queued.  The store is one without status monitoring, or a database      *)
(* behind a finite or an infinite cache, whose failures the status poller  *)
(* notices.  What a finite cache holds is what the database holds (see     *)
(* PersistentDataStoreWrapper).  An infinite cache serves updates that the *)
(* database refused: the database lags behind it until the poller writes   *)
(* the cached collection back.                                             *)
(*                                                                         *)
(* A call of the store is one step here, and the database answers all of   *)
(* its queries or none; PersistentDataStoreWrapper has the single steps.   *)
(* Version 0 stands for an item that is not there.                         *)
(***************************************************************************)
EXTENDS Integers, Sequences

CONSTANTS
    Keys,           \* items
    Stores,         \* the kinds of store that the client may be configured with
    MaxVersion,     \* bound on versions
    MaxFaults       \* bound on connection errors, odd events and outages

ASSUME StoresAssumption == Stores \subseteq {"unmonitored", "finite", "infinite"}
ASSUME BoundsAssumption == MaxVersion \in Nat /\ MaxFaults \in Nat

Versions == 0 .. MaxVersion
Absent == -1    \* no cache entry
States == {"Initializing", "Valid", "Interrupted", "Off"}
Events == [type : {"put"}, data : [Keys -> Versions]]
            \cup [type : {"patch"}, key : Keys, ver : Versions]
            \cup [type : {"malformed", "ignored"}]

VARIABLES
    storeType,      \* the configured store, one of Stores
    service,        \* the data of the LaunchDarkly environment
    conn,           \* "connecting", "open" or "closed" for good
    events,         \* sent by the service, not yet received from stream.Events
    database,       \* what the store holds, or the database behind its cache
    items,          \* the entries "kind:key" of an infinite cache
    cachedAll,      \* its entry "all:kind"
    dbUp,           \* whether the database works
    available,      \* dataStoreStatusPoller.lastAvailable
    polling,        \* what the status poller does next: "wait", "write" or "signal"
    snapshot,       \* the cached collection that it is about to write
    storeStatusCh,  \* Available of the status notifications not yet received
    state,          \* DataSourceUpdateSinkImpl.currentStatus.State
    isInitialized,
    ready,          \* closeWhenReady is closed
    pc,             \* where consumeStream is: "subscribe" (before it), "select",
                    \* "failed", "notify", "valid", "restart" or "done"
    closing,        \* where Close is: "no", "halted", "removed" or "closed"
    faults,         \* faults so far
    regressed       \* history: has an infinite cache gone back to an older version
                    \* of an item since the last put

contents == <<database, items, cachedAll>>
poller == <<polling, snapshot>>
vars == <<storeType, service, conn, events, contents, dbUp, available, poller, storeStatusCh,
          state, isInitialized, ready, pc, closing, faults, regressed>>

Monitoring == storeType # "unmonitored"     \* IsStatusMonitoringEnabled()
hasInfiniteCache == storeType = "infinite"
NeedsRefresh == ~hasInfiniteCache           \* DataStoreStatus.NeedsRefresh

Empty == [k \in Keys |-> 0]
NothingCached == [k \in Keys |-> Absent]

\* What evaluations read: the cached item, or else the database
store == [k \in Keys |-> IF items[k] = Absent THEN database[k] ELSE items[k]]

\* NewStreamProcessor, Start: the store may hold anything from an earlier run
\* of the SDK, but nothing the service never had.
Init ==
    /\ service \in [Keys -> Versions]
    /\ database \in {Empty, service}
    /\ items = NothingCached /\ cachedAll = NothingCached
    /\ conn = "connecting" /\ events = <<>>
    /\ dbUp = TRUE /\ available = TRUE /\ storeStatusCh = <<>>
    /\ polling = "wait" /\ snapshot = Empty
    /\ state = "Initializing"
    /\ isInitialized = FALSE /\ ready = FALSE
    /\ pc = "subscribe" /\ closing = "no"
    /\ faults = 0 /\ regressed = FALSE
    /\ storeType \in Stores

\* maybeUpdateStatus: an interruption before the first success is no change.
UpdateStatus(newState) ==
    state' = IF newState = "Interrupted" /\ state = "Initializing" THEN state ELSE newState

Fault == faults < MaxFaults /\ faults' = faults + 1

-----------------------------------------------------------------------------
(* The service and the network *)

\* An event arrives as it was sent, or broken
Sent(e) ==
    \/ events' = Append(events, e) /\ UNCHANGED faults
    \/ events' = Append(events, [type |-> "malformed"]) /\ Fault

Update(k) ==
    /\ service[k] < MaxVersion
    /\ service' = [service EXCEPT ![k] = @ + 1]
    /\ IF conn = "open"
       THEN Sent([type |-> "patch", key |-> k, ver |-> service[k] + 1])
       ELSE UNCHANGED <<events, faults>>
    /\ UNCHANGED <<storeType, conn, contents, dbUp, poller, available, storeStatusCh, state,
                   isInitialized, ready, pc, closing, regressed>>

RepeatPatch(k, v) ==
    /\ conn = "open"
    /\ v <= service[k]
    /\ Fault
    /\ events' = Append(events, [type |-> "patch", key |-> k, ver |-> v])
    /\ UNCHANGED <<storeType, service, conn, contents, dbUp, poller, available, storeStatusCh,
                   state, isInitialized, ready, pc, closing, regressed>>

\* An event that the SDK does not know
SendUnknown ==
    /\ conn = "open"
    /\ Fault
    /\ events' = Append(events, [type |-> "ignored"])
    /\ UNCHANGED <<storeType, service, conn, contents, dbUp, poller, available, storeStatusCh,
                   state, isInitialized, ready, pc, closing, regressed>>

\* The first connection ends es.SubscribeWithRequestAndOptions and starts
\* consumeStream; later ones are made by the library on its own.
Connect ==
    /\ conn = "connecting"
    /\ conn' = "open"
    /\ Sent([type |-> "put", data |-> service])
    /\ pc' = IF pc = "subscribe" THEN "select" ELSE pc
    /\ UNCHANGED <<storeType, service, contents, dbUp, poller, available, storeStatusCh, state,
                   isInitialized, ready, closing, regressed>>

\* errorHandler: a network error or a recoverable HTTP error
RecoverableError ==
    /\ conn \in {"connecting", "open"}
    /\ Fault
    /\ UpdateStatus("Interrupted")
    /\ conn' = "connecting" /\ events' = <<>>
    /\ UNCHANGED <<storeType, service, contents, dbUp, poller, available, storeStatusCh,
                   isInitialized, ready, pc, closing, regressed>>

\* errorHandler: an HTTP error like 401 (or, at the start, a request that cannot
\* even be made).  Only before consumeStream is the client told.
UnrecoverableError ==
    /\ conn = "connecting"
    /\ UpdateStatus("Off")
    /\ conn' = "closed"
    /\ IF pc = "subscribe" THEN pc' = "done" /\ ready' = TRUE ELSE UNCHANGED <<pc, ready>>
    /\ UNCHANGED <<storeType, service, events, contents, dbUp, poller, available, storeStatusCh,
                   isInitialized, closing, faults, regressed>>

-----------------------------------------------------------------------------
(* The store *)

\* UpdateAvailability and, while we are subscribed, its notification
UpdateAvailability(up) ==
    /\ available' = (IF Monitoring THEN up ELSE available)
    /\ storeStatusCh' = IF available' # available /\ closing \in {"no", "halted"}
                        THEN Append(storeStatusCh, up) ELSE storeStatusCh

DatabaseFails ==
    /\ dbUp
    /\ Fault
    /\ dbUp' = FALSE
    /\ UNCHANGED <<storeType, service, conn, events, contents, poller, available, storeStatusCh,
                   state, isInitialized, ready, pc, closing, regressed>>

DatabaseRecovers ==
    /\ ~dbUp
    /\ dbUp' = TRUE
    /\ UNCHANGED <<storeType, service, conn, events, contents, poller, available, storeStatusCh,
                   state, isInitialized, ready, pc, closing, faults, regressed>>

\* A reader's query fails
ReadFails ==
    /\ ~dbUp /\ available
    /\ UpdateAvailability(FALSE)
    /\ UNCHANGED <<storeType, service, conn, events, contents, dbUp, poller, state, isInitialized,
                   ready, pc, closing, faults, regressed>>

\* Get, where the item is not cached
ReadItem(k) ==
    /\ hasInfiniteCache
    /\ dbUp
    /\ items[k] = Absent
    /\ items' = [items EXCEPT ![k] = database[k]]
    /\ UNCHANGED <<storeType, service, conn, events, database, cachedAll, dbUp, available, poller,
                   storeStatusCh, state, isInitialized, ready, pc, closing, faults, regressed>>

\* GetAll, where the collection is not cached
ReadAll ==
    /\ hasInfiniteCache
    /\ dbUp
    /\ cachedAll = NothingCached
    /\ cachedAll' = database
    /\ UNCHANGED <<storeType, service, conn, events, database, items, dbUp, available, poller,
                   storeStatusCh, state, isInitialized, ready, pc, closing, faults, regressed>>

\* pollAvailabilityAfterOutage finds the database working and reads the
\* collection that an infinite cache has.
PollTick ==
    /\ ~available
    /\ polling = "wait"
    /\ dbUp
    /\ polling' = IF hasInfiniteCache THEN "write" ELSE "signal"
    /\ snapshot' = IF hasInfiniteCache /\ cachedAll # NothingCached THEN cachedAll ELSE Empty
    /\ UNCHANGED <<storeType, service, conn, events, contents, dbUp, available, storeStatusCh,
                   state, isInitialized, ready, pc, closing, faults, regressed>>

\* initCore replaces what the database has; that it fails changes nothing.
PollWrite ==
    /\ polling = "write"
    /\ database' = IF dbUp THEN snapshot ELSE database
    /\ polling' = "signal"
    /\ snapshot' = Empty
    /\ UNCHANGED <<storeType, service, conn, events, items, cachedAll, dbUp, available,
                   storeStatusCh, state, isInitialized, ready, pc, closing, faults, regressed>>

PollSignal ==
    /\ polling = "signal"
    /\ polling' = "wait"
    /\ UpdateAvailability(TRUE)
    /\ UNCHANGED <<storeType, service, conn, events, contents, dbUp, snapshot, state,
                   isInitialized, ready, pc, closing, faults, regressed>>

-----------------------------------------------------------------------------
(* consumeStream *)

\* Receiving from stream.Events
Receive(e) ==
    /\ pc = "select"
    /\ events # <<>>
    /\ e = Head(events)
    /\ events' = Tail(events)

\* Mutant: the stream is not restarted.
MalformedNoRestart ==
    /\ Receive([type |-> "malformed"])
    /\ UpdateStatus("Interrupted")
    /\ pc' = "select"
    /\ UNCHANGED <<storeType, service, conn, contents, dbUp, poller, available, storeStatusCh,
                   isInitialized, ready, closing, faults, regressed>>

\* gotMalformedEvent (scenario 1)
Malformed ==
    /\ Receive([type |-> "malformed"])
    /\ UpdateStatus("Interrupted")
    /\ pc' = "restart"
    /\ UNCHANGED <<storeType, service, conn, contents, dbUp, poller, available, storeStatusCh,
                   isInitialized, ready, closing, faults, regressed>>

\* An unknown event, or one about an unknown kind of data
Ignored ==
    /\ Receive([type |-> "ignored"])
    /\ pc' = "valid"
    /\ UNCHANGED <<storeType, service, conn, contents, dbUp, poller, available, storeStatusCh,
                   state, isInitialized, ready, closing, faults, regressed>>

\* How a call of the store ends: the database took the data, or it failed.
Answer(next) ==
    IF dbUp THEN pc' = next /\ UNCHANGED <<available, storeStatusCh>>
            ELSE pc' = "failed" /\ UpdateAvailability(FALSE)

\* Init of the store: an infinite cache is filled even if the database fails.
StoreInit(data) ==
    /\ database' = IF dbUp THEN data ELSE database
    /\ items' = IF hasInfiniteCache THEN data ELSE items
    /\ cachedAll' = IF hasInfiniteCache THEN data ELSE cachedAll

\* Mutant: the store takes an item without looking at its version.
UpsertTakenAny(k, v) ==
    /\ dbUp
    /\ database' = [database EXCEPT ![k] = v]
    /\ items' = IF hasInfiniteCache THEN [items EXCEPT ![k] = v] ELSE items
    /\ UNCHANGED cachedAll

\* Upsert of an item that the database takes, if it is newer than the database's
UpsertTaken(k, v) ==
    /\ dbUp /\ v > database[k]
    /\ database' = [database EXCEPT ![k] = v]
    /\ items' = IF hasInfiniteCache THEN [items EXCEPT ![k] = v] ELSE items
    /\ cachedAll' = IF cachedAll = NothingCached THEN cachedAll
                                                 ELSE [cachedAll EXCEPT ![k] = v]

\* Otherwise the item is read again and the collection is no longer cached.
UpsertRefused(k, v) ==
    /\ dbUp /\ v <= database[k]
    /\ items' = IF hasInfiniteCache THEN [items EXCEPT ![k] = database[k]] ELSE items
    /\ cachedAll' = NothingCached
    /\ UNCHANGED database

\* When the database fails an infinite cache takes the item, whatever its
\* version, and adds it to the collection, or to an empty one.
UpsertFails(k, v) ==
    /\ ~dbUp
    /\ IF hasInfiniteCache
       THEN /\ items' = [items EXCEPT ![k] = v]
            /\ cachedAll' = [(IF cachedAll = NothingCached THEN Empty ELSE cachedAll)
                                 EXCEPT ![k] = v]
       ELSE UNCHANGED <<items, cachedAll>>
    /\ UNCHANGED database

Put ==
    /\ \E d \in [Keys -> Versions] :
          /\ Receive([type |-> "put", data |-> d])
          /\ StoreInit(d)
    /\ Answer("notify")
    /\ regressed' = FALSE
    /\ UNCHANGED <<storeType, service, conn, dbUp, poller, state, isInitialized, ready, closing,
                   faults>>

Patch ==
    /\ \E k \in Keys, v \in Versions :
          /\ Receive([type |-> "patch", key |-> k, ver |-> v])
          /\ UpsertTaken(k, v) \/ UpsertRefused(k, v) \/ UpsertFails(k, v)
          /\ regressed' = (regressed \/ store'[k] < store[k])
    /\ Answer("valid")
    /\ UNCHANGED <<storeType, service, conn, dbUp, poller, state, isInitialized, ready, closing,
                   faults>>

\* maybeUpdateError sets the status, then storeUpdateFailed: with status
\* monitoring the event counts as processed (2a), without it the stream is
\* restarted (2b).
StoreUpdateFailed ==
    /\ pc = "failed"
    /\ UpdateStatus("Interrupted")
    /\ pc' = IF Monitoring THEN "valid" ELSE "restart"
    /\ UNCHANGED <<storeType, service, conn, events, contents, dbUp, poller, available,
                   storeStatusCh, isInitialized, ready, closing, faults, regressed>>

\* setInitializedAndNotifyClient(true)
setInitializedAndNotifyClient == isInitialized' = TRUE /\ ready' = TRUE

PutStored ==
    /\ pc = "notify"
    /\ setInitializedAndNotifyClient
    /\ pc' = "valid"
    /\ UNCHANGED <<storeType, service, conn, events, contents, dbUp, poller, available,
                   storeStatusCh, state, closing, faults, regressed>>

Processed ==
    /\ pc = "valid"
    /\ UpdateStatus("Valid")
    /\ pc' = "select"
    /\ UNCHANGED <<storeType, service, conn, events, contents, dbUp, poller, available,
                   storeStatusCh, isInitialized, ready, closing, faults, regressed>>

\* stream.Restart(): the library drops the connection and makes a new one.
RestartStream ==
    IF conn = "open" THEN conn' = "connecting" /\ events' = <<>>
                     ELSE UNCHANGED <<conn, events>>

Restart ==
    /\ pc = "restart"
    /\ RestartStream
    /\ pc' = "select"
    /\ UNCHANGED <<storeType, service, contents, dbUp, poller, available, storeStatusCh, state,
                   isInitialized, ready, closing, faults, regressed>>

\* Mutant: only a refresh makes the data source initialized.
StoreStatusRefreshOnly ==
    /\ pc = "select"
    /\ storeStatusCh # <<>>
    /\ storeStatusCh' = Tail(storeStatusCh)
    /\ IF Head(storeStatusCh) /\ NeedsRefresh
       THEN RestartStream /\ setInitializedAndNotifyClient
       ELSE UNCHANGED <<conn, events, isInitialized, ready>>
    /\ UNCHANGED <<storeType, service, contents, dbUp, poller, available, state, pc, closing,
                   faults, regressed>>

\* A notification from the store
StoreStatus ==
    /\ pc = "select"
    /\ storeStatusCh # <<>>
    /\ storeStatusCh' = Tail(storeStatusCh)
    /\ IF Head(storeStatusCh)
       THEN /\ IF NeedsRefresh THEN RestartStream ELSE UNCHANGED <<conn, events>>
            /\ setInitializedAndNotifyClient
       ELSE UNCHANGED <<conn, events, isInitialized, ready>>
    /\ UNCHANGED <<storeType, service, contents, dbUp, poller, available, state, pc, closing,
                   faults, regressed>>

\* Mutant: the stream is left open.
HaltNoClose ==
    /\ pc = "select"
    /\ closing # "no"
    /\ pc' = "done"
    /\ UNCHANGED <<storeType, service, conn, events, contents, dbUp, poller, available,
                   storeStatusCh, state, isInitialized, ready, closing, faults, regressed>>

\* Receiving from sp.halt, which Close has closed
Halt ==
    /\ pc = "select"
    /\ closing # "no"
    /\ conn' = "closed" /\ events' = <<>>
    /\ pc' = "done"
    /\ UNCHANGED <<storeType, service, contents, dbUp, poller, available, storeStatusCh, state,
                   isInitialized, ready, closing, faults, regressed>>

\* stream.Events was closed by the library
EventsClosed ==
    /\ pc = "select"
    /\ conn = "closed"
    /\ pc' = "done"
    /\ UNCHANGED <<storeType, service, conn, events, contents, dbUp, poller, available,
                   storeStatusCh, state, isInitialized, ready, closing, faults, regressed>>

-----------------------------------------------------------------------------
(* Close, once *)

Close ==
    /\ closing = "no"
    /\ closing' = "halted"
    /\ UNCHANGED <<storeType, service, conn, events, contents, dbUp, poller, available,
                   storeStatusCh, state, isInitialized, ready, pc, faults, regressed>>

\* RemoveStatusListener: what is received from the closed channel afterwards
\* says "not available" and has no effect.
CloseRemove ==
    /\ closing = "halted"
    /\ closing' = "removed"
    /\ UNCHANGED <<storeType, service, conn, events, contents, dbUp, poller, available,
                   storeStatusCh, state, isInitialized, ready, pc, faults, regressed>>

CloseOff ==
    /\ closing = "removed"
    /\ closing' = "closed"
    /\ UpdateStatus("Off")
    /\ UNCHANGED <<storeType, service, conn, events, contents, dbUp, poller, available,
                   storeStatusCh, isInitialized, ready, pc, faults, regressed>>

-----------------------------------------------------------------------------
ConsumeStream ==
    \/ Malformed \/ Ignored \/ Put \/ Patch
    \/ StoreUpdateFailed \/ PutStored \/ Processed \/ Restart
    \/ StoreStatus \/ Halt \/ EventsClosed

Environment ==
    \/ \E k \in Keys : Update(k)
    \/ \E k \in Keys, v \in Versions : RepeatPatch(k, v)
    \/ SendUnknown \/ RecoverableError \/ UnrecoverableError
    \/ DatabaseFails \/ ReadFails \/ ReadAll
    \/ \E k \in Keys : ReadItem(k)
    \/ Close

Poll == PollTick \/ PollWrite \/ PollSignal

Next ==
    \/ ConsumeStream \/ Environment
    \/ Connect \/ DatabaseRecovers \/ Poll
    \/ CloseRemove \/ CloseOff

Spec == Init /\ [][Next]_vars

\* The goroutines run; a connection that is retried without further errors is
\* made; a database without further failures works again and is polled.
FairSpec ==
    /\ Spec
    /\ WF_vars(ConsumeStream)
    /\ WF_vars(Connect) /\ WF_vars(DatabaseRecovers) /\ WF_vars(Poll)
    /\ WF_vars(CloseRemove \/ CloseOff)

-----------------------------------------------------------------------------
(* Properties *)

\* Every variable has its type.
TypeOK ==
    /\ service \in [Keys -> Versions] /\ database \in [Keys -> Versions]
    /\ items \in [Keys -> Versions \cup {Absent}]
    /\ cachedAll \in [Keys -> Versions] \cup {NothingCached}
    /\ \/ hasInfiniteCache
       \/ items = NothingCached /\ cachedAll = NothingCached /\ polling # "write"
    /\ snapshot \in [Keys -> Versions] /\ polling \in {"wait", "write", "signal"}
    /\ conn \in {"connecting", "open", "closed"}
    /\ events \in Seq(Events)
    /\ storeStatusCh \in Seq(BOOLEAN)
    /\ {dbUp, available, isInitialized, ready, regressed} \subseteq BOOLEAN
    /\ state \in States
    /\ pc \in {"subscribe", "select", "failed", "notify", "valid", "restart", "done"}
    /\ closing \in {"no", "halted", "removed", "closed"}
    /\ faults \in 0 .. MaxFaults
    /\ storeType \in Stores

\* The version of an item that the queued events will leave in the store, or
\* its present one.
Touches(e, k) == e.type = "put" \/ (e.type = "patch" /\ e.key = k)
EventVersion(e, k) == IF e.type = "put" THEN e.data[k] ELSE e.ver
WillBe(k) ==
    LET touching == {i \in DOMAIN events : Touches(events[i], k)}
        versions == {EventVersion(events[i], k) : i \in touching} \cup {store[k]}
    IN CHOOSE v \in versions : \A w \in versions : w <= v

\* What the scenarios of error handling rest on: whenever an update has been
\* lost, because the store refused it or because a broken event stood for it,
\* something is under way that makes the service send everything again.  Nothing
\* is where an infinite cache has gone back to an older version.
LostUpdatesAreRefetched ==
    (\E k \in Keys : WillBe(k) # service[k]) =>
        \/ conn # "open" \/ closing # "no" \/ regressed
        \/ \E i \in DOMAIN events : events[i].type = "malformed"
        \/ pc \in {"failed", "restart"}
        \/ Monitoring /\ (~available \/ \E i \in DOMAIN storeStatusCh : storeStatusCh[i])

\* Nothing the service has not had is ever stored, and no item that evaluations
\* read goes back to an older version, through reconnections, restarts and
\* repeated patches ("the object will only be updated if the existing version
\* is less than the new version").  The exceptions are those of an infinite
\* cache.  It compares a patch with the database only, so an older patch takes
\* an item back while the database is down or has not got what is cached; and
\* an outage before the first put ends with an empty collection written back.
StoreNeverGoesBack ==
    [][\A k \in Keys :
          /\ store'[k] <= service'[k]
          /\ store'[k] < store[k] =>
                /\ hasInfiniteCache
                /\ \/ items[k] = Absent
                   \/ /\ events # <<>>
                      /\ Head(events).type = "patch" /\ Head(events).ver < store[k]
                      /\ ~dbUp \/ database[k] < store[k]]_vars

\* The client is told to stop waiting only once the data source is initialized
\* or has failed for good.
ReadyMeansSettled == ready => isInitialized \/ conn = "closed"

\* Unless the stream is closed or has failed for good, or an infinite cache stays
\* at an older version that it went back to, the SDK ends up with the service's
\* data once errors and changes stop, and says so (the header comment's scenarios
\* 1 to 4).
Converges ==
    \/ <>(closing # "no" \/ conn = "closed")
    \/ <>[]regressed
    \/ <>[](store = service /\ state = "Valid" /\ isInitialized /\ ready)

\* After Close the stream is closed.
CloseEndsStream == closing = "closed" ~> pc = "done" /\ conn = "closed"

=============================================================================
