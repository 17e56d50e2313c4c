---------------------------- MODULE PollingSource ----------------------------
(***************************************************************************)
(* The FDv1 data system with its polling data source: a goroutine that     *)
(* requests everything at every tick, an HTTP cache between it and the     *)
(* service, and the data store that the client reads.  What the source     *)
(* reports as its status is in DataSourceStatus.                           *)
(*                                                                         *)
(* Data is a version; the flag that is evaluated has a content in each.    *)
(***************************************************************************)
EXTENDS Naturals, Sequences

CONSTANTS
    Contents,       \* what the flag may be: "absent", or a value
    FirstContents,  \* what it may be in the first version
    MaxVersions,    \* bound on the versions of the service's data
    MaxFaults       \* bound on errors of any kind

ASSUME BoundsAssumption == MaxVersions \in Nat \ {0} /\ MaxFaults \in Nat

VARIABLES
    offline,        \* Config.Offline
    storeKind,      \* "memory" or "persistent"
    served,         \* the flag's content in each version of the service's data
    dataStore,      \* whether it is initialized, and the version it has
    etag,           \* the version that the HTTP cache holds, 0 for none
    poller,         \* position of the polling goroutine
    isInitialized,
    ready,          \* closeWhenReady is closed
    quit,           \* pp.quit is closed
    lost,           \* history: the last data received never reached the store
    faults

sourceVars == <<offline, storeKind, served, dataStore, etag, poller, isInitialized, ready, quit,
                lost, faults>>
config == <<offline, storeKind>>

Latest == Len(served)
Content(ver) == IF ver = 0 THEN "absent" ELSE served[ver]
Fault == faults < MaxFaults /\ faults' = faults + 1

\* A persistent store may have data from an earlier process; the null data source
\* of an offline client is initialized from the beginning.
SourceInit ==
    /\ offline \in BOOLEAN /\ storeKind \in {"memory", "persistent"}
    /\ served \in {<<c>> : c \in FirstContents}
    /\ dataStore \in {[inited |-> FALSE, ver |-> 0]} \cup
           IF storeKind = "memory" THEN {} ELSE {[inited |-> TRUE, ver |-> 1]}
    /\ etag = 0 /\ poller = "off"
    /\ isInitialized = offline /\ ready = FALSE /\ quit = FALSE
    /\ lost = FALSE /\ faults = 0

DataAvailability ==
    IF offline THEN "Defaults"
    ELSE IF isInitialized THEN "Refreshed"
    ELSE IF dataStore.inited THEN "Cached" ELSE "Defaults"

\* Get of the data store: the flag's content and the version it is from
Get == [ver |-> dataStore.ver, content |-> Content(dataStore.ver)]

Publish ==
    /\ Latest < MaxVersions
    /\ \E c \in Contents : served' = Append(served, c)
    /\ UNCHANGED <<config, dataStore, etag, poller, isInitialized, ready, quit, lost, faults>>

\* Start of the data source; the null one is ready at once.
Start ==
    /\ IF offline THEN ready' = TRUE /\ poller' = "done"
                  ELSE ready' = FALSE /\ poller' = "select"
    /\ UNCHANGED <<config, served, dataStore, etag, isInitialized, quit, lost, faults>>

\* A tick: a response from the service, or one that the HTTP cache answers
Request ==
    /\ poller = "select"
    /\ etag' = Latest
    /\ poller' = IF etag = Latest THEN "initialized" ELSE "init"
    /\ UNCHANGED <<config, served, dataStore, isInitialized, ready, quit, lost, faults>>

\* parseAllStoreDataFromJSONReader fails: the response has been cached all the same.
RequestMalformed ==
    /\ poller = "select" /\ etag # Latest
    /\ Fault
    /\ etag' = Latest /\ lost' = TRUE
    /\ UNCHANGED <<config, served, dataStore, poller, isInitialized, ready, quit>>

\* A network error or a recoverable HTTP error
RequestFails ==
    /\ poller = "select"
    /\ Fault
    /\ UNCHANGED <<config, served, dataStore, etag, poller, isInitialized, ready, quit, lost>>

RequestRejected ==
    /\ poller = "select"
    /\ ready' = TRUE /\ poller' = "done"
    /\ UNCHANGED <<config, served, dataStore, etag, isInitialized, quit, lost, faults>>

\* Mutant: the update is dropped when the store has data already.
StoreInitOnce ==
    /\ poller = "init"
    /\ dataStore' = IF dataStore.inited THEN dataStore ELSE [inited |-> TRUE, ver |-> etag]
    /\ lost' = FALSE
    /\ poller' = "initialized"
    /\ UNCHANGED <<config, served, etag, isInitialized, ready, quit, faults>>

\* Init of the update sink and the store
StoreInit ==
    /\ poller = "init"
    /\ dataStore' = [inited |-> TRUE, ver |-> etag]
    /\ lost' = FALSE
    /\ poller' = "initialized"
    /\ UNCHANGED <<config, served, etag, isInitialized, ready, quit, faults>>

\* poll ignores the result of Init.
StoreInitFails ==
    /\ poller = "init" /\ storeKind = "persistent"
    /\ Fault
    /\ lost' = TRUE
    /\ poller' = "initialized"
    /\ UNCHANGED <<config, served, dataStore, etag, isInitialized, ready, quit>>

\* setInitializedOnce
SetInitialized ==
    /\ poller = "initialized"
    /\ isInitialized' = TRUE
    /\ poller' = IF ready THEN "select" ELSE "notify"
    /\ UNCHANGED <<config, served, dataStore, etag, ready, quit, lost, faults>>

NotifyReady ==
    /\ poller = "notify"
    /\ ready' = TRUE /\ poller' = "select"
    /\ UNCHANGED <<config, served, dataStore, etag, isInitialized, quit, lost, faults>>

\* Mutant: the goroutine ends without a word.
QuitSilently ==
    /\ poller = "select" /\ quit
    /\ poller' = "done"
    /\ UNCHANGED <<config, served, dataStore, etag, isInitialized, ready, quit, lost, faults>>

\* The deferred notifyReady ends the client's wait.
Quit ==
    /\ poller = "select" /\ quit
    /\ ready' = TRUE /\ poller' = "done"
    /\ UNCHANGED <<config, served, dataStore, etag, isInitialized, quit, lost, faults>>

\* Close of the data source, by Stop of the data system
CloseSource ==
    /\ quit' = TRUE
    /\ UNCHANGED <<config, served, dataStore, etag, poller, isInitialized, ready, lost, faults>>

PollStep == Request \/ StoreInit \/ SetInitialized \/ NotifyReady
PollFault == RequestMalformed \/ RequestFails \/ RequestRejected \/ StoreInitFails
=============================================================================
