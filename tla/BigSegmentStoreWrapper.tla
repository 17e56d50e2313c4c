------------------------ MODULE BigSegmentStoreWrapper ------------------------
(***************************************************************************)
(* The wrapper of a Big Segment store: memberships are cached and queries  *)
(* for the same context are shared; a polling task, or the first caller    *)
(* that needs it, asks for the store's metadata and reports changes of the *)
(* status.  Goroutines of the application call it, for one context, while  *)
(* polling is switched on and off, the cache is cleared, and Close is      *)
(* called.                                                                 *)
(*                                                                         *)
(* A membership is the version of the store's data that it is from; in     *)
(* version 0 the store knows nothing of the context.                       *)
(***************************************************************************)
EXTENDS Naturals, FiniteSets

CONSTANTS
    Callers,        \* goroutines that call GetMembership and GetStatus
    MaxPollers,     \* bound on the polling tasks that exist at once
    MaxVersions,    \* bound on the versions of the store's data
    MaxChanges,     \* bound on the changes of the store's status
    None, Asked, Failed

ASSUME BoundsAssumption ==
    MaxPollers \in Nat \ {0} /\ MaxVersions \in Nat /\ MaxChanges \in Nat
ASSUME MarksAssumption ==
    None # Asked /\ None # Failed /\ Asked # Failed /\ {None, Asked, Failed} \cap Nat = {}

Pollers == 1 .. MaxPollers

ASSUME CallersAssumption == Callers \cap Pollers = {}

VARIABLES
    store,          \* what a query of its metadata tells: "ok", "stale" or "unavailable"
    version,        \* the version of its data
    changes,
    lastStatus,     \* of the wrapper, "none" without haveStatus
    told,           \* the last status given to statusUpdateFn
    raced,          \* history: two changes were being reported at once
    entry,          \* the cache: a version, or None (an expired entry is like none)
    flight,         \* the shared query: None, Asked, or its answer
    pollingActive,
    pollCloser,     \* the polling task that it stops, 0 for nil
    stopped,        \* the tasks whose channel is closed
    closed,         \* Close has been called, and w.contextCache is nil
    cleared,        \* history: the version when the cache was last cleared in peace
    pc,             \* position of each caller and each polling task
    got,            \* the membership or the metadata that each has
    floor           \* history: cleared, when the call began

environment == <<store, version, changes>>
status == <<lastStatus, told, raced>>
cache == <<entry, flight>>
polling == <<pollingActive, pollCloser, stopped, closed>>
local == <<pc, got>>
vars == <<environment, status, cache, polling, local, cleared, floor>>

Init ==
    /\ store = "ok" /\ version = 0 /\ changes = 0
    /\ lastStatus = "none" /\ told = "none" /\ raced = FALSE
    /\ entry = None /\ flight = None
    /\ pollingActive \in BOOLEAN /\ stopped = {} /\ closed = FALSE
    /\ pollCloser = IF pollingActive THEN 1 ELSE 0
    /\ pc = [p \in Callers \cup Pollers |->
                IF p \in Callers THEN "idle" ELSE IF p = pollCloser THEN "wait" ELSE "off"]
    /\ got = [p \in Callers \cup Pollers |-> None]
    /\ cleared = 0 /\ floor = [c \in Callers |-> 0]

Goto(p, label) == pc' = [pc EXCEPT ![p] = label]
Take(p, label, value) == Goto(p, label) /\ got' = [got EXCEPT ![p] = value]

\* The store becomes stale, unavailable or healthy; its data changes.
StoreChanges ==
    /\ \/ changes < MaxChanges /\ store' \in {"ok", "stale", "unavailable"} \ {store}
          /\ changes' = changes + 1 /\ UNCHANGED version
       \/ version < MaxVersions /\ version' = version + 1 /\ UNCHANGED <<store, changes>>
    /\ UNCHANGED <<status, cache, polling, local, cleared, floor>>

-----------------------------------------------------------------------------
(* GetMembership *)

\* safeCacheGet
CacheGet(c) ==
    /\ pc[c] = "idle"
    /\ floor' = [floor EXCEPT ![c] = cleared]
    /\ IF ~closed /\ entry # None THEN Take(c, "status", entry) ELSE Take(c, "join", None)
    /\ UNCHANGED <<environment, status, cache, polling, cleared>>

\* requests.Do: the query is made, or joined.
Join(c) ==
    /\ pc[c] = "join"
    /\ Goto(c, "flight")
    /\ flight' = IF flight = None THEN Asked ELSE flight
    /\ UNCHANGED <<environment, status, entry, polling, got, cleared, floor>>

Query ==
    /\ flight = Asked
    /\ flight' = IF store = "unavailable" THEN Failed ELSE version
    /\ UNCHANGED <<environment, status, entry, polling, local, cleared, floor>>

\* All who wait for the query get its answer.
QueryReturns ==
    /\ flight \notin {None, Asked}
    /\ flight' = None
    /\ LET waiting == {c \in Callers : pc[c] = "flight"}
       IN /\ pc' = [p \in DOMAIN pc |-> IF p \in waiting THEN "set" ELSE pc[p]]
          /\ got' = [p \in DOMAIN got |-> IF p \in waiting THEN flight ELSE got[p]]
    /\ UNCHANGED <<environment, status, entry, polling, cleared, floor>>

\* safeCacheSet, unless the query has failed; a context that is not found is healthy.
CacheSet(c) ==
    /\ pc[c] = "set"
    /\ entry' = IF ~closed /\ got[c] # Failed THEN got[c] ELSE entry
    /\ IF got[c] \in {Failed, 0} THEN Take(c, "return", None) ELSE Goto(c, "status") /\ UNCHANGED got
    /\ UNCHANGED <<environment, status, flight, polling, cleared, floor>>

\* The entry expires, or is dropped from a full cache.
Expire ==
    /\ entry # None /\ entry' = None
    /\ UNCHANGED <<environment, status, flight, polling, local, cleared, floor>>

\* Mutant: nothing is removed.
ClearNothing ==
    /\ cleared' = IF flight = None /\ \A c \in Callers : pc[c] # "set" THEN version ELSE cleared
    /\ UNCHANGED <<environment, status, cache, polling, local, floor>>

\* ClearCache; a query that is under way will fill the cache again.
ClearCache ==
    /\ entry' = None
    /\ cleared' = IF flight = None /\ \A c \in Callers : pc[c] # "set" THEN version ELSE cleared
    /\ UNCHANGED <<environment, status, flight, polling, local, floor>>

\* GetStatus of a caller: the last status, or the first one
GetStatus(c) ==
    /\ pc[c] = "status"
    /\ Take(c, IF lastStatus = "none" THEN "metadata" ELSE "return", None)
    /\ UNCHANGED <<environment, status, cache, polling, cleared, floor>>

Return(c) ==
    /\ pc[c] = "return"
    /\ Take(c, "idle", None)
    /\ floor' = [floor EXCEPT ![c] = 0]
    /\ UNCHANGED <<environment, status, cache, polling, cleared>>

-----------------------------------------------------------------------------
(* The status *)

\* GetMetadata; a caller keeps its membership, which is not used any more.
GetMetadata(p) ==
    /\ pc[p] = "metadata"
    /\ Take(p, "update", store)
    /\ UNCHANGED <<environment, status, cache, polling, cleared, floor>>

Reported(p) == IF p \in Callers THEN "return" ELSE "wait"

\* Mutant: the first status is not a change.
UpdateStatusLater(p) ==
    /\ pc[p] = "update"
    /\ lastStatus' = got[p]
    /\ IF lastStatus \in {"none", got[p]} THEN Take(p, Reported(p), None) /\ UNCHANGED raced
       ELSE /\ Goto(p, "notify") /\ UNCHANGED got
            /\ raced' = \E q \in DOMAIN pc : pc[q] = "notify"
    /\ UNCHANGED <<environment, told, cache, polling, cleared, floor>>

\* The critical section of pollStoreAndUpdateStatus; the report comes after it.
UpdateStatus(p) ==
    /\ pc[p] = "update"
    /\ lastStatus' = got[p]
    /\ IF lastStatus = got[p] THEN Take(p, Reported(p), None) /\ UNCHANGED raced
       ELSE /\ Goto(p, "notify") /\ UNCHANGED got
            /\ raced' = \E q \in DOMAIN pc : pc[q] = "notify"
    /\ UNCHANGED <<environment, told, cache, polling, cleared, floor>>

Notify(p) ==
    /\ pc[p] = "notify"
    /\ told' = got[p]
    /\ Take(p, Reported(p), None)
    /\ UNCHANGED <<environment, lastStatus, raced, cache, polling, cleared, floor>>

-----------------------------------------------------------------------------
(* The polling task *)

Tick(p) ==
    /\ pc[p] = "wait"
    /\ Goto(p, "metadata")
    /\ UNCHANGED <<environment, status, cache, polling, got, cleared, floor>>

Stop(p) ==
    /\ pc[p] = "wait" /\ p \in stopped
    /\ Goto(p, "off") /\ stopped' = stopped \ {p}
    /\ UNCHANGED <<environment, status, cache, pollingActive, pollCloser, closed, got, cleared,
                   floor>>

SetPollingActive(active) ==
    /\ pollingActive # active /\ pollingActive' = active
    /\ IF active
       THEN \E p \in Pollers :
              /\ pc[p] = "off"
              /\ Goto(p, "wait") /\ pollCloser' = p /\ UNCHANGED stopped
       ELSE /\ stopped' = IF pollCloser = 0 THEN stopped ELSE stopped \cup {pollCloser}
            /\ pollCloser' = 0 /\ UNCHANGED pc
    /\ UNCHANGED <<environment, status, cache, closed, got, cleared, floor>>

\* Mutant: the polling task goes on.
CloseCache ==
    /\ closed' = TRUE /\ pollCloser' = 0 /\ UNCHANGED <<stopped, pollingActive>>
    /\ entry' = None
    /\ UNCHANGED <<environment, status, flight, local, cleared, floor>>

\* Close; closing the store is the end of its use.
Close ==
    /\ closed' = TRUE
    /\ stopped' = IF pollCloser = 0 THEN stopped ELSE stopped \cup {pollCloser}
    /\ pollCloser' = 0 /\ UNCHANGED pollingActive
    /\ entry' = None
    /\ UNCHANGED <<environment, status, flight, local, cleared, floor>>

-----------------------------------------------------------------------------
CallStep(c) == Join(c) \/ CacheSet(c) \/ GetStatus(c) \/ Return(c)
StatusStep(p) == GetMetadata(p) \/ UpdateStatus(p) \/ Notify(p)
Step ==
    \/ \E c \in Callers : CallStep(c)
    \/ \E p \in Callers \cup Pollers : StatusStep(p)
    \/ Query \/ QueryReturns

Next ==
    \/ Step \/ StoreChanges \/ Expire \/ ClearCache \/ Close
    \/ \E c \in Callers : CacheGet(c)
    \/ \E p \in Pollers : Tick(p) \/ Stop(p)
    \/ \E active \in BOOLEAN : SetPollingActive(active)

Spec == Init /\ [][Next]_vars

\* Goroutines run, tickers tick, and select picks a closed channel in the end.
FairSpec ==
    /\ Spec
    /\ \A c \in Callers : WF_vars(CallStep(c))
    /\ \A p \in Callers \cup Pollers : WF_vars(StatusStep(p))
    /\ WF_vars(Query \/ QueryReturns)
    /\ \A p \in Pollers : WF_vars(Tick(p)) /\ SF_vars(Stop(p))

-----------------------------------------------------------------------------
(* Properties *)

\* "subsequent queries will get the latest data" (ClearCache): a call that begins
\* after the cache was cleared has no older data, unless a query was under way then.
ClearedCacheStaysCleared ==
    \A c \in Callers :
        pc[c] = "status" \/ (pc[c] = "set" /\ got[c] # Failed) => got[c] >= floor[c]

\* While polling goes on, the status becomes that of the store, and "statusUpdateFn
\* will be called whenever the store status has changed"
\* (NewBigSegmentStoreWrapperWithConfig): its last call tells this status, unless two
\* changes were reported at once.
StatusConverges ==
    \/ []<>~pollingActive \/ <>closed
    \/ <>[](lastStatus = store /\ (told = store \/ raced))

\* Close ends the polling task, unless SetPollingActive has started a new one.
CloseEndsPolling ==
    closed ~> pollCloser # 0 \/ \A p \in Pollers : pc[p] = "off"
=============================================================================
