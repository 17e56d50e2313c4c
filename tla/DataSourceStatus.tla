-------------------------- MODULE DataSourceStatus --------------------------
(***************************************************************************)
(* The status of the data source: UpdateStatus, GetLastStatus, waitFor and *)
(* the outage tracker of DataSourceUpdateSinkImpl                          *)
(* (internal/datasource/data_source_update_sink_impl.go), and the order in *)
(* which FDv1.Stop shuts its parts down.                                   *)
(*                                                                         *)
(* Several goroutines update the status: the handler of the data source,   *)
(* the eventsource library's error callback, the application in Close.     *)
(* Each changes it under the lock and broadcasts it after releasing the    *)
(* lock.  One listener follows the broadcasts and one goroutine calls      *)
(* waitFor.  A status is its state; of an error it matters only whether    *)
(* there is one.  Channels have room (see Broadcaster for when they do     *)
(* not).                                                                   *)
(***************************************************************************)
EXTENDS Integers, Sequences

CONSTANTS
    Updaters,      \* goroutines of the data source that call UpdateStatus
    App,           \* the goroutine that closes the client
    Reported,      \* the states they report; "" is accepted and ignored
    Desired,       \* the argument of waitFor
    OutageLoggingTimeout,  \* 0 for none: outages are not tracked
    MaxUpdates     \* bound on the calls of UpdateStatus

States == {"Initializing", "Valid", "Interrupted", "Off"}
None == "none"

ASSUME AppAssumption == App \notin Updaters
ASSUME StatesAssumption == Desired \in States /\ Reported \subseteq States \cup {""}
ASSUME BoundsAssumption == MaxUpdates \in Nat

VARIABLES
    state,      \* currentStatus.State
    outbox,     \* the status each goroutine has yet to broadcast, or None
    latest,     \* the last status the listener received
    closed,     \* where Stop is: "no", "source" (data source closed) or "all"
    waiter,     \* where waitFor is: "idle", "waiting", "yes" or "no"
    statusCh,   \* waitFor's channel
    since,      \* history: which of Ends there have been since waitFor was called
    inOutage,
    timeoutCloser,  \* the outage whose timer it belongs to, or 0
    stopped,    \* the outages whose closer has been closed
    timer,      \* the timer goroutine of each outage
    outage,     \* history: number of the current or last outage
    reports,    \* history: the outages that have been reported
    overlapped, \* history: has an update been made while another goroutine had
                \* yet to broadcast one
    updates     \* number of updates so far

statusVars == <<state, outbox, latest, closed>>
waitVars == <<waiter, statusCh, since>>
outageVars == <<inOutage, timeoutCloser, stopped, timer, outage, reports>>
allStatusVars == <<statusVars, waitVars, outageVars, overlapped, updates>>

Outages == 1 .. MaxUpdates
Ends == {Desired, "Off"}      \* the states that end waitFor

StatusInit ==
    /\ state = "Initializing" /\ latest = "Initializing"
    /\ outbox = [u \in Updaters \cup {App} |-> None]
    /\ closed = "no"
    /\ waiter = "idle" /\ statusCh = <<>> /\ since = {}
    /\ inOutage = FALSE /\ timeoutCloser = 0 /\ stopped = {}
    /\ timer = [o \in Outages |-> None]
    /\ outage = 0 /\ reports = {}
    /\ overlapped = FALSE
    /\ updates = 0

\* An update by u while another goroutine's broadcast is outstanding
NoteOverlap(u) ==
    overlapped' = (overlapped \/ \E w \in (Updaters \cup {App}) \ {u} : outbox[w] # None)

-----------------------------------------------------------------------------
\* Mutant: an outage that begins starts no timer.
trackOutageNoTimer(newState, isError) ==
    LET bad == newState = "Interrupted" \/ isError \/ (newState = "Initializing" /\ inOutage)
    IN /\ inOutage' = bad
       /\ outage' = IF bad /\ ~inOutage THEN outage + 1 ELSE outage
       /\ UNCHANGED <<timeoutCloser, stopped, timer, reports>>

\* trackDataSourceState, under its lock
trackOutage(newState, isError) ==
    IF newState = "Interrupted" \/ isError \/ (newState = "Initializing" /\ inOutage)
    THEN IF inOutage THEN UNCHANGED outageVars
         ELSE /\ inOutage' = TRUE
              /\ outage' = outage + 1
              /\ timeoutCloser' = outage + 1
              /\ timer' = [timer EXCEPT ![outage + 1] = "waiting"]
              /\ UNCHANGED <<stopped, reports>>
    ELSE /\ inOutage' = FALSE
         /\ stopped' = IF timeoutCloser = 0 THEN stopped ELSE stopped \cup {timeoutCloser}
         /\ timeoutCloser' = 0
         /\ UNCHANGED <<timer, outage, reports>>

\* trackDataSourceState(newState, newError)
trackDataSourceState(newState, isError) ==
    IF OutageLoggingTimeout = 0 THEN UNCHANGED outageVars ELSE trackOutage(newState, isError)

\* Mutant: only errors are broadcast.
maybeUpdateStatusErrorsOnly(u, newState, isError) ==
    LET effective == IF newState = "Interrupted" /\ state = "Initializing"
                     THEN "Initializing" ELSE newState
    IN IF effective = state /\ ~isError
       THEN UNCHANGED <<state, outbox, since>> /\ UNCHANGED outageVars
       ELSE /\ state' = effective
            /\ outbox' = [outbox EXCEPT ![u] = IF isError THEN effective ELSE None]
            /\ since' = IF waiter = "waiting" THEN since \cup ({effective} \cap Ends) ELSE since
            /\ trackDataSourceState(effective, isError)

\* maybeUpdateStatus(newState, newError), under the lock
maybeUpdateStatus(u, newState, isError) ==
    LET effective == IF newState = "Interrupted" /\ state = "Initializing"
                     THEN "Initializing" ELSE newState
    IN IF effective = state /\ ~isError
       THEN UNCHANGED <<state, outbox, since>> /\ UNCHANGED outageVars
       ELSE /\ state' = effective
            /\ outbox' = [outbox EXCEPT ![u] = effective]
            /\ since' = IF waiter = "waiting" THEN since \cup ({effective} \cap Ends) ELSE since
            /\ trackDataSourceState(effective, isError)

\* UpdateStatus by the data source; nothing keeps it from following Off.
UpdateStatus(u, newState, isError) ==
    /\ outbox[u] = None
    /\ updates < MaxUpdates
    /\ updates' = updates + 1
    /\ NoteOverlap(u)
    /\ IF newState = "" THEN UNCHANGED <<state, outbox, since>> /\ UNCHANGED outageVars
                        ELSE maybeUpdateStatus(u, newState, isError)
    /\ UNCHANGED <<latest, closed, waiter, statusCh>>

\* Its second half: the broadcast, after the lock was released
Broadcast(u) ==
    /\ outbox[u] # None
    /\ outbox' = [outbox EXCEPT ![u] = None]
    /\ latest' = IF closed = "all" THEN latest ELSE outbox[u]
    /\ statusCh' = IF closed # "all" /\ waiter = "waiting"
                   THEN Append(statusCh, outbox[u]) ELSE statusCh
    /\ UNCHANGED <<state, closed, waiter, since, overlapped, updates>> /\ UNCHANGED outageVars

-----------------------------------------------------------------------------
\* Mutant: the present state is not looked at.
waitForNoCheck ==
    /\ waiter = "idle" /\ closed = "no"
    /\ waiter' = "waiting"
    /\ since' = {state} \cap Ends
    /\ UNCHANGED statusVars /\ UNCHANGED outageVars /\ UNCHANGED <<statusCh, overlapped, updates>>

\* waitFor(desiredState, timeout): the state is checked and the listener added
\* under the lock.  A client that is being closed is no longer used.
waitFor ==
    /\ waiter = "idle" /\ closed = "no"
    /\ waiter' = IF state = Desired THEN "yes" ELSE IF state = "Off" THEN "no" ELSE "waiting"
    /\ since' = {state} \cap Ends
    /\ UNCHANGED statusVars /\ UNCHANGED outageVars /\ UNCHANGED <<statusCh, overlapped, updates>>

\* Mutant: Off ends the wait with success.
WaitReceiveOff ==
    /\ waiter = "waiting"
    /\ statusCh # <<>>
    /\ IF Head(statusCh) \in Ends
       THEN waiter' = "yes" /\ statusCh' = <<>>
       ELSE statusCh' = Tail(statusCh) /\ UNCHANGED waiter
    /\ UNCHANGED statusVars /\ UNCHANGED outageVars /\ UNCHANGED <<since, overlapped, updates>>

\* A status is received.  The closed channel yields one that is neither the
\* desired state nor Off, and the loop goes on.
WaitReceive ==
    /\ waiter = "waiting"
    /\ statusCh # <<>>
    /\ LET s == Head(statusCh)
       IN IF s \in Ends
          THEN /\ waiter' = IF s = Desired THEN "yes" ELSE "no"
               /\ statusCh' = <<>>
          ELSE /\ statusCh' = Tail(statusCh)
               /\ UNCHANGED waiter
    /\ UNCHANGED statusVars /\ UNCHANGED outageVars /\ UNCHANGED <<since, overlapped, updates>>

WaitTimeout ==
    /\ waiter = "waiting"
    /\ waiter' = "no" /\ statusCh' = <<>>
    /\ UNCHANGED statusVars /\ UNCHANGED outageVars /\ UNCHANGED <<since, overlapped, updates>>

-----------------------------------------------------------------------------
(* awaitTimeout *)

\* The select ends: with the closer, or with the timeout (either may be taken
\* when both are ready)
TimerStopped(o) ==
    /\ timer[o] = "waiting"
    /\ o \in stopped
    /\ timer' = [timer EXCEPT ![o] = "done"]
    /\ UNCHANGED <<inOutage, timeoutCloser, stopped, outage, reports, overlapped, updates>>
    /\ UNCHANGED statusVars /\ UNCHANGED waitVars

TimerElapses(o) ==
    /\ timer[o] = "waiting"
    /\ timer' = [timer EXCEPT ![o] = "due"]
    /\ UNCHANGED <<inOutage, timeoutCloser, stopped, outage, reports, overlapped, updates>>
    /\ UNCHANGED statusVars /\ UNCHANGED waitVars

\* The rest of it, under the tracker's lock
ReportOutage(o) ==
    /\ timer[o] = "due"
    /\ timer' = [timer EXCEPT ![o] = "done"]
    /\ IF inOutage THEN timeoutCloser' = 0 /\ reports' = reports \cup {outage}
                   ELSE UNCHANGED <<timeoutCloser, reports>>
    /\ UNCHANGED <<inOutage, stopped, outage, overlapped, updates>>
    /\ UNCHANGED statusVars /\ UNCHANGED waitVars

-----------------------------------------------------------------------------
(* FDv1.Stop with a streaming data source, whose Close reports Off *)

CloseDataSource ==
    /\ closed = "no"
    /\ closed' = "source"
    /\ NoteOverlap(App)
    /\ maybeUpdateStatus(App, "Off", FALSE)
    /\ UNCHANGED <<latest, waiter, statusCh, updates>>

CloseBroadcasters ==
    /\ closed = "source"
    /\ outbox[App] = None
    /\ closed' = "all"
    /\ UNCHANGED <<state, outbox, latest, overlapped, updates>>
    /\ UNCHANGED waitVars /\ UNCHANGED outageVars

-----------------------------------------------------------------------------
StatusNext ==
    \/ \E u \in Updaters, s \in Reported, e \in BOOLEAN : UpdateStatus(u, s, e)
    \/ \E u \in Updaters \cup {App} : Broadcast(u)
    \/ waitFor \/ WaitReceive \/ WaitTimeout
    \/ \E o \in Outages : TimerStopped(o) \/ TimerElapses(o) \/ ReportOutage(o)
    \/ CloseDataSource \/ CloseBroadcasters

StatusSpec == StatusInit /\ [][StatusNext]_allStatusVars

\* A goroutine that has changed the status goes on to broadcast it, waitFor
\* receives what it is sent, time passes, and Stop goes on.
FairStatusSpec ==
    /\ StatusSpec
    /\ \A u \in Updaters \cup {App} : WF_allStatusVars(Broadcast(u))
    /\ WF_allStatusVars(WaitReceive)
    /\ \A o \in Outages : /\ WF_allStatusVars(TimerStopped(o) \/ TimerElapses(o))
                           /\ WF_allStatusVars(ReportOutage(o))
    /\ WF_allStatusVars(CloseBroadcasters)

-----------------------------------------------------------------------------
(* Properties *)

\* Every variable has its type.
StatusTypeOK ==
    /\ state \in States /\ latest \in States
    /\ outbox \in [Updaters \cup {App} -> States \cup {None}]
    /\ closed \in {"no", "source", "all"}
    /\ waiter \in {"idle", "waiting", "yes", "no"}
    /\ statusCh \in Seq(States)
    /\ since \subseteq Ends
    /\ inOutage \in BOOLEAN
    /\ timeoutCloser \in Outages \cup {0}
    /\ stopped \subseteq Outages
    /\ timer \in [Outages -> {None, "waiting", "due", "done"}]
    /\ outage \in 0 .. MaxUpdates
    /\ reports \subseteq Outages
    /\ overlapped \in BOOLEAN
    /\ updates \in 0 .. MaxUpdates

\* Once every change has been broadcast, the last status a listener received
\* is the current one ("provides a status update whenever the connection has an
\* error or starts working again"), until the broadcasters are closed.  UpdateStatus
\* broadcasts outside its lock, so overlapping updates may arrive in the other order.
ListenerIsCurrent ==
    closed # "all" /\ ~overlapped /\ (\A u \in Updaters \cup {App} : outbox[u] = None)
        => latest = state

\* waitFor says yes only if the state has been the desired one at the time of
\* the call or since ("it blocks until 1. the state has become desiredState").
\* Of overlapping updates one from before the call may be broadcast after it.
WaitForIsSound == waiter = "yes" /\ ~overlapped => Desired \in since

\* waitFor misses nothing: if the desired state, or Off, comes while it waits, it
\* returns, unless Stop closes the broadcasters between an update and its broadcast;
\* and closing the client ends it ("blocks until ... the state has become
\* DataSourceStateOff"), because the data source is closed before the broadcasters.
WaitForReturns ==
    /\ waiter = "waiting" /\ since # {}
          ~> waiter # "waiting" \/ (overlapped /\ closed = "all")
    /\ closed = "all" /\ ~overlapped ~> waiter # "waiting"

\* An outage that does not end is reported, if there is a timeout for it.
OutageIsReported ==
    \A o \in Outages : (inOutage /\ outage = o) ~> (~inOutage \/ o \in reports)

\* The timer's closer belongs to the current outage: ending it stops the timer
\* of that outage and of no other.
CloserIsCurrent == timeoutCloser # 0 => inOutage /\ timeoutCloser = outage
=============================================================================
