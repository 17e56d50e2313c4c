-------------------------------- MODULE Client --------------------------------
(***************************************************************************)
(* The client: its construction and start, calls of the application, and   *)
(* Close, while the data source works.                                     *)
(***************************************************************************)
EXTENDS Migrator

VARIABLES
    made,           \* position in MakeCustomClient, then what it returned
    parts,          \* the components that exist and have not been closed
    closing         \* position in Close

clientVars == <<made, parts, closing>>
vars == <<sourceVars, callVars, migrationVars, clientVars>>

Usable == made \in {"ok", "failed", "timeout", "nowait"} /\ closing = "no"
Application == <<callVars, migrationVars>>

Init ==
    /\ SourceInit /\ Idle /\ NoOperation
    /\ made = "context" /\ parts = {} /\ closing = "no"

-----------------------------------------------------------------------------
(* MakeCustomClient *)

\* What is built, in order: the client's context, the store and the source of the
\* data system, the big segments, the event processor
Stage(s) ==
    CASE s = "context" -> [next |-> "store", part |-> {}]
      [] s = "store" -> [next |-> "source", part |-> {"store"}]
      [] s = "source" -> [next |-> "segments", part |-> {"source", "system"}]
      [] s = "segments" -> [next |-> "events", part |-> {"broadcaster", "segments"}]
      [] s = "events" -> [next |-> "start", part |-> {"events"}]

BuildPart ==
    /\ made \in {"context", "store", "source", "segments", "events"}
    /\ made' = Stage(made).next
    /\ parts' = parts \cup Stage(made).part
    /\ UNCHANGED <<closing, Application, sourceVars>>

\* An error is returned: the deferred Close disposes of what the client has.
BuildFails ==
    /\ made \in {"context", "store", "source", "segments", "events"}
    /\ Fault
    /\ made' = "nil" /\ closing' = "events"
    /\ UNCHANGED <<parts, Application, offline, storeKind, served, dataStore, etag,
                   poller, isInitialized, ready, quit, lost>>

\* With waitFor = 0, or offline, the client is returned at once.
StartSource ==
    /\ made = "start"
    /\ Start
    /\ made' \in IF offline THEN {"nowait"} ELSE {"wait", "nowait"}
    /\ UNCHANGED <<parts, closing, Application>>

\* Mutant: the end of the wait is taken for success.
WaitReadyOk ==
    /\ made = "wait" /\ ready
    /\ made' = "ok"
    /\ UNCHANGED <<parts, closing, Application, sourceVars>>

WaitReady ==
    /\ made = "wait" /\ ready
    /\ made' = IF DataAvailability = "Refreshed" THEN "ok" ELSE "failed"
    /\ UNCHANGED <<parts, closing, Application, sourceVars>>

WaitTimeout ==
    /\ made = "wait"
    /\ made' = "timeout"
    /\ UNCHANGED <<parts, closing, Application, sourceVars>>

\* go func() { <-closeWhenReady }(), when the client does not wait or no longer waits
Draining == made \in {"timeout", "nowait"} /\ ~ready

-----------------------------------------------------------------------------
(* Close *)

\* An application closes the client when it has finished with it.
BeginClose ==
    /\ Usable /\ pc = "idle"
    /\ closing' = "events"
    /\ UNCHANGED <<made, parts, Application, sourceVars>>

CloseEvents ==
    /\ closing = "events"
    /\ parts' = parts \ {"events"} /\ closing' = "system"
    /\ UNCHANGED <<made, Application, sourceVars>>

\* Mutant: the data source is closed, the data store is not.
CloseSystemSource ==
    /\ closing = "system"
    /\ IF "system" \in parts
       THEN CloseSource /\ parts' = parts \ {"source", "system"}
       ELSE UNCHANGED <<parts, sourceVars>>
    /\ closing' = "broadcaster"
    /\ UNCHANGED <<made, Application>>

\* Stop of the data system, which the client only has when it is complete
CloseSystem ==
    /\ closing = "system"
    /\ IF "system" \in parts
       THEN CloseSource /\ parts' = parts \ {"store", "source", "system"}
       ELSE UNCHANGED <<parts, sourceVars>>
    /\ closing' = "broadcaster"
    /\ UNCHANGED <<made, Application>>

CloseSegments ==
    /\ closing = "broadcaster"
    /\ parts' = parts \ {"broadcaster", "segments"} /\ closing' = "done"
    /\ UNCHANGED <<made, Application, sourceVars>>

-----------------------------------------------------------------------------
(* Calls *)

Call(method) == Usable /\ Begin(method) /\ UNCHANGED <<migrationVars, clientVars>>

MigratorCall(o, method, ord) ==
    Usable /\ BeginOperation(o, method, ord) /\ UNCHANGED clientVars

\* Identify, TrackData, TrackMetric and TrackMigrationOp; an invalid context only
\* leaves a warning.
RecordCustom(kind, disabled) ==
    /\ Usable /\ pc = "idle" /\ (offline => disabled)
    /\ kind \in Types /\ m' = Method(kind, "null", FALSE, disabled)
    /\ events' \in {<<>>} \cup IF disabled THEN {} ELSE {<<[of |-> kind, value |-> "null"]>>}
    /\ pc' = "return"
    /\ UNCHANGED <<begun, flag, detail, err, data, trace, migrationVars, clientVars, sourceVars>>

\* The call returns to the application.
Return ==
    /\ pc = "return" /\ (op # "" => tracker.built # "no")
    /\ pc' = "idle" /\ m' = AllFlags(TRUE) /\ begun' = "Defaults"
    /\ flag' = NoFlag /\ detail' = NoDetail /\ err' = FALSE
    /\ events' = <<>> /\ data' = NoData /\ trace' = <<>>
    /\ op' = "" /\ order' = "Serial" /\ exec' = NoExecution /\ tracker' = NewTracker
    /\ UNCHANGED <<clientVars, sourceVars>>

Make == BuildPart \/ StartSource \/ WaitReady
Closing == CloseEvents \/ CloseSystem \/ CloseSegments
Source == (PollStep \/ PollFault \/ Quit \/ Publish) /\ UNCHANGED <<Application, clientVars>>
Step ==
    \/ EvaluationStep /\ UNCHANGED <<migrationVars, clientVars>>
    \/ MigrationStep /\ UNCHANGED clientVars
    \/ Return

Next ==
    \/ Make \/ BuildFails \/ WaitTimeout \/ BeginClose \/ Closing \/ Source \/ Step
    \/ \E disabled \in BOOLEAN :
          \/ \E method \in Methods(disabled) :
                \/ Call(method)
                \/ \E o \in {"read", "write"}, ord \in Orders : MigratorCall(o, method, ord)
          \/ \E kind \in {"identify", "custom", "metric", "op"} : RecordCustom(kind, disabled)

Spec == Init /\ [][Next]_vars

\* Goroutines run and the ticker ticks; select picks a closed channel in the end.
FairSpec ==
    /\ Spec
    /\ WF_vars(Make) /\ WF_vars(Closing)
    /\ WF_vars(PollStep /\ UNCHANGED <<Application, clientVars>>)
    /\ SF_vars(Quit /\ UNCHANGED <<Application, clientVars>>)

-----------------------------------------------------------------------------
(* Properties *)

Evaluation == m.type \notin {"all", "identify", "custom", "metric", "op"}
FlagEvents == {i \in DOMAIN events : events[i].of = "flag"}

\* Hooks run around the evaluation, the first one outermost, and each AfterEvaluation
\* receives the data that the BeforeEvaluation of the same hook has returned.
HooksNest ==
    /\ pc = "return" /\ Evaluation => Len(trace) = 2 * Hooks
    /\ \A i \in DOMAIN trace :
          /\ trace[i].hook = IF i <= Hooks THEN i ELSE 2 * Hooks + 1 - i
          /\ trace[i].got \in {0, trace[i].hook}
          /\ trace[i].stage = IF i <= Hooks THEN "before" ELSE "after"
    /\ pc \in {"evaluate", "get", "record"} /\ Evaluation => Len(trace) = Hooks

\* An evaluation records one event for its flag, and the event has the value that
\* the application gets; only a string that is not a stage is recorded as it is.
\* With WithEventsDisabled, "the same LDClient" is used "but without generating any
\* events": prerequisites, migrations and custom events included.
EventsTellResults ==
    IF m.disabled THEN events = <<>> /\ tracker.built # "sent"
    ELSE pc \in {"after", "return"} /\ Evaluation /\ detail.error # "USER_NOT_SPECIFIED"
            => \E i \in FlagEvents :
                  /\ FlagEvents = {i}
                  /\ (m.type = "migration" /\ err) \/ events[i].value = detail.value

\* "the client has succeeded at some point in connecting to LaunchDarkly and has
\* received feature flag data" (Initialized), unless the last response was malformed
\* or refused by the store; and a call that begins then is answered from the data
\* that the store has during the call, with the flag's value or a default.
AnswersFromData ==
    /\ isInitialized /\ ~offline /\ ~lost => dataStore.inited
    /\ (/\ pc = "return" /\ (Evaluation \/ m.type = "all") /\ begun = "Refreshed"
        /\ detail.error \notin {"USER_NOT_SPECIFIED", "EXCEPTION"})
           => /\ detail.error # "CLIENT_NOT_READY"
              /\ flag.ver \in 0 .. dataStore.ver /\ flag.content = Content(flag.ver)
              /\ detail.error = "" => detail.value \in {flag.content, m.default}
              /\ m.check => TypeOf(Result) = TypeOf(m.default)

\* The wait reports success only for an initialized client, and a failure only when
\* the data source has given up.
StartResultIsRight ==
    /\ made = "ok" => isInitialized
    /\ made = "failed" => poller = "done" /\ ~isInitialized

\* "Ensure that any intermediate components we create will be disposed of if we
\* return an error" (MakeCustomClient), except for a data store whose data source
\* could not be built; after Close nothing is left.
ClosedPartsAreReleased ==
    closing = "done" => parts \subseteq (IF made = "nil" THEN {"store"} ELSE {})

\* No write goes to the origin that is not authoritative before, or without, a
\* successful one to the other; reads of one origin never touch the other.  The event
\* of the operation tells what was executed and what failed, and it is only missing
\* when the context is invalid.
OperationsAreTracked ==
    /\ pc = "return" /\ op # "" =>
          /\ op = "write" /\ exec[nonAuthoritative] # "no" => exec[authoritative] = "ok"
          /\ \A o \in Origins \ Called : exec[o] = "no"
    /\ tracker.built # "no" =>
          /\ tracker.invoked = {o \in Origins : exec[o] # "no"}
          /\ "errors" \in Measures => tracker.errors = {o \in Origins : exec[o] = "failed"}
          /\ tracker.built = "error" <=> detail.error = "USER_NOT_SPECIFIED"

\* "This error is returned ... if feature flags are not available because the client
\* has not successfully initialized" (ErrClientNotInitialized): a call that begins
\* when data is available is not refused.
AvailableDataIsUsed ==
    pc = "return" /\ begun # "Defaults" => detail.error # "CLIENT_NOT_READY"

\* Once the service and the network settle down, the store has the service's data
\* and the client is initialized, unless the client is closed or refused, or data
\* was lost on the way to the store.
Converges ==
    \/ <>(closing # "no" \/ poller = "done")
    \/ <>[]lost
    \/ <>[](dataStore.ver = Latest /\ isInitialized /\ ready)

\* Close ends the polling goroutine and whoever waits for it.
CloseStopsAll ==
    closing # "no" ~> closing = "done" /\ poller \in {"off", "done"} /\ ~Draining
=============================================================================
