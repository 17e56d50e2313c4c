---------------------------- MODULE TestDataSource ----------------------------
(***************************************************************************)
(* The data source for tests (testhelpers/ldtestdata), used by one client. *)
(* Goroutines of the test build flags and update the data while the client *)
(* is built, started and closed; updates reach the client's sink outside   *)
(* the lock.                                                               *)
(***************************************************************************)
EXTENDS FlagTracker, FlagBuilder

CONSTANTS
    Starter,        \* the client's goroutine that builds and starts the source
    Updaters,       \* goroutines of the test
    Builders,       \* those that build flags; the others use preconfigured ones
    Context,        \* the listener's context
    Preconfigured,  \* values that preconfigured flags give to it
    MaxUpdates,     \* bound on the updates
    MaxEdits,       \* bound on the edits of a builder
    Nil

ASSUME StarterAssumption == Starter \in Writers /\ Updaters \subseteq Writers \ {Starter}
ASSUME BuildersAssumption == Builders \subseteq Updaters
ASSUME ContextAssumption == Context \in Contexts
ASSUME DefaultAssumption == ErrorValue = Default

VARIABLES
    current,            \* currentFlags and currentSegments
    currentBuilder,     \* of currentBuilders, for Flag
    instance,           \* is the client's instance in instances
    starter,            \* position of the client's goroutine
    updater, builder,   \* position and flag builder of each goroutine of the test
    edits, updates

testVars == <<current, currentBuilder, instance, starter, updater, builder, edits, updates>>

TestInit ==
    /\ current = NoData /\ currentBuilder = Nil
    /\ instance = FALSE /\ starter = "new"
    /\ updater = [u \in Updaters |-> "idle"] /\ builder = [u \in Updaters |-> Nil]
    /\ edits = 0 /\ updates = 0

-----------------------------------------------------------------------------
(* The client's side *)

Build ==
    /\ starter = "new" /\ starter' = "built"
    /\ instance' = TRUE
    /\ UNCHANGED <<clientVars, current, currentBuilder, updater, builder, edits, updates>>

\* Start, with makeInitData
StartTest ==
    /\ starter = "built" /\ starter' = "init"
    /\ CallInit(Starter, current)
    /\ UNCHANGED <<store, status, refusals, trackerVars, missed, current, currentBuilder, instance, updater,
                   builder, edits, updates>>

\* Start, after Init, whatever its result
StartReturns ==
    /\ starter = "init" /\ starter' = "started"
    /\ Ended(Starter, "done") \/ Ended(Starter, "refused")
    /\ status' = "valid"
    /\ UNCHANGED <<store, refusals, lost, trackerVars, missed, current, currentBuilder, instance,
                   updater, builder, edits, updates>>

\* Close, with closedInstance
CloseTest ==
    /\ starter = "started" /\ instance
    /\ instance' = FALSE
    /\ UNCHANGED <<clientVars, current, currentBuilder, starter, updater, builder, edits, updates>>

-----------------------------------------------------------------------------
(* The test's side *)

\* Flag: a copy of the current builder, or a new boolean flag
FlagCopy(u) ==
    /\ updater[u] = "idle" /\ updater' = [updater EXCEPT ![u] = "edit"]
    /\ builder' = [builder EXCEPT ![u] =
                      IF currentBuilder = Nil THEN BooleanFlag(newFlagBuilder) ELSE currentBuilder]
    /\ UNCHANGED <<clientVars, current, currentBuilder, instance, starter, edits, updates>>

Edit(u) ==
    /\ updater[u] = "edit"
    /\ edits < MaxEdits /\ edits' = edits + 1
    /\ \E b \in Edits(builder[u]) : builder' = [builder EXCEPT ![u] = b]
    /\ UNCHANGED <<clientVars, current, currentBuilder, instance, starter, updater, updates>>

\* The critical section of updateInternal and of UsePreconfiguredSegment: the next
\* version, for the instances there are; the Upserts come after it.
updateInternal(u, k, value) ==
    /\ updates < MaxUpdates /\ updates' = updates + 1
    /\ LET item == [version |-> current[k].version + 1, value |-> value]
       IN /\ current' = [current EXCEPT ![k] = item]
          /\ IF instance
             THEN CallUpsert(u, k, item) /\ updater' = [updater EXCEPT ![u] = "upsert"]
             ELSE updater' = [updater EXCEPT ![u] = "idle"] /\ UNCHANGED call

\* Update keeps a copy of the builder.
Update(u) ==
    /\ updater[u] = "edit"
    /\ updateInternal(u, Flag, Evaluate(createFlag(builder[u]), Context))
    /\ currentBuilder' = builder[u] /\ builder' = [builder EXCEPT ![u] = Nil]
    /\ UNCHANGED <<sinkVars, trackerVars, missed, instance, starter, edits>>

UsePreconfiguredFlag(u) ==
    /\ updater[u] = "idle"
    /\ \E value \in Preconfigured : updateInternal(u, Flag, value)
    /\ currentBuilder' = Nil
    /\ UNCHANGED <<sinkVars, trackerVars, missed, instance, starter, builder, edits>>

UsePreconfiguredSegment(u) ==
    /\ updater[u] = "idle"
    /\ \E k \in Keys \ {Flag} : updateInternal(u, k, Default)
    /\ UNCHANGED <<sinkVars, trackerVars, missed, currentBuilder, instance, starter, builder, edits>>

UpsertReturns(u) ==
    /\ updater[u] = "upsert" /\ updater' = [updater EXCEPT ![u] = "idle"]
    /\ Ended(u, "done") \/ Ended(u, "refused")
    /\ UNCHANGED <<sinkVars, trackerVars, missed, current, currentBuilder, instance, starter,
                   builder, edits, updates>>

\* UpdateStatus of the test, sent to the instances there are
SimulateStatus(u, state) ==
    /\ updater[u] = "idle" /\ instance
    /\ updates < MaxUpdates /\ updates' = updates + 1
    /\ status' = StatusAfter(state)
    /\ UNCHANGED <<store, refusals, lost, call, trackerVars, missed, current, currentBuilder,
                   instance, starter, updater, builder, edits>>

BuilderStep == \E u \in Builders : FlagCopy(u) \/ Edit(u) \/ Update(u)

TestStep ==
    \/ Build \/ StartTest \/ StartReturns \/ CloseTest
    \/ \E u \in Builders : FlagCopy(u) \/ Update(u)
    \/ \E u \in Updaters \ Builders :
          \/ UsePreconfiguredFlag(u) \/ UsePreconfiguredSegment(u)
          \/ \E state \in {"valid", "interrupted"} : SimulateStatus(u, state)
    \/ \E u \in Updaters : UpsertReturns(u)

-----------------------------------------------------------------------------
\* The client has the current data, unless the latest update was refused, or
\* arrived just before the older data that Start was about to store.
UpdatesArrived ==
    \A k \in Keys : store[k] = current[k] \/ <<k, current[k].version>> \in lost

=============================================================================
