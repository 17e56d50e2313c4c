------------------------------ MODULE Evaluation ------------------------------
(***************************************************************************)
(* A flag evaluation by the client, on a goroutine of the application: the *)
(* hooks around it, the checks of the data system, the reads of the data   *)
(* store, and the analytics events.  The data source runs concurrently.    *)
(***************************************************************************)
EXTENDS PollingSource, SequencesExt

CONSTANTS
    Types,              \* the types of the methods that the application calls
    Defaults,           \* the default stages of its migrations
    WithPrerequisite,   \* the contents of the flag that have a prerequisite
    Hooks               \* the number of hooks

ASSUME HooksAssumption == Hooks \in Nat

VARIABLES
    pc,             \* position of the call
    m,              \* the method: type, whether it checks types, its events scope
    begun,          \* history: the availability of data when it began
    flag,           \* what was read from the data store
    detail,         \* the EvaluationDetail: value and error kind
    err,            \* whether the call returns an error
    events,         \* the events recorded by this call
    data,           \* the series data of each hook
    trace           \* history: the stages of the hooks run so far

callVars == <<pc, m, begun, flag, detail, err, events, data, trace>>

\* Values and their JSON types; "half" is 0.5.
Stages == {"off", "dualwrite", "shadow", "live", "rampdown", "complete"}
ASSUME DefaultsAssumption == Defaults \subseteq Stages

TypeOf(v) ==
    CASE v \in {"true", "false"} -> "bool"
      [] v \in {"half", "zero"} -> "number"
      [] v \in Stages \cup {"word"} -> "string"
      [] OTHER -> "null"
IntValue(v) == IF v = "half" THEN "zero" ELSE v

\* The methods of LDClient, and those of WithEventsDisabled: the type of the value,
\* the application's default, and checkType
Method(type, default, check, disabled) ==
    [type |-> type, default |-> default, check |-> check, disabled |-> disabled]
BoolVariation(disabled) == Method("bool", "false", TRUE, disabled)
IntVariation(disabled) == Method("int", "zero", TRUE, disabled)
Float64Variation(disabled) == Method("float", "zero", TRUE, disabled)
StringVariation(disabled) == Method("string", "word", TRUE, disabled)
JSONVariation(disabled) == Method("json", "zero", FALSE, disabled)
JSONVariationDecorated == Method("json", "zero", TRUE, TRUE)
MigrationVariation(stage, disabled) == Method("migration", stage, TRUE, disabled)
AllFlags(disabled) == Method("all", "null", FALSE, disabled)

Methods(disabled) ==
    {BoolVariation(disabled), IntVariation(disabled), Float64Variation(disabled),
     StringVariation(disabled), JSONVariation(disabled), AllFlags(disabled)}
        \cup {MigrationVariation(s, disabled) : s \in Defaults}
        \cup (IF disabled THEN {JSONVariationDecorated} ELSE {})

NoFlag == [ver |-> 0, content |-> "absent"]
NoDetail == [value |-> "null", error |-> ""]
NoData == [i \in 1 .. Hooks |-> 0]
Idle ==
    /\ pc = "idle" /\ m = AllFlags(TRUE) /\ begun = "Defaults"
    /\ flag = NoFlag /\ detail = NoDetail /\ err = FALSE
    /\ events = <<>> /\ data = NoData /\ trace = <<>>

\* A call begins; hooks run around evaluations only.
Begin(method) ==
    /\ pc = "idle"
    /\ method.type \in Types /\ m' = method
    /\ offline => method.disabled
    /\ begun' = DataAvailability
    /\ pc' = IF method.type # "all" /\ Hooks > 0 THEN "before" ELSE "evaluate"
    /\ UNCHANGED <<flag, detail, err, events, data, trace, sourceVars>>

Fails(kind, isError) ==
    /\ detail' = [value |-> m.default, error |-> kind]
    /\ err' = isError

-----------------------------------------------------------------------------
(* Hooks *)

\* executeStage: every hook of the sequence runs, with its own data.
ExecuteStage(stage, sequence) ==
    /\ trace' = trace \o [k \in 1 .. Hooks |->
          [stage |-> stage, hook |-> sequence[k], got |-> data[sequence[k]]]]
    /\ UNCHANGED <<m, begun, flag, detail, err, events, offline, storeKind, served, dataStore, etag,
                   poller, isInitialized, ready, quit, lost>>

\* Each hook returns data of its own, or an error that leaves its data.
Forward == [k \in 1 .. Hooks |-> k]
BeforeEvaluation ==
    /\ pc = "before" /\ ExecuteStage("before", Forward)
    /\ \/ data' = Forward /\ UNCHANGED faults
       \/ Fault /\ \E i \in 1 .. Hooks : data' = [Forward EXCEPT ![i] = data[i]]
    /\ pc' = "evaluate"

\* Mutant: the hooks run in the same order after the evaluation.
AfterEvaluationForward ==
    /\ pc = "after" /\ ExecuteStage("after", Forward)
    /\ pc' = "return" /\ UNCHANGED <<data, faults>>

\* Nothing uses what the hooks return here.
AfterEvaluation ==
    /\ pc = "after" /\ ExecuteStage("after", Reverse(Forward))
    /\ pc' = "return" /\ UNCHANGED <<data, faults>>

Evaluated == IF m.type # "all" /\ Hooks > 0 THEN "after" ELSE "return"

-----------------------------------------------------------------------------
(* The evaluation *)

\* The context is invalid, or the client is offline.
Refuse ==
    /\ pc = "evaluate"
    /\ \/ m.type # "all" /\ Fails("USER_NOT_SPECIFIED", m.type # "migration")
       \/ offline /\ Fails("CLIENT_NOT_READY", FALSE)
    /\ pc' = Evaluated
    /\ UNCHANGED <<m, begun, flag, events, data, trace, sourceVars>>

\* Mutant: only data from an earlier process counts.
CheckRefreshedStored ==
    /\ pc = "evaluate" /\ ~offline
    /\ pc' = IF DataAvailability = "Cached" THEN "get" ELSE "cached?"
    /\ UNCHANGED <<m, begun, flag, detail, err, events, data, trace, sourceVars>>

\* evaluateInternal and AllFlagsState ask for the availability of data twice.
CheckRefreshed ==
    /\ pc = "evaluate" /\ ~offline
    /\ pc' = IF DataAvailability = "Refreshed" THEN "get" ELSE "cached?"
    /\ UNCHANGED <<m, begun, flag, detail, err, events, data, trace, sourceVars>>

CheckCached ==
    /\ pc = "cached?"
    /\ IF DataAvailability = "Cached"
       THEN pc' = "get" /\ UNCHANGED <<detail, err>>
       ELSE pc' = "record" /\ Fails("CLIENT_NOT_READY", TRUE)
    /\ UNCHANGED <<m, begun, flag, events, data, trace, sourceVars>>

\* Get (or GetAll) of the data store
GetFlag ==
    /\ pc = "get"
    /\ \/ /\ flag' = Get
          /\ IF m.type # "all" /\ flag'.content = "absent"
             THEN pc' = "record" /\ Fails("FLAG_NOT_FOUND", TRUE)
             ELSE pc' = "evaluator" /\ UNCHANGED <<detail, err>>
          /\ UNCHANGED sourceVars
       \/ /\ storeKind = "persistent" /\ Fault
          /\ pc' = "record" /\ Fails("EXCEPTION", TRUE)
          /\ UNCHANGED <<flag, offline, storeKind, served, dataStore, etag, poller,
                         isInitialized, ready, quit, lost>>
    /\ UNCHANGED <<m, begun, events, data, trace>>

\* The evaluator: it reads the prerequisite by itself, and records it.
Evaluate ==
    /\ pc = "evaluator"
    /\ events' = IF flag.content \in WithPrerequisite /\ m.type # "all" /\ ~m.disabled
                 THEN Append(events, [of |-> "prerequisite", value |-> "null"]) ELSE events
    /\ detail' = [value |-> IF flag.content = "null" THEN m.default ELSE flag.content,
                  error |-> ""]
    /\ pc' = "record"
    /\ UNCHANGED <<m, begun, flag, err, data, trace, sourceVars>>

\* The result of evaluateInternal once its type has been checked
Checked ==
    IF ~err /\ m.check /\ TypeOf(m.default) # "null" /\ TypeOf(detail.value) # TypeOf(m.default)
    THEN [value |-> m.default, error |-> "WRONG_TYPE"] ELSE detail

\* Mutant: the event is made before the type is checked.
RecordUnchecked ==
    /\ pc = "record"
    /\ detail' = Checked
    /\ events' = IF m.disabled \/ m.type = "all" THEN events
                 ELSE Append(events, [of |-> "flag", value |-> detail.value])
    /\ err' = (err /\ m.type # "migration")
    /\ pc' = IF m.type = "migration" /\ ~err THEN "parse" ELSE Evaluated
    /\ UNCHANGED <<m, begun, flag, data, trace, sourceVars>>

\* The end of variationAndFlag; migrationVariation keeps the error to itself, and
\* AllFlagsState records no event.
Record ==
    /\ pc = "record"
    /\ detail' = Checked
    /\ events' = IF m.disabled \/ m.type = "all" THEN events
                 ELSE Append(events, [of |-> "flag", value |-> detail'.value])
    /\ err' = (err /\ m.type # "migration")
    /\ pc' = IF m.type = "migration" /\ ~err THEN "parse" ELSE Evaluated
    /\ UNCHANGED <<m, begun, flag, data, trace, sourceVars>>

\* migrationVariation: a string that is not a stage
ParseStage ==
    /\ pc = "parse"
    /\ IF detail.value \in Stages THEN UNCHANGED <<detail, err>> ELSE Fails("WRONG_TYPE", TRUE)
    /\ pc' = Evaluated
    /\ UNCHANGED <<m, begun, flag, events, data, trace, sourceVars>>

\* What the application gets
Result == IF m.type = "int" THEN IntValue(detail.value) ELSE detail.value

EvaluationStep ==
    \/ BeforeEvaluation \/ AfterEvaluation \/ Refuse \/ CheckRefreshed \/ CheckCached
    \/ GetFlag \/ Evaluate \/ Record \/ ParseStage
=============================================================================
