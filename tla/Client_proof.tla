----------------------------- MODULE Client_proof -----------------------------
(* Machine-checked proofs about Client and the modules it composes. *)
EXTENDS Client, SequenceTheorems, TLAPS

(***************************************************************************)
(* The data source.  What the HTTP cache holds has been stored, is being   *)
(* stored, or was lost; the store never goes back to an older version; and *)
(* only a source that has given up is ready without being initialized.     *)
(***************************************************************************)
PollerLabels == {"off", "select", "init", "initialized", "notify", "done"}
SourceTypes ==
    /\ served \in Seq(Contents \cup FirstContents) /\ Latest \in Nat \ {0}
    /\ dataStore.ver \in Nat /\ dataStore.ver <= Latest
    /\ etag \in Nat /\ etag <= Latest
    /\ poller \in PollerLabels
StoredInv ==
    /\ poller = "init" => dataStore.ver <= etag
    /\ poller \in {"init", "initialized"} => etag # 0
    /\ etag # 0 /\ poller # "init" => dataStore.inited \/ lost
    /\ isInitialized /\ ~offline => dataStore.inited \/ lost
ReadyInv ==
    /\ offline => isInitialized
    /\ poller = "notify" => isInitialized
    /\ ready /\ ~isInitialized => poller = "done"

SourceInv == SourceTypes /\ StoredInv /\ ReadyInv

\* What the source does never takes anything back from the client and its calls.
KeepsData ==
    /\ offline' = offline
    /\ isInitialized => isInitialized'
    /\ dataStore.ver <= dataStore'.ver
    /\ \A v \in 0 .. dataStore.ver : Content(v)' = Content(v)
Grows ==
    /\ KeepsData
    /\ poller' = "off" <=> poller = "off"
    /\ poller = "done" => poller' = "done" /\ isInitialized' = isInitialized

USE DEF PollerLabels

\* DataAvailability tells whether the client has been initialized.
LEMMA Availability == DataAvailability = "Refreshed" <=> ~offline /\ isInitialized
BY DEF DataAvailability

\* A new process has no data, or what a persistent store has kept.
LEMMA InitSource == SourceInit => SourceInv
<1> SUFFICES ASSUME SourceInit PROVE SourceInv
  OBVIOUS
<1>1. PICK c \in FirstContents : served = <<c>>
  BY DEF SourceInit
<1>2. served \in Seq(Contents \cup FirstContents) /\ Len(served) = 1
  BY <1>1
<1>3. dataStore = [inited |-> FALSE, ver |-> 0] \/ dataStore = [inited |-> TRUE, ver |-> 1]
  BY DEF SourceInit
<1>4. dataStore.ver \in Nat /\ dataStore.ver <= 1
  BY <1>3
<1> QED
  BY <1>2, <1>4 DEF SourceInit, SourceInv, SourceTypes, StoredInv, ReadyInv, Latest

\* The variables that the invariant of the source is about
sourceState == <<offline, served, dataStore, etag, poller, isInitialized, ready, lost>>

LEMMA QuietSource ==
    ASSUME SourceInv, UNCHANGED sourceState
    PROVE  SourceInv' /\ Grows
<1>1. SourceInv'
  BY DEF SourceInv, SourceTypes, StoredInv, ReadyInv, sourceState, Latest
<1>2. Grows
  BY DEF Grows, KeepsData, Content, sourceState, SourceInv, SourceTypes
<1> QED
  BY <1>1, <1>2

\* A version of the service's data does not change.
LEMMA PublishSource ==
    ASSUME SourceInv, Publish
    PROVE  SourceInv' /\ Grows
<1>1. PICK c \in Contents : served' = Append(served, c)
  BY DEF Publish
<1>2. served \in Seq(Contents \cup FirstContents) /\ Len(served) \in Nat \ {0}
  BY DEF SourceInv, SourceTypes, Latest
<1>3. /\ served' \in Seq(Contents \cup FirstContents) /\ Len(served') = Len(served) + 1
      /\ \A i \in 1 .. Len(served) : served'[i] = served[i]
  BY <1>1, <1>2
<1>4. UNCHANGED <<offline, dataStore, etag, poller, isInitialized, ready, lost>>
  BY DEF Publish, config
<1>5. SourceTypes'
  BY <1>2, <1>3, <1>4 DEF SourceInv, SourceTypes, Latest
<1>6. StoredInv' /\ ReadyInv'
  BY <1>4 DEF SourceInv, StoredInv, ReadyInv
<1>7. \A v \in 0 .. dataStore.ver : Content(v)' = Content(v)
  <2>1. \A v \in 0 .. dataStore.ver : v # 0 => v \in 1 .. Len(served)
    BY <1>2 DEF SourceInv, SourceTypes, Latest
  <2> QED
    BY <2>1, <1>3 DEF Content
<1>8. Grows
  BY <1>4, <1>7 DEF Grows, KeepsData, SourceInv, SourceTypes
<1> QED
  BY <1>5, <1>6, <1>8 DEF SourceInv

\* Start is called once, when the poller does not run yet.
LEMMA StartSourceInv ==
    ASSUME SourceInv, Start, poller = "off"
    PROVE  /\ SourceInv' /\ poller' # "off"
           /\ KeepsData
<1>1. /\ UNCHANGED <<offline, served, dataStore, etag, isInitialized, lost>>
      /\ \/ offline /\ ready' = TRUE /\ poller' = "done"
         \/ ~offline /\ ready' = FALSE /\ poller' = "select"
  BY DEF Start, config
<1>2. SourceTypes'
  BY <1>1 DEF SourceInv, SourceTypes, Latest
<1>3. StoredInv' /\ ReadyInv'
  BY <1>1 DEF SourceInv, StoredInv, ReadyInv
<1>4. KeepsData
  BY <1>1 DEF KeepsData, Content, SourceInv, SourceTypes
<1> QED
  BY <1>1, <1>2, <1>3, <1>4 DEF SourceInv

\* The polling goroutine
LEMMA PollSource ==
    ASSUME SourceInv, PollStep \/ PollFault \/ Quit
    PROVE  SourceInv' /\ Grows
<1>0. /\ UNCHANGED <<offline, served>> /\ poller \notin {"off", "done"} /\ poller' # "off"
      /\ Latest' = Latest /\ Latest \in Nat \ {0}
      /\ dataStore.ver \in Nat /\ dataStore.ver <= Latest
      /\ etag \in Nat /\ etag <= Latest
  BY DEF PollStep, PollFault, Quit, Request, StoreInit, SetInitialized, NotifyReady,
         RequestMalformed, RequestFails, RequestRejected, StoreInitFails, config, Latest,
         SourceInv, SourceTypes
<1>1. CASE Request \/ RequestMalformed
  <2>1. /\ UNCHANGED <<dataStore, isInitialized, ready>> /\ poller = "select"
        /\ etag' = Latest
        /\ \/ poller' = "init" /\ lost' = lost
           \/ poller' = "initialized" /\ etag = Latest /\ lost' = lost
           \/ poller' = "select" /\ lost' = TRUE
    BY <1>1 DEF Request, RequestMalformed
  <2>2. SourceTypes'
    BY <1>0, <2>1 DEF SourceInv, SourceTypes
  <2>3. StoredInv' /\ ReadyInv'
    BY <1>0, <2>1 DEF SourceInv, StoredInv, ReadyInv
  <2>4. Grows
    BY <1>0, <2>1 DEF Grows, KeepsData, Content
  <2> QED
    BY <2>2, <2>3, <2>4 DEF SourceInv
<1>2. CASE StoreInit
  <2>1. /\ UNCHANGED <<etag, isInitialized, ready>> /\ poller = "init" /\ poller' = "initialized"
        /\ dataStore' = [inited |-> TRUE, ver |-> etag] /\ lost' = FALSE
    BY <1>2 DEF StoreInit
  <2>2. dataStore'.ver = etag /\ dataStore'.inited
    BY <1>0, <2>1
  <2>3. SourceTypes'
    BY <1>0, <2>1, <2>2 DEF SourceInv, SourceTypes
  <2>4. StoredInv' /\ ReadyInv'
    BY <1>0, <2>1, <2>2 DEF SourceInv, StoredInv, ReadyInv
  <2>5. Grows
    BY <1>0, <2>1, <2>2 DEF Grows, KeepsData, Content, SourceInv, StoredInv
  <2> QED
    BY <2>3, <2>4, <2>5 DEF SourceInv
<1>3. CASE StoreInitFails \/ SetInitialized \/ NotifyReady \/ RequestFails \/ RequestRejected \/ Quit
  <2>1. /\ UNCHANGED <<etag, dataStore>>
        /\ \/ /\ poller = "init" /\ poller' = "initialized" /\ lost' = TRUE
              /\ UNCHANGED <<isInitialized, ready>>
           \/ /\ poller = "initialized" /\ isInitialized' = TRUE /\ UNCHANGED lost
              /\ UNCHANGED ready /\ poller' \in {"select", "notify"}
           \/ /\ poller = "notify" /\ poller' = "select" /\ ready' = TRUE
              /\ UNCHANGED <<isInitialized, lost>>
           \/ UNCHANGED <<poller, isInitialized, ready, lost>>
           \/ /\ poller = "select" /\ poller' = "done" /\ ready' = TRUE
              /\ UNCHANGED <<isInitialized, lost>>
    BY <1>3 DEF StoreInitFails, SetInitialized, NotifyReady, RequestFails, RequestRejected, Quit
  <2>2. SourceTypes'
    BY <1>0, <2>1 DEF SourceInv, SourceTypes
  <2>3. StoredInv'
    BY <1>0, <2>1 DEF SourceInv, StoredInv
  <2>4. ReadyInv'
    BY <1>0, <2>1 DEF SourceInv, ReadyInv
  <2>5. Grows
    BY <1>0, <2>1 DEF Grows, KeepsData, Content
  <2> QED
    BY <2>2, <2>3, <2>4, <2>5 DEF SourceInv
<1> QED
  BY <1>1, <1>2, <1>3 DEF PollStep, PollFault

-----------------------------------------------------------------------------
(***************************************************************************)
(* The client.  The source is started when everything has been built, and  *)
(* nothing is built once the client is being closed; the data system is    *)
(* there whenever its store is, except between the construction of the two *)
(* and after a failure there.                                              *)
(***************************************************************************)
Building == {"context", "store", "source", "segments", "events"}
Returned == {"ok", "failed", "timeout", "nowait"}
MadeInv ==
    /\ made \in Building \cup Returned \cup {"start", "wait", "nil"}
    /\ closing \in {"no", "events", "system", "broadcaster", "done"}
    /\ made \in Building \cup {"start"} => poller = "off"
    /\ made \in Building \cup {"start", "wait"} => closing = "no"
    /\ made = "wait" => ~offline
PartsInv ==
    /\ parts \subseteq {"store", "source", "system", "broadcaster", "segments", "events"}
    /\ made = "context" => parts = {}
    /\ made = "store" => parts = {}
    /\ "source" \in parts => "system" \in parts
    /\ "store" \in parts /\ made \notin {"source", "nil"} => "system" \in parts
    /\ closing \in {"system", "broadcaster", "done"} => "events" \notin parts
    /\ closing \in {"broadcaster", "done"} =>
          parts \cap {"source", "system"} = {} /\ ("store" \in parts => made = "nil")
    /\ closing = "done" => parts \cap {"broadcaster", "segments"} = {}

ClientInv == MadeInv /\ PartsInv /\ StartResultIsRight

USE DEF Building, Returned

\* Nothing has been built yet.
LEMMA InitClient == Init => ClientInv
BY DEF Init, SourceInit, ClientInv, MadeInv, PartsInv, StartResultIsRight

\* The source works while the client stays as it is.
LEMMA GrowsClient ==
    ASSUME ClientInv, Grows, UNCHANGED clientVars
    PROVE  ClientInv'
<1>1. MadeInv'
  BY DEF ClientInv, MadeInv, Grows, KeepsData, clientVars
<1>2. PartsInv'
  BY DEF ClientInv, PartsInv, clientVars
<1>3. StartResultIsRight'
  BY DEF ClientInv, StartResultIsRight, Grows, KeepsData, clientVars
<1> QED
  BY <1>1, <1>2, <1>3 DEF ClientInv

\* The construction
LEMMA MakeClient ==
    ASSUME SourceInv, ClientInv, BuildPart \/ BuildFails \/ StartSource \/ WaitReady \/ WaitTimeout
    PROVE  SourceInv' /\ KeepsData /\ ClientInv'
<1>1. CASE BuildPart
  <2>1. UNCHANGED sourceState /\ UNCHANGED closing
    BY <1>1 DEF BuildPart, sourceVars, sourceState
  <2>2. \/ made = "context" /\ made' = "store" /\ parts' = parts
        \/ made = "store" /\ made' = "source" /\ parts' = parts \cup {"store"}
        \/ made = "source" /\ made' = "segments" /\ parts' = parts \cup {"source", "system"}
        \/ made = "segments" /\ made' = "events" /\ parts' = parts \cup {"broadcaster", "segments"}
        \/ made = "events" /\ made' = "start" /\ parts' = parts \cup {"events"}
    BY <1>1 DEF BuildPart, Stage
  <2>3. SourceInv' /\ KeepsData
    BY <2>1, QuietSource DEF Grows
  <2>4. MadeInv' /\ StartResultIsRight'
    BY <2>1, <2>2 DEF ClientInv, MadeInv, StartResultIsRight, sourceState
  <2>5. PartsInv'
    BY <2>1, <2>2 DEF ClientInv, MadeInv, PartsInv
  <2> QED
    BY <2>3, <2>4, <2>5 DEF ClientInv
<1>2. CASE BuildFails
  <2>1. /\ UNCHANGED sourceState /\ UNCHANGED parts
        /\ made \in Building /\ made' = "nil" /\ closing' = "events"
    BY <1>2 DEF BuildFails, sourceState
  <2>2. SourceInv' /\ KeepsData
    BY <2>1, QuietSource DEF Grows
  <2>3. MadeInv' /\ StartResultIsRight' /\ PartsInv'
    BY <2>1 DEF ClientInv, MadeInv, StartResultIsRight, PartsInv
  <2> QED
    BY <2>2, <2>3 DEF ClientInv
<1>3. CASE StartSource
  <2>1. /\ made = "start" /\ Start /\ UNCHANGED <<parts, closing>>
        /\ made' \in {"wait", "nowait"} /\ (offline => made' = "nowait")
    BY <1>3 DEF StartSource
  <2>2. poller = "off"
    BY <2>1 DEF ClientInv, MadeInv
  <2>3. SourceInv' /\ KeepsData /\ offline' = offline
    BY <2>1, <2>2, StartSourceInv DEF KeepsData
  <2>4. MadeInv' /\ StartResultIsRight'
    BY <2>1, <2>3 DEF ClientInv, MadeInv, StartResultIsRight
  <2>5. PartsInv'
    BY <2>1 DEF ClientInv, MadeInv, PartsInv
  <2> QED
    BY <2>3, <2>4, <2>5 DEF ClientInv
<1>4. CASE WaitReady \/ WaitTimeout
  <2>1. /\ UNCHANGED sourceState /\ UNCHANGED <<parts, closing>> /\ made = "wait"
        /\ \/ made' = "timeout"
           \/ made' = "ok" /\ isInitialized
           \/ made' = "failed" /\ (offline \/ ~isInitialized) /\ ready
    BY <1>4, Availability DEF WaitReady, WaitTimeout, sourceVars, sourceState
  <2>2. SourceInv' /\ KeepsData
    BY <2>1, QuietSource DEF Grows
  <2>3. MadeInv' /\ PartsInv'
    BY <2>1 DEF ClientInv, MadeInv, PartsInv
  <2>4. StartResultIsRight'
    BY <2>1 DEF ClientInv, MadeInv, StartResultIsRight, SourceInv, ReadyInv, sourceState
  <2> QED
    BY <2>2, <2>3, <2>4 DEF ClientInv
<1> QED
  BY <1>1, <1>2, <1>3, <1>4

\* Close, and the deferred Close of a construction that failed
LEMMA CloseClient ==
    ASSUME SourceInv, ClientInv, BeginClose \/ CloseEvents \/ CloseSystem \/ CloseSegments
    PROVE  SourceInv' /\ KeepsData /\ ClientInv'
<1>1. UNCHANGED sourceState /\ UNCHANGED made
  BY DEF BeginClose, CloseEvents, CloseSystem, CloseSegments, CloseSource, config, sourceVars,
         sourceState
<1>2. SourceInv' /\ KeepsData
  BY <1>1, QuietSource DEF Grows
<1>3. \/ /\ made \in Returned /\ closing = "no" /\ closing' = "events" /\ parts' = parts
      \/ /\ closing = "events" /\ closing' = "system" /\ parts' = parts \ {"events"}
      \/ /\ closing = "system" /\ closing' = "broadcaster"
         /\ IF "system" \in parts THEN parts' = parts \ {"store", "source", "system"}
                                  ELSE parts' = parts
      \/ /\ closing = "broadcaster" /\ closing' = "done"
         /\ parts' = parts \ {"broadcaster", "segments"}
  BY DEF BeginClose, CloseEvents, CloseSystem, CloseSegments, Usable
<1>4. made \in Returned \cup {"nil"}
  BY <1>3 DEF ClientInv, MadeInv
<1>5. MadeInv' /\ StartResultIsRight'
  BY <1>1, <1>3, <1>4 DEF ClientInv, MadeInv, StartResultIsRight, sourceState
<1>6. PartsInv'
  BY <1>1, <1>3, <1>4 DEF ClientInv, PartsInv
<1> QED
  BY <1>2, <1>5, <1>6 DEF ClientInv

\* Once Close is done only the store of a construction that failed may be left.
LEMMA ClosedParts == ClientInv => ClosedPartsAreReleased
BY DEF ClientInv, PartsInv, ClosedPartsAreReleased

-----------------------------------------------------------------------------
(***************************************************************************)
(* Calls.  Where a call is tells what it has done so far: until the        *)
(* evaluator has run it has no result and no event; from then on the       *)
(* result is the flag's value or the default; and once the type has been   *)
(* checked it is of the type asked for.                                    *)
(***************************************************************************)
Customs == {"identify", "custom", "metric", "op"}
Early == {"idle", "before", "evaluate", "cached?", "get", "evaluator"}
Late == {"parse", "after", "return"}

MethodInv ==
    /\ pc \in Early \cup Late \cup {"record"}
    /\ offline /\ pc # "idle" => m.disabled
    /\ pc \notin {"idle", "return"} => m.type \notin Customs
    /\ m.type \in Customs => ~m.check
    /\ m.check => TypeOf(m.default) # "null"
    /\ pc \in {"before", "after"} => m.type # "all" /\ Hooks > 0
    /\ pc = "parse" => m.type = "migration"
EarlyInv ==
    /\ pc = "idle" => begun = "Defaults"
    /\ pc \in Early => detail.error = "" /\ ~err
FlagInv == flag.ver \in Nat /\ flag.ver <= dataStore.ver /\ flag.content = Content(flag.ver)
AvailableInv ==
    begun = "Refreshed" => /\ ~offline /\ isInitialized /\ pc # "cached?"
                           /\ detail.error # "CLIENT_NOT_READY"
ValueInv ==
    /\ pc = "record" /\ err => detail.value = m.default
    /\ pc = "parse" => ~err
    /\ pc \in Late \cup {"record"} /\ m.type \notin Customs =>
          detail.value \in {flag.content, m.default}
    /\ pc \in Late /\ m.check => TypeOf(detail.value) = TypeOf(m.default)

CallInv == MethodInv /\ EarlyInv /\ FlagInv /\ AvailableInv /\ ValueInv

\* What a goroutine of the application does
AppStep ==
    \/ EvaluationStep \/ Return
    \/ \E disabled \in BOOLEAN :
          \/ \E method \in Methods(disabled) : Begin(method)
          \/ \E kind \in Customs : RecordCustom(kind, disabled)

USE DEF Customs, Early, Late

\* Every method checks the type of its result against a default that has one, or does
\* not check it.
LEMMA MethodsAreTyped ==
    ASSUME NEW disabled \in BOOLEAN, NEW x \in Methods(disabled)
    PROVE  x.type \notin Customs /\ (x.check => TypeOf(x.default) # "null")
<1>1. CASE x \in {BoolVariation(disabled), IntVariation(disabled), Float64Variation(disabled),
                  StringVariation(disabled), JSONVariation(disabled), AllFlags(disabled),
                  JSONVariationDecorated}
  BY <1>1 DEF BoolVariation, IntVariation, Float64Variation, StringVariation, JSONVariation,
              AllFlags, JSONVariationDecorated, Method, TypeOf
<1>2. CASE \E s \in Defaults : x = MigrationVariation(s, disabled)
  <2>1. PICK s \in Defaults : x = MigrationVariation(s, disabled)
    BY <1>2
  <2>2. s \in Stages
    BY DefaultsAssumption
  <2>3. TypeOf(s) # "null"
    BY <2>2 DEF TypeOf, Stages
  <2> QED
    BY <2>1, <2>3 DEF MigrationVariation, Method
<1> QED
  BY <1>1, <1>2 DEF Methods

\* A call leaves the source and the client alone.
LEMMA AppIsQuiet ==
    ASSUME AppStep
    PROVE  UNCHANGED sourceState
BY DEF AppStep, EvaluationStep, BeforeEvaluation, AfterEvaluation, ExecuteStage, Refuse,
       CheckRefreshed, CheckCached, GetFlag, Evaluate, Record, ParseStage, Return, Begin,
       RecordCustom, sourceVars, sourceState

\* Initially there is no call.
LEMMA InitCall == Init => CallInv
<1> SUFFICES ASSUME Init PROVE CallInv
  OBVIOUS
<1>1. dataStore.ver \in Nat
  BY InitSource DEF Init, SourceInv, SourceTypes
<1>2. /\ pc = "idle" /\ m.type = "all" /\ ~m.check /\ begun = "Defaults"
      /\ flag.ver = 0 /\ flag.content = "absent" /\ detail.error = "" /\ err = FALSE
  BY DEF Init, Idle, AllFlags, Method, NoFlag, NoDetail
<1>3. FlagInv
  <2>1. Content(flag.ver) = "absent"
    BY <1>2 DEF Content
  <2>2. flag.ver = 0
    BY <1>2
  <2>3. flag.ver \in Nat /\ flag.ver <= dataStore.ver
    BY <1>1, <2>2
  <2> QED
    BY <1>2, <2>1, <2>3 DEF FlagInv
<1> QED
  BY <1>2, <1>3 DEF CallInv, MethodInv, EarlyInv, AvailableInv, ValueInv

\* The source works while the call stays where it is.
LEMMA KeepsCall ==
    ASSUME SourceInv, SourceInv', CallInv, KeepsData, UNCHANGED callVars
    PROVE  CallInv'
<1> USE DEF callVars, CallInv
<1>1. MethodInv' /\ EarlyInv' /\ ValueInv'
  BY DEF KeepsData, MethodInv, EarlyInv, ValueInv
<1>2. FlagInv'
  <2>1. /\ dataStore.ver \in Nat /\ dataStore'.ver \in Nat
        /\ dataStore.ver <= dataStore'.ver
        /\ flag.ver \in 0 .. dataStore.ver
    BY DEF SourceInv, SourceTypes, KeepsData, FlagInv
  <2>2. Content(flag.ver)' = Content(flag.ver)
    BY <2>1 DEF KeepsData
  <2> QED
    BY <2>1, <2>2 DEF FlagInv
<1>3. AvailableInv'
  BY DEF KeepsData, AvailableInv
<1> QED
  BY <1>1, <1>2, <1>3

\* The positions of a call
LEMMA AppMethod ==
    ASSUME CallInv, AppStep
    PROVE  MethodInv'
<1>0. offline' = offline /\ MethodInv
  BY AppIsQuiet DEF sourceState, CallInv
<1>1. CASE Return
  BY <1>1 DEF Return, AllFlags, Method, MethodInv
<1>2. ASSUME NEW disabled \in BOOLEAN, NEW kind \in Customs, RecordCustom(kind, disabled)
      PROVE  MethodInv'
  <2>1. /\ m'.type = kind /\ ~m'.check /\ pc' = "return" /\ m'.disabled = disabled
        /\ offline => disabled
    BY <1>2 DEF RecordCustom, Method
  <2> QED
    BY <1>0, <2>1 DEF MethodInv
<1>3. ASSUME NEW disabled \in BOOLEAN, NEW x \in Methods(disabled), Begin(x)
      PROVE  MethodInv'
  <2>1. /\ m' = x /\ pc' \in {"before", "evaluate"} /\ (offline => x.disabled)
        /\ pc' = "before" => x.type # "all" /\ Hooks > 0
    BY <1>3 DEF Begin
  <2> QED
    BY <1>0, <2>1, MethodsAreTyped DEF MethodInv
<1>4. CASE EvaluationStep
  <2>1. m' = m /\ pc # "idle" /\ pc # "return" /\ pc' # "idle"
    BY <1>4 DEF EvaluationStep, BeforeEvaluation, AfterEvaluation, ExecuteStage, Refuse,
                CheckRefreshed, CheckCached, GetFlag, Evaluate, Record, ParseStage, Evaluated
  <2>2. /\ pc' \in {"evaluate", "cached?", "get", "evaluator", "record", "parse", "after", "return"}
        /\ pc' = "after" => m.type # "all" /\ Hooks > 0
        /\ pc' = "parse" => m.type = "migration"
    BY <1>4 DEF EvaluationStep, BeforeEvaluation, AfterEvaluation, Refuse,
                CheckRefreshed, CheckCached, GetFlag, Evaluate, Record, ParseStage, Evaluated
  <2> QED
    BY <1>0, <2>1, <2>2 DEF MethodInv
<1> QED
  BY <1>1, <1>2, <1>3, <1>4 DEF AppStep

\* What was read is what the store had, and only a call that began without data is
\* refused.
LEMMA AppAnswer ==
    ASSUME SourceInv, CallInv, AppStep
    PROVE  EarlyInv' /\ FlagInv' /\ AvailableInv'
<1>0. /\ UNCHANGED <<offline, served, dataStore, isInitialized>>
      /\ dataStore.ver \in Nat
      /\ \A v : Content(v)' = Content(v)
  BY AppIsQuiet DEF sourceState, SourceInv, SourceTypes, Content
<1> USE DEF CallInv
<1>1. CASE Return
  <2>1. /\ pc' = "idle" /\ begun' = "Defaults" /\ flag'.ver = 0 /\ flag'.content = "absent"
        /\ detail'.error = "" /\ err' = FALSE
    BY <1>1 DEF Return, NoFlag, NoDetail
  <2>2. FlagInv'
    <3>1. Content(flag.ver)' = "absent"
      BY <2>1 DEF Content
    <3>2. flag'.ver \in Nat /\ flag'.ver <= dataStore'.ver
      <4>1. flag'.ver = 0
        BY <2>1
      <4>2. dataStore'.ver \in Nat
        BY <1>0
      <4> QED
        BY <4>1, <4>2
    <3> QED
      BY <2>1, <3>1, <3>2 DEF FlagInv
  <2> QED
    BY <2>1, <2>2 DEF EarlyInv, AvailableInv
<1>2. ASSUME NEW disabled \in BOOLEAN, NEW kind \in Customs, RecordCustom(kind, disabled)
      PROVE  EarlyInv' /\ FlagInv' /\ AvailableInv'
  BY <1>0, <1>2 DEF RecordCustom, EarlyInv, FlagInv, AvailableInv
<1>3. ASSUME NEW disabled \in BOOLEAN, NEW x \in Methods(disabled), Begin(x)
      PROVE  EarlyInv' /\ FlagInv' /\ AvailableInv'
  BY <1>0, <1>3, Availability DEF Begin, EarlyInv, FlagInv, AvailableInv
<1>4. CASE BeforeEvaluation \/ AfterEvaluation \/ CheckRefreshed
  <2>1. /\ UNCHANGED <<begun, flag, detail, err>> /\ pc' # "idle"
        /\ pc' \in Early => pc \in Early
        /\ pc' = "cached?" => ~ (~offline /\ isInitialized)
    BY <1>4, Availability DEF BeforeEvaluation, AfterEvaluation, ExecuteStage, CheckRefreshed
  <2> QED
    BY <1>0, <2>1 DEF EarlyInv, FlagInv, AvailableInv
<1>5. CASE Refuse
  <2>1. /\ UNCHANGED <<begun, flag>> /\ pc' \in {"after", "return"}
        /\ detail'.error = "USER_NOT_SPECIFIED" \/ offline
    BY <1>5 DEF Refuse, Fails, Evaluated
  <2> QED
    BY <1>0, <2>1 DEF EarlyInv, FlagInv, AvailableInv
<1>6. CASE CheckCached
  <2>1. /\ UNCHANGED <<begun, flag>> /\ pc = "cached?"
        /\ \/ pc' = "get" /\ UNCHANGED <<detail, err>>
           \/ pc' = "record"
    BY <1>6 DEF CheckCached
  <2>2. EarlyInv'
    <3>1. pc \in Early /\ detail.error = "" /\ ~err
      BY <2>1 DEF EarlyInv
    <3>2. pc' \in Early => detail' = detail /\ err' = err
      BY <2>1
    <3>3. pc' # "idle"
      BY <2>1
    <3>4. pc' \in Early => detail'.error = "" /\ ~err'
      BY <3>1, <3>2
    <3> QED
      BY <3>3, <3>4 DEF EarlyInv
  <2>3. FlagInv'
    BY <1>0, <2>1 DEF FlagInv
  <2>4. AvailableInv'
    BY <1>0, <2>1 DEF AvailableInv
  <2> QED
    BY <2>2, <2>3, <2>4
<1>7. CASE GetFlag
  <2>1. /\ UNCHANGED begun /\ pc = "get"
        /\ flag' = Get \/ flag' = flag
        /\ \/ pc' = "evaluator" /\ UNCHANGED <<detail, err>>
           \/ pc' = "record" /\ detail'.error \in {"FLAG_NOT_FOUND", "EXCEPTION"}
    BY <1>7 DEF GetFlag, Fails
  <2>2. FlagInv'
    BY <1>0, <2>1 DEF FlagInv, Get
  <2>3. EarlyInv'
    <3>1. pc \in Early /\ detail.error = "" /\ ~err
      BY <2>1 DEF EarlyInv
    <3>2. pc' \in Early => detail' = detail /\ err' = err
      BY <2>1
    <3>3. pc' # "idle"
      BY <2>1
    <3>4. pc' \in Early => detail'.error = "" /\ ~err'
      BY <3>1, <3>2
    <3> QED
      BY <3>3, <3>4 DEF EarlyInv
  <2>4. AvailableInv'
    BY <1>0, <2>1 DEF AvailableInv
  <2> QED
    BY <2>2, <2>3, <2>4
<1>8. CASE Evaluate
  <2>1. UNCHANGED <<begun, flag>> /\ pc' = "record" /\ detail'.error = ""
    BY <1>8 DEF Evaluate
  <2> QED
    BY <1>0, <2>1 DEF EarlyInv, FlagInv, AvailableInv
<1>9. CASE Record
  <2>1. /\ UNCHANGED <<begun, flag>> /\ pc' \in {"parse", "after", "return"}
        /\ detail' = detail \/ detail'.error = "WRONG_TYPE"
    BY <1>9 DEF Record, Checked, Evaluated
  <2> QED
    BY <1>0, <2>1 DEF EarlyInv, FlagInv, AvailableInv
<1>10. CASE ParseStage
  <2>1. /\ UNCHANGED <<begun, flag>> /\ pc' \in {"after", "return"}
        /\ detail' = detail \/ detail'.error = "WRONG_TYPE"
    BY <1>10 DEF ParseStage, Fails, Evaluated
  <2> QED
    BY <1>0, <2>1 DEF EarlyInv, FlagInv, AvailableInv
<1> QED
  BY <1>1, <1>2, <1>3, <1>4, <1>5, <1>6, <1>7, <1>8, <1>9, <1>10 DEF AppStep, EvaluationStep

\* The result is the flag's value or the default, and of the right type once checked.
LEMMA AppValue ==
    ASSUME CallInv, AppStep
    PROVE  ValueInv'
<1> USE DEF CallInv
<1>1. CASE Return
  BY <1>1 DEF Return, ValueInv
<1>2. ASSUME NEW disabled \in BOOLEAN, NEW kind \in Customs, RecordCustom(kind, disabled)
      PROVE  ValueInv'
  <2>1. m'.type = kind /\ ~m'.check /\ pc' = "return"
    BY <1>2 DEF RecordCustom, Method
  <2> QED
    BY <2>1 DEF ValueInv
<1>3. ASSUME NEW disabled \in BOOLEAN, NEW x \in Methods(disabled), Begin(x)
      PROVE  ValueInv'
  BY <1>3 DEF Begin, ValueInv
<1>4. CASE BeforeEvaluation \/ AfterEvaluation \/ CheckRefreshed
  <2>1. /\ UNCHANGED <<m, flag, detail, err>>
        /\ pc' \in {"evaluate", "get", "cached?"} \/ (pc = "after" /\ pc' = "return")
    BY <1>4 DEF BeforeEvaluation, AfterEvaluation, ExecuteStage, CheckRefreshed
  <2> QED
    BY <2>1 DEF ValueInv
<1>5. CASE Refuse
  <2>1. /\ UNCHANGED <<m, flag>> /\ pc' \in {"after", "return"} /\ detail'.value = m.default
    BY <1>5 DEF Refuse, Fails, Evaluated
  <2> QED
    BY <2>1 DEF ValueInv
<1>6. CASE CheckCached \/ GetFlag
  <2>1. /\ UNCHANGED m
        /\ pc' \in {"get", "evaluator"} \/ (pc' = "record" /\ detail'.value = m.default)
    BY <1>6 DEF CheckCached, GetFlag, Fails
  <2> QED
    BY <2>1 DEF ValueInv
<1>7. CASE Evaluate
  <2>1. /\ UNCHANGED <<m, flag, err>> /\ pc = "evaluator" /\ pc' = "record"
        /\ detail'.value \in {flag.content, m.default}
    BY <1>7 DEF Evaluate
  <2> QED
    BY <2>1 DEF ValueInv, EarlyInv
<1>8. CASE Record
  <2>1. /\ UNCHANGED <<m, flag>> /\ pc = "record" /\ pc' \in {"parse", "after", "return"}
        /\ detail' = Checked /\ err' = (err /\ m.type # "migration")
        /\ pc' = "parse" => ~err
    BY <1>8 DEF Record, Evaluated
  <2>2. m.type \notin Customs
    BY <2>1 DEF MethodInv
  <2>3. Checked.value \in {detail.value, m.default}
    BY DEF Checked
  <2>4. ASSUME m.check PROVE TypeOf(Checked.value) = TypeOf(m.default)
    <3>1. TypeOf(m.default) # "null"
      BY <2>4 DEF MethodInv
    <3>2. CASE err
      <4>1. Checked.value = m.default
        BY <2>1, <3>2 DEF ValueInv, Checked
      <4> QED
        BY <4>1
    <3>3. CASE ~err /\ TypeOf(detail.value) # TypeOf(m.default)
      <4>1. Checked.value = m.default
        BY <2>4, <3>1, <3>3 DEF Checked
      <4> QED
        BY <4>1
    <3>4. CASE TypeOf(detail.value) = TypeOf(m.default)
      <4>1. Checked = detail
        BY <3>4 DEF Checked
      <4> QED
        BY <4>1, <3>4
    <3> QED
      BY <3>2, <3>3, <3>4
  <2> HIDE DEF CallInv
  <2>5. detail.value \in {flag.content, m.default}
    BY <2>1, <2>2 DEF CallInv, ValueInv
  <2> QED
    BY <2>1, <2>3, <2>4, <2>5 DEF ValueInv
<1>9. CASE ParseStage
  <2>1. /\ UNCHANGED <<m, flag>> /\ pc = "parse" /\ pc' \in {"after", "return"}
        /\ detail' = detail \/ detail'.value = m.default
    BY <1>9 DEF ParseStage, Fails, Evaluated
  <2> QED
    BY <2>1 DEF ValueInv
<1> QED
  BY <1>1, <1>2, <1>3, <1>4, <1>5, <1>6, <1>7, <1>8, <1>9 DEF AppStep, EvaluationStep

-----------------------------------------------------------------------------
(***************************************************************************)
(* Events.  The only events of an evaluation are the prerequisite's, which *)
(* the evaluator makes, and the flag's, which follows it.                  *)
(***************************************************************************)
Prerequisite == [of |-> "prerequisite", value |-> "null"]
FlagEvent(v) == [of |-> "flag", value |-> v]
Told(es, v) == es = <<FlagEvent(v)>> \/ es = <<Prerequisite, FlagEvent(v)>>

EventsInv ==
    /\ m.disabled => events = <<>>
    /\ pc \in Early => events = <<>>
    /\ pc = "record" => events = <<>> \/ events = <<Prerequisite>>
    /\ pc \in {"record", "parse"} => detail.error # "USER_NOT_SPECIFIED"
    /\ pc \in Late /\ Evaluation /\ ~m.disabled /\ detail.error # "USER_NOT_SPECIFIED" =>
          \E v : Told(events, v) /\ ((m.type = "migration" /\ err) \/ v = detail.value)

\* Sequences of two
LEMMA Pair == ASSUME NEW a, NEW b PROVE Append(<<a>>, b) = <<a, b>>
<1>1. <<a>> \in Seq({a, b}) /\ Len(<<a>>) = 1 /\ <<a>>[1] = a
  OBVIOUS
<1>2. /\ Append(<<a>>, b) \in Seq({a, b}) /\ Len(Append(<<a>>, b)) = 2
      /\ Append(<<a>>, b)[1] = a /\ Append(<<a>>, b)[2] = b
  BY <1>1, AppendProperties
<1>3. <<a, b>> \in Seq({a, b}) /\ Len(<<a, b>>) = 2 /\ <<a, b>>[1] = a /\ <<a, b>>[2] = b
  OBVIOUS
<1> DEFINE s == Append(<<a>>, b)
           t == <<a, b>>
<1>4. /\ s \in Seq({a, b}) /\ t \in Seq({a, b}) /\ Len(s) = 2 /\ Len(t) = 2
      /\ s[1] = t[1] /\ s[2] = t[2]
  BY <1>2, <1>3
<1> HIDE DEF s, t
<1>5. \A i \in 1 .. Len(s) : s[i] = t[i]
  BY <1>4
<1>6. s = t
  BY <1>4, <1>5, SeqEqual
<1> QED
  BY <1>6 DEF s, t

\* Recording the flag's event
LEMMA Recording ==
    ASSUME NEW es, es = <<>> \/ es = <<Prerequisite>>, NEW v
    PROVE  Told(Append(es, FlagEvent(v)), v)
<1>1. Append(<<>>, FlagEvent(v)) = <<FlagEvent(v)>>
  OBVIOUS
<1>2. Append(<<Prerequisite>>, FlagEvent(v)) = <<Prerequisite, FlagEvent(v)>>
  BY Pair
<1> QED
  BY <1>1, <1>2 DEF Told

\* Every call tells what it returns.
LEMMA AppEvents ==
    ASSUME CallInv, EventsInv, AppStep
    PROVE  EventsInv'
<1>1. CASE Return
  BY <1>1 DEF Return, EventsInv, AllFlags, Method
<1>2. ASSUME NEW disabled \in BOOLEAN, NEW kind \in Customs, RecordCustom(kind, disabled)
      PROVE  EventsInv'
  <2>1. /\ m'.type = kind /\ m'.disabled = disabled /\ pc' = "return"
        /\ disabled => events' = <<>>
    BY <1>2 DEF RecordCustom, Method
  <2> QED
    BY <2>1 DEF EventsInv, Evaluation
<1>3. ASSUME NEW disabled \in BOOLEAN, NEW x \in Methods(disabled), Begin(x)
      PROVE  EventsInv'
  <2>1. pc = "idle" /\ pc' \in {"before", "evaluate"} /\ UNCHANGED events
    BY <1>3 DEF Begin
  <2>2. events = <<>>
    BY <2>1 DEF EventsInv
  <2> QED
    BY <2>1, <2>2 DEF EventsInv
<1>4. CASE BeforeEvaluation \/ CheckRefreshed
  <2>1. /\ pc \in Early /\ pc' \in Early /\ UNCHANGED events
    BY <1>4 DEF BeforeEvaluation, ExecuteStage, CheckRefreshed
  <2>2. events = <<>>
    BY <2>1 DEF EventsInv
  <2> QED
    BY <2>1, <2>2 DEF EventsInv
<1>5. CASE AfterEvaluation
  <2>1. pc = "after" /\ pc' = "return" /\ UNCHANGED <<m, detail, err, events>>
    BY <1>5 DEF AfterEvaluation, ExecuteStage
  <2> QED
    BY <2>1 DEF EventsInv, Evaluation, Told
<1>6. CASE Refuse
  <2>1. /\ pc = "evaluate" /\ pc' \in {"after", "return"} /\ UNCHANGED <<m, events>>
        /\ detail'.error = "USER_NOT_SPECIFIED" \/ offline
    BY <1>6 DEF Refuse, Fails, Evaluated
  <2>2. events = <<>> /\ (offline => m.disabled)
    BY <2>1 DEF EventsInv, CallInv, MethodInv
  <2> QED
    BY <2>1, <2>2 DEF EventsInv
<1>7. CASE CheckCached \/ GetFlag
  <2>1. /\ pc \in Early /\ pc' \in {"get", "evaluator", "record"} /\ UNCHANGED events
        /\ pc' = "record" => detail'.error # "USER_NOT_SPECIFIED"
    BY <1>7 DEF CheckCached, GetFlag, Fails
  <2>2. events = <<>>
    BY <2>1 DEF EventsInv
  <2> QED
    BY <2>1, <2>2 DEF EventsInv
<1>8. CASE Evaluate
  <2>1. /\ pc = "evaluator" /\ pc' = "record" /\ UNCHANGED m /\ detail'.error = ""
        /\ \/ events' = events
           \/ events' = Append(events, Prerequisite) /\ ~m.disabled
    BY <1>8 DEF Evaluate, Prerequisite
  <2>2. events = <<>>
    BY <2>1 DEF EventsInv
  <2>3. Append(<<>>, Prerequisite) = <<Prerequisite>>
    OBVIOUS
  <2> QED
    BY <2>1, <2>2, <2>3 DEF EventsInv
<1>9. CASE Record
  <2>1. /\ pc = "record" /\ pc' \in Late /\ UNCHANGED m
        /\ \/ m.disabled /\ events' = events
           \/ m.type = "all" /\ events' = events /\ ~m.disabled
           \/ events' = Append(events, FlagEvent(detail'.value)) /\ ~m.disabled
    BY <1>9 DEF Record, Evaluated, FlagEvent
  <2>2. /\ events = <<>> \/ events = <<Prerequisite>>
        /\ detail'.error # "USER_NOT_SPECIFIED"
    BY <1>9, <2>1 DEF EventsInv, Record, Checked
  <2>3. CASE m.disabled
    BY <2>1, <2>2, <2>3 DEF EventsInv
  <2>4. CASE m.type = "all" /\ ~m.disabled
    BY <2>1, <2>2, <2>4 DEF EventsInv, Evaluation
  <2>5. CASE events' = Append(events, FlagEvent(detail'.value)) /\ ~m.disabled
    <3>1. Told(events', detail'.value)
      BY <2>2, <2>5, Recording
    <3> QED
      BY <2>1, <2>2, <2>5, <3>1 DEF EventsInv
  <2> QED
    BY <2>1, <2>3, <2>4, <2>5
<1>10. CASE ParseStage
  <2>1. /\ pc = "parse" /\ pc' \in {"after", "return"} /\ UNCHANGED <<m, events>>
        /\ \/ UNCHANGED <<detail, err>>
           \/ detail'.error = "WRONG_TYPE" /\ err' = TRUE
    BY <1>10 DEF ParseStage, Fails, Evaluated
  <2>2. m.type = "migration"
    BY <2>1 DEF CallInv, MethodInv
  <2>3. m.disabled => events' = <<>>
    BY <2>1 DEF EventsInv
  <2>4. ASSUME ~m.disabled, detail'.error # "USER_NOT_SPECIFIED"
        PROVE  \E v : Told(events', v) /\ ((m.type = "migration" /\ err') \/ v = detail'.value)
    <3>1. detail.error # "USER_NOT_SPECIFIED"
      BY <2>1 DEF EventsInv
    <3>2. PICK v : Told(events, v) /\ ((m.type = "migration" /\ err) \/ v = detail.value)
      BY <2>1, <2>2, <2>4, <3>1 DEF EventsInv, Evaluation
    <3>3. Told(events', v)
      BY <3>2, <2>1 DEF Told
    <3>4. (m.type = "migration" /\ err') \/ v = detail'.value
      BY <2>1, <2>2, <3>2
    <3> QED
      BY <3>3, <3>4
  <2> QED
    BY <2>1, <2>3, <2>4 DEF EventsInv
<1> QED
  BY <1>1, <1>2, <1>3, <1>4, <1>5, <1>6, <1>7, <1>8, <1>9, <1>10 DEF AppStep, EvaluationStep

-----------------------------------------------------------------------------
(***************************************************************************)
(* Hooks.  The trace has one entry per hook for each stage that was run.   *)
(***************************************************************************)
HookEntry == [stage : {"before", "after"}, hook : Nat, got : Nat]
NestsAt(i) ==
    /\ trace[i].hook = IF i <= Hooks THEN i ELSE 2 * Hooks + 1 - i
    /\ trace[i].got \in {0, trace[i].hook}
    /\ trace[i].stage = IF i <= Hooks THEN "before" ELSE "after"
TraceInv ==
    /\ trace \in Seq(HookEntry)
    /\ \A i \in 1 .. Len(trace) : NestsAt(i)
    /\ \A k \in 1 .. Hooks : data[k] \in {0, k}
    /\ pc \in {"idle", "before"} => Len(trace) = 0
    /\ Evaluation /\ pc \in (Early \ {"idle", "before"}) \cup {"record", "parse", "after"} =>
          Len(trace) = Hooks
    /\ Evaluation /\ pc = "return" => Len(trace) = 2 * Hooks

\* The length of a sequence given as a function
LEMMA FunctionLength ==
    ASSUME NEW S, NEW n \in Nat, NEW f \in [1 .. n -> S]
    PROVE  f \in Seq(S) /\ Len(f) = n
<1>1. f \in Seq(S)
  BY SeqDef
<1> QED
  BY <1>1, LenProperties

\* One stage of all hooks, in the order of the sequence
LEMMA StageRuns ==
    ASSUME NEW stg \in {"before", "after"}, NEW sequence, ExecuteStage(stg, sequence),
           trace \in Seq(HookEntry),
           \A k \in 1 .. Hooks : sequence[k] \in 1 .. Hooks /\ data[k] \in {0, k}
    PROVE  /\ trace' \in Seq(HookEntry) /\ Len(trace') = Len(trace) + Hooks
           /\ \A i \in 1 .. Len(trace) : trace'[i] = trace[i]
           /\ \A i \in 1 .. Hooks :
                 /\ trace'[Len(trace) + i].stage = stg
                 /\ trace'[Len(trace) + i].hook = sequence[i]
                 /\ trace'[Len(trace) + i].got \in {0, sequence[i]}
<1> DEFINE new == [k \in 1 .. Hooks |->
               [stage |-> stg, hook |-> sequence[k], got |-> data[sequence[k]]]]
<1>1. \A k \in 1 .. Hooks : /\ sequence[k] \in Nat /\ data[sequence[k]] \in Nat
                            /\ data[sequence[k]] \in {0, sequence[k]}
  BY HooksAssumption
<1>2. new \in [1 .. Hooks -> HookEntry]
  BY <1>1 DEF HookEntry
<1>3. new \in Seq(HookEntry)
  BY <1>2, HooksAssumption, FunctionLength
<1>4. \A k \in 1 .. Hooks : /\ new[k].stage = stg /\ new[k].hook = sequence[k]
                            /\ new[k].got \in {0, sequence[k]}
  BY <1>1
<1>5. trace' = trace \o new
  BY DEF ExecuteStage
<1> HIDE DEF new
<1>6. Len(new) = Hooks
  BY <1>2, HooksAssumption, FunctionLength
<1>7. Len(trace) \in Nat
  BY LenProperties
<1>8. /\ trace' \in Seq(HookEntry) /\ Len(trace') = Len(trace) + Hooks
      /\ \A i \in 1 .. Len(trace) + Hooks :
            trace'[i] = IF i <= Len(trace) THEN trace[i] ELSE new[i - Len(trace)]
  BY <1>3, <1>5, <1>6, ConcatProperties
<1>9. \A i \in 1 .. Len(trace) : trace'[i] = trace[i]
  BY <1>7, <1>8, HooksAssumption
<1>10. \A i \in 1 .. Hooks : trace'[Len(trace) + i] = new[i]
  <2> SUFFICES ASSUME NEW i \in 1 .. Hooks PROVE trace'[Len(trace) + i] = new[i]
    OBVIOUS
  <2>1. /\ Len(trace) + i \in 1 .. Len(trace) + Hooks /\ ~ (Len(trace) + i <= Len(trace))
        /\ (Len(trace) + i) - Len(trace) = i
    BY <1>7, HooksAssumption
  <2> QED
    BY <2>1, <1>8
<1> QED
  BY <1>4, <1>8, <1>9, <1>10

\* The order of the stages
LEMMA StageOrders ==
    /\ \A k \in 1 .. Hooks : Forward[k] = k
    /\ \A k \in 1 .. Hooks : Reverse(Forward)[k] = Hooks + 1 - k
<1>1. \A k \in 1 .. Hooks : Forward[k] = k
  BY DEF Forward
<1>2. Forward \in Seq(Nat) /\ Len(Forward) = Hooks
  <2>1. Forward \in [1 .. Hooks -> Nat]
    BY HooksAssumption DEF Forward
  <2> QED
    BY <2>1, HooksAssumption, FunctionLength
<1>3. ASSUME NEW k \in 1 .. Hooks PROVE Reverse(Forward)[k] = Hooks + 1 - k
  <2>1. (Hooks - k) + 1 \in 1 .. Hooks /\ (Hooks - k) + 1 = Hooks + 1 - k
    BY HooksAssumption
  <2>2. Reverse(Forward)[k] = Forward[(Hooks - k) + 1]
    BY <1>2 DEF Reverse
  <2> QED
    BY <2>1, <2>2, <1>1
<1> QED
  BY <1>1, <1>3

\* The hooks run around every evaluation.
LEMMA AppTrace ==
    ASSUME CallInv, TraceInv, AppStep
    PROVE  TraceInv'
<1>0. MethodInv /\ Len(trace) \in Nat
  BY LenProperties DEF CallInv, TraceInv
<1>1. CASE Return
  <2>1. pc' = "idle" /\ trace' = <<>> /\ data' = [i \in 1 .. Hooks |-> 0]
    BY <1>1 DEF Return, NoData
  <2>2. trace' \in Seq(HookEntry) /\ Len(trace') = 0
    BY <2>1
  <2> QED
    BY <2>1, <2>2 DEF TraceInv
<1>2. ASSUME NEW disabled \in BOOLEAN, NEW kind \in Customs, RecordCustom(kind, disabled)
      PROVE  TraceInv'
  <2>1. m'.type = kind /\ pc' = "return" /\ UNCHANGED <<data, trace>>
    BY <1>2 DEF RecordCustom, Method
  <2> QED
    BY <2>1 DEF TraceInv, NestsAt, Evaluation
<1>3. ASSUME NEW disabled \in BOOLEAN, NEW x \in Methods(disabled), Begin(x)
      PROVE  TraceInv'
  <2>1. /\ m' = x /\ UNCHANGED <<data, trace>> /\ pc = "idle"
        /\ \/ pc' = "before"
           \/ pc' = "evaluate" /\ (x.type = "all" \/ ~ (Hooks > 0))
    BY <1>3 DEF Begin
  <2>2. Len(trace) = 0
    BY <2>1 DEF TraceInv
  <2>3. Evaluation' /\ pc' = "evaluate" => Len(trace) = Hooks
    BY <2>1, <2>2, HooksAssumption DEF Evaluation
  <2> QED
    BY <2>1, <2>2, <2>3 DEF TraceInv, NestsAt
<1>4. CASE BeforeEvaluation
  <2>1. /\ ExecuteStage("before", Forward) /\ pc = "before" /\ pc' = "evaluate" /\ UNCHANGED m
        /\ data' = Forward \/ \E i \in 1 .. Hooks : data' = [Forward EXCEPT ![i] = data[i]]
    BY <1>4 DEF BeforeEvaluation, ExecuteStage
  <2>2. trace \in Seq(HookEntry) /\ Len(trace) = 0 /\ \A k \in 1 .. Hooks : data[k] \in {0, k}
    BY <2>1 DEF TraceInv
  <2>3. /\ trace' \in Seq(HookEntry) /\ Len(trace') = Len(trace) + Hooks
        /\ \A i \in 1 .. Hooks : /\ trace'[Len(trace) + i].stage = "before"
                                 /\ trace'[Len(trace) + i].hook = Forward[i]
                                 /\ trace'[Len(trace) + i].got \in {0, Forward[i]}
    <3>1. \A k \in 1 .. Hooks : Forward[k] \in 1 .. Hooks
      BY StageOrders
    <3> QED
      BY <2>1, <2>2, <3>1, StageRuns
  <2>4. /\ Len(trace') = Hooks
        /\ \A i \in 1 .. Hooks : /\ trace'[i].stage = "before" /\ trace'[i].hook = i
                                 /\ trace'[i].got \in {0, i}
    BY <2>2, <2>3, StageOrders, HooksAssumption
  <2>5. \A k \in 1 .. Hooks : data'[k] \in {0, k}
    BY <2>1, <2>2 DEF Forward
  <2>6. \A i \in 1 .. Len(trace') : NestsAt(i)'
    BY <2>4, HooksAssumption DEF NestsAt
  <2> QED
    BY <2>1, <2>3, <2>4, <2>5, <2>6 DEF TraceInv
<1>5. CASE AfterEvaluation
  <2>1. /\ ExecuteStage("after", Reverse(Forward)) /\ pc = "after" /\ pc' = "return"
        /\ UNCHANGED <<m, data>>
    BY <1>5 DEF AfterEvaluation, ExecuteStage
  <2>2. /\ trace \in Seq(HookEntry) /\ \A k \in 1 .. Hooks : data[k] \in {0, k}
        /\ Len(trace) = Hooks
    BY <1>0, <2>1 DEF TraceInv, MethodInv, Evaluation
  <2>3. \A k \in 1 .. Hooks : /\ Reverse(Forward)[k] \in 1 .. Hooks
                              /\ Reverse(Forward)[k] = Hooks + 1 - k
    BY StageOrders, HooksAssumption
  <2>4. /\ trace' \in Seq(HookEntry) /\ Len(trace') = Hooks + Hooks
        /\ \A i \in 1 .. Hooks : trace'[i] = trace[i]
        /\ \A k \in 1 .. Hooks : /\ trace'[Hooks + k].stage = "after"
                                 /\ trace'[Hooks + k].hook = Reverse(Forward)[k]
                                 /\ trace'[Hooks + k].got \in {0, Reverse(Forward)[k]}
    <3>1. \A k \in 1 .. Hooks : Reverse(Forward)[k] \in 1 .. Hooks /\ data[k] \in {0, k}
      BY <2>2, <2>3
    <3> DEFINE rev == Reverse(Forward)
    <3> HIDE DEF rev
    <3>2. ExecuteStage("after", rev) /\ \A k \in 1 .. Hooks : rev[k] \in 1 .. Hooks /\ data[k] \in {0, k}
      BY <2>1, <3>1 DEF rev
    <3>3. /\ trace' \in Seq(HookEntry) /\ Len(trace') = Len(trace) + Hooks
          /\ \A i \in 1 .. Len(trace) : trace'[i] = trace[i]
          /\ \A i \in 1 .. Hooks :
                /\ trace'[Len(trace) + i].stage = "after"
                /\ trace'[Len(trace) + i].hook = rev[i]
                /\ trace'[Len(trace) + i].got \in {0, rev[i]}
      BY <2>2, <3>2, StageRuns
    <3> QED
      BY <2>2, <3>3 DEF rev
  <2>5. ASSUME NEW i \in 1 .. Len(trace') PROVE NestsAt(i)'
    <3>1. CASE i <= Hooks
      <4>1. i \in 1 .. Hooks /\ i \in 1 .. Len(trace)
        BY <3>1, <2>2, <2>4, HooksAssumption
      <4>2. NestsAt(i) /\ trace'[i] = trace[i]
        BY <4>1, <2>4 DEF TraceInv
      <4> QED
        BY <4>2 DEF NestsAt
    <3>2. CASE ~ (i <= Hooks)
      <4>1. /\ i - Hooks \in 1 .. Hooks /\ Hooks + (i - Hooks) = i
            /\ Hooks + 1 - (i - Hooks) = 2 * Hooks + 1 - i
        BY <3>2, <2>4, HooksAssumption
      <4>2. /\ trace'[i].stage = "after" /\ trace'[i].hook = 2 * Hooks + 1 - i
            /\ trace'[i].got \in {0, 2 * Hooks + 1 - i}
        BY <4>1, <2>3, <2>4
      <4> QED
        BY <3>2, <4>2 DEF NestsAt
    <3> QED
      BY <3>1, <3>2
  <2> QED
    BY <2>1, <2>2, <2>4, <2>5, HooksAssumption DEF TraceInv
<1>6. CASE Refuse \/ CheckRefreshed \/ CheckCached \/ GetFlag \/ Evaluate \/ Record \/ ParseStage
  <2>1. /\ UNCHANGED <<m, data, trace>>
        /\ pc \in (Early \ {"idle", "before"}) \cup {"record", "parse"}
        /\ \/ pc' \in (Early \ {"idle", "before"}) \cup {"record", "parse"}
           \/ pc' = Evaluated
    BY <1>6 DEF Refuse, CheckRefreshed, CheckCached, GetFlag, Evaluate, Record, ParseStage
  <2>2. Evaluation => Len(trace) = Hooks
    BY <2>1 DEF TraceInv
  <2>3. pc' = "return" /\ Evaluation => Len(trace) = 2 * Hooks
    <3>1. pc' = "return" /\ Evaluation => Hooks = 0
      BY <2>1, HooksAssumption DEF Evaluated, Evaluation
    <3> QED
      BY <2>2, <3>1
  <2>4. pc' \notin {"idle", "before"}
    BY <2>1 DEF Evaluated
  <2> QED
    BY <2>1, <2>2, <2>3, <2>4 DEF TraceInv, NestsAt, Evaluation
<1> QED
  BY <1>1, <1>2, <1>3, <1>4, <1>5, <1>6 DEF AppStep, EvaluationStep

-----------------------------------------------------------------------------
(***************************************************************************)
(* Migrations.  Executions begin when the evaluation has returned; what    *)
(* the tracker has follows from what was executed.                         *)
(***************************************************************************)
Executed == {o \in Origins : exec[o] # "no"}
Fresh == exec = NoExecution /\ tracker = NewTracker

MigrationTypes ==
    /\ op \in {"", "read", "write"}
    /\ op = "write" => order = "Serial"
    /\ exec \in [Origins -> {"no", "ok", "failed"}]
    /\ tracker \in [invoked : SUBSET Origins, errors : SUBSET Origins, latency : SUBSET Origins,
                    check : BOOLEAN, built : {"no", "error", "silent", "sent"}]
    /\ pc # "return" \/ op = "" => Fresh
ExecInv ==
    /\ op = "write" /\ exec[nonAuthoritative] # "no" => exec[authoritative] = "ok"
    /\ \A o \in Origins \ Called : exec[o] = "no"
TrackInv ==
    /\ tracker.latency \subseteq Executed /\ tracker.errors \subseteq Executed
    /\ "errors" \in Measures => tracker.errors = {o \in Origins : exec[o] = "failed"}
    /\ tracker.built = "no" => /\ ~tracker.check
                               /\ tracker.invoked = IF op = "write" THEN Executed ELSE {}
    /\ tracker.built # "no" =>
          /\ tracker.invoked = Executed
          /\ tracker.built = "error" <=> detail.error = "USER_NOT_SPECIFIED"
    /\ m.disabled => tracker.built # "sent"

MigrationInv == MigrationTypes /\ ExecInv /\ TrackInv

USE DEF Origins

\* The authoritative origin is always called.
LEMMA OriginsOfStage ==
    /\ authoritative \in Origins /\ nonAuthoritative \in Origins
    /\ authoritative # nonAuthoritative
    /\ \A o \in Origins : o = authoritative \/ o = nonAuthoritative
    /\ authoritative \in Called /\ Called \subseteq Origins
BY DEF authoritative, nonAuthoritative, Called

\* A new operation has executed and tracked nothing.
LEMMA FreshMigration ==
    ASSUME Fresh', op' \in {"", "read", "write"}, op' = "write" => order' = "Serial"
    PROVE  MigrationInv'
<1>1. /\ exec' = [o \in Origins |-> "no"]
      /\ tracker' = [invoked |-> {}, errors |-> {}, latency |-> {}, check |-> FALSE, built |-> "no"]
  BY DEF Fresh, NoExecution, NewTracker
<1>2. /\ tracker'.invoked = {} /\ tracker'.errors = {} /\ tracker'.latency = {}
      /\ ~tracker'.check /\ tracker'.built = "no"
  BY <1>1
<1>3. Executed' = {} /\ {o \in Origins : exec'[o] = "failed"} = {}
  BY <1>1 DEF Executed
<1>4. MigrationTypes'
  <2>1. exec' \in [Origins -> {"no", "ok", "failed"}]
    BY <1>1
  <2>2. tracker' \in [invoked : SUBSET Origins, errors : SUBSET Origins, latency : SUBSET Origins,
                      check : BOOLEAN, built : {"no", "error", "silent", "sent"}]
    BY <1>1
  <2> QED
    BY <2>1, <2>2 DEF MigrationTypes
<1>5. ExecInv'
  <2>1. nonAuthoritative' \in Origins
    BY DEF nonAuthoritative, authoritative
  <2> QED
    BY <1>1, <2>1 DEF ExecInv
<1>6. TrackInv'
  BY <1>2, <1>3 DEF TrackInv
<1> QED
  BY <1>4, <1>5, <1>6 DEF MigrationInv

\* The source and the client work while the operation stays where it is.
LEMMA QuietMigration ==
    ASSUME MigrationInv, UNCHANGED <<pc, m, detail, op, order, exec, tracker>>
    PROVE  MigrationInv'
<1>1. MigrationTypes'
  BY DEF MigrationInv, MigrationTypes, Fresh
<1>2. ExecInv'
  BY DEF MigrationInv, ExecInv, nonAuthoritative, authoritative, Called, stage
<1>3. TrackInv'
  BY DEF MigrationInv, TrackInv, Executed
<1> QED
  BY <1>1, <1>2, <1>3 DEF MigrationInv

\* An evaluation ends before anything is executed.
LEMMA AppMigration ==
    ASSUME CallInv, MigrationInv, EvaluationStep, UNCHANGED migrationVars
    PROVE  MigrationInv'
<1>1. pc # "return"
  BY DEF EvaluationStep, BeforeEvaluation, AfterEvaluation, Refuse, CheckRefreshed, CheckCached,
         GetFlag, Evaluate, Record, ParseStage
<1>2. Fresh' /\ op' = op /\ order' = order
  BY <1>1 DEF MigrationInv, MigrationTypes, Fresh, migrationVars
<1> QED
  BY <1>2, FreshMigration DEF MigrationInv, MigrationTypes

\* One execution
LEMMA ExecuteMigration ==
    ASSUME MigrationInv, NEW o \in Origins, Execute(o)
    PROVE  MigrationInv'
<1>1. /\ pc = "return" /\ op # "" /\ tracker.built = "no" /\ exec[o] = "no" /\ MayExecute(o)
      /\ UNCHANGED <<pc, m, detail, op, order>>
  BY DEF Execute, Running, callVars
<1>2. PICK result \in {"ok", "failed"} :
        /\ exec' = [exec EXCEPT ![o] = result]
        /\ tracker' = [tracker EXCEPT
              !.latency = IF "latency" \in Measures THEN @ \cup {o} ELSE @,
              !.errors = IF result = "failed" /\ "errors" \in Measures THEN @ \cup {o} ELSE @,
              !.invoked = IF op = "write" THEN @ \cup {o} ELSE @]
  BY DEF Execute
<1>3. /\ exec \in [Origins -> {"no", "ok", "failed"}]
      /\ tracker \in [invoked : SUBSET Origins, errors : SUBSET Origins, latency : SUBSET Origins,
                      check : BOOLEAN, built : {"no", "error", "silent", "sent"}]
  BY DEF MigrationInv, MigrationTypes
<1>4. /\ tracker' \in [invoked : SUBSET Origins, errors : SUBSET Origins, latency : SUBSET Origins,
                       check : BOOLEAN, built : {"no", "error", "silent", "sent"}]
      /\ tracker'.latency = tracker.latency \/ tracker'.latency = tracker.latency \cup {o}
      /\ tracker'.errors = IF result = "failed" /\ "errors" \in Measures
                           THEN tracker.errors \cup {o} ELSE tracker.errors
      /\ tracker'.invoked = IF op = "write" THEN tracker.invoked \cup {o} ELSE tracker.invoked
      /\ tracker'.built = tracker.built /\ tracker'.check = tracker.check
  BY <1>2, <1>3
<1>5. \A p \in Origins : exec'[p] = IF p = o THEN result ELSE exec[p]
  BY <1>2, <1>3
<1>6. Executed' = Executed \cup {o}
  BY <1>5 DEF Executed
<1>7. MigrationTypes'
  <2>1. exec' \in [Origins -> {"no", "ok", "failed"}]
    BY <1>2, <1>3
  <2> QED
    BY <1>1, <1>4, <2>1 DEF MigrationInv, MigrationTypes
<1>8. ExecInv'
  <2>1. UNCHANGED <<authoritative, nonAuthoritative, Called>>
    BY <1>1 DEF authoritative, nonAuthoritative, Called, stage
  <2>2. op = "write" => order = "Serial"
    BY DEF MigrationInv, MigrationTypes
  <2>3. /\ op = "write" /\ exec[nonAuthoritative] # "no" => exec[authoritative] = "ok"
        /\ \A p \in Origins \ Called : exec[p] = "no"
    BY DEF MigrationInv, ExecInv
  <2>4. o \in Called
    BY <1>1, OriginsOfStage DEF MayExecute
  <2>5. op = "write" /\ exec'[nonAuthoritative] # "no" => exec'[authoritative] = "ok"
    <3>1. CASE o = authoritative
      BY <3>1, <1>1, <1>5, <2>3, OriginsOfStage
    <3>2. CASE o = nonAuthoritative
      <4>1. op = "write" => exec[authoritative] = "ok"
        BY <3>2, <1>1, <2>2, OriginsOfStage DEF MayExecute
      <4> QED
        BY <3>2, <4>1, <1>5, OriginsOfStage
    <3> QED
      BY <3>1, <3>2, OriginsOfStage
  <2>6. \A p \in Origins \ Called : exec'[p] = "no"
    BY <1>5, <2>3, <2>4
  <2> QED
    BY <1>1, <2>1, <2>5, <2>6 DEF ExecInv
<1>9. TrackInv'
  <2>1. TrackInv /\ tracker.built = "no"
    BY <1>1 DEF MigrationInv
  <2>2. tracker'.latency \subseteq Executed' /\ tracker'.errors \subseteq Executed'
    BY <1>4, <1>6, <2>1 DEF TrackInv
  <2>3. "errors" \in Measures => tracker'.errors = {p \in Origins : exec'[p] = "failed"}
    <3> SUFFICES ASSUME "errors" \in Measures
                 PROVE  tracker'.errors = {p \in Origins : exec'[p] = "failed"}
      OBVIOUS
    <3>1. tracker.errors = {p \in Origins : exec[p] = "failed"} /\ exec[o] = "no"
      BY <1>1, <2>1 DEF TrackInv
    <3>2. CASE result = "failed"
      <4>1. tracker'.errors = tracker.errors \cup {o}
        BY <3>2, <1>4
      <4>2. {p \in Origins : exec'[p] = "failed"} = {p \in Origins : exec[p] = "failed"} \cup {o}
        BY <3>2, <1>5
      <4> QED
        BY <3>1, <4>1, <4>2
    <3>3. CASE result = "ok"
      <4>1. tracker'.errors = tracker.errors
        BY <3>3, <1>4
      <4>2. {p \in Origins : exec'[p] = "failed"} = {p \in Origins : exec[p] = "failed"}
        BY <3>1, <3>3, <1>5
      <4> QED
        BY <3>1, <4>1, <4>2
    <3> QED
      BY <3>2, <3>3
  <2>4. ~tracker'.check /\ tracker'.built = "no"
    BY <1>4, <2>1 DEF TrackInv
  <2>5. tracker'.invoked = IF op' = "write" THEN Executed' ELSE {}
    BY <1>1, <1>4, <1>6, <2>1 DEF TrackInv
  <2> QED
    BY <2>2, <2>3, <2>4, <2>5 DEF TrackInv
<1> QED
  BY <1>7, <1>8, <1>9 DEF MigrationInv

\* When nothing more may be executed, what the stage calls for has been.
LEMMA AllCalled ==
    ASSUME MigrationInv, AllExecuted
    PROVE  /\ authoritative \in Executed
           /\ op # "write" => Executed = Called
<1>1. /\ \A o \in Origins : o \in Executed \/ ~MayExecute(o)
      /\ op \in {"read", "write"} /\ (op = "write" => order = "Serial")
      /\ Executed \subseteq Called
  BY DEF AllExecuted, Running, Finished, Executed, MigrationInv, MigrationTypes, ExecInv
<1>2. CASE order = "Reversed" /\ nonAuthoritative \in Called
  <2>1. nonAuthoritative \in Executed
    BY <1>1, <1>2, OriginsOfStage DEF MayExecute
  <2>2. MayExecute(authoritative)
    BY <2>1 DEF MayExecute, Finished, Executed
  <2>3. authoritative \in Executed
    BY <1>1, <2>2, OriginsOfStage
  <2> QED
    BY <1>1, <2>1, <2>3, OriginsOfStage
<1>3. CASE ~ (order = "Reversed" /\ nonAuthoritative \in Called)
  <2>1. MayExecute(authoritative)
    BY <1>3 DEF MayExecute
  <2>2. authoritative \in Executed
    BY <1>1, <2>1, OriginsOfStage
  <2>3. op # "write" /\ nonAuthoritative \in Called => MayExecute(nonAuthoritative)
    BY <1>1, <2>2 DEF MayExecute, Finished, Executed
  <2>4. op # "write" /\ nonAuthoritative \in Called => nonAuthoritative \in Executed
    BY <1>1, <2>3, OriginsOfStage
  <2> QED
    BY <1>1, <2>2, <2>4, OriginsOfStage
<1> QED
  BY <1>2, <1>3

\* The event of the operation
LEMMA BuildMigration ==
    ASSUME MigrationInv, Build
    PROVE  MigrationInv'
<1>1. /\ AllExecuted /\ UNCHANGED <<pc, m, detail, op, order, exec>>
      /\ pc = "return" /\ op # "" /\ tracker.built = "no"
  BY DEF Build, AllExecuted, Running, callVars
<1>2. PICK t \in Tracked :
        tracker' = [t EXCEPT !.built = IF ~Valid(t) THEN "error"
                                       ELSE IF m.disabled THEN "silent" ELSE "sent"]
  BY DEF Build
<1> DEFINE Trackers == [invoked : SUBSET Origins, errors : SUBSET Origins,
                        latency : SUBSET Origins, check : BOOLEAN,
                        built : {"no", "error", "silent", "sent"}]
<1>3. tracker \in Trackers /\ TrackInv
  BY DEF MigrationInv, MigrationTypes
<1>4. /\ t \in Trackers /\ t.invoked = Executed
      /\ t.latency = tracker.latency /\ t.errors = tracker.errors
      /\ t.check => Executed = Origins
  <2>1. CASE op = "write"
    BY <1>1, <1>2, <1>3, <2>1 DEF Tracked, TrackInv
  <2>2. CASE op # "write"
    <3>1. PICK c \in {FALSE, Called = Origins /\ \A o \in Origins : exec[o] = "ok"} :
             t = [tracker EXCEPT !.check = c, !.invoked = Called]
      BY <1>2, <2>2 DEF Tracked
    <3>2. c \in BOOLEAN /\ (c => Called = Origins)
      BY <3>1
    <3>3. Called = Executed /\ Called \in SUBSET Origins
      BY <1>1, <2>2, AllCalled, OriginsOfStage
    <3>4. /\ t \in Trackers /\ t.invoked = Called /\ t.check = c
          /\ t.latency = tracker.latency /\ t.errors = tracker.errors
      BY <1>3, <3>1, <3>2, <3>3
    <3> QED
      BY <3>2, <3>3, <3>4
  <2> QED
    BY <2>1, <2>2
<1>5. Valid(t) <=> detail.error # "USER_NOT_SPECIFIED"
  <2>1. t.invoked # {}
    BY <1>1, <1>4, AllCalled
  <2>2. t.latency \cup t.errors \subseteq t.invoked /\ (t.check => t.invoked = Origins)
    BY <1>3, <1>4 DEF TrackInv
  <2> QED
    BY <2>1, <2>2 DEF Valid
<1>6. /\ tracker' \in Trackers /\ tracker'.invoked = t.invoked
      /\ tracker'.latency = t.latency /\ tracker'.errors = t.errors
      /\ tracker'.built = IF ~Valid(t) THEN "error" ELSE IF m.disabled THEN "silent" ELSE "sent"
  BY <1>2, <1>4
<1>7. MigrationTypes'
  BY <1>1, <1>6 DEF MigrationInv, MigrationTypes
<1>8. ExecInv'
  BY <1>1 DEF MigrationInv, ExecInv, nonAuthoritative, authoritative, Called, stage
<1>9. TrackInv'
  <2>1. Executed' = Executed
    BY <1>1 DEF Executed
  <2>2. tracker'.built # "no" /\ (m.disabled => tracker'.built # "sent")
        /\ (tracker'.built = "error" <=> detail.error = "USER_NOT_SPECIFIED")
    BY <1>5, <1>6
  <2>3. /\ tracker'.latency \subseteq Executed /\ tracker'.errors \subseteq Executed
        /\ tracker'.invoked = Executed
        /\ "errors" \in Measures => tracker'.errors = {o \in Origins : exec[o] = "failed"}
    BY <1>3, <1>4, <1>6 DEF TrackInv
  <2> QED
    BY <1>1, <2>1, <2>2, <2>3 DEF TrackInv
<1> QED
  BY <1>7, <1>8, <1>9 DEF MigrationInv

-----------------------------------------------------------------------------
(* The whole client *)

Inv == SourceInv /\ ClientInv /\ CallInv /\ EventsInv /\ TraceInv /\ MigrationInv

\* Initially the client does not exist and there is no call.
LEMMA InitInv == Init => Inv
<1> SUFFICES ASSUME Init PROVE Inv
  OBVIOUS
<1>1. SourceInv /\ ClientInv /\ CallInv
  BY InitSource, InitClient, InitCall DEF Init
<1>2. EventsInv
  BY DEF Init, Idle, EventsInv, AllFlags, Method
<1>3. TraceInv
  <2>1. pc = "idle" /\ trace = <<>> /\ data = [i \in 1 .. Hooks |-> 0]
    BY DEF Init, Idle, NoData
  <2>2. trace \in Seq(HookEntry) /\ Len(trace) = 0
    BY <2>1
  <2> QED
    BY <2>1, <2>2 DEF TraceInv
<1>4. MigrationInv
  <2>1. /\ exec = [o \in Origins |-> "no"] /\ op = ""
        /\ tracker = [invoked |-> {}, errors |-> {}, latency |-> {}, check |-> FALSE, built |-> "no"]
    BY DEF Init, NoOperation, NoExecution, NewTracker
  <2>2. /\ tracker.invoked = {} /\ tracker.errors = {} /\ tracker.latency = {}
        /\ ~tracker.check /\ tracker.built = "no"
    BY <2>1
  <2>3. Executed = {} /\ {o \in Origins : exec[o] = "failed"} = {}
    BY <2>1 DEF Executed
  <2>4. MigrationTypes
    <3>1. exec \in [Origins -> {"no", "ok", "failed"}]
      BY <2>1
    <3>2. tracker \in [invoked : SUBSET Origins, errors : SUBSET Origins,
                       latency : SUBSET Origins, check : BOOLEAN,
                       built : {"no", "error", "silent", "sent"}]
      BY <2>1
    <3>3. Fresh
      BY <2>1 DEF Fresh, NoExecution, NewTracker
    <3> QED
      BY <2>1, <3>1, <3>2, <3>3 DEF MigrationTypes
  <2>5. ExecInv
    BY <2>1 DEF ExecInv
  <2>6. TrackInv
    BY <2>2, <2>3 DEF TrackInv
  <2> QED
    BY <2>4, <2>5, <2>6 DEF MigrationInv
<1> QED
  BY <1>1, <1>2, <1>3, <1>4 DEF Inv

\* While the application does nothing, its calls stay as they are.
LEMMA QuietApplication ==
    ASSUME Inv, SourceInv', KeepsData, UNCHANGED Application
    PROVE  CallInv' /\ EventsInv' /\ TraceInv' /\ MigrationInv'
<1>1. UNCHANGED callVars /\ UNCHANGED migrationVars
  BY DEF Application
<1>2. CallInv'
  BY <1>1, KeepsCall DEF Inv
<1>3. EventsInv' /\ TraceInv'
  BY <1>1 DEF Inv, EventsInv, TraceInv, NestsAt, Evaluation, callVars
<1>4. MigrationInv'
  BY <1>1, QuietMigration DEF Inv, callVars, migrationVars
<1> QED
  BY <1>2, <1>3, <1>4

\* A call does not disturb the source and the client.
LEMMA AppInv ==
    ASSUME Inv, AppStep, UNCHANGED clientVars, MigrationInv'
    PROVE  Inv'
<1>1. SourceInv' /\ Grows
  BY AppIsQuiet, QuietSource DEF Inv
<1>2. ClientInv'
  BY <1>1, GrowsClient DEF Inv
<1>3. CallInv'
  BY AppMethod, AppAnswer, AppValue DEF Inv, CallInv
<1>4. EventsInv' /\ TraceInv'
  BY AppEvents, AppTrace DEF Inv
<1> QED
  BY <1>1, <1>2, <1>3, <1>4 DEF Inv

\* The steps of the source and the client
LEMMA BackgroundInv ==
    ASSUME Inv,
           \/ Make \/ BuildFails \/ WaitTimeout \/ BeginClose \/ Closing
           \/ Source \/ UNCHANGED vars
    PROVE  Inv'
<1>1. CASE Make \/ BuildFails \/ WaitTimeout
  <2>1. SourceInv' /\ KeepsData /\ ClientInv'
    BY <1>1, MakeClient DEF Make, Inv
  <2>2. UNCHANGED Application
    BY <1>1 DEF Make, BuildPart, StartSource, WaitReady, BuildFails, WaitTimeout
  <2> QED
    BY <2>1, <2>2, QuietApplication DEF Inv
<1>2. CASE BeginClose \/ Closing
  <2>1. SourceInv' /\ KeepsData /\ ClientInv'
    BY <1>2, CloseClient DEF Closing, Inv
  <2>2. UNCHANGED Application
    BY <1>2 DEF Closing, BeginClose, CloseEvents, CloseSystem, CloseSegments
  <2> QED
    BY <2>1, <2>2, QuietApplication DEF Inv
<1>3. CASE Source \/ UNCHANGED vars
  <2>1. SourceInv' /\ Grows
    BY <1>3, PollSource, PublishSource, QuietSource DEF Source, vars, sourceVars, sourceState, Inv
  <2>2. UNCHANGED Application /\ UNCHANGED clientVars
    BY <1>3 DEF Source, vars, Application
  <2>3. ClientInv'
    BY <2>1, <2>2, GrowsClient DEF Inv
  <2> QED
    BY <2>1, <2>2, <2>3, QuietApplication DEF Inv, Grows
<1> QED
  BY <1>1, <1>2, <1>3

\* The steps of a call
LEMMA CallStepInv ==
    ASSUME Inv,
           \/ Step
           \/ \E disabled \in BOOLEAN :
                 \/ \E method \in Methods(disabled) :
                       \/ Call(method)
                       \/ \E o \in {"read", "write"}, ord \in Orders : MigratorCall(o, method, ord)
                 \/ \E kind \in Customs : RecordCustom(kind, disabled)
    PROVE  Inv'
<1>0. MigrationInv
  BY DEF Inv
<1>1. CASE EvaluationStep /\ UNCHANGED <<migrationVars, clientVars>>
  <2>1. MigrationInv'
    BY <1>1, AppMigration DEF Inv
  <2>2. AppStep
    BY <1>1 DEF AppStep
  <2> QED
    BY <1>1, <2>1, <2>2, AppInv
<1>2. CASE MigrationStep /\ UNCHANGED clientVars
  <2>1. MigrationInv'
    BY <1>0, <1>2, ExecuteMigration, BuildMigration DEF MigrationStep
  <2>2. UNCHANGED callVars /\ UNCHANGED sourceVars
    BY <1>2 DEF MigrationStep, Execute, Build
  <2>3. SourceInv' /\ Grows
    BY <2>2, QuietSource DEF Inv, sourceVars, sourceState
  <2>4. ClientInv'
    BY <1>2, <2>3, GrowsClient DEF Inv
  <2>5. CallInv'
    BY <2>2, <2>3, KeepsCall DEF Inv, Grows
  <2>6. EventsInv' /\ TraceInv'
    BY <2>2 DEF Inv, EventsInv, TraceInv, NestsAt, Evaluation, callVars
  <2> QED
    BY <2>1, <2>3, <2>4, <2>5, <2>6 DEF Inv
<1>3. CASE Return
  <2>1. Fresh' /\ op' = ""
    BY <1>3 DEF Return, Fresh
  <2>2. MigrationInv'
    BY <2>1, FreshMigration
  <2>3. AppStep /\ UNCHANGED clientVars
    BY <1>3 DEF AppStep, Return
  <2> QED
    BY <2>2, <2>3, AppInv
<1>4. ASSUME NEW disabled \in BOOLEAN, NEW method \in Methods(disabled), Begin(method),
             UNCHANGED <<exec, tracker>>, UNCHANGED clientVars,
             op' \in {"", "read", "write"}, op' = "write" => order' = "Serial"
      PROVE  Inv'
  <2>1. pc = "idle"
    BY <1>4 DEF Begin
  <2>2. Fresh'
    BY <1>0, <1>4, <2>1 DEF MigrationInv, MigrationTypes, Fresh
  <2>3. MigrationInv'
    BY <1>4, <2>2, FreshMigration
  <2>4. AppStep
    BY <1>4 DEF AppStep
  <2> QED
    BY <1>4, <2>3, <2>4, AppInv
<1>5. ASSUME NEW disabled \in BOOLEAN, NEW method \in Methods(disabled), Call(method)
      PROVE  Inv'
  <2>1. Begin(method) /\ UNCHANGED <<op, order, exec, tracker>> /\ UNCHANGED clientVars
    BY <1>5 DEF Call, migrationVars
  <2>2. op' \in {"", "read", "write"} /\ (op' = "write" => order' = "Serial")
    BY <1>0, <2>1 DEF MigrationInv, MigrationTypes
  <2> QED
    BY <1>4, <2>1, <2>2
<1>6. ASSUME NEW disabled \in BOOLEAN, NEW method \in Methods(disabled),
             NEW o \in {"read", "write"}, NEW ord \in Orders, MigratorCall(o, method, ord)
      PROVE  Inv'
  <2>1. Begin(method) /\ UNCHANGED <<exec, tracker>> /\ UNCHANGED clientVars
    BY <1>6 DEF MigratorCall, BeginOperation
  <2>2. op' \in {"", "read", "write"} /\ (op' = "write" => order' = "Serial")
    BY <1>6 DEF MigratorCall, BeginOperation
  <2> QED
    BY <1>4, <2>1, <2>2
<1>7. ASSUME NEW disabled \in BOOLEAN, NEW kind \in Customs, RecordCustom(kind, disabled)
      PROVE  Inv'
  <2>1. pc = "idle" /\ UNCHANGED <<op, order, exec, tracker>> /\ UNCHANGED clientVars
    BY <1>7 DEF RecordCustom, migrationVars
  <2>2. Fresh' /\ op' \in {"", "read", "write"} /\ (op' = "write" => order' = "Serial")
    BY <1>0, <2>1 DEF MigrationInv, MigrationTypes, Fresh
  <2>3. MigrationInv'
    BY <2>2, FreshMigration
  <2>4. AppStep
    BY <1>7 DEF AppStep
  <2> QED
    BY <2>1, <2>3, <2>4, AppInv
<1> QED
  BY <1>1, <1>2, <1>3, <1>5, <1>6, <1>7 DEF Step

\* The invariant holds.
LEMMA InvHolds == Spec => []Inv
<1>1. ASSUME Inv, [Next]_vars PROVE Inv'
  BY <1>1, BackgroundInv, CallStepInv DEF Next
<1> QED
  BY InitInv, <1>1, PTL DEF Spec

-----------------------------------------------------------------------------
(* The properties *)

\* MakeCustomClient returns success only for an initialized client, and
\* ErrInitializationFailed only when the data source has given up.
THEOREM StartReportsTheSource == Spec => []StartResultIsRight
<1>1. Inv => StartResultIsRight
  BY DEF Inv, ClientInv
<1> QED
  BY <1>1, InvHolds, PTL

\* Close, and the deferred Close of a construction that fails, release every component
\* of the client, but for a data store whose data source could not be built.
THEOREM CloseReleasesAll == Spec => []ClosedPartsAreReleased
<1>1. Inv => ClosedPartsAreReleased
  BY ClosedParts DEF Inv
<1> QED
  BY <1>1, InvHolds, PTL

\* For any number of hooks, the stages of an evaluation nest and each hook gets its own
\* series data back.
THEOREM HooksRunAroundCalls == Spec => []HooksNest
<1>1. ASSUME Inv PROVE HooksNest
  <2>1. TraceInv
    BY <1>1 DEF Inv
  <2>2. DOMAIN trace = 1 .. Len(trace)
    BY <2>1, LenProperties DEF TraceInv
  <2>3. \A i \in DOMAIN trace : NestsAt(i)
    BY <2>1, <2>2 DEF TraceInv
  <2> QED
    BY <2>1, <2>3 DEF TraceInv, HooksNest, NestsAt
<1> QED
  BY <1>1, InvHolds, PTL

\* The flag's event is the only one of its kind.
LEMMA ToldOnce ==
    ASSUME NEW v, Told(events, v)
    PROVE  \E i \in FlagEvents : FlagEvents = {i} /\ events[i].value = v
<1>1. CASE events = <<FlagEvent(v)>>
  <2>1. DOMAIN events = {1} /\ events[1] = FlagEvent(v)
    BY <1>1
  <2>2. events[1].of = "flag" /\ events[1].value = v
    BY <2>1 DEF FlagEvent
  <2>3. FlagEvents = {1}
    BY <2>1, <2>2 DEF FlagEvents
  <2> QED
    BY <2>2, <2>3
<1>2. CASE events = <<Prerequisite, FlagEvent(v)>>
  <2>1. DOMAIN events = {1, 2} /\ events[1] = Prerequisite /\ events[2] = FlagEvent(v)
    BY <1>2
  <2>2. events[1].of # "flag" /\ events[2].of = "flag" /\ events[2].value = v
    BY <2>1 DEF FlagEvent, Prerequisite
  <2>3. FlagEvents = {2}
    BY <2>1, <2>2 DEF FlagEvents
  <2> QED
    BY <2>2, <2>3
<1> QED
  BY <1>1, <1>2 DEF Told

\* An evaluation records exactly one event for its flag, with the value that the
\* application gets; a client made by WithEventsDisabled records none of any kind.
THEOREM EventsMatchResults == Spec => []EventsTellResults
<1>1. ASSUME Inv PROVE EventsTellResults
  <2>1. EventsInv /\ (m.disabled => tracker.built # "sent")
    BY <1>1 DEF Inv, MigrationInv, TrackInv
  <2>2. CASE m.disabled
    BY <2>1, <2>2 DEF EventsInv, EventsTellResults
  <2>3. ASSUME ~m.disabled, pc \in {"after", "return"}, Evaluation,
               detail.error # "USER_NOT_SPECIFIED"
        PROVE  \E i \in FlagEvents :
                  /\ FlagEvents = {i}
                  /\ (m.type = "migration" /\ err) \/ events[i].value = detail.value
    <3>1. PICK v : Told(events, v) /\ ((m.type = "migration" /\ err) \/ v = detail.value)
      BY <2>1, <2>3 DEF EventsInv
    <3>2. PICK i \in FlagEvents : FlagEvents = {i} /\ events[i].value = v
      BY <3>1, ToldOnce
    <3> QED
      BY <3>1, <3>2
  <2> QED
    BY <2>2, <2>3 DEF EventsTellResults
<1> QED
  BY <1>1, InvHolds, PTL

\* IntVariation truncates a number to a number.
LEMMA IntsAreNumbers == ASSUME NEW v PROVE TypeOf(IntValue(v)) = TypeOf(v)
BY DEF IntValue, TypeOf, Stages

\* A client that is initialized has data in its store, and a call that begins then is
\* answered from data the store has during the call, with a value of the type that the
\* method is for, whatever the service, the network and the store do meanwhile.
THEOREM CallsUseTheData == Spec => []AnswersFromData
<1>1. ASSUME Inv PROVE AnswersFromData
  <2>1. SourceTypes /\ StoredInv /\ CallInv
    BY <1>1 DEF Inv, SourceInv
  <2>2. isInitialized /\ ~offline /\ ~lost => dataStore.inited
    BY <2>1 DEF StoredInv
  <2>3. ASSUME pc = "return", m.type \notin Customs, begun = "Refreshed"
        PROVE  /\ detail.error # "CLIENT_NOT_READY"
               /\ flag.ver \in 0 .. dataStore.ver /\ flag.content = Content(flag.ver)
               /\ detail.value \in {flag.content, m.default}
               /\ m.check => TypeOf(Result) = TypeOf(m.default)
    <3>1. detail.error # "CLIENT_NOT_READY"
      BY <2>1, <2>3 DEF CallInv, AvailableInv
    <3>2. flag.ver \in 0 .. dataStore.ver /\ flag.content = Content(flag.ver)
      BY <2>1 DEF CallInv, FlagInv, SourceTypes
    <3>3. /\ detail.value \in {flag.content, m.default}
          /\ m.check => TypeOf(detail.value) = TypeOf(m.default)
      BY <2>1, <2>3 DEF CallInv, ValueInv
    <3>4. TypeOf(Result) = TypeOf(detail.value)
      BY IntsAreNumbers DEF Result
    <3> QED
      BY <3>1, <3>2, <3>3, <3>4
  <2>4. (Evaluation \/ m.type = "all") => m.type \notin Customs
    BY DEF Evaluation
  <2> QED
    BY <2>2, <2>3, <2>4 DEF AnswersFromData
<1> QED
  BY <1>1, InvHolds, PTL

\* In every order of the executions, concurrent ones included, and whichever of them
\* fail, a migration writes to the other origin only after the authoritative one, calls
\* no origin that its stage does not call for, and tells exactly what it did.
THEOREM MigrationsAreTracked == Spec => []OperationsAreTracked
<1>1. ASSUME Inv PROVE OperationsAreTracked
  <2>1. ExecInv /\ TrackInv
    BY <1>1 DEF Inv, MigrationInv
  <2> QED
    BY <2>1 DEF ExecInv, TrackInv, Executed, OperationsAreTracked
<1> QED
  BY <1>1, InvHolds, PTL

-----------------------------------------------------------------------------
(***************************************************************************)
(* What must not be lost on the way to the two liveness properties.  What  *)
(* the HTTP cache holds is in the store unless it was lost, and a poller   *)
(* that waits for the next tick after that has told so; and whoever waits  *)
(* for the source has one that works, that has been told to quit, or that  *)
(* has let him go.                                                         *)
(***************************************************************************)
DataArrives ==
    /\ etag # 0 /\ ~lost /\ poller # "init" => dataStore.ver = etag
    /\ etag # 0 /\ ~lost /\ poller = "select" => isInitialized /\ ready
NobodyIsLeftWaiting ==
    /\ poller = "done" => ready
    /\ made \in Returned \cup {"wait"} => poller # "off"
    /\ closing \in {"broadcaster", "done"} => quit \/ poller = "off"
SystemInv ==
    made \in Returned \cup {"segments", "events", "start", "wait"}
        /\ closing \notin {"broadcaster", "done"} => "system" \in parts
StartInv ==
    /\ made = "nil" => poller = "off"
    /\ poller = "off" => etag = 0
FlowInv == DataArrives /\ NobodyIsLeftWaiting /\ SystemInv /\ StartInv

flowState == <<dataStore, etag, poller, isInitialized, ready, quit, lost, made, closing, parts>>

LEMMA InitFlow == Init => FlowInv
BY DEF Init, SourceInit, FlowInv, DataArrives, NobodyIsLeftWaiting, SystemInv, StartInv

\* Neither calls nor the service's changes are about any of it.
LEMMA QuietFlow ==
    ASSUME FlowInv, UNCHANGED flowState
    PROVE  FlowInv'
BY DEF FlowInv, DataArrives, NobodyIsLeftWaiting, SystemInv, StartInv, flowState

LEMMA CallFlow ==
    ASSUME \/ Step \/ UNCHANGED vars
           \/ Publish /\ UNCHANGED clientVars
           \/ \E disabled \in BOOLEAN :
                 \/ \E method \in Methods(disabled) :
                       \/ Call(method)
                       \/ \E o \in {"read", "write"}, ord \in Orders : MigratorCall(o, method, ord)
                 \/ \E kind \in Customs : RecordCustom(kind, disabled)
    PROVE  UNCHANGED flowState
<1>0. ASSUME UNCHANGED <<dataStore, etag, poller, isInitialized, ready, quit, lost>>,
             UNCHANGED clientVars
      PROVE  UNCHANGED flowState
  BY <1>0 DEF clientVars, flowState
<1>1. ASSUME UNCHANGED sourceVars, UNCHANGED clientVars
      PROVE  UNCHANGED flowState
  BY <1>0, <1>1 DEF sourceVars
<1>2. CASE EvaluationStep /\ UNCHANGED <<migrationVars, clientVars>>
  <2>1. UNCHANGED <<dataStore, etag, poller, isInitialized, ready, quit, lost>>
    BY <1>2 DEF EvaluationStep, BeforeEvaluation, AfterEvaluation, ExecuteStage, Refuse,
                CheckRefreshed, CheckCached, GetFlag, Evaluate, Record, ParseStage,
                sourceVars
  <2> QED
    BY <1>0, <1>2, <2>1
<1>3. CASE MigrationStep /\ UNCHANGED clientVars
  BY <1>1, <1>3 DEF MigrationStep, Execute, Build
<1>4. CASE Return
  BY <1>1, <1>4 DEF Return
<1>5. CASE UNCHANGED vars
  BY <1>1, <1>5 DEF vars
<1>6. CASE Publish /\ UNCHANGED clientVars
  BY <1>6 DEF Publish, clientVars, flowState
<1>7. ASSUME NEW disabled \in BOOLEAN,
             \/ \E method \in Methods(disabled) :
                    \/ Call(method)
                    \/ \E o \in {"read", "write"}, ord \in Orders : MigratorCall(o, method, ord)
             \/ \E kind \in Customs : RecordCustom(kind, disabled)
      PROVE  UNCHANGED flowState
  <2>1. UNCHANGED sourceVars /\ UNCHANGED clientVars
    BY <1>7 DEF Call, MigratorCall, BeginOperation, Begin, RecordCustom
  <2> QED
    BY <1>1, <2>1
<1> QED
  BY <1>2, <1>3, <1>4, <1>5, <1>6, <1>7 DEF Step

\* The polling goroutine
LEMMA PollFlow ==
    ASSUME Inv, FlowInv, PollStep \/ PollFault \/ Quit, UNCHANGED clientVars
    PROVE  FlowInv'
<1>0. /\ SourceInv /\ UNCHANGED <<made, closing, parts, quit>>
      /\ poller \notin {"off", "done"} /\ poller' # "off"
      /\ etag \in Nat /\ dataStore.ver \in Nat /\ Latest \in Nat \ {0}
  BY DEF Inv, SourceInv, SourceTypes, clientVars, PollStep, PollFault, Quit, Request, StoreInit,
         SetInitialized, NotifyReady, RequestMalformed, RequestFails, RequestRejected,
         StoreInitFails
<1>1. SystemInv' /\ StartInv'
  BY <1>0 DEF FlowInv, SystemInv, StartInv, Inv, ClientInv, MadeInv
<1>2. poller' = "done" => ready'
  BY <1>0 DEF FlowInv, NobodyIsLeftWaiting, PollStep, PollFault, Quit, Request, StoreInit,
         SetInitialized, NotifyReady, RequestMalformed, RequestFails, RequestRejected,
         StoreInitFails
<1>3. NobodyIsLeftWaiting'
  BY <1>0, <1>2 DEF FlowInv, NobodyIsLeftWaiting
<1>4. CASE StoreInit
  <2>1. /\ dataStore' = [inited |-> TRUE, ver |-> etag] /\ etag' = etag
        /\ poller' = "initialized"
    BY <1>4 DEF StoreInit
  <2>2. dataStore'.ver = etag
    BY <2>1
  <2> QED
    BY <1>1, <1>3, <2>1, <2>2 DEF FlowInv, DataArrives
<1>5. CASE Request \/ RequestMalformed
  <2>1. /\ dataStore' = dataStore /\ etag' = Latest
        /\ \/ poller' = "init"
           \/ poller' = "initialized" /\ etag = Latest /\ lost' = lost
           \/ lost' = TRUE
        /\ poller = "select"
    BY <1>5 DEF Request, RequestMalformed
  <2>2. DataArrives'
    BY <1>0, <2>1 DEF FlowInv, DataArrives
  <2> QED
    BY <1>1, <1>3, <2>2 DEF FlowInv
<1>6. CASE SetInitialized \/ NotifyReady
  <2>1. /\ UNCHANGED <<dataStore, etag, lost>> /\ poller # "init" /\ poller' # "init"
        /\ poller' = "select" => isInitialized' /\ ready'
    BY <1>0, <1>6 DEF SetInitialized, NotifyReady, SourceInv, ReadyInv
  <2>2. DataArrives'
    BY <2>1 DEF FlowInv, DataArrives
  <2> QED
    BY <1>1, <1>3, <2>2 DEF FlowInv
<1>7. CASE RequestFails \/ RequestRejected \/ StoreInitFails \/ Quit
  <2>1. /\ UNCHANGED <<dataStore, etag>>
        /\ \/ lost' = TRUE
           \/ UNCHANGED <<lost, poller, isInitialized, ready>>
           \/ lost' = lost /\ poller = "select" /\ poller' = "done"
    BY <1>7 DEF RequestFails, RequestRejected, StoreInitFails, Quit
  <2>2. DataArrives'
    BY <2>1 DEF FlowInv, DataArrives
  <2> QED
    BY <1>1, <1>3, <2>2 DEF FlowInv
<1> QED
  BY <1>4, <1>5, <1>6, <1>7 DEF PollStep, PollFault

\* The construction and Close
LEMMA ClientFlow ==
    ASSUME Inv, FlowInv, Make \/ BuildFails \/ WaitTimeout \/ BeginClose \/ Closing
    PROVE  FlowInv'
<1>0. SourceInv /\ MadeInv /\ PartsInv
  BY DEF Inv, ClientInv
<1>1. CASE BuildPart \/ BuildFails
  <2>1. /\ UNCHANGED <<dataStore, etag, poller, isInitialized, ready, quit, lost>>
        /\ made \in Building /\ made' \in Building \cup {"start", "nil"}
        /\ closing = "no" /\ closing' \in {"no", "events"}
        /\ made' \in {"segments", "events", "start"} => "system" \in parts'
    <3>1. CASE BuildFails
      BY <1>0, <3>1 DEF BuildFails, MadeInv
    <3>2. CASE BuildPart
      <4>1. UNCHANGED sourceVars /\ closing' = closing /\ made \in Building
        BY <3>2 DEF BuildPart
      <4>2. \/ made = "context" /\ made' = "store"
            \/ made = "store" /\ made' = "source"
            \/ made = "source" /\ made' = "segments" /\ parts' = parts \cup {"source", "system"}
            \/ made = "segments" /\ made' = "events" /\ parts \subseteq parts'
            \/ made = "events" /\ made' = "start" /\ parts \subseteq parts'
        BY <3>2 DEF BuildPart, Stage
      <4>3. closing = "no"
        BY <1>0, <4>1 DEF MadeInv
      <4>4. made' \in {"segments", "events", "start"} => "system" \in parts'
        BY <4>2, <4>3 DEF FlowInv, SystemInv
      <4> QED
        BY <4>1, <4>2, <4>3, <4>4 DEF sourceVars
    <3> QED
      BY <1>1, <3>1, <3>2
  <2>2. DataArrives'
    BY <2>1 DEF FlowInv, DataArrives
  <2>3. NobodyIsLeftWaiting'
    BY <2>1 DEF FlowInv, NobodyIsLeftWaiting
  <2>4. SystemInv' /\ StartInv'
    BY <1>0, <2>1 DEF FlowInv, SystemInv, StartInv, MadeInv
  <2> QED
    BY <2>2, <2>3, <2>4 DEF FlowInv
<1>2. CASE StartSource
  <2>1. /\ made = "start" /\ UNCHANGED <<parts, closing, dataStore, etag, isInitialized, quit, lost>>
        /\ made' \in {"wait", "nowait"}
        /\ \/ ready' = TRUE /\ poller' = "done"
           \/ poller' = "select"
    BY <1>2 DEF StartSource, Start
  <2>2. poller = "off" /\ closing = "no"
    BY <1>0, <2>1 DEF MadeInv
  <2>3. etag = 0
    BY <2>2 DEF FlowInv, StartInv
  <2>4. DataArrives'
    BY <2>1, <2>3 DEF DataArrives
  <2>5. NobodyIsLeftWaiting' /\ SystemInv' /\ StartInv'
    BY <2>1, <2>2 DEF FlowInv, NobodyIsLeftWaiting, SystemInv, StartInv
  <2> QED
    BY <2>4, <2>5 DEF FlowInv
<1>3. CASE WaitReady \/ WaitTimeout
  <2>1. /\ UNCHANGED sourceVars /\ UNCHANGED <<parts, closing>>
        /\ made = "wait" /\ made' \in Returned
    BY <1>3 DEF WaitReady, WaitTimeout
  <2> QED
    BY <2>1 DEF FlowInv, DataArrives, NobodyIsLeftWaiting, SystemInv, StartInv, sourceVars
<1>4. CASE BeginClose \/ Closing
  <2>1. /\ UNCHANGED <<dataStore, etag, poller, isInitialized, ready, lost, made>>
        /\ quit => quit'
    BY <1>4 DEF Closing, BeginClose, CloseEvents, CloseSystem, CloseSegments, CloseSource, config,
                sourceVars
  <2>2. \/ /\ closing \in {"no", "events"} /\ closing' \in {"events", "system"}
           /\ "system" \in parts => "system" \in parts'
        \/ /\ closing = "system" /\ closing' = "broadcaster"
           /\ "system" \in parts => quit'
        \/ closing = "broadcaster" /\ closing' = "done"
    BY <1>4 DEF Closing, BeginClose, CloseEvents, CloseSystem, CloseSegments, CloseSource, Usable
  <2>3. DataArrives'
    BY <2>1 DEF FlowInv, DataArrives
  <2>4. SystemInv' /\ StartInv'
    BY <2>1, <2>2 DEF FlowInv, SystemInv, StartInv
  <2>5. NobodyIsLeftWaiting'
    BY <1>0, <2>1, <2>2 DEF FlowInv, NobodyIsLeftWaiting, SystemInv, StartInv, MadeInv
  <2> QED
    BY <2>3, <2>4, <2>5 DEF FlowInv
<1> QED
  BY <1>1, <1>2, <1>3, <1>4 DEF Make

LEMMA StepFlow ==
    ASSUME Inv, FlowInv, [Next]_vars
    PROVE  FlowInv'
BY CallFlow, QuietFlow, PollFlow, ClientFlow DEF Next, Source

LEMMA FlowHolds == Spec => []FlowInv
BY InvHolds, InitFlow, StepFlow, PTL DEF Spec

(***************************************************************************)
(* The safety part of Converges: data never gets stuck between the HTTP    *)
(* cache and the store.  When the poller waits for its next tick the store *)
(* has what the cache has, and the client has been told, unless that data  *)
(* is one of the losses that Converges allows for.                         *)
(***************************************************************************)
THEOREM DataIsNotStuck == Spec => []DataArrives
<1>1. FlowInv => DataArrives
  BY DEF FlowInv
<1> QED
  BY <1>1, FlowHolds, PTL

(***************************************************************************)
(* The safety part of CloseStopsAll: a poller ends only with a word to     *)
(* those who wait for the source, a client that has been started has a     *)
(* source to wait for, and Close does not pass the data system without     *)
(* telling a poller to quit.                                               *)
(***************************************************************************)
THEOREM WaitingIsNotForgotten == Spec => []NobodyIsLeftWaiting
<1>1. FlowInv => NobodyIsLeftWaiting
  BY DEF FlowInv
<1> QED
  BY <1>1, FlowHolds, PTL
=============================================================================
