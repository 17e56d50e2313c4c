----------------------------- MODULE FDv2Sources -----------------------------
(***************************************************************************)
(* The FDv2 data sources (internal/datasourcev2) in front of the FDv2      *)
(* store.                                                                  *)
(*                                                                         *)
(* The service publishes payloads.  The streaming source receives an       *)
(* intent, then the objects of a changeset one by one, then the selector   *)
(* of the payload, and only then hands the changeset to the store; the     *)
(* connection may break, and events may be broken, anywhere in between.    *)
(* The polling source receives a changeset in one response.                *)
(*                                                                         *)
(* The service is modelled from the comments of fdv2proto: "xfer-full" is  *)
(* a full data set, "xfer-changes" what brings the existing data set up to *)
(* date, and "none" says that it is.  That an intent opens every transfer  *)
(* is assumed; what comes after an error event is not.                     *)
(***************************************************************************)
EXTENDS FDv2Store

CONSTANTS
    Sources,        \* the configured source: "stream" or "poll"
    MaxPayloads,    \* bound on the service's payloads
    MaxChanges,     \* bound on the items that a payload changes
    MaxFaults,      \* bound on errors of any kind
    Garbled         \* how a put-object may be broken: its "object", or its "syntax"

ASSUME SourcesAssumption == Sources \subseteq {"stream", "poll"}
ASSUME BoundsAssumption == MaxPayloads \in Nat \ {0} /\ MaxChanges \in Nat /\ MaxFaults \in Nat
ASSUME GarbledAssumption == Garbled \subseteq {"object", "syntax"}

VARIABLES
    source,         \* one of Sources
    hist,           \* the payloads of the service, as item descriptors
    conn,           \* "connecting", "open" or "closed"
    tx,             \* what the service is sending: code, payload, objects left
    pending,        \* currentChangeSet: intent, objects, whether one is broken
    pc,             \* position in consumeStream or in the polling loop, "panic" when
                    \* the process has ended for want of an intent
    state,          \* the status of the data source
    isInitialized,
    ready,          \* closeWhenReady is closed
    closing,        \* Close: "no", "halted" or "closed"
    etag,           \* the payload that the HTTP cache holds, 0 for none, and
                    \* whether it could not be parsed
    faults

srcVars == <<source, hist, conn, tx, pending, pc, state, isInitialized, ready, closing, etag,
             faults>>
vars == <<srcVars, storeVars>>

Current == Len(hist)
Present(data) == {i \in Items : data[i].item = "object"}
Closed(data) == \A i \in Present(data) : Refs[i] \subseteq Present(data)
NoChangeSet == [intent |-> "nil", objs |-> NoBatch, bad |-> FALSE]
Start == [code |-> "start", target |-> 0, todo |-> {}]

\* The objects of a transfer: everything, or what has changed since a payload
Objects(code, from) ==
    IF code = "xfer-full" THEN Present(hist[Current])
    ELSE {i \in Items : hist[Current][i] # hist[from][i]}

\* What the service may intend to send to a data source with payload n
Intents(n) ==
    {"xfer-full"} \cup (IF n \in 1 .. Current - 1 THEN {"xfer-changes"} ELSE {})
        \cup (IF n = Current THEN {"none"} ELSE {})

\* The environment begins empty or with all its items.
Init ==
    /\ source \in Sources
    /\ hist \in {<<Empty>>, <<Full>>}
    /\ conn = "connecting" /\ tx = Start /\ pending = NoChangeSet
    /\ pc = IF source = "stream" THEN "subscribe" ELSE "select"
    /\ state = "Initializing" /\ isInitialized = FALSE /\ ready = FALSE
    /\ closing = "no" /\ etag = [of |-> 0, bad |-> FALSE] /\ faults = 0
    /\ StoreInit

\* maybeUpdateStatus
UpdateStatus(newState) ==
    state' = IF newState = "Interrupted" /\ state = "Initializing" THEN state ELSE newState

Fault == faults < MaxFaults /\ faults' = faults + 1

\* The service changes or deletes some items at once.
Publish ==
    /\ Current < MaxPayloads
    /\ \E S \in SUBSET Items, kill \in SUBSET Items :
          /\ Cardinality(S) \in 1 .. MaxChanges /\ kill \subseteq S \cap Present(hist[Current])
          /\ hist' = Append(hist, [i \in Items |->
                IF i \notin S THEN hist[Current][i]
                ELSE [ver |-> hist[Current][i].ver + 1,
                      item |-> IF i \in kill THEN "none" ELSE "object"]])
          /\ Closed(hist'[Current + 1])
    /\ UNCHANGED <<source, conn, tx, pending, pc, state, isInitialized, ready, closing, etag,
                   faults, storeVars>>

-----------------------------------------------------------------------------
(* The streaming source *)

Connect ==
    /\ source = "stream" /\ conn = "connecting"
    /\ conn' = "open"
    /\ pc' = IF pc = "subscribe" THEN "select" ELSE pc
    /\ UNCHANGED <<source, hist, tx, pending, state, isInitialized, ready, closing, etag, faults,
                   storeVars>>

\* errorHandler: a network error or a recoverable HTTP error; what has been
\* received of a changeset stays.
RecoverableError ==
    /\ source = "stream" /\ conn \in {"connecting", "open"}
    /\ Fault
    /\ UpdateStatus("Interrupted")
    /\ conn' = "connecting" /\ tx' = Start
    /\ UNCHANGED <<source, hist, pending, pc, isInitialized, ready, closing, etag, storeVars>>

UnrecoverableError ==
    /\ source = "stream" /\ conn = "connecting"
    /\ UpdateStatus("Off")
    /\ conn' = "closed"
    /\ IF pc = "subscribe" THEN pc' = "done" /\ ready' = TRUE ELSE UNCHANGED <<pc, ready>>
    /\ UNCHANGED <<source, hist, tx, pending, isInitialized, closing, etag, faults, storeVars>>

\* Receiving an event, and what most events leave alone
Receiving == source = "stream" /\ pc = "select" /\ conn = "open"
OnlyStream == UNCHANGED <<source, hist, conn, isInitialized, ready, closing, etag>>

ServerIntent ==
    /\ Receiving
    /\ tx.code = "start" \/ (tx.code = "idle" /\ tx.target < Current)
    /\ \E code \in IF tx.code = "start" THEN Intents(selector) ELSE {"xfer-changes"} :
          IF code = "none"
          THEN /\ tx' = [code |-> "idle", target |-> Current, todo |-> {}]
               /\ UNCHANGED <<pending, pc>>
          ELSE /\ tx' = [code |-> code, target |-> Current,
                         todo |-> Objects(code, IF tx.code = "idle" THEN tx.target ELSE selector)]
               /\ pending' = [intent |-> code, objs |-> NoBatch, bad |-> FALSE]
               /\ pc' = "valid"
    /\ UNCHANGED <<state, faults, storeVars>> /\ OnlyStream

\* What deserializeEvents makes of item d, as an event: it notices an object that
\* cannot be parsed, but takes the fields that a syntax error hides for empty.
Deserialized(d, broken) ==
    Event(IF d.item = "none" THEN "delete-object" ELSE "put-object", d.ver,
          IF broken = "syntax" THEN "none" ELSE d.item)

\* put-object or delete-object; it is parsed when the payload is complete.
Object(i) ==
    /\ Receiving
    /\ i \in tx.todo
    /\ tx' = [tx EXCEPT !.todo = @ \ {i}]
    /\ \E broken \in {"no"} \cup Garbled :
          /\ IF broken # "no" THEN Fault ELSE UNCHANGED faults
          /\ pending' = [pending EXCEPT
                !.objs = [j \in DOMAIN @ \cup {i} |->
                             IF j = i THEN Deserialized(hist[tx.target][i], broken) ELSE @[j]],
                !.bad = @ \/ broken = "object"]
    /\ pc' = "valid"
    /\ UNCHANGED <<state, storeVars>> /\ OnlyStream

\* payload-transferred
Transferred ==
    /\ Receiving
    /\ tx.code \in {"xfer-full", "xfer-changes"} /\ tx.todo = {}
    /\ ~pending.bad
    /\ tx' = [tx EXCEPT !.code = "idle"]
    /\ \/ pending.intent = "xfer-full" /\ SetBasis(pending.objs, tx.target) /\ pc' = "notify"
       \/ pending.intent = "xfer-changes" /\ ApplyDelta(pending.objs, tx.target) /\ pc' = "valid"
       \/ pending.intent = "nil" /\ pc' = "panic" /\ UNCHANGED storeVars
    /\ pending' = NoChangeSet
    /\ UNCHANGED <<state, faults>> /\ OnlyStream

\* Mutant: the stream goes on after a malformed event.
MalformedNoRestart ==
    /\ Receiving
    /\ \/ Fault
       \/ pending.bad /\ tx.code \in {"xfer-full", "xfer-changes"} /\ tx.todo = {} /\ UNCHANGED faults
    /\ UpdateStatus("Interrupted")
    /\ tx' = [tx EXCEPT !.code = "idle", !.target = Current]
    /\ pc' = "select"
    /\ UNCHANGED <<pending, storeVars>> /\ OnlyStream

\* gotMalformedEvent: an event that cannot be parsed, or a changeset with one; the
\* changeset is only dropped by a later intent or by an error event, broken or not.
Malformed ==
    /\ Receiving
    /\ \/ Fault /\ pending' \in {pending, NoChangeSet}
       \/ /\ pending.bad /\ tx.code \in {"xfer-full", "xfer-changes"} /\ tx.todo = {}
          /\ UNCHANGED <<pending, faults>>
    /\ UpdateStatus("Interrupted")
    /\ pc' = "restart"
    /\ UNCHANGED <<tx, storeVars>> /\ OnlyStream

\* error: the changeset is dropped with its intent.  The service starts over, or goes
\* on with the transfer, whose end the handler then cannot handle.
ErrorEvent ==
    /\ Receiving
    /\ Fault
    /\ pending' = NoChangeSet /\ tx' \in {tx, Start}
    /\ pc' = "valid"
    /\ UNCHANGED <<state, storeVars>> /\ OnlyStream

\* heart-beat, goodbye or an unexpected event
OtherEvent ==
    /\ Receiving
    /\ pc' = "valid"
    /\ UNCHANGED <<tx, pending, state, faults, storeVars>> /\ OnlyStream

\* setInitializedAndNotifyClient(true), once SetBasis has returned
Notify ==
    /\ source = "stream" /\ pc = "notify" /\ writing \in {"no", "Commit"}
    /\ isInitialized' = TRUE /\ ready' = TRUE
    /\ pc' = "valid"
    /\ UNCHANGED <<source, hist, conn, tx, pending, state, closing, etag, faults, storeVars>>

Processed ==
    /\ source = "stream" /\ pc = "valid" /\ writing \in {"no", "Commit"}
    /\ UpdateStatus("Valid")
    /\ pc' = "select"
    /\ UNCHANGED <<tx, pending, faults, storeVars>> /\ OnlyStream

Restart ==
    /\ pc = "restart"
    /\ conn' = IF conn = "open" THEN "connecting" ELSE conn
    /\ tx' = Start
    /\ pc' = "select"
    /\ UNCHANGED <<source, hist, pending, state, isInitialized, ready, closing, etag, faults,
                   storeVars>>

\* sp.halt is closed, or stream.Events is
EndOfStream ==
    /\ source = "stream" /\ pc = "select"
    /\ closing # "no" \/ conn = "closed"
    /\ conn' = "closed" /\ tx' = Start /\ pc' = "done"
    /\ UNCHANGED <<source, hist, pending, state, isInitialized, ready, closing, etag, faults,
                   storeVars>>

-----------------------------------------------------------------------------
(* The polling source *)

Polling == source = "poll" /\ pc = "select"
OnlyPoll == UNCHANGED <<source, hist, conn, tx, pending, isInitialized, closing>>

\* Request: PutObject.Object is the item's descriptor, not the item.
Polled(d) ==
    Event(IF d.item = "none" THEN "delete-object" ELSE "put-object", d.ver, "descriptor")

\* A response that is in the HTTP cache, or the intent "none"
PollCached ==
    /\ Polling /\ etag.of = Current
    /\ pc' = "valid"
    /\ UNCHANGED <<state, ready, etag, faults, storeVars>> /\ OnlyPoll

\* The service sends changes only to a source that has the payload they start from.
PollChanges ==
    /\ Polling /\ etag.of < Current
    /\ \E code \in Intents(IF etag.bad THEN 0 ELSE etag.of) \ {"none"} :
          LET events == [i \in Objects(code, etag.of) |-> Polled(hist[Current][i])]
          IN IF code = "xfer-full" THEN SetBasis(events, 0) ELSE ApplyDelta(events, 0)
    /\ etag' = [of |-> Current, bad |-> FALSE]
    /\ pc' = "valid"
    /\ UNCHANGED <<state, ready, faults>> /\ OnlyPoll

\* A network error or a recoverable HTTP error; or a response that makes no sense,
\* which the HTTP cache keeps all the same.
PollFails ==
    /\ Polling /\ Fault
    /\ UpdateStatus("Interrupted")
    /\ etag' \in {etag} \cup
           IF etag.of < Current THEN {[of |-> Current, bad |-> TRUE]} ELSE {}
    /\ UNCHANGED <<pc, ready, storeVars>> /\ OnlyPoll

PollGivesUp ==
    /\ Polling
    /\ UpdateStatus("Off")
    /\ ready' = TRUE /\ pc' = "done"
    /\ UNCHANGED <<etag, faults, storeVars>> /\ OnlyPoll

PollValid ==
    /\ source = "poll" /\ pc = "valid" /\ writing \in {"no", "Commit"}
    /\ UpdateStatus("Valid")
    /\ pc' = "notify"
    /\ UNCHANGED <<ready, etag, faults, storeVars>> /\ OnlyPoll

PollNotify ==
    /\ source = "poll" /\ pc = "notify"
    /\ isInitialized' = TRUE /\ ready' = TRUE
    /\ pc' = "select"
    /\ UNCHANGED <<source, hist, conn, tx, pending, state, closing, etag, faults, storeVars>>

\* pp.quit is closed; the deferred notifyReady ends the client's wait.
PollQuits ==
    /\ Polling /\ closing # "no"
    /\ ready' = TRUE /\ pc' = "done"
    /\ UNCHANGED <<state, etag, faults, storeVars>> /\ OnlyPoll

-----------------------------------------------------------------------------
Close ==
    /\ closing = "no" /\ closing' = "halted"
    /\ UNCHANGED <<source, hist, conn, tx, pending, pc, state, isInitialized, ready, etag, faults,
                   storeVars>>

CloseOff ==
    /\ closing = "halted" /\ closing' = "closed"
    /\ IF source = "stream" THEN UpdateStatus("Off") ELSE UNCHANGED state
    /\ UNCHANGED <<source, hist, conn, tx, pending, pc, isInitialized, ready, etag, faults,
                   storeVars>>

Receive ==
    \/ ServerIntent \/ (\E i \in Items : Object(i)) \/ Transferred \/ Malformed
    \/ EndOfStream
StreamStep == Notify \/ Processed \/ Restart
PollStep == PollCached \/ PollChanges \/ PollValid \/ PollNotify \/ PollQuits
StoreStep == (Sorts \/ InitItem \/ InitRest \/ UpsertItem \/ UpsertDone) /\ UNCHANGED srcVars
StoreFault ==
    /\ (InitFails \/ UpsertFails) /\ Fault
    /\ UNCHANGED <<source, hist, conn, tx, pending, pc, state, isInitialized, ready, closing, etag>>

Next ==
    \/ Receive \/ StreamStep \/ PollStep \/ StoreStep \/ StoreFault
    \/ Publish \/ Connect \/ RecoverableError \/ UnrecoverableError
    \/ ErrorEvent \/ OtherEvent \/ PollFails \/ PollGivesUp
    \/ (Commit /\ UNCHANGED srcVars)
    \/ Close \/ CloseOff

Spec == Init /\ [][Next]_vars

\* The goroutines run, the library reconnects, the ticker ticks; what the service
\* sends arrives in the end, and heart-beats keep coming.
FairSpec ==
    /\ Spec
    /\ SF_vars(Receive) /\ WF_vars(StreamStep) /\ WF_vars(PollStep) /\ WF_vars(StoreStep)
    /\ WF_vars(Connect) /\ SF_vars(OtherEvent)

-----------------------------------------------------------------------------
(* Properties *)

\* "The contents of the store are consistent with a single payload version at
\* any given time" (memory_store.go): the readers of streamed data see whole payloads,
\* in order, whatever happens to the changesets on their way.
History == [n \in DOMAIN hist |-> Readable(hist[n])]
Payload == INSTANCE PayloadStore WITH
    Payloads <- [Items -> 0 .. MaxPayloads],
    history <- History,
    seen <- IF source = "stream" /\ active = "memory" /\ initialized THEN {View} ELSE {}
SeesWholePayloads == Payload!Spec

\* The same of the versions that the memory store has of polled data, of which
\* readers can use nothing: Request stores descriptors in place of the objects.
Contents == INSTANCE PayloadStore WITH
    Payloads <- [Items -> 0 .. MaxPayloads],
    history <- History,
    seen <- IF source = "poll" /\ initialized THEN {Held(memory)} ELSE {}
HoldsWholePayloads == Contents!Spec

\* The selector names the data: it is what the next transfer will start from.
SelectorIdentifiesData == selector # 0 => Readable(memory) = Readable(hist[selector])

\* Once writes are done and none has failed since the last complete Init, the
\* persistent store has what can be read of the memory store, and nothing else.
PersistentStoreIsCurrent ==
    initialized /\ mode = "readwrite" /\ writing = "no" /\ clean
        => Readable(db) = Readable(memory)

\* "the SDK minimizes the risk of evaluating a flag before its prerequisites/
\* segments have been stored" (toposort.go): no object is written to the
\* persistent store before what it refers to.
ReferencesAreStoredFirst ==
    [][\A i \in Items :
          db'[i] # db[i] /\ db'[i].item = "object" /\ clean /\ writing # "Commit"
              => \A r \in Refs[i] : db'[r].item = "object"]_vars

\* Once the service, the network and the callers of Commit settle down, a source
\* that has not been closed or refused has the service's data, and says so, unless
\* the HTTP cache of the polling source keeps a response that could not be parsed, or
\* a transfer went on after an error event.  Of polled data it has the versions only.
UpToDate ==
    IF source = "stream" THEN Readable(memory) = Readable(hist[Current])
    ELSE Held(memory) = Held(hist[Current])
Converges ==
    \/ []<>(writing = "Commit")
    \/ <>(closing # "no" \/ pc \in {"done", "panic"} \/ conn = "closed")
    \/ <>[]etag.bad
    \/ <>[](UpToDate /\ isInitialized /\ ready) /\ <>(state = "Valid")
=============================================================================
