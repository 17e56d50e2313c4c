----------------------------- MODULE FlagTracker -----------------------------
(***************************************************************************)
(* The client of a local data source: the data store, the update sink that *)
(* the goroutines of the source write through, the broadcaster of flag     *)
(* change events, and a listener for the values of one flag                *)
(* (internal/flag_tracker_impl.go).                                        *)
(*                                                                         *)
(* An item is its version and the value it gives to the listener's         *)
(* context.  A key other than Flag is another flag, or a segment that      *)
(* another flag refers to: a change of it is an event of another flag.     *)
(***************************************************************************)
EXTENDS Naturals, Sequences, FiniteSets

CONSTANTS
    Keys, Flag,     \* the data, and the flag whose value is watched
    Writers,        \* goroutines that call the update sink
    Cap,            \* subscriberChannelBufferLength
    Default,        \* the listener's default value
    MaxListeners,   \* bound on the listeners that are added, one after another
    MaxRefusals     \* bound on the writes that the store refuses

ASSUME FlagAssumption == Flag \in Keys
ASSUME BufferAssumption == Cap \in Nat \ {0}

NoItem == [version |-> 0, value |-> Default]
NoData == [k \in Keys |-> NoItem]
Value(data) == data[Flag].value

VARIABLES
    store,          \* the data store
    status,         \* the state that the sink reports
    call,           \* the call of the sink that each writer is in
    refusals,
    lost,           \* history: versions refused, or overwritten by the older data of an Init
    subscribed,     \* the listener's flagCh is one of the broadcaster's subscribers
    flagCh, valueCh,
    listener,       \* position of runValueChangeListener
    currentValue, pending,
    told,           \* the value when the listener was added, or the last one that the
                    \* application has read
    early,          \* history: the value had changed by the first evaluation, and the
                    \* application has read nothing since
    missed,         \* history: the value changed without an event since it was evaluated
    listeners

sinkVars == <<store, status, refusals, lost>>
trackerVars == <<subscribed, flagCh, valueCh, listener, currentValue, pending, told,
                 early, listeners>>
clientVars == <<sinkVars, call, trackerVars, missed>>

Idle == [step |-> "idle"]

ClientInit ==
    /\ store = NoData /\ status = "initializing"
    /\ call = [w \in Writers |-> Idle]
    /\ refusals = 0 /\ lost = {}
    /\ subscribed = FALSE /\ flagCh = <<>> /\ valueCh = <<>>
    /\ listener = "off" /\ currentValue = Default /\ pending = Default
    /\ told = Default /\ early = FALSE /\ missed = FALSE /\ listeners = 0

-----------------------------------------------------------------------------
(* DataSourceUpdateSinkImpl *)

At(w, step) == call[w].step = step
Moves(w, record) == call' = [call EXCEPT ![w] = record]

\* What a source does to call Init or Upsert, and how it goes on after it.
CallInit(w, data) ==
    /\ At(w, "idle") /\ Moves(w, [step |-> "init", data |-> data, since |-> store])
    /\ lost' = {}
CallUpsert(w, k, item) ==
    At(w, "idle") /\ Moves(w, [step |-> "upsert", key |-> k, item |-> item])
Ended(w, result) == At(w, result) /\ Moves(w, Idle)

\* maybeUpdateStatus
StatusAfter(state) ==
    IF state = "interrupted" /\ status = "initializing" THEN status ELSE state

\* Init: the old data is read if someone is listening
ReadOld(w) ==
    /\ At(w, "init")
    /\ Moves(w, [step |-> "store", data |-> call[w].data, since |-> call[w].since,
                 notify |-> subscribed, old |-> IF subscribed THEN store ELSE NoData])
    /\ UNCHANGED <<sinkVars, trackerVars, missed>>

\* computeChangedItemsForFullDataSet, of one item
IsChange(old, new) == (old = NoItem) # (new = NoItem) \/ old.version < new.version

\* The events to send; a change without one is missed by a listener that has evaluated.
SendChangeEvents(w, keys) ==
    Moves(w, IF keys = {} THEN [step |-> "done"]
             ELSE [step |-> "broadcast", keys |-> keys, sending |-> FALSE])
Listening == listener \notin {"off", "first"}

\* Init: the store is overwritten
StoreInit(w) ==
    /\ At(w, "store")
    /\ LET new == call[w].data
           changed == {k \in Keys : call[w].notify /\ IsChange(call[w].old[k], new[k])}
       IN /\ store' = new
          /\ lost' = lost \cup {<<k, store[k].version>> : k \in {j \in Keys : store[j] # call[w].since[j]}}
          /\ missed' = (missed \/ (Listening /\ Value(new) # Value(store) /\ Flag \notin changed))
          /\ SendChangeEvents(w, changed)
    /\ UNCHANGED <<status, refusals, trackerVars>>

\* Upsert: the store takes a newer version, and then someone may be listening.
StoreUpsert(w) ==
    /\ At(w, "upsert")
    /\ LET k == call[w].key
           item == call[w].item
       IN IF item.version > store[k].version
          THEN /\ store' = [store EXCEPT ![k] = item]
               /\ Moves(w, [step |-> "check", key |-> k])
          ELSE Moves(w, [step |-> "done"]) /\ UNCHANGED store
    /\ UNCHANGED <<status, refusals, lost, trackerVars, missed>>

HasListeners(w) ==
    /\ At(w, "check")
    /\ SendChangeEvents(w, IF subscribed THEN {call[w].key} ELSE {})
    /\ UNCHANGED <<sinkVars, trackerVars, missed>>

\* The store reports an error: maybeUpdateError
StoreRefuses(w) ==
    /\ At(w, "store") \/ At(w, "upsert")
    /\ refusals < MaxRefusals /\ refusals' = refusals + 1
    /\ lost' = lost \cup (IF At(w, "store") THEN {<<k, call[w].data[k].version>> : k \in Keys}
                          ELSE {<<call[w].key, call[w].item.version>>})
    /\ status' = StatusAfter("interrupted")
    /\ Moves(w, [step |-> "refused"])
    /\ UNCHANGED <<store, trackerVars, missed>>

\* Broadcast takes the lock for reading, ...
Broadcast(w) ==
    /\ At(w, "broadcast") /\ ~call[w].sending
    /\ Moves(w, [call[w] EXCEPT !.sending = TRUE])
    /\ UNCHANGED <<sinkVars, trackerVars, missed>>

\* ... and sends to every subscriber, waiting while its channel is full.
Send(w) ==
    /\ At(w, "broadcast") /\ call[w].sending
    /\ \E k \in call[w].keys :
          /\ IF subscribed THEN Len(flagCh) < Cap /\ flagCh' = Append(flagCh, k)
                           ELSE UNCHANGED flagCh
          /\ SendChangeEvents(w, call[w].keys \ {k})
    /\ UNCHANGED <<sinkVars, subscribed, valueCh, listener, currentValue, pending, told, early,
                   listeners, missed>>

BroadcasterLocked == \E w \in Writers : At(w, "broadcast") /\ call[w].sending

SinkStep(w) ==
    \/ ReadOld(w) \/ StoreInit(w) \/ StoreUpsert(w) \/ StoreRefuses(w)
    \/ HasListeners(w) \/ Broadcast(w) \/ Send(w)

-----------------------------------------------------------------------------
(* flagTrackerImpl *)

\* AddFlagValueChangeListener; the caller knows the channel when it returns, and expects
\* to be told what changes from then on ("it first immediately evaluates the feature flag").
AddFlagValueChangeListener ==
    /\ listener = "off" /\ listeners < MaxListeners /\ ~BroadcasterLocked
    /\ listeners' = listeners + 1
    /\ subscribed' = TRUE /\ flagCh' = <<>> /\ valueCh' = <<>>
    /\ listener' = "first" /\ told' = Value(store) /\ early' = FALSE
    /\ UNCHANGED <<sinkVars, call, currentValue, pending, missed>>

\* RemoveFlagValueChangeListener closes flagCh.
RemoveFlagValueChangeListener ==
    /\ subscribed /\ ~BroadcasterLocked
    /\ subscribed' = FALSE
    /\ UNCHANGED <<sinkVars, call, flagCh, valueCh, listener, currentValue, pending, told,
                   early, listeners, missed>>

\* The goroutine evaluates the flag, at some time after that.
FirstEvaluation ==
    /\ listener = "first"
    /\ currentValue' = Value(store) /\ early' = (Value(store) # told) /\ missed' = FALSE
    /\ listener' = "wait"
    /\ UNCHANGED <<sinkVars, call, subscribed, flagCh, valueCh, pending, told, listeners>>

\* Mutant: the new value is kept, but not told to the application.
FlagChangedKeeps ==
    /\ listener = "wait" /\ flagCh # <<>>
    /\ flagCh' = Tail(flagCh)
    /\ currentValue' = IF Head(flagCh) = Flag THEN Value(store) ELSE currentValue
    /\ missed' = IF Head(flagCh) = Flag THEN FALSE ELSE missed
    /\ UNCHANGED <<sinkVars, call, subscribed, valueCh, listener, pending, told, early, listeners>>

\* An event of the flag: it is evaluated again, in the same step, since nothing reads what
\* the goroutine has received before it has evaluated.
FlagChanged ==
    /\ listener = "wait" /\ flagCh # <<>>
    /\ flagCh' = Tail(flagCh)
    /\ IF Head(flagCh) # Flag \/ Value(store) = currentValue
       THEN UNCHANGED <<listener, currentValue, pending>>
       ELSE listener' = "send" /\ pending' = Value(store) /\ currentValue' = Value(store)
    /\ missed' = IF Head(flagCh) = Flag THEN FALSE ELSE missed
    /\ UNCHANGED <<sinkVars, call, subscribed, valueCh, told, early, listeners>>

\* valueCh <- event
SendValueChange ==
    /\ listener = "send" /\ Len(valueCh) < Cap
    /\ valueCh' = Append(valueCh, pending) /\ pending' = Default
    /\ listener' = "wait"
    /\ UNCHANGED <<sinkVars, call, subscribed, flagCh, currentValue, told, early, listeners,
                   missed>>

\* flagCh is closed and empty.
ListenerEnds ==
    /\ listener = "wait" /\ flagCh = <<>> /\ ~subscribed
    /\ listener' = "off" /\ currentValue' = Default /\ missed' = FALSE
    /\ IF valueCh = <<>> THEN told' = Default /\ early' = FALSE ELSE UNCHANGED <<told, early>>
    /\ UNCHANGED <<sinkVars, call, subscribed, flagCh, valueCh, pending, listeners>>

\* The application reads valueCh.
ReadValueChange ==
    /\ valueCh # <<>>
    /\ told' = Head(valueCh) /\ valueCh' = Tail(valueCh) /\ early' = FALSE
    /\ UNCHANGED <<sinkVars, call, subscribed, flagCh, listener, currentValue, pending, listeners,
                   missed>>

ListenerStep == FirstEvaluation \/ FlagChanged \/ SendValueChange \/ ListenerEnds
TrackerStep ==
    ListenerStep \/ ReadValueChange \/ AddFlagValueChangeListener \/ RemoveFlagValueChangeListener

=============================================================================
