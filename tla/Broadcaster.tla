----------------------------- MODULE Broadcaster -----------------------------
(***************************************************************************)
(* The publish-subscribe mechanism of the SDK (internal/broadcasters.go),  *)
(* used for flag changes and for the status of the data source, the data   *)
(* store and Big Segments.                                                 *)
(*                                                                         *)
(* Publishers call Broadcast, some after HasListeners; each listener calls *)
(* AddListener, reads from the channel it got, and calls RemoveListener;   *)
(* the owner calls Close.  The lock is a Go RWMutex: readers share it, and *)
(* a writer that waits keeps new readers out.  A send to a channel whose   *)
(* buffer is full blocks.  The k-th value to be published is k.            *)
(***************************************************************************)
EXTENDS Integers, Sequences, FiniteSets

CONSTANTS
    Publishers, Listeners,
    Owner,            \* the goroutine that calls Close
    Capacity,         \* subscriberChannelBufferLength
    MaxBroadcasts,    \* bound on the values published
    Attentive         \* the listeners that read their channel at all times;
                      \* the others stop reading before they remove it

ASSUME NamesAssumption ==
    /\ Owner \notin Publishers \cup Listeners
    /\ Publishers \cap Listeners = {}
ASSUME BoundsAssumption == Capacity \in Nat \ {0} /\ MaxBroadcasts \in Nat
ASSUME AttentiveAssumption == Attentive \subseteq Listeners

VARIABLES
    subscribers,  \* the listeners whose channels are subscribed
    readLock,     \* the publishers that hold the lock for reading
    writeLock,    \* the goroutines that hold the lock for writing: at most one
    waiting,      \* the goroutines that wait to write
    pc,           \* where every goroutine is
    value,        \* the value a publisher is sending
    rest,         \* the subscribers it has yet to send it to
    buffer,       \* the contents of the channels
    open,         \* the listeners whose channel is made and not closed
    received,     \* history: what each listener has read
    published,    \* history: number of values published
    joined        \* history: how many there were when a listener was added

vars == <<subscribers, readLock, writeLock, waiting, pc, value, rest, buffer, open,
          received, published, joined>>

Goroutines == Publishers \cup Listeners \cup {Owner}

Init ==
    /\ subscribers = {} /\ readLock = {} /\ writeLock = {} /\ waiting = {}
    /\ pc = [g \in Goroutines |-> "idle"]
    /\ value = [p \in Publishers |-> 0]
    /\ rest = [p \in Publishers |-> {}]
    /\ buffer = [l \in Listeners |-> <<>>]
    /\ open = {}
    /\ received = [l \in Listeners |-> <<>>]
    /\ published = 0
    /\ joined = [l \in Listeners |-> 0]

Goto(g, label) == pc' = [pc EXCEPT ![g] = label]

-----------------------------------------------------------------------------
(* sync.RWMutex *)

CanRead == writeLock = {} /\ waiting = {}
WaitToWrite(g) == waiting' = waiting \cup {g} /\ UNCHANGED <<readLock, writeLock>>
Lock(g) ==
    /\ g \in waiting
    /\ readLock = {} /\ writeLock = {}
    /\ waiting' = waiting \ {g} /\ writeLock' = {g} /\ UNCHANGED readLock
Unlock(g) == writeLock' = writeLock \ {g} /\ UNCHANGED <<readLock, waiting>>

-----------------------------------------------------------------------------
(* AddListener *)

AddListener(l) ==
    /\ pc[l] = "idle"
    /\ open' = open \cup {l}
    /\ WaitToWrite(l)
    /\ Goto(l, "adding")
    /\ UNCHANGED <<subscribers, value, rest, buffer, received, published, joined>>

AddLocked(l) ==
    /\ pc[l] = "adding"
    /\ Lock(l)
    /\ subscribers' = subscribers \cup {l}
    /\ joined' = [joined EXCEPT ![l] = published]
    /\ Goto(l, "added")
    /\ UNCHANGED <<value, rest, buffer, open, received, published>>

AddReturns(l) ==
    /\ pc[l] = "added"
    /\ Unlock(l)
    /\ Goto(l, "reading")
    /\ UNCHANGED <<subscribers, value, rest, buffer, open, received, published, joined>>

\* The listener receives a value.
Read(l) ==
    /\ pc[l] = "reading" \/ (l \in Attentive /\ pc[l] \in {"removing", "removed", "done"})
    /\ buffer[l] # <<>>
    /\ received' = [received EXCEPT ![l] = Append(@, Head(buffer[l]))]
    /\ buffer' = [buffer EXCEPT ![l] = Tail(@)]
    /\ UNCHANGED <<subscribers, readLock, writeLock, waiting, pc, value, rest, open, published, joined>>

(* RemoveListener: closes the channel if it is still subscribed *)

RemoveListener(l) ==
    /\ pc[l] = "reading"
    /\ WaitToWrite(l)
    /\ Goto(l, "removing")
    /\ UNCHANGED <<subscribers, value, rest, buffer, open, received, published, joined>>

RemoveLocked(l) ==
    /\ pc[l] = "removing"
    /\ Lock(l)
    /\ open' = IF l \in subscribers THEN open \ {l} ELSE open
    /\ subscribers' = subscribers \ {l}
    /\ Goto(l, "removed")
    /\ UNCHANGED <<value, rest, buffer, received, published, joined>>

RemoveReturns(l) ==
    /\ pc[l] = "removed"
    /\ Unlock(l)
    /\ Goto(l, "done")
    /\ UNCHANGED <<subscribers, value, rest, buffer, open, received, published, joined>>

-----------------------------------------------------------------------------
(* HasListeners and Broadcast *)

HasListeners(p) ==
    /\ pc[p] = "idle"
    /\ CanRead
    /\ published < MaxBroadcasts
    /\ subscribers # {}
    /\ Goto(p, "publish")
    /\ UNCHANGED <<subscribers, readLock, writeLock, waiting, value, rest, buffer, open,
                   received, published, joined>>

\* Mutant: the subscribers are copied and the lock is not held while sending.
BroadcastUnlocked(p) ==
    /\ pc[p] \in {"idle", "publish"}
    /\ CanRead
    /\ published < MaxBroadcasts
    /\ published' = published + 1
    /\ value' = [value EXCEPT ![p] = published + 1]
    /\ rest' = [rest EXCEPT ![p] = subscribers]
    /\ Goto(p, "sending")
    /\ UNCHANGED <<subscribers, readLock, writeLock, waiting, buffer, open, received, joined>>

\* Takes the read lock; the first statement of Broadcast
Broadcast(p) ==
    /\ pc[p] \in {"idle", "publish"}
    /\ CanRead
    /\ published < MaxBroadcasts
    /\ readLock' = readLock \cup {p}
    /\ published' = published + 1
    /\ value' = [value EXCEPT ![p] = published + 1]
    /\ rest' = [rest EXCEPT ![p] = subscribers]
    /\ Goto(p, "sending")
    /\ UNCHANGED <<subscribers, writeLock, waiting, buffer, open, received, joined>>

\* Mutant: a value that does not fit is dropped.
SendOrDrop(p, l) ==
    /\ pc[p] = "sending"
    /\ l \in rest[p]
    /\ buffer' = IF Len(buffer[l]) < Capacity
                 THEN [buffer EXCEPT ![l] = Append(@, value[p])] ELSE buffer
    /\ rest' = [rest EXCEPT ![p] = @ \ {l}]
    /\ UNCHANGED <<subscribers, readLock, writeLock, waiting, pc, value, open, received,
                   published, joined>>

\* One send.  The list is in the order of subscription, which nothing depends on.
Send(p, l) ==
    /\ pc[p] = "sending"
    /\ l \in rest[p]
    /\ Len(buffer[l]) < Capacity
    /\ buffer' = [buffer EXCEPT ![l] = Append(@, value[p])]
    /\ rest' = [rest EXCEPT ![p] = @ \ {l}]
    /\ UNCHANGED <<subscribers, readLock, writeLock, waiting, pc, value, open, received,
                   published, joined>>

\* Mutant: the lock is not released.
BroadcastReturnsLocked(p) ==
    /\ pc[p] = "sending"
    /\ rest[p] = {}
    /\ Goto(p, "idle")
    /\ UNCHANGED <<subscribers, readLock, writeLock, waiting, value, rest, buffer, open,
                   received, published, joined>>

BroadcastReturns(p) ==
    /\ pc[p] = "sending"
    /\ rest[p] = {}
    /\ readLock' = readLock \ {p}
    /\ Goto(p, "idle")
    /\ UNCHANGED <<subscribers, writeLock, waiting, value, rest, buffer, open, received,
                   published, joined>>

-----------------------------------------------------------------------------
(* Close *)

Close ==
    /\ pc[Owner] = "idle"
    /\ WaitToWrite(Owner)
    /\ Goto(Owner, "closing")
    /\ UNCHANGED <<subscribers, value, rest, buffer, open, received, published, joined>>

CloseLocked ==
    /\ pc[Owner] = "closing"
    /\ Lock(Owner)
    /\ open' = open \ subscribers
    /\ subscribers' = {}
    /\ Goto(Owner, "closed")
    /\ UNCHANGED <<value, rest, buffer, received, published, joined>>

CloseReturns ==
    /\ pc[Owner] = "closed"
    /\ Unlock(Owner)
    /\ Goto(Owner, "done")
    /\ UNCHANGED <<subscribers, value, rest, buffer, open, received, published, joined>>

-----------------------------------------------------------------------------
\* What a goroutine does once it has been called or has received a value
Progress(g) ==
    \/ g \in Listeners /\ (AddLocked(g) \/ AddReturns(g) \/ RemoveLocked(g) \/ RemoveReturns(g))
    \/ g \in Publishers /\ ((\E l \in Listeners : Send(g, l)) \/ BroadcastReturns(g))
    \/ g = Owner /\ (CloseLocked \/ CloseReturns)

Call ==
    \/ \E l \in Listeners : AddListener(l) \/ RemoveListener(l)
    \/ \E p \in Publishers : HasListeners(p) \/ Broadcast(p)
    \/ Close

Next == Call \/ (\E l \in Listeners : Read(l)) \/ (\E g \in Goroutines : Progress(g))

Spec == Init /\ [][Next]_vars

\* Goroutines run, an attentive listener reads what it is sent, and the lock
\* goes to every waiting writer (RWMutex does not starve writers).
FairSpec ==
    /\ Spec
    /\ \A g \in Goroutines : SF_vars(Progress(g))
    /\ \A l \in Attentive : WF_vars(Read(l))

-----------------------------------------------------------------------------
(* Properties *)

Labels == {"idle", "adding", "added", "reading", "removing", "removed", "publish",
           "sending", "closing", "closed", "done"}

\* Every variable has its type, and no channel holds more than its capacity.
TypeOK ==
    /\ subscribers \subseteq Listeners /\ open \subseteq Listeners
    /\ readLock \subseteq Publishers
    /\ writeLock \subseteq Listeners \cup {Owner} /\ waiting \subseteq Listeners \cup {Owner}
    /\ pc \in [Goroutines -> Labels]
    /\ value \in [Publishers -> 0 .. MaxBroadcasts]
    /\ rest \in [Publishers -> SUBSET Listeners]
    /\ buffer \in [Listeners -> Seq(1 .. MaxBroadcasts)]
    /\ \A l \in Listeners : Len(buffer[l]) <= Capacity
    /\ received \in [Listeners -> Seq(1 .. MaxBroadcasts)]
    /\ published \in 0 .. MaxBroadcasts
    /\ joined \in [Listeners -> 0 .. MaxBroadcasts]

\* Only open channels are subscribed, so none is closed twice (which would
\* panic), whatever the order of RemoveListener and Close.
SubscribedIsOpen == subscribers \subseteq open

\* A channel that is about to be sent to is open (a send on a closed channel
\* would panic): this is why Broadcast holds the lock while it sends.
SendsGoToOpenChannels == \A p \in Publishers : rest[p] \subseteq open

\* A listener gets no value twice, and while it is subscribed it has got every
\* value published since it was added, unless the publisher has yet to send it.
DeliveredExactlyOnce ==
    \A l \in Listeners :
        LET seen == received[l] \o buffer[l]
            got == {seen[i] : i \in DOMAIN seen}
        IN /\ Cardinality(got) = Len(seen)
           /\ l \in subscribers => \A v \in joined[l] + 1 .. published :
                 v \in got \/ \E p \in Publishers : value[p] = v /\ l \in rest[p]

\* Calls return: nobody waits for ever for the lock or for a channel.
CallsReturn ==
    /\ \A l \in Listeners : /\ pc[l] = "adding" ~> pc[l] # "adding"
                            /\ pc[l] = "removing" ~> pc[l] # "removing"
    /\ \A p \in Publishers : pc[p] = "sending" ~> pc[p] # "sending"
    /\ pc[Owner] = "closing" ~> pc[Owner] # "closing"

=============================================================================
