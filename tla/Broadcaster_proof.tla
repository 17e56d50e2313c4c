-------------------------- MODULE Broadcaster_proof --------------------------
(* Machine-checked proofs about Broadcaster. *)
EXTENDS Broadcaster, FiniteSetTheorems, SequenceTheorems, TLAPS

(***************************************************************************)
(* The inductive invariant.  The lock excludes writers from readers; who   *)
(* sends holds it for reading, so that what is still to be sent goes to    *)
(* channels that are subscribed; and a channel is subscribed only from the *)
(* time its listener was added.                                            *)
(***************************************************************************)
LockInv ==
    /\ writeLock # {} => readLock = {}
    /\ \A p \in Publishers : pc[p] = "sending" <=> p \in readLock
RestInv ==
    \A p \in Publishers : /\ rest[p] \subseteq subscribers
                          /\ p \notin readLock => rest[p] = {}
ListenerInv ==
    \A l \in Listeners : /\ pc[l] \in {"idle", "adding"} => l \notin subscribers
                         /\ pc[l] = "adding" => l \in open

ValueInv == \A p \in Publishers : pc[p] = "sending" => value[p] \in 1 .. MaxBroadcasts

Inv == TypeOK /\ LockInv /\ RestInv /\ ListenerInv /\ ValueInv /\ SubscribedIsOpen

USE DEF Goroutines, Labels

\* The names of the goroutines do not overlap.
LEMMA Names ==
    /\ \A l \in Listeners : l # Owner /\ l \notin Publishers
    /\ \A p \in Publishers : p # Owner /\ p \notin Listeners
    /\ Owner \notin Publishers /\ Owner \notin Listeners
BY NamesAssumption

\* Initially nothing is subscribed, locked or sent.
LEMMA InitInv == Init => Inv
BY BoundsAssumption, Names
DEF Init, Inv, TypeOK, LockInv, RestInv, ListenerInv, ValueInv, SubscribedIsOpen

\* Reading a value moves it from the channel to the listener.
LEMMA ReadStep ==
    ASSUME Inv, NEW l \in Listeners, Read(l)
    PROVE  Inv'
<1>1. /\ Head(buffer[l]) \in 1 .. MaxBroadcasts
      /\ Tail(buffer[l]) \in Seq(1 .. MaxBroadcasts)
      /\ Len(Tail(buffer[l])) = Len(buffer[l]) - 1
      /\ Len(buffer[l]) \in Nat
  <2>1. buffer[l] \in Seq(1 .. MaxBroadcasts) /\ buffer[l] # <<>>
    BY DEF Read, Inv, TypeOK
  <2>2. Len(buffer[l]) \in Nat
    BY <2>1
  <2> QED
    BY <2>1, <2>2, HeadTailProperties
<1>2. /\ buffer' = [buffer EXCEPT ![l] = Tail(@)]
      /\ received' = [received EXCEPT ![l] = Append(@, Head(buffer[l]))]
  BY DEF Read
<1>3. Append(received[l], Head(buffer[l])) \in Seq(1 .. MaxBroadcasts)
  BY <1>1 DEF Inv, TypeOK
<1>4. \A k \in Listeners : Len(buffer'[k]) <= Capacity
  BY <1>1, <1>2, BoundsAssumption DEF Inv, TypeOK
<1>5. TypeOK'
  BY <1>1, <1>2, <1>3, <1>4 DEF Read, Inv, TypeOK
<1> QED
  BY <1>5 DEF Read, Inv, LockInv, RestInv, ListenerInv, ValueInv, SubscribedIsOpen

\* Sending adds a value to a channel with room for it.
LEMMA SendStep ==
    ASSUME Inv, NEW p \in Publishers, NEW l \in Listeners, Send(p, l)
    PROVE  Inv'
<1>1. /\ value[p] \in 1 .. MaxBroadcasts
      /\ buffer[l] \in Seq(1 .. MaxBroadcasts)
  BY DEF Send, Inv, TypeOK, ValueInv
<1>2. /\ Append(buffer[l], value[p]) \in Seq(1 .. MaxBroadcasts)
      /\ Len(Append(buffer[l], value[p])) = Len(buffer[l]) + 1
      /\ Len(buffer[l]) \in Nat
  BY <1>1
<1>3. buffer' = [buffer EXCEPT ![l] = Append(@, value[p])]
  BY DEF Send
<1>4. \A k \in Listeners : Len(buffer'[k]) <= Capacity
  BY <1>2, <1>3, BoundsAssumption DEF Send, Inv, TypeOK
<1>5. TypeOK'
  BY <1>2, <1>3, <1>4 DEF Send, Inv, TypeOK
<1>6. RestInv'
  BY DEF Send, Inv, TypeOK, RestInv
<1> QED
  BY <1>5, <1>6 DEF Send, Inv, LockInv, ListenerInv, ValueInv, SubscribedIsOpen

\* Broadcast and its return take and release the lock for reading.
LEMMA PublisherStep ==
    ASSUME Inv, NEW p \in Publishers,
           HasListeners(p) \/ Broadcast(p) \/ BroadcastReturns(p)
    PROVE  Inv'
<1>1. CASE HasListeners(p)
  BY <1>1, Names DEF HasListeners, Goto, Inv, TypeOK, LockInv, RestInv, ListenerInv,
                     ValueInv, SubscribedIsOpen
<1>2. CASE Broadcast(p)
  <2>1. published + 1 \in 1 .. MaxBroadcasts
    BY <1>2, BoundsAssumption DEF Broadcast, Inv, TypeOK
  <2>2. TypeOK'
    BY <1>2, <2>1 DEF Broadcast, Goto, Inv, TypeOK
  <2>3. LockInv' /\ RestInv'
    BY <1>2 DEF Broadcast, Goto, CanRead, Inv, TypeOK, LockInv, RestInv
  <2>4. ListenerInv' /\ ValueInv' /\ SubscribedIsOpen'
    BY <1>2, <2>1, Names DEF Broadcast, Goto, Inv, TypeOK, ListenerInv, ValueInv, SubscribedIsOpen
  <2> QED
    BY <2>2, <2>3, <2>4 DEF Inv
<1>3. CASE BroadcastReturns(p)
  BY <1>3, Names DEF BroadcastReturns, Goto, Inv, TypeOK, LockInv, RestInv, ListenerInv,
                     ValueInv, SubscribedIsOpen
<1> QED
  BY <1>1, <1>2, <1>3

\* The writers change the list of subscribers only when nothing is being sent.
LEMMA WriterStep ==
    ASSUME Inv, NEW g \in Listeners \cup {Owner},
           \/ g \in Listeners /\ (AddListener(g) \/ RemoveListener(g))
           \/ g = Owner /\ Close
           \/ Progress(g)
    PROVE  Inv'
<1> USE Names
<1> USE DEF Goto, WaitToWrite, Lock, Unlock, Inv
<1>1. CASE g \in Listeners /\ AddListener(g)
  BY <1>1 DEF AddListener, TypeOK, LockInv, RestInv, ListenerInv, ValueInv, SubscribedIsOpen
<1>2. CASE g \in Listeners /\ RemoveListener(g)
  BY <1>2 DEF RemoveListener, TypeOK, LockInv, RestInv, ListenerInv, ValueInv, SubscribedIsOpen
<1>3. CASE g = Owner /\ Close
  BY <1>3 DEF Close, TypeOK, LockInv, RestInv, ListenerInv, ValueInv, SubscribedIsOpen
<1>4. CASE g \in Listeners /\ AddLocked(g)
  BY <1>4 DEF AddLocked, TypeOK, LockInv, RestInv, ListenerInv, ValueInv, SubscribedIsOpen
<1>5. CASE g \in Listeners /\ AddReturns(g)
  BY <1>5 DEF AddReturns, TypeOK, LockInv, RestInv, ListenerInv, ValueInv, SubscribedIsOpen
<1>6. CASE g \in Listeners /\ RemoveLocked(g)
  BY <1>6 DEF RemoveLocked, TypeOK, LockInv, RestInv, ListenerInv, ValueInv, SubscribedIsOpen
<1>7. CASE g \in Listeners /\ RemoveReturns(g)
  BY <1>7 DEF RemoveReturns, TypeOK, LockInv, RestInv, ListenerInv, ValueInv, SubscribedIsOpen
<1>8. CASE g = Owner /\ CloseLocked
  BY <1>8 DEF CloseLocked, TypeOK, LockInv, RestInv, ListenerInv, ValueInv, SubscribedIsOpen
<1>9. CASE g = Owner /\ CloseReturns
  BY <1>9 DEF CloseReturns, TypeOK, LockInv, RestInv, ListenerInv, ValueInv, SubscribedIsOpen
<1> QED
  BY <1>1, <1>2, <1>3, <1>4, <1>5, <1>6, <1>7, <1>8, <1>9 DEF Progress

\* Every step preserves the invariant.
LEMMA StepInv ==
    ASSUME Inv, [Next]_vars
    PROVE  Inv'
<1>1. CASE UNCHANGED vars
  BY <1>1 DEF vars, Inv, TypeOK, LockInv, RestInv, ListenerInv, ValueInv, SubscribedIsOpen
<1>2. CASE Call
  BY <1>2, WriterStep, PublisherStep DEF Call
<1>3. CASE \E l \in Listeners : Read(l)
  BY <1>3, ReadStep
<1>4. CASE \E g \in Goroutines : Progress(g)
  <2>1. PICK g \in Goroutines : Progress(g)
    BY <1>4
  <2>2. CASE g \in Publishers
    BY <2>1, <2>2, Names, SendStep, PublisherStep DEF Progress
  <2>3. CASE g \in Listeners \cup {Owner}
    BY <2>1, <2>3, WriterStep
  <2> QED
    BY <2>2, <2>3
<1> QED
  BY <1>1, <1>2, <1>3, <1>4 DEF Next

\* The invariant holds.
LEMMA InvHolds == Spec => []Inv
BY InitInv, StepInv, PTL DEF Spec

-----------------------------------------------------------------------------
(***************************************************************************)
(* Every reachable state is well typed and no channel holds more values    *)
(* than subscriberChannelBufferLength, for any number of publishers,       *)
(* listeners and values.                                                   *)
(***************************************************************************)
THEOREM TypeCorrect == Spec => []TypeOK
<1>1. Inv => TypeOK
  BY DEF Inv
<1> QED
  BY <1>1, InvHolds, PTL

(***************************************************************************)
(* RemoveListener and Close only close channels that are open: in no order *)
(* of calls is a channel closed twice.                                     *)
(***************************************************************************)
THEOREM NoDoubleClose == Spec => []SubscribedIsOpen
<1>1. Inv => SubscribedIsOpen
  BY DEF Inv
<1> QED
  BY <1>1, InvHolds, PTL

(***************************************************************************)
(* Broadcast never sends on a closed channel, however it interleaves with  *)
(* RemoveListener and Close.                                               *)
(***************************************************************************)
THEOREM NoSendOnClosedChannel == Spec => []SendsGoToOpenChannels
<1>1. Inv => SendsGoToOpenChannels
  BY DEF Inv, RestInv, SubscribedIsOpen, SendsGoToOpenChannels
<1> QED
  BY <1>1, InvHolds, PTL

-----------------------------------------------------------------------------
(***************************************************************************)
(* Delivery.  What a listener has seen is what it has read followed by     *)
(* what its channel holds.  A value in flight to it is one it has not      *)
(* seen, and no two publishers have the same value in flight.              *)
(***************************************************************************)
Seen(l) == received[l] \o buffer[l]

DistinctInv == \A l \in Listeners : \A i, j \in 1 .. Len(Seen(l)) :
                  Seen(l)[i] = Seen(l)[j] => i = j
PastInv ==
    /\ \A l \in Listeners : \A i \in 1 .. Len(Seen(l)) : Seen(l)[i] <= published
    /\ \A p \in Publishers : pc[p] = "sending" => value[p] <= published
FlightInv ==
    /\ \A p \in Publishers : \A l \in rest[p] : \A i \in 1 .. Len(Seen(l)) :
          Seen(l)[i] # value[p]
    /\ \A p, q \in Publishers :
          pc[p] = "sending" /\ pc[q] = "sending" /\ value[p] = value[q] => p = q
CoverInv ==
    \A l \in subscribers : \A v \in joined[l] + 1 .. published :
        \/ \E i \in 1 .. Len(Seen(l)) : Seen(l)[i] = v
        \/ \E p \in Publishers : value[p] = v /\ l \in rest[p]

DeliveryInv == DistinctInv /\ PastInv /\ FlightInv /\ CoverInv

\* What is read and what is in the channel are sequences of values.
LEMMA SeenType ==
    ASSUME TypeOK
    PROVE  \A l \in Listeners :
              /\ received[l] \in Seq(1 .. MaxBroadcasts) /\ buffer[l] \in Seq(1 .. MaxBroadcasts)
              /\ Seen(l) \in Seq(1 .. MaxBroadcasts) /\ Len(Seen(l)) \in Nat
              /\ \A i \in 1 .. Len(Seen(l)) : Seen(l)[i] \in 1 .. MaxBroadcasts
<1> SUFFICES ASSUME NEW l \in Listeners
             PROVE  /\ received[l] \in Seq(1 .. MaxBroadcasts)
                    /\ buffer[l] \in Seq(1 .. MaxBroadcasts)
                    /\ Seen(l) \in Seq(1 .. MaxBroadcasts) /\ Len(Seen(l)) \in Nat
                    /\ \A i \in 1 .. Len(Seen(l)) : Seen(l)[i] \in 1 .. MaxBroadcasts
  OBVIOUS
<1>1. received[l] \in Seq(1 .. MaxBroadcasts) /\ buffer[l] \in Seq(1 .. MaxBroadcasts)
  BY DEF TypeOK
<1>2. Seen(l) \in Seq(1 .. MaxBroadcasts)
  BY <1>1 DEF Seen
<1> QED
  BY <1>1, <1>2, LenProperties, ElementOfSeq

\* A value that moves from the head of the channel to what was read is seen as before.
LEMMA Moving ==
    ASSUME NEW S, NEW r \in Seq(S), NEW b \in Seq(S), b # <<>>
    PROVE  Append(r, Head(b)) \o Tail(b) = r \o b
<1>1. Head(b) \in S /\ Tail(b) \in Seq(S) /\ <<Head(b)>> \in Seq(S)
  BY HeadTailProperties
<1>2. Append(r, Head(b)) = r \o <<Head(b)>>
  BY <1>1, AppendIsConcat
<1>3. (r \o <<Head(b)>>) \o Tail(b) = r \o (<<Head(b)>> \o Tail(b))
  BY <1>1, ConcatAssociative
<1>4. <<Head(b)>> \o Tail(b) = b
  <2> DEFINE c == <<Head(b)>> \o Tail(b)
  <2>1. Len(b) \in Nat /\ Len(Tail(b)) = Len(b) - 1 /\ Len(<<Head(b)>>) = 1
    BY HeadTailProperties
  <2>2. /\ c \in Seq(S) /\ Len(c) = Len(b)
        /\ \A i \in 1 .. Len(b) : c[i] = IF i <= 1 THEN Head(b) ELSE Tail(b)[i - 1]
    BY <1>1, <2>1, ConcatProperties
  <2>3. \A i \in 1 .. Len(b) : c[i] = b[i]
    BY <2>1, <2>2, HeadTailProperties
  <2> HIDE DEF c
  <2> QED
    BY <2>2, <2>3, SeqEqual DEF c
<1> QED
  BY <1>2, <1>3, <1>4

\* Sending appends to what is seen.
LEMMA Appending ==
    ASSUME NEW S, NEW r \in Seq(S), NEW b \in Seq(S), NEW v \in S
    PROVE  r \o Append(b, v) = Append(r \o b, v)
<1>1. <<v>> \in Seq(S) /\ r \o b \in Seq(S)
  OBVIOUS
<1>2. Append(b, v) = b \o <<v>> /\ Append(r \o b, v) = (r \o b) \o <<v>>
  BY <1>1, AppendIsConcat
<1> QED
  BY <1>1, <1>2, ConcatAssociative

\* A sequence without repetitions has as many elements as it is long.
LEMMA CountingDistinct ==
    ASSUME NEW S, NEW s \in Seq(S),
           \A i, j \in 1 .. Len(s) : s[i] = s[j] => i = j
    PROVE  Cardinality({s[i] : i \in DOMAIN s}) = Len(s)
<1> DEFINE T == {s[i] : i \in DOMAIN s}
<1>1. Len(s) \in Nat /\ DOMAIN s = 1 .. Len(s) /\ s \in [1 .. Len(s) -> S]
  BY LenProperties
<1>2. s \in Surjection(1 .. Len(s), T) /\ s \in Injection(1 .. Len(s), T)
  BY <1>1 DEF Surjection, Injection, IsInjective
<1>3. IsFiniteSet(1 .. Len(s)) /\ Cardinality(1 .. Len(s)) = Len(s)
  BY <1>1, FS_Interval
<1> HIDE DEF T
<1>4. Cardinality(T) = Cardinality(1 .. Len(s))
  BY <1>2, <1>3, FS_Surjection
<1> QED
  BY <1>3, <1>4 DEF T

\* Initially nothing was seen or published.
LEMMA InitDelivery == Init => DeliveryInv
<1> SUFFICES ASSUME Init PROVE DeliveryInv
  OBVIOUS
<1>1. \A l \in Listeners : Seen(l) = <<>>
  BY DEF Init, Seen
<1>2. \A l \in Listeners : Len(Seen(l)) = 0
  BY <1>1
<1> QED
  BY <1>2 DEF Init, DeliveryInv, DistinctInv, PastInv, FlightInv, CoverInv

\* A step that leaves the values, their destinations and what is seen alone
LEMMA QuietDelivery ==
    ASSUME Inv, DeliveryInv,
           UNCHANGED <<value, rest, published, joined>>,
           subscribers' \subseteq subscribers,
           \A l \in Listeners : Seen(l)' = Seen(l),
           \A p \in Publishers : pc'[p] = "sending" => pc[p] = "sending"
    PROVE  DeliveryInv'
<1>1. /\ subscribers \subseteq Listeners
      /\ \A p \in Publishers : rest[p] \subseteq Listeners
  BY DEF Inv, TypeOK
<1>2. DistinctInv' /\ PastInv'
  BY DEF DeliveryInv, DistinctInv, PastInv
<1>3. FlightInv'
  BY <1>1 DEF DeliveryInv, FlightInv
<1>4. CoverInv'
  BY <1>1 DEF DeliveryInv, CoverInv
<1> QED
  BY <1>2, <1>3, <1>4 DEF DeliveryInv

\* Reading moves a value, which has been seen before and after.
LEMMA ReadDelivery ==
    ASSUME Inv, DeliveryInv, NEW l \in Listeners, Read(l)
    PROVE  DeliveryInv'
<1>1. /\ received[l] \in Seq(1 .. MaxBroadcasts) /\ buffer[l] \in Seq(1 .. MaxBroadcasts)
      /\ buffer[l] # <<>>
  BY SeenType DEF Inv, Read
<1>2. Append(received[l], Head(buffer[l])) \o Tail(buffer[l]) = received[l] \o buffer[l]
  BY <1>1, Moving
<1>3. \A k \in Listeners :
        /\ received'[k] = IF k = l THEN Append(received[l], Head(buffer[l])) ELSE received[k]
        /\ buffer'[k] = IF k = l THEN Tail(buffer[l]) ELSE buffer[k]
  BY DEF Read, Inv, TypeOK
<1>4. \A k \in Listeners : Seen(k)' = Seen(k)
  BY <1>2, <1>3 DEF Seen
<1> QED
  BY <1>4, QuietDelivery DEF Read

\* A value that is sent has not been seen before, and is in flight no more.
LEMMA SendDelivery ==
    ASSUME Inv, DeliveryInv, NEW p \in Publishers, NEW l \in Listeners, Send(p, l)
    PROVE  DeliveryInv'
<1>1. /\ pc[p] = "sending" /\ l \in rest[p] /\ value[p] \in 1 .. MaxBroadcasts
      /\ UNCHANGED <<subscribers, pc, value, published, joined>>
      /\ \A q \in Publishers : rest'[q] = IF q = p THEN rest[p] \ {l} ELSE rest[q]
      /\ \A q \in Publishers : rest[q] \subseteq Listeners
      /\ \A q \in Publishers : rest[q] # {} => pc[q] = "sending"
      /\ subscribers \subseteq Listeners
  BY DEF Send, Inv, TypeOK, ValueInv, RestInv, LockInv
<1>2. /\ \A k \in Listeners \ {l} : Seen(k)' = Seen(k)
      /\ Seen(l)' = Append(Seen(l), value[p])
  <2>1. /\ \A k \in Listeners : buffer'[k] = IF k = l THEN Append(buffer[l], value[p]) ELSE buffer[k]
        /\ UNCHANGED received
    BY DEF Send, Inv, TypeOK
  <2>2. received[l] \o Append(buffer[l], value[p]) = Append(received[l] \o buffer[l], value[p])
    <3>1. received[l] \in Seq(1 .. MaxBroadcasts) /\ buffer[l] \in Seq(1 .. MaxBroadcasts)
      BY SeenType DEF Inv
    <3>2. value[p] \in 1 .. MaxBroadcasts
      BY <1>1
    <3> QED
      <4> DEFINE S == 1 .. MaxBroadcasts
                 r == received[l]
                 b == buffer[l]
                 v == value[p]
      <4>1. r \in Seq(S) /\ b \in Seq(S) /\ v \in S
        BY <3>1, <3>2
      <4> HIDE DEF S, r, b, v
      <4>2. r \o Append(b, v) = Append(r \o b, v)
        BY <4>1, Appending
      <4> QED
        BY <4>2 DEF r, b, v
  <2> QED
    BY <2>1, <2>2 DEF Seen
<1>3. Seen(l) \in Seq(1 .. MaxBroadcasts) /\ Len(Seen(l)) \in Nat
  BY SeenType DEF Inv
<1>4. /\ Len(Seen(l)') = Len(Seen(l)) + 1
      /\ \A i \in 1 .. Len(Seen(l)) + 1 :
            Seen(l)'[i] = IF i <= Len(Seen(l)) THEN Seen(l)[i] ELSE value[p]
  BY <1>1, <1>2, <1>3
<1>5. \A i \in 1 .. Len(Seen(l)) : Seen(l)[i] # value[p]
  BY <1>1 DEF DeliveryInv, FlightInv
<1>6. DistinctInv'
  <2> SUFFICES ASSUME NEW k \in Listeners, NEW i \in 1 .. Len(Seen(k)'), NEW j \in 1 .. Len(Seen(k)'),
                      Seen(k)'[i] = Seen(k)'[j]
               PROVE  i = j
    BY DEF DistinctInv
  <2>1. CASE k # l
    BY <2>1, <1>2 DEF DeliveryInv, DistinctInv
  <2>2. CASE k = l
    <3>1. i \in 1 .. Len(Seen(l)) + 1 /\ j \in 1 .. Len(Seen(l)) + 1
      BY <2>2, <1>4
    <3>2. /\ i <= Len(Seen(l)) => i \in 1 .. Len(Seen(l))
          /\ j <= Len(Seen(l)) => j \in 1 .. Len(Seen(l))
          /\ ~ (i <= Len(Seen(l))) => i = Len(Seen(l)) + 1
          /\ ~ (j <= Len(Seen(l))) => j = Len(Seen(l)) + 1
      BY <3>1, <1>3
    <3> QED
      BY <2>2, <3>1, <3>2, <1>4, <1>5 DEF DeliveryInv, DistinctInv
  <2> QED
    BY <2>1, <2>2
<1>7. PastInv'
  <2>1. \A k \in Listeners : \A i \in 1 .. Len(Seen(k)') : Seen(k)'[i] <= published
    BY <1>1, <1>2, <1>3, <1>4 DEF DeliveryInv, PastInv
  <2> QED
    BY <2>1, <1>1 DEF DeliveryInv, PastInv
<1>8. FlightInv'
  <2>1. ASSUME NEW q \in Publishers, NEW k \in rest'[q], NEW i \in 1 .. Len(Seen(k)')
        PROVE  Seen(k)'[i] # value[q]
    <3>1. k \in rest[q] /\ k \in Listeners
      BY <1>1
    <3>2. CASE k # l
      BY <3>1, <3>2, <1>2 DEF DeliveryInv, FlightInv
    <3>3. CASE k = l
      <4>1. q # p /\ value[q] # value[p]
        BY <3>1, <3>3, <1>1 DEF DeliveryInv, FlightInv
      <4>2. \A m \in 1 .. Len(Seen(l)) : Seen(l)[m] # value[q]
        BY <3>1, <3>3 DEF DeliveryInv, FlightInv
      <4> QED
        BY <3>3, <4>1, <4>2, <1>3, <1>4
    <3> QED
      BY <3>2, <3>3
  <2> QED
    BY <2>1, <1>1 DEF DeliveryInv, FlightInv
<1>9. CoverInv'
  <2> SUFFICES ASSUME NEW k \in subscribers, NEW v \in joined[k] + 1 .. published
               PROVE  \/ \E i \in 1 .. Len(Seen(k)') : Seen(k)'[i] = v
                      \/ \E q \in Publishers : value[q] = v /\ k \in rest'[q]
    BY <1>1 DEF CoverInv
  <2>1. CASE \E i \in 1 .. Len(Seen(k)) : Seen(k)[i] = v
    BY <2>1, <1>1, <1>2, <1>3, <1>4
  <2>2. CASE \E q \in Publishers : value[q] = v /\ k \in rest[q]
    <3>1. PICK q \in Publishers : value[q] = v /\ k \in rest[q]
      BY <2>2
    <3>2. CASE q = p /\ k = l
      <4>1. Len(Seen(l)) + 1 \in 1 .. Len(Seen(k)') /\ Seen(k)'[Len(Seen(l)) + 1] = v
        BY <3>1, <3>2, <1>3, <1>4
      <4> QED
        BY <4>1
    <3>3. CASE ~ (q = p /\ k = l)
      BY <3>1, <3>3, <1>1
    <3> QED
      BY <3>2, <3>3
  <2> QED
    BY <2>1, <2>2 DEF DeliveryInv, CoverInv
<1> QED
  BY <1>6, <1>7, <1>8, <1>9 DEF DeliveryInv

\* A new value is in flight to all subscribers, and none of them has seen it.
LEMMA BroadcastDelivery ==
    ASSUME Inv, DeliveryInv, NEW p \in Publishers, Broadcast(p)
    PROVE  DeliveryInv'
<1>1. /\ published' = published + 1 /\ published \in Nat
      /\ pc[p] # "sending" /\ rest[p] = {}
      /\ \A q \in Publishers : /\ value'[q] = IF q = p THEN published + 1 ELSE value[q]
                               /\ rest'[q] = IF q = p THEN subscribers ELSE rest[q]
                               /\ value[q] \in Nat
                               /\ rest[q] \subseteq Listeners
                               /\ pc'[q] = IF q = p THEN "sending" ELSE pc[q]
                               /\ rest[q] # {} => pc[q] = "sending"
      /\ UNCHANGED <<subscribers, joined, received, buffer>>
      /\ subscribers \subseteq Listeners
      /\ \A l \in Listeners : joined[l] \in Nat
  BY DEF Broadcast, Goto, Inv, TypeOK, RestInv, LockInv
<1>2. /\ \A l \in Listeners : Seen(l)' = Seen(l)
      /\ \A l \in Listeners : \A i \in 1 .. Len(Seen(l)) : Seen(l)[i] \in Nat
  <2>1. \A l \in Listeners : Seen(l)' = Seen(l)
    BY <1>1 DEF Seen
  <2>2. \A l \in Listeners : \A i \in 1 .. Len(Seen(l)) : Seen(l)[i] \in 1 .. MaxBroadcasts
    BY SeenType DEF Inv
  <2>3. 1 .. MaxBroadcasts \subseteq Nat
    BY BoundsAssumption
  <2> QED
    BY <2>1, <2>2, <2>3
<1>3. /\ \A l \in Listeners : \A i \in 1 .. Len(Seen(l)) : Seen(l)[i] < published + 1
      /\ \A q \in Publishers : pc[q] = "sending" => value[q] < published + 1
  BY <1>1, <1>2 DEF DeliveryInv, PastInv
<1>4. DistinctInv'
  BY <1>2 DEF DeliveryInv, DistinctInv
<1>5. PastInv'
  BY <1>1, <1>2, <1>3 DEF DeliveryInv, PastInv
<1>6. FlightInv'
  BY <1>1, <1>2, <1>3 DEF DeliveryInv, FlightInv
<1>7. CoverInv'
  <2> SUFFICES ASSUME NEW l \in subscribers, NEW v \in joined[l] + 1 .. published + 1
               PROVE  \/ \E i \in 1 .. Len(Seen(l)) : Seen(l)[i] = v
                      \/ \E q \in Publishers : value'[q] = v /\ l \in rest'[q]
    BY <1>1, <1>2 DEF CoverInv
  <2>1. CASE v = published + 1
    BY <2>1, <1>1
  <2>2. CASE v # published + 1
    <3>1. v \in joined[l] + 1 .. published
      BY <2>2, <1>1
    <3>2. \/ \E i \in 1 .. Len(Seen(l)) : Seen(l)[i] = v
          \/ \E q \in Publishers : value[q] = v /\ l \in rest[q]
      BY <3>1 DEF DeliveryInv, CoverInv
    <3> QED
      BY <3>2, <1>1
  <2> QED
    BY <2>1, <2>2
<1> QED
  BY <1>4, <1>5, <1>6, <1>7 DEF DeliveryInv

\* Who is added has missed nothing since.
LEMMA AddDelivery ==
    ASSUME Inv, DeliveryInv, NEW l \in Listeners, AddLocked(l)
    PROVE  DeliveryInv'
<1>1. /\ UNCHANGED <<value, rest, published, received, buffer>>
      /\ subscribers' = subscribers \cup {l} /\ subscribers \subseteq Listeners
      /\ \A k \in Listeners : joined'[k] = IF k = l THEN published ELSE joined[k]
      /\ \A p \in Publishers : pc'[p] = pc[p] /\ rest[p] \subseteq Listeners
      /\ published \in Nat
  BY Names DEF AddLocked, Goto, Inv, TypeOK
<1>2. \A k \in Listeners : Seen(k)' = Seen(k)
  BY <1>1 DEF Seen
<1>3. DistinctInv' /\ PastInv' /\ FlightInv'
  BY <1>1, <1>2 DEF DeliveryInv, DistinctInv, PastInv, FlightInv
<1>4. CoverInv'
  <2> SUFFICES ASSUME NEW k \in subscribers \cup {l}, NEW v \in joined'[k] + 1 .. published
               PROVE  \/ \E i \in 1 .. Len(Seen(k)) : Seen(k)[i] = v
                      \/ \E p \in Publishers : value[p] = v /\ k \in rest[p]
    BY <1>1, <1>2 DEF CoverInv
  <2>1. k # l
    BY <1>1
  <2> QED
    BY <2>1, <1>1 DEF DeliveryInv, CoverInv
<1> QED
  BY <1>3, <1>4 DEF DeliveryInv

\* The other steps only change the lock, who is subscribed and where goroutines are.
LEMMA OtherDelivery ==
    ASSUME Inv, DeliveryInv,
           \/ \E l \in Listeners : \/ AddListener(l) \/ AddReturns(l)
                                   \/ RemoveListener(l) \/ RemoveLocked(l) \/ RemoveReturns(l)
           \/ \E p \in Publishers : HasListeners(p) \/ BroadcastReturns(p)
           \/ Close \/ CloseLocked \/ CloseReturns
           \/ UNCHANGED vars
    PROVE  DeliveryInv'
<1> USE DEF Goto
<1>1. CASE \E l \in Listeners : \/ AddListener(l) \/ AddReturns(l)
                                \/ RemoveListener(l) \/ RemoveLocked(l) \/ RemoveReturns(l)
  <2>1. /\ UNCHANGED <<value, rest, published, joined, received, buffer>>
        /\ subscribers' \subseteq subscribers
        /\ \A p \in Publishers : pc'[p] = pc[p]
    BY <1>1, Names
    DEF AddListener, AddReturns, RemoveListener, RemoveLocked, RemoveReturns, Inv, TypeOK
  <2> QED
    BY <2>1, QuietDelivery DEF Seen
<1>2. CASE \E p \in Publishers : HasListeners(p) \/ BroadcastReturns(p)
  <2>1. /\ UNCHANGED <<value, rest, published, joined, received, buffer>>
        /\ subscribers' \subseteq subscribers
        /\ \A p \in Publishers : pc'[p] = "sending" => pc[p] = "sending"
    BY <1>2 DEF HasListeners, BroadcastReturns, Inv, TypeOK
  <2> QED
    BY <2>1, QuietDelivery DEF Seen
<1>3. CASE Close \/ CloseLocked \/ CloseReturns
  <2>1. /\ UNCHANGED <<value, rest, published, joined, received, buffer>>
        /\ subscribers' \subseteq subscribers
        /\ \A p \in Publishers : pc'[p] = pc[p]
    BY <1>3, Names DEF Close, CloseLocked, CloseReturns, Inv, TypeOK
  <2> QED
    BY <2>1, QuietDelivery DEF Seen
<1>4. CASE UNCHANGED vars
  BY <1>4, QuietDelivery DEF vars, Seen
<1> QED
  BY <1>1, <1>2, <1>3, <1>4

\* Every step preserves it.
LEMMA StepDelivery ==
    ASSUME Inv, DeliveryInv, [Next]_vars
    PROVE  DeliveryInv'
<1>1. CASE Call
  BY <1>1, BroadcastDelivery, OtherDelivery DEF Call
<1>2. CASE \E l \in Listeners : Read(l)
  BY <1>2, ReadDelivery
<1>3. CASE \E g \in Goroutines : Progress(g)
  BY <1>3, SendDelivery, AddDelivery, OtherDelivery DEF Progress
<1> QED
  BY <1>1, <1>2, <1>3, OtherDelivery DEF Next

(***************************************************************************)
(* No listener gets a value twice, and a subscribed one has got every      *)
(* value published since it was added except those still being sent to it, *)
(* for any number of publishers and listeners and however Broadcast,       *)
(* AddListener, RemoveListener, Close and the reads interleave.            *)
(***************************************************************************)
THEOREM NothingLostOrRepeated == Spec => []DeliveredExactlyOnce
<1>1. Spec => [](Inv /\ DeliveryInv)
  BY InitInv, InitDelivery, StepInv, StepDelivery, PTL DEF Spec
<1>2. ASSUME Inv, DeliveryInv PROVE DeliveredExactlyOnce
  <2> SUFFICES ASSUME NEW l \in Listeners
               PROVE  /\ Cardinality({Seen(l)[i] : i \in DOMAIN Seen(l)}) = Len(Seen(l))
                      /\ l \in subscribers => \A v \in joined[l] + 1 .. published :
                            \/ v \in {Seen(l)[i] : i \in DOMAIN Seen(l)}
                            \/ \E p \in Publishers : value[p] = v /\ l \in rest[p]
    BY DEF DeliveredExactlyOnce, Seen
  <2>1. Seen(l) \in Seq(1 .. MaxBroadcasts) /\ DOMAIN Seen(l) = 1 .. Len(Seen(l))
    BY <1>2, SeenType, LenProperties DEF Inv
  <2>2. Cardinality({Seen(l)[i] : i \in DOMAIN Seen(l)}) = Len(Seen(l))
    BY <1>2, <2>1, CountingDistinct DEF DeliveryInv, DistinctInv
  <2>3. ASSUME l \in subscribers, NEW v \in joined[l] + 1 .. published
        PROVE  \/ v \in {Seen(l)[i] : i \in DOMAIN Seen(l)}
               \/ \E p \in Publishers : value[p] = v /\ l \in rest[p]
    <3>1. \/ \E i \in 1 .. Len(Seen(l)) : Seen(l)[i] = v
          \/ \E p \in Publishers : value[p] = v /\ l \in rest[p]
      BY <1>2, <2>3 DEF DeliveryInv, CoverInv
    <3> QED
      BY <3>1, <2>1
  <2> QED
    BY <2>2, <2>3
<1> QED
  BY <1>1, <1>2, PTL

-----------------------------------------------------------------------------
(***************************************************************************)
(* Deadlock.  Unblocked is the guard of Progress: the goroutine is in a    *)
(* call and neither the lock nor a channel stops it.  WhoInv says who      *)
(* waits for the lock and who holds it for writing.                        *)
(***************************************************************************)
Waits == {"adding", "removing", "closing"}
Holds == {"added", "removed", "closed"}
InCall(g) == pc[g] \in Waits \cup Holds \cup {"sending"}
Unblocked(g) ==
    \/ pc[g] \in Holds
    \/ pc[g] \in Waits /\ g \in waiting /\ readLock = {} /\ writeLock = {}
    \/ pc[g] = "sending" /\ (rest[g] = {} \/ \E l \in rest[g] : Len(buffer[l]) < Capacity)
\* A publisher waits for the listener to read.
Awaited(l) ==
    /\ pc[l] \in {"reading", "removing", "removed", "done"} /\ buffer[l] # <<>>
    /\ \E p \in Publishers : pc[p] = "sending" /\ l \in rest[p]
CallsCanGoOn ==
    \A g \in Goroutines :
        InCall(g) => (\E h \in Goroutines : Unblocked(h)) \/ (\E l \in Listeners : Awaited(l))

WhoInv ==
    /\ waiting = {g \in Goroutines : pc[g] \in Waits}
    /\ writeLock = {g \in Goroutines : pc[g] \in Holds}
    /\ \A p \in Publishers : pc[p] \in {"idle", "publish", "sending"}
    /\ \A l \in Listeners : pc[l] \in {"idle", "adding", "added", "reading", "removing",
                                       "removed", "done"}
    /\ pc[Owner] \in {"idle", "closing", "closed", "done"}

LEMMA InitWho == Init => WhoInv
BY Names DEF Init, WhoInv, Waits, Holds

\* A goroutine moves, and waiting and writeLock follow it.
LEMMA MoveWho ==
    ASSUME Inv, WhoInv, NEW g \in Goroutines, NEW label \in Labels, Goto(g, label),
           \/ g \in Publishers /\ label \in {"idle", "publish", "sending"}
           \/ g \in Listeners /\ label \in {"idle", "adding", "added", "reading", "removing",
                                            "removed", "done"}
           \/ g = Owner /\ label \in {"idle", "closing", "closed", "done"},
           waiting' = IF label \in Waits THEN waiting \cup {g} ELSE waiting \ {g},
           writeLock' = IF label \in Holds THEN writeLock \cup {g} ELSE writeLock \ {g}
    PROVE  WhoInv'
<1>1. \A h \in Goroutines : pc'[h] = IF h = g THEN label ELSE pc[h]
  BY DEF Goto, Inv, TypeOK
<1>2. waiting' = {h \in Goroutines : pc'[h] \in Waits}
  BY <1>1 DEF WhoInv
<1>3. writeLock' = {h \in Goroutines : pc'[h] \in Holds}
  BY <1>1 DEF WhoInv
<1>4. \A h \in Publishers : pc'[h] \in {"idle", "publish", "sending"}
  BY <1>1, Names DEF WhoInv
<1>5. \A h \in Listeners : pc'[h] \in {"idle", "adding", "added", "reading", "removing",
                                       "removed", "done"}
  BY <1>1, Names DEF WhoInv
<1>6. pc'[Owner] \in {"idle", "closing", "closed", "done"}
  BY <1>1, Names DEF WhoInv
<1> QED
  BY <1>2, <1>3, <1>4, <1>5, <1>6 DEF WhoInv

LEMMA PublisherWho ==
    ASSUME Inv, WhoInv, NEW p \in Publishers,
           \/ HasListeners(p) \/ Broadcast(p) \/ BroadcastReturns(p)
    PROVE  WhoInv'
<1>1. p \notin waiting /\ p \notin writeLock
  BY DEF WhoInv, Waits, Holds
<1>2. UNCHANGED <<waiting, writeLock>>
  BY DEF HasListeners, Broadcast, BroadcastReturns
<1>3. \E label \in {"idle", "publish", "sending"} : Goto(p, label)
  BY DEF HasListeners, Broadcast, BroadcastReturns
<1> QED
  BY <1>1, <1>2, <1>3, MoveWho DEF Waits, Holds

LEMMA WriterWho ==
    ASSUME Inv, WhoInv, NEW g \in Listeners \cup {Owner},
           \/ g \in Listeners /\ (AddListener(g) \/ RemoveListener(g))
           \/ g = Owner /\ Close
           \/ Progress(g)
    PROVE  WhoInv'
<1>0. g \notin Publishers /\ g \in Goroutines /\ (g \in Listeners <=> g # Owner)
  BY Names
<1>1. g \in waiting <=> pc[g] \in Waits
  BY <1>0 DEF WhoInv
<1>2. g \in writeLock <=> pc[g] \in Holds
  BY <1>0 DEF WhoInv
<1>3. CASE \/ g \in Listeners /\ (AddListener(g) \/ RemoveListener(g))
           \/ g = Owner /\ Close
  <2>1. \E label \in Waits : /\ Goto(g, label)
                             /\ \/ g \in Listeners /\ label \in {"adding", "removing"}
                                \/ g = Owner /\ label = "closing"
    BY <1>3 DEF AddListener, RemoveListener, Close, Waits
  <2>2. pc[g] \notin Holds /\ waiting' = waiting \cup {g} /\ writeLock' = writeLock
    BY <1>3 DEF AddListener, RemoveListener, Close, Holds, WaitToWrite
  <2> QED
    BY <1>0, <1>2, <2>1, <2>2, MoveWho DEF Waits, Holds
<1>4. CASE \/ g \in Listeners /\ (AddLocked(g) \/ RemoveLocked(g))
           \/ g = Owner /\ CloseLocked
  <2>1. \E label \in Holds : /\ Goto(g, label)
                             /\ \/ g \in Listeners /\ label \in {"added", "removed"}
                                \/ g = Owner /\ label = "closed"
    BY <1>4 DEF AddLocked, RemoveLocked, CloseLocked, Holds
  <2>2. waiting' = waiting \ {g} /\ writeLock = {} /\ writeLock' = {g}
    BY <1>4 DEF AddLocked, RemoveLocked, CloseLocked, Lock
  <2> QED
    BY <1>0, <2>1, <2>2, MoveWho DEF Waits, Holds
<1>5. CASE \/ g \in Listeners /\ (AddReturns(g) \/ RemoveReturns(g))
           \/ g = Owner /\ CloseReturns
  <2>1. \E label \in {"reading", "done"} : /\ Goto(g, label)
                                           /\ g = Owner => label = "done"
    BY <1>5, Names DEF AddReturns, RemoveReturns, CloseReturns
  <2>2. pc[g] \in Holds /\ waiting' = waiting /\ writeLock' = writeLock \ {g}
    BY <1>5 DEF AddReturns, RemoveReturns, CloseReturns, Unlock, Holds
  <2>3. g \notin waiting
    BY <1>1, <2>2 DEF Waits, Holds
  <2> QED
    BY <1>0, <2>1, <2>2, <2>3, MoveWho DEF Waits, Holds
<1> QED
  BY <1>0, <1>3, <1>4, <1>5 DEF Progress

LEMMA StepWho ==
    ASSUME Inv, WhoInv, [Next]_vars
    PROVE  WhoInv'
<1>1. ASSUME UNCHANGED <<pc, waiting, writeLock>>
      PROVE  WhoInv'
  BY <1>1 DEF WhoInv
<1>2. CASE UNCHANGED vars \/ \E l \in Listeners : Read(l)
  BY <1>1, <1>2 DEF vars, Read
<1>3. CASE Call
  BY <1>3, WriterWho, PublisherWho DEF Call
<1>4. CASE \E g \in Goroutines : Progress(g)
  <2>1. PICK g \in Goroutines : Progress(g)
    BY <1>4
  <2>2. CASE g \in Publishers
    <3>1. CASE \E l \in Listeners : Send(g, l)
      BY <1>1, <3>1 DEF Send
    <3> QED
      BY <2>1, <2>2, <3>1, Names, PublisherWho DEF Progress
  <2>3. CASE g \in Listeners \cup {Owner}
    BY <2>1, <2>3, WriterWho
  <2> QED
    BY <2>2, <2>3
<1> QED
  BY <1>2, <1>3, <1>4 DEF Next

\* Who holds the lock can go on, unless it sends to a listener that does not read.
LEMMA HolderGoesOn ==
    ASSUME Inv, WhoInv, readLock # {} \/ writeLock # {}
    PROVE  (\E h \in Goroutines : Unblocked(h)) \/ (\E l \in Listeners : Awaited(l))
<1>1. CASE writeLock # {}
  BY <1>1 DEF WhoInv, Unblocked
<1>2. CASE readLock # {}
  <2>1. PICK p \in Publishers : p \in readLock /\ pc[p] = "sending"
    BY <1>2 DEF Inv, TypeOK, LockInv
  <2>2. CASE rest[p] = {} \/ \E l \in rest[p] : Len(buffer[l]) < Capacity
    BY <2>1, <2>2 DEF Unblocked
  <2>3. CASE rest[p] # {} /\ ~\E l \in rest[p] : Len(buffer[l]) < Capacity
    <3>1. PICK l \in Listeners : l \in rest[p]
      BY <2>1, <2>3 DEF Inv, TypeOK
    <3>2. l \in subscribers /\ pc[l] \notin {"idle", "adding"}
      BY <2>1, <3>1 DEF Inv, RestInv, ListenerInv
    <3>3. buffer[l] # <<>>
      <4>1. Len(<<>>) = 0
        OBVIOUS
      <4> QED
        BY <2>3, <3>1, <4>1, BoundsAssumption
    <3>4. pc[l] \in {"added", "reading", "removing", "removed", "done"}
      BY <3>2 DEF WhoInv
    <3>5. CASE pc[l] = "added"
      BY <3>5 DEF Unblocked, Holds
    <3> QED
      BY <2>1, <3>1, <3>3, <3>4, <3>5 DEF Awaited
  <2> QED
    BY <2>2, <2>3
<1> QED
  BY <1>1, <1>2

(***************************************************************************)
(* The safety part of CallsReturn: the callers of a Broadcaster never all  *)
(* wait for each other.  As long as one is in a call, some call can take   *)
(* its next step, or a publisher waits for a listener that has returned    *)
(* from AddListener and has something to read.                             *)
(***************************************************************************)
THEOREM OnlyListenersBlock == Spec => []CallsCanGoOn
<1>1. Spec => [](Inv /\ WhoInv)
  BY InitInv, StepInv, InitWho, StepWho, PTL DEF Spec
<1>2. Inv /\ WhoInv => CallsCanGoOn
  <2> SUFFICES ASSUME Inv, WhoInv, NEW g \in Goroutines, InCall(g)
               PROVE  (\E h \in Goroutines : Unblocked(h)) \/ (\E l \in Listeners : Awaited(l))
    BY DEF CallsCanGoOn
  <2>1. CASE readLock # {} \/ writeLock # {}
    BY <2>1, HolderGoesOn
  <2>2. CASE readLock = {} /\ writeLock = {}
    <3>1. CASE pc[g] = "sending"
      <4>1. g \in Publishers
        BY <3>1 DEF WhoInv
      <4> QED
        BY <2>2, <3>1, <4>1 DEF Inv, LockInv
    <3>2. CASE pc[g] \in Waits
      BY <2>2, <3>2 DEF WhoInv, Unblocked
    <3> QED
      BY <3>1, <3>2 DEF InCall, Unblocked
  <2> QED
    BY <2>1, <2>2
<1> QED
  BY <1>1, <1>2, PTL
=============================================================================
