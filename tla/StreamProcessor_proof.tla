------------------------ MODULE StreamProcessor_proof ------------------------
(* Machine-checked proofs about StreamProcessor. *)
EXTENDS StreamProcessor, SequenceTheorems, TLAPS

USE DEF contents, poller

(***************************************************************************)
(* The inductive invariant.  A put is only ever the first event of its     *)
(* connection, and a connection begins with an empty queue; so a put that  *)
(* is still to be received is at least as new as everything that database, *)
(* cache and status poller hold, and no event is newer than the service.   *)
(***************************************************************************)
Within(bound) ==
    \A k \in Keys : /\ database[k] <= bound[k] /\ items[k] <= bound[k]
                    /\ cachedAll[k] <= bound[k] /\ snapshot[k] <= bound[k]

Bounded(e) ==
    /\ e.type = "put" => \A k \in Keys : e.data[k] <= service[k]
    /\ e.type = "patch" => e.ver <= service[e.key]

QueueInv ==
    /\ conn = "connecting" => events = <<>>
    /\ \A i \in 1 .. Len(events) : Bounded(events[i])
    /\ \A i \in 2 .. Len(events) : events[i].type # "put"
    /\ events # <<>> /\ events[1].type = "put" => Within(events[1].data)

StoreInv == Within(service)

Inv == TypeOK /\ QueueInv /\ StoreInv /\ ReadyMeansSettled

\* The events there are
LEMMA EventKinds ==
    ASSUME NEW e \in Events
    PROVE  /\ e.type \in {"put", "patch", "malformed", "ignored"}
           /\ e.type = "put" => e.data \in [Keys -> Versions]
           /\ e.type = "patch" => e.key \in Keys /\ e.ver \in Versions
BY DEF Events

\* What the service sends are events.
LEMMA EventTypes ==
    /\ \A d \in [Keys -> Versions] : [type |-> "put", data |-> d] \in Events
    /\ \A k \in Keys, v \in Versions : [type |-> "patch", key |-> k, ver |-> v] \in Events
    /\ [type |-> "malformed"] \in Events /\ [type |-> "ignored"] \in Events
BY DEF Events

\* At first nothing is queued and the store is empty or current.
LEMMA InitInv == Init => Inv
<1> SUFFICES ASSUME Init PROVE Inv
  OBVIOUS
<1>1. events \in Seq(Events) /\ storeStatusCh \in Seq(BOOLEAN)
  BY DEF Init
<1>2. /\ service \in [Keys -> Versions] /\ database \in [Keys -> Versions]
      /\ \A k \in Keys : database[k] <= service[k] /\ 0 <= service[k] /\ -1 <= service[k]
  <2>1. service \in [Keys -> Versions] /\ \A k \in Keys : service[k] \in 0 .. MaxVersion
    BY DEF Init, Versions
  <2>2. 0 \in Versions
    BY BoundsAssumption DEF Versions
  <2>3. CASE database = Empty
    BY <2>1, <2>2, <2>3, BoundsAssumption DEF Empty
  <2>4. CASE database = service
    BY <2>1, <2>4, BoundsAssumption
  <2> QED
    BY <2>1, <2>3, <2>4 DEF Init
<1>6. /\ items \in [Keys -> Versions \cup {Absent}] /\ snapshot \in [Keys -> Versions]
      /\ cachedAll \in [Keys -> Versions] \cup {NothingCached}
      /\ polling \in {"wait", "write", "signal"}
  BY BoundsAssumption DEF Init, NothingCached, Empty, Versions
<1>7. Within(service)
  <2>1. \A k \in Keys : items[k] = -1 /\ cachedAll[k] = -1 /\ snapshot[k] = 0
    BY DEF Init, NothingCached, Empty, Absent
  <2> QED
    BY <1>2, <2>1 DEF Within
<1>3. {dbUp, available, isInitialized, ready, regressed} \subseteq BOOLEAN
  BY DEF Init
<1>4. faults \in 0 .. MaxFaults /\ state \in States /\ storeType \in Stores
  BY BoundsAssumption DEF Init, States
<1>5. TypeOK
  BY <1>1, <1>2, <1>3, <1>4, <1>6 DEF Init, TypeOK
<1> QED
  BY <1>5, <1>7 DEF Init, Inv, QueueInv, StoreInv, ReadyMeansSettled

\* The queue after the service has added an event to it
LEMMA Appended ==
    ASSUME TypeOK, QueueInv, conn = "open", conn' = conn, UNCHANGED <<contents, snapshot>>,
           service' \in [Keys -> Versions],
           \A k \in Keys : service[k] <= service'[k],
           NEW e \in Events, e.type # "put", Bounded(e)', events' = Append(events, e)
    PROVE  events' \in Seq(Events) /\ QueueInv'
<1>1. /\ events \in Seq(Events) /\ Len(events) \in Nat
      /\ \A k \in Keys : service[k] \in Int /\ service'[k] \in Int
  BY DEF TypeOK, Versions
<1>2. /\ events' \in Seq(Events)
      /\ Len(events') = Len(events) + 1
      /\ \A i \in 1 .. Len(events) : events'[i] = events[i]
      /\ events'[Len(events) + 1] = e
  BY <1>1, AppendProperties
<1>3. \A i \in 1 .. Len(events') : i \in 1 .. Len(events) \/ i = Len(events) + 1
  BY <1>1, <1>2
<1>4. ASSUME NEW i \in 1 .. Len(events)
      PROVE  Bounded(events[i])'
  <2>1. events[i] \in Events /\ Bounded(events[i])
    BY <1>1, ElementOfSeq DEF QueueInv
  <2>2. events'[i] = events[i]
    BY <1>2
  <2>3. CASE events[i].type = "put"
    <3>1. events[i].data \in [Keys -> Versions]
      BY <2>1, <2>3, EventKinds
    <3> QED
      BY <1>1, <2>1, <2>2, <2>3, <3>1 DEF Bounded, Versions
  <2>4. CASE events[i].type = "patch"
    <3>1. events[i].key \in Keys /\ events[i].ver \in Versions
      BY <2>1, <2>4, EventKinds
    <3> QED
      BY <1>1, <2>1, <2>2, <2>4, <3>1 DEF Bounded, Versions
  <2>5. CASE events[i].type \notin {"put", "patch"}
    BY <2>2, <2>5 DEF Bounded
  <2> QED
    BY <2>3, <2>4, <2>5
<1>5. \A i \in 1 .. Len(events') : Bounded(events[i])'
  BY <1>2, <1>3, <1>4
<1>6. \A i \in 2 .. Len(events') : events'[i].type # "put"
  <2> SUFFICES ASSUME NEW i \in 2 .. Len(events') PROVE events'[i].type # "put"
    OBVIOUS
  <2>1. i \in 2 .. Len(events) \/ i = Len(events) + 1
    BY <1>1, <1>2
  <2>2. i \in 2 .. Len(events) => events'[i] = events[i]
    BY <1>1, <1>2
  <2> QED
    BY <1>2, <2>1, <2>2 DEF QueueInv
<1>7. events'[1].type = "put" => Within(events'[1].data)
  <2>1. CASE Len(events) = 0
    BY <1>2, <2>1
  <2>2. CASE Len(events) # 0
    <3>1. events # <<>> /\ events'[1] = events[1]
      BY <1>1, <1>2, <2>2
    <3> QED
      BY <3>1 DEF QueueInv
  <2> QED
    BY <2>1, <2>2
<1>8. events'[1].type = "put" => Within(events[1].data)'
  BY <1>7 DEF Within
<1> QED
  BY <1>2, <1>5, <1>6, <1>8 DEF QueueInv

\* The queue after its first event has been received
LEMMA Received ==
    ASSUME TypeOK, QueueInv, conn' = conn, service' = service,
           events # <<>>, events' = Tail(events)
    PROVE  events' \in Seq(Events) /\ QueueInv'
<1>1. /\ events' \in Seq(Events) /\ Len(events) \in Nat \ {0}
      /\ Len(events') = Len(events) - 1
      /\ \A i \in 1 .. Len(events') : events'[i] = events[i + 1]
  BY HeadTailProperties DEF TypeOK
<1>2. \A i \in 1 .. Len(events') : i + 1 \in 2 .. Len(events) /\ i + 1 \in 1 .. Len(events)
  BY <1>1
<1>3. \A i \in 1 .. Len(events') : Bounded(events[i])' /\ events'[i].type # "put"
  BY <1>1, <1>2 DEF QueueInv, Bounded
<1>4. events' # <<>> => 1 \in 1 .. Len(events')
  BY <1>1
<1>5. \A i \in 2 .. Len(events') : i \in 1 .. Len(events')
  BY <1>1
<1> QED
  BY <1>1, <1>3, <1>4, <1>5 DEF QueueInv

\* The queue of a connection that has just been made: a put, or a broken event
LEMMA Connected ==
    ASSUME TypeOK, StoreInv, conn' = "open", UNCHANGED <<contents, snapshot>>,
           service' = service,
           NEW e \in {[type |-> "put", data |-> service], [type |-> "malformed"]},
           events' = <<e>>
    PROVE  events' \in Seq(Events) /\ QueueInv'
<1>1. e \in Events
  BY EventTypes DEF TypeOK
<1>2. Len(events') = 1 /\ events'[1] = e /\ events' \in Seq(Events)
  BY <1>1
<1>3. \A k \in Keys : service[k] \in Int
  BY DEF TypeOK, Versions
<1>4. Bounded(e)'
  BY <1>3 DEF Bounded
<1>5. e.type = "put" => Within(events[1].data)'
  BY <1>2 DEF StoreInv, Within
<1> QED
  BY <1>2, <1>4, <1>5 DEF QueueInv

\* What is held stays within any bound.
WithinKept == \A b \in [Keys -> Versions] : Within(b) => Within(b)'

LEMMA WithinSame == ASSUME UNCHANGED <<contents, snapshot>> PROVE WithinKept
BY DEF WithinKept, Within

\* Steps that leave the queue alone
LEMMA QueueKept ==
    ASSUME TypeOK, QueueInv, events' = events, WithinKept, service' = service,
           conn' \in {conn, "closed"}
    PROVE  events' \in Seq(Events) /\ QueueInv'
<1>1. events' \in Seq(Events) /\ \A i \in 1 .. Len(events) : Bounded(events[i])' = Bounded(events[i])
  BY DEF TypeOK, Bounded
<1>2. ASSUME events # <<>>, events[1].type = "put" PROVE Within(events[1].data)'
  <2>1. 1 \in 1 .. Len(events)
    BY <1>2 DEF TypeOK
  <2>2. events[1] \in Events
    BY <2>1, ElementOfSeq DEF TypeOK
  <2>3. PICK d \in [Keys -> Versions] : d = events[1].data
    BY <1>2, <2>2, EventKinds
  <2>4. Within(d)
    BY <1>2, <2>3 DEF QueueInv
  <2>5. Within(d)'
    BY <2>4 DEF WithinKept
  <2> QED
    BY <2>3, <2>5 DEF Within
<1> QED
  BY <1>1, <1>2 DEF QueueInv

\* Dropping the connection drops the queue.
LEMMA QueueCleared ==
    ASSUME events' = <<>>
    PROVE  events' \in Seq(Events) /\ QueueInv'
<1>1. events' \in Seq(Events) /\ Len(events') = 0
  OBVIOUS
<1> QED
  BY <1>1 DEF QueueInv

\* stream.Restart() drops an open connection and no other.
LEMMA QueueRestarted ==
    ASSUME TypeOK, QueueInv, UNCHANGED <<contents, snapshot>>, service' = service, RestartStream
    PROVE  /\ events' \in Seq(Events) /\ QueueInv'
           /\ conn' \in {"connecting", "open", "closed"}
           /\ conn = "closed" => conn' = "closed"
<1>1. CASE conn = "open"
  BY <1>1, QueueCleared DEF RestartStream
<1>2. CASE conn # "open"
  BY <1>2, WithinSame, QueueKept DEF RestartStream, TypeOK
<1> QED
  BY <1>1, <1>2

\* The step of StoreNeverGoesBack
StoreStep ==
    \A k \in Keys :
        /\ store'[k] <= service'[k]
        /\ store'[k] < store[k] =>
              /\ hasInfiniteCache
              /\ \/ items[k] = Absent
                 \/ /\ events # <<>>
                    /\ Head(events).type = "patch" /\ Head(events).ver < store[k]
                    /\ ~dbUp \/ database[k] < store[k]

\* Everything that is held is a number, and what evaluations read is held.
LEMMA HeldTypes ==
    ASSUME TypeOK
    PROVE  /\ \A k \in Keys : /\ service[k] \in Int /\ database[k] \in Int /\ items[k] \in Int
                              /\ cachedAll[k] \in Int /\ snapshot[k] \in Int
           /\ store \in [Keys -> Versions] /\ \A k \in Keys : store[k] \in Int
           /\ \A k \in Keys : store[k] = IF items[k] = Absent THEN database[k] ELSE items[k]
<1>1. \A k \in Keys : cachedAll[k] \in Int
  <2>1. cachedAll \in [Keys -> Versions] \/ cachedAll = NothingCached
    BY DEF TypeOK
  <2>2. \A k \in Keys : NothingCached[k] \in Int
    BY DEF NothingCached, Absent
  <2>3. CASE cachedAll \in [Keys -> Versions]
    BY <2>3 DEF Versions
  <2>4. CASE cachedAll = NothingCached
    BY <2>2, <2>4
  <2> QED
    BY <2>1, <2>3, <2>4
<1>2. \A k \in Keys : /\ service[k] \in Int /\ database[k] \in Int /\ items[k] \in Int
                      /\ snapshot[k] \in Int
  BY DEF TypeOK, Versions, Absent
<1>3. \A k \in Keys : store[k] = IF items[k] = Absent THEN database[k] ELSE items[k]
  BY DEF store
<1>4. store \in [Keys -> Versions]
  BY DEF store, TypeOK
<1> QED
  BY <1>1, <1>2, <1>3, <1>4 DEF Versions

\* A step that changes neither data nor store takes no item back.
LEMMA StoreKept ==
    ASSUME TypeOK, StoreInv, UNCHANGED <<contents, snapshot>>, service' = service
    PROVE  StoreInv' /\ StoreStep /\ store' = store
<1>1. \A k \in Keys : store[k] \in Int /\ store[k] <= service[k]
  BY HeldTypes DEF StoreInv, Within
<1>2. store' = store
  BY DEF store
<1> QED
  BY <1>1, <1>2 DEF StoreInv, StoreStep, Within

\* The status that is set is a state.
LEMMA StatusType ==
    ASSUME TypeOK, NEW s \in States, UpdateStatus(s)
    PROVE  state' \in States
BY DEF TypeOK, UpdateStatus

\* A change of availability is a Boolean notification.
LEMMA AvailabilityType ==
    ASSUME TypeOK, NEW up \in BOOLEAN, UpdateAvailability(up)
    PROVE  available' \in BOOLEAN /\ storeStatusCh' \in Seq(BOOLEAN)
<1>1. available' \in BOOLEAN
  BY DEF TypeOK, UpdateAvailability
<1>2. Append(storeStatusCh, up) \in Seq(BOOLEAN)
  BY AppendProperties DEF TypeOK
<1>3. storeStatusCh' \in {Append(storeStatusCh, up), storeStatusCh}
  BY DEF UpdateAvailability
<1> QED
  BY <1>1, <1>2, <1>3 DEF TypeOK

\* Every answer of the store leaves well-typed notifications.
LEMMA AnswerType ==
    ASSUME TypeOK, NEW next, Answer(next)
    PROVE  /\ available' \in BOOLEAN /\ storeStatusCh' \in Seq(BOOLEAN)
           /\ pc' \in {next, "failed"}
<1>1. CASE dbUp
  BY <1>1 DEF Answer, TypeOK
<1>2. CASE ~dbUp
  <2>1. UpdateAvailability(FALSE)
    BY <1>2 DEF Answer
  <2>2. available' \in BOOLEAN /\ storeStatusCh' \in Seq(BOOLEAN)
    BY <2>1, AvailabilityType
  <2> QED
    BY <1>2, <2>2 DEF Answer
<1> QED
  BY <1>1, <1>2

\* A put is the first event of its connection, hence no older than the store.
LEMMA PutStep ==
    ASSUME Inv, Put
    PROVE  Inv' /\ StoreStep
<1> USE DEF Inv
<1>1. PICK d \in [Keys -> Versions] :
          /\ Receive([type |-> "put", data |-> d])
          /\ StoreInit(d)
  BY DEF Put
<1>2. /\ events # <<>> /\ events' = Tail(events)
      /\ events[1].type = "put" /\ events[1].data = d
  BY <1>1 DEF Receive
<1>3. events' \in Seq(Events) /\ QueueInv'
  BY <1>2, Received DEF Put
<1>4. /\ \A k \in Keys : d[k] <= service[k]
      /\ \A k \in Keys : /\ database[k] <= d[k] /\ items[k] <= d[k]
                         /\ cachedAll[k] <= d[k] /\ snapshot[k] <= d[k]
      /\ \A k \in Keys : d[k] \in Int /\ d[k] >= 0
  <2>1. 1 \in 1 .. Len(events)
    BY <1>2 DEF TypeOK
  <2> QED
    BY <1>2, <2>1 DEF QueueInv, Bounded, Within, Versions
<1>5. /\ database' \in {database, d} /\ items' \in {items, d} /\ cachedAll' \in {cachedAll, d}
      /\ snapshot' = snapshot /\ service' = service /\ polling' = polling
  BY <1>1 DEF StoreInit, Put
<1>6. StoreInv'
  BY <1>4, <1>5, HeldTypes DEF StoreInv, Within
<1>7. \A k \in Keys : store'[k] = IF items'[k] = Absent THEN database'[k] ELSE items'[k]
  BY DEF store
<1>8. StoreStep
  <2> SUFFICES ASSUME NEW k \in Keys
               PROVE  store'[k] <= service[k] /\ store[k] <= store'[k]
    <3>1. \A k \in Keys : store[k] \in Int /\ store'[k] \in Int
      BY <1>4, <1>5, <1>7, HeldTypes
    <3> QED
      BY <1>5, <3>1 DEF StoreStep
  <2>1. CASE hasInfiniteCache
    <3>1. items'[k] = d[k] /\ items'[k] # Absent
      BY <1>1, <1>4, <2>1 DEF StoreInit, Absent
    <3> QED
      BY <1>4, <1>7, <3>1, HeldTypes
  <2>2. CASE ~hasInfiniteCache
    <3>1. items' = items
      BY <1>1, <2>2 DEF StoreInit
    <3> QED
      BY <1>4, <1>5, <1>7, <3>1, HeldTypes DEF StoreInv, Within
  <2> QED
    BY <2>1, <2>2
<1>9. /\ available' \in BOOLEAN /\ storeStatusCh' \in Seq(BOOLEAN)
      /\ pc' \in {"notify", "failed"}
  BY AnswerType DEF Put
<1>10. hasInfiniteCache' \/ (items' = NothingCached /\ cachedAll' = NothingCached)
  BY <1>1 DEF StoreInit, hasInfiniteCache, TypeOK, Put
<1>11. TypeOK'
  BY <1>3, <1>5, <1>9, <1>10 DEF TypeOK, hasInfiniteCache, Put
<1> QED
  BY <1>3, <1>6, <1>8, <1>11 DEF ReadyMeansSettled, Put

\* What an Upsert leaves of the item, and that it leaves the others alone
LEMMA UpsertResult ==
    ASSUME TypeOK, StoreInv, NEW k \in Keys, NEW v \in Versions, v <= service[k],
           UpsertTaken(k, v) \/ UpsertRefused(k, v) \/ UpsertFails(k, v),
           UNCHANGED <<service, poller>>
    PROVE  /\ database' \in [Keys -> Versions]
           /\ items' \in [Keys -> Versions \cup {Absent}]
           /\ cachedAll' \in [Keys -> Versions] \cup {NothingCached}
           /\ StoreInv'
           /\ \A i \in Keys : i # k => store'[i] = store[i]
           /\ hasInfiniteCache \/ (items' = NothingCached /\ cachedAll' = NothingCached)
           /\ dbUp => store'[k] = IF v > database[k] THEN v ELSE database[k]
           /\ ~dbUp => store'[k] = IF hasInfiniteCache THEN v ELSE store[k]
           /\ \A i \in Keys : items'[i] = Absent => items[i] = Absent
<1>1. /\ v \in Int /\ v >= 0 /\ v # Absent
      /\ \A i \in Keys : /\ service[i] \in Int /\ database[i] \in Int /\ items[i] \in Int
                         /\ cachedAll[i] \in Int /\ snapshot[i] \in Int
                         /\ database[i] >= 0 /\ database[i] # Absent /\ service[i] >= 0
  <2>1. \A i \in Keys : service[i] \in Versions /\ database[i] \in Versions
    BY DEF TypeOK
  <2> QED
    BY <2>1, HeldTypes DEF Versions, Absent
<1>2. \A i \in Keys : /\ database[i] <= service[i] /\ items[i] <= service[i]
                      /\ cachedAll[i] <= service[i] /\ snapshot[i] <= service[i]
  BY DEF StoreInv, Within
<1>3. /\ \A i \in Keys : store[i] = IF items[i] = Absent THEN database[i] ELSE items[i]
      /\ \A i \in Keys : store'[i] = IF items'[i] = Absent THEN database'[i] ELSE items'[i]
  BY DEF store
<1>4. /\ 0 \in Versions /\ NothingCached \in [Keys -> {-1}]
      /\ database \in [Keys -> Versions] /\ items \in [Keys -> Versions \cup {Absent}]
      /\ cachedAll \in [Keys -> Versions] \cup {NothingCached}
      /\ ~hasInfiniteCache => items = NothingCached /\ cachedAll = NothingCached
      /\ ~hasInfiniteCache => \A i \in Keys : items[i] = Absent
  BY BoundsAssumption DEF Versions, NothingCached, Absent, TypeOK
<1>5. CASE UpsertTaken(k, v)
  <2>1. /\ dbUp /\ v > database[k] /\ database' = [database EXCEPT ![k] = v]
        /\ items' = items \/ items' = [items EXCEPT ![k] = v]
        /\ hasInfiniteCache => items' = [items EXCEPT ![k] = v]
        /\ ~hasInfiniteCache => items' = items
        /\ \/ cachedAll' = cachedAll
           \/ cachedAll # NothingCached /\ cachedAll' = [cachedAll EXCEPT ![k] = v]
    BY <1>5 DEF UpsertTaken
  <2>2. /\ database' \in [Keys -> Versions] /\ items' \in [Keys -> Versions \cup {Absent}]
        /\ cachedAll' \in [Keys -> Versions] \cup {NothingCached}
    BY <1>4, <2>1
  <2>3. /\ database'[k] = v /\ \A i \in Keys : i # k => database'[i] = database[i]
        /\ items'[k] \in {items[k], v} /\ \A i \in Keys : i # k => items'[i] = items[i]
        /\ hasInfiniteCache => items'[k] = v
        /\ ~hasInfiniteCache => items'[k] = items[k]
        /\ cachedAll'[k] \in {cachedAll[k], v}
        /\ \A i \in Keys : i # k => cachedAll'[i] = cachedAll[i]
    BY <1>4, <2>1
  <2>4. StoreInv'
    BY <1>1, <1>2, <2>3 DEF StoreInv, Within
  <2>5. hasInfiniteCache \/ (items' = NothingCached /\ cachedAll' = NothingCached)
    BY <1>4, <2>1
  <2>6. \A i \in Keys : i # k => store'[i] = store[i]
    BY <1>3, <2>3
  <2>7. store'[k] = v
    BY <1>1, <1>3, <1>4, <2>3
  <2>8. \A i \in Keys : items'[i] = Absent => items[i] = Absent
    BY <1>1, <1>4, <2>3
  <2> QED
    BY <2>1, <2>2, <2>4, <2>5, <2>6, <2>7, <2>8
<1>6. CASE UpsertRefused(k, v)
  <2>1. /\ dbUp /\ v <= database[k] /\ database' = database /\ cachedAll' = NothingCached
        /\ hasInfiniteCache => items' = [items EXCEPT ![k] = database[k]]
        /\ ~hasInfiniteCache => items' = items
    BY <1>6 DEF UpsertRefused
  <2>2. items' \in [Keys -> Versions \cup {Absent}]
    BY <1>4, <2>1
  <2>3. /\ hasInfiniteCache => items'[k] = database[k]
        /\ ~hasInfiniteCache => items'[k] = items[k]
        /\ \A i \in Keys : i # k => items'[i] = items[i]
        /\ \A i \in Keys : cachedAll'[i] = -1
    BY <1>4, <2>1
  <2>4. StoreInv'
    BY <1>1, <1>2, <2>1, <2>3 DEF StoreInv, Within
  <2> QED
    BY <1>1, <1>3, <1>4, <2>1, <2>2, <2>3, <2>4
<1>7. CASE UpsertFails(k, v)
  <2>1. /\ ~dbUp /\ database' = database
        /\ hasInfiniteCache => items' = [items EXCEPT ![k] = v]
        /\ ~hasInfiniteCache => items' = items /\ cachedAll' = cachedAll
        /\ hasInfiniteCache /\ cachedAll = NothingCached => cachedAll' = [Empty EXCEPT ![k] = v]
        /\ hasInfiniteCache /\ cachedAll # NothingCached => cachedAll' = [cachedAll EXCEPT ![k] = v]
    BY <1>7 DEF UpsertFails
  <2>2. /\ items' \in [Keys -> Versions \cup {Absent}]
        /\ cachedAll' \in [Keys -> Versions] \cup {NothingCached}
        /\ Empty \in [Keys -> {0}]
    BY <1>4, <2>1 DEF Empty
  <2>3. /\ hasInfiniteCache => items'[k] = v
        /\ ~hasInfiniteCache => items'[k] = items[k]
        /\ \A i \in Keys : i # k => items'[i] = items[i]
    BY <1>4, <2>1
  <2>5. /\ cachedAll'[k] \in {cachedAll[k], v}
        /\ \A i \in Keys : i # k => cachedAll'[i] \in {cachedAll[i], 0}
    BY <1>4, <2>1, <2>2
  <2>4. StoreInv'
    BY <1>1, <1>2, <2>1, <2>3, <2>5 DEF StoreInv, Within
  <2> QED
    BY <1>1, <1>3, <1>4, <2>1, <2>2, <2>3, <2>4
<1> QED
  BY <1>5, <1>6, <1>7

\* A patch is compared with the version that the database has.
LEMMA PatchStep ==
    ASSUME Inv, Patch
    PROVE  Inv' /\ StoreStep
<1> USE DEF Inv
<1>1. PICK k \in Keys, v \in Versions :
          /\ Receive([type |-> "patch", key |-> k, ver |-> v])
          /\ UpsertTaken(k, v) \/ UpsertRefused(k, v) \/ UpsertFails(k, v)
          /\ regressed' = (regressed \/ store'[k] < store[k])
  BY DEF Patch
<1>2. /\ events # <<>> /\ events' = Tail(events)
      /\ Head(events).type = "patch" /\ Head(events).ver = v
      /\ events[1].type = "patch" /\ events[1].key = k /\ events[1].ver = v
  BY <1>1 DEF Receive
<1>3. events' \in Seq(Events) /\ QueueInv'
  BY <1>2, Received DEF Patch
<1>4. v <= service[k]
  <2>1. 1 \in 1 .. Len(events)
    BY <1>2 DEF TypeOK
  <2> QED
    BY <1>2, <2>1 DEF QueueInv, Bounded
<1>5. /\ UNCHANGED <<service, poller, storeType, conn, dbUp, state, isInitialized, ready, closing>>
      /\ UNCHANGED faults
  BY DEF Patch
<1>6. /\ database' \in [Keys -> Versions]
      /\ items' \in [Keys -> Versions \cup {Absent}]
      /\ cachedAll' \in [Keys -> Versions] \cup {NothingCached}
      /\ hasInfiniteCache \/ (items' = NothingCached /\ cachedAll' = NothingCached)
      /\ StoreInv'
      /\ \A i \in Keys : i # k => store'[i] = store[i]
      /\ dbUp => store'[k] = IF v > database[k] THEN v ELSE database[k]
      /\ ~dbUp => store'[k] = IF hasInfiniteCache THEN v ELSE store[k]
  BY <1>1, <1>4, <1>5, UpsertResult
<1>7. /\ v \in Int /\ (~hasInfiniteCache => \A i \in Keys : items[i] = Absent)
      /\ \A i \in Keys : store[i] \in Int /\ service[i] \in Int /\ database[i] \in Int
      /\ \A i \in Keys : store[i] <= service[i] /\ database[i] <= service[i]
      /\ \A i \in Keys : items[i] = Absent => store[i] = database[i]
  <2>1. ~hasInfiniteCache => \A i \in Keys : items[i] = Absent
    BY DEF TypeOK, NothingCached
  <2> QED
    BY <2>1, HeldTypes DEF StoreInv, Within, Versions
<1>8. StoreStep
  <2> SUFFICES ASSUME NEW i \in Keys
               PROVE  /\ store'[i] <= service[i]
                      /\ store'[i] < store[i] =>
                            /\ hasInfiniteCache
                            /\ v < store[i]
                            /\ ~dbUp \/ database[i] < store[i]
    BY <1>2, <1>5 DEF StoreStep
  <2>1. CASE i # k
    BY <1>6, <1>7, <2>1
  <2>2. CASE i = k /\ dbUp
    BY <1>4, <1>6, <1>7, <2>2
  <2>3. CASE i = k /\ ~dbUp
    BY <1>4, <1>6, <1>7, <2>3
  <2> QED
    BY <2>1, <2>2, <2>3
<1>9. /\ available' \in BOOLEAN /\ storeStatusCh' \in Seq(BOOLEAN)
      /\ pc' \in {"valid", "failed"}
  BY AnswerType DEF Patch
<1>10. regressed' \in BOOLEAN
  BY <1>1 DEF TypeOK
<1>11. hasInfiniteCache' <=> hasInfiniteCache
  BY <1>5 DEF hasInfiniteCache
<1>12. TypeOK'
  BY <1>3, <1>5, <1>6, <1>9, <1>10, <1>11 DEF TypeOK
<1> QED
  BY <1>3, <1>5, <1>6, <1>8, <1>12 DEF ReadyMeansSettled

\* The service's steps, which add to the queue
LEMMA UpdateStep ==
    ASSUME Inv, NEW k \in Keys, Update(k)
    PROVE  Inv' /\ StoreStep
<1> USE DEF Inv
<1>1. /\ service' \in [Keys -> Versions] /\ service'[k] = service[k] + 1
      /\ service[k] + 1 \in Versions
      /\ \A i \in Keys : service[i] <= service'[i]
      /\ \A i \in Keys : service[i] \in Int /\ service'[i] \in Int
  BY BoundsAssumption DEF TypeOK, Update, Versions
<1>2. StoreInv' /\ StoreStep
  <2>1. UNCHANGED <<contents, snapshot>> /\ store' = store
    BY DEF Update, store
  <2>2. \A i \in Keys : store[i] \in Int /\ store[i] <= service[i]
    BY HeldTypes DEF StoreInv, Within
  <2>3. StoreInv'
    BY <1>1, <2>1, HeldTypes DEF StoreInv, Within
  <2> QED
    BY <1>1, <2>1, <2>2, <2>3 DEF StoreStep
<1>3. /\ events' \in Seq(Events) /\ QueueInv'
      /\ faults' \in 0 .. MaxFaults
  <2> DEFINE m == [type |-> "malformed"]
  <2>0. PICK e : e = [type |-> "patch", key |-> k, ver |-> service[k] + 1]
    OBVIOUS
  <2>1. CASE conn = "open" /\ events' = Append(events, e) /\ faults' = faults
    <3>1. e \in Events /\ e.type # "put"
      BY <1>1, <2>0, EventTypes
    <3>2. Bounded(e)'
      BY <1>1, <2>0 DEF Bounded
    <3> QED
      BY <1>1, <1>2, <2>1, <3>1, <3>2, Appended DEF TypeOK, Update
  <2>2. CASE conn = "open" /\ events' = Append(events, m) /\ Fault
    <3>1. m \in Events /\ m.type # "put"
      BY EventTypes
    <3>2. Bounded(m)'
      BY DEF Bounded
    <3>3. faults' \in 0 .. MaxFaults
      BY <2>2, BoundsAssumption DEF TypeOK, Fault
    <3> HIDE DEF m
    <3> QED
      BY <1>1, <1>2, <2>2, <3>1, <3>2, <3>3, Appended DEF Update
  <2>3. CASE conn # "open" /\ events' = events /\ faults' = faults
    <3>1. ASSUME NEW i \in 1 .. Len(events)
          PROVE  Bounded(events[i])'
      <4>1. events[i] \in Events /\ Bounded(events[i])
        BY ElementOfSeq DEF TypeOK, QueueInv
      <4> QED
        BY <1>1, <2>3, <4>1, EventKinds DEF Bounded, Versions
    <3> QED
      BY <1>2, <2>3, <3>1 DEF QueueInv, TypeOK, Update, Within
  <2> QED
    BY <2>0, <2>1, <2>2, <2>3 DEF Update, Sent
<1>4. TypeOK'
  BY <1>1, <1>2, <1>3 DEF TypeOK, hasInfiniteCache, Update
<1> QED
  BY <1>2, <1>3, <1>4 DEF ReadyMeansSettled, Update

\* An event besides the updates is no put.
LEMMA ExtraEventStep ==
    ASSUME Inv, NEW e \in Events, e.type # "put", Bounded(e),
           conn = "open", Fault, events' = Append(events, e),
           UNCHANGED <<storeType, service, conn, contents, dbUp, available, poller,
                       storeStatusCh, state, isInitialized, ready, pc, closing, regressed>>
    PROVE  Inv' /\ StoreStep
<1> USE DEF Inv
<1>1. StoreInv' /\ StoreStep
  BY StoreKept
<1>2. Bounded(e)' /\ \A k \in Keys : service[k] <= service'[k]
  BY DEF Bounded, TypeOK, Versions
<1>3. events' \in Seq(Events) /\ QueueInv'
  BY <1>2, Appended DEF TypeOK
<1>4. faults' \in 0 .. MaxFaults
  BY BoundsAssumption DEF TypeOK, Fault
<1>5. TypeOK'
  BY <1>3, <1>4 DEF TypeOK, hasInfiniteCache
<1> QED
  BY <1>1, <1>3, <1>5 DEF ReadyMeansSettled

\* A repeated patch is one such event,
LEMMA RepeatPatchStep ==
    ASSUME Inv, NEW k \in Keys, NEW v \in Versions, RepeatPatch(k, v)
    PROVE  Inv' /\ StoreStep
<1> DEFINE e == [type |-> "patch", key |-> k, ver |-> v]
<1>1. e \in Events /\ e.type # "put"
  BY EventTypes
<1>2. Bounded(e)
  BY DEF Bounded, RepeatPatch
<1>3. events' = Append(events, e)
  BY DEF RepeatPatch
<1> HIDE DEF e
<1> QED
  BY <1>1, <1>2, <1>3, ExtraEventStep DEF RepeatPatch

\* and so is one that the SDK does not know.
LEMMA SendUnknownStep ==
    ASSUME Inv, SendUnknown
    PROVE  Inv' /\ StoreStep
<1> DEFINE e == [type |-> "ignored"]
<1>1. e \in Events /\ e.type # "put"
  BY EventTypes
<1>2. Bounded(e)
  BY DEF Bounded
<1>3. events' = Append(events, e)
  BY DEF SendUnknown
<1> HIDE DEF e
<1> QED
  BY <1>1, <1>2, <1>3, ExtraEventStep DEF SendUnknown

\* A new connection begins with all of the service's data.
LEMMA ConnectStep ==
    ASSUME Inv, Connect
    PROVE  Inv' /\ StoreStep
<1> USE DEF Inv
<1>1. StoreInv' /\ StoreStep
  BY StoreKept DEF Connect
<1>2. /\ events' \in Seq(Events) /\ QueueInv'
      /\ faults' \in 0 .. MaxFaults
  <2>1. events = <<>> /\ conn' = "open"
    BY DEF Connect, QueueInv
  <2>2. CASE events' = Append(events, [type |-> "put", data |-> service]) /\ faults' = faults
    <3>1. events' = <<[type |-> "put", data |-> service]>>
      BY <2>1, <2>2
    <3> QED
      BY <2>1, <2>2, <3>1, Connected DEF TypeOK, Connect
  <2>3. CASE events' = Append(events, [type |-> "malformed"]) /\ Fault
    <3>1. events' = <<[type |-> "malformed"]>>
      BY <2>1, <2>3
    <3>2. faults' \in 0 .. MaxFaults
      BY <2>3, BoundsAssumption DEF TypeOK, Fault
    <3> QED
      BY <2>1, <3>1, <3>2, Connected DEF Connect
  <2> QED
    BY <2>2, <2>3 DEF Connect, Sent
<1>3. TypeOK'
  BY <1>2 DEF TypeOK, hasInfiniteCache, Connect
<1> QED
  BY <1>1, <1>2, <1>3 DEF ReadyMeansSettled, Connect

\* Losing the connection, for now or for good
LEMMA ErrorStep ==
    ASSUME Inv, RecoverableError \/ UnrecoverableError
    PROVE  Inv' /\ StoreStep
<1> USE DEF Inv
<1>1. StoreInv' /\ StoreStep
  BY StoreKept DEF RecoverableError, UnrecoverableError
<1>2. state' \in States
  BY StatusType DEF RecoverableError, UnrecoverableError, States
<1>3. CASE RecoverableError
  <2>1. events' \in Seq(Events) /\ QueueInv'
    BY <1>3, QueueCleared DEF RecoverableError
  <2>2. faults' \in 0 .. MaxFaults
    BY <1>3, BoundsAssumption DEF TypeOK, Fault, RecoverableError
  <2>3. TypeOK'
    BY <1>2, <1>3, <2>1, <2>2 DEF TypeOK, hasInfiniteCache, RecoverableError
  <2> QED
    BY <1>1, <1>3, <2>1, <2>3 DEF ReadyMeansSettled, RecoverableError
<1>4. CASE UnrecoverableError
  <2>1. events' \in Seq(Events) /\ QueueInv'
    BY <1>4, WithinSame, QueueKept DEF UnrecoverableError
  <2>2. TypeOK'
    BY <1>2, <1>4, <2>1 DEF TypeOK, hasInfiniteCache, UnrecoverableError
  <2> QED
    BY <1>1, <1>4, <2>1, <2>2 DEF ReadyMeansSettled, UnrecoverableError
<1> QED
  BY <1>3, <1>4

\* Events without data
LEMMA DatalessStep ==
    ASSUME Inv, Malformed \/ Ignored
    PROVE  Inv' /\ StoreStep
<1> USE DEF Inv
<1>1. StoreInv' /\ StoreStep
  BY StoreKept DEF Malformed, Ignored
<1>2. events' \in Seq(Events) /\ QueueInv'
  BY Received DEF Malformed, Ignored, Receive
<1>3. state' \in States
  BY StatusType DEF Malformed, Ignored, States, TypeOK
<1>4. TypeOK'
  BY <1>2, <1>3 DEF TypeOK, hasInfiniteCache, Malformed, Ignored
<1> QED
  BY <1>1, <1>2, <1>4 DEF ReadyMeansSettled, Malformed, Ignored

\* Restarting the stream, after an event or a notification
LEMMA RestartStep ==
    ASSUME Inv, Restart \/ StoreStatus
    PROVE  Inv' /\ StoreStep
<1> USE DEF Inv
<1>1. StoreInv' /\ StoreStep
  BY StoreKept DEF Restart, StoreStatus
<1>2. /\ events' \in Seq(Events) /\ QueueInv'
      /\ conn' \in {"connecting", "open", "closed"}
      /\ conn = "closed" => conn' = "closed"
  <2>1. CASE RestartStream
    BY <2>1, QueueRestarted DEF Restart, StoreStatus
  <2>2. CASE UNCHANGED <<conn, events>>
    BY <2>2, WithinSame, QueueKept DEF Restart, StoreStatus, TypeOK
  <2> QED
    BY <2>1, <2>2 DEF Restart, StoreStatus
<1>3. storeStatusCh' \in Seq(BOOLEAN)
  BY HeadTailProperties DEF Restart, StoreStatus, TypeOK
<1>4. /\ isInitialized' \in BOOLEAN /\ ready' \in BOOLEAN
      /\ \/ isInitialized' = TRUE
         \/ isInitialized' = isInitialized /\ ready' = ready
  BY DEF Restart, StoreStatus, setInitializedAndNotifyClient, TypeOK
<1>5. TypeOK'
  BY <1>2, <1>3, <1>4 DEF TypeOK, hasInfiniteCache, Restart, StoreStatus
<1>6. ReadyMeansSettled'
  <2>1. CASE isInitialized' = TRUE
    BY <2>1 DEF ReadyMeansSettled
  <2>2. CASE isInitialized' = isInitialized /\ ready' = ready
    BY <1>2, <2>2 DEF ReadyMeansSettled
  <2> QED
    BY <1>4, <2>1, <2>2
<1> QED
  BY <1>1, <1>2, <1>5, <1>6

\* Halt closes the stream.
LEMMA HaltStep ==
    ASSUME Inv, Halt
    PROVE  Inv' /\ StoreStep
<1> USE DEF Inv
<1>1. StoreInv' /\ StoreStep
  BY StoreKept DEF Halt
<1>2. events' \in Seq(Events) /\ QueueInv'
  BY QueueCleared DEF Halt
<1>3. TypeOK'
  BY <1>2 DEF TypeOK, hasInfiniteCache, Halt
<1> QED
  BY <1>1, <1>2, <1>3 DEF ReadyMeansSettled, Halt

\* Everything else leaves the service, the connection, the queue and the store alone
LEMMA QuietStep ==
    ASSUME Inv, UNCHANGED <<storeType, service, conn, events, contents, snapshot>>,
           polling' \in {polling, "wait"},
           available' \in BOOLEAN, storeStatusCh' \in Seq(BOOLEAN), dbUp' \in BOOLEAN,
           state' \in States,
           pc' \in {"subscribe", "select", "failed", "notify", "valid", "restart", "done"},
           closing' \in {"no", "halted", "removed", "closed"},
           faults' \in 0 .. MaxFaults, regressed' \in BOOLEAN,
           \/ UNCHANGED <<isInitialized, ready>>
           \/ setInitializedAndNotifyClient
    PROVE  Inv' /\ StoreStep
<1> USE DEF Inv
<1>1. StoreInv' /\ StoreStep
  BY StoreKept
<1>2. events' \in Seq(Events) /\ QueueInv'
  BY WithinSame, QueueKept
<1>3. isInitialized' \in BOOLEAN /\ ready' \in BOOLEAN /\ ReadyMeansSettled'
  <2>1. CASE setInitializedAndNotifyClient
    BY <2>1 DEF ReadyMeansSettled, setInitializedAndNotifyClient
  <2>2. CASE UNCHANGED <<isInitialized, ready>>
    BY <2>2 DEF ReadyMeansSettled, TypeOK
  <2> QED
    BY <2>1, <2>2
<1>4. TypeOK'
  BY <1>2, <1>3 DEF TypeOK, hasInfiniteCache
<1> QED
  BY <1>1, <1>2, <1>3, <1>4

\* The cached collection is filled from the database, read by the poller and
\* written back; nothing that is held gets newer by it.
LEMMA WriteBackStep ==
    ASSUME Inv, ReadAll \/ PollTick \/ PollWrite
    PROVE  Inv' /\ StoreStep
<1> USE DEF Inv
<1>1. /\ UNCHANGED <<storeType, service, conn, events, items, dbUp, available, storeStatusCh, state,
                      isInitialized, ready, pc, closing, faults, regressed>>
      /\ polling' \in {"wait", "write", "signal"}
  BY DEF ReadAll, PollTick, PollWrite, TypeOK
<1>2. /\ Empty \in [Keys -> Versions] /\ \A k \in Keys : Empty[k] = 0
      /\ \A b \in [Keys -> Versions] : \A k \in Keys : 0 <= b[k]
  BY BoundsAssumption DEF Empty, Versions
<1>3. /\ database' \in {database, snapshot} /\ cachedAll' \in {cachedAll, database}
      /\ snapshot' \in [Keys -> Versions] /\ snapshot' \in {snapshot, cachedAll, Empty}
      /\ hasInfiniteCache \/ (cachedAll' = cachedAll /\ database' = database /\ polling' # "write")
  BY <1>2 DEF ReadAll, PollTick, PollWrite, TypeOK
<1>4. WithinKept
  <2> SUFFICES ASSUME NEW b \in [Keys -> Versions], Within(b) PROVE Within(b)'
    BY DEF WithinKept
  <2>1. \A k \in Keys : /\ database[k] <= b[k] /\ items[k] <= b[k]
                        /\ cachedAll[k] <= b[k] /\ snapshot[k] <= b[k] /\ Empty[k] <= b[k]
    BY <1>2 DEF Within
  <2> QED
    BY <1>1, <1>3, <2>1 DEF Within
<1>5. events' \in Seq(Events) /\ QueueInv'
  BY <1>1, <1>4, QueueKept
<1>6. TypeOK'
  <2>1. hasInfiniteCache' <=> hasInfiniteCache
    BY <1>1 DEF hasInfiniteCache
  <2> QED
    BY <1>1, <1>3, <2>1 DEF TypeOK
<1>7. StoreInv'
  <2>1. Within(service)'
    BY <1>1, <1>4 DEF StoreInv, WithinKept, TypeOK, Within
  <2> QED
    BY <2>1 DEF StoreInv
<1>8. StoreStep
  <2>1. /\ \A k \in Keys : store[k] = IF items[k] = Absent THEN database[k] ELSE items[k]
        /\ \A k \in Keys : store'[k] = IF items[k] = Absent THEN database'[k] ELSE items[k]
    BY <1>1 DEF store
  <2>2. \A k \in Keys : items[k] # Absent => store'[k] = store[k]
    BY <2>1
  <2>3. \A k \in Keys : /\ store'[k] <= service[k] /\ store[k] \in Int
    BY <1>1, <1>3, <1>7, <2>1, HeldTypes DEF StoreInv, Within
  <2>4. CASE hasInfiniteCache
    BY <1>1, <2>2, <2>3, <2>4 DEF StoreStep
  <2>5. CASE ~hasInfiniteCache
    <3>1. \A k \in Keys : store'[k] = store[k]
      BY <1>3, <2>1, <2>5
    <3> QED
      BY <1>1, <2>3, <3>1 DEF StoreStep
  <2> QED
    BY <2>4, <2>5
<1> QED
  BY <1>1, <1>5, <1>6, <1>7, <1>8 DEF ReadyMeansSettled

\* An infinite cache takes an item from the database: evaluations read what they did.
LEMMA ReadResult ==
    ASSUME TypeOK, NEW k \in Keys, ReadItem(k)
    PROVE  /\ items' \in [Keys -> Versions \cup {Absent}]
           /\ \A i \in Keys : items'[i] \in {items[i], database[i]} /\ store'[i] = store[i]
           /\ \A i \in Keys : items'[i] = Absent => items[i] = Absent
<1>1. /\ items \in [Keys -> Versions \cup {Absent}] /\ database \in [Keys -> Versions]
      /\ items' = [items EXCEPT ![k] = database[k]] /\ database' = database /\ items[k] = Absent
  BY DEF TypeOK, ReadItem
<1>2. /\ items' \in [Keys -> Versions \cup {Absent}] /\ items'[k] = database[k]
      /\ \A i \in Keys : i # k => items'[i] = items[i]
  BY <1>1
<1>3. /\ \A i \in Keys : store[i] = IF items[i] = Absent THEN database[i] ELSE items[i]
      /\ \A i \in Keys : store'[i] = IF items'[i] = Absent THEN database'[i] ELSE items'[i]
  BY DEF store
<1> QED
  BY <1>1, <1>2, <1>3

LEMMA ReadStep ==
    ASSUME Inv, NEW k \in Keys, ReadItem(k)
    PROVE  Inv' /\ StoreStep
<1> USE DEF Inv
<1>1. /\ UNCHANGED <<storeType, service, conn, events, database, cachedAll, dbUp, available, poller,
                      storeStatusCh, state, isInitialized, ready, pc, closing, faults, regressed>>
      /\ hasInfiniteCache
  BY DEF ReadItem
<1>2. /\ items' \in [Keys -> Versions \cup {Absent}]
      /\ \A i \in Keys : items'[i] \in {items[i], database[i]} /\ store'[i] = store[i]
  BY ReadResult
<1>3. WithinKept
  BY <1>1, <1>2 DEF WithinKept, Within
<1>4. events' \in Seq(Events) /\ QueueInv'
  BY <1>1, <1>3, QueueKept
<1>5. TypeOK'
  BY <1>1, <1>2 DEF TypeOK, hasInfiniteCache
<1>6. StoreInv'
  BY <1>1, <1>2 DEF StoreInv, Within
<1>7. StoreStep
  <2>1. \A i \in Keys : store[i] \in Int /\ store[i] <= service[i]
    BY HeldTypes DEF StoreInv, Within
  <2> QED
    BY <1>1, <1>2, <2>1 DEF StoreStep
<1> QED
  BY <1>1, <1>4, <1>5, <1>6, <1>7 DEF ReadyMeansSettled

\* Every step preserves the invariant and does what StoreNeverGoesBack allows.
LEMMA StepInv ==
    ASSUME Inv, [Next]_vars
    PROVE  Inv' /\ StoreStep
<1> USE DEF Inv
<1>1. ASSUME NEW k \in Keys, Update(k) PROVE Inv' /\ StoreStep
  BY <1>1, UpdateStep
<1>2. ASSUME NEW k \in Keys, NEW v \in Versions, RepeatPatch(k, v) PROVE Inv' /\ StoreStep
  BY <1>2, RepeatPatchStep
<1>3. CASE SendUnknown
  BY <1>3, SendUnknownStep
<1>4. CASE Connect
  BY <1>4, ConnectStep
<1>5. CASE RecoverableError \/ UnrecoverableError
  BY <1>5, ErrorStep
<1>6. CASE Put
  BY <1>6, PutStep
<1>7. CASE Patch
  BY <1>7, PatchStep
<1>8. CASE Malformed \/ Ignored
  BY <1>8, DatalessStep
<1>9. CASE Restart \/ StoreStatus
  BY <1>9, RestartStep
<1>10. CASE Halt
  BY <1>10, HaltStep
<1>11. CASE DatabaseFails \/ DatabaseRecovers
  <2>1. faults' \in 0 .. MaxFaults
    BY <1>11, BoundsAssumption DEF DatabaseFails, DatabaseRecovers, Fault, TypeOK
  <2>2. dbUp' \in BOOLEAN
    BY <1>11 DEF DatabaseFails, DatabaseRecovers
  <2> QED
    BY <1>11, <2>1, <2>2, QuietStep DEF DatabaseFails, DatabaseRecovers, TypeOK
<1>12. CASE ReadFails \/ PollSignal
  <2>1. available' \in BOOLEAN /\ storeStatusCh' \in Seq(BOOLEAN)
    BY <1>12, AvailabilityType DEF ReadFails, PollSignal
  <2> QED
    BY <1>12, <2>1, QuietStep DEF ReadFails, PollSignal, TypeOK
<1>17. CASE ReadAll \/ PollTick \/ PollWrite
  BY <1>17, WriteBackStep
<1>18. ASSUME NEW k \in Keys, ReadItem(k) PROVE Inv' /\ StoreStep
  BY <1>18, ReadStep
<1>13. CASE StoreUpdateFailed \/ Processed \/ CloseOff
  <2>1. state' \in States
    BY <1>13, StatusType DEF StoreUpdateFailed, Processed, CloseOff, States
  <2> QED
    BY <1>13, <2>1, QuietStep DEF StoreUpdateFailed, Processed, CloseOff, TypeOK
<1>14. CASE PutStored
  BY <1>14, QuietStep DEF PutStored, TypeOK
<1>15. CASE EventsClosed \/ Close \/ CloseRemove
  BY <1>15, QuietStep DEF EventsClosed, Close, CloseRemove, TypeOK
<1>16. CASE UNCHANGED vars
  BY <1>16, QuietStep DEF vars, TypeOK
<1> QED
  BY <1>1, <1>2, <1>3, <1>4, <1>5, <1>6, <1>7, <1>8, <1>9, <1>10, <1>11, <1>12, <1>13,
     <1>14, <1>15, <1>16, <1>17, <1>18 DEF Next, ConsumeStream, Environment, Poll

\* The invariant holds.
LEMMA InvHolds == Spec => []Inv
<1>1. Inv /\ [Next]_vars => Inv'
  BY StepInv
<1> QED
  BY InitInv, <1>1, PTL DEF Spec

\* Every variable keeps its type, whatever the events, errors, outages and calls
\* of Close.
THEOREM TypeCorrect == Spec => []TypeOK
<1>1. Inv => TypeOK
  BY DEF Inv
<1> QED
  BY InvHolds, <1>1, PTL

\* The client is told to stop waiting (closeWhenReady) only once the data source
\* is initialized or has failed for good, whichever goroutine tells it.
THEOREM ClientWaitsForAResult == Spec => []ReadyMeansSettled
<1>1. Inv => ReadyMeansSettled
  BY DEF Inv
<1> QED
  BY InvHolds, <1>1, PTL

\* For any number of items, versions and faults the store holds nothing that the
\* service never had, and no reconnection, restart or repeated patch takes an item
\* that evaluations read back to an older version, unless an infinite cache gets an
\* older patch while its database is down or lags, or has an empty collection written
\* back before its first put.
THEOREM StoreMovesForward == Spec => StoreNeverGoesBack
<1>1. Inv /\ [Next]_vars =>
          [\A k \in Keys :
              /\ store'[k] <= service'[k]
              /\ store'[k] < store[k] =>
                    /\ hasInfiniteCache
                    /\ \/ items[k] = Absent
                       \/ /\ events # <<>>
                          /\ Head(events).type = "patch" /\ Head(events).ver < store[k]
                          /\ ~dbUp \/ database[k] < store[k]]_vars
  BY StepInv DEF StoreStep
<1> QED
  BY InvHolds, <1>1, PTL DEF Spec, StoreNeverGoesBack

-----------------------------------------------------------------------------
(***************************************************************************)
(* Lost updates.  Unless the service is about to send everything again, or *)
(* an infinite cache has gone back, every item is current in the store or  *)
(* its current version is queued.  An infinite cache takes what a failing  *)
(* database does not, so it needs no refresh; a put that is still queued,  *)
(* with what follows it, makes everything current by itself, and only      *)
(* before the first put do evaluations read the database behind such a     *)
(* cache, which the poller's write-back may change.                        *)
(***************************************************************************)
Garbled == \E i \in 1 .. Len(events) : events[i].type = "malformed"
Notified == \E i \in 1 .. Len(storeStatusCh) : storeStatusCh[i] = TRUE
Pending == Monitoring /\ (available = FALSE \/ Notified)
Refetching ==
    \/ conn # "open" \/ closing # "no" \/ Garbled \/ pc = "restart"
    \/ NeedsRefresh /\ (pc = "failed" \/ Pending)
Brings(e, k, v) == Touches(e, k) /\ EventVersion(e, k) = v
Queued(k) == \E i \in 1 .. Len(events) : Brings(events[i], k, service[k])
Current(k) == store[k] = service[k] \/ Queued(k)

CurrentInv == Refetching \/ regressed = TRUE \/ \A k \in Keys : Current(k)
PutInv == conn = "open" /\ ~Garbled /\ events # <<>> /\ events[1].type = "put" =>
              \A k \in Keys : Queued(k)
FailedInv == pc = "failed" /\ Monitoring /\ closing = "no" => Pending
FirstInv == hasInfiniteCache /\ ~Refetching /\ (\E k \in Keys : items[k] = Absent) =>
                events # <<>> /\ events[1].type = "put"
LossInv == CurrentInv /\ PutInv /\ FailedInv /\ FirstInv

\* What was queued stays queued when the service adds an event.
LEMMA StaysQueued ==
    ASSUME TypeOK, NEW e, e \in Events, events' = Append(events, e)
    PROVE  /\ Garbled => Garbled'
           /\ e.type = "malformed" => Garbled'
           /\ \A k \in Keys : service'[k] = service[k] /\ Queued(k) => Queued(k)'
           /\ \A k \in Keys : Brings(e, k, service'[k]) => Queued(k)'
           /\ events # <<>> => events'[1] = events[1] /\ events' # <<>>
<1>1. /\ Len(events) \in Nat /\ Len(events') = Len(events) + 1
      /\ \A i \in 1 .. Len(events) : events'[i] = events[i]
      /\ events'[Len(events) + 1] = e
  BY AppendProperties DEF TypeOK
<1>2. /\ \A i \in 1 .. Len(events) : i \in 1 .. Len(events')
      /\ Len(events) + 1 \in 1 .. Len(events')
  BY <1>1
<1>3. (events # <<>> => 1 \in 1 .. Len(events)) /\ events' # <<>>
  BY <1>1 DEF TypeOK
<1> QED
  BY <1>1, <1>2, <1>3 DEF Garbled, Queued

\* An event that is received is no longer queued; the others are.
LEMMA LeavesQueue ==
    ASSUME TypeOK, events # <<>>, events' = Tail(events), service' = service
    PROVE  /\ Garbled => Garbled' \/ events[1].type = "malformed"
           /\ \A k \in Keys : Queued(k) => Queued(k)' \/ Brings(events[1], k, service[k])
<1>1. /\ Len(events) \in Nat \ {0} /\ Len(events') = Len(events) - 1
      /\ \A i \in 1 .. Len(events') : events'[i] = events[i + 1]
  BY HeadTailProperties DEF TypeOK
<1>2. ASSUME NEW i \in 1 .. Len(events)
      PROVE  i = 1 \/ \E j \in 1 .. Len(events') : events'[j] = events[i]
  <2>1. i # 1 => i - 1 \in 1 .. Len(events') /\ i - 1 + 1 = i
    BY <1>1
  <2> QED
    BY <1>1, <2>1
<1>3. ASSUME Garbled PROVE Garbled' \/ events[1].type = "malformed"
  <2>1. PICK i \in 1 .. Len(events) : events[i].type = "malformed"
    BY <1>3 DEF Garbled
  <2> QED
    BY <1>2, <2>1 DEF Garbled
<1>4. ASSUME NEW k \in Keys, Queued(k)
      PROVE  Queued(k)' \/ Brings(events[1], k, service[k])
  <2>1. PICK i \in 1 .. Len(events) : Brings(events[i], k, service[k])
    BY <1>4 DEF Queued
  <2> QED
    BY <1>2, <2>1 DEF Queued
<1> QED
  BY <1>3, <1>4

\* The status of the store is still to be received until it is received.
LEMMA Announced ==
    ASSUME TypeOK, NEW up \in BOOLEAN, UpdateAvailability(up), closing' = closing,
           storeType' = storeType
    PROVE  /\ Monitoring /\ up = FALSE => Pending'
           /\ Pending /\ closing = "no" => Pending'
<1>1. storeStatusCh \in Seq(BOOLEAN) /\ available \in BOOLEAN
  BY DEF TypeOK
<1>2. CASE Monitoring
  <2>1. available' = up /\ Monitoring'
    BY <1>2 DEF UpdateAvailability, Monitoring
  <2>2. CASE up = FALSE
    BY <2>1, <2>2 DEF Pending
  <2>3. ASSUME up = TRUE, Pending, closing = "no" PROVE Notified'
    <3>1. CASE available = FALSE
      <4>1. storeStatusCh' = Append(storeStatusCh, TRUE)
        BY <2>1, <2>3, <3>1 DEF UpdateAvailability
      <4>2. Len(storeStatusCh) + 1 \in 1 .. Len(storeStatusCh')
            /\ storeStatusCh'[Len(storeStatusCh) + 1] = TRUE
        BY <1>1, <4>1, AppendProperties
      <4> QED
        BY <4>2 DEF Notified
    <3>2. CASE available # FALSE
      <4>1. storeStatusCh' = storeStatusCh
        BY <1>1, <2>1, <2>3, <3>2 DEF UpdateAvailability
      <4> QED
        BY <2>3, <3>2, <4>1 DEF Pending, Notified
    <3> QED
      BY <3>1, <3>2
  <2> QED
    BY <2>1, <2>2, <2>3 DEF Pending
<1>3. CASE ~Monitoring
  BY <1>3 DEF Pending
<1> QED
  BY <1>2, <1>3

\* Steps that leave the queue, the service and the cached items alone and stop no
\* refetching
LEMMA LossKept ==
    ASSUME LossInv, UNCHANGED <<storeType, service, items, events, regressed>>,
           hasInfiniteCache \/ database' = database,
           conn' = "open" => conn = "open", Refetching => Refetching', FailedInv'
    PROVE  LossInv'
<1>1. (Garbled' <=> Garbled) /\ \A k \in Keys : Queued(k)' <=> Queued(k)
  BY DEF Garbled, Queued
<1>2. CurrentInv'
  <2> SUFFICES ASSUME ~Refetching, regressed # TRUE PROVE \A k \in Keys : Current(k)'
    BY DEF CurrentInv
  <2>1. \A k \in Keys : Current(k)
    BY DEF LossInv, CurrentInv
  <2>2. \A k \in Keys : items[k] # Absent => store'[k] = store[k]
    BY DEF store
  <2>3. CASE \A k \in Keys : store'[k] = store[k]
    BY <1>1, <2>1, <2>3 DEF Current
  <2>4. CASE hasInfiniteCache /\ \E k \in Keys : items[k] = Absent
    <3>1. events # <<>> /\ events[1].type = "put" /\ conn = "open" /\ ~Garbled
      BY <2>4 DEF LossInv, FirstInv, Refetching
    <3>2. \A k \in Keys : Queued(k)
      BY <3>1 DEF LossInv, PutInv
    <3> QED
      BY <1>1, <3>2 DEF Current
  <2>5. CASE ~hasInfiniteCache
    <3>1. store' = store
      BY <2>5 DEF store
    <3> QED
      BY <2>3, <3>1
  <2> QED
    BY <2>2, <2>3, <2>4, <2>5
<1>3. PutInv'
  BY <1>1 DEF LossInv, PutInv
<1>4. FirstInv'
  BY DEF LossInv, FirstInv, hasInfiniteCache
<1> QED
  BY <1>2, <1>3, <1>4 DEF LossInv

\* A connection that is not open brings everything again, or is closed for good.
LEMMA LossDropped ==
    ASSUME conn' # "open", FailedInv'
    PROVE  LossInv'
BY DEF LossInv, CurrentInv, PutInv, FirstInv, Refetching

\* The service adds an event, which stands for whatever it has changed.
LEMMA LossAppended ==
    ASSUME TypeOK, LossInv, NEW e \in Events, e.type # "put", events' = Append(events, e),
           UNCHANGED <<storeType, conn, contents, available, storeStatusCh, pc, closing, regressed>>,
           \/ e.type = "malformed"
           \/ \A k \in Keys : service'[k] = service[k] \/ Brings(e, k, service'[k])
    PROVE  LossInv'
<1>1. /\ Garbled => Garbled'
      /\ e.type = "malformed" => Garbled'
      /\ \A k \in Keys : service'[k] = service[k] /\ Queued(k) => Queued(k)'
      /\ \A k \in Keys : Brings(e, k, service'[k]) => Queued(k)'
      /\ events # <<>> => events'[1] = events[1] /\ events' # <<>>
  BY StaysQueued
<1>6. store' = store
  BY DEF store
<1>2. FailedInv'
  BY DEF LossInv, FailedInv, Pending, Monitoring, Notified
<1>3. Refetching => Refetching'
  BY <1>1 DEF Refetching, Pending, Monitoring, NeedsRefresh, hasInfiniteCache, Notified
<1>7. FirstInv'
  BY <1>1, <1>3 DEF LossInv, FirstInv, hasInfiniteCache
<1>4. CASE e.type = "malformed"
  BY <1>1, <1>2, <1>4, <1>7 DEF LossInv, CurrentInv, PutInv, Refetching
<1>5. CASE \A k \in Keys : service'[k] = service[k] \/ Brings(e, k, service'[k])
  <2>1. \A k \in Keys : Queued(k) => Queued(k)'
    BY <1>1, <1>5
  <2>2. \A k \in Keys : Current(k) => Current(k)'
    BY <1>1, <1>5, <1>6, <2>1 DEF Current
  <2>3. CurrentInv'
    BY <1>3, <2>2 DEF LossInv, CurrentInv
  <2>4. events = <<>> => events'[1] = e
    OBVIOUS
  <2>5. PutInv'
    BY <1>1, <2>1, <2>4 DEF LossInv, PutInv
  <2> QED
    BY <1>2, <1>7, <2>3, <2>5 DEF LossInv
<1> QED
  BY <1>4, <1>5

\* The service's steps lose nothing without a trace.
LEMMA ServiceLoss ==
    ASSUME TypeOK, LossInv,
           \/ \E k \in Keys : Update(k)
           \/ \E k \in Keys, v \in Versions : RepeatPatch(k, v)
           \/ SendUnknown
    PROVE  LossInv'
<1> DEFINE bad == [type |-> "malformed"]
           odd == [type |-> "ignored"]
           patch(k, v) == [type |-> "patch", key |-> k, ver |-> v]
<1>0. /\ bad \in Events /\ bad.type = "malformed" /\ odd \in Events /\ odd.type = "ignored"
      /\ \A k \in Keys, v \in Versions : patch(k, v) \in Events
      /\ \A k \in Keys, v \in Versions : patch(k, v).type = "patch"
      /\ \A k \in Keys, v \in Versions : Brings(patch(k, v), k, v)
  BY EventTypes DEF Brings, Touches, EventVersion
<1>1. ASSUME NEW k \in Keys, Update(k) PROVE LossInv'
  <2>1. /\ service'[k] = service[k] + 1 /\ service[k] + 1 \in Versions
        /\ \A j \in Keys : j # k => service'[j] = service[j]
    BY <1>1, BoundsAssumption DEF Update, TypeOK, Versions
  <2>2. CASE conn # "open"
    <3>1. FailedInv'
      BY <1>1 DEF Update, LossInv, FailedInv, Pending, Monitoring, Notified
    <3> QED
      BY <1>1, <2>2, <3>1, LossDropped DEF Update
  <2>3. CASE events' = Append(events, patch(k, service[k] + 1))
    <3> DEFINE e == patch(k, service[k] + 1)
    <3>1. e \in Events /\ e.type = "patch" /\ Brings(e, k, service'[k])
      BY <1>0, <2>1
    <3>2. events' = Append(events, e)
      BY <2>3
    <3>3. \A j \in Keys : service'[j] = service[j] \/ Brings(e, j, service'[j])
      BY <2>1, <3>1
    <3> HIDE DEF e
    <3> QED
      BY <1>1, <3>1, <3>2, <3>3, LossAppended DEF Update
  <2>4. CASE events' = Append(events, bad)
    <3> HIDE DEF bad
    <3> QED
      BY <1>0, <1>1, <2>4, LossAppended DEF Update
  <2> QED
    BY <1>1, <2>2, <2>3, <2>4 DEF Update, Sent
<1>2. ASSUME NEW k \in Keys, NEW v \in Versions, RepeatPatch(k, v) PROVE LossInv'
  <2> DEFINE e == patch(k, v)
  <2>1. e \in Events /\ e.type = "patch" /\ events' = Append(events, e)
    BY <1>0, <1>2 DEF RepeatPatch
  <2> HIDE DEF e
  <2> QED
    BY <1>2, <2>1, LossAppended DEF RepeatPatch
<1>3. CASE SendUnknown
  <2>1. events' = Append(events, odd)
    BY <1>3 DEF SendUnknown
  <2> HIDE DEF odd
  <2> QED
    BY <1>0, <1>3, <2>1, LossAppended DEF SendUnknown
<1> QED
  BY <1>1, <1>2, <1>3

\* A new connection brings everything, or a broken event.
LEMMA ConnectLoss ==
    ASSUME TypeOK, QueueInv, LossInv, Connect
    PROVE  LossInv'
<1>1. FailedInv'
  BY DEF Connect, LossInv, FailedInv, Pending, Monitoring, Notified
<1>2. events = <<>> /\ service' = service
  BY DEF Connect, QueueInv
<1>3. CASE events' = Append(events, [type |-> "put", data |-> service])
  <2>1. Len(events') = 1 /\ events'[1] = [type |-> "put", data |-> service]
    BY <1>2, <1>3
  <2>2. \A k \in Keys : Queued(k)'
    BY <1>2, <2>1 DEF Queued, Brings, Touches, EventVersion
  <2>3. FirstInv'
    BY <2>1 DEF FirstInv
  <2> QED
    BY <1>1, <2>2, <2>3 DEF LossInv, CurrentInv, PutInv, Current
<1>4. CASE events' = Append(events, [type |-> "malformed"])
  <2>1. Len(events') = 1 /\ events'[1].type = "malformed"
    BY <1>2, <1>4
  <2>2. Garbled'
    BY <2>1 DEF Garbled
  <2> QED
    BY <1>1, <2>2 DEF LossInv, CurrentInv, PutInv, FirstInv, Refetching
<1> QED
  BY <1>3, <1>4 DEF Connect, Sent

\* An event is received: no put is left in the queue, and it is enough that the items
\* it brings are current afterwards.
LEMMA LossReceived ==
    ASSUME TypeOK, QueueInv, LossInv, events # <<>>, events' = Tail(events),
           UNCHANGED <<storeType, service, conn, closing>>, pc = "select", FailedInv',
           \A k \in Keys : items'[k] = Absent =>
               items[k] = Absent /\ ~(hasInfiniteCache /\ events[1].type = "put"),
           events[1].type = "malformed" => Refetching',
           \/ Refetching' \/ regressed' = TRUE
           \/ /\ events[1].type # "malformed" /\ (Pending => Pending')
              /\ regressed = TRUE => regressed' = TRUE \/ events[1].type = "put"
              /\ \A k \in Keys : store[k] = service[k] => store'[k] = service[k]
              /\ \A k \in Keys : Brings(events[1], k, service[k]) => store'[k] = service[k]
    PROVE  LossInv'
<1>1. /\ Garbled => Garbled' \/ events[1].type = "malformed"
      /\ \A k \in Keys : Queued(k) => Queued(k)' \/ Brings(events[1], k, service[k])
  BY LeavesQueue
<1>2. PutInv'
  <2>1. /\ Len(events) \in Nat \ {0} /\ Len(events') = Len(events) - 1
        /\ \A i \in 1 .. Len(events') : events'[i] = events[i + 1]
        /\ events' # <<>> => Len(events') > 0
    BY HeadTailProperties DEF TypeOK
  <2>2. events' # <<>> => events'[1] = events[2] /\ 2 \in 2 .. Len(events)
    BY <2>1
  <2>3. events' # <<>> => events'[1].type # "put"
    BY <2>2 DEF QueueInv
  <2> QED
    BY <2>3 DEF PutInv
<1>4. FirstInv'
  <2> SUFFICES ASSUME hasInfiniteCache, ~Refetching', NEW k \in Keys, items'[k] = Absent
               PROVE  FALSE
    BY DEF FirstInv, hasInfiniteCache
  <2>1. events[1].type \notin {"put", "malformed"} /\ items[k] = Absent
    OBVIOUS
  <2>2. ~Refetching
    BY <1>1, <2>1 DEF Refetching, NeedsRefresh
  <2> QED
    BY <2>1, <2>2 DEF LossInv, FirstInv
<1>3. CurrentInv'
  <2> SUFFICES ASSUME ~Refetching', regressed' # TRUE
               PROVE  \A k \in Keys : Current(k)'
    BY DEF CurrentInv
  <2>1. /\ events[1].type # "malformed" /\ (Pending => Pending')
        /\ regressed = TRUE => events[1].type = "put"
        /\ \A k \in Keys : store[k] = service[k] => store'[k] = service[k]
        /\ \A k \in Keys : Brings(events[1], k, service[k]) => store'[k] = service[k]
    OBVIOUS
  <2>2. conn = "open" /\ ~Garbled /\ ~Refetching
    BY <1>1, <2>1 DEF Refetching, NeedsRefresh, hasInfiniteCache
  <2>3. \A k \in Keys : Current(k)
    <3>1. CASE events[1].type = "put"
      BY <2>2, <3>1 DEF LossInv, PutInv, Current
    <3>2. CASE events[1].type # "put"
      BY <2>1, <2>2, <3>2 DEF LossInv, CurrentInv
    <3> QED
      BY <3>1, <3>2
  <2> QED
    BY <1>1, <2>1, <2>3 DEF Current
<1> QED
  BY <1>2, <1>3, <1>4 DEF LossInv

\* Events without data: a broken one restarts the stream, another stands for nothing.
LEMMA DatalessLoss ==
    ASSUME TypeOK, QueueInv, LossInv, Malformed \/ Ignored
    PROVE  LossInv'
<1>1. events # <<>> /\ events' = Tail(events) /\ pc = "select" /\ events[1] = Head(events)
  BY DEF Malformed, Ignored, Receive
<1>2. FailedInv'
  BY DEF FailedInv, Malformed, Ignored
<1>5. UNCHANGED contents /\ store' = store
  BY DEF Malformed, Ignored, store
<1>3. CASE Malformed
  <2>1. Refetching'
    BY <1>3 DEF Malformed, Refetching
  <2>2. events[1].type # "put"
    BY <1>1, <1>3 DEF Malformed, Receive
  <2> QED
    BY <1>1, <1>2, <1>3, <1>5, <2>1, <2>2, LossReceived DEF Malformed
<1>4. CASE Ignored
  <2>1. events[1].type = "ignored" /\ (Pending => Pending')
    BY <1>1, <1>4 DEF Ignored, Receive, Pending, Notified, Monitoring
  <2>2. \A k \in Keys : ~Brings(events[1], k, service[k])
    BY <2>1 DEF Brings, Touches
  <2> QED
    BY <1>1, <1>2, <1>4, <1>5, <2>1, <2>2, LossReceived DEF Ignored
<1> QED
  BY <1>3, <1>4

\* A failure of the store will be noticed.
LEMMA AnswerLoss ==
    ASSUME TypeOK, NEW next, next # "failed", Answer(next), closing' = closing,
           storeType' = storeType
    PROVE  /\ pc' \in {next, "failed"} /\ (pc' = "failed" <=> ~dbUp)
           /\ Pending /\ closing = "no" => Pending'
           /\ FailedInv'
<1>1. CASE dbUp
  <2>1. pc' = next /\ (Pending => Pending')
    BY <1>1 DEF Answer, Pending, Notified, Monitoring
  <2> QED
    BY <1>1, <2>1 DEF FailedInv
<1>2. CASE ~dbUp
  <2>1. UpdateAvailability(FALSE) /\ pc' = "failed"
    BY <1>2 DEF Answer
  <2>2. (Monitoring => Pending') /\ (Pending /\ closing = "no" => Pending')
    BY <2>1, Announced
  <2>3. FailedInv'
    BY <2>2 DEF FailedInv, Monitoring
  <2> QED
    BY <1>2, <2>1, <2>2, <2>3
<1> QED
  BY <1>1, <1>2

\* A put is no older than what is held, and no newer than the service.
LEMMA PutLoss ==
    ASSUME TypeOK, QueueInv, StoreInv, LossInv, Put
    PROVE  LossInv'
<1>1. PICK d \in [Keys -> Versions] :
          /\ Receive([type |-> "put", data |-> d])
          /\ StoreInit(d)
  BY DEF Put
<1>2. /\ events # <<>> /\ events' = Tail(events) /\ pc = "select"
      /\ events[1].type = "put" /\ events[1].data = d
  BY <1>1 DEF Receive
<1>3. UNCHANGED <<storeType, service, conn, closing>> /\ Answer("notify")
  BY DEF Put
<1>4. /\ pc' \in {"notify", "failed"} /\ (pc' = "failed" <=> ~dbUp)
      /\ Pending /\ closing = "no" => Pending'
      /\ FailedInv'
  BY <1>3, AnswerLoss
<1>5. \A k \in Keys : d[k] \in Int /\ d[k] # Absent
  BY DEF Versions, Absent
<1>6. \A k \in Keys : items'[k] = Absent => items[k] = Absent /\ ~hasInfiniteCache
  BY <1>1, <1>5 DEF StoreInit
<1>7. hasInfiniteCache \/ dbUp => \A k \in Keys : store'[k] = d[k]
  <2>1. ~hasInfiniteCache => \A k \in Keys : items[k] = Absent
    BY DEF TypeOK, NothingCached
  <2>2. \A k \in Keys : store'[k] = IF items'[k] = Absent THEN database'[k] ELSE items'[k]
    BY DEF store
  <2> QED
    BY <1>1, <1>5, <2>1, <2>2 DEF StoreInit
<1>8. CASE Refetching'
  BY <1>2, <1>3, <1>4, <1>6, <1>8, LossReceived
<1>9. CASE ~Refetching'
  <2>1. (\A k \in Keys : store'[k] = d[k]) /\ closing = "no"
    BY <1>3, <1>4, <1>7, <1>9 DEF Refetching, NeedsRefresh, hasInfiniteCache
  <2>2. 1 \in 1 .. Len(events)
    BY <1>2 DEF TypeOK
  <2>3. \A k \in Keys : database[k] <= d[k] /\ items[k] <= d[k] /\ d[k] <= service[k]
    BY <1>2, <2>2 DEF QueueInv, Bounded, Within
  <2>4. \A k \in Keys : store[k] = service[k] => store'[k] = service[k]
    BY <1>5, <2>1, <2>3, HeldTypes
  <2>5. \A k \in Keys : Brings(events[1], k, service[k]) => store'[k] = service[k]
    BY <1>2, <2>1 DEF Brings, EventVersion
  <2> QED
    BY <1>2, <1>3, <1>4, <1>6, <2>1, <2>4, <2>5, LossReceived
<1> QED
  BY <1>8, <1>9

\* A patch changes one item, and takes it back only in an infinite cache.
LEMMA PatchLoss ==
    ASSUME TypeOK, QueueInv, StoreInv, LossInv, Patch
    PROVE  LossInv'
<1>1. PICK k \in Keys, v \in Versions :
          /\ Receive([type |-> "patch", key |-> k, ver |-> v])
          /\ UpsertTaken(k, v) \/ UpsertRefused(k, v) \/ UpsertFails(k, v)
          /\ regressed' = (regressed \/ store'[k] < store[k])
  BY DEF Patch
<1>2. /\ events # <<>> /\ events' = Tail(events) /\ pc = "select"
      /\ events[1].type = "patch" /\ events[1].key = k /\ events[1].ver = v
  BY <1>1 DEF Receive
<1>3. UNCHANGED <<storeType, service, poller, conn, closing>> /\ Answer("valid")
  BY DEF Patch
<1>4. v <= service[k]
  <2>1. 1 \in 1 .. Len(events)
    BY <1>2 DEF TypeOK
  <2> QED
    BY <1>2, <2>1 DEF QueueInv, Bounded
<1>5. /\ pc' \in {"valid", "failed"} /\ (pc' = "failed" <=> ~dbUp)
      /\ Pending /\ closing = "no" => Pending'
      /\ FailedInv'
  BY <1>3, AnswerLoss
<1>6. /\ \A i \in Keys : items'[i] = Absent => items[i] = Absent
      /\ \A i \in Keys : i # k => store'[i] = store[i]
      /\ dbUp => store'[k] = IF v > database[k] THEN v ELSE database[k]
      /\ ~dbUp => store'[k] = IF hasInfiniteCache THEN v ELSE store[k]
  BY <1>1, <1>3, <1>4, UpsertResult
<1>7. /\ v \in Int /\ service[k] \in Int /\ store[k] \in Int /\ database[k] \in Int
      /\ database[k] <= service[k] /\ store[k] <= service[k]
  BY HeldTypes DEF StoreInv, Within, Versions
<1>8. CASE Refetching' \/ regressed' = TRUE
  BY <1>2, <1>3, <1>5, <1>6, <1>8, LossReceived
<1>9. CASE ~Refetching' /\ regressed' # TRUE
  <2>1. (dbUp \/ hasInfiniteCache) /\ closing = "no"
    BY <1>3, <1>5, <1>9 DEF Refetching, NeedsRefresh, hasInfiniteCache
  <2>2. ~(store'[k] < store[k]) /\ regressed # TRUE
    BY <1>1, <1>9
  <2>3. store'[k] \in Int /\ store'[k] <= service[k] /\ store[k] <= store'[k]
    BY <1>4, <1>6, <1>7, <2>1, <2>2
  <2>4. ASSUME NEW i \in Keys, store[i] = service[i] PROVE store'[i] = service[i]
    BY <1>6, <1>7, <2>3, <2>4
  <2>5. ASSUME NEW i \in Keys, Brings(events[1], i, service[i]) PROVE store'[i] = service[i]
    <3>1. i = k /\ v = service[k]
      BY <1>2, <2>5 DEF Brings, Touches, EventVersion
    <3> QED
      BY <1>6, <1>7, <2>1, <3>1
  <2> QED
    BY <1>2, <1>3, <1>5, <1>6, <2>1, <2>2, <2>4, <2>5, LossReceived
<1> QED
  BY <1>8, <1>9

\* A restart leaves no open connection.
LEMMA Restarted == ASSUME RestartStream PROVE conn' # "open"
BY DEF RestartStream

\* The notification that the store works again restarts the stream where the store
\* needs it, and nothing else stops a refetch that is pending.
LEMMA StatusLoss ==
    ASSUME TypeOK, LossInv, StoreStatus
    PROVE  LossInv'
<1>1. /\ pc' = "select" /\ storeStatusCh # <<>> /\ storeStatusCh' = Tail(storeStatusCh)
      /\ UNCHANGED <<storeType, service, contents, available, pc, closing, regressed>>
  BY DEF StoreStatus
<1>2. FailedInv'
  BY <1>1 DEF FailedInv
<1>3. CASE Head(storeStatusCh) /\ NeedsRefresh
  BY <1>2, <1>3, Restarted, LossDropped DEF StoreStatus
<1>4. CASE ~(Head(storeStatusCh) /\ NeedsRefresh)
  <2>1. UNCHANGED <<conn, events>>
    BY <1>4 DEF StoreStatus
  <2>2. ASSUME NeedsRefresh, Notified PROVE Notified'
    <3>1. PICK i \in 1 .. Len(storeStatusCh) : storeStatusCh[i] = TRUE
      BY <2>2 DEF Notified
    <3>2. /\ Len(storeStatusCh) \in Nat \ {0} /\ Len(storeStatusCh') = Len(storeStatusCh) - 1
          /\ \A j \in 1 .. Len(storeStatusCh') : storeStatusCh'[j] = storeStatusCh[j + 1]
          /\ Head(storeStatusCh) = storeStatusCh[1]
      BY <1>1, HeadTailProperties DEF TypeOK
    <3>3. i # 1
      BY <1>4, <2>2, <3>1, <3>2
    <3>4. i - 1 \in 1 .. Len(storeStatusCh') /\ i - 1 + 1 = i
      BY <3>2, <3>3
    <3>5. storeStatusCh'[i - 1] = TRUE
      BY <3>1, <3>2, <3>4
    <3> QED
      BY <3>4, <3>5 DEF Notified
  <2>3. Refetching => Refetching'
    BY <1>1, <2>1, <2>2 DEF Refetching, Pending, Garbled, NeedsRefresh, hasInfiniteCache, Monitoring
  <2> QED
    BY <1>1, <1>2, <2>1, <2>3, LossKept
<1> QED
  BY <1>3, <1>4

\* A failed update is refetched by a restart, or once the store works again.
LEMMA FailureLoss ==
    ASSUME TypeOK, LossInv, StoreUpdateFailed
    PROVE  LossInv'
<1>1. /\ UNCHANGED <<storeType, service, conn, events, contents, available, storeStatusCh,
                     closing, regressed>>
      /\ pc = "failed" /\ pc' = IF Monitoring THEN "valid" ELSE "restart"
  BY DEF StoreUpdateFailed
<1>2. FailedInv'
  BY <1>1 DEF FailedInv
<1>3. (Pending => Pending') /\ (Garbled => Garbled')
  BY <1>1 DEF Pending, Monitoring, Notified, Garbled
<1>4. Monitoring /\ closing = "no" => Pending
  BY <1>1 DEF LossInv, FailedInv
<1>5. Refetching => Refetching'
  BY <1>1, <1>3, <1>4 DEF Refetching, NeedsRefresh, hasInfiniteCache
<1> QED
  BY <1>1, <1>2, <1>5, LossKept

\* The status poller finds out what the database does.
LEMMA AvailabilityLoss ==
    ASSUME TypeOK, LossInv, ReadFails \/ PollSignal
    PROVE  LossInv'
<1>1. UNCHANGED <<storeType, service, conn, events, contents, pc, closing, regressed>>
  BY DEF ReadFails, PollSignal
<1>2. Pending /\ closing = "no" => Pending'
  BY <1>1, Announced DEF ReadFails, PollSignal
<1>3. FailedInv'
  BY <1>1, <1>2 DEF LossInv, FailedInv, Monitoring
<1>4. Refetching => Refetching'
  BY <1>1, <1>2 DEF Refetching, NeedsRefresh, hasInfiniteCache, Garbled
<1> QED
  BY <1>1, <1>3, <1>4, LossKept

\* Steps that end no refetching and are no failure
LEMMA CalmLoss ==
    ASSUME LossInv, UNCHANGED <<storeType, service, items, events, regressed, conn, available,
                                storeStatusCh>>,
           hasInfiniteCache \/ database' = database,
           closing # "no" => closing' # "no",
           pc' = pc \/ (pc \notin {"failed", "restart"} /\ pc' \notin {"failed", "restart"})
    PROVE  LossInv'
<1>1. (Pending' <=> Pending) /\ (Garbled' <=> Garbled)
  BY DEF Pending, Monitoring, Notified, Garbled
<1>2. FailedInv'
  BY <1>1 DEF LossInv, FailedInv, Monitoring
<1>3. Refetching => Refetching'
  BY <1>1 DEF Refetching, NeedsRefresh, hasInfiniteCache
<1> QED
  BY <1>2, <1>3, LossKept

LEMMA ReadLoss ==
    ASSUME TypeOK, LossInv, NEW k \in Keys, ReadItem(k)
    PROVE  LossInv'
<1>1. UNCHANGED <<storeType, service, conn, events, available, storeStatusCh, pc, closing, regressed>>
  BY DEF ReadItem
<1>2. \A i \in Keys : store'[i] = store[i] /\ (items'[i] = Absent => items[i] = Absent)
  BY ReadResult
<1>3. (Refetching' <=> Refetching) /\ (Garbled' <=> Garbled) /\ (Pending' <=> Pending)
  BY <1>1 DEF Refetching, Garbled, Pending, Notified, Monitoring, NeedsRefresh, hasInfiniteCache
<1>4. \A i \in Keys : (Queued(i)' <=> Queued(i)) /\ (Current(i)' <=> Current(i))
  BY <1>1, <1>2 DEF Queued, Current
<1>5. CurrentInv' /\ PutInv'
  BY <1>1, <1>3, <1>4 DEF LossInv, CurrentInv, PutInv
<1>6. FailedInv' /\ FirstInv'
  BY <1>1, <1>2, <1>3 DEF LossInv, FailedInv, FirstInv, Monitoring, hasInfiniteCache
<1> QED
  BY <1>5, <1>6 DEF LossInv

\* Losing or closing the connection
LEMMA DisconnectLoss ==
    ASSUME LossInv, RecoverableError \/ UnrecoverableError \/ Halt \/ EventsClosed
    PROVE  LossInv'
<1>1. conn' # "open"
  BY DEF RecoverableError, UnrecoverableError, Halt, EventsClosed
<1>2. /\ pc' \in {pc, "done"}
      /\ UNCHANGED <<storeType, available, storeStatusCh, closing>>
  BY DEF RecoverableError, UnrecoverableError, Halt, EventsClosed
<1>3. FailedInv'
  BY <1>2 DEF LossInv, FailedInv, Pending, Monitoring, Notified
<1> QED
  BY <1>1, <1>3, LossDropped

\* No step loses an update without a trace.
LEMMA LossStep ==
    ASSUME Inv, LossInv, [Next]_vars
    PROVE  LossInv'
<1> USE DEF Inv
<1>1. CASE \/ \E k \in Keys : Update(k)
           \/ \E k \in Keys, v \in Versions : RepeatPatch(k, v)
           \/ SendUnknown
  BY <1>1, ServiceLoss
<1>2. CASE Connect
  BY <1>2, ConnectLoss
<1>3. CASE RecoverableError \/ UnrecoverableError \/ Halt \/ EventsClosed
  BY <1>3, DisconnectLoss
<1>4. CASE Malformed \/ Ignored
  BY <1>4, DatalessLoss
<1>5. CASE Put
  BY <1>5, PutLoss
<1>6. CASE Patch
  BY <1>6, PatchLoss
<1>7. CASE StoreStatus
  BY <1>7, StatusLoss
<1>8. CASE Restart
  <2>1. FailedInv'
    BY <1>8 DEF FailedInv, Restart
  <2> QED
    BY <1>8, <2>1, Restarted, LossDropped DEF Restart
<1>9. CASE StoreUpdateFailed
  BY <1>9, FailureLoss
<1>10. CASE ReadFails \/ PollSignal
  BY <1>10, AvailabilityLoss
<1>11. CASE PutStored \/ Processed
  BY <1>11, CalmLoss DEF PutStored, Processed
<1>12. CASE DatabaseFails \/ DatabaseRecovers
  BY <1>12, CalmLoss DEF DatabaseFails, DatabaseRecovers
<1>13. CASE Close \/ CloseRemove \/ CloseOff
  BY <1>13, CalmLoss DEF Close, CloseRemove, CloseOff
<1>14. CASE UNCHANGED vars
  BY <1>14, CalmLoss DEF vars
<1>15. CASE ReadAll \/ PollTick
  BY <1>15, CalmLoss DEF ReadAll, PollTick
<1>17. ASSUME NEW k \in Keys, ReadItem(k) PROVE LossInv'
  BY <1>17, ReadLoss
<1>16. CASE PollWrite
  <2>1. hasInfiniteCache
    BY <1>16 DEF PollWrite, TypeOK
  <2> QED
    BY <1>16, <2>1, CalmLoss DEF PollWrite
<1> QED
  BY <1>1, <1>2, <1>3, <1>4, <1>5, <1>6, <1>7, <1>8, <1>9, <1>10, <1>11, <1>12, <1>13, <1>14,
     <1>15, <1>16, <1>17 DEF Next, ConsumeStream, Environment, Poll

\* When its current version is in the store or queued, that is what an item will be.
LEMMA CurrentWillBe ==
    ASSUME TypeOK, QueueInv, StoreInv, NEW k \in Keys, Current(k)
    PROVE  WillBe(k) = service[k]
<1> DEFINE touching == {i \in DOMAIN events : Touches(events[i], k)}
           versions == {EventVersion(events[i], k) : i \in touching} \cup {store[k]}
<1>1. DOMAIN events = 1 .. Len(events)
  BY LenProperties DEF TypeOK
<1>2. service[k] \in Int /\ store[k] \in Int /\ store[k] <= service[k]
  BY HeldTypes DEF StoreInv, Within
<1>3. service[k] \in versions
  BY <1>1 DEF Current, Queued, Brings
<1>4. ASSUME NEW i \in touching
      PROVE  EventVersion(events[i], k) \in Int /\ EventVersion(events[i], k) <= service[k]
  <2>1. events[i] \in Events /\ Bounded(events[i]) /\ Touches(events[i], k)
    BY <1>1, ElementOfSeq DEF TypeOK, QueueInv
  <2>2. CASE events[i].type = "put"
    <3>1. events[i].data \in [Keys -> Versions]
      BY <2>1, <2>2, EventKinds
    <3> QED
      BY <2>1, <2>2, <3>1 DEF EventVersion, Bounded, Versions
  <2>3. CASE events[i].type # "put"
    <3>1. events[i].type = "patch" /\ events[i].key = k /\ events[i].ver \in Versions
      BY <2>1, <2>3, EventKinds DEF Touches
    <3> QED
      BY <2>1, <3>1 DEF EventVersion, Bounded, Versions
  <2> QED
    BY <2>2, <2>3
<1>5. \A w \in versions : w \in Int /\ w <= service[k]
  BY <1>2, <1>4
<1>6. WillBe(k) = CHOOSE v \in versions : \A w \in versions : w <= v
  BY DEF WillBe
<1> HIDE DEF versions
<1>7. /\ WillBe(k) \in versions
      /\ \A w \in versions : w <= WillBe(k)
  BY <1>3, <1>5, <1>6
<1> QED
  BY <1>2, <1>3, <1>5, <1>7

\* Whatever the order of updates, broken events, outages and restarts, an update that
\* the store does not have and that is not queued will be sent again: the connection is
\* down, the stream is about to be restarted, or the store's recovery will do it.
THEOREM LossesAreRepaired == Spec => []LostUpdatesAreRefetched
<1>1. Init => LossInv
  BY DEF Init, LossInv, CurrentInv, PutInv, FailedInv, FirstInv, Refetching
<1>2. Inv /\ LossInv /\ [Next]_vars => LossInv'
  BY LossStep
<1>3. ASSUME Inv, LossInv PROVE LostUpdatesAreRefetched
  <2>1. TypeOK /\ QueueInv /\ StoreInv /\ CurrentInv
    BY <1>3 DEF Inv, LossInv
  <2>2. /\ DOMAIN events = 1 .. Len(events)
        /\ DOMAIN storeStatusCh = 1 .. Len(storeStatusCh)
    BY <2>1, LenProperties DEF TypeOK
  <2>3. Garbled => \E i \in DOMAIN events : events[i].type = "malformed"
    BY <2>2 DEF Garbled
  <2>4. Pending => Monitoring /\ (~available \/ \E i \in DOMAIN storeStatusCh : storeStatusCh[i])
    BY <2>2 DEF Pending, Notified
  <2>5. CASE Refetching \/ regressed = TRUE
    BY <2>3, <2>4, <2>5 DEF Refetching, LostUpdatesAreRefetched
  <2>6. CASE \A k \in Keys : Current(k)
    <3>1. \A k \in Keys : WillBe(k) = service[k]
      BY <2>1, <2>6, CurrentWillBe
    <3> QED
      BY <3>1 DEF LostUpdatesAreRefetched
  <2> QED
    BY <2>1, <2>5, <2>6 DEF CurrentInv
<1> QED
  BY InvHolds, <1>1, <1>2, <1>3, PTL DEF Spec

-----------------------------------------------------------------------------
(***************************************************************************)
(* What the SDK says.  Served: the put of the present connection has been  *)
(* received, and no broken event stands for it.  From then on the state is *)
(* Valid, or about to be, or the stream is about to be restarted; and the  *)
(* client has been told, unless the store's recovery is awaited.           *)
(***************************************************************************)
Served == conn = "open" /\ ~Garbled /\ (events # <<>> => events[1].type # "put")
Told == isInitialized = TRUE /\ ready = TRUE
ValidInv ==
    Served /\ closing # "closed" =>
        state = "Valid" \/ pc \in {"failed", "notify", "valid", "restart"}
ToldInv ==
    Served /\ closing = "no" => Told \/ pc \in {"failed", "notify", "restart"} \/ Pending
StreamHasConsumer ==
    /\ pc = "done" => conn = "closed"
    /\ pc = "subscribe" => conn = "connecting"
ServedInv == ValidInv /\ ToldInv /\ StreamHasConsumer

LEMMA InitServed == Init => ServedInv
BY DEF Init, ServedInv, ValidInv, ToldInv, StreamHasConsumer, Served

\* Without an open connection only the goroutine and the connection matter.
LEMMA NotServed ==
    ASSUME ~Served', StreamHasConsumer'
    PROVE  ServedInv'
BY DEF ServedInv, ValidInv, ToldInv

\* Steps that leave what is said alone
LEMMA SayNothing ==
    ASSUME ServedInv, Served' => Served, UNCHANGED <<conn, state, isInitialized, ready, pc>>,
           closing = "closed" => closing' = "closed",
           closing # "no" => closing' # "no",
           Pending /\ closing = "no" => Pending'
    PROVE  ServedInv'
<1>1. StreamHasConsumer' /\ ValidInv'
  BY DEF ServedInv, StreamHasConsumer, ValidInv
<1>2. ToldInv'
  BY DEF ServedInv, ToldInv, Told
<1> QED
  BY <1>1, <1>2 DEF ServedInv

\* The service adds an event behind the put.
LEMMA ServiceServed ==
    ASSUME TypeOK, QueueInv, ServedInv,
           \/ \E k \in Keys : Update(k)
           \/ \E k \in Keys, v \in Versions : RepeatPatch(k, v)
           \/ SendUnknown
    PROVE  ServedInv'
<1>1. /\ UNCHANGED <<conn, state, isInitialized, ready, pc, closing, storeType, available,
                     storeStatusCh>>
  BY DEF Update, RepeatPatch, SendUnknown
<1>2. Pending => Pending'
  BY <1>1 DEF Pending, Monitoring, Notified
<1>3. conn # "open" \/ \E e \in Events : events' = Append(events, e)
  <2>1. CASE \E k \in Keys : Update(k)
    <3>1. PICK k \in Keys : Update(k)
      BY <2>1
    <3>2. service[k] \in Versions /\ service[k] < MaxVersion
      BY <3>1 DEF Update, TypeOK
    <3>3. service[k] + 1 \in Versions
      BY <3>2, BoundsAssumption DEF Versions
    <3> QED
      BY <3>1, <3>3, EventTypes DEF Update, Sent
  <2>2. CASE \E k \in Keys, v \in Versions : RepeatPatch(k, v)
    BY <2>2, EventTypes DEF RepeatPatch
  <2>3. CASE SendUnknown
    BY <2>3, EventTypes DEF SendUnknown
  <2> QED
    BY <2>1, <2>2, <2>3
<1>4. Served' => Served
  <2>1. CASE conn # "open"
    BY <1>1, <2>1 DEF Served
  <2>2. ASSUME NEW e \in Events, events' = Append(events, e)
        PROVE  Served' => Served
    <3>1. (Garbled => Garbled') /\ (events # <<>> => events'[1] = events[1])
      BY <2>2, StaysQueued
    <3>2. events' # <<>>
      BY <2>2 DEF TypeOK
    <3> QED
      BY <1>1, <3>1, <3>2 DEF Served
  <2> QED
    BY <1>3, <2>1, <2>2
<1> QED
  BY <1>1, <1>2, <1>4, SayNothing

\* A new connection begins with its put, or with what is left of it.
LEMMA ConnectServed ==
    ASSUME TypeOK, QueueInv, ServedInv, Connect
    PROVE  ServedInv'
<1>1. events = <<>> /\ conn = "connecting" /\ conn' = "open"
  BY DEF Connect, QueueInv
<1>2. PICK e : events' = Append(events, e) /\ e.type \in {"put", "malformed"}
  BY DEF Connect, Sent
<1>3. events' = <<e>>
  BY <1>1, <1>2
<1>4. Len(events') = 1 /\ events'[1] = e /\ events' # <<>>
  BY <1>3
<1>5. ~Served'
  BY <1>2, <1>4 DEF Served, Garbled
<1>6. StreamHasConsumer'
  BY <1>1 DEF Connect, ServedInv, StreamHasConsumer
<1> QED
  BY <1>5, <1>6, NotServed

\* A connection that is lost, closed or dropped
LEMMA DisconnectServed ==
    ASSUME ServedInv, \/ RecoverableError \/ UnrecoverableError \/ Halt \/ EventsClosed
                      \/ Restart
    PROVE  ServedInv'
<1>1. conn' # "open"
  BY DEF RecoverableError, UnrecoverableError, Halt, EventsClosed, Restart, RestartStream
<1>2. StreamHasConsumer'
  BY DEF RecoverableError, UnrecoverableError, Halt, EventsClosed, Restart, RestartStream,
         ServedInv, StreamHasConsumer
<1> QED
  BY <1>1, <1>2, NotServed DEF Served

\* Receiving an event that is neither a put nor broken
LEMMA ReceiveServed ==
    ASSUME TypeOK, ServedInv, pc = "select", events # <<>>, events' = Tail(events),
           events[1].type \notin {"put", "malformed"},
           UNCHANGED <<service, conn, state, isInitialized, ready, closing>>,
           pc' = "failed" \/ (pc' = "valid" /\ UNCHANGED <<storeType, available, storeStatusCh>>)
    PROVE  ServedInv'
<1>1. Served' => Served
  <2>1. Garbled => Garbled'
    BY LeavesQueue
  <2> QED
    BY <2>1 DEF Served
<1>2. CASE pc' = "failed"
  BY <1>2 DEF ServedInv, ValidInv, ToldInv, StreamHasConsumer
<1>3. CASE pc' = "valid" /\ UNCHANGED <<storeType, available, storeStatusCh>>
  <2>1. Pending => Pending'
    BY <1>3 DEF Pending, Monitoring, Notified
  <2>2. ToldInv'
    BY <1>1, <1>3, <2>1 DEF ServedInv, ToldInv, Told
  <2> QED
    BY <1>3, <2>2 DEF ServedInv, ValidInv, StreamHasConsumer
<1> QED
  BY <1>2, <1>3

LEMMA EventServed ==
    ASSUME TypeOK, ServedInv, Malformed \/ Ignored \/ Put \/ Patch
    PROVE  ServedInv'
<1>0. events \in Seq(Events) /\ (events # <<>> => Head(events) = events[1])
  BY DEF TypeOK
<1>1. CASE Malformed
  BY <1>1 DEF Malformed, ServedInv, ValidInv, ToldInv, StreamHasConsumer
<1>2. CASE Put
  <2>1. pc' \in {"notify", "failed"}
    BY <1>2 DEF Put, Answer
  <2> QED
    BY <2>1 DEF ServedInv, ValidInv, ToldInv, StreamHasConsumer
<1>3. CASE Ignored
  BY <1>0, <1>3, ReceiveServed DEF Ignored, Receive
<1>4. CASE Patch
  <2>1. /\ pc = "select" /\ events # <<>> /\ events' = Tail(events)
        /\ events[1].type = "patch"
        /\ UNCHANGED <<service, conn, state, isInitialized, ready, closing, storeType>>
    BY <1>0, <1>4 DEF Patch, Receive
  <2>2. pc' = "failed" \/ (pc' = "valid" /\ UNCHANGED <<available, storeStatusCh>>)
    BY <1>4 DEF Patch, Answer
  <2> QED
    BY <2>1, <2>2, ReceiveServed
<1> QED
  BY <1>1, <1>2, <1>3, <1>4

\* After an event: its failure, the client is told, the state becomes Valid
LEMMA ProcessServed ==
    ASSUME TypeOK, LossInv, ServedInv, StoreUpdateFailed \/ PutStored \/ Processed
    PROVE  ServedInv'
<1>1. UNCHANGED <<storeType, conn, events, available, storeStatusCh, closing>>
  BY DEF StoreUpdateFailed, PutStored, Processed
<1>2. (Pending' <=> Pending) /\ (Served' <=> Served)
  BY <1>1 DEF Pending, Monitoring, Notified, Served, Garbled
<1>3. CASE StoreUpdateFailed
  <2>1. /\ pc = "failed" /\ pc' \in {"valid", "restart"}
        /\ pc' = "valid" /\ closing = "no" => Pending
    BY <1>3 DEF StoreUpdateFailed, LossInv, FailedInv
  <2> QED
    BY <1>1, <1>2, <2>1 DEF ServedInv, ValidInv, ToldInv, StreamHasConsumer
<1>4. CASE PutStored
  BY <1>4 DEF PutStored, setInitializedAndNotifyClient, ServedInv, ValidInv, ToldInv, Told,
              StreamHasConsumer
<1>5. CASE Processed
  <2>1. /\ pc = "valid" /\ pc' = "select" /\ state' = "Valid" /\ UNCHANGED <<isInitialized, ready>>
    BY <1>5 DEF Processed, UpdateStatus
  <2> QED
    BY <1>1, <1>2, <2>1 DEF ServedInv, ValidInv, ToldInv, Told, StreamHasConsumer
<1> QED
  BY <1>3, <1>4, <1>5

\* A recovery that is awaited and needs no refresh tells the client.
LEMMA StatusServed ==
    ASSUME TypeOK, ServedInv, StoreStatus
    PROVE  ServedInv'
<1>0. /\ pc = "select" /\ pc' = pc /\ UNCHANGED <<storeType, available, state, closing>>
      /\ storeStatusCh # <<>> /\ storeStatusCh' = Tail(storeStatusCh)
      /\ storeStatusCh \in Seq(BOOLEAN)
  BY DEF StoreStatus, TypeOK
<1>1. CASE Head(storeStatusCh) /\ NeedsRefresh
  <2>1. conn' # "open"
    BY <1>1, Restarted DEF StoreStatus
  <2> QED
    BY <1>0, <2>1, NotServed DEF Served, StreamHasConsumer
<1>2. CASE Head(storeStatusCh) /\ ~NeedsRefresh
  <2>1. UNCHANGED <<conn, events>> /\ Told'
    BY <1>2 DEF StoreStatus, setInitializedAndNotifyClient, Told
  <2>2. Served' => Served
    BY <2>1 DEF Served, Garbled
  <2> QED
    BY <1>0, <2>1, <2>2 DEF ServedInv, ValidInv, ToldInv, StreamHasConsumer
<1>3. CASE ~Head(storeStatusCh)
  <2>1. UNCHANGED <<conn, events, isInitialized, ready>>
    BY <1>3 DEF StoreStatus
  <2>2. Served' => Served
    BY <2>1 DEF Served, Garbled
  <2>3. Notified => Notified'
    <3> SUFFICES ASSUME NEW i \in 1 .. Len(storeStatusCh), storeStatusCh[i] = TRUE
                 PROVE  Notified'
      BY DEF Notified
    <3>1. /\ Len(storeStatusCh) \in Nat \ {0} /\ Len(storeStatusCh') = Len(storeStatusCh) - 1
          /\ \A j \in 1 .. Len(storeStatusCh') : storeStatusCh'[j] = storeStatusCh[j + 1]
          /\ Head(storeStatusCh) = storeStatusCh[1]
      BY <1>0, HeadTailProperties
    <3>2. i # 1
      BY <1>3, <3>1
    <3>3. i - 1 \in 1 .. Len(storeStatusCh') /\ i - 1 + 1 = i
      BY <3>1, <3>2
    <3>4. storeStatusCh'[i - 1] = TRUE
      BY <3>1, <3>3
    <3> QED
      BY <3>3, <3>4 DEF Notified
  <2>4. Pending => Pending'
    BY <1>0, <2>3 DEF Pending, Monitoring
  <2> QED
    BY <1>0, <2>1, <2>2, <2>4, SayNothing
<1> QED
  BY <1>1, <1>2, <1>3

LEMMA StepServed ==
    ASSUME Inv, LossInv, ServedInv, [Next]_vars
    PROVE  ServedInv'
<1>0. TypeOK /\ QueueInv
  BY DEF Inv
<1>1. CASE \/ \E k \in Keys : Update(k)
           \/ \E k \in Keys, v \in Versions : RepeatPatch(k, v)
           \/ SendUnknown
  BY <1>0, <1>1, ServiceServed
<1>2. CASE Connect
  BY <1>0, <1>2, ConnectServed
<1>3. CASE RecoverableError \/ UnrecoverableError \/ Halt \/ EventsClosed \/ Restart
  BY <1>3, DisconnectServed
<1>4. CASE Malformed \/ Ignored \/ Put \/ Patch
  BY <1>0, <1>4, EventServed
<1>5. CASE StoreUpdateFailed \/ PutStored \/ Processed
  BY <1>0, <1>5, ProcessServed
<1>6. CASE StoreStatus
  BY <1>0, <1>6, StatusServed
<1>7. CASE ReadFails \/ PollSignal
  <2>1. UNCHANGED <<storeType, conn, events, state, isInitialized, ready, pc, closing>>
    BY <1>7 DEF ReadFails, PollSignal
  <2>2. Pending /\ closing = "no" => Pending'
    BY <1>0, <1>7, <2>1, Announced DEF ReadFails, PollSignal
  <2>3. Served' => Served
    BY <2>1 DEF Served, Garbled
  <2> QED
    BY <2>1, <2>2, <2>3, SayNothing
<1>8. CASE \/ DatabaseFails \/ DatabaseRecovers \/ ReadAll \/ PollTick \/ PollWrite
           \/ (\E k \in Keys : ReadItem(k)) \/ Close \/ CloseRemove \/ UNCHANGED vars
  <2>1. /\ UNCHANGED <<storeType, conn, events, state, isInitialized, ready, pc, available,
                       storeStatusCh>>
        /\ closing = "closed" => closing' = "closed"
        /\ closing # "no" => closing' # "no"
    BY <1>8 DEF DatabaseFails, DatabaseRecovers, ReadAll, ReadItem, PollTick, PollWrite,
                Close, CloseRemove, vars
  <2>2. (Pending => Pending') /\ (Served' => Served)
    BY <2>1 DEF Pending, Monitoring, Notified, Served, Garbled
  <2> QED
    BY <2>1, <2>2, SayNothing
<1>9. CASE CloseOff
  BY <1>9 DEF CloseOff, ServedInv, ValidInv, ToldInv, StreamHasConsumer
<1> QED
  BY <1>1, <1>2, <1>3, <1>4, <1>5, <1>6, <1>7, <1>8, <1>9 DEF Next, ConsumeStream, Environment,
     Poll

LEMMA ServedHolds == Spec => [](Inv /\ LossInv /\ ServedInv)
<1>1. Init => LossInv
  BY DEF Init, LossInv, CurrentInv, PutInv, FailedInv, FirstInv, Refetching
<1>2. Inv /\ LossInv /\ [Next]_vars => LossInv'
  BY LossStep
<1>3. Inv /\ LossInv /\ ServedInv /\ [Next]_vars => ServedInv'
  BY StepServed
<1> QED
  BY InvHolds, InitServed, <1>1, <1>2, <1>3, PTL DEF Spec

(***************************************************************************)
(* The safety part of CloseEndsStream: no connection outlives the          *)
(* goroutine that would close it.                                          *)
(***************************************************************************)
THEOREM NoStreamIsAbandoned == Spec => []StreamHasConsumer
<1>1. ServedInv => StreamHasConsumer
  BY DEF ServedInv
<1> QED
  BY <1>1, ServedHolds, PTL

(***************************************************************************)
(* The safety part of Converges: wherever the header comment's scenarios   *)
(* come to rest, they have come to a good end.  When the stream is open    *)
(* and there is nothing left to receive, the store has the service's data, *)
(* the state is Valid and the client has been told.                        *)
(***************************************************************************)
RestIsConvergence ==
    /\ conn = "open" /\ closing = "no" /\ pc = "select"
    /\ events = <<>> /\ storeStatusCh = <<>> /\ available /\ ~regressed
    => store = service /\ state = "Valid" /\ isInitialized /\ ready

THEOREM RestsOnlyWhenConverged == Spec => []RestIsConvergence
<1>1. ASSUME Inv, LossInv, ServedInv PROVE RestIsConvergence
  <2> SUFFICES ASSUME conn = "open", closing = "no", pc = "select", events = <<>>,
                      storeStatusCh = <<>>, available, ~regressed
               PROVE  store = service /\ state = "Valid" /\ isInitialized /\ ready
    BY DEF RestIsConvergence
  <2>1. Len(events) = 0 /\ Len(storeStatusCh) = 0
    OBVIOUS
  <2>2. available = TRUE /\ regressed = FALSE
    <3>1. available \in BOOLEAN /\ regressed \in BOOLEAN
      BY <1>1 DEF Inv, TypeOK
    <3> QED
      BY <3>1
  <2>3. ~Garbled /\ ~Pending /\ ~Refetching /\ Served
    BY <2>1, <2>2 DEF Garbled, Notified, Pending, Refetching, Served
  <2>4. store = service
    <3>1. \A k \in Keys : store[k] = service[k]
      <4>1. CurrentInv
        BY <1>1 DEF LossInv
      <4>2. \A k \in Keys : ~Queued(k)
        BY <2>1 DEF Queued
      <4> QED
        BY <2>2, <2>3, <4>1, <4>2 DEF CurrentInv, Current
    <3> QED
      BY <1>1, <3>1, HeldTypes DEF Inv, TypeOK
  <2>5. state = "Valid" /\ Told
    BY <1>1, <2>3 DEF ServedInv, ValidInv, ToldInv
  <2> QED
    BY <2>4, <2>5 DEF Told
<1> QED
  BY <1>1, ServedHolds, PTL
=============================================================================
