-------------------------- MODULE FDv2Sources_proof --------------------------
(* Machine-checked proofs about FDv2Sources, the FDv2 store and TopoSort. *)
EXTENDS FDv2Sources, SequenceTheorems, FiniteSetTheorems, TLAPS

(***************************************************************************)
(* The inductive invariant, in layers, each of which rests on the ones     *)
(* above it: types; the history of the service; the protocol, which knows  *)
(* the intent of every transfer and the payload it starts from; what the   *)
(* persistent store lacks; the order in which it will get it; and what the *)
(* memory store holds.                                                     *)
(***************************************************************************)
Published == [ver : Nat, item : {"object", "none"}]
Descriptors == [ver : Nat, item : {"object", "none", "descriptor"}]
Rows == [ver : Nat, item : {"object", "none", "empty"}]
Events == [name : {"put-object", "delete-object"}, version : Nat,
           object : {"object", "none", "descriptor"}]
Transfers == {"xfer-full", "xfer-changes"}
Elements(s) == {s[k] : k \in DOMAIN s}
Unwritten == remaining \cup Elements(stack) \cup Elements(out)

\* What the service and the data source keep
SourceType ==
    /\ source \in {"stream", "poll"}
    /\ tx \in [code : {"start", "idle"} \cup Transfers, target : 0 .. Len(hist),
               todo : SUBSET Items]
    /\ pending = [intent |-> pending.intent, objs |-> pending.objs, bad |-> pending.bad]
    /\ pending.intent \in {"nil"} \cup Transfers /\ pending.bad \in BOOLEAN
    /\ DOMAIN pending.objs \subseteq Items /\ pending.objs \in [DOMAIN pending.objs -> Events]
    /\ etag \in [of : 0 .. Len(hist), bad : BOOLEAN]

\* What the store and the sort keep
StoreType ==
    /\ mode \in {"none", "read", "readwrite"} /\ writing \in {"no", "Init", "Upsert", "Commit"}
    /\ initialized \in BOOLEAN /\ clean \in BOOLEAN /\ selector \in Nat
    /\ memory \in [Items -> Descriptors] /\ db \in [Items -> Rows]
    /\ DOMAIN batch \subseteq Items /\ batch \in [DOMAIN batch -> Descriptors]
    /\ remaining \subseteq Items /\ stack \in Seq(Items) /\ out \in Seq(Items)

\* An item that differs between two payloads has the higher version in the later one.
HistoryInv ==
    /\ hist \in Seq([Items -> Published]) /\ Len(hist) \in 1 .. MaxPayloads
    /\ \A n \in 1 .. Len(hist) :
          /\ Closed(hist[n])
          /\ \A i \in Items : /\ hist[n][i].ver <= n
                              /\ hist[n][i].item = "object" => hist[n][i].ver # 0
    /\ \A n \in 1 .. Len(hist) : \A m \in 1 .. n : \A i \in Items :
          hist[m][i] = hist[n][i] \/ hist[m][i].ver < hist[n][i].ver

\* A transfer has its intent, unless an error event has taken it away, and starts
\* from the payload that the selector names.
ProtocolInv ==
    /\ pc # "restart" /\ tx.code \in Transfers
          => pending.intent = "nil" \/ pending.intent = tx.code
    /\ tx.code = "idle" /\ pc # "panic" => tx.target = selector /\ selector # 0
    /\ tx.code \in Transfers => tx.target # 0 /\ selector <= tx.target
    /\ tx.code = "xfer-changes" => selector # 0
    /\ tx.todo # {} => tx.code \in Transfers
    /\ selector <= Len(hist)
    /\ initialized => active = "memory"
    /\ source = "stream" => (initialized <=> selector # 0)
    /\ source = "poll" => /\ tx = Start /\ selector = 0 /\ pc # "restart"
                          /\ etag.of # 0 /\ ~etag.bad => initialized

\* The persistent store lacks at most what is still to be written.
PersistInv ==
    /\ persist => initialized
    /\ Unwritten \subseteq DOMAIN batch
    /\ writing = "no" => Unwritten = {}
    /\ writing # "no" => initialized /\ mode = "readwrite"
    /\ mode = "readwrite" /\ initialized /\ writing = "no" /\ clean
          => \A i \in Items : db[i] = Serialized(memory[i])
    /\ writing \in {"Init", "Commit"} => memory = memorySetBasis(batch)
    /\ writing = "Init" => \A i \in DOMAIN batch \ Unwritten : db[i] = Serialized(batch[i])
    /\ writing = "Upsert" /\ clean => \A i \in Items :
          IF i \in DOMAIN batch
          THEN /\ Serialized(memory[i]) = Upserted(db, i, Serialized(batch[i]))[i]
               /\ i \notin Unwritten => db[i] = Serialized(memory[i])
          ELSE db[i] = Serialized(memory[i])

ControlInv == SourceType /\ StoreType /\ HistoryInv /\ ProtocolInv
StoreInv == ControlInv /\ PersistInv

\* The data has the objects of a payload: no other object is visible, and no
\* tombstone is newer than the payload's.
Holds(data, payload) ==
    \A i \in Items :
        IF payload[i].item = "object"
        THEN data[i].ver = payload[i].ver /\ data[i].item # "none"
        ELSE data[i].item = "none" /\ data[i].ver <= payload[i].ver

\* An event says of an item what a payload does.
Carries(event, d) ==
    /\ event.version = d.ver
    /\ d.item = "object" => event.name = "put-object" /\ event.object # "none"
    /\ d.item = "none" => event.name = "delete-object"

\* The changeset so far is part of the payload, and the rest is still to come, unless
\* an error event has dropped what there was.
ChangeSetInv ==
    tx.code \in Transfers /\ pc # "restart" /\ pending.intent # "nil" =>
        /\ \A i \in DOMAIN pending.objs :
              pending.objs[i] = Deserialized(hist[tx.target][i], "no")
        /\ tx.code = "xfer-full" =>
              DOMAIN pending.objs \cup tx.todo = Present(hist[tx.target])
        /\ tx.code = "xfer-changes" =>
              \A i \in Items \ (DOMAIN pending.objs \cup tx.todo) :
                  hist[tx.target][i] = hist[selector][i]

\* The memory store holds the payload that the selector names; a polling source
\* knows of a payload that it holds, unless it could not parse the newest.
MemoryInv ==
    /\ source = "stream" =>
          /\ selector # 0 => Holds(memory, hist[selector])
          /\ \A i \in Items : memory[i].item # "descriptor"
    /\ source = "poll" =>
          /\ etag.of # 0 /\ ~etag.bad => Holds(memory, hist[etag.of])
          /\ initialized => \E m \in 1 .. etag.of : Holds(memory, hist[m])
          /\ \A i \in Items : memory[i].item # "object"

DataInv == StoreInv /\ ChangeSetInv /\ MemoryInv
-----------------------------------------------------------------------------
(* What the operators of TopoSort and FDv2Store return *)

\* Orders(S) are the sequences that have each element of S once.
LEMMA OrdersCover ==
    ASSUME NEW S, IsFiniteSet(S), NEW s \in Orders(S)
    PROVE  s \in Seq(S) /\ Elements(s) = S
<1>1. Cardinality(S) \in Nat
  BY FS_CardinalityType
<1>2. s \in [1 .. Cardinality(S) -> S] /\ s \in Injection(1 .. Cardinality(S), S)
  BY DEF Orders, Injection, IsInjective
<1>3. Cardinality(1 .. Cardinality(S)) = Cardinality(S)
  BY <1>1, FS_Interval
<1>4. s \in Surjection(1 .. Cardinality(S), S)
  BY <1>2, <1>3, FS_Injection
<1> QED
  BY <1>1, <1>2, <1>4 DEF Elements, Surjection

\* Any set of items is finite.
LEMMA ItemsAreFinite ==
    ASSUME NEW S \in SUBSET Items
    PROVE  IsFiniteSet(S)
BY KindsAssumption, FS_Union, FS_Subset DEF Items

\* A sequence without its last element
LEMMA ButLast ==
    ASSUME NEW S, NEW s \in Seq(S), s # <<>>
    PROVE  /\ SubSeq(s, 1, Len(s) - 1) \in Seq(S)
           /\ Len(SubSeq(s, 1, Len(s) - 1)) = Len(s) - 1
           /\ DOMAIN SubSeq(s, 1, Len(s) - 1) = 1 .. Len(s) - 1
           /\ \A k \in 1 .. Len(s) - 1 : SubSeq(s, 1, Len(s) - 1)[k] = s[k]
<1>1. Len(s) \in Nat \ {0} /\ DOMAIN s = 1 .. Len(s)
  BY EmptySeq
<1>2. \A k \in 1 .. Len(s) - 1 : s[k] \in S
  BY <1>1
<1> QED
  BY <1>1, <1>2, SubSeqProperties

\* The elements of a sequence when one is appended, when the first is taken
\* away, and when the last is.
LEMMA ElementsOfSequences ==
    ASSUME NEW S, NEW s \in Seq(S)
    PROVE  /\ Elements(s) \subseteq S
           /\ \A x \in S : Elements(Append(s, x)) = Elements(s) \cup {x}
           /\ s # <<>> => /\ Head(s) \in Elements(s)
                          /\ Tail(s) \in Seq(S)
                          /\ Elements(s) = Elements(Tail(s)) \cup {Head(s)}
           /\ s # <<>> => /\ s[Len(s)] \in Elements(s)
                          /\ SubSeq(s, 1, Len(s) - 1) \in Seq(S)
                          /\ Elements(s) = Elements(SubSeq(s, 1, Len(s) - 1)) \cup {s[Len(s)]}
<1>1. Len(s) \in Nat /\ DOMAIN s = 1 .. Len(s)
  OBVIOUS
<1>2. Elements(s) \subseteq S
  BY <1>1 DEF Elements
<1>3. ASSUME NEW x \in S
      PROVE  Elements(Append(s, x)) = Elements(s) \cup {x}
  <2>1. DOMAIN Append(s, x) = 1 .. Len(s) + 1 /\ Append(s, x)[Len(s) + 1] = x
        /\ \A k \in 1 .. Len(s) : Append(s, x)[k] = s[k]
    BY <1>1
  <2> QED
    BY <1>1, <2>1 DEF Elements
<1>4. ASSUME s # <<>>
      PROVE  /\ Head(s) \in Elements(s)
             /\ Tail(s) \in Seq(S)
             /\ Elements(s) = Elements(Tail(s)) \cup {Head(s)}
  <2>1. /\ Len(s) \in Nat \ {0} /\ Head(s) = s[1]
        /\ Tail(s) \in Seq(S) /\ DOMAIN Tail(s) = 1 .. Len(s) - 1
        /\ \A k \in 1 .. Len(s) - 1 : Tail(s)[k] = s[k + 1]
    BY <1>1, <1>4, HeadTailProperties
  <2>2. \A k \in 2 .. Len(s) : s[k] = Tail(s)[k - 1] /\ k - 1 \in 1 .. Len(s) - 1
    BY <2>1
  <2>3. Elements(s) \subseteq Elements(Tail(s)) \cup {Head(s)}
    <3>1. ASSUME NEW k \in 1 .. Len(s), k # 1
          PROVE  s[k] \in Elements(Tail(s))
      <4>1. k \in 2 .. Len(s)
        BY <1>1, <3>1
      <4> QED
        BY <2>1, <2>2, <4>1 DEF Elements
    <3> QED
      BY <1>1, <2>1, <3>1 DEF Elements
  <2>4. Elements(Tail(s)) \subseteq Elements(s)
    <3>1. \A k \in 1 .. Len(s) - 1 : k + 1 \in 1 .. Len(s)
      BY <1>1
    <3> QED
      BY <1>1, <2>1, <3>1 DEF Elements
  <2>5. Head(s) \in Elements(s)
    BY <1>1, <2>1 DEF Elements
  <2> QED
    BY <2>1, <2>3, <2>4, <2>5
<1>5. ASSUME s # <<>>
      PROVE  /\ s[Len(s)] \in Elements(s)
             /\ SubSeq(s, 1, Len(s) - 1) \in Seq(S)
             /\ Elements(s) = Elements(SubSeq(s, 1, Len(s) - 1)) \cup {s[Len(s)]}
  <2>1. Len(s) \in Nat \ {0}
    BY <1>5, EmptySeq
  <2>2. /\ SubSeq(s, 1, Len(s) - 1) \in Seq(S)
        /\ DOMAIN SubSeq(s, 1, Len(s) - 1) = 1 .. Len(s) - 1
        /\ \A k \in 1 .. Len(s) - 1 : SubSeq(s, 1, Len(s) - 1)[k] = s[k]
    BY <1>5, ButLast
  <2>3. \A k \in 1 .. Len(s) : k = Len(s) \/ k \in 1 .. Len(s) - 1
    BY <2>1
  <2>4. Len(s) \in 1 .. Len(s) /\ 1 .. Len(s) - 1 \subseteq 1 .. Len(s)
    BY <2>1
  <2>5. Elements(s) \subseteq Elements(SubSeq(s, 1, Len(s) - 1)) \cup {s[Len(s)]}
    BY <1>1, <2>2, <2>3 DEF Elements
  <2>6. Elements(SubSeq(s, 1, Len(s) - 1)) \subseteq Elements(s) /\ s[Len(s)] \in Elements(s)
    BY <1>1, <2>2, <2>4 DEF Elements
  <2> QED
    BY <2>2, <2>5, <2>6
<1> QED
  BY <1>2, <1>3, <1>4, <1>5

\* Writing an item twice is writing it once, and changes no other.
LEMMA UpsertOnce ==
    ASSUME NEW S, \A d \in S : d.ver \in Nat,
           NEW data \in [Items -> S], NEW i \in Items, NEW d \in S
    PROVE  LET new == Upserted(data, i, d)
           IN  /\ new \in [Items -> S]
               /\ Upserted(new, i, d)[i] = new[i]
               /\ \A j \in Items \ {i} : new[j] = data[j]
BY DEF Upserted

\* The same of the rows of the persistent store
LEMMA UpsertRowOnce ==
    ASSUME NEW data \in [Items -> Rows], NEW i \in Items, NEW d \in Rows
    PROVE  /\ Upserted(data, i, d) \in [Items -> Rows]
           /\ Upserted(Upserted(data, i, d), i, d)[i] = Upserted(data, i, d)[i]
           /\ \A j \in Items \ {i} : Upserted(data, i, d)[j] = data[j]
<1>1. \A e \in Rows : e.ver \in Nat
  BY DEF Rows
<1> QED
  BY <1>1 DEF Upserted

\* Serialize keeps the version, and an object or a tombstone as it is.
LEMMA SerializedKeeps ==
    ASSUME NEW d \in Descriptors
    PROVE  /\ Serialized(d) \in Rows /\ Serialized(d).ver = d.ver
           /\ Serialized(d).item = "object" <=> d.item = "object"
BY DEF Serialized, Descriptors, Rows

\* Nothing is stored of what the memory store does not have.
LEMMA SerializedAbsent == Serialized(Absent) = Absent /\ Absent \in Descriptors /\ Absent \in Rows
BY DEF Serialized, Absent, Descriptors, Rows

\* What is stored of a changeset are item descriptors.
LEMMA StoredType ==
    ASSUME NEW D \in SUBSET Items, NEW events \in [D -> Events]
    PROVE  ToStorableItems(events) \in [D -> Descriptors]
BY DEF ToStorableItems, Events, Descriptors

-----------------------------------------------------------------------------
(* Types and protocol *)

\* The types of what the protocol uses most
LEMMA ControlTypes ==
    ASSUME ControlInv
    PROVE  /\ Len(hist) \in Nat \ {0} /\ Current = Len(hist)
           /\ tx = [code |-> tx.code, target |-> tx.target, todo |-> tx.todo]
           /\ tx.code \in {"start", "idle"} \cup Transfers /\ tx.todo \subseteq Items
           /\ tx.target \in 0 .. Len(hist) /\ tx.target \in Nat
           /\ tx.code \in Transfers => tx.target \in 1 .. Len(hist) /\ selector <= tx.target
           /\ selector \in Nat /\ selector <= Len(hist)
           /\ etag.of \in 0 .. Len(hist) /\ etag.bad \in BOOLEAN
           /\ \A n \in 1 .. Len(hist) : hist[n] \in [Items -> Published]
<1>1. Len(hist) \in Nat \ {0} /\ Current = Len(hist)
  BY DEF ControlInv, HistoryInv, Current
<1>2. /\ tx = [code |-> tx.code, target |-> tx.target, todo |-> tx.todo]
      /\ tx.code \in {"start", "idle"} \cup Transfers /\ tx.todo \subseteq Items
      /\ tx.target \in 0 .. Len(hist)
      /\ etag.of \in 0 .. Len(hist) /\ etag.bad \in BOOLEAN
  BY DEF ControlInv, SourceType
<1>3. tx.target \in Nat
  BY <1>1, <1>2
<1>4. selector \in Nat /\ selector <= Len(hist)
  BY DEF ControlInv, StoreType, ProtocolInv
<1>5. tx.code \in Transfers => tx.target # 0 /\ selector <= tx.target
  BY DEF ControlInv, ProtocolInv
<1>6. tx.code \in Transfers => tx.target \in 1 .. Len(hist)
  BY <1>1, <1>2, <1>5
<1>7. \A n \in 1 .. Len(hist) : hist[n] \in [Items -> Published]
  BY DEF ControlInv, HistoryInv
<1> QED
  BY <1>1, <1>2, <1>3, <1>4, <1>5, <1>6, <1>7

\* Initially nothing has been sent.
LEMMA InitControl == Init => ControlInv
<1> SUFFICES ASSUME Init PROVE ControlInv
  OBVIOUS
<1>1. Empty \in [Items -> Published] /\ Full \in [Items -> Published]
  BY DEF Empty, Full, Absent, Published
<1>2. Empty \in [Items -> Descriptors] /\ Empty \in [Items -> Rows] /\ Full \in [Items -> Rows]
  BY DEF Empty, Full, Absent, Descriptors, Rows
<1>3. Closed(Empty) /\ Closed(Full)
  BY RefsAssumption DEF Closed, Present, Empty, Full, Absent
<1>4. hist \in Seq([Items -> Published]) /\ Len(hist) = 1 /\ hist[1] \in {Empty, Full}
  <2>1. PICK p \in {Empty, Full} : hist = <<p>>
    BY DEF Init
  <2> QED
    BY <1>1, <2>1
<1>5. HistoryInv
  <2>1. \A n \in 1 .. Len(hist) : n = 1
    BY <1>4
  <2>2. \A i \in Items : /\ hist[1][i].ver <= 1
                         /\ hist[1][i].item = "object" => hist[1][i].ver # 0
    BY <1>4 DEF Empty, Full, Absent
  <2>3. Len(hist) \in 1 .. MaxPayloads
    BY <1>4, BoundsAssumption
  <2>4. \A n \in 1 .. Len(hist) : \A m \in 1 .. n : m = 1 /\ n = 1
    BY <1>4
  <2> QED
    BY <1>3, <1>4, <2>1, <2>2, <2>3, <2>4 DEF HistoryInv
<1>6. DOMAIN NoBatch = {} /\ NoBatch \in [{} -> Events] /\ NoBatch \in [{} -> Descriptors]
  BY DEF NoBatch
<1>7. SourceType
  <2>1. pending = NoChangeSet /\ tx = Start /\ etag = [of |-> 0, bad |-> FALSE]
    BY DEF Init
  <2>2. /\ pending.objs = NoBatch /\ pending.intent = "nil" /\ pending.bad = FALSE
        /\ pending = [intent |-> pending.intent, objs |-> pending.objs, bad |-> pending.bad]
    BY <2>1 DEF NoChangeSet
  <2>3. source \in {"stream", "poll"}
    BY SourcesAssumption DEF Init
  <2>4. tx \in [code : {"start", "idle"} \cup Transfers, target : 0 .. Len(hist),
               todo : SUBSET Items]
    BY <1>4, <2>1 DEF Start
  <2>5. etag \in [of : 0 .. Len(hist), bad : BOOLEAN]
    BY <1>4, <2>1
  <2>6. DOMAIN pending.objs \subseteq Items /\ pending.objs \in [DOMAIN pending.objs -> Events]
    BY <1>6, <2>2
  <2> QED
    BY <2>2, <2>3, <2>4, <2>5, <2>6 DEF SourceType
<1>9. StoreType
  <2>1. batch = NoBatch /\ db \in {Empty, Full} /\ memory = Empty
    BY DEF Init, StoreInit
  <2>2. /\ DOMAIN batch \subseteq Items /\ batch \in [DOMAIN batch -> Descriptors]
        /\ memory \in [Items -> Descriptors] /\ db \in [Items -> Rows]
    BY <1>2, <1>6, <2>1
  <2>3. mode \in {"none", "read", "readwrite"}
    BY ModesAssumption DEF Init, StoreInit
  <2>4. stack \in Seq(Items) /\ out \in Seq(Items) /\ remaining \subseteq Items
    BY EmptySeq DEF Init, StoreInit, SortInit
  <2> QED
    BY <2>2, <2>3, <2>4 DEF Init, StoreInit, StoreType
<1>8. ProtocolInv
  BY <1>4 DEF Init, StoreInit, ProtocolInv, Start, Transfers
<1> QED
  BY <1>5, <1>7, <1>8, <1>9 DEF ControlInv

\* The service publishes: each item keeps its descriptor or gets a higher version.
LEMMA PublishHistory ==
    ASSUME HistoryInv, Publish
    PROVE  HistoryInv' /\ Len(hist') = Len(hist) + 1
           /\ \A n \in 1 .. Len(hist) : hist'[n] = hist[n]
<1>1. PICK S \in SUBSET Items, kill \in SUBSET Items :
          /\ hist' = Append(hist, [i \in Items |->
                IF i \notin S THEN hist[Current][i]
                ELSE [ver |-> hist[Current][i].ver + 1,
                      item |-> IF i \in kill THEN "none" ELSE "object"]])
          /\ Closed(hist'[Current + 1])
  BY DEF Publish
<1> DEFINE new == [i \in Items |->
                IF i \notin S THEN hist[Current][i]
                ELSE [ver |-> hist[Current][i].ver + 1,
                      item |-> IF i \in kill THEN "none" ELSE "object"]]
           N == Len(hist)
<1>2. N \in 1 .. MaxPayloads /\ N \in Nat /\ N + 1 \in 1 .. MaxPayloads /\ Current = N
  BY BoundsAssumption DEF Publish, Current, HistoryInv
<1>3. hist[N] \in [Items -> Published]
  BY <1>2 DEF HistoryInv
<1>4. new \in [Items -> Published]
  BY <1>2, <1>3 DEF Published
<1>5. /\ hist' \in Seq([Items -> Published]) /\ Len(hist') = N + 1 /\ hist'[N + 1] = new
      /\ \A n \in 1 .. N : hist'[n] = hist[n]
  BY <1>1, <1>2, <1>4 DEF HistoryInv
<1>6. \A i \in Items : /\ new[i] = hist[N][i] \/ new[i].ver = hist[N][i].ver + 1
                       /\ hist[N][i].ver \in Nat
  BY <1>2, <1>3 DEF Published
<1> HIDE DEF new
<1>7. \A i \in Items : /\ new[i].ver <= N + 1
                       /\ new[i].item = "object" => new[i].ver # 0
  BY <1>2, <1>6 DEF HistoryInv
<1>8. ASSUME NEW n \in 1 .. N + 1
      PROVE  /\ Closed(hist'[n])
             /\ \A i \in Items : /\ hist'[n][i].ver <= n
                                 /\ hist'[n][i].item = "object" => hist'[n][i].ver # 0
  BY <1>1, <1>2, <1>5, <1>7 DEF HistoryInv
<1>9. ASSUME NEW n \in 1 .. N + 1, NEW m \in 1 .. n, NEW i \in Items
      PROVE  hist'[m][i] = hist'[n][i] \/ hist'[m][i].ver < hist'[n][i].ver
  <2>1. CASE n \in 1 .. N
    BY <1>2, <1>5, <2>1 DEF HistoryInv
  <2>2. CASE n = N + 1 /\ m \in 1 .. N
    <3>1. hist[m][i] = hist[N][i] \/ hist[m][i].ver < hist[N][i].ver
      BY <1>2, <2>2 DEF HistoryInv
    <3>2. hist[m] \in [Items -> Published]
      BY <1>2, <2>2 DEF HistoryInv
    <3>3. hist[m][i].ver \in Nat /\ new[i].ver \in Nat
      BY <1>4, <3>2 DEF Published
    <3> QED
      BY <1>5, <1>6, <2>2, <3>1, <3>3
  <2> QED
    BY <1>2, <1>5, <2>1, <2>2
<1>10. \A n \in 1 .. N + 1 : (Closed(hist[n]))' <=> Closed(hist'[n])
  BY DEF Closed, Present
<1> QED
  BY <1>2, <1>5, <1>8, <1>9, <1>10 DEF HistoryInv

\* Publishing changes nothing but the history.
LEMMA PublishControl ==
    ASSUME ControlInv, Publish
    PROVE  ControlInv'
<1>1. HistoryInv' /\ Len(hist') = Len(hist) + 1 /\ Len(hist) \in Nat
  BY PublishHistory DEF ControlInv, HistoryInv
<1>2. 0 .. Len(hist) \subseteq 0 .. Len(hist')
  BY <1>1
<1>3. SourceType'
  <2>1. UNCHANGED <<source, tx, pending, etag>>
    BY DEF Publish
  <2>2. /\ tx \in [code : {"start", "idle"} \cup Transfers, target : 0 .. Len(hist'),
                  todo : SUBSET Items]
        /\ etag \in [of : 0 .. Len(hist'), bad : BOOLEAN]
    BY <1>2 DEF ControlInv, SourceType
  <2> QED
    BY <2>1, <2>2 DEF ControlInv, SourceType
<1>4. StoreType'
  BY DEF Publish, storeVars, sortVars, ControlInv, StoreType
<1>5. ProtocolInv'
  <2>1. selector <= Len(hist')
    BY <1>1 DEF ControlInv, StoreType, ProtocolInv
  <2> QED
    BY <2>1 DEF Publish, storeVars, ControlInv, ProtocolInv
<1> QED
  BY <1>1, <1>3, <1>4, <1>5 DEF ControlInv

\* The steps that leave the history, the store and the HTTP cache alone, and that
\* keep, drop or forget a transfer.
StreamControl ==
    \/ Connect \/ RecoverableError \/ UnrecoverableError \/ Malformed \/ ErrorEvent \/ OtherEvent
    \/ Notify \/ Processed \/ Restart \/ EndOfStream \/ Close \/ CloseOff
PollControl == PollCached \/ PollGivesUp \/ PollValid \/ PollNotify \/ PollQuits

\* Such a step does one of these things to a transfer and its changeset.
LEMMA ControlSteps ==
    ASSUME ControlInv, StreamControl \/ PollControl
    PROVE  /\ UNCHANGED <<source, hist, etag, storeVars>>
           /\ tx' \in {tx, Start} /\ pending' \in {pending, NoChangeSet}
           /\ tx' = Start \/ pc' = "restart" \/ (pending' = pending /\ pc # "restart")
              \/ (pc' = pc /\ pending' = pending) \/ pending' = NoChangeSet
           /\ pc' = "panic" <=> pc = "panic"
           /\ source = "poll" => pc' # "restart" /\ tx' = tx
<1>1. CASE StreamControl
  <2> USE DEF ControlInv, ProtocolInv, Receiving, OnlyStream
  <2>1. CASE Connect \/ RecoverableError \/ UnrecoverableError \/ Close \/ CloseOff
    BY <2>1 DEF Connect, RecoverableError, UnrecoverableError, Close, CloseOff
  <2>2. CASE Malformed \/ ErrorEvent \/ OtherEvent
    BY <2>2 DEF Malformed, ErrorEvent, OtherEvent
  <2>3. CASE Notify \/ Processed \/ Restart \/ EndOfStream
    BY <2>3 DEF Notify, Processed, Restart, EndOfStream
  <2> QED
    BY <1>1, <2>1, <2>2, <2>3 DEF StreamControl
<1>2. CASE PollControl
  BY <1>2 DEF PollControl, PollCached, PollGivesUp, PollValid, PollNotify, PollQuits, OnlyPoll,
      Polling
<1> QED
  BY <1>1, <1>2

\* NoChangeSet has no objects.
LEMMA NoChangeSetType ==
    /\ NoChangeSet.intent = "nil" /\ NoChangeSet.objs = NoBatch /\ NoChangeSet.bad = FALSE
    /\ NoChangeSet = [intent |-> "nil", objs |-> NoBatch, bad |-> FALSE]
    /\ DOMAIN NoBatch = {} /\ NoBatch \in [{} -> Events] /\ NoBatch \in [{} -> Descriptors]
BY DEF NoChangeSet, NoBatch

\* ... and keeps the protocol.
LEMMA ControlStepsControl ==
    ASSUME ControlInv, StreamControl \/ PollControl
    PROVE  ControlInv'
<1>1. Len(hist) \in Nat
  BY DEF ControlInv, HistoryInv
<1>2. HistoryInv' /\ StoreType'
  BY ControlSteps DEF storeVars, sortVars, ControlInv, HistoryInv, StoreType, Closed, Present
<1>3. SourceType'
  <2>1. source' \in {"stream", "poll"} /\ etag' \in [of : 0 .. Len(hist'), bad : BOOLEAN]
    BY ControlSteps DEF ControlInv, SourceType
  <2>2. tx' \in [code : {"start", "idle"} \cup Transfers, target : 0 .. Len(hist'),
               todo : SUBSET Items]
    <3>1. Start \in [code : {"start", "idle"} \cup Transfers, target : 0 .. Len(hist),
                    todo : SUBSET Items]
      BY <1>1 DEF Start
    <3> QED
      BY <3>1, ControlSteps DEF ControlInv, SourceType
  <2>3. CASE pending' = pending
    BY <2>1, <2>2, <2>3 DEF ControlInv, SourceType
  <2>4. CASE pending' = NoChangeSet
    <3>1. /\ pending'.intent = "nil" /\ pending'.objs = NoBatch /\ pending'.bad = FALSE
          /\ pending' = [intent |-> "nil", objs |-> NoBatch, bad |-> FALSE]
      BY <2>4, NoChangeSetType
    <3> QED
      BY <2>1, <2>2, <3>1, NoChangeSetType DEF SourceType
  <2> QED
    BY <2>3, <2>4, ControlSteps
<1>4. ProtocolInv'
  BY ControlSteps, NoChangeSetType DEF storeVars, ControlInv, ProtocolInv, Start, Transfers
<1> QED
  BY <1>2, <1>3, <1>4 DEF ControlInv

\* Sort is given the items of a collection to write, and has all of them to return.
LEMMA PersistSorts ==
    ASSUME NEW D \in SUBSET Items, NEW coll \in [D -> Descriptors], NEW call, Persist(coll, call),
           shouldPersist
    PROVE  /\ batch' = coll /\ writing' = call /\ Unwritten' = D
           /\ remaining' = Features \cap D /\ stack' = <<>>
           /\ out' \in Seq(Items) /\ Elements(out') = Segments \cap D
           /\ neighbors' = [i \in D |-> GetNeighbors(i, coll[i])]
<1>1. DOMAIN coll = D
  OBVIOUS
<1>2. /\ batch' = coll /\ writing' = call
      /\ Sort([i \in D |-> GetNeighbors(i, coll[i])])
  BY <1>1 DEF Persist
<1>3. /\ remaining' = Features \cap D /\ stack' = <<>>
      /\ neighbors' = [i \in D |-> GetNeighbors(i, coll[i])]
      /\ out' \in Orders(Segments \cap D)
  BY <1>2 DEF Sort
<1>4. Segments \cap D \in SUBSET Items
  OBVIOUS
<1>5. out' \in Seq(Segments \cap D) /\ Elements(out') = Segments \cap D
  BY <1>3, <1>4, ItemsAreFinite, OrdersCover
<1>6. out' \in Seq(Items)
  BY <1>4, <1>5, SeqMonotonic
<1>7. Elements(stack') = {}
  BY <1>3 DEF Elements
<1>8. Unwritten' = remaining' \cup Elements(stack') \cup Elements(out')
  BY DEF Unwritten, Elements
<1> QED
  BY <1>2, <1>3, <1>5, <1>6, <1>7, <1>8 DEF Items

\* A changeset leaves the store with item descriptors.
LEMMA ChangeSetType ==
    ASSUME StoreType, NEW D \in SUBSET Items, NEW events \in [D -> Events], NEW sel \in Nat,
           SetBasis(events, sel) \/ ApplyDelta(events, sel)
    PROVE  /\ StoreType' /\ UNCHANGED <<mode, db, clean>>
           /\ writing = "no" /\ selector' = sel
           /\ SetBasis(events, sel) => initialized' = TRUE /\ active' = "memory"
           /\ ApplyDelta(events, sel) => UNCHANGED <<initialized, active>>
<1> DEFINE coll == ToStorableItems(events)
<1>1. coll \in [D -> Descriptors] /\ DOMAIN coll = D
  BY StoredType DEF ToStorableItems
<1>2. Absent \in Descriptors
  BY DEF Absent, Descriptors
<1> HIDE DEF coll
<1>3. memorySetBasis(coll) \in [Items -> Descriptors]
  BY <1>1, <1>2 DEF memorySetBasis
<1>4. memoryApplyDelta(coll) \in [Items -> Descriptors]
  <2>1. \A i \in D : Upserted(memory, i, coll[i])[i] \in Descriptors
    <3> TAKE i \in D
    <3>1. Upserted(memory, i, coll[i]) \in [Items -> Descriptors]
      BY <1>1, UpsertOnce DEF StoreType, Descriptors
    <3> QED
      BY <3>1
  <2> QED
    BY <1>1, <2>1 DEF memoryApplyDelta, StoreType
<1>5. memory' \in [Items -> Descriptors]
  BY <1>3, <1>4 DEF SetBasis, ApplyDelta, coll
<1>6. PICK call \in {"Init", "Upsert"} : Persist(coll, call)
  BY DEF SetBasis, ApplyDelta, coll
<1>7. /\ writing = "no" /\ selector' = sel /\ UNCHANGED <<mode, db, clean>>
      /\ SetBasis(events, sel) => initialized' = TRUE /\ active' = "memory"
      /\ ApplyDelta(events, sel) => UNCHANGED <<initialized, active>>
      /\ initialized' \in BOOLEAN
  BY DEF SetBasis, ApplyDelta, StoreType
<1>8. /\ writing' \in {"no", "Init", "Upsert", "Commit"}
      /\ DOMAIN batch' \subseteq Items /\ batch' \in [DOMAIN batch' -> Descriptors]
      /\ remaining' \subseteq Items /\ stack' \in Seq(Items) /\ out' \in Seq(Items)
  <2>1. CASE shouldPersist
    <3>1. /\ batch' = coll /\ writing' = call /\ remaining' = Features \cap D
          /\ stack' = <<>> /\ out' \in Seq(Items)
      BY <1>1, <1>6, <2>1, PersistSorts
    <3> QED
      BY <1>1, <3>1, EmptySeq
  <2>2. CASE ~shouldPersist
    BY <1>6, <2>2 DEF Persist, sortVars, StoreType
  <2> QED
    BY <2>1, <2>2
<1> QED
  BY <1>5, <1>7, <1>8 DEF StoreType

\* An intent says that the data is current, or opens a transfer of the current
\* payload, from the one that the selector names if it is one of changes.
LEMMA IntentOpens ==
    ASSUME ControlInv, ServerIntent
    PROVE  /\ UNCHANGED <<source, hist, etag, storeVars>> /\ source = "stream" /\ pc = "select"
           /\ Len(hist) \in Nat \ {0} /\ Current = Len(hist)
           /\ \/ /\ tx' = [code |-> "idle", target |-> Current, todo |-> {}]
                 /\ selector = Current /\ UNCHANGED <<pending, pc>>
              \/ \E code \in Transfers :
                    /\ tx' = [code |-> code, target |-> Current, todo |-> Objects(code, selector)]
                    /\ pending' = [intent |-> code, objs |-> NoBatch, bad |-> FALSE]
                    /\ pc' = "valid"
                    /\ code = "xfer-changes" => selector # 0
<1>1. /\ UNCHANGED <<source, hist, etag, storeVars>> /\ source = "stream" /\ pc = "select"
      /\ Current = Len(hist) /\ Len(hist) \in Nat \ {0}
  BY DEF ServerIntent, OnlyStream, Receiving, Current, ControlInv, HistoryInv
<1>2. tx.code = "idle" => tx.target = selector /\ selector # 0
  BY <1>1 DEF ControlInv, ProtocolInv
<1>3. PICK code \in IF tx.code = "start" THEN Intents(selector) ELSE {"xfer-changes"} :
          IF code = "none"
          THEN /\ tx' = [code |-> "idle", target |-> Current, todo |-> {}]
               /\ UNCHANGED <<pending, pc>>
          ELSE /\ tx' = [code |-> code, target |-> Current,
                         todo |-> Objects(code, IF tx.code = "idle" THEN tx.target ELSE selector)]
               /\ pending' = [intent |-> code, objs |-> NoBatch, bad |-> FALSE]
               /\ pc' = "valid"
  BY DEF ServerIntent
<1>4. /\ code = "none" => selector = Current
      /\ code # "none" => code \in Transfers
      /\ code = "xfer-changes" => selector # 0
  <2>1. tx.code \in {"start", "idle"}
    BY DEF ServerIntent
  <2> QED
    BY <1>1, <1>2, <2>1 DEF Intents, Transfers
<1>5. (IF tx.code = "idle" THEN tx.target ELSE selector) = selector
  BY <1>2
<1>6. CASE code = "none"
  BY <1>1, <1>3, <1>4, <1>6
<1>7. CASE code # "none"
  BY <1>1, <1>3, <1>4, <1>5, <1>7
<1> QED
  BY <1>6, <1>7

\* The objects of a transfer are items.
LEMMA ObjectsAreItems == \A code, from : Objects(code, from) \subseteq Items
BY DEF Objects, Present

\* ... so that the protocol is kept.
LEMMA IntentControl ==
    ASSUME ControlInv, ServerIntent
    PROVE  ControlInv'
<1>1. /\ UNCHANGED <<source, hist, etag, storeVars>> /\ source = "stream" /\ pc = "select"
      /\ Len(hist) \in Nat \ {0} /\ Current = Len(hist)
  BY IntentOpens
<1>2. HistoryInv' /\ StoreType'
  BY <1>1 DEF storeVars, sortVars, ControlInv, HistoryInv, StoreType, Closed, Present
<1>3. CASE /\ tx' = [code |-> "idle", target |-> Current, todo |-> {}]
           /\ selector = Current /\ UNCHANGED <<pending, pc>>
  <2>1. SourceType'
    <3>1. tx' \in [code : {"start", "idle"} \cup Transfers, target : 0 .. Len(hist'),
                   todo : SUBSET Items]
      BY <1>1, <1>3
    <3> QED
      BY <1>1, <1>3, <3>1 DEF ControlInv, SourceType
  <2>2. ProtocolInv'
    BY <1>1, <1>3 DEF storeVars, ControlInv, ProtocolInv, Transfers
  <2> QED
    BY <1>2, <2>1, <2>2 DEF ControlInv
<1>4. ASSUME NEW code \in Transfers,
             tx' = [code |-> code, target |-> Current, todo |-> Objects(code, selector)],
             pending' = [intent |-> code, objs |-> NoBatch, bad |-> FALSE],
             pc' = "valid",
             code = "xfer-changes" => selector # 0
      PROVE  ControlInv'
  <2>1. tx' \in [code : {"start", "idle"} \cup Transfers, target : 0 .. Len(hist'),
                 todo : SUBSET Items]
    BY <1>1, <1>4, ObjectsAreItems
  <2>2. /\ pending'.intent = code /\ pending'.objs = NoBatch /\ pending'.bad = FALSE
    BY <1>4
  <2>3. SourceType'
    BY <1>1, <1>4, <2>1, <2>2, NoChangeSetType DEF ControlInv, SourceType
  <2>4. tx'.code = code /\ tx'.target = Len(hist) /\ pending'.intent = code
    BY <1>1, <1>4
  <2>5. ProtocolInv'
    BY <1>1, <1>4, <2>4 DEF storeVars, ControlInv, ProtocolInv, Transfers
  <2> QED
    BY <1>2, <2>3, <2>5 DEF ControlInv
<1> QED
  BY <1>3, <1>4, IntentOpens

\* What is received of an object is an event.
LEMMA DeserializedType ==
    ASSUME NEW d \in Published, NEW broken
    PROVE  Deserialized(d, broken) \in Events
BY DEF Deserialized, Event, Published, Events

\* An object is added to the changeset.
LEMMA ObjectAdds ==
    ASSUME ControlInv, NEW i \in Items, Object(i)
    PROVE  /\ UNCHANGED <<source, hist, etag, storeVars>> /\ source = "stream" /\ pc = "select"
           /\ i \in tx.todo
           /\ tx' = [code |-> tx.code, target |-> tx.target, todo |-> tx.todo \ {i}]
           /\ pc' = "valid"
           /\ \E broken \in {"no"} \cup Garbled :
                 pending' = [intent |-> pending.intent,
                             objs |-> [j \in DOMAIN pending.objs \cup {i} |->
                                          IF j = i THEN Deserialized(hist[tx.target][i], broken)
                                          ELSE pending.objs[j]],
                             bad |-> pending.bad \/ broken = "object"]
<1>1. /\ UNCHANGED <<source, hist, etag, storeVars>> /\ source = "stream" /\ pc = "select"
      /\ i \in tx.todo /\ pc' = "valid"
      /\ tx' = [tx EXCEPT !.todo = @ \ {i}]
  BY DEF Object, Receiving, OnlyStream
<1>2. tx' = [code |-> tx.code, target |-> tx.target, todo |-> tx.todo \ {i}]
  BY <1>1 DEF ControlInv, SourceType
<1>3. PICK broken \in {"no"} \cup Garbled :
          pending' = [pending EXCEPT
                !.objs = [j \in DOMAIN @ \cup {i} |->
                             IF j = i THEN Deserialized(hist[tx.target][i], broken) ELSE @[j]],
                !.bad = @ \/ broken = "object"]
  BY DEF Object
<1>4. pending = [intent |-> pending.intent, objs |-> pending.objs, bad |-> pending.bad]
  BY DEF ControlInv, SourceType
<1>5. pending' = [intent |-> pending.intent,
                  objs |-> [j \in DOMAIN pending.objs \cup {i} |->
                               IF j = i THEN Deserialized(hist[tx.target][i], broken)
                               ELSE pending.objs[j]],
                  bad |-> pending.bad \/ broken = "object"]
  BY <1>3, <1>4
<1> QED
  BY <1>1, <1>2, <1>5

LEMMA ObjectControl ==
    ASSUME ControlInv, NEW i \in Items, Object(i)
    PROVE  ControlInv'
<1>1. /\ UNCHANGED <<source, hist, etag, storeVars>> /\ source = "stream" /\ pc = "select"
      /\ i \in tx.todo /\ pc' = "valid"
      /\ tx' = [code |-> tx.code, target |-> tx.target, todo |-> tx.todo \ {i}]
  BY ObjectAdds
<1>2. PICK broken \in {"no"} \cup Garbled :
          pending' = [intent |-> pending.intent,
                      objs |-> [j \in DOMAIN pending.objs \cup {i} |->
                                   IF j = i THEN Deserialized(hist[tx.target][i], broken)
                                   ELSE pending.objs[j]],
                      bad |-> pending.bad \/ broken = "object"]
  BY ObjectAdds
<1>3. HistoryInv' /\ StoreType'
  BY <1>1 DEF storeVars, sortVars, ControlInv, HistoryInv, StoreType, Closed, Present
<1>4. tx' \in [code : {"start", "idle"} \cup Transfers, target : 0 .. Len(hist'),
               todo : SUBSET Items]
      /\ tx'.code = tx.code /\ tx'.target = tx.target
  BY <1>1 DEF ControlInv, SourceType
<1>5. Deserialized(hist[tx.target][i], broken) \in Events
  <2>1. tx.target \in 1 .. Len(hist)
    BY <1>1, ControlTypes DEF ControlInv, ProtocolInv
  <2>2. hist[tx.target][i] \in Published
    BY <2>1 DEF ControlInv, HistoryInv
  <2> QED
    BY <2>2, DeserializedType
<1>6. /\ pending'.intent = pending.intent /\ pending'.bad = (pending.bad \/ broken = "object")
      /\ pending' = [intent |-> pending'.intent, objs |-> pending'.objs, bad |-> pending'.bad]
  BY <1>2
<1>7. /\ DOMAIN pending'.objs = DOMAIN pending.objs \cup {i}
      /\ pending'.objs \in [DOMAIN pending'.objs -> Events]
  BY <1>2, <1>5 DEF ControlInv, SourceType
<1>8. SourceType'
  BY <1>1, <1>4, <1>6, <1>7 DEF ControlInv, SourceType
<1>9. ProtocolInv'
  BY <1>1, <1>4, <1>6 DEF storeVars, ControlInv, SourceType, ProtocolInv, Transfers
<1> QED
  BY <1>3, <1>8, <1>9 DEF ControlInv

\* The end of a transfer hands the changeset to the store, by its intent, or ends
\* the process.
Handed == Transferred /\ pending.intent # "nil"
Panicked == Transferred /\ pending.intent = "nil"

LEMMA TransferredStores ==
    ASSUME ControlInv, Handed
    PROVE  /\ UNCHANGED <<source, hist, etag>> /\ source = "stream" /\ ~pending.bad
           /\ tx.code \in Transfers /\ tx.todo = {} /\ pc # "restart"
           /\ tx' = [code |-> "idle", target |-> tx.target, todo |-> {}]
           /\ pending' = NoChangeSet /\ pc' \in {"notify", "valid"}
           /\ pending.intent = tx.code
           /\ \/ tx.code = "xfer-full" /\ SetBasis(pending.objs, tx.target)
              \/ tx.code = "xfer-changes" /\ ApplyDelta(pending.objs, tx.target)
           /\ tx.target \in 1 .. Len(hist) /\ selector <= tx.target
<1>1. /\ UNCHANGED <<source, hist, etag>> /\ source = "stream" /\ ~pending.bad /\ pc = "select"
      /\ tx.code \in Transfers /\ tx.todo = {}
      /\ tx' = [tx EXCEPT !.code = "idle"] /\ pending' = NoChangeSet
  BY DEF Handed, Transferred, Receiving, OnlyStream, Transfers
<1>2. pending.intent = tx.code
  BY <1>1 DEF Handed, ControlInv, ProtocolInv
<1>3. \/ tx.code = "xfer-full" /\ SetBasis(pending.objs, tx.target) /\ pc' = "notify"
      \/ tx.code = "xfer-changes" /\ ApplyDelta(pending.objs, tx.target) /\ pc' = "valid"
  BY <1>1, <1>2 DEF Handed, Transferred, Transfers
<1>4. tx' = [code |-> "idle", target |-> tx.target, todo |-> {}]
  BY <1>1 DEF ControlInv, SourceType
<1>5. tx.target \in 1 .. Len(hist) /\ selector <= tx.target
  BY <1>1, ControlTypes
<1> QED
  BY <1>1, <1>2, <1>3, <1>4, <1>5

LEMMA TransferredControl ==
    ASSUME ControlInv, Handed
    PROVE  ControlInv'
<1>1. /\ UNCHANGED <<source, hist, etag>> /\ source = "stream"
      /\ tx' = [code |-> "idle", target |-> tx.target, todo |-> {}]
      /\ pending' = NoChangeSet /\ pc' \in {"notify", "valid"}
      /\ \/ tx.code = "xfer-full" /\ SetBasis(pending.objs, tx.target)
         \/ tx.code = "xfer-changes" /\ ApplyDelta(pending.objs, tx.target)
      /\ tx.target \in 1 .. Len(hist) /\ Len(hist) \in Nat
  BY TransferredStores, ControlTypes
<1>2. /\ StoreType' /\ selector' = tx.target
      /\ tx.code = "xfer-full" => initialized' = TRUE /\ active' = "memory"
      /\ tx.code = "xfer-changes" => UNCHANGED <<initialized, active>>
      /\ pc' # "panic"
  <2>1. StoreType /\ DOMAIN pending.objs \in SUBSET Items /\ tx.target \in Nat
        /\ pending.objs \in [DOMAIN pending.objs -> Events]
    BY ControlTypes DEF ControlInv, SourceType
  <2> QED
    BY <1>1, <2>1, ChangeSetType
<1>3. HistoryInv'
  BY <1>1 DEF ControlInv, HistoryInv, Closed, Present
<1>4. SourceType'
  <2>1. tx' \in [code : {"start", "idle"} \cup Transfers, target : 0 .. Len(hist'),
                 todo : SUBSET Items]
    BY <1>1
  <2>2. /\ pending'.intent = "nil" /\ pending'.objs = NoBatch /\ pending'.bad = FALSE
        /\ pending' = [intent |-> "nil", objs |-> NoBatch, bad |-> FALSE]
    BY <1>1, NoChangeSetType
  <2> QED
    BY <1>1, <2>1, <2>2, NoChangeSetType DEF ControlInv, SourceType
<1>5. ProtocolInv'
  <2>1. tx.code = "xfer-changes" => initialized /\ active = "memory"
    BY <1>1 DEF ControlInv, ProtocolInv
  <2> QED
    BY <1>1, <1>2, <2>1 DEF ControlInv, ProtocolInv, Transfers
<1> QED
  BY <1>2, <1>3, <1>4, <1>5 DEF ControlInv

\* Without an intent the store gets nothing, and nothing more is received.
LEMMA PanickedControl ==
    ASSUME ControlInv, Panicked
    PROVE  /\ ControlInv' /\ source = "stream" /\ pc = "select"
           /\ UNCHANGED <<source, hist, etag, isInitialized, ready, storeVars>>
           /\ tx'.code = "idle" /\ pc' = "panic"
<1>1. /\ UNCHANGED <<source, hist, etag, isInitialized, ready, storeVars>>
      /\ source = "stream" /\ pc = "select" /\ pc' = "panic"
      /\ tx' = [tx EXCEPT !.code = "idle"] /\ tx.todo = {} /\ pending' = NoChangeSet
  BY DEF Panicked, Transferred, Receiving, OnlyStream
<1>2. tx' = [code |-> "idle", target |-> tx.target, todo |-> {}]
  BY <1>1 DEF ControlInv, SourceType
<1>3. HistoryInv' /\ StoreType'
  BY <1>1 DEF storeVars, sortVars, ControlInv, HistoryInv, StoreType, Closed, Present
<1>4. SourceType'
  <2>1. tx' \in [code : {"start", "idle"} \cup Transfers, target : 0 .. Len(hist'),
                 todo : SUBSET Items]
    BY <1>1, <1>2, ControlTypes
  <2>2. /\ pending'.intent = "nil" /\ pending'.objs = NoBatch /\ pending'.bad = FALSE
        /\ pending' = [intent |-> "nil", objs |-> NoBatch, bad |-> FALSE]
    BY <1>1, NoChangeSetType
  <2> QED
    BY <1>1, <2>1, <2>2, NoChangeSetType DEF ControlInv, SourceType
<1>5. ProtocolInv'
  BY <1>1, <1>2 DEF storeVars, ControlInv, ProtocolInv, Transfers
<1> QED
  BY <1>1, <1>2, <1>3, <1>4, <1>5 DEF ControlInv

\* A response hands the changeset of the current payload to the store, from the
\* payload of the last response if it is one of changes.
LEMMA PollStores ==
    ASSUME ControlInv, PollChanges
    PROVE  \E code \in Transfers :
              LET D == Objects(code, etag.of)
                  events == [i \in D |-> Polled(hist[Current][i])]
              IN  /\ D \in SUBSET Items /\ events \in [D -> Events]
                  /\ IF code = "xfer-full" THEN SetBasis(events, 0) ELSE ApplyDelta(events, 0)
                  /\ code = "xfer-changes" => etag.of # 0 /\ ~etag.bad
<1>1. PICK code \in Intents(IF etag.bad THEN 0 ELSE etag.of) \ {"none"} :
          LET events == [i \in Objects(code, etag.of) |-> Polled(hist[Current][i])]
          IN  IF code = "xfer-full" THEN SetBasis(events, 0) ELSE ApplyDelta(events, 0)
  BY DEF PollChanges
<1>2. code \in Transfers /\ (code = "xfer-changes" => etag.of # 0 /\ ~etag.bad)
  BY ControlTypes DEF Intents, Transfers
<1>3. Objects(code, etag.of) \in SUBSET Items
  BY ObjectsAreItems
<1>4. hist[Current] \in [Items -> Published]
  BY ControlTypes
<1>5. \A i \in Items : Polled(hist[Current][i]) \in Events
  BY <1>4 DEF Polled, Event, Published, Events
<1> QED
  BY <1>1, <1>2, <1>3, <1>5

\* A poll leaves the stream's variables alone.
LEMMA PollControlStep ==
    ASSUME ControlInv, PollChanges \/ PollFails
    PROVE  ControlInv'
<1>1. /\ UNCHANGED <<source, hist, tx, pending>> /\ source = "poll" /\ pc = "select"
      /\ pc' \in {"select", "valid"} /\ selector = 0 /\ tx = Start
  BY DEF PollChanges, PollFails, OnlyPoll, Polling, ControlInv, ProtocolInv
<1>2. HistoryInv'
  BY <1>1 DEF ControlInv, HistoryInv, Closed, Present
<1>3. CASE PollChanges
  <2>1. etag' = [of |-> Len(hist), bad |-> FALSE]
    BY <1>3, ControlTypes DEF PollChanges
  <2>2. SourceType'
    <3>1. etag' \in [of : 0 .. Len(hist'), bad : BOOLEAN]
      BY <1>1, <2>1, ControlTypes
    <3> QED
      BY <1>1, <3>1 DEF ControlInv, SourceType
  <2>3. PICK code \in Transfers :
            LET D == Objects(code, etag.of)
                events == [i \in D |-> Polled(hist[Current][i])]
            IN  /\ D \in SUBSET Items /\ events \in [D -> Events]
                /\ IF code = "xfer-full" THEN SetBasis(events, 0) ELSE ApplyDelta(events, 0)
                /\ code = "xfer-changes" => etag.of # 0 /\ ~etag.bad
    BY <1>3, PollStores
  <2>4. StoreType /\ (etag.of # 0 /\ ~etag.bad => initialized) /\ (initialized => active = "memory")
    BY <1>1 DEF ControlInv, ProtocolInv
  <2>5. StoreType' /\ selector' = 0 /\ initialized' = TRUE /\ active' = "memory"
    <3>1. CASE code = "xfer-full"
      BY <2>3, <2>4, <3>1, ChangeSetType
    <3>2. CASE code = "xfer-changes"
      <4>1. UNCHANGED <<initialized, active>> /\ StoreType' /\ selector' = 0
        BY <2>3, <2>4, <3>2, ChangeSetType
      <4> QED
        BY <2>3, <2>4, <3>2, <4>1 DEF StoreType
    <3> QED
      BY <3>1, <3>2 DEF Transfers
  <2>6. ProtocolInv'
    BY <1>1, <2>5, ControlTypes DEF ProtocolInv, Start, Transfers
  <2> QED
    BY <1>2, <2>2, <2>5, <2>6 DEF ControlInv
<1>4. CASE PollFails
  <2>1. /\ UNCHANGED storeVars
        /\ etag' = etag \/ etag' = [of |-> Len(hist), bad |-> TRUE]
    BY <1>4, ControlTypes DEF PollFails
  <2>2. StoreType'
    BY <2>1 DEF storeVars, sortVars, ControlInv, StoreType
  <2>3. etag' \in [of : 0 .. Len(hist'), bad : BOOLEAN]
    <3>1. [of |-> Len(hist), bad |-> TRUE] \in [of : 0 .. Len(hist), bad : BOOLEAN]
      BY ControlTypes
    <3> QED
      BY <1>1, <2>1, <3>1 DEF ControlInv, SourceType
  <2>4. SourceType'
    BY <1>1, <2>3 DEF ControlInv, SourceType
  <2>5. ProtocolInv'
    BY <1>1, <2>1 DEF storeVars, ControlInv, ProtocolInv
  <2> QED
    BY <1>2, <2>2, <2>4, <2>5 DEF ControlInv
<1> QED
  BY <1>3, <1>4

\* The steps of the persistent store
StoreAction ==
    \/ Sorts \/ InitItem \/ InitRest \/ InitFails \/ UpsertItem \/ UpsertFails \/ UpsertDone
    \/ Commit

\* The items that GetAllKinds returns are the memory store's.
LEMMA GetAllKindsType ==
    ASSUME StoreType
    PROVE  /\ DOMAIN GetAllKinds \in SUBSET Items
           /\ GetAllKinds \in [DOMAIN GetAllKinds -> Descriptors]
           /\ memorySetBasis(GetAllKinds) = memory
<1>1. DOMAIN GetAllKinds = {j \in Items : memory[j] # Absent}
      /\ \A i \in DOMAIN GetAllKinds : GetAllKinds[i] = memory[i]
  BY DEF GetAllKinds
<1>2. GetAllKinds \in [DOMAIN GetAllKinds -> Descriptors]
  BY DEF GetAllKinds, StoreType
<1>3. memorySetBasis(GetAllKinds) = memory
  BY <1>1 DEF memorySetBasis, StoreType
<1> QED
  BY <1>1, <1>2, <1>3

\* Sorting moves items from one place to another, and loses none.
LEMMA SortingKeeps ==
    ASSUME StoreType, Sorting
    PROVE  /\ remaining' \subseteq Items /\ stack' \in Seq(Items) /\ out' \in Seq(Items)
           /\ Unwritten' = Unwritten /\ neighbors' = neighbors
<1>1. remaining \subseteq Items /\ stack \in Seq(Items) /\ out \in Seq(Items)
  BY DEF StoreType
<1>2. Unwritten' = remaining' \cup Elements(stack') \cup Elements(out')
  BY DEF Unwritten, Elements
<1>3. ASSUME NEW i \in Items, Visit(i)
      PROVE  /\ remaining' \subseteq Items /\ stack' \in Seq(Items) /\ out' \in Seq(Items)
             /\ Unwritten' = Unwritten /\ neighbors' = neighbors
  <2>1. /\ i \in remaining /\ remaining' = remaining \ {i} /\ stack' = Append(stack, i)
        /\ UNCHANGED <<neighbors, out>>
    BY <1>3 DEF Visit
  <2>2. Elements(stack') = Elements(stack) \cup {i} /\ stack' \in Seq(Items)
    BY <1>1, <2>1, ElementsOfSequences
  <2> QED
    BY <1>1, <1>2, <2>1, <2>2 DEF Unwritten
<1>4. ASSUME AppendItem
      PROVE  /\ remaining' \subseteq Items /\ stack' \in Seq(Items) /\ out' \in Seq(Items)
             /\ Unwritten' = Unwritten /\ neighbors' = neighbors
  <2>1. /\ stack # <<>> /\ out' = Append(out, Top) /\ stack' = SubSeq(stack, 1, Len(stack) - 1)
        /\ UNCHANGED <<neighbors, remaining>>
    BY <1>4 DEF AppendItem
  <2>2. /\ Top \in Items /\ stack' \in Seq(Items)
        /\ Elements(stack) = Elements(stack') \cup {Top}
    BY <1>1, <2>1, ElementsOfSequences DEF Top
  <2>3. Elements(out') = Elements(out) \cup {Top} /\ out' \in Seq(Items)
    BY <1>1, <2>1, <2>2, ElementsOfSequences
  <2> QED
    BY <1>1, <1>2, <2>1, <2>2, <2>3 DEF Unwritten
<1>5. \A i : Visit(i) => i \in Items
  BY <1>1 DEF Visit
<1> QED
  BY <1>3, <1>4, <1>5 DEF Sorting, Pick, Descend

\* The first item of the result is written or skipped.
LEMMA TakingFirst ==
    ASSUME StoreType, Unwritten \subseteq DOMAIN batch, Sorted, out # <<>>, out' = Tail(out),
           UNCHANGED <<remaining, stack>>
    PROVE  /\ Head(out) \in Unwritten /\ Head(out) \in DOMAIN batch
           /\ out' \in Seq(Items) /\ Unwritten = Unwritten' \cup {Head(out)}
<1>1. /\ Head(out) \in Elements(out) /\ out' \in Seq(Items)
      /\ Elements(out) = Elements(out') \cup {Head(out)}
  BY ElementsOfSequences DEF StoreType
<1>2. Unwritten' = remaining' \cup Elements(stack') \cup Elements(out')
  BY DEF Unwritten, Elements
<1> QED
  BY <1>1, <1>2 DEF Unwritten

\* When the result of a sort has been used, nothing is left.
LEMMA Forgetting ==
    ASSUME SortForget, batch' = NoBatch
    PROVE  /\ Unwritten' = {} /\ remaining' = {} /\ stack' \in Seq(Items) /\ out' \in Seq(Items)
           /\ DOMAIN batch' = {} /\ batch' \in [{} -> Descriptors]
<1>1. Unwritten' = remaining' \cup Elements(stack') \cup Elements(out')
  BY DEF Unwritten, Elements
<1>2. Elements(stack') = {} /\ Elements(out') = {} /\ remaining' = {}
      /\ stack' \in Seq(Items) /\ out' \in Seq(Items)
  BY EmptySeq DEF SortForget, Elements
<1> QED
  BY <1>1, <1>2, NoChangeSetType

\* Commit writes the whole of the memory store.
LEMMA CommitSorts ==
    ASSUME StoreType, Commit
    PROVE  /\ batch' = GetAllKinds /\ remaining' = remaining /\ stack' = stack
           /\ out' \in Seq(Items) /\ Elements(out') = DOMAIN batch'
<1>1. batch' = GetAllKinds /\ out' \in Orders(DOMAIN batch') /\ UNCHANGED <<remaining, stack>>
  BY DEF Commit
<1>2. DOMAIN batch' \in SUBSET Items
  BY <1>1, GetAllKindsType
<1>3. out' \in Seq(DOMAIN batch') /\ Elements(out') = DOMAIN batch'
  BY <1>1, <1>2, ItemsAreFinite, OrdersCover
<1> QED
  BY <1>1, <1>2, <1>3, SeqMonotonic

\* The persistent store keeps item descriptors, and the memory store is not touched.
LEMMA StoreActionType ==
    ASSUME StoreType, Unwritten \subseteq DOMAIN batch, StoreAction
    PROVE  StoreType' /\ UNCHANGED <<mode, memory, initialized, selector, persist, active>>
<1>1. UNCHANGED <<mode, memory, initialized, selector, persist, active>>
  BY DEF StoreAction, Sorts, InitItem, InitRest, InitFails, UpsertItem, UpsertFails, UpsertDone,
     Commit
<1>2. Absent \in Rows
  BY SerializedAbsent
<1>3. CASE Sorts
  BY <1>1, <1>3, SortingKeeps DEF Sorts, StoreType
<1>4. CASE InitItem \/ UpsertItem \/ UpsertFails
  <2>1. /\ Head(out) \in DOMAIN batch /\ out' \in Seq(Items)
        /\ UNCHANGED <<remaining, stack, batch, writing>>
    BY <1>4, TakingFirst DEF InitItem, UpsertItem, UpsertFails
  <2>2. Head(out) \in Items /\ Serialized(batch[Head(out)]) \in Rows
    BY <2>1, SerializedKeeps DEF StoreType
  <2>3. db' \in [Items -> Rows]
    <3>1. CASE InitItem
      BY <2>2, <3>1 DEF InitItem, StoreType
    <3>2. CASE UpsertItem
      BY <2>2, <3>2, UpsertOnce DEF UpsertItem, StoreType, Rows
    <3>3. CASE UpsertFails
      BY <3>3 DEF UpsertFails, StoreType
    <3> QED
      BY <1>4, <3>1, <3>2, <3>3
  <2>4. clean' \in BOOLEAN
    BY <1>4 DEF InitItem, UpsertItem, UpsertFails, StoreType
  <2> QED
    BY <1>1, <2>1, <2>3, <2>4 DEF StoreType
<1>5. CASE InitRest \/ InitFails \/ UpsertDone
  <2>1. SortForget /\ batch' = NoBatch /\ writing' = "no"
    BY <1>5 DEF InitRest, InitFails, UpsertDone
  <2>2. \A i \in DOMAIN batch : Serialized(batch[i]) \in Rows
    BY SerializedKeeps DEF StoreType
  <2>3. db' \in [Items -> Rows] /\ clean' \in BOOLEAN
    BY <1>2, <1>5, <2>2 DEF InitRest, InitFails, UpsertDone, StoreType
  <2> QED
    BY <1>1, <2>1, <2>3, Forgetting DEF StoreType
<1>6. CASE Commit
  <2>1. UNCHANGED <<db, clean>> /\ writing' = "Commit"
    BY <1>6 DEF Commit
  <2> QED
    BY <1>1, <1>6, <2>1, CommitSorts, GetAllKindsType DEF StoreType
<1> QED
  BY <1>3, <1>4, <1>5, <1>6 DEF StoreAction

-----------------------------------------------------------------------------
(* What the persistent store lacks *)

\* A changeset that is to be written is all still to be written.
LEMMA ChangeSetPersist ==
    ASSUME StoreType, PersistInv,
           NEW D \in SUBSET Items, NEW events \in [D -> Events], NEW sel \in Nat,
           SetBasis(events, sel) \/ (ApplyDelta(events, sel) /\ initialized)
    PROVE  PersistInv'
<1> DEFINE coll == ToStorableItems(events)
<1>1. coll \in [D -> Descriptors] /\ DOMAIN coll = D
  BY StoredType DEF ToStorableItems
<1> HIDE DEF coll
<1>2. /\ writing = "no" /\ initialized' = TRUE /\ persist' = TRUE /\ UNCHANGED <<mode, db, clean>>
  BY DEF SetBasis, ApplyDelta, StoreType
<1>3. CASE mode # "readwrite"
  <2>1. UNCHANGED <<batch, writing, sortVars>>
    BY <1>3 DEF SetBasis, ApplyDelta, Persist, shouldPersist
  <2>2. Unwritten' = Unwritten
    BY <2>1 DEF Unwritten, sortVars, Elements
  <2> QED
    BY <1>2, <1>3, <2>1, <2>2 DEF PersistInv
<1>4. CASE mode = "readwrite" /\ SetBasis(events, sel)
  <2>1. shouldPersist /\ Persist(coll, "Init") /\ memory' = memorySetBasis(coll)
    BY <1>2, <1>4 DEF SetBasis, shouldPersist, coll
  <2>2. batch' = coll /\ writing' = "Init" /\ Unwritten' = D
    BY <1>1, <2>1, PersistSorts
  <2>3. memory' = (memorySetBasis(batch))'
    BY <2>1, <2>2 DEF memorySetBasis
  <2> QED
    BY <1>1, <1>2, <1>4, <2>2, <2>3 DEF PersistInv
<1>5. CASE mode = "readwrite" /\ ApplyDelta(events, sel) /\ initialized
  <2>1. shouldPersist /\ Persist(coll, "Upsert") /\ memory' = memoryApplyDelta(coll)
    BY <1>2, <1>5 DEF ApplyDelta, shouldPersist, coll
  <2>2. batch' = coll /\ writing' = "Upsert" /\ Unwritten' = D
    BY <1>1, <2>1, PersistSorts
  <2>3. clean => \A i \in Items : db[i] = Serialized(memory[i])
    BY <1>2, <1>5 DEF PersistInv
  <2>4. \A i \in Items : memory'[i] = IF i \in D THEN Upserted(memory, i, coll[i])[i]
                                      ELSE memory[i]
    BY <1>1, <2>1 DEF memoryApplyDelta
  <2>5. ASSUME clean, NEW i \in D
        PROVE  Serialized(memory'[i]) = Upserted(db, i, Serialized(coll[i]))[i]
    <3>1. coll[i] \in Descriptors /\ memory[i] \in Descriptors /\ i \in Items
      BY <1>1 DEF StoreType
    <3>2. /\ Serialized(coll[i]).ver = coll[i].ver /\ Serialized(memory[i]).ver = memory[i].ver
          /\ db[i] = Serialized(memory[i])
      BY <2>3, <2>5, <3>1, SerializedKeeps
    <3>3. memory'[i] = IF memory[i].ver < coll[i].ver THEN coll[i] ELSE memory[i]
      BY <2>4, <3>1 DEF Upserted, StoreType
    <3>4. Upserted(db, i, Serialized(coll[i]))[i]
              = IF db[i].ver < Serialized(coll[i]).ver THEN Serialized(coll[i]) ELSE db[i]
      BY <3>1 DEF Upserted, StoreType
    <3> QED
      BY <3>2, <3>3, <3>4
  <2>6. ASSUME clean, NEW i \in Items \ D
        PROVE  db[i] = Serialized(memory'[i])
    BY <2>3, <2>4, <2>6
  <2>7. \A i \in D : (Upserted(db, i, Serialized(batch[i])))' = Upserted(db, i, Serialized(coll[i]))
    BY <1>2, <2>2 DEF Upserted, Serialized
  <2>8. \A i \in Items : (Serialized(memory[i]))' = Serialized(memory'[i])
    BY DEF Serialized
  <2>9. clean' => \A i \in Items :
            IF i \in DOMAIN batch'
            THEN /\ (Serialized(memory[i]))' = (Upserted(db, i, Serialized(batch[i]))[i])'
                 /\ i \in Unwritten'
            ELSE db'[i] = (Serialized(memory[i]))'
    BY <1>1, <1>2, <2>2, <2>5, <2>6, <2>7, <2>8
  <2> QED
    BY <1>1, <1>2, <1>5, <2>2, <2>9 DEF PersistInv
<1> QED
  BY <1>3, <1>4, <1>5

\* Writing an item takes it off the list of what the persistent store lacks.
LEMMA WritePersist ==
    ASSUME StoreType, PersistInv, InitItem \/ UpsertItem \/ UpsertFails
    PROVE  PersistInv'
<1> DEFINE i == Head(out)
<1>1. /\ i \in DOMAIN batch /\ i \in Items /\ Serialized(batch[i]) \in Rows
      /\ Unwritten = Unwritten' \cup {i}
      /\ UNCHANGED <<mode, memory, initialized, persist, batch, writing>>
  <2>1. i \in DOMAIN batch /\ Unwritten = Unwritten' \cup {i}
    BY TakingFirst DEF InitItem, UpsertItem, UpsertFails, PersistInv
  <2>2. Serialized(batch[i]) \in Rows
    BY <2>1, SerializedKeeps DEF StoreType
  <2> QED
    BY <2>1, <2>2 DEF InitItem, UpsertItem, UpsertFails, StoreType
<1>2. memorySetBasis(batch)' = memorySetBasis(batch)
  BY <1>1 DEF memorySetBasis
<1> DEFINE row(j) == Serialized(batch[j])
           mem(j) == Serialized(memory[j])
<1>0. \A j : /\ (Serialized(batch[j]))' = row(j)
             /\ (Serialized(memory[j]))' = mem(j)
  BY <1>1 DEF Serialized
<1> HIDE DEF i
<1>3. CASE InitItem
  <2>1. writing \in {"Init", "Commit"} /\ db' = [db EXCEPT ![i] = row(i)] /\ clean' = clean
    BY <1>3 DEF InitItem, i
  <2> HIDE DEF row
  <2>2. \A j \in Items : db'[j] = IF j = i THEN row(i) ELSE db[j]
    BY <2>1 DEF StoreType
  <2>3. writing = "Init" => \A j \in DOMAIN batch \ Unwritten' : db'[j] = row(j)
    BY <1>1, <2>2 DEF PersistInv, StoreType, row
  <2> QED
    BY <1>0, <1>1, <1>2, <2>1, <2>3 DEF PersistInv
<1>4. CASE UpsertItem
  <2>1. writing = "Upsert" /\ db' = Upserted(db, i, row(i)) /\ clean' = clean
    BY <1>4 DEF UpsertItem, i
  <2>0. clean => \A j \in Items :
            IF j \in DOMAIN batch
            THEN /\ mem(j) = Upserted(db, j, row(j))[j]
                 /\ j \notin Unwritten => db[j] = mem(j)
            ELSE db[j] = mem(j)
    BY <2>1 DEF PersistInv
  <2>5. row(i) \in Rows
    BY <1>1
  <2> HIDE DEF row, mem
  <2>2. /\ db' \in [Items -> Rows]
        /\ Upserted(db', i, row(i))[i] = db'[i]
        /\ \A j \in Items \ {i} : db'[j] = db[j]
    <3>1. db \in [Items -> Rows]
      BY DEF StoreType
    <3>2. /\ Upserted(db, i, row(i)) \in [Items -> Rows]
          /\ Upserted(Upserted(db, i, row(i)), i, row(i))[i] = Upserted(db, i, row(i))[i]
          /\ \A j \in Items \ {i} : Upserted(db, i, row(i))[j] = db[j]
      BY <1>1, <2>5, <3>1, UpsertRowOnce
    <3> QED
      BY <2>1, <3>2
  <2>3. ASSUME clean, NEW j \in Items
        PROVE  IF j \in DOMAIN batch
               THEN /\ mem(j) = Upserted(db', j, row(j))[j]
                    /\ j \notin Unwritten' => db'[j] = mem(j)
               ELSE db'[j] = mem(j)
    <3>1. CASE j = i
      BY <1>1, <2>0, <2>1, <2>2, <2>3, <3>1
    <3>2. CASE j # i /\ j \in DOMAIN batch
      <4>1. Upserted(db', j, row(j))[j] = Upserted(db, j, row(j))[j]
        BY <2>2, <3>2 DEF Upserted, StoreType
      <4> QED
        BY <1>1, <2>0, <2>2, <2>3, <3>2, <4>1
    <3>3. CASE j # i /\ j \notin DOMAIN batch
      BY <1>1, <2>0, <2>2, <2>3, <3>3
    <3> QED
      BY <3>1, <3>2, <3>3
  <2>4. \A j \in DOMAIN batch :
            (Upserted(db, j, Serialized(batch[j])))' = Upserted(db', j, row(j))
    BY <1>0, <1>1 DEF Upserted, row
  <2>6. clean' => \A j \in Items :
            IF j \in DOMAIN batch'
            THEN /\ (Serialized(memory[j]))' = (Upserted(db, j, Serialized(batch[j]))[j])'
                 /\ j \notin Unwritten' => db'[j] = (Serialized(memory[j]))'
            ELSE db'[j] = (Serialized(memory[j]))'
    BY <1>0, <1>1, <2>1, <2>3, <2>4
  <2> QED
    BY <1>1, <1>2, <2>1, <2>6 DEF PersistInv
<1>5. CASE UpsertFails
  <2>1. writing = "Upsert" /\ clean' = FALSE
    BY <1>5 DEF UpsertFails
  <2> QED
    BY <1>1, <1>2, <2>1 DEF PersistInv
<1> QED
  BY <1>3, <1>4, <1>5

\* When a write is over, the persistent store lacks nothing, unless it has failed.
LEMMA StoreActionPersist ==
    ASSUME StoreType, PersistInv, StoreAction
    PROVE  PersistInv'
<1>1. UNCHANGED <<mode, memory, initialized, persist>>
  BY StoreActionType DEF PersistInv
<1>2. CASE Sorts
  <2>1. UNCHANGED <<db, batch, writing, clean>> /\ Unwritten' = Unwritten
    BY <1>2, SortingKeeps DEF Sorts
  <2> QED
    BY <1>1, <2>1 DEF PersistInv, memorySetBasis, Upserted, Serialized
<1>3. CASE InitItem \/ UpsertItem \/ UpsertFails
  BY <1>3, WritePersist
<1>4. CASE InitRest
  <2>1. /\ writing' = "no" /\ Unwritten' = {} /\ memory = memorySetBasis(batch)
    BY <1>4, Forgetting DEF InitRest, PersistInv
  <2>2. \A i \in Items : db'[i] = IF i \in DOMAIN batch THEN Serialized(batch[i]) ELSE Absent
    BY <1>4 DEF InitRest
  <2>3. \A i \in Items : memory[i] = IF i \in DOMAIN batch THEN batch[i] ELSE Absent
    BY <2>1 DEF memorySetBasis
  <2>4. \A i \in Items : db'[i] = (Serialized(memory[i]))'
    BY <1>1, <2>2, <2>3, SerializedAbsent DEF Serialized
  <2> QED
    BY <1>1, <2>1, <2>4 DEF PersistInv
<1>5. CASE InitFails
  <2>1. writing' = "no" /\ clean' = FALSE /\ Unwritten' = {}
    BY <1>5, Forgetting DEF InitFails
  <2> QED
    BY <1>1, <2>1 DEF PersistInv
<1>6. CASE UpsertDone
  <2>1. /\ writing = "Upsert" /\ writing' = "no" /\ Unwritten' = {} /\ UNCHANGED <<db, clean>>
    BY <1>6, Forgetting DEF UpsertDone
  <2>2. Unwritten = {}
    BY <1>6 DEF UpsertDone, Sorted, Unwritten, Elements
  <2>3. clean => \A i \in Items : db[i] = Serialized(memory[i])
    BY <2>1, <2>2 DEF PersistInv
  <2>4. \A i \in Items : (Serialized(memory[i]))' = Serialized(memory[i])
    BY <1>1 DEF Serialized
  <2> QED
    BY <1>1, <2>1, <2>3, <2>4 DEF PersistInv
<1>7. CASE Commit
  <2>1. /\ batch' = GetAllKinds /\ writing' = "Commit" /\ writing = "no"
        /\ initialized /\ mode = "readwrite"
    BY <1>7 DEF Commit, PersistInv
  <2>2. memory' = (memorySetBasis(batch))'
    BY <1>1, <2>1, GetAllKindsType DEF memorySetBasis
  <2>3. remaining = {} /\ Elements(stack) = {}
    BY <2>1 DEF PersistInv, Unwritten
  <2>4. Unwritten' = DOMAIN batch'
    <3>1. /\ remaining' = remaining /\ stack' = stack /\ Elements(out') = DOMAIN batch'
      BY <1>7, CommitSorts
    <3>2. Unwritten' = remaining' \cup Elements(stack') \cup Elements(out')
      BY DEF Unwritten, Elements
    <3> QED
      BY <2>3, <3>1, <3>2
  <2> QED
    BY <1>1, <2>1, <2>2, <2>4 DEF PersistInv
<1> QED
  BY <1>2, <1>3, <1>4, <1>5, <1>6, <1>7 DEF StoreAction

\* A store that does not change keeps what it lacks.
LEMMA StoreUnchanged ==
    ASSUME PersistInv, UNCHANGED storeVars
    PROVE  PersistInv'
<1>1. Unwritten' = Unwritten
  BY DEF Unwritten, Elements, storeVars, sortVars
<1> QED
  BY <1>1 DEF PersistInv, storeVars, memorySetBasis, Upserted, Serialized

\* Every step of the specification, by what it does to the store
LEMMA NextCases ==
    ASSUME Next
    PROVE  \/ Publish \/ StreamControl \/ PollControl
           \/ ServerIntent \/ (\E i \in Items : Object(i)) \/ Handed \/ Panicked
           \/ PollChanges \/ PollFails
           \/ StoreAction /\ UNCHANGED <<source, hist, tx, pending, pc, etag>>
<1>1. CASE StoreStep \/ StoreFault \/ (Commit /\ UNCHANGED srcVars)
  BY <1>1 DEF StoreStep, StoreFault, StoreAction, srcVars
<1>2. CASE ~(StoreStep \/ StoreFault \/ (Commit /\ UNCHANGED srcVars))
  BY <1>2 DEF Next, Receive, StreamStep, PollStep, StreamControl, PollControl, Handed, Panicked
<1> QED
  BY <1>1, <1>2

\* The steps of the persistent store leave the protocol alone.
LEMMA StoreActionControl ==
    ASSUME ControlInv, PersistInv, StoreAction, UNCHANGED <<source, hist, tx, pending, pc, etag>>
    PROVE  ControlInv'
<1>1. StoreType' /\ UNCHANGED <<mode, memory, initialized, selector, persist, active>>
  BY StoreActionType DEF ControlInv, PersistInv
<1>2. HistoryInv' /\ SourceType'
  <2>1. HistoryInv /\ SourceType
    BY DEF ControlInv
  <2>2. HistoryInv'
    BY <2>1 DEF HistoryInv, Closed, Present
  <2>3. SourceType'
    BY <2>1 DEF SourceType
  <2> QED
    BY <2>2, <2>3
<1>3. ProtocolInv'
  BY <1>1 DEF ControlInv, ProtocolInv
<1> QED
  BY <1>1, <1>2, <1>3 DEF ControlInv

\* Initially a store has no data and lacks none.
LEMMA InitStore == Init => StoreInv
<1> SUFFICES ASSUME Init PROVE StoreInv
  OBVIOUS
<1>1. Unwritten = {}
  BY DEF Init, StoreInit, SortInit, Unwritten, Elements
<1> QED
  BY <1>1, InitControl DEF Init, StoreInit, StoreInv, PersistInv

\* Every step keeps the layers of types, history, protocol and persistence.
LEMMA StepStore ==
    ASSUME StoreInv, [Next]_vars
    PROVE  StoreInv'
<1> USE DEF StoreInv
<1>1. CASE Publish
  <2>1. UNCHANGED storeVars
    BY <1>1 DEF Publish
  <2> QED
    BY <1>1, <2>1, PublishControl, StoreUnchanged
<1>2. CASE StreamControl \/ PollControl
  BY <1>2, ControlSteps, ControlStepsControl, StoreUnchanged
<1>3. CASE ServerIntent
  BY <1>3, IntentOpens, IntentControl, StoreUnchanged
<1>4. ASSUME NEW i \in Items, Object(i)
      PROVE  StoreInv'
  BY <1>4, ObjectAdds, ObjectControl, StoreUnchanged
<1>5. CASE Handed
  <2>1. /\ StoreType /\ DOMAIN pending.objs \in SUBSET Items /\ tx.target \in Nat
        /\ pending.objs \in [DOMAIN pending.objs -> Events]
    BY ControlTypes DEF ControlInv, SourceType
  <2>2. \/ SetBasis(pending.objs, tx.target)
        \/ tx.code = "xfer-changes" /\ ApplyDelta(pending.objs, tx.target)
    BY <1>5, TransferredStores
  <2>3. tx.code = "xfer-changes" => initialized
    BY <1>5, TransferredStores DEF ControlInv, ProtocolInv
  <2> QED
    BY <1>5, <2>1, <2>2, <2>3, TransferredControl, ChangeSetPersist
<1>6. CASE PollChanges
  <2>1. PICK code \in Transfers :
            LET D == Objects(code, etag.of)
                events == [i \in D |-> Polled(hist[Current][i])]
            IN  /\ D \in SUBSET Items /\ events \in [D -> Events]
                /\ IF code = "xfer-full" THEN SetBasis(events, 0) ELSE ApplyDelta(events, 0)
                /\ code = "xfer-changes" => etag.of # 0 /\ ~etag.bad
    BY <1>6, PollStores
  <2>2. StoreType /\ source = "poll" /\ (etag.of # 0 /\ ~etag.bad => initialized)
    BY <1>6 DEF PollChanges, Polling, ControlInv, ProtocolInv
  <2>3. code = "xfer-full" \/ code = "xfer-changes"
    BY DEF Transfers
  <2> QED
    BY <1>6, <2>1, <2>2, <2>3, PollControlStep, ChangeSetPersist
<1>7. CASE PollFails
  <2>1. UNCHANGED storeVars
    BY <1>7 DEF PollFails
  <2> QED
    BY <1>7, <2>1, PollControlStep, StoreUnchanged
<1>8. CASE StoreAction /\ UNCHANGED <<source, hist, tx, pending, pc, etag>>
  BY <1>8, StoreActionControl, StoreActionPersist DEF ControlInv
<1>10. CASE Panicked
  BY <1>10, PanickedControl, StoreUnchanged
<1>9. CASE UNCHANGED vars
  <2>1. UNCHANGED storeVars /\ UNCHANGED <<source, hist, tx, pending, pc, etag>>
    BY <1>9 DEF vars, srcVars
  <2>2. HistoryInv'
    BY <2>1 DEF ControlInv, HistoryInv, Closed, Present
  <2>3. SourceType'
    BY <2>1 DEF ControlInv, SourceType
  <2>4. StoreType' /\ ProtocolInv'
    BY <2>1 DEF storeVars, sortVars, ControlInv, StoreType, ProtocolInv
  <2> QED
    BY <2>1, <2>2, <2>3, <2>4, StoreUnchanged DEF ControlInv
<1> QED
  BY <1>1, <1>2, <1>3, <1>4, <1>5, <1>6, <1>7, <1>8, <1>9, <1>10, NextCases

\* The inductive invariant holds of every behaviour, fair or not.
LEMMA StoreInvHolds == Spec => []StoreInv
<1>1. StoreInv /\ [Next]_vars => StoreInv'
  BY StepStore
<1> QED
  BY InitStore, <1>1, PTL DEF Spec

\* When no write to the persistent store has failed since the last complete Init,
\* it has what can be read of the memory store as soon as nothing is being written.
THEOREM PersistentStoreFollows == Spec => []PersistentStoreIsCurrent
<1>1. ASSUME StoreInv PROVE PersistentStoreIsCurrent
  <2> SUFFICES ASSUME initialized, mode = "readwrite", writing = "no", clean
               PROVE  Readable(db) = Readable(memory)
    BY DEF PersistentStoreIsCurrent
  <2>1. \A i \in Items : db[i] = Serialized(memory[i]) /\ memory[i] \in Descriptors
    BY <1>1 DEF StoreInv, ControlInv, StoreType, PersistInv
  <2>2. \A i \in Items : /\ db[i].ver = memory[i].ver
                         /\ db[i].item = "object" <=> memory[i].item = "object"
    BY <2>1, SerializedKeeps
  <2> QED
    BY <2>2 DEF Readable
<1> QED
  BY <1>1, StoreInvHolds, PTL

-----------------------------------------------------------------------------
(* What the memory store holds *)

\* Data that holds a payload has its versions; and if there are no descriptors in it,
\* readers can use what the payload has.
LEMMA HoldsIsHeld ==
    ASSUME NEW data, NEW p \in [Items -> Published], Holds(data, p)
    PROVE  Held(data) = Readable(p) /\ Held(data) = Held(p)
BY DEF Holds, Held, Readable, Published

LEMMA HeldIsReadable ==
    ASSUME NEW data \in [Items -> Descriptors], \A i \in Items : data[i].item # "descriptor"
    PROVE  Readable(data) = Held(data)
BY DEF Held, Readable, Descriptors

\* A full changeset makes the memory store hold the payload.
LEMMA BasisHolds ==
    ASSUME NEW p \in [Items -> Published], NEW events \in [Present(p) -> Events],
           \A i \in Present(p) : Carries(events[i], p[i])
    PROVE  Holds(memorySetBasis(ToStorableItems(events)), p)
<1>1. \A i \in Present(p) : /\ ToStorableItems(events)[i].ver = p[i].ver
                            /\ ToStorableItems(events)[i].item # "none"
  BY DEF ToStorableItems, Carries, Present
<1>2. DOMAIN ToStorableItems(events) = Present(p)
  BY DEF ToStorableItems
<1>3. \A i \in Items : p[i].ver \in Nat /\ (p[i].item = "object" <=> i \in Present(p))
  BY DEF Published, Present
<1>4. Absent.ver = 0 /\ Absent.item = "none"
  BY DEF Absent
<1> QED
  BY <1>1, <1>2, <1>3, <1>4 DEF Holds, memorySetBasis

\* Changes bring a memory store that holds a payload to a later one.
LEMMA DeltaHolds ==
    ASSUME memory \in [Items -> Descriptors],
           NEW p \in [Items -> Published], NEW q \in [Items -> Published],
           Holds(memory, p), \A i \in Items : p[i] = q[i] \/ p[i].ver < q[i].ver,
           NEW D \in SUBSET Items, NEW events \in [D -> Events],
           \A i \in D : Carries(events[i], q[i]), \A i \in Items \ D : p[i] = q[i]
    PROVE  Holds(memoryApplyDelta(ToStorableItems(events)), q)
<1> DEFINE coll == ToStorableItems(events)
           new == memoryApplyDelta(coll)
<1>1. DOMAIN coll = D
      /\ \A i \in D : /\ coll[i].ver = q[i].ver
                      /\ q[i].item = "object" => coll[i].item # "none"
                      /\ q[i].item = "none" => coll[i].item = "none"
  BY DEF ToStorableItems, Carries
<1> HIDE DEF coll
<1>2. \A i \in Items : /\ memory[i].ver \in Nat /\ p[i].ver \in Nat /\ q[i].ver \in Nat
                       /\ p[i].item \in {"object", "none"} /\ q[i].item \in {"object", "none"}
  BY DEF Published, Descriptors
<1>3. \A i \in D : new[i] = IF memory[i].ver < q[i].ver THEN coll[i] ELSE memory[i]
  BY <1>1 DEF memoryApplyDelta, Upserted
<1>4. \A i \in Items \ D : new[i] = memory[i]
  BY <1>1 DEF memoryApplyDelta
<1> HIDE DEF new
<1>5. ASSUME NEW i \in Items
      PROVE  IF q[i].item = "object"
             THEN new[i].ver = q[i].ver /\ new[i].item # "none"
             ELSE new[i].item = "none" /\ new[i].ver <= q[i].ver
  <2>1. IF p[i].item = "object"
        THEN memory[i].ver = p[i].ver /\ memory[i].item # "none"
        ELSE memory[i].item = "none" /\ memory[i].ver <= p[i].ver
    BY DEF Holds
  <2>2. CASE i \in D
    BY <1>1, <1>2, <1>3, <2>1, <2>2
  <2>3. CASE i \notin D
    BY <1>2, <1>4, <2>1, <2>3
  <2> QED
    BY <2>2, <2>3
<1> QED
  BY <1>5 DEF Holds, new, coll

\* A changeset brings in only the objects of its events.
LEMMA ObjectKinds ==
    ASSUME memory \in [Items -> Descriptors], NEW D \in SUBSET Items, NEW events \in [D -> Events],
           NEW kind \in {"object", "descriptor"},
           \A i \in D : events[i].object # kind
    PROVE  LET coll == ToStorableItems(events)
           IN  /\ \A i \in Items : memorySetBasis(coll)[i].item # kind
               /\ (\A i \in Items : memory[i].item # kind)
                     => \A i \in Items : memoryApplyDelta(coll)[i].item # kind
<1> DEFINE coll == ToStorableItems(events)
<1>1. DOMAIN coll = D /\ \A i \in D : coll[i].item # kind
  BY DEF ToStorableItems
<1> HIDE DEF coll
<1>2. \A i \in Items : memorySetBasis(coll)[i].item # kind
  BY <1>1 DEF memorySetBasis, Absent
<1>3. ASSUME \A i \in Items : memory[i].item # kind
      PROVE  \A i \in Items : memoryApplyDelta(coll)[i].item # kind
  BY <1>1, <1>3 DEF memoryApplyDelta, Upserted
<1> QED
  BY <1>2, <1>3 DEF coll

\* Both sources tell the store what the payload has.
LEMMA SourcesCarry ==
    ASSUME NEW d \in Published
    PROVE  /\ Carries(Deserialized(d, "no"), d) /\ Deserialized(d, "no").object # "descriptor"
           /\ Carries(Polled(d), d) /\ Polled(d).object # "object"
BY DEF Published, Carries, Deserialized, Polled, Event

\* A new payload changes none of the old ones.
LEMMA PublishData ==
    ASSUME DataInv, Publish
    PROVE  ChangeSetInv' /\ MemoryInv'
<1>1. ControlInv /\ Len(hist') = Len(hist) + 1 /\ \A n \in 1 .. Len(hist) : hist'[n] = hist[n]
  BY PublishHistory DEF DataInv, StoreInv, ControlInv
<1>2. UNCHANGED <<source, tx, pending, pc, etag, selector, memory, initialized>>
  BY DEF Publish, storeVars
<1>3. /\ selector # 0 => hist'[selector] = hist[selector]
      /\ etag.of # 0 => hist'[etag.of] = hist[etag.of]
      /\ \A m \in 1 .. etag.of : hist'[m] = hist[m]
      /\ tx.code \in Transfers => hist'[tx.target] = hist[tx.target]
      /\ tx.code = "xfer-changes" => selector # 0
  <2>1. /\ selector # 0 => selector \in 1 .. Len(hist)
        /\ etag.of # 0 => etag.of \in 1 .. Len(hist)
        /\ \A m \in 1 .. etag.of : m \in 1 .. Len(hist)
        /\ tx.code \in Transfers => tx.target \in 1 .. Len(hist)
    BY <1>1, ControlTypes
  <2> QED
    BY <1>1, <2>1 DEF ControlInv, ProtocolInv
<1>4. MemoryInv'
  BY <1>2, <1>3 DEF DataInv, MemoryInv, Holds
<1>5. ChangeSetInv'
  <2>1. tx.code \in Transfers => (Present(hist[tx.target]))' = Present(hist[tx.target])
    BY <1>2, <1>3 DEF Present
  <2> QED
    BY <1>2, <1>3, <2>1 DEF DataInv, ChangeSetInv, Deserialized, Event
<1> QED
  BY <1>4, <1>5

\* Errors, restarts and the like leave the data alone, and may drop a transfer.
LEMMA ControlStepsData ==
    ASSUME DataInv, StreamControl \/ PollControl
    PROVE  ChangeSetInv' /\ MemoryInv'
<1>1. /\ UNCHANGED <<source, hist, etag, storeVars>>
      /\ tx' = Start \/ pc' = "restart" \/ (pending' = pending /\ pc # "restart")
         \/ (pc' = pc /\ pending' = pending) \/ pending' = NoChangeSet
      /\ tx' \in {tx, Start}
  BY ControlSteps DEF DataInv, StoreInv
<1>2. MemoryInv'
  <2>1. UNCHANGED <<source, hist, etag, storeVars>>
    BY <1>1
  <2> QED
    BY <2>1 DEF DataInv, MemoryInv, storeVars, Holds
<1>3. ChangeSetInv'
  <2>1. CASE tx' = Start \/ pc' = "restart"
    BY <2>1 DEF ChangeSetInv, Start, Transfers
  <2>2. CASE tx' = tx /\ pending' = pending /\ (pc # "restart" \/ pc' = pc)
    BY <1>1, <2>2 DEF DataInv, ChangeSetInv, storeVars, Present, Deserialized, Event
  <2>3. CASE pending' = NoChangeSet
    BY <2>3 DEF ChangeSetInv, NoChangeSet
  <2> QED
    BY <1>1, <2>1, <2>2, <2>3
<1> QED
  BY <1>2, <1>3

\* An intent opens a changeset of which everything is still to come.
LEMMA IntentData ==
    ASSUME DataInv, ServerIntent
    PROVE  ChangeSetInv' /\ MemoryInv'
<1>1. UNCHANGED <<source, hist, etag, storeVars>> /\ Current = Len(hist)
  BY IntentOpens DEF DataInv, StoreInv
<1>2. MemoryInv'
  BY <1>1 DEF DataInv, MemoryInv, storeVars, Holds
<1>3. CASE tx' = [code |-> "idle", target |-> Current, todo |-> {}]
  BY <1>2, <1>3 DEF ChangeSetInv, Transfers
<1>4. ASSUME NEW code \in Transfers,
             tx' = [code |-> code, target |-> Current, todo |-> Objects(code, selector)],
             pending' = [intent |-> code, objs |-> NoBatch, bad |-> FALSE]
      PROVE  ChangeSetInv'
  <2>1. DOMAIN pending'.objs = {} /\ tx'.code = code /\ tx'.target = Current
        /\ tx'.todo = Objects(code, selector)
    BY <1>4, NoChangeSetType
  <2>2. code = "xfer-full" => (Present(hist[tx.target]))' = Objects(code, selector)
    BY <1>1, <2>1 DEF Objects, Present
  <2>3. code = "xfer-changes" =>
            \A i \in Items \ Objects(code, selector) : hist[Current][i] = hist[selector][i]
    BY DEF Objects
  <2> QED
    BY <1>1, <2>1, <2>2, <2>3 DEF ChangeSetInv, storeVars
<1> QED
  BY <1>2, <1>3, <1>4, IntentOpens DEF DataInv, StoreInv

\* An object of the payload is added to the changeset.
LEMMA ObjectData ==
    ASSUME "syntax" \notin Garbled, DataInv, NEW i \in Items, Object(i)
    PROVE  ChangeSetInv' /\ MemoryInv'
<1>1. /\ UNCHANGED <<source, hist, etag, storeVars>> /\ pc = "select" /\ i \in tx.todo
      /\ tx' = [code |-> tx.code, target |-> tx.target, todo |-> tx.todo \ {i}]
  BY ObjectAdds DEF DataInv, StoreInv
<1>2. MemoryInv'
  BY <1>1 DEF DataInv, MemoryInv, storeVars, Holds
<1>3. PICK broken \in {"no"} \cup Garbled :
          pending' = [intent |-> pending.intent,
                      objs |-> [j \in DOMAIN pending.objs \cup {i} |->
                                   IF j = i THEN Deserialized(hist[tx.target][i], broken)
                                   ELSE pending.objs[j]],
                      bad |-> pending.bad \/ broken = "object"]
  BY ObjectAdds DEF DataInv, StoreInv
<1>4. Deserialized(hist[tx.target][i], broken) = Deserialized(hist[tx.target][i], "no")
  BY DEF Deserialized
<1>5. /\ DOMAIN pending'.objs = DOMAIN pending.objs \cup {i}
      /\ \A j \in DOMAIN pending'.objs :
            pending'.objs[j] = IF j = i THEN Deserialized(hist[tx.target][i], "no")
                               ELSE pending.objs[j]
  BY <1>3, <1>4
<1>6. DOMAIN pending'.objs \cup tx'.todo = DOMAIN pending.objs \cup tx.todo
      /\ tx'.code = tx.code /\ tx'.target = tx.target /\ pending'.intent = pending.intent
  BY <1>1, <1>3, <1>5
<1>7. ChangeSetInv'
  BY <1>1, <1>5, <1>6 DEF DataInv, ChangeSetInv, storeVars, Present, Deserialized, Event
<1> QED
  BY <1>2, <1>7

\* A payload in the history says of each item no less than an earlier one.
LEMMA PayloadsGrow ==
    ASSUME ControlInv, NEW n \in 1 .. Len(hist), NEW m \in 1 .. n
    PROVE  /\ m \in 1 .. Len(hist)
           /\ hist[m] \in [Items -> Published] /\ hist[n] \in [Items -> Published]
           /\ \A i \in Items : hist[m][i] = hist[n][i] \/ hist[m][i].ver < hist[n][i].ver
<1>1. m \in 1 .. Len(hist)
  BY ControlTypes
<1> QED
  BY <1>1, ControlTypes DEF ControlInv, HistoryInv

\* The changeset of a complete transfer takes the store to the payload.
LEMMA TransferredHolds ==
    ASSUME DataInv, Handed
    PROVE  /\ Holds(memory', hist[tx.target])
           /\ \A i \in Items : memory'[i].item # "descriptor"
           /\ selector' = tx.target
<1>1. /\ tx.code \in Transfers /\ tx.todo = {} /\ pc # "restart" /\ source = "stream"
      /\ pending.intent # "nil"
      /\ \/ tx.code = "xfer-full" /\ SetBasis(pending.objs, tx.target)
         \/ tx.code = "xfer-changes" /\ ApplyDelta(pending.objs, tx.target)
      /\ tx.target \in 1 .. Len(hist) /\ selector <= tx.target /\ selector \in Nat
      /\ tx.target \in Nat
  BY TransferredStores, ControlTypes DEF DataInv, StoreInv, Handed
<1> DEFINE D == DOMAIN pending.objs
           q == hist[tx.target]
<1>2. /\ D \in SUBSET Items /\ pending.objs \in [D -> Events]
      /\ memory \in [Items -> Descriptors] /\ q \in [Items -> Published]
  BY <1>1, ControlTypes DEF DataInv, StoreInv, ControlInv, SourceType, StoreType
<1>3. \A i \in D : pending.objs[i] = Deserialized(q[i], "no")
  BY <1>1 DEF DataInv, ChangeSetInv
<1>4. \A i \in D : Carries(pending.objs[i], q[i]) /\ pending.objs[i].object # "descriptor"
  BY <1>2, <1>3, SourcesCarry
<1>5. CASE tx.code = "xfer-full"
  <2>1. SetBasis(pending.objs, tx.target) /\ D = Present(q)
    BY <1>1, <1>5 DEF DataInv, ChangeSetInv
  <2>2. memory' = memorySetBasis(ToStorableItems(pending.objs)) /\ selector' = tx.target
    BY <2>1 DEF SetBasis
  <2>3. Holds(memorySetBasis(ToStorableItems(pending.objs)), q)
    BY <1>2, <1>4, <2>1, BasisHolds
  <2>4. \A i \in Items : memorySetBasis(ToStorableItems(pending.objs))[i].item # "descriptor"
    BY <1>2, <1>4, ObjectKinds
  <2> QED
    BY <2>2, <2>3, <2>4
<1>6. CASE tx.code = "xfer-changes"
  <2>1. /\ ApplyDelta(pending.objs, tx.target) /\ selector # 0
        /\ \A i \in Items \ D : hist[selector][i] = q[i]
    <3>1. ApplyDelta(pending.objs, tx.target)
      BY <1>1, <1>6
    <3>2. selector # 0
      BY <1>6 DEF DataInv, StoreInv, ControlInv, ProtocolInv
    <3>3. \A i \in Items \ D : hist[selector][i] = q[i]
      BY <1>1, <1>6 DEF DataInv, ChangeSetInv
    <3> QED
      BY <3>1, <3>2, <3>3
  <2>2. memory' = memoryApplyDelta(ToStorableItems(pending.objs)) /\ selector' = tx.target
    BY <2>1 DEF ApplyDelta
  <2>3. selector \in 1 .. tx.target
    BY <1>1, <2>1
  <2>4. /\ hist[selector] \in [Items -> Published]
        /\ \A i \in Items : hist[selector][i] = q[i] \/ hist[selector][i].ver < q[i].ver
    BY <1>1, <2>3, PayloadsGrow DEF DataInv, StoreInv
  <2>5. /\ Holds(memory, hist[selector]) /\ \A i \in Items : memory[i].item # "descriptor"
    BY <1>1, <2>1 DEF DataInv, MemoryInv
  <2>6. Holds(memoryApplyDelta(ToStorableItems(pending.objs)), q)
    BY <1>2, <1>4, <2>1, <2>4, <2>5, DeltaHolds
  <2>7. \A i \in Items : memoryApplyDelta(ToStorableItems(pending.objs))[i].item # "descriptor"
    BY <1>2, <1>4, <2>5, ObjectKinds
  <2> QED
    BY <2>2, <2>6, <2>7
<1> QED
  BY <1>1, <1>5, <1>6

LEMMA PanickedData ==
    ASSUME DataInv, Panicked
    PROVE  ChangeSetInv' /\ MemoryInv'
<1>1. UNCHANGED <<source, hist, etag, storeVars>> /\ tx'.code = "idle"
  BY PanickedControl DEF DataInv, StoreInv
<1> QED
  BY <1>1 DEF DataInv, ChangeSetInv, MemoryInv, storeVars, Holds, Transfers

LEMMA TransferredData ==
    ASSUME DataInv, Handed
    PROVE  ChangeSetInv' /\ MemoryInv'
<1>1. /\ UNCHANGED <<source, hist>> /\ source = "stream"
      /\ tx' = [code |-> "idle", target |-> tx.target, todo |-> {}]
  BY TransferredStores DEF DataInv, StoreInv
<1>2. ChangeSetInv'
  BY <1>1 DEF ChangeSetInv, Transfers
<1>3. Holds(memory', hist'[selector'])
  BY <1>1, TransferredHolds
<1> QED
  BY <1>1, <1>2, <1>3, TransferredHolds DEF MemoryInv, Holds

\* The changeset of a response takes the store to the current payload.
LEMMA PollHolds ==
    ASSUME DataInv, PollChanges
    PROVE  /\ Holds(memory', hist[Current]) /\ \A i \in Items : memory'[i].item # "object"
<1>1. ControlInv /\ source = "poll" /\ MemoryInv
  BY DEF PollChanges, Polling, DataInv, StoreInv
<1>2. PICK code \in Transfers :
          LET D == Objects(code, etag.of)
              events == [i \in D |-> Polled(hist[Current][i])]
          IN  /\ D \in SUBSET Items /\ events \in [D -> Events]
              /\ IF code = "xfer-full" THEN SetBasis(events, 0) ELSE ApplyDelta(events, 0)
              /\ code = "xfer-changes" => etag.of # 0 /\ ~etag.bad
  BY <1>1, PollStores
<1> DEFINE D == Objects(code, etag.of)
           q == hist[Current]
           events == [i \in D |-> Polled(q[i])]
<1>3. /\ D \in SUBSET Items /\ events \in [D -> Events]
      /\ memory \in [Items -> Descriptors] /\ q \in [Items -> Published]
  BY <1>1, <1>2, ControlTypes DEF ControlInv, StoreType
<1>4. \A i \in D : Carries(events[i], q[i]) /\ events[i].object # "object"
  BY <1>3, SourcesCarry
<1>5. CASE code = "xfer-full"
  <2>1. SetBasis(events, 0) /\ D = Present(q)
    BY <1>2, <1>5 DEF Objects
  <2>2. memory' = memorySetBasis(ToStorableItems(events))
    BY <2>1 DEF SetBasis
  <2> HIDE DEF events, q
  <2>3. Holds(memorySetBasis(ToStorableItems(events)), q)
    BY <1>3, <1>4, <2>1, BasisHolds
  <2>4. \A i \in Items : memorySetBasis(ToStorableItems(events))[i].item # "object"
    BY <1>3, <1>4, ObjectKinds
  <2> QED
    BY <2>2, <2>3, <2>4 DEF q
<1>6. CASE code = "xfer-changes"
  <2>1. /\ ApplyDelta(events, 0) /\ etag.of # 0 /\ ~etag.bad
        /\ \A i \in Items \ D : hist[etag.of][i] = q[i]
    BY <1>2, <1>6 DEF Objects
  <2>2. memory' = memoryApplyDelta(ToStorableItems(events))
    BY <2>1 DEF ApplyDelta
  <2>3. etag.of \in 1 .. Current /\ Current \in 1 .. Len(hist)
    BY <1>1, <2>1, ControlTypes
  <2>4. /\ hist[etag.of] \in [Items -> Published]
        /\ \A i \in Items : hist[etag.of][i] = q[i] \/ hist[etag.of][i].ver < q[i].ver
    BY <1>1, <2>3, PayloadsGrow
  <2>5. /\ Holds(memory, hist[etag.of]) /\ \A i \in Items : memory[i].item # "object"
    BY <1>1, <2>1 DEF MemoryInv
  <2> HIDE DEF events, q
  <2>6. Holds(memoryApplyDelta(ToStorableItems(events)), q)
    BY <1>3, <1>4, <2>1, <2>4, <2>5, DeltaHolds
  <2>7. \A i \in Items : memoryApplyDelta(ToStorableItems(events))[i].item # "object"
    BY <1>3, <1>4, <2>5, ObjectKinds
  <2> QED
    BY <2>2, <2>6, <2>7 DEF q
<1> QED
  BY <1>5, <1>6 DEF Transfers

LEMMA PollData ==
    ASSUME DataInv, PollChanges \/ PollFails
    PROVE  ChangeSetInv' /\ MemoryInv'
<1>1. /\ UNCHANGED <<source, hist, tx>> /\ source = "poll" /\ tx = Start
      /\ Current = Len(hist) /\ Len(hist) \in Nat \ {0} /\ etag.of \in 0 .. Len(hist)
  BY ControlTypes DEF PollChanges, PollFails, OnlyPoll, Polling, DataInv, StoreInv, ControlInv,
     ProtocolInv
<1>2. ChangeSetInv'
  BY <1>1 DEF ChangeSetInv, Start, Transfers
<1>3. CASE PollChanges
  <2>1. etag'.of = Len(hist)
    BY <1>1, <1>3 DEF PollChanges
  <2>2. Holds(memory', hist'[Len(hist)]) /\ \A i \in Items : memory'[i].item # "object"
    BY <1>1, <1>3, PollHolds
  <2> QED
    BY <1>1, <1>2, <2>1, <2>2 DEF MemoryInv, Holds
<1>4. CASE PollFails
  <2>1. /\ UNCHANGED <<memory, initialized>>
        /\ etag' = etag \/ (etag'.of = Len(hist) /\ etag'.bad = TRUE)
    BY <1>1, <1>4 DEF PollFails, storeVars
  <2>2. 1 .. etag.of \subseteq 1 .. Len(hist)
    BY <1>1
  <2> QED
    BY <1>1, <1>2, <2>1, <2>2 DEF DataInv, MemoryInv, Holds
<1> QED
  BY <1>3, <1>4

\* Every step keeps all the layers, if no syntax error hides the fields of an object.
LEMMA StepData ==
    ASSUME "syntax" \notin Garbled, DataInv, [Next]_vars
    PROVE  DataInv'
<1>1. StoreInv'
  BY StepStore DEF DataInv
<1>2. CASE StoreAction /\ UNCHANGED <<source, hist, tx, pending, pc, etag>>
  <2>1. UNCHANGED <<memory, initialized, selector>>
    BY <1>2, StoreActionType DEF DataInv, StoreInv, ControlInv, PersistInv
  <2>2. MemoryInv' /\ ChangeSetInv'
    BY <1>2, <2>1 DEF DataInv, MemoryInv, ChangeSetInv, Holds, Present, Deserialized, Event
  <2> QED
    BY <1>1, <2>2 DEF DataInv
<1>3. CASE UNCHANGED vars
  <2>1. UNCHANGED <<source, hist, tx, pending, pc, etag>> /\ UNCHANGED <<memory, initialized, selector>>
    BY <1>3 DEF vars, srcVars, storeVars
  <2>2. MemoryInv' /\ ChangeSetInv'
    BY <2>1 DEF DataInv, MemoryInv, ChangeSetInv, Holds, Present, Deserialized, Event
  <2> QED
    BY <1>1, <2>2 DEF DataInv
<1> QED
  BY <1>1, <1>2, <1>3, NextCases, PublishData, ControlStepsData, IntentData, ObjectData,
     TransferredData, PanickedData, PollData DEF DataInv

\* Initially there is no data.
LEMMA InitData == Init => DataInv
<1> SUFFICES ASSUME Init PROVE DataInv
  OBVIOUS
<1>1. /\ tx = Start /\ selector = 0 /\ memory = Empty /\ initialized = FALSE
      /\ etag = [of |-> 0, bad |-> FALSE]
  BY DEF Init, StoreInit
<1>2. \A i \in Items : memory[i].item = "none"
  BY <1>1 DEF Empty, Absent
<1> QED
  BY <1>1, <1>2, InitStore DEF DataInv, ChangeSetInv, MemoryInv, Start, Transfers

\* The whole inductive invariant holds, if no syntax error hides an object's fields.
LEMMA DataInvHolds ==
    ASSUME "syntax" \notin Garbled
    PROVE  Spec => []DataInv
<1>1. DataInv /\ [Next]_vars => DataInv'
  BY StepData
<1> QED
  BY InitData, <1>1, PTL DEF Spec

\* The selector with which a data source resumes is that of the data the memory
\* store holds, after any sequence of transfers, errors and restarts.
THEOREM SelectorNamesData ==
    ASSUME "syntax" \notin Garbled
    PROVE  Spec => []SelectorIdentifiesData
<1>1. DataInv => SelectorIdentifiesData
  <2> SUFFICES ASSUME DataInv, selector # 0
               PROVE  Readable(memory) = Readable(hist[selector])
    BY DEF SelectorIdentifiesData
  <2>1. /\ source = "stream" /\ Holds(memory, hist[selector])
        /\ memory \in [Items -> Descriptors] /\ \A i \in Items : memory[i].item # "descriptor"
    BY DEF DataInv, StoreInv, ControlInv, SourceType, StoreType, ProtocolInv, MemoryInv
  <2>2. hist[selector] \in [Items -> Published]
    BY ControlTypes DEF DataInv, StoreInv
  <2> QED
    BY <2>1, <2>2, HoldsIsHeld, HeldIsReadable
<1> QED
  BY <1>1, DataInvHolds, PTL

-----------------------------------------------------------------------------
(* The data system implements PayloadStore *)

(* The versions that the memory store has follow the history of the service; what is    *)
(* seen according to either refinement is these versions, or nothing.                     *)
HeldPayload == IF initialized THEN {Held(memory)} ELSE {}
SeenPayload ==
    IF source = "stream" /\ active = "memory" /\ initialized THEN {View} ELSE {}
PolledPayload == IF source = "poll" /\ initialized THEN {Held(memory)} ELSE {}

Publishes ==
    /\ \E p \in [Items -> 0 .. MaxPayloads] : History' = Append(History, p)
    /\ UNCHANGED HeldPayload
Serves ==
    /\ \E n \in DOMAIN History :
          /\ HeldPayload = {} \/ \E m \in 1 .. n : HeldPayload = {History[m]}
          /\ HeldPayload' = {History[n]}
    /\ UNCHANGED History

\* What readers see of a payload is a payload of the abstract specification.
LEMMA ReadableType ==
    ASSUME ControlInv, NEW n \in 1 .. Len(hist)
    PROVE  Readable(hist[n]) \in [Items -> 0 .. MaxPayloads]
<1>1. hist[n] \in [Items -> Published] /\ n <= MaxPayloads /\ n \in Nat
  BY ControlTypes, BoundsAssumption DEF ControlInv, HistoryInv
<1>2. \A i \in Items : hist[n][i].ver \in 0 .. MaxPayloads
  BY <1>1, BoundsAssumption DEF ControlInv, HistoryInv, Published
<1> QED
  BY <1>2, BoundsAssumption DEF Readable

\* The service begins with one payload, of which nothing is seen.
LEMMA RefinesInit == Init => Payload!Init /\ Contents!Init
<1> SUFFICES ASSUME Init PROVE Payload!Init /\ Contents!Init
  OBVIOUS
<1>1. ControlInv
  BY InitControl
<1>2. Len(hist) = 1 /\ DOMAIN hist = 1 .. 1
  <2>1. PICK p \in {Empty, Full} : hist = <<p>>
    BY DEF Init
  <2> QED
    BY <2>1
<1>3. Readable(hist[1]) \in [Items -> 0 .. MaxPayloads]
  BY <1>1, <1>2, ReadableType
<1>4. History = <<Readable(hist[1])>>
  BY <1>2 DEF History
<1>5. initialized = FALSE
  BY DEF Init, StoreInit
<1> QED
  BY <1>3, <1>4, <1>5 DEF Payload!Init, Contents!Init

\* A step that changes neither the history nor the memory store is not visible.
LEMMA Invisible ==
    ASSUME UNCHANGED <<hist, memory, initialized>>
    PROVE  UNCHANGED <<History, HeldPayload>>
BY DEF History, HeldPayload, Readable, Held

\* Appending to a sequence given as a function
LEMMA AppendFunction ==
    ASSUME NEW S, NEW n \in Nat, NEW f \in [1 .. n -> S], NEW x \in S
    PROVE  /\ Append(f, x) \in [1 .. n + 1 -> S]
           /\ \A k \in 1 .. n + 1 : Append(f, x)[k] = IF k = n + 1 THEN x ELSE f[k]
<1>1. f \in Seq(S)
  BY SeqDef
<1>2. Len(f) = n
  BY <1>1, LenProperties
<1>3. Append(f, x) \in Seq(S) /\ Len(Append(f, x)) = n + 1
  BY <1>1, <1>2
<1>4. \A k \in 1 .. n + 1 : Append(f, x)[k] = IF k = n + 1 THEN x ELSE f[k]
  BY <1>1, <1>2
<1>5. Append(f, x) \in [1 .. n + 1 -> S]
  BY <1>3, LenProperties
<1> QED
  BY <1>4, <1>5

\* Publishing appends to the visible history.
LEMMA PublishIsVisible ==
    ASSUME DataInv, DataInv', Publish
    PROVE  Publishes
<1>1. /\ ControlInv /\ Len(hist') = Len(hist) + 1 /\ Len(hist) \in Nat
      /\ \A n \in 1 .. Len(hist) : hist'[n] = hist[n]
      /\ hist \in Seq([Items -> Published]) /\ hist' \in Seq([Items -> Published])
  <2>1. ControlInv /\ HistoryInv /\ HistoryInv'
    BY DEF DataInv, StoreInv, ControlInv
  <2>2. Len(hist') = Len(hist) + 1 /\ \A n \in 1 .. Len(hist) : hist'[n] = hist[n]
    BY <2>1, PublishHistory
  <2> QED
    BY <2>1, <2>2 DEF HistoryInv
<1>2. UNCHANGED <<memory, active, initialized>>
  BY DEF Publish, storeVars
<1> DEFINE p == Readable(hist'[Len(hist) + 1])
<1>3. p \in [Items -> 0 .. MaxPayloads]
  <2>1. hist'[Len(hist) + 1] \in [Items -> Published]
    BY <1>1
  <2>2. Len(hist) + 1 <= MaxPayloads
    BY <1>1, BoundsAssumption DEF DataInv, StoreInv, ControlInv, HistoryInv
  <2>3. \A i \in Items : hist'[Len(hist) + 1][i].ver <= Len(hist) + 1
    BY <1>1 DEF DataInv, StoreInv, ControlInv, HistoryInv
  <2>4. \A i \in Items : hist'[Len(hist) + 1][i].ver \in 0 .. MaxPayloads
    BY <1>1, <2>1, <2>2, <2>3, BoundsAssumption DEF Published
  <2> QED
    BY <2>4, BoundsAssumption DEF Readable
<1> HIDE DEF p
<1>4. History' = Append(History, p)
  <2>1. DOMAIN hist = 1 .. Len(hist) /\ DOMAIN hist' = 1 .. Len(hist) + 1
    BY <1>1
  <2>2. History \in [1 .. Len(hist) -> [Items -> 0 .. MaxPayloads]]
    <3>1. \A n \in 1 .. Len(hist) : Readable(hist[n]) \in [Items -> 0 .. MaxPayloads]
      BY <1>1, ReadableType
    <3> QED
      BY <2>1, <3>1 DEF History
  <2>3. History' = [n \in 1 .. Len(hist) + 1 |-> Readable(hist'[n])]
    BY <2>1 DEF History, Readable
  <2>4. /\ Append(History, p) \in [1 .. Len(hist) + 1 -> [Items -> 0 .. MaxPayloads]]
        /\ \A n \in 1 .. Len(hist) + 1 :
              Append(History, p)[n] = IF n = Len(hist) + 1 THEN p ELSE History[n]
    <3> DEFINE N == Len(hist)
               P == [Items -> 0 .. MaxPayloads]
    <3>1. N \in Nat /\ History \in [1 .. N -> P] /\ p \in P
      BY <1>1, <1>3, <2>2
    <3> HIDE DEF N, P
    <3>2. /\ Append(History, p) \in [1 .. N + 1 -> P]
          /\ \A k \in 1 .. N + 1 :
                Append(History, p)[k] = IF k = N + 1 THEN p ELSE History[k]
      BY <3>1, AppendFunction
    <3> QED
      BY <3>2 DEF N, P
  <2>5. \A n \in 1 .. Len(hist) : History[n] = Readable(hist[n]) /\ hist'[n] = hist[n]
    BY <1>1, <2>1 DEF History
  <2>6. \A n \in 1 .. Len(hist) + 1 : n = Len(hist) + 1 \/ n \in 1 .. Len(hist)
    BY <1>1
  <2>7. ASSUME NEW n \in 1 .. Len(hist) + 1
        PROVE  Readable(hist'[n]) = IF n = Len(hist) + 1 THEN p ELSE History[n]
    BY <2>5, <2>6 DEF p
  <2> QED
    BY <2>3, <2>4, <2>7
<1>5. UNCHANGED HeldPayload
  BY <1>2 DEF HeldPayload, Held
<1> QED
  BY <1>3, <1>4, <1>5 DEF Publishes

\* A complete changeset serves a payload, which is no older than the one seen before.
LEMMA ServingIsVisible ==
    ASSUME DataInv, DataInv', Handed \/ PollChanges
    PROVE  Serves
<1>1. UNCHANGED hist /\ ControlInv /\ ControlInv'
  BY DEF Handed, Transferred, OnlyStream, PollChanges, OnlyPoll, DataInv, StoreInv
<1>2. DOMAIN hist = 1 .. Len(hist) /\ Len(hist) \in Nat \ {0} /\ Current = Len(hist)
  BY <1>1, ControlTypes DEF ControlInv, HistoryInv
<1>3. ASSUME NEW n \in 1 .. Len(hist), Holds(memory', hist[n]),
             initialized' = TRUE,
             initialized => \E m \in 1 .. n : Holds(memory, hist[m])
      PROVE  Serves
  <2>2. HeldPayload' = {History[n]}
    <3>1. Held(memory') = Readable(hist[n])
      BY <1>1, <1>3, ControlTypes, HoldsIsHeld
    <3>2. HeldPayload' = {Held(memory')}
      BY <1>3 DEF HeldPayload, Held
    <3> QED
      BY <1>2, <3>1, <3>2 DEF History
  <2>3. HeldPayload = {} \/ \E m \in 1 .. n : HeldPayload = {History[m]}
    <3>1. CASE ~initialized
      BY <3>1 DEF HeldPayload
    <3>2. CASE initialized
      <4>1. PICK m \in 1 .. n : Holds(memory, hist[m])
        BY <1>3, <3>2
      <4>2. m \in 1 .. Len(hist) /\ hist[m] \in [Items -> Published]
        BY <1>1, PayloadsGrow
      <4>3. Held(memory) = Readable(hist[m])
        BY <4>1, <4>2, HoldsIsHeld
      <4>4. HeldPayload = {Held(memory)}
        BY <3>2 DEF HeldPayload
      <4> QED
        BY <1>2, <4>2, <4>3, <4>4 DEF History
    <3> QED
      BY <3>1, <3>2
  <2>4. History' = History /\ DOMAIN History = 1 .. Len(hist)
    BY <1>1, <1>2 DEF History, Readable
  <2> QED
    BY <2>2, <2>3, <2>4 DEF Serves
<1>4. CASE Handed
  <2>1. /\ tx.target \in 1 .. Len(hist) /\ selector <= tx.target /\ source = "stream"
        /\ source' = "stream" /\ selector \in Nat /\ tx.target \in Nat
    BY <1>1, <1>4, TransferredStores, ControlTypes
  <2>2. Holds(memory', hist[tx.target]) /\ selector' = tx.target
    BY <1>4, TransferredHolds
  <2>3. initialized' = TRUE
    BY <1>1, <2>1, <2>2 DEF ControlInv, ProtocolInv, StoreType
  <2>4. initialized => selector \in 1 .. tx.target /\ Holds(memory, hist[selector])
    BY <1>1, <2>1 DEF ControlInv, ProtocolInv, DataInv, MemoryInv
  <2> QED
    BY <1>3, <2>1, <2>2, <2>3, <2>4
<1>5. CASE PollChanges
  <2>1. /\ source = "poll" /\ source' = "poll" /\ etag'.of = Len(hist) /\ ~etag'.bad
    BY <1>2, <1>5 DEF PollChanges, Polling, OnlyPoll
  <2>2. Holds(memory', hist[Len(hist)])
    BY <1>2, <1>5, PollHolds
  <2>3. initialized' = TRUE
    BY <1>1, <1>2, <2>1 DEF ControlInv, ProtocolInv, StoreType
  <2>4. initialized => \E m \in 1 .. etag.of : Holds(memory, hist[m])
    BY <2>1 DEF DataInv, MemoryInv
  <2>5. 1 .. etag.of \subseteq 1 .. Len(hist) /\ Len(hist) \in 1 .. Len(hist)
    BY <1>1, <1>2, ControlTypes
  <2> QED
    BY <1>3, <2>2, <2>3, <2>4, <2>5
<1> QED
  BY <1>4, <1>5

\* Every step publishes, serves, or is not visible.
LEMMA StepVisible ==
    ASSUME DataInv, DataInv', [Next]_vars
    PROVE  Publishes \/ Serves \/ UNCHANGED <<History, HeldPayload>>
<1>1. CASE Publish
  BY <1>1, PublishIsVisible
<1>2. CASE Handed \/ PollChanges
  BY <1>2, ServingIsVisible
<1>3. ASSUME UNCHANGED hist /\ UNCHANGED storeVars
      PROVE  UNCHANGED <<History, HeldPayload>>
  BY <1>3, Invisible DEF storeVars
<1>4. CASE StreamControl \/ PollControl \/ ServerIntent \/ (\E i \in Items : Object(i)) \/ PollFails
           \/ Panicked \/ UNCHANGED vars
  <2>1. UNCHANGED hist /\ UNCHANGED storeVars
    BY <1>4, ControlSteps, IntentOpens, ObjectAdds, PanickedControl
    DEF DataInv, StoreInv, PollFails, OnlyPoll, vars, srcVars
  <2> QED
    BY <1>3, <2>1
<1>5. CASE StoreAction /\ UNCHANGED <<source, hist, tx, pending, pc, etag>>
  <2>1. UNCHANGED <<hist, memory, initialized>>
    BY <1>5, StoreActionType DEF DataInv, StoreInv, ControlInv, PersistInv
  <2> QED
    BY <2>1, Invisible
<1> QED
  BY <1>1, <1>2, <1>4, <1>5, NextCases

\* What either refinement takes for seen
SeenInv ==
    /\ source = "stream" => SeenPayload = HeldPayload /\ PolledPayload = {}
    /\ source = "poll" => SeenPayload = {} /\ PolledPayload = HeldPayload
    /\ source \in {"stream", "poll"}

LEMMA SeenIsHeld == DataInv => SeenInv
<1> SUFFICES ASSUME DataInv PROVE SeenInv
  OBVIOUS
<1>1. source \in {"stream", "poll"} /\ (initialized => active = "memory")
  BY DEF DataInv, StoreInv, ControlInv, SourceType, ProtocolInv
<1>2. source = "stream" => Readable(memory) = Held(memory)
  BY HeldIsReadable DEF DataInv, StoreInv, ControlInv, StoreType, MemoryInv
<1> QED
  BY <1>1, <1>2 DEF SeenInv, SeenPayload, PolledPayload, HeldPayload, View

\* Every step is one of the abstract specification, or not visible, in both refinements.
LEMMA RefinesStep ==
    ASSUME DataInv, DataInv', SeenInv, SeenInv', [Next]_vars
    PROVE  /\ [Payload!Next]_<<History, SeenPayload>>
           /\ [Contents!Next]_<<History, PolledPayload>>
<1>1. Publishes \/ Serves \/ UNCHANGED <<History, HeldPayload>>
  BY StepVisible
<1>2. source' = source
  BY DEF Next, Receive, StreamStep, PollStep, StoreStep, StoreFault, Publish, Connect,
     RecoverableError, UnrecoverableError, ServerIntent, Object, Transferred, Malformed, ErrorEvent,
     OtherEvent, Notify, Processed, Restart, EndOfStream, PollCached, PollChanges, PollFails,
     PollGivesUp, PollValid, PollNotify, PollQuits, Close, CloseOff, OnlyStream, OnlyPoll, srcVars,
     vars
<1>3. /\ source = "stream" => SeenPayload = HeldPayload /\ PolledPayload = {}
      /\ source = "poll" => SeenPayload = {} /\ PolledPayload = HeldPayload
      /\ source \in {"stream", "poll"}
  BY DEF SeenInv
<1>4. /\ source' = "stream" => SeenPayload' = HeldPayload' /\ PolledPayload' = {}
      /\ source' = "poll" => SeenPayload' = {} /\ PolledPayload' = HeldPayload'
  BY DEF SeenInv
<1>5. CASE Publishes
  <2>1. UNCHANGED SeenPayload /\ UNCHANGED PolledPayload
    BY <1>2, <1>3, <1>4, <1>5 DEF Publishes
  <2> QED
    BY <1>5, <2>1 DEF Publishes, Payload!Next, Payload!Publish, Contents!Next, Contents!Publish,
                      SeenPayload, PolledPayload
<1>6. CASE Serves
  <2>1. CASE source = "stream"
    <3>1. /\ SeenPayload = HeldPayload /\ SeenPayload' = HeldPayload'
          /\ UNCHANGED <<History, PolledPayload>>
      BY <1>2, <1>3, <1>4, <1>6, <2>1 DEF Serves
    <3>2. Payload!Serve
      BY <1>6, <3>1 DEF Serves, Payload!Serve, SeenPayload
    <3> QED
      BY <3>1, <3>2 DEF Payload!Next
  <2>2. CASE source = "poll"
    <3>1. /\ PolledPayload = HeldPayload /\ PolledPayload' = HeldPayload'
          /\ UNCHANGED <<History, SeenPayload>>
      BY <1>2, <1>3, <1>4, <1>6, <2>2 DEF Serves
    <3>2. Contents!Serve
      BY <1>6, <3>1 DEF Serves, Contents!Serve, PolledPayload
    <3> QED
      BY <3>1, <3>2 DEF Contents!Next
  <2> QED
    BY <1>3, <2>1, <2>2
<1>7. CASE UNCHANGED <<History, HeldPayload>>
  BY <1>2, <1>3, <1>4, <1>7
<1> QED
  BY <1>1, <1>5, <1>6, <1>7

\* The refinement: whatever happens to changesets on their way, the readers of a data
\* system that streams see no payload or a whole one, and never an older one than before.
THEOREM ImplementsPayloadStore ==
    ASSUME "syntax" \notin Garbled
    PROVE  Spec => SeesWholePayloads
<1>1. DataInv /\ DataInv' /\ SeenInv /\ SeenInv' /\ [Next]_vars
          => [Payload!Next]_<<History,
                 IF source = "stream" /\ active = "memory" /\ initialized THEN {View} ELSE {}>>
  BY RefinesStep DEF SeenPayload
<1> QED
  BY RefinesInit, <1>1, SeenIsHeld, DataInvHolds, PTL DEF SeesWholePayloads, Payload!Spec, Spec

\* The same of the versions that a data system which polls has in its memory store, over
\* responses of all kinds, and those that the HTTP cache answers or keeps unparsed.
THEOREM PolledVersionsAreWhole ==
    ASSUME "syntax" \notin Garbled
    PROVE  Spec => HoldsWholePayloads
<1>1. DataInv /\ DataInv' /\ SeenInv /\ SeenInv' /\ [Next]_vars
          => [Contents!Next]_<<History,
                 IF source = "poll" /\ initialized THEN {Held(memory)} ELSE {}>>
  BY RefinesStep DEF PolledPayload
<1> QED
  BY RefinesInit, <1>1, SeenIsHeld, DataInvHolds, PTL DEF HoldsWholePayloads, Contents!Spec, Spec

-----------------------------------------------------------------------------
(* The order in which the persistent store is written *)

\* References have no cycles, and segments refer to nothing: Sort follows the
\* references of flags only (doesDataKindSupportDependencies).
Ranked(rank) ==
    /\ rank \in [Items -> Nat]
    /\ \A i \in Items : \A r \in Refs[i] : rank[r] < rank[i]
    /\ \A i \in Segments : Refs[i] = {}

\* The calls on the stack have ever smaller ranks; what an item in the result
\* refers to is before it in the result, or has been written.
NeighborsInv == neighbors = [i \in DOMAIN batch |-> GetNeighbors(i, batch[i])]
StackInv(rank) == \A j, k \in 1 .. Len(stack) : j < k => rank[stack[k]] < rank[stack[j]]
ResultInv ==
    \A k \in 1 .. Len(out) : \A r \in neighbors[out[k]] :
        /\ r \notin remaining /\ r \notin Elements(stack)
        /\ \A j \in k .. Len(out) : out[j] # r
OrderInv(rank) ==
    writing \in {"Init", "Upsert"} => NeighborsInv /\ StackInv(rank) /\ ResultInv

\* What is being sorted has a rank, and refers to what has a smaller one.
LEMMA NeighborsRank ==
    ASSUME NEW rank, Ranked(rank), StoreType, PersistInv, writing \in {"Init", "Upsert"},
           OrderInv(rank), NEW i \in Unwritten
    PROVE  /\ i \in Items /\ rank[i] \in Nat
           /\ \A r \in neighbors[i] : r \in Items /\ rank[r] \in Nat /\ rank[r] < rank[i]
<1>1. i \in DOMAIN batch /\ i \in Items
  BY DEF PersistInv, StoreType
<1>2. neighbors[i] \subseteq Refs[i]
  BY <1>1 DEF OrderInv, NeighborsInv, GetNeighbors
<1> QED
  BY <1>1, <1>2, RefsAssumption DEF Ranked

\* The items on the stack and in the result are unwritten.
LEMMA Places ==
    ASSUME StoreType
    PROVE  /\ Len(stack) \in Nat /\ Len(out) \in Nat
           /\ DOMAIN stack = 1 .. Len(stack) /\ DOMAIN out = 1 .. Len(out)
           /\ \A k \in 1 .. Len(stack) : stack[k] \in Elements(stack) /\ stack[k] \in Unwritten
           /\ \A k \in 1 .. Len(out) : out[k] \in Elements(out) /\ out[k] \in Unwritten
<1>1. /\ Len(stack) \in Nat /\ Len(out) \in Nat
      /\ DOMAIN stack = 1 .. Len(stack) /\ DOMAIN out = 1 .. Len(out)
  BY DEF StoreType
<1> QED
  BY <1>1 DEF Unwritten, Elements

\* Sort begins with the segments, which refer to nothing.
LEMMA SortOrder ==
    ASSUME NEW rank, Ranked(rank), NEW D \in SUBSET Items, NEW coll \in [D -> Descriptors],
           NEW call, Persist(coll, call), shouldPersist
    PROVE  OrderInv(rank)'
<1>1. /\ batch' = coll /\ stack' = <<>>
      /\ out' \in Seq(Items) /\ Elements(out') = Segments \cap D
      /\ neighbors' = [i \in D |-> GetNeighbors(i, coll[i])]
  BY PersistSorts
<1>2. neighbors' = [i \in DOMAIN batch |-> GetNeighbors(i, batch[i])]'
  BY <1>1 DEF GetNeighbors
<1>3. Len(stack') = 0 /\ Len(out') \in Nat /\ DOMAIN out' = 1 .. Len(out')
  BY <1>1
<1>4. \A k \in 1 .. Len(out') : out'[k] \in Segments \cap D
  BY <1>1, <1>3 DEF Elements
<1>5. \A i \in Segments \cap D : neighbors'[i] = {}
  BY <1>1 DEF GetNeighbors, Ranked
<1>6. \A j, k \in 1 .. Len(stack') : FALSE
  BY <1>3
<1> QED
  BY <1>2, <1>4, <1>5, <1>6 DEF OrderInv, NeighborsInv, StackInv, ResultInv

\* The depth-first visit keeps the order.
LEMMA VisitOrder ==
    ASSUME NEW rank, Ranked(rank), StoreType, PersistInv, OrderInv(rank),
           writing \in {"Init", "Upsert"}, UNCHANGED <<batch, writing>>,
           Pick \/ Descend
    PROVE  OrderInv(rank)'
<1>1. PICK i \in remaining :
          /\ Visit(i)
          /\ stack # <<>> => i \in neighbors[Top]
  BY DEF Pick, Descend, Visit
<1>2. /\ remaining' = remaining \ {i} /\ stack' = Append(stack, i)
      /\ UNCHANGED <<neighbors, out>>
  BY <1>1 DEF Visit
<1> DEFINE L == Len(stack)
<1>3. /\ L \in Nat /\ Len(stack') = L + 1 /\ stack'[L + 1] = i
      /\ \A k \in 1 .. L : stack'[k] = stack[k]
      /\ Elements(stack') = Elements(stack) \cup {i}
  BY <1>2, ElementsOfSequences DEF StoreType
<1>4. \A k \in 1 .. L : rank[i] < rank[stack[k]]
  <2> SUFFICES ASSUME NEW k \in 1 .. L
               PROVE  rank[i] < rank[stack[k]]
    OBVIOUS
  <2>1. L \in 1 .. L /\ stack # <<>>
    BY <1>3
  <2>2. Top \in Unwritten /\ Top = stack[L] /\ stack[k] \in Unwritten
    BY <2>1, Places DEF Top
  <2>3. /\ rank[Top] \in Nat /\ rank[i] \in Nat /\ rank[i] < rank[Top] /\ rank[stack[k]] \in Nat
    BY <1>1, <2>1, <2>2, NeighborsRank
  <2>4. k = L \/ rank[stack[L]] < rank[stack[k]]
    BY <1>3, <2>1 DEF OrderInv, StackInv
  <2> QED
    BY <2>2, <2>3, <2>4
<1>5. StackInv(rank)'
  <2> SUFFICES ASSUME NEW j \in 1 .. L + 1, NEW k \in 1 .. L + 1, j < k
               PROVE  rank[stack'[k]] < rank[stack'[j]]
    BY <1>3 DEF StackInv
  <2>1. j \in 1 .. L /\ (k = L + 1 \/ k \in 1 .. L)
    BY <1>3
  <2> QED
    BY <1>3, <1>4, <2>1 DEF OrderInv, StackInv
<1>6. ResultInv'
  BY <1>1, <1>2, <1>3 DEF OrderInv, ResultInv
<1>7. NeighborsInv'
  BY <1>2 DEF OrderInv, NeighborsInv, GetNeighbors
<1> QED
  BY <1>5, <1>6, <1>7 DEF OrderInv

\* An item is appended when what it refers to has been visited: that is neither
\* left to visit nor on the stack, where the ranks are greater.
LEMMA AppendOrder ==
    ASSUME NEW rank, Ranked(rank), StoreType, PersistInv, OrderInv(rank),
           writing \in {"Init", "Upsert"}, UNCHANGED <<batch, writing>>,
           AppendItem
    PROVE  OrderInv(rank)'
<1> DEFINE L == Len(stack)
           M == Len(out)
<1>1. /\ stack # <<>> /\ neighbors[Top] \cap remaining = {}
      /\ out' = Append(out, Top) /\ stack' = SubSeq(stack, 1, L - 1)
      /\ UNCHANGED <<neighbors, remaining>>
  BY DEF AppendItem
<1>2. stack \in Seq(Items) /\ out \in Seq(Items)
  BY DEF StoreType
<1>3. L \in Nat \ {0} /\ M \in Nat
  BY <1>1, <1>2, EmptySeq
<1>4. /\ stack' \in Seq(Items) /\ Elements(stack) = Elements(stack') \cup {Top} /\ Top \in Items
  BY <1>1, <1>2, ElementsOfSequences DEF Top
<1>5. Len(stack') = L - 1 /\ \A k \in 1 .. L - 1 : stack'[k] = stack[k]
  BY <1>1, <1>2, ButLast
<1>6. Len(out') = M + 1 /\ out'[M + 1] = Top /\ \A k \in 1 .. M : out'[k] = out[k]
  <2>1. out' = Append(out, Top)
    BY <1>1
  <2> QED
    BY <1>2, <1>3, <1>4, <2>1
<1>7. StackInv(rank)'
  BY <1>3, <1>5 DEF OrderInv, StackInv
<1>8. NeighborsInv'
  BY <1>1 DEF OrderInv, NeighborsInv, GetNeighbors
<1>9. \A r \in neighbors[Top] : r \notin remaining /\ r \notin Elements(stack)
  <2> SUFFICES ASSUME NEW r \in neighbors[Top], r \in Elements(stack)
               PROVE  FALSE
    BY <1>1
  <2>1. PICK k \in 1 .. L : stack[k] = r
    BY Places DEF Elements
  <2>2. L \in 1 .. L /\ Top = stack[L] /\ Top \in Unwritten
    BY <1>3, Places DEF Top
  <2>3. rank[r] \in Nat /\ rank[Top] \in Nat /\ rank[r] < rank[Top]
    BY <2>2, NeighborsRank
  <2>4. k = L \/ rank[stack[L]] < rank[stack[k]]
    BY <1>3, <2>2 DEF OrderInv, StackInv
  <2> QED
    BY <2>1, <2>2, <2>3, <2>4
<1>10. ResultInv'
  <2> SUFFICES ASSUME NEW k \in 1 .. M + 1, NEW r \in neighbors[out'[k]]
               PROVE  /\ r \notin remaining /\ r \notin Elements(stack')
                      /\ \A j \in k .. M + 1 : out'[j] # r
    <3>1. Len(out') = M + 1 /\ neighbors' = neighbors /\ remaining' = remaining
      BY <1>1, <1>6
    <3> QED
      BY <3>1 DEF ResultInv
  <2>1. CASE k = M + 1
    <3>1. r \notin remaining /\ r \notin Elements(stack)
      BY <1>6, <1>9, <2>1
    <3>2. \A j \in k .. M + 1 : out'[j] = Top
      BY <1>3, <1>6, <2>1
    <3> QED
      BY <1>4, <3>1, <3>2
  <2>2. CASE k \in 1 .. M
    <3>1. /\ r \notin remaining /\ r \notin Elements(stack)
          /\ \A j \in k .. M : out[j] # r
      BY <1>6, <2>2 DEF OrderInv, ResultInv
    <3>2. \A j \in k .. M + 1 : (j \in k .. M /\ j \in 1 .. M) \/ j = M + 1
      BY <1>3, <2>2
    <3> QED
      BY <1>4, <1>6, <3>1, <3>2
  <2> QED
    BY <1>3, <2>1, <2>2
<1> QED
  BY <1>7, <1>8, <1>10 DEF OrderInv

\* Taking the first item of the result keeps the order of the others.
LEMMA TakingOrder ==
    ASSUME NEW rank, StoreType, OrderInv(rank), out # <<>>, out' = Tail(out),
           UNCHANGED <<neighbors, remaining, stack, batch, writing>>
    PROVE  OrderInv(rank)'
<1> SUFFICES ASSUME writing \in {"Init", "Upsert"}
             PROVE  NeighborsInv' /\ StackInv(rank)' /\ ResultInv'
  BY DEF OrderInv
<1>1. NeighborsInv' /\ StackInv(rank)'
  BY DEF OrderInv, NeighborsInv, StackInv, GetNeighbors
<1> DEFINE M == Len(out)
<1>2. /\ M \in Nat \ {0} /\ Len(out') = M - 1
      /\ \A k \in 1 .. M - 1 : out'[k] = out[k + 1] /\ k + 1 \in 1 .. M
  <2>1. out \in Seq(Items)
    BY DEF StoreType
  <2> QED
    BY <2>1, EmptySeq, HeadTailProperties
<1>3. ResultInv'
  <2> SUFFICES ASSUME NEW k \in 1 .. M - 1, NEW r \in neighbors[out[k + 1]]
               PROVE  /\ r \notin remaining /\ r \notin Elements(stack)
                      /\ \A j \in k .. M - 1 : out'[j] # r
    BY <1>2 DEF ResultInv
  <2>1. /\ r \notin remaining /\ r \notin Elements(stack)
        /\ \A j \in k + 1 .. M : out[j] # r
    BY <1>2 DEF OrderInv, ResultInv
  <2>2. \A j \in k .. M - 1 : j \in 1 .. M - 1 /\ j + 1 \in k + 1 .. M
    BY <1>2
  <2> QED
    BY <1>2, <2>1, <2>2
<1> QED
  BY <1>1, <1>3

\* The steps of the persistent store keep the order.
LEMMA StoreActionOrder ==
    ASSUME NEW rank, Ranked(rank), StoreType, PersistInv, OrderInv(rank), StoreAction
    PROVE  OrderInv(rank)'
<1>1. CASE Sorts
  <2>1. UNCHANGED <<batch, writing>> /\ (Pick \/ Descend \/ AppendItem)
    BY <1>1 DEF Sorts, Sorting
  <2>2. CASE writing \in {"Init", "Upsert"}
    BY <2>1, <2>2, VisitOrder, AppendOrder
  <2>3. CASE writing \notin {"Init", "Upsert"}
    BY <2>1, <2>3 DEF OrderInv
  <2> QED
    BY <2>2, <2>3
<1>2. CASE InitItem \/ UpsertItem \/ UpsertFails
  BY <1>2, TakingOrder DEF InitItem, UpsertItem, UpsertFails
<1>3. CASE InitRest \/ InitFails \/ UpsertDone \/ Commit
  BY <1>3 DEF InitRest, InitFails, UpsertDone, Commit, OrderInv
<1> QED
  BY <1>1, <1>2, <1>3 DEF StoreAction

\* A changeset is sorted before it is written.
LEMMA ChangeSetOrder ==
    ASSUME NEW rank, Ranked(rank),
           NEW D \in SUBSET Items, NEW events \in [D -> Events], NEW sel,
           SetBasis(events, sel) \/ ApplyDelta(events, sel)
    PROVE  OrderInv(rank)'
<1> DEFINE coll == ToStorableItems(events)
<1>1. coll \in [D -> Descriptors]
  BY StoredType
<1> HIDE DEF coll
<1>2. writing = "no" /\ \E call \in {"Init", "Upsert"} : Persist(coll, call)
  BY DEF SetBasis, ApplyDelta, coll
<1>3. CASE shouldPersist
  BY <1>1, <1>2, <1>3, SortOrder
<1>4. CASE ~shouldPersist
  BY <1>2, <1>4 DEF Persist, OrderInv
<1> QED
  BY <1>3, <1>4

\* A store that does not change keeps the order.
LEMMA OrderUnchanged ==
    ASSUME NEW rank, OrderInv(rank), UNCHANGED storeVars
    PROVE  OrderInv(rank)'
BY DEF OrderInv, NeighborsInv, StackInv, ResultInv, GetNeighbors, Elements, storeVars, sortVars

\* Every step keeps the order.
LEMMA StepOrder ==
    ASSUME NEW rank, Ranked(rank), StoreInv, OrderInv(rank), [Next]_vars
    PROVE  OrderInv(rank)'
<1> USE DEF StoreInv
<1>1. CASE Publish \/ PollFails \/ UNCHANGED vars
  BY <1>1, OrderUnchanged DEF Publish, PollFails, vars
<1>2. CASE StreamControl \/ PollControl \/ ServerIntent \/ (\E i \in Items : Object(i))
  BY <1>2, ControlSteps, IntentOpens, ObjectAdds, OrderUnchanged
<1>6. CASE Panicked
  BY <1>6, PanickedControl, OrderUnchanged
<1>3. CASE Handed
  <2>1. DOMAIN pending.objs \in SUBSET Items /\ pending.objs \in [DOMAIN pending.objs -> Events]
    BY DEF ControlInv, SourceType
  <2> QED
    BY <1>3, <2>1, TransferredStores, ChangeSetOrder
<1>4. CASE PollChanges
  <2>1. PICK code \in Transfers :
            LET D == Objects(code, etag.of)
                events == [i \in D |-> Polled(hist[Current][i])]
            IN  /\ D \in SUBSET Items /\ events \in [D -> Events]
                /\ IF code = "xfer-full" THEN SetBasis(events, 0) ELSE ApplyDelta(events, 0)
    BY <1>4, PollStores
  <2> QED
    BY <2>1, ChangeSetOrder
<1>5. CASE StoreAction
  BY <1>5, StoreActionOrder DEF ControlInv
<1> QED
  BY <1>1, <1>2, <1>3, <1>4, <1>5, <1>6, NextCases

\* What the objects in the memory store refer to is there too, because the payloads
\* of the service are complete.
LEMMA MemoryIsClosed ==
    ASSUME DataInv, initialized, NEW i \in Items, memory[i].item = "object", NEW r \in Refs[i]
    PROVE  r \in Items /\ memory[r].item = "object"
<1>1. r \in Items
  BY RefsAssumption
<1>2. source = "stream" /\ selector # 0
  BY DEF DataInv, StoreInv, ControlInv, SourceType, ProtocolInv, MemoryInv
<1>3. Holds(memory, hist[selector]) /\ memory[r].item # "descriptor"
  BY <1>1, <1>2 DEF DataInv, MemoryInv
<1>4. selector \in 1 .. Len(hist) /\ Closed(hist[selector])
  <2>1. selector \in 1 .. Len(hist)
    BY <1>2, ControlTypes DEF DataInv, StoreInv
  <2> QED
    BY <2>1 DEF DataInv, StoreInv, ControlInv, HistoryInv
<1>5. hist[selector][r].item = "object"
  BY <1>1, <1>3, <1>4 DEF Holds, Closed, Present
<1>6. memory[r] \in Descriptors
  BY <1>1 DEF DataInv, StoreInv, ControlInv, StoreType
<1> QED
  BY <1>1, <1>3, <1>5, <1>6 DEF Holds, Descriptors

\* What the first item of the result refers to, and is to be written, has been.
LEMMA FirstIsReady ==
    ASSUME NEW rank, StoreInv, OrderInv(rank), writing \in {"Init", "Upsert"}, Sorted, out # <<>>,
           batch[Head(out)].item = "object", NEW r \in Refs[Head(out)], r \in DOMAIN batch
    PROVE  r \notin Unwritten /\ r # Head(out) /\ Head(out) \in DOMAIN batch
<1>1. StoreType /\ PersistInv
  BY DEF StoreInv, ControlInv
<1>2. Len(out) \in Nat \ {0} /\ Head(out) = out[1] /\ DOMAIN out = 1 .. Len(out)
  <2>1. out \in Seq(Items)
    BY <1>1 DEF StoreType
  <2> QED
    BY <2>1, EmptySeq
<1>3. Head(out) \in DOMAIN batch
  BY <1>1, <1>2, Places DEF PersistInv
<1>4. r \in neighbors[out[1]]
  BY <1>2, <1>3 DEF OrderInv, NeighborsInv, GetNeighbors
<1>5. r \notin remaining /\ r \notin Elements(stack) /\ \A j \in 1 .. Len(out) : out[j] # r
  <2>1. 1 \in 1 .. Len(out)
    BY <1>2
  <2> QED
    BY <1>4, <2>1 DEF OrderInv, ResultInv
<1> QED
  BY <1>2, <1>3, <1>5 DEF Unwritten, Elements

\* No step writes an object before what it refers to.
LEMMA WritesInOrder ==
    ASSUME NEW rank, Ranked(rank), DataInv, OrderInv(rank), [Next]_vars,
           NEW i \in Items, db'[i] # db[i], db'[i].item = "object", clean, writing # "Commit",
           NEW r \in Refs[i]
    PROVE  db'[r].item = "object"
<1>1. StoreInv /\ StoreType /\ PersistInv /\ r \in Items /\ r # i
  <2>1. rank[r] \in Nat /\ rank[i] \in Nat /\ rank[r] < rank[i] /\ r \in Items
    BY RefsAssumption DEF Ranked
  <2> QED
    BY <2>1 DEF DataInv, StoreInv, ControlInv
<1>2. InitItem \/ InitRest \/ UpsertItem
  <2>1. CASE StoreAction
    BY <2>1 DEF StoreAction, Sorts, InitFails, UpsertFails, UpsertDone, Commit
  <2>2. CASE Handed
    BY <1>1, <2>2, TransferredStores DEF SetBasis, ApplyDelta, StoreInv
  <2>3. CASE PollChanges
    <3>1. db' = db
      BY <1>1, <2>3, PollStores DEF SetBasis, ApplyDelta, StoreInv
    <3> QED
      BY <3>1
  <2>4. CASE Publish \/ PollFails \/ UNCHANGED vars
    BY <2>4 DEF Publish, PollFails, vars, storeVars
  <2>5. CASE StreamControl \/ PollControl \/ ServerIntent \/ (\E j \in Items : Object(j)) \/ Panicked
    <3>1. UNCHANGED storeVars
      BY <1>1, <2>5, ControlSteps, IntentOpens, ObjectAdds, PanickedControl DEF StoreInv
    <3> QED
      BY <3>1 DEF storeVars
  <2> QED
    BY <2>1, <2>2, <2>3, <2>4, <2>5, NextCases
<1>3. initialized
  BY <1>1, <1>2 DEF InitItem, InitRest, UpsertItem, PersistInv
<1>4. memory[i].item = "object" => memory[r].item = "object"
  BY <1>3, MemoryIsClosed
<1>5. CASE InitRest
  <2>1. /\ memory = memorySetBasis(batch)
        /\ \A j \in Items : db'[j] = IF j \in DOMAIN batch THEN Serialized(batch[j]) ELSE Absent
    BY <1>1, <1>5 DEF InitRest, PersistInv
  <2>2. \A j \in Items : memory[j] = IF j \in DOMAIN batch THEN batch[j] ELSE Absent
    BY <2>1 DEF memorySetBasis
  <2>3. \A j \in Items : db'[j] = Serialized(memory[j]) /\ memory[j] \in Descriptors
    BY <1>1, <2>1, <2>2, SerializedAbsent DEF StoreType
  <2> QED
    BY <1>1, <1>4, <2>3, SerializedKeeps
<1>6. CASE InitItem
  <2>1. /\ writing = "Init" /\ Sorted /\ out # <<>>
        /\ db' = [db EXCEPT ![Head(out)] = Serialized(batch[Head(out)])]
    BY <1>6 DEF InitItem
  <2>2. i = Head(out) /\ db'[i] = Serialized(batch[i]) /\ db'[r] = db[r]
    BY <1>1, <2>1 DEF StoreType
  <2>3. i \in DOMAIN batch
    BY <1>1, <2>1, <2>2, Places, EmptySeq DEF StoreType, PersistInv
  <2>4. memory = memorySetBasis(batch) /\ memory[i] = batch[i]
    BY <1>1, <2>1, <2>3 DEF PersistInv, memorySetBasis
  <2>7. batch[i].item = "object" /\ \A j \in DOMAIN batch : batch[j] \in Descriptors
    BY <1>1, <2>2, <2>3, SerializedKeeps DEF StoreType
  <2>5. memory[r].item = "object" /\ r \in DOMAIN batch /\ memory[r] = batch[r]
    BY <1>1, <1>4, <2>4, <2>7 DEF memorySetBasis, Absent
  <2>6. r \notin Unwritten
    BY <1>1, <2>1, <2>2, <2>5, <2>7, FirstIsReady
  <2>8. db[r] = Serialized(batch[r])
    BY <1>1, <2>1, <2>5, <2>6 DEF PersistInv
  <2> QED
    BY <2>2, <2>5, <2>7, <2>8, SerializedKeeps
<1>7. CASE UpsertItem
  <2>1. /\ writing = "Upsert" /\ Sorted /\ out # <<>>
        /\ db' = Upserted(db, Head(out), Serialized(batch[Head(out)]))
    BY <1>7 DEF UpsertItem
  <2>2. i = Head(out) /\ db'[i] = Serialized(batch[i]) /\ db'[r] = db[r]
    BY <1>1, <2>1 DEF StoreType, Upserted
  <2>3. i \in DOMAIN batch
    BY <1>1, <2>1, <2>2, Places, EmptySeq DEF StoreType, PersistInv
  <2>6. /\ batch[i] \in Descriptors /\ memory[i] \in Descriptors /\ memory[r] \in Descriptors
        /\ batch[i].item = "object"
    BY <1>1, <2>2, <2>3, SerializedKeeps DEF StoreType
  <2>4. Serialized(memory[i]) = db'[i]
    BY <1>1, <2>1, <2>2, <2>3 DEF PersistInv, Upserted, StoreType
  <2>7. memory[r].item = "object"
    BY <1>4, <2>4, <2>6, SerializedKeeps
  <2>5. r \in DOMAIN batch => r \notin Unwritten
    BY <1>1, <2>1, <2>2, <2>6, FirstIsReady
  <2>8. db[r] = Serialized(memory[r])
    BY <1>1, <2>1, <2>5 DEF PersistInv
  <2> QED
    BY <2>2, <2>6, <2>7, <2>8, SerializedKeeps
<1> QED
  BY <1>2, <1>5, <1>6, <1>7

\* When flags do not depend on one another in a circle, segments refer to nothing, and no
\* syntax error hides the fields of an object, no object is written to the persistent
\* store before what it refers to, by SetBasis or by ApplyDelta, and whatever else happens
\* meanwhile, as long as no write has failed (Sort, toposort.go).
THEOREM StoresReferencesFirst ==
    ASSUME "syntax" \notin Garbled, NEW rank, Ranked(rank)
    PROVE  Spec => ReferencesAreStoredFirst
<1>1. Init => OrderInv(rank)
  BY DEF Init, StoreInit, OrderInv
<1>2. DataInv /\ OrderInv(rank) /\ [Next]_vars => OrderInv(rank)'
  BY StepOrder DEF DataInv
<1>3. DataInv /\ OrderInv(rank) /\ [Next]_vars
          => [\A i \in Items :
                 db'[i] # db[i] /\ db'[i].item = "object" /\ clean /\ writing # "Commit"
                     => \A r \in Refs[i] : db'[r].item = "object"]_vars
  BY WritesInOrder
<1> QED
  BY <1>1, <1>2, <1>3, DataInvHolds, PTL DEF Spec, ReferencesAreStoredFirst
-----------------------------------------------------------------------------
(***************************************************************************)
(* What must not be lost on the way to Converges.  A source that has       *)
(* handed data to the store has told so, or is about to; with what the     *)
(* protocol and the data invariant say, it can only come to rest with the  *)
(* service's data.                                                         *)
(***************************************************************************)
Notified == isInitialized = TRUE /\ ready = TRUE
NotifiedInv ==
    /\ source = "stream" /\ selector # 0 => Notified \/ pc = "notify"
    /\ source = "poll" /\ etag.of # 0 /\ ~etag.bad => Notified \/ pc \in {"valid", "notify"}

\* The stream is open and all transfers are done, or the HTTP cache answers the poller.
AtRest ==
    /\ pc = "select"
    /\ \/ source = "stream" /\ conn = "open" /\ tx.code = "idle" /\ tx.target = Current
       \/ source = "poll" /\ etag.of = Current /\ ~etag.bad
RestIsConvergence ==
    AtRest => UpToDate /\ isInitialized = TRUE /\ ready = TRUE

LEMMA InitNotified == Init => NotifiedInv
BY DEF Init, StoreInit, NotifiedInv

\* Steps that store nothing: only the source's own two announcements leave the places
\* where the announcement is still due.
LEMMA ControlStepsNotified ==
    ASSUME ControlInv, NotifiedInv, StreamControl \/ PollControl
    PROVE  NotifiedInv'
<1>1. UNCHANGED <<source, etag, selector>> /\ (source = "poll" => pc # "restart")
  BY ControlSteps DEF storeVars, ControlInv, ProtocolInv
<1>2. source \in {"stream", "poll"}
  BY DEF ControlInv, SourceType
<1>3. CASE Connect \/ RecoverableError \/ UnrecoverableError \/ Malformed \/ ErrorEvent \/ OtherEvent
  BY <1>1, <1>3 DEF Connect, RecoverableError, UnrecoverableError, Malformed, ErrorEvent,
                    OtherEvent, Receiving, OnlyStream, NotifiedInv, Notified
<1>4. CASE Notify \/ Processed \/ Restart \/ EndOfStream \/ Close \/ CloseOff
  BY <1>1, <1>4 DEF Notify, Processed, Restart, EndOfStream, Close, CloseOff, OnlyStream,
                    NotifiedInv, Notified
<1>5. CASE PollControl
  BY <1>1, <1>5 DEF PollControl, PollCached, PollGivesUp, PollValid, PollNotify, PollQuits,
                    Polling, OnlyPoll, NotifiedInv, Notified
<1> QED
  BY <1>3, <1>4, <1>5 DEF StreamControl

LEMMA StepNotified == StoreInv /\ NotifiedInv /\ [Next]_vars => NotifiedInv'
<1> SUFFICES ASSUME StoreInv, NotifiedInv, [Next]_vars PROVE NotifiedInv'
  OBVIOUS
<1>0. ControlInv
  BY DEF StoreInv
<1>1. CASE Publish
  BY <1>1 DEF Publish, storeVars, NotifiedInv, Notified
<1>2. CASE StreamControl \/ PollControl
  BY <1>0, <1>2, ControlStepsNotified
<1>3. CASE ServerIntent
  <2>1. UNCHANGED <<source, etag, selector, isInitialized, ready>> /\ pc = "select"
        /\ source = "stream"
    BY <1>3 DEF ServerIntent, Receiving, OnlyStream, storeVars
  <2> QED
    BY <2>1 DEF NotifiedInv, Notified
<1>4. ASSUME NEW i \in Items, Object(i) PROVE NotifiedInv'
  BY <1>4 DEF Object, Receiving, OnlyStream, storeVars, NotifiedInv, Notified
<1>10. CASE Panicked
  BY <1>0, <1>10, PanickedControl DEF storeVars, NotifiedInv, Notified
<1>5. CASE Handed
  <2>1. /\ UNCHANGED <<source, etag, isInitialized, ready>> /\ source = "stream" /\ pc = "select"
    BY <1>5 DEF Handed, Transferred, Receiving, OnlyStream
  <2>2. CASE tx.code = "xfer-full"
    <3>1. pc' = "notify"
      BY <1>0, <1>5, <2>2, TransferredStores DEF Handed, Transferred
    <3> QED
      BY <2>1, <3>1 DEF NotifiedInv
  <2>3. CASE tx.code = "xfer-changes"
    <3>1. selector # 0
      BY <1>0, <2>3 DEF ControlInv, ProtocolInv
    <3> QED
      BY <2>1, <3>1 DEF NotifiedInv, Notified
  <2> QED
    BY <1>0, <1>5, <2>2, <2>3, TransferredStores DEF Transfers
<1>6. CASE PollChanges
  BY <1>6 DEF PollChanges, Polling, OnlyPoll, NotifiedInv
<1>7. CASE PollFails
  <2>1. /\ UNCHANGED <<source, isInitialized, ready, pc>> /\ source = "poll"
        /\ etag' = etag \/ etag' = [of |-> Current, bad |-> TRUE]
    BY <1>7 DEF PollFails, Polling, OnlyPoll
  <2> QED
    BY <2>1 DEF NotifiedInv, Notified
<1>8. CASE StoreStep \/ StoreFault \/ (Commit /\ UNCHANGED srcVars)
  <2>1. UNCHANGED <<source, etag, isInitialized, ready, pc>>
    BY <1>8 DEF StoreStep, StoreFault, srcVars
  <2>2. UNCHANGED selector
    BY <1>8 DEF StoreStep, StoreFault, Sorts, InitItem, InitRest, InitFails, UpsertItem, UpsertFails,
                UpsertDone, Commit
  <2> QED
    BY <2>1, <2>2 DEF NotifiedInv, Notified
<1>9. CASE UNCHANGED vars
  BY <1>9 DEF vars, srcVars, storeVars, NotifiedInv, Notified
<1> QED
  BY <1>1, <1>2, <1>3, <1>4, <1>5, <1>6, <1>7, <1>8, <1>9, <1>10
     DEF Next, Receive, StreamStep, PollStep, StreamControl, PollControl, Handed, Panicked

\* When a stream is open and its last transfer is of the service's current payload,
\* readers see that payload and the client has been told, after any sequence of transfers,
\* errors, restarts and refused writes (consumeStream); when the HTTP cache has an answer to
\* the poller, which will get no other, the memory store has that payload's versions (poll).
THEOREM RestsOnlyWhenConverged ==
    ASSUME "syntax" \notin Garbled
    PROVE  Spec => []RestIsConvergence
<1>1. ASSUME DataInv, NotifiedInv PROVE RestIsConvergence
  <2> SUFFICES ASSUME AtRest
               PROVE  UpToDate /\ Notified
    BY DEF RestIsConvergence, Notified
  <2>1. hist[Current] \in [Items -> Published] /\ Current # 0
    BY <1>1, ControlTypes DEF DataInv, StoreInv
  <2>2. CASE source = "stream"
    <3>1. tx.code = "idle" /\ tx.target = Current
      BY <2>2 DEF AtRest
    <3>2. selector = Current /\ selector # 0
      BY <1>1, <2>1, <3>1 DEF DataInv, StoreInv, ControlInv, ProtocolInv, AtRest
    <3>3. /\ Holds(memory, hist[Current]) /\ memory \in [Items -> Descriptors]
          /\ \A i \in Items : memory[i].item # "descriptor"
      BY <1>1, <2>2, <3>2 DEF DataInv, StoreInv, ControlInv, StoreType, MemoryInv
    <3>4. Readable(memory) = Readable(hist[Current])
      BY <2>1, <3>3, HoldsIsHeld, HeldIsReadable
    <3> QED
      BY <1>1, <2>2, <3>2, <3>4 DEF NotifiedInv, AtRest, UpToDate
  <2>3. CASE source = "poll"
    BY <1>1, <2>1, <2>3, HoldsIsHeld DEF DataInv, MemoryInv, NotifiedInv, AtRest, UpToDate
  <2> QED
    BY <2>2, <2>3 DEF AtRest
<1>2. DataInv /\ NotifiedInv /\ [Next]_vars => NotifiedInv'
  BY StepNotified DEF DataInv
<1> QED
  BY <1>1, <1>2, InitNotified, DataInvHolds, PTL DEF Spec
=============================================================================
