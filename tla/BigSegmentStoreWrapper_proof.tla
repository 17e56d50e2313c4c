--------------------- MODULE BigSegmentStoreWrapper_proof ---------------------
(* Machine-checked proofs about BigSegmentStoreWrapper. *)
EXTENDS BigSegmentStoreWrapper, TLAPS

(***************************************************************************)
(* The inductive invariant.  Data travels from the store to the shared     *)
(* query, from there to those who asked and to the cache, and from the     *)
(* cache to those who come later.  Nothing on this way is older than the   *)
(* version at which the cache was last cleared in peace; what a caller has *)
(* left the way with is no older than that version was when it began.      *)
(***************************************************************************)
Health == {"ok", "stale", "unavailable"}
Labels == {"idle", "join", "flight", "set", "status", "return", "metadata", "update", "notify",
           "wait", "off"}

Types ==
    /\ version \in Nat /\ cleared \in Nat /\ cleared <= version
    /\ floor \in [Callers -> Nat]
    /\ entry \in Nat \cup {None}
    /\ flight \in Nat \cup {None, Asked, Failed}
    /\ store \in Health
    /\ pc \in [Callers \cup Pollers -> Labels]
    /\ got \in [Callers \cup Pollers -> Nat \cup {None, Failed} \cup Health]
FloorInv == \A c \in Callers : floor[c] <= cleared
CacheInv ==
    /\ entry # None => entry >= cleared
    /\ flight \in Nat => flight >= cleared
AnswerInv == \A c \in Callers :
    pc[c] = "set" /\ got[c] # Failed => got[c] \in Nat /\ got[c] >= cleared
MembershipInv == \A c \in Callers :
    pc[c] = "status" => got[c] \in Nat /\ got[c] >= floor[c]

Inv == Types /\ FloorInv /\ CacheInv /\ AnswerInv /\ MembershipInv

USE DEF Labels, Health

\* The marks are not versions.
LEMMA Marks == /\ None # Asked /\ None # Failed /\ Asked # Failed
               /\ None \notin Nat /\ Asked \notin Nat /\ Failed \notin Nat
BY MarksAssumption

\* Initially nothing is cached and nobody has anything.
LEMMA InitInv == Init => Inv
BY Marks, CallersAssumption
DEF Init, Inv, Types, FloorInv, CacheInv, AnswerInv, MembershipInv

\* A step that changes neither versions nor the data on its way, and moves some
\* goroutines to places where they have no membership
LEMMA ElsewhereInv ==
    ASSUME Inv,
           UNCHANGED <<entry, flight, cleared, floor>>, version' \in Nat, version <= version',
           store' \in Health,
           pc' \in [Callers \cup Pollers -> Labels],
           got' \in [Callers \cup Pollers -> Nat \cup {None, Failed} \cup Health],
           \A c \in Callers : \/ pc'[c] = pc[c] /\ got'[c] = got[c]
                              \/ pc'[c] \notin {"set", "status"}
    PROVE  Inv'
<1>1. Types'
  BY DEF Inv, Types
<1>2. FloorInv' /\ CacheInv'
  BY DEF Inv, FloorInv, CacheInv
<1>3. AnswerInv' /\ MembershipInv'
  BY DEF Inv, AnswerInv, MembershipInv
<1> QED
  BY <1>1, <1>2, <1>3 DEF Inv

\* A cached membership is not older than the last clearing.
LEMMA CacheGetInv ==
    ASSUME Inv, NEW c \in Callers, CacheGet(c)
    PROVE  Inv'
<1>1. /\ UNCHANGED <<store, version, entry, flight, cleared>>
      /\ floor' = [floor EXCEPT ![c] = cleared]
  BY DEF CacheGet, environment, cache
<1>2. \/ /\ entry # None
         /\ pc' = [pc EXCEPT ![c] = "status"] /\ got' = [got EXCEPT ![c] = entry]
      \/ pc' = [pc EXCEPT ![c] = "join"] /\ got' = [got EXCEPT ![c] = None]
  BY DEF CacheGet, Take, Goto
<1>3. Types' /\ FloorInv' /\ CacheInv'
  BY <1>1, <1>2 DEF Inv, Types, FloorInv, CacheInv
<1>4. AnswerInv'
  BY <1>1, <1>2 DEF Inv, Types, AnswerInv
<1>5. MembershipInv'
  BY <1>1, <1>2 DEF Inv, Types, CacheInv, MembershipInv
<1> QED
  BY <1>3, <1>4, <1>5 DEF Inv

\* A query tells the present version.
LEMMA QueryInv ==
    ASSUME Inv, \/ Query \/ \E c \in Callers : Join(c)
    PROVE  Inv'
<1>1. /\ UNCHANGED <<store, version, entry, cleared, floor, got>>
      /\ flight' \in {flight, Asked, Failed, version}
  BY DEF Query, Join, environment, local
<1>2. /\ pc' \in [Callers \cup Pollers -> Labels]
      /\ \A c \in Callers : pc'[c] = pc[c] \/ pc'[c] = "flight"
  BY DEF Query, Join, Goto, local, Inv, Types
<1>3. Types' /\ FloorInv' /\ CacheInv'
  BY <1>1, <1>2, Marks DEF Inv, Types, FloorInv, CacheInv
<1>4. AnswerInv' /\ MembershipInv'
  BY <1>1, <1>2 DEF Inv, AnswerInv, MembershipInv
<1> QED
  BY <1>3, <1>4 DEF Inv

\* Its answer is handed to those who wait.
LEMMA QueryReturnsInv ==
    ASSUME Inv, QueryReturns
    PROVE  Inv'
<1>1. /\ UNCHANGED <<store, version, entry, cleared, floor>>
      /\ flight' = None /\ flight \in Nat \cup {Failed}
  BY DEF QueryReturns, environment, Inv, Types
<1>2. /\ pc' \in [Callers \cup Pollers -> Labels]
      /\ got' \in [Callers \cup Pollers -> Nat \cup {None, Failed} \cup Health]
      /\ \A c \in Callers : \/ pc'[c] = pc[c] /\ got'[c] = got[c]
                            \/ pc'[c] = "set" /\ got'[c] = flight
  BY DEF QueryReturns, Inv, Types
<1>3. Types' /\ FloorInv' /\ CacheInv'
  BY <1>1, <1>2, Marks DEF Inv, Types, FloorInv, CacheInv
<1>4. AnswerInv' /\ MembershipInv'
  BY <1>1, <1>2 DEF Inv, CacheInv, AnswerInv, MembershipInv
<1> QED
  BY <1>3, <1>4 DEF Inv

\* What a caller caches and keeps is what it was told.
LEMMA CacheSetInv ==
    ASSUME Inv, NEW c \in Callers, CacheSet(c)
    PROVE  Inv'
<1>1. /\ UNCHANGED <<store, version, flight, cleared, floor>>
      /\ pc[c] = "set"
      /\ entry' = entry \/ (entry' = got[c] /\ got[c] # Failed)
  BY DEF CacheSet, environment
<1>2. \/ pc' = [pc EXCEPT ![c] = "return"] /\ got' = [got EXCEPT ![c] = None]
      \/ pc' = [pc EXCEPT ![c] = "status"] /\ got' = got /\ got[c] # Failed
  BY DEF CacheSet, Take, Goto
<1>3. Types' /\ FloorInv' /\ CacheInv'
  BY <1>1, <1>2 DEF Inv, Types, FloorInv, CacheInv, AnswerInv
<1>4. AnswerInv'
  BY <1>1, <1>2 DEF Inv, Types, AnswerInv
<1>5. \A x \in Nat : x >= cleared => x >= floor[c]
  BY DEF Inv, Types, FloorInv
<1>6. MembershipInv'
  BY <1>1, <1>2, <1>5 DEF Inv, Types, AnswerInv, MembershipInv
<1> QED
  BY <1>3, <1>4, <1>6 DEF Inv

\* The cache is emptied; the clearing counts when no data was on its way.
LEMMA ClearInv ==
    ASSUME Inv, ClearCache \/ Close \/ Expire
    PROVE  Inv'
<1>1. /\ UNCHANGED <<store, version, flight, floor, pc, got>> /\ entry' = None
      /\ \/ cleared' = cleared
         \/ cleared' = version /\ flight = None /\ \A c \in Callers : pc[c] # "set"
  BY DEF ClearCache, Close, Expire, environment, local
<1>2. Types' /\ FloorInv' /\ CacheInv'
  BY <1>1, Marks DEF Inv, Types, FloorInv, CacheInv
<1>3. AnswerInv' /\ MembershipInv'
  BY <1>1 DEF Inv, AnswerInv, MembershipInv
<1> QED
  BY <1>2, <1>3 DEF Inv

\* A call ends.
LEMMA ReturnInv ==
    ASSUME Inv, NEW c \in Callers, Return(c)
    PROVE  Inv'
<1>1. /\ UNCHANGED <<store, version, entry, flight, cleared>>
      /\ floor' = [floor EXCEPT ![c] = 0]
      /\ pc' = [pc EXCEPT ![c] = "idle"] /\ got' = [got EXCEPT ![c] = None]
  BY DEF Return, Take, Goto, environment, cache
<1>2. Types' /\ CacheInv'
  BY <1>1 DEF Inv, Types, CacheInv
<1>3. FloorInv'
  BY <1>1 DEF Inv, Types, FloorInv
<1>4. AnswerInv' /\ MembershipInv'
  BY <1>1 DEF Inv, Types, AnswerInv, MembershipInv
<1> QED
  BY <1>2, <1>3, <1>4 DEF Inv

\* The status and the polling task have nothing to do with memberships.
LEMMA StatusInv ==
    ASSUME Inv,
           \/ StoreChanges \/ UNCHANGED vars
           \/ \E c \in Callers : GetStatus(c)
           \/ \E p \in Callers \cup Pollers : StatusStep(p)
           \/ \E p \in Pollers : Tick(p) \/ Stop(p)
           \/ \E active \in BOOLEAN : SetPollingActive(active)
    PROVE  Inv'
<1> DEFINE Elsewhere ==
        /\ UNCHANGED <<entry, flight, cleared, floor>> /\ version' \in Nat /\ version <= version'
        /\ store' \in Health
        /\ pc' \in [Callers \cup Pollers -> Labels]
        /\ got' \in [Callers \cup Pollers -> Nat \cup {None, Failed} \cup Health]
        /\ \A c \in Callers : \/ pc'[c] = pc[c] /\ got'[c] = got[c]
                              \/ pc'[c] \notin {"set", "status"}
<1> SUFFICES Elsewhere
  BY ElsewhereInv
<1>0. /\ version \in Nat /\ store \in Health
      /\ pc \in [Callers \cup Pollers -> Labels]
      /\ got \in [Callers \cup Pollers -> Nat \cup {None, Failed} \cup Health]
  BY DEF Inv, Types
<1> USE <1>0 DEF environment, cache, local
<1>1. CASE StoreChanges \/ UNCHANGED vars
  <2>1. UNCHANGED <<entry, flight, cleared, floor, pc, got>>
    BY <1>1 DEF StoreChanges, vars
  <2>2. version' = version \/ version' = version + 1
    BY <1>1 DEF StoreChanges, vars
  <2>3. store' \in Health
    BY <1>1 DEF StoreChanges, vars, Health
  <2> QED
    BY <2>1, <2>2, <2>3
<1>2. CASE \E c \in Callers : GetStatus(c)
  <2>1. PICK c \in Callers : GetStatus(c)
    BY <1>2
  <2>2. PICK label \in {"metadata", "return"} :
           pc' = [pc EXCEPT ![c] = label] /\ got' = [got EXCEPT ![c] = None]
    BY <2>1 DEF GetStatus, Take, Goto
  <2> QED
    BY <2>1, <2>2 DEF GetStatus
<1>3. CASE \E p \in Callers \cup Pollers : StatusStep(p)
  <2>1. PICK p \in Callers \cup Pollers : StatusStep(p)
    BY <1>3
  <2>2. UNCHANGED <<version, store, entry, flight, cleared, floor>>
    BY <2>1 DEF StatusStep, GetMetadata, UpdateStatus, Notify
  <2>3. \E label \in {"update", "notify", "return", "wait"}, x \in {None, store, got[p]} :
           pc' = [pc EXCEPT ![p] = label] /\ got' = [got EXCEPT ![p] = x]
    <3>1. Reported(p) \in {"return", "wait"}
      BY DEF Reported
    <3>2. got = [got EXCEPT ![p] = got[p]]
      OBVIOUS
    <3>3. CASE GetMetadata(p) \/ Notify(p)
      BY <3>1, <3>3 DEF GetMetadata, Notify, Take, Goto
    <3>4. CASE UpdateStatus(p)
      BY <3>1, <3>2, <3>4 DEF UpdateStatus, Take, Goto
    <3> QED
      BY <2>1, <3>3, <3>4 DEF StatusStep
  <2> QED
    BY <2>2, <2>3
<1>4. CASE \E p \in Pollers : Tick(p) \/ Stop(p)
  BY <1>4, CallersAssumption DEF Tick, Stop, Goto
<1>5. CASE \E active \in BOOLEAN : SetPollingActive(active)
  BY <1>5, CallersAssumption DEF SetPollingActive, Goto
<1> QED
  BY <1>1, <1>2, <1>3, <1>4, <1>5

\* Every step preserves the invariant.
LEMMA StepInv ==
    ASSUME Inv, [Next]_vars
    PROVE  Inv'
<1>1. CASE Step
  BY <1>1, QueryInv, QueryReturnsInv, CacheSetInv, ReturnInv, StatusInv DEF Step, CallStep
<1> QED
  BY <1>1, StatusInv, ClearInv, CacheGetInv DEF Next

(***************************************************************************)
(* GetMembership returns nothing older than the data the store had when    *)
(* ClearCache was last called before it with no query under way, for any   *)
(* number of callers, polling tasks and versions of the data, and whatever *)
(* the cache, the shared query, SetPollingActive and Close do meanwhile.   *)
(***************************************************************************)
THEOREM NothingOlderThanTheClearing == Spec => []ClearedCacheStaysCleared
<1>1. Spec => []Inv
  BY InitInv, StepInv, PTL DEF Spec
<1>2. Inv => ClearedCacheStaysCleared
  <2> SUFFICES ASSUME Inv, NEW c \in Callers,
                      pc[c] = "status" \/ (pc[c] = "set" /\ got[c] # Failed)
               PROVE  got[c] >= floor[c]
    BY DEF ClearedCacheStaysCleared
  <2>1. floor[c] \in Nat /\ cleared \in Nat /\ floor[c] <= cleared
    BY DEF Inv, Types, FloorInv
  <2> QED
    BY <2>1 DEF Inv, AnswerInv, MembershipInv
<1> QED
  BY <1>1, <1>2, PTL

-----------------------------------------------------------------------------
(***************************************************************************)
(* No polling task is forgotten.  The tasks are the one that pollCloser    *)
(* stops and those that have been stopped and have not seen it yet; no     *)
(* channel is closed twice.                                                *)
(***************************************************************************)
NoTaskIsForgotten ==
    /\ \A p \in Pollers : pc[p] # "off" <=> p = pollCloser \/ p \in stopped
    /\ pollCloser \notin stopped
PollingGoesOn == pollingActive /\ ~closed => pollCloser # 0
TaskInv ==
    /\ pollingActive \in BOOLEAN /\ closed \in BOOLEAN
    /\ pollCloser \in Pollers \cup {0} /\ stopped \subseteq Pollers
    /\ pollCloser # 0 => pollingActive
    /\ NoTaskIsForgotten /\ PollingGoesOn

LEMMA ZeroIsNoTask == 0 \notin Pollers /\ 1 \in Pollers
BY BoundsAssumption DEF Pollers

LEMMA InitTask == Init => TaskInv
<1> SUFFICES ASSUME Init PROVE TaskInv
  OBVIOUS
<1>1. /\ pollingActive \in BOOLEAN /\ closed = FALSE /\ stopped = {}
      /\ pollCloser = IF pollingActive THEN 1 ELSE 0
  BY DEF Init
<1>2. \A p \in Pollers : pc[p] = IF p = pollCloser THEN "wait" ELSE "off"
  BY CallersAssumption DEF Init
<1> QED
  BY <1>1, <1>2, ZeroIsNoTask DEF TaskInv, NoTaskIsForgotten, PollingGoesOn

\* Most steps neither start nor end a task.
LEMMA OtherTasks ==
    ASSUME Inv,
           \/ StoreChanges \/ Expire \/ ClearCache \/ Query \/ QueryReturns \/ UNCHANGED vars
           \/ \E c \in Callers : CacheGet(c) \/ CallStep(c)
           \/ \E p \in Callers \cup Pollers : StatusStep(p)
           \/ \E p \in Pollers : Tick(p)
    PROVE  UNCHANGED polling /\ \A p \in Pollers : pc'[p] # "off" <=> pc[p] # "off"
<1>0. pc \in [Callers \cup Pollers -> Labels]
  BY DEF Inv, Types
<1>1. CASE StoreChanges \/ Expire \/ ClearCache \/ Query \/ UNCHANGED vars
  BY <1>1 DEF StoreChanges, Expire, ClearCache, Query, vars, local
<1>2. CASE QueryReturns
  BY <1>0, <1>2, CallersAssumption DEF QueryReturns
<1>3. ASSUME NEW c \in Callers, CacheGet(c) \/ CallStep(c)
      PROVE  UNCHANGED polling /\ \A p \in Pollers : pc'[p] # "off" <=> pc[p] # "off"
  <2>1. \E label \in Labels : pc' = [pc EXCEPT ![c] = label]
    BY <1>3 DEF CacheGet, CallStep, Join, CacheSet, GetStatus, Return, Take, Goto
  <2>2. UNCHANGED polling
    BY <1>3 DEF CacheGet, CallStep, Join, CacheSet, GetStatus, Return
  <2> QED
    BY <1>0, <2>1, <2>2, CallersAssumption
<1>4. ASSUME NEW p \in Callers \cup Pollers, StatusStep(p)
      PROVE  UNCHANGED polling /\ \A q \in Pollers : pc'[q] # "off" <=> pc[q] # "off"
  <2>1. pc[p] # "off" /\ \E label \in Labels \ {"off"} : pc' = [pc EXCEPT ![p] = label]
    BY <1>4 DEF StatusStep, GetMetadata, UpdateStatus, Notify, Take, Goto, Reported
  <2>2. UNCHANGED polling
    BY <1>4 DEF StatusStep, GetMetadata, UpdateStatus, Notify
  <2> QED
    BY <1>0, <2>1, <2>2
<1>5. ASSUME NEW p \in Pollers, Tick(p)
      PROVE  UNCHANGED polling /\ \A q \in Pollers : pc'[q] # "off" <=> pc[q] # "off"
  BY <1>0, <1>5 DEF Tick, Goto
<1> QED
  BY <1>1, <1>2, <1>3, <1>4, <1>5

\* SetPollingActive(true) starts a task, and is not called while one is active;
\* SetPollingActive(false) and Close stop it.
LEMMA SetPollingTask ==
    ASSUME Inv, TaskInv, NEW active \in BOOLEAN, SetPollingActive(active)
    PROVE  TaskInv'
<1>0. pc \in [Callers \cup Pollers -> Labels] /\ closed' = closed
      /\ pollingActive' = active /\ pollingActive = ~active
  BY DEF Inv, Types, SetPollingActive, TaskInv
<1>1. CASE active
  <2>1. PICK p \in Pollers : /\ pc[p] = "off" /\ pc' = [pc EXCEPT ![p] = "wait"]
                             /\ pollCloser' = p /\ stopped' = stopped
    BY <1>1 DEF SetPollingActive, Goto
  <2>2. pollCloser = 0
    BY <1>0, <1>1 DEF TaskInv
  <2>3. p \notin stopped
    BY <2>1 DEF TaskInv, NoTaskIsForgotten
  <2>4. \A q \in Pollers : pc'[q] = IF q = p THEN "wait" ELSE pc[q]
    BY <1>0, <2>1
  <2>5. NoTaskIsForgotten'
    BY <2>1, <2>2, <2>3, <2>4, ZeroIsNoTask DEF TaskInv, NoTaskIsForgotten
  <2> QED
    BY <1>0, <1>1, <2>1, <2>5, ZeroIsNoTask DEF TaskInv, PollingGoesOn
<1>2. CASE ~active
  <2>1. /\ stopped' = IF pollCloser = 0 THEN stopped ELSE stopped \cup {pollCloser}
        /\ pollCloser' = 0 /\ pc' = pc
    BY <1>2 DEF SetPollingActive
  <2>2. NoTaskIsForgotten'
    BY <2>1, ZeroIsNoTask DEF TaskInv, NoTaskIsForgotten
  <2> QED
    BY <1>0, <1>2, <2>1, <2>2 DEF TaskInv, PollingGoesOn
<1> QED
  BY <1>1, <1>2

LEMMA CloseTask ==
    ASSUME TaskInv, Close
    PROVE  TaskInv'
<1>1. /\ stopped' = IF pollCloser = 0 THEN stopped ELSE stopped \cup {pollCloser}
      /\ closed' = TRUE /\ pollCloser' = 0 /\ UNCHANGED <<pollingActive, pc>>
  BY DEF Close, local
<1>2. NoTaskIsForgotten'
  BY <1>1, ZeroIsNoTask DEF TaskInv, NoTaskIsForgotten
<1> QED
  BY <1>1, <1>2 DEF TaskInv, PollingGoesOn

\* Every step keeps account of the tasks.
LEMMA StepTask ==
    ASSUME Inv, TaskInv, [Next]_vars
    PROVE  TaskInv'
<1>1. ASSUME UNCHANGED polling, \A p \in Pollers : pc'[p] # "off" <=> pc[p] # "off"
      PROVE  TaskInv'
  BY <1>1 DEF polling, TaskInv, NoTaskIsForgotten, PollingGoesOn
<1>2. ASSUME NEW p \in Pollers, Stop(p)
      PROVE  TaskInv'
  <2>1. /\ p \in stopped /\ stopped' = stopped \ {p} /\ pc' = [pc EXCEPT ![p] = "off"]
        /\ UNCHANGED <<pollingActive, pollCloser, closed>>
    BY <1>2 DEF Stop, Goto
  <2>2. \A q \in Pollers : pc'[q] = IF q = p THEN "off" ELSE pc[q]
    BY <2>1 DEF Inv, Types
  <2>3. NoTaskIsForgotten'
    BY <2>1, <2>2 DEF TaskInv, NoTaskIsForgotten
  <2> QED
    BY <2>1, <2>3 DEF TaskInv, PollingGoesOn
<1> QED
  BY <1>1, <1>2, OtherTasks, SetPollingTask, CloseTask DEF Next, Step

(***************************************************************************)
(* The safety part of CloseEndsPolling.  SetPollingActive and Close stop   *)
(* every task that there is, in whatever order they are called; a task     *)
(* that still runs after that has been told, and no other is ever told.    *)
(***************************************************************************)
THEOREM TasksAreStopped == Spec => []NoTaskIsForgotten
<1>1. Spec => [](Inv /\ TaskInv)
  BY InitInv, StepInv, InitTask, StepTask, PTL DEF Spec
<1>2. TaskInv => NoTaskIsForgotten
  BY DEF TaskInv
<1> QED
  BY <1>1, <1>2, PTL

-----------------------------------------------------------------------------
(***************************************************************************)
(* Changes of the status are told.  Unless two changes have been reported  *)
(* at once, statusUpdateFn has last been called with the status that the   *)
(* wrapper keeps, or its one call that is under way brings it.             *)
(***************************************************************************)
Notifying == {p \in Callers \cup Pollers : pc[p] = "notify"}
StatusIsTold ==
    ~raced => \/ told = lastStatus /\ Notifying = {}
              \/ \E p \in Callers \cup Pollers : Notifying = {p} /\ got[p] = lastStatus

LEMMA InitTold == Init => StatusIsTold
BY DEF Init, StatusIsTold, Notifying

\* Steps that leave the status alone
LEMMA OtherTold ==
    ASSUME Inv, StatusIsTold, UNCHANGED status,
           \A p \in Callers \cup Pollers :
               \/ pc'[p] = pc[p] /\ got'[p] = got[p]
               \/ pc[p] # "notify" /\ pc'[p] # "notify"
    PROVE  StatusIsTold'
<1>1. UNCHANGED <<told, lastStatus, raced>> /\ Notifying' = Notifying
  BY DEF status, Notifying
<1>2. \A p \in Callers \cup Pollers : Notifying = {p} => got'[p] = got[p]
  BY DEF Notifying
<1> QED
  BY <1>1, <1>2 DEF StatusIsTold

LEMMA QuietSteps ==
    ASSUME Inv,
           \/ StoreChanges \/ Expire \/ ClearCache \/ Close \/ Query \/ QueryReturns
           \/ UNCHANGED vars
           \/ \E c \in Callers : CacheGet(c) \/ CallStep(c)
           \/ \E p \in Callers \cup Pollers : GetMetadata(p)
           \/ \E p \in Pollers : Tick(p) \/ Stop(p)
           \/ \E active \in BOOLEAN : SetPollingActive(active)
    PROVE  /\ UNCHANGED status
           /\ \A p \in Callers \cup Pollers :
               \/ pc'[p] = pc[p] /\ got'[p] = got[p]
               \/ pc[p] # "notify" /\ pc'[p] # "notify"
<1>0. /\ pc \in [Callers \cup Pollers -> Labels]
      /\ got \in [Callers \cup Pollers -> Nat \cup {None, Failed} \cup Health]
  BY DEF Inv, Types
<1> DEFINE Quiet == \A p \in Callers \cup Pollers :
               \/ pc'[p] = pc[p] /\ got'[p] = got[p]
               \/ pc[p] # "notify" /\ pc'[p] # "notify"
<1>a. ASSUME NEW q \in Callers \cup Pollers, NEW label, pc[q] # "notify", label # "notify",
             pc' = [pc EXCEPT ![q] = label],
             got' = got \/ \E x : got' = [got EXCEPT ![q] = x]
      PROVE  Quiet
  BY <1>0, <1>a
<1> HIDE DEF Quiet
<1>1. CASE StoreChanges \/ Expire \/ ClearCache \/ Close \/ Query \/ UNCHANGED vars
  BY <1>1 DEF StoreChanges, Expire, ClearCache, Close, Query, vars, local, status, Quiet
<1>2. CASE QueryReturns
  BY <1>0, <1>2 DEF QueryReturns, Quiet
<1>3. ASSUME NEW c \in Callers, CacheGet(c) \/ CallStep(c)
      PROVE  UNCHANGED status /\ Quiet
  <2>1. \E label \in Labels : /\ pc[c] # "notify" /\ label # "notify"
                              /\ pc' = [pc EXCEPT ![c] = label]
    BY <1>3 DEF CacheGet, CallStep, Join, CacheSet, GetStatus, Return, Take, Goto
  <2>2. got' = got \/ \E x : got' = [got EXCEPT ![c] = x]
    BY <1>3 DEF CacheGet, CallStep, Join, CacheSet, GetStatus, Return, Take
  <2>3. UNCHANGED status
    BY <1>3 DEF CacheGet, CallStep, Join, CacheSet, GetStatus, Return
  <2> QED
    BY <1>a, <2>1, <2>2, <2>3
<1>4. ASSUME NEW p \in Callers \cup Pollers, GetMetadata(p)
      PROVE  UNCHANGED status /\ Quiet
  BY <1>4, <1>a DEF GetMetadata, Take, Goto
<1>5. ASSUME NEW p \in Pollers, Tick(p) \/ Stop(p)
      PROVE  UNCHANGED status /\ Quiet
  <2>1. \E label \in {"metadata", "off"} :
            pc[p] # "notify" /\ pc' = [pc EXCEPT ![p] = label] /\ got' = got
    BY <1>5 DEF Tick, Stop, Goto
  <2> QED
    BY <1>5, <1>a, <2>1 DEF Tick, Stop
<1>6. ASSUME NEW active \in BOOLEAN, SetPollingActive(active)
      PROVE  UNCHANGED status /\ Quiet
  <2>1. CASE active
    <3>1. PICK p \in Pollers : pc[p] = "off" /\ pc' = [pc EXCEPT ![p] = "wait"] /\ got' = got
      BY <1>6, <2>1 DEF SetPollingActive, Goto
    <3> QED
      BY <1>6, <1>a, <3>1 DEF SetPollingActive
  <2>2. CASE ~active
    BY <1>6, <2>2 DEF SetPollingActive, Quiet
  <2> QED
    BY <2>1, <2>2
<1> QED
  BY <1>1, <1>2, <1>3, <1>4, <1>5, <1>6 DEF Quiet

\* A change is kept first and told later; a second one before that is a race.
LEMMA UpdateTold ==
    ASSUME Inv, StatusIsTold, NEW p \in Callers \cup Pollers, UpdateStatus(p)
    PROVE  StatusIsTold'
<1>0. pc \in [Callers \cup Pollers -> Labels] /\ DOMAIN pc = Callers \cup Pollers
      /\ got \in [Callers \cup Pollers -> Nat \cup {None, Failed} \cup Health]
  BY DEF Inv, Types
<1>1. CASE lastStatus = got[p]
  <2>1. pc[p] = "update" /\ UNCHANGED <<told, raced, lastStatus>>
    BY <1>1 DEF UpdateStatus
  <2>2. pc' = [pc EXCEPT ![p] = Reported(p)] /\ got' = [got EXCEPT ![p] = None]
    BY <1>1 DEF UpdateStatus, Take, Goto
  <2>3. Reported(p) # "notify"
    BY DEF Reported
  <2>4. \A q \in Callers \cup Pollers : \/ pc'[q] = pc[q] /\ got'[q] = got[q]
                                        \/ pc[q] # "notify" /\ pc'[q] # "notify"
    BY <1>0, <2>1, <2>2, <2>3
  <2> QED
    BY <2>1, <2>4, OtherTold DEF status
<1>2. CASE lastStatus # got[p]
  <2>1. /\ lastStatus' = got[p] /\ got' = got /\ pc' = [pc EXCEPT ![p] = "notify"]
        /\ raced' = \E q \in DOMAIN pc : pc[q] = "notify"
    BY <1>2 DEF UpdateStatus, Goto
  <2>2. CASE Notifying = {}
    <3>1. Notifying' = {p}
      BY <1>0, <2>1, <2>2 DEF Notifying
    <3> QED
      BY <2>1, <3>1 DEF StatusIsTold
  <2>3. CASE Notifying # {}
    <3>1. raced' = TRUE
      BY <1>0, <2>1, <2>3 DEF Notifying
    <3> QED
      BY <3>1 DEF StatusIsTold
  <2> QED
    BY <2>2, <2>3
<1> QED
  BY <1>1, <1>2

LEMMA NotifyTold ==
    ASSUME Inv, StatusIsTold, NEW p \in Callers \cup Pollers, Notify(p)
    PROVE  StatusIsTold'
<1>1. /\ pc[p] = "notify" /\ told' = got[p] /\ UNCHANGED <<lastStatus, raced>>
      /\ pc' = [pc EXCEPT ![p] = Reported(p)] /\ Reported(p) # "notify"
  BY DEF Notify, Take, Goto, Reported
<1>2. Notifying' = Notifying \ {p} /\ p \in Notifying
  BY <1>1 DEF Notifying, Inv, Types
<1>3. ASSUME ~raced
      PROVE  Notifying = {p} /\ got[p] = lastStatus
  BY <1>2, <1>3 DEF StatusIsTold
<1> QED
  BY <1>1, <1>2, <1>3 DEF StatusIsTold

LEMMA StepTold ==
    ASSUME Inv, StatusIsTold, [Next]_vars
    PROVE  StatusIsTold'
<1>1. ASSUME NEW p \in Callers \cup Pollers, StatusStep(p)
      PROVE  StatusIsTold'
  BY <1>1, QuietSteps, OtherTold, UpdateTold, NotifyTold DEF StatusStep
<1> QED
  BY <1>1, QuietSteps, OtherTold DEF Next, Step

(***************************************************************************)
(* The safety part of StatusConverges, for any number of callers and       *)
(* polling tasks: no change that pollStoreAndUpdateStatus has recorded is  *)
(* left untold, although statusUpdateFn is called outside the lock.        *)
(***************************************************************************)
THEOREM ChangesAreTold == Spec => []StatusIsTold
<1>1. Spec => [](Inv /\ StatusIsTold)
  BY InitInv, StepInv, InitTold, StepTold, PTL DEF Spec
<1> QED
  BY <1>1, PTL
=============================================================================
