--------------------------- MODULE LocalClient_proof ---------------------------
(* Machine-checked proofs about LocalClient and the modules it composes. *)
EXTENDS LocalClient, TLAPS

(***************************************************************************)
(* The flag builder.  A context that has been given a variation is a       *)
(* target of that variation, which the flag has, and of no other that the  *)
(* flag has; targets of variations that it has no longer are left alone.   *)
(***************************************************************************)
Values == {"true", "false"} \cup {Variation3[i] : i \in 1 .. 3}
Rule == [matching : SUBSET Contexts, variation : Index]
FlagBuilder ==
    [on : BOOLEAN, off : Index \cup {Undefined}, fallthrough : Index \cup {Undefined},
     variations : Seq(Values), targets : [Index -> SUBSET Contexts], rules : Seq(Rule),
     want : [Contexts -> Index \cup {Undefined}]]

HasVariation(b, i) == i < Len(b.variations)
WantedAreTargets(b) ==
    \A c \in Contexts : b.want[c] # Undefined =>
        /\ HasVariation(b, b.want[c])
        /\ \A i \in Index : HasVariation(b, i) => (c \in b.targets[i] <=> i = b.want[c])

GoodBuilder(b) == b \in FlagBuilder /\ Len(b.variations) <= 3 /\ WantedAreTargets(b)

LEMMA Variation3IsSequence == Variation3 \in Seq(Values) /\ Len(Variation3) <= 3
BY VariationsAssumption DEF Values

\* The parts that the invariant is about
LEMMA SameTargets ==
    ASSUME NEW b \in FlagBuilder, GoodBuilder(b), NEW d \in FlagBuilder,
           d.variations = b.variations, d.targets = b.targets, d.want = b.want
    PROVE  GoodBuilder(d)
BY DEF GoodBuilder, WantedAreTargets, HasVariation

LEMMA NothingWanted ==
    ASSUME NEW d \in FlagBuilder, Len(d.variations) <= 3, d.want = [c \in Contexts |-> Undefined]
    PROVE  GoodBuilder(d)
BY DEF GoodBuilder, WantedAreTargets

\* What each method makes of a builder is one.
LEMMA OnIsGood ==
    ASSUME NEW b, GoodBuilder(b), NEW on \in BOOLEAN PROVE GoodBuilder(On(b, on))
<1> DEFINE d == On(b, on)
<1>1. b \in FlagBuilder
  BY DEF GoodBuilder
<1>2. d \in FlagBuilder /\ d.variations = b.variations /\ d.targets = b.targets /\ d.want = b.want
  BY <1>1 DEF On, FlagBuilder
<1> HIDE DEF d
<1>3. GoodBuilder(d)
  BY <1>1, <1>2, SameTargets
<1> QED
  BY <1>3 DEF d

LEMMA FallthroughIsGood ==
    ASSUME NEW b, GoodBuilder(b), NEW i \in Index PROVE GoodBuilder(FallthroughVariationIndex(b, i))
<1> DEFINE d == FallthroughVariationIndex(b, i)
<1>1. b \in FlagBuilder
  BY DEF GoodBuilder
<1>2. d \in FlagBuilder /\ d.variations = b.variations /\ d.targets = b.targets /\ d.want = b.want
  BY <1>1 DEF FallthroughVariationIndex, FlagBuilder
<1> HIDE DEF d
<1>3. GoodBuilder(d)
  BY <1>1, <1>2, SameTargets
<1> QED
  BY <1>3 DEF d

LEMMA OffIsGood ==
    ASSUME NEW b, GoodBuilder(b), NEW i \in Index PROVE GoodBuilder(OffVariationIndex(b, i))
<1> DEFINE d == OffVariationIndex(b, i)
<1>1. b \in FlagBuilder
  BY DEF GoodBuilder
<1>2. d \in FlagBuilder /\ d.variations = b.variations /\ d.targets = b.targets /\ d.want = b.want
  BY <1>1 DEF OffVariationIndex, FlagBuilder
<1> HIDE DEF d
<1>3. GoodBuilder(d)
  BY <1>1, <1>2, SameTargets
<1> QED
  BY <1>3 DEF d

LEMMA ClearRulesIsGood ==
    ASSUME NEW b, GoodBuilder(b) PROVE GoodBuilder(ClearRules(b))
<1> DEFINE d == ClearRules(b)
<1>1. b \in FlagBuilder
  BY DEF GoodBuilder
<1>2. d \in FlagBuilder /\ d.variations = b.variations /\ d.targets = b.targets /\ d.want = b.want
  <2>1. <<>> \in Seq(Rule)
    OBVIOUS
  <2> QED
    BY <1>1, <2>1 DEF ClearRules, FlagBuilder
<1> HIDE DEF d
<1>3. GoodBuilder(d)
  BY <1>1, <1>2, SameTargets
<1> QED
  BY <1>3 DEF d

LEMMA ThenReturnIndexIsGood ==
    ASSUME NEW b, GoodBuilder(b), NEW S \in SUBSET Contexts, NEW i \in Index
    PROVE  GoodBuilder(ThenReturnIndex(b, S, i))
<1> DEFINE d == ThenReturnIndex(b, S, i)
           r == [matching |-> S, variation |-> i]
<1>1. b \in FlagBuilder /\ b.rules \in Seq(Rule) /\ r \in Rule
  BY DEF GoodBuilder, FlagBuilder, Rule
<1>2. Append(b.rules, r) \in Seq(Rule)
  BY <1>1
<1>3. d = [b EXCEPT !.rules = Append(b.rules, r)]
  BY DEF ThenReturnIndex
<1>4. d \in FlagBuilder /\ d.variations = b.variations /\ d.targets = b.targets /\ d.want = b.want
  BY <1>1, <1>2, <1>3 DEF FlagBuilder
<1> HIDE DEF d
<1>5. GoodBuilder(d)
  BY <1>1, <1>4, SameTargets
<1> QED
  BY <1>5 DEF d

LEMMA ClearTargetsIsGood ==
    ASSUME NEW b, GoodBuilder(b) PROVE GoodBuilder(ClearTargets(b))
<1> DEFINE d == ClearTargets(b)
<1>1. b \in FlagBuilder /\ Len(b.variations) <= 3
  BY DEF GoodBuilder
<1>2. d \in FlagBuilder /\ d.variations = b.variations /\ d.want = [c \in Contexts |-> Undefined]
  BY <1>1 DEF ClearTargets, FlagBuilder
<1> HIDE DEF d
<1>3. GoodBuilder(d)
  BY <1>1, <1>2, NothingWanted
<1> QED
  BY <1>3 DEF d

LEMMA VariationsIsGood ==
    ASSUME NEW b, GoodBuilder(b), NEW values \in Seq(Values), Len(values) <= 3
    PROVE  GoodBuilder(Variations(b, values))
<1> DEFINE d == Variations(b, values)
<1>1. b \in FlagBuilder
  BY DEF GoodBuilder
<1>2. d \in FlagBuilder /\ d.variations = values /\ d.want = [c \in Contexts |-> Undefined]
  BY <1>1 DEF Variations, FlagBuilder
<1> HIDE DEF d
<1>3. GoodBuilder(d)
  BY <1>1, <1>2, NothingWanted
<1> QED
  BY <1>3 DEF d

LEMMA VariationIndexForKeyIsGood ==
    ASSUME NEW b, GoodBuilder(b), NEW c \in Contexts, NEW i \in Index
    PROVE  GoodBuilder(VariationIndexForKey(b, c, i))
<1> DEFINE n == Len(b.variations)
           targets == [j \in Index |->
                          IF j >= n THEN b.targets[j]
                          ELSE IF j = i THEN b.targets[j] \cup {c} ELSE b.targets[j] \ {c}]
           want == [b.want EXCEPT ![c] = IF i < n THEN i ELSE Undefined]
           d == VariationIndexForKey(b, c, i)
<1>1. b \in FlagBuilder /\ b.variations \in Seq(Values) /\ n \in Nat /\ n <= 3
      /\ b.targets \in [Index -> SUBSET Contexts] /\ b.want \in [Contexts -> Index \cup {Undefined}]
  BY DEF GoodBuilder, FlagBuilder
<1>2. d = [b EXCEPT !.targets = targets, !.want = want]
  BY <1>1 DEF VariationIndexForKey, FlagBuilder
<1>3. \A j \in Index : targets[j] \in SUBSET Contexts
  BY <1>1
<1>4. targets \in [Index -> SUBSET Contexts]
  BY <1>3
<1>5. want \in [Contexts -> Index \cup {Undefined}]
  BY <1>1
<1>6. want[c] = IF i < n THEN i ELSE Undefined
  BY <1>1
<1>7. \A e \in Contexts \ {c} :
         /\ want[e] = b.want[e]
         /\ \A j \in Index : e \in targets[j] <=> e \in b.targets[j]
  BY <1>1
<1>8. \A j \in Index : j < n => (c \in targets[j] <=> j = i)
  BY <1>1 DEF Index
<1> HIDE DEF targets, want, d
<1>9. d \in FlagBuilder /\ d.variations = b.variations /\ d.targets = targets /\ d.want = want
  BY <1>1, <1>2, <1>4, <1>5 DEF FlagBuilder
<1>10. WantedAreTargets(d)
  <2> SUFFICES ASSUME NEW e \in Contexts, want[e] # Undefined
               PROVE  want[e] < n /\ \A j \in Index : j < n => (e \in targets[j] <=> j = want[e])
    BY <1>9 DEF WantedAreTargets, HasVariation
  <2>1. CASE e = c
    BY <2>1, <1>6, <1>8
  <2>2. CASE e # c
    BY <2>2, <1>7 DEF GoodBuilder, WantedAreTargets, HasVariation
  <2> QED
    BY <2>1, <2>2
<1>11. GoodBuilder(d)
  BY <1>1, <1>9, <1>10 DEF GoodBuilder
<1> QED
  BY <1>11 DEF d

LEMMA BooleanFlagIsGood ==
    ASSUME NEW b, GoodBuilder(b) PROVE GoodBuilder(BooleanFlag(b))
<1>1. BooleanVariations \in Seq(Values) /\ Len(BooleanVariations) <= 3 /\ 0 \in Index /\ 1 \in Index
  BY DEF BooleanVariations, Values, Index
<1>2. GoodBuilder(Variations(b, BooleanVariations))
  BY <1>1, VariationsIsGood
<1>3. GoodBuilder(FallthroughVariationIndex(Variations(b, BooleanVariations), 0))
  BY <1>1, <1>2, FallthroughIsGood
<1>4. GoodBuilder(OffVariationIndex(
          FallthroughVariationIndex(Variations(b, BooleanVariations), 0), 1))
  BY <1>1, <1>3, OffIsGood
<1> QED
  BY <1>4 DEF BooleanFlag

LEMMA VariationForAllIndexIsGood ==
    ASSUME NEW b, GoodBuilder(b), NEW i \in Index PROVE GoodBuilder(VariationForAllIndex(b, i))
BY OnIsGood, ClearRulesIsGood, ClearTargetsIsGood, FallthroughIsGood DEF VariationForAllIndex

LEMMA BoolIsIndex == \A value : variationForBool(value) \in Index
BY DEF variationForBool, Index

LEMMA NewBuilderIsGood == GoodBuilder(BooleanFlag(newFlagBuilder))
<1>1. newFlagBuilder \in FlagBuilder /\ Len(newFlagBuilder.variations) <= 3
      /\ newFlagBuilder.want = [c \in Contexts |-> Undefined]
  BY DEF newFlagBuilder, FlagBuilder
<1>2. GoodBuilder(newFlagBuilder)
  BY <1>1, NothingWanted
<1> QED
  BY <1>2, BooleanFlagIsGood

\* Every method of a builder makes a good one of a good one.
LEMMA EditsAreGood ==
    ASSUME NEW b, GoodBuilder(b), NEW d \in Edits(b) PROVE GoodBuilder(d)
<1>0. GoodBuilder(BooleanFlag(b))
  BY BooleanFlagIsGood
<1>1. ASSUME NEW on \in BOOLEAN, d = On(b, on) PROVE GoodBuilder(d)
  BY <1>1, OnIsGood
<1>2. ASSUME NEW c \in Contexts, NEW i \in Index, d = VariationIndexForKey(b, c, i)
      PROVE  GoodBuilder(d)
  BY <1>2, VariationIndexForKeyIsGood
<1>3. ASSUME NEW c \in Contexts, NEW value \in BOOLEAN, d = VariationForKey(b, c, value)
      PROVE  GoodBuilder(d)
  BY <1>0, <1>3, BoolIsIndex, VariationIndexForKeyIsGood DEF VariationForKey
<1>4. ASSUME NEW value \in BOOLEAN, d = FallthroughVariation(b, value) PROVE GoodBuilder(d)
  BY <1>0, <1>4, BoolIsIndex, FallthroughIsGood DEF FallthroughVariation
<1>5. ASSUME NEW value \in BOOLEAN, d = OffVariation(b, value) PROVE GoodBuilder(d)
  BY <1>0, <1>5, BoolIsIndex, OffIsGood DEF OffVariation
<1>6. ASSUME NEW i \in Index, d = FallthroughVariationIndex(b, i) PROVE GoodBuilder(d)
  BY <1>6, FallthroughIsGood
<1>7. ASSUME NEW i \in Index, d = OffVariationIndex(b, i) PROVE GoodBuilder(d)
  BY <1>7, OffIsGood
<1>8. ASSUME NEW value \in BOOLEAN, d = VariationForAll(b, value) PROVE GoodBuilder(d)
  BY <1>0, <1>8, BoolIsIndex, VariationForAllIndexIsGood DEF VariationForAll
<1>9. ASSUME NEW i \in Index, d = VariationForAllIndex(b, i) PROVE GoodBuilder(d)
  BY <1>9, VariationForAllIndexIsGood
<1>10. ASSUME d = ValueForAll(b, Variation3[1]) PROVE GoodBuilder(d)
  <2>1. <<Variation3[1]>> \in Seq(Values) /\ Len(<<Variation3[1]>>) <= 3 /\ 0 \in Index
    BY DEF Values, Index
  <2>2. GoodBuilder(Variations(b, <<Variation3[1]>>))
    BY <2>1, VariationsIsGood
  <2> QED
    BY <1>10, <2>1, <2>2, VariationForAllIndexIsGood DEF ValueForAll
<1>11. ASSUME d = Variations(b, Variation3) PROVE GoodBuilder(d)
  BY <1>11, Variation3IsSequence, VariationsIsGood
<1>12. ASSUME d \in {ClearRules(b), ClearTargets(b)} PROVE GoodBuilder(d)
  BY <1>12, ClearRulesIsGood, ClearTargetsIsGood
<1>13. ASSUME NEW S \in SUBSET Contexts, NEW i \in Index, d = ThenReturnIndex(b, S, i)
       PROVE  GoodBuilder(d)
  BY <1>13, ThenReturnIndexIsGood
<1>14. ASSUME NEW S \in SUBSET Contexts, NEW value \in BOOLEAN, d = ThenReturn(b, S, value)
       PROVE  GoodBuilder(d)
  BY <1>0, <1>14, BoolIsIndex, ThenReturnIndexIsGood DEF ThenReturn
<1> QED
  BY <1>1, <1>2, <1>3, <1>4, <1>5, <1>6, <1>7, <1>8, <1>9, <1>10, <1>11, <1>12, <1>13, <1>14
     DEF Edits

\* A good builder serves its targets: the first target that the evaluator finds is the
\* only one.
LEMMA GoodBuilderServes ==
    ASSUME NEW b, GoodBuilder(b) PROVE ServesTargets(b)
<1> SUFFICES ASSUME b.on, NEW c \in Contexts, b.want[c] # Undefined
             PROVE  Evaluate(createFlag(b), c) = b.variations[b.want[c] + 1]
  BY DEF ServesTargets
<1> DEFINE flag == createFlag(b)
           n == Len(b.variations)
           i == b.want[c]
           targets == {j \in DOMAIN flag.targets : c \in flag.targets[j]}
<1>1. n \in Nat /\ n <= 3 /\ i \in Index /\ i < n
  BY DEF GoodBuilder, FlagBuilder, WantedAreTargets, HasVariation
<1>2. flag.on = b.on /\ flag.variations = b.variations
      /\ flag.targets = [j \in 0 .. n - 1 |-> b.targets[j]]
  BY DEF createFlag
<1>3. targets = {i}
  BY <1>1, <1>2 DEF GoodBuilder, WantedAreTargets, HasVariation, Index
<1>4. FirstOf({i}) = i
  BY <1>1 DEF FirstOf, Index
<1>5. ValueOf(flag, i) = b.variations[i + 1]
  BY <1>1, <1>2 DEF ValueOf, Index
<1> HIDE DEF flag, i
<1>6. Evaluate(flag, c) = ValueOf(flag, FirstOf(targets))
  BY <1>2, <1>3 DEF Evaluate
<1> QED
  BY <1>3, <1>4, <1>5, <1>6 DEF flag, i

(* The builders that there are: the current one, and the one that each goroutine of *)
(* the test is editing.                                                             *)
BuildersInv ==
    /\ DOMAIN builder = Updaters /\ DOMAIN updater = Updaters
    /\ currentBuilder # Nil => GoodBuilder(currentBuilder)
    /\ \A u \in Updaters : builder[u] # Nil \/ updater[u] = "edit" => GoodBuilder(builder[u])

LEMMA InitBuilders == Init => BuildersInv
BY DEF Init, TestInit, BuildersInv

LEMMA SameBuilders ==
    BuildersInv /\ UNCHANGED <<currentBuilder, builder, updater>> => BuildersInv'
BY DEF BuildersInv

LEMMA StepBuilders == BuildersInv /\ [Next]_vars => BuildersInv'
<1> SUFFICES ASSUME BuildersInv, [Next]_vars PROVE BuildersInv'
  OBVIOUS
<1>1. CASE UNCHANGED testVars
  BY <1>1, SameBuilders DEF testVars
<1>2. ASSUME NEW u \in Updaters, FlagCopy(u) PROVE BuildersInv'
  BY <1>2, NewBuilderIsGood DEF FlagCopy, BuildersInv
<1>3. ASSUME NEW u \in Updaters, Edit(u) PROVE BuildersInv'
  <2>1. PICK b \in Edits(builder[u]) : builder' = [builder EXCEPT ![u] = b]
    BY <1>3 DEF Edit
  <2>2. GoodBuilder(b)
    BY <1>3, <2>1, EditsAreGood DEF Edit, BuildersInv
  <2> QED
    BY <1>3, <2>1, <2>2 DEF Edit, BuildersInv
<1>4. ASSUME NEW u \in Updaters, Update(u) PROVE BuildersInv'
  <2>1. updater' = [updater EXCEPT ![u] = "upsert"] \/ updater' = [updater EXCEPT ![u] = "idle"]
    BY <1>4 DEF Update, updateInternal
  <2>2. /\ updater[u] = "edit" /\ currentBuilder' = builder[u]
        /\ builder' = [builder EXCEPT ![u] = Nil]
    BY <1>4 DEF Update
  <2> QED
    BY <2>1, <2>2 DEF BuildersInv
<1>5. ASSUME NEW u \in Updaters, UsePreconfiguredFlag(u) PROVE BuildersInv'
  <2>1. updater' = [updater EXCEPT ![u] = "upsert"] \/ updater' = [updater EXCEPT ![u] = "idle"]
    BY <1>5 DEF UsePreconfiguredFlag, updateInternal
  <2>2. currentBuilder' = Nil /\ builder' = builder
    BY <1>5 DEF UsePreconfiguredFlag
  <2> QED
    BY <2>1, <2>2 DEF BuildersInv
<1>6. ASSUME NEW u \in Updaters, UsePreconfiguredSegment(u) PROVE BuildersInv'
  <2>1. updater' = [updater EXCEPT ![u] = "upsert"] \/ updater' = [updater EXCEPT ![u] = "idle"]
    BY <1>6 DEF UsePreconfiguredSegment, updateInternal
  <2>2. currentBuilder' = currentBuilder /\ builder' = builder
    BY <1>6 DEF UsePreconfiguredSegment
  <2> QED
    BY <2>1, <2>2 DEF BuildersInv
<1>7. ASSUME NEW u \in Updaters, UpsertReturns(u) PROVE BuildersInv'
  BY <1>7 DEF UpsertReturns, BuildersInv
<1>8. ASSUME NEW u \in Updaters, NEW state \in {"valid", "interrupted"}, SimulateStatus(u, state)
      PROVE  BuildersInv'
  BY <1>8, SameBuilders DEF SimulateStatus
<1>9. CASE Build \/ StartTest \/ StartReturns \/ CloseTest
  BY <1>9, SameBuilders DEF Build, StartTest, StartReturns, CloseTest
<1>10. CASE TestStep
  BY <1>2, <1>4, <1>5, <1>6, <1>7, <1>8, <1>9, <1>10, BuildersAssumption DEF TestStep
<1>11. CASE BuilderStep
  BY <1>2, <1>3, <1>4, <1>11, BuildersAssumption DEF BuilderStep
<1>12. [Next]_vars => UNCHANGED testVars \/ TestStep \/ BuilderStep
  BY DEF Next, vars
<1> QED
  BY <1>1, <1>10, <1>11, <1>12

\* A targeted context gets its variation, whatever the order of the methods, and
\* whichever goroutines build the flag one after another.
THEOREM TargetsGetTheirVariation == Spec => []TargetsAreServed
<1>1. BuildersInv => TargetsAreServed
  BY GoodBuilderServes DEF BuildersInv, TargetsAreServed
<1> QED
  BY <1>1, InitBuilders, StepBuilders, PTL DEF Spec

(***************************************************************************)
(* What every source does to the client: it calls Init or Upsert on a      *)
(* goroutine that is in no call, or goes on after a call has ended.        *)
(***************************************************************************)
CallInv ==
    /\ DOMAIN call = Writers
    /\ \A w \in Writers : At(w, "broadcast") => {"step", "keys"} \subseteq DOMAIN call[w]

Calls(w) ==
    /\ call[w].step \in {"idle", "done", "refused"}
    /\ call'[w].step \in {"idle", "init", "upsert"}
    /\ call' = [call EXCEPT ![w] = call'[w]]
SourceMoves ==
    /\ UNCHANGED <<store, trackerVars, missed>>
    /\ call' = call \/ \E w \in Writers : Calls(w)

LEMMA MoveOf ==
    ASSUME DOMAIN call = Writers, NEW w \in Writers, NEW r, Moves(w, r)
    PROVE  /\ DOMAIN call' = Writers /\ call'[w] = r
           /\ \A v \in Writers \ {w} : call'[v] = call[v]
           /\ call' = [call EXCEPT ![w] = call'[w]]
BY DEF Moves

LEMMA CallsOfSources ==
    ASSUME DOMAIN call = Writers, NEW w \in Writers
    PROVE  /\ \A data : CallInit(w, data) => Calls(w)
           /\ \A k, item : CallUpsert(w, k, item) => Calls(w)
           /\ Ended(w, "done") \/ Ended(w, "refused") => Calls(w)
BY MoveOf DEF CallInit, CallUpsert, Ended, Calls, At, Idle, Moves

LEMMA FileMoves == DOMAIN call = Writers /\ FileStep => SourceMoves
<1> SUFFICES ASSUME DOMAIN call = Writers, FileStep PROVE SourceMoves
  OBVIOUS
<1>1. CASE ReadFile
  <2>1. UNCHANGED <<store, trackerVars, missed>>
    BY <1>1 DEF ReadFile
  <2>2. UNCHANGED call \/ \E data : CallInit(Loader, data)
    BY <1>1 DEF ReadFile
  <2> QED
    BY <2>1, <2>2, CallsOfSources, LoaderAssumption DEF SourceMoves
<1>2. CASE InitReturns
  BY <1>2, CallsOfSources, LoaderAssumption DEF InitReturns, SourceMoves
<1>3. CASE StartFile \/ Started \/ SetupWatches \/ Reloaded \/ FileEvent \/ RetryWatches
  BY <1>3 DEF StartFile, Started, SetupWatches, Reloaded, FileEvent, RetryWatches, SourceMoves,
              clientVars, sinkVars
<1>4. CASE WatcherQuits \/ RetryTimer \/ CloseFile
           \/ \E f \in 1 .. Files : \E content \in Contents[f] : FileChanges(f, content)
  BY <1>4 DEF WatcherQuits, RetryTimer, CloseFile, FileChanges, SourceMoves, clientVars, sinkVars
<1> QED
  BY <1>1, <1>2, <1>3, <1>4 DEF FileStep, LoaderStep

LEMMA UpdateMoves ==
    ASSUME DOMAIN call = Writers, NEW u \in Updaters, NEW k, NEW value,
           updateInternal(u, k, value), UNCHANGED <<sinkVars, trackerVars, missed>>
    PROVE  SourceMoves
<1>1. UNCHANGED call \/ \E item : CallUpsert(u, k, item)
  BY DEF updateInternal
<1> QED
  BY <1>1, CallsOfSources, StarterAssumption DEF SourceMoves, sinkVars

LEMMA TestMoves == DOMAIN call = Writers /\ (TestStep \/ BuilderStep) => SourceMoves
<1> SUFFICES ASSUME DOMAIN call = Writers, TestStep \/ BuilderStep PROVE SourceMoves
  OBVIOUS
<1>1. CASE StartTest \/ StartReturns
  BY <1>1, CallsOfSources, StarterAssumption DEF StartTest, StartReturns, SourceMoves
<1>2. CASE Build \/ CloseTest \/ \E u \in Builders : FlagCopy(u) \/ Edit(u)
  BY <1>2 DEF Build, CloseTest, FlagCopy, Edit, SourceMoves, clientVars, sinkVars
<1>3. CASE \E u \in Builders : Update(u)
  BY <1>3, UpdateMoves, BuildersAssumption DEF Update
<1>4. CASE \E u \in Updaters : UsePreconfiguredFlag(u) \/ UsePreconfiguredSegment(u)
  BY <1>4, UpdateMoves DEF UsePreconfiguredFlag, UsePreconfiguredSegment
<1>5. CASE \E u \in Updaters : \E state \in {"valid", "interrupted"} : SimulateStatus(u, state)
  BY <1>5 DEF SimulateStatus, SourceMoves
<1>6. CASE \E u \in Updaters : UpsertReturns(u)
  BY <1>6, CallsOfSources, StarterAssumption DEF UpsertReturns, SourceMoves, sinkVars
<1> QED
  BY <1>1, <1>2, <1>3, <1>4, <1>5, <1>6 DEF TestStep, BuilderStep

LEMMA AllSources == DOMAIN call = Writers /\ [Next]_vars =>
    \/ SourceMoves
    \/ \E w \in Writers : SinkStep(w)
    \/ TrackerStep
BY FileMoves, TestMoves DEF Next, vars, SourceMoves, clientVars, sinkVars

LEMMA TrackerWritesNothing == TrackerStep => UNCHANGED <<sinkVars, call>>
BY DEF TrackerStep, ListenerStep, FirstEvaluation, FlagChanged, SendValueChange, ListenerEnds,
       ReadValueChange, AddFlagValueChangeListener, RemoveFlagValueChangeListener

LEMMA StepCall == CallInv /\ [Next]_vars => CallInv'
<1> SUFFICES ASSUME CallInv, [Next]_vars PROVE CallInv'
  OBVIOUS
<1>0. DOMAIN call = Writers
  BY DEF CallInv
<1>1. CASE SourceMoves
  BY <1>1 DEF CallInv, SourceMoves, Calls, At
<1>2. ASSUME NEW w \in Writers, SinkStep(w) PROVE CallInv'
  <2> DEFINE Broadcasts(r) == {"step", "keys"} \subseteq DOMAIN r
  <2> SUFFICES DOMAIN call' = Writers /\ (\A v \in Writers \ {w} : call'[v] = call[v])
               /\ (call'[w].step = "broadcast" => Broadcasts(call'[w]))
    BY DEF CallInv, At
  <2>1. CASE Broadcast(w)
    <3>1. {"step", "keys"} \subseteq DOMAIN call[w]
      BY <2>1 DEF Broadcast, CallInv
    <3>2. DOMAIN [call[w] EXCEPT !.sending = TRUE] = DOMAIN call[w]
      OBVIOUS
    <3> QED
      BY <2>1, <3>1, <3>2, <1>0, MoveOf DEF Broadcast
  <2>2. \A keys : SendChangeEvents(w, keys) =>
           DOMAIN call' = Writers /\ (\A v \in Writers \ {w} : call'[v] = call[v])
           /\ (call'[w].step = "broadcast" => Broadcasts(call'[w]))
    <3> TAKE keys
    <3> HAVE SendChangeEvents(w, keys)
    <3>1. CASE keys = {}
      BY <3>1, <1>0, MoveOf DEF SendChangeEvents
    <3>2. CASE keys # {}
      BY <3>2, <1>0, MoveOf DEF SendChangeEvents
    <3> QED
      BY <3>1, <3>2
  <2> HIDE DEF Broadcasts
  <2>3. CASE Send(w)
    BY <2>2, <2>3 DEF Send
  <2>4. CASE HasListeners(w)
    BY <2>2, <2>4 DEF HasListeners
  <2>5. CASE StoreInit(w)
    BY <2>2, <2>5 DEF StoreInit
  <2>6. CASE ReadOld(w) \/ StoreRefuses(w)
    BY <2>6, <1>0, MoveOf DEF ReadOld, StoreRefuses
  <2>7. CASE StoreUpsert(w)
    BY <2>7, <1>0, MoveOf DEF StoreUpsert
  <2> QED
    BY <1>2, <2>1, <2>3, <2>4, <2>5, <2>6, <2>7 DEF SinkStep
<1>3. CASE TrackerStep
  BY <1>3, TrackerWritesNothing DEF CallInv, At
<1> QED
  BY <1>0, <1>1, <1>2, <1>3, AllSources

(***************************************************************************)
(* The listener.  What it has told the application ends with the value     *)
(* that it knows, or is about to send, and no value is told twice in a     *)
(* row, except where the value was another one when the listener was added *)
(* than at the first evaluation; and as long as it does not know the       *)
(* flag's value, an event of the flag is in its channel, or is to be sent  *)
(* by a call of the sink.                                                  *)
(***************************************************************************)
IsSequence(s) == \E S : s \in Seq(S)

LastSent == IF valueCh = <<>> THEN told ELSE valueCh[Len(valueCh)]
\* The value changed before the first evaluation, and nothing has been sent since.
Unheard == early /\ valueCh = <<>>
ToldInv ==
    /\ listener \in {"off", "first", "wait", "send"}
    /\ IsSequence(valueCh)
    /\ subscribed => listener # "off"
    /\ listener = "first" => valueCh = <<>>
    /\ listener = "wait" => Unheard \/ LastSent = currentValue
    /\ listener = "send" => pending = currentValue /\ (Unheard \/ pending # LastSent)
    /\ valueCh # <<>> => early \/ told # valueCh[1]
    /\ \A i \in 1 .. Len(valueCh) - 1 : valueCh[i] # valueCh[i + 1]

\* A call of the sink that has an event of the flag to send, unless no one listens.
HasEvent(w) ==
    \/ At(w, "check") /\ call[w].key = Flag
    \/ At(w, "broadcast") /\ Flag \in call[w].keys
InChannel == \E i \in 1 .. Len(flagCh) : flagCh[i] = Flag
EventComing == InChannel \/ \E w \in Writers : HasEvent(w)
EventInv ==
    /\ IsSequence(flagCh)
    /\ subscribed /\ Listening => missed \/ currentValue = Value(store) \/ EventComing

ListenerInv == CallInv /\ ToldInv /\ EventInv

LEMMA SequenceFacts ==
    ASSUME NEW s, IsSequence(s)
    PROVE  /\ Len(s) \in Nat /\ (s = <<>> <=> Len(s) = 0)
           /\ \A e : /\ IsSequence(Append(s, e)) /\ Len(Append(s, e)) = Len(s) + 1
                     /\ Append(s, e)[Len(s) + 1] = e
                     /\ \A i \in 1 .. Len(s) : Append(s, e)[i] = s[i]
           /\ s # <<>> => /\ IsSequence(Tail(s)) /\ Len(Tail(s)) = Len(s) - 1 /\ Head(s) = s[1]
                          /\ \A i \in 1 .. Len(s) - 1 : Tail(s)[i] = s[i + 1]
<1>1. PICK S : s \in Seq(S)
  BY DEF IsSequence
<1>2. Len(s) \in Nat /\ (s = <<>> <=> Len(s) = 0)
  BY <1>1
<1>3. ASSUME NEW e
      PROVE  /\ IsSequence(Append(s, e)) /\ Len(Append(s, e)) = Len(s) + 1
             /\ Append(s, e)[Len(s) + 1] = e
             /\ \A i \in 1 .. Len(s) : Append(s, e)[i] = s[i]
  <2>1. s \in Seq(S \cup {e}) /\ e \in S \cup {e}
    BY <1>1
  <2>2. Append(s, e) \in Seq(S \cup {e})
    BY <2>1
  <2> QED
    BY <2>1, <2>2 DEF IsSequence
<1>4. ASSUME s # <<>>
      PROVE  /\ IsSequence(Tail(s)) /\ Len(Tail(s)) = Len(s) - 1 /\ Head(s) = s[1]
             /\ \A i \in 1 .. Len(s) - 1 : Tail(s)[i] = s[i + 1]
  <2>1. Tail(s) \in Seq(S)
    BY <1>1, <1>4
  <2> QED
    BY <1>1, <1>4, <2>1 DEF IsSequence
<1> QED
  BY <1>2, <1>3, <1>4

LEMMA InitListener == Init => ListenerInv
<1> SUFFICES ASSUME Init PROVE ListenerInv
  OBVIOUS
<1>1. <<>> \in Seq({}) /\ IsSequence(<<>>)
  BY DEF IsSequence
<1> QED
  BY <1>1 DEF Init, ClientInit, ListenerInv, CallInv, ToldInv, EventInv, Idle, At, LastSent,
              Listening

LEMMA SameTold ==
    ToldInv /\ UNCHANGED <<subscribed, valueCh, listener, currentValue, pending, told, early>>
        => ToldInv'
BY DEF ToldInv, LastSent, Unheard

LEMMA StepTold == ToldInv /\ DOMAIN call = Writers /\ [Next]_vars => ToldInv'
<1> SUFFICES ASSUME ToldInv, DOMAIN call = Writers, [Next]_vars PROVE ToldInv'
  OBVIOUS
<1>0. Len(valueCh) \in Nat /\ (valueCh = <<>> <=> Len(valueCh) = 0)
  BY SequenceFacts DEF ToldInv
<1>1. CASE SourceMoves
  BY <1>1, SameTold DEF SourceMoves, trackerVars
<1>2. ASSUME NEW w \in Writers, SinkStep(w) PROVE ToldInv'
  <2>1. UNCHANGED <<subscribed, valueCh, listener, currentValue, pending, told, early>>
    BY <1>2 DEF SinkStep, ReadOld, StoreInit, StoreUpsert, StoreRefuses, HasListeners, Broadcast,
                Send, trackerVars
  <2> QED
    BY <2>1, SameTold
<1>3. CASE AddFlagValueChangeListener
  <2>1. <<>> \in Seq({}) /\ IsSequence(<<>>) /\ Len(<<>>) = 0
    BY DEF IsSequence
  <2> QED
    BY <1>3, <2>1 DEF AddFlagValueChangeListener, ToldInv
<1>4. CASE RemoveFlagValueChangeListener
  BY <1>4 DEF RemoveFlagValueChangeListener, ToldInv, LastSent, Unheard
<1>5. CASE FirstEvaluation
  BY <1>5 DEF FirstEvaluation, ToldInv, LastSent, Unheard
<1>6. CASE FlagChanged
  BY <1>6 DEF FlagChanged, ToldInv, LastSent, Unheard
<1>7. CASE ListenerEnds
  BY <1>7 DEF ListenerEnds, ToldInv, LastSent, Unheard
<1>8. CASE SendValueChange
  <2>1. /\ valueCh' = Append(valueCh, pending) /\ listener = "send" /\ listener' = "wait"
        /\ UNCHANGED <<subscribed, told, early, currentValue>>
    BY <1>8 DEF SendValueChange
  <2>2. /\ IsSequence(valueCh') /\ Len(valueCh') = Len(valueCh) + 1
        /\ valueCh'[Len(valueCh) + 1] = pending
        /\ \A i \in 1 .. Len(valueCh) : valueCh'[i] = valueCh[i]
    BY <2>1, SequenceFacts DEF ToldInv
  <2>3. valueCh' # <<>> /\ LastSent' = pending
    BY <1>0, <2>2 DEF LastSent
  <2>4. early \/ told # valueCh'[1]
    BY <1>0, <2>1, <2>2 DEF ToldInv, LastSent, Unheard
  <2>5. \A i \in 1 .. Len(valueCh') - 1 : valueCh'[i] # valueCh'[i + 1]
    BY <1>0, <2>1, <2>2 DEF ToldInv, LastSent, Unheard
  <2> QED
    BY <2>1, <2>2, <2>3, <2>4, <2>5 DEF ToldInv
<1>9. CASE ReadValueChange
  <2>1. /\ valueCh # <<>> /\ told' = Head(valueCh) /\ valueCh' = Tail(valueCh)
        /\ UNCHANGED <<subscribed, listener, currentValue, pending>>
    BY <1>9 DEF ReadValueChange
  <2>2. /\ IsSequence(valueCh') /\ Len(valueCh') = Len(valueCh) - 1 /\ told' = valueCh[1]
        /\ \A i \in 1 .. Len(valueCh) - 1 : valueCh'[i] = valueCh[i + 1]
    BY <2>1, SequenceFacts DEF ToldInv
  <2>3. valueCh' = <<>> <=> Len(valueCh) = 1
    <3>1. valueCh' = <<>> <=> Len(valueCh') = 0
      BY <2>2, SequenceFacts
    <3> QED
      BY <1>0, <2>2, <3>1
  <2>4. LastSent' = LastSent
    BY <1>0, <2>1, <2>2, <2>3 DEF LastSent
  <2>5. valueCh' # <<>> => told' # valueCh'[1]
    BY <1>0, <2>1, <2>2, <2>3 DEF ToldInv
  <2>6. \A i \in 1 .. Len(valueCh') - 1 : valueCh'[i] # valueCh'[i + 1]
    BY <1>0, <2>1, <2>2 DEF ToldInv
  <2> QED
    BY <2>1, <2>2, <2>4, <2>5, <2>6 DEF ToldInv, Unheard
<1> QED
  BY <1>1, <1>2, <1>3, <1>4, <1>5, <1>6, <1>7, <1>8, <1>9, AllSources DEF TrackerStep, ListenerStep

\* A step that takes no event from the channel or from a call
LEMMA EventsStay ==
    ASSUME EventInv, UNCHANGED <<subscribed, listener, currentValue, store, missed>>,
           IsSequence(flagCh'), InChannel => InChannel',
           \A w \in Writers : HasEvent(w) => EventComing'
    PROVE  EventInv'
BY DEF EventInv, EventComing, Listening

LEMMA SinkEvents ==
    ASSUME CallInv, EventInv, NEW w \in Writers, SinkStep(w) PROVE EventInv'
<1>0. DOMAIN call = Writers
  BY DEF CallInv
<1>1. ASSUME UNCHANGED <<subscribed, flagCh, listener, currentValue, store, missed>>,
             \A v \in Writers \ {w} : call'[v] = call[v], HasEvent(w) => HasEvent(w)' \/ InChannel'
                \/ ~subscribed
      PROVE  EventInv'
  BY <1>1 DEF EventInv, EventComing, InChannel, HasEvent, At, Listening
<1>2. \A keys : SendChangeEvents(w, keys) =>
         /\ \A v \in Writers \ {w} : call'[v] = call[v]
         /\ Flag \in keys => HasEvent(w)'
  <2> TAKE keys
  <2> HAVE SendChangeEvents(w, keys)
  <2>1. CASE keys = {}
    BY <2>1, <1>0, MoveOf DEF SendChangeEvents
  <2>2. CASE keys # {}
    <3>1. Moves(w, [step |-> "broadcast", keys |-> keys, sending |-> FALSE])
      BY <2>2 DEF SendChangeEvents
    <3>2. /\ call'[w].step = "broadcast" /\ call'[w].keys = keys
          /\ \A v \in Writers \ {w} : call'[v] = call[v]
      BY <3>1, <1>0, MoveOf
    <3> QED
      BY <3>2 DEF HasEvent, At
  <2> QED
    BY <2>1, <2>2
<1>3. CASE ReadOld(w) \/ StoreRefuses(w)
  <2>1. ~HasEvent(w)
    BY <1>3 DEF ReadOld, StoreRefuses, HasEvent, At
  <2> QED
    BY <1>0, <1>1, <1>3, <2>1, MoveOf DEF ReadOld, StoreRefuses, sinkVars, trackerVars
<1>4. CASE StoreInit(w)
  <2> DEFINE new == call[w].data
             changed == {k \in Keys : call[w].notify /\ IsChange(call[w].old[k], new[k])}
  <2>1. /\ At(w, "store") /\ store' = new /\ UNCHANGED trackerVars /\ SendChangeEvents(w, changed)
        /\ missed' = (missed \/ (Listening /\ Value(new) # Value(store) /\ Flag \notin changed))
    BY <1>4 DEF StoreInit
  <2>2. Listening' = Listening
    BY <2>1 DEF Listening, trackerVars
  <2> HIDE DEF changed, new
  <2>3. CASE Flag \in changed
    BY <1>2, <2>1, <2>3 DEF EventInv, EventComing, trackerVars
  <2>4. CASE Flag \notin changed /\ Value(new) # Value(store)
    BY <2>1, <2>2, <2>4 DEF EventInv, trackerVars
  <2>5. CASE Flag \notin changed /\ Value(new) = Value(store)
    <3>1. ~HasEvent(w)
      BY <2>1 DEF HasEvent, At
    <3>2. \A v \in Writers \ {w} : call'[v] = call[v]
      BY <1>2, <2>1
    <3>3. EventComing => EventComing'
      BY <2>1, <3>1, <3>2 DEF EventComing, HasEvent, InChannel, At, trackerVars
    <3>4. missed => missed'
      BY <2>1
    <3>5. Value(store)' = Value(store) /\ UNCHANGED <<subscribed, flagCh, currentValue>>
      BY <2>1, <2>5 DEF Value, trackerVars
    <3> QED
      BY <2>2, <3>3, <3>4, <3>5 DEF EventInv
  <2> QED
    BY <2>3, <2>4, <2>5
<1>5. CASE StoreUpsert(w)
  <2> DEFINE k == call[w].key
  <2>1. ~HasEvent(w) /\ At(w, "upsert") /\ UNCHANGED <<trackerVars, missed>>
    BY <1>5 DEF StoreUpsert, HasEvent, At
  <2>2. CASE UNCHANGED store
    <3>1. \A v \in Writers \ {w} : call'[v] = call[v]
      BY <1>0, <1>5, MoveOf DEF StoreUpsert
    <3> QED
      BY <1>1, <2>1, <2>2, <3>1 DEF trackerVars
  <2>3. CASE store' = [store EXCEPT ![k] = call[w].item] /\ Moves(w, [step |-> "check", key |-> k])
    <3>1. call'[w].step = "check" /\ call'[w].key = k /\ \A v \in Writers \ {w} : call'[v] = call[v]
      BY <1>0, <2>3, MoveOf
    <3>2. CASE k = Flag
      BY <2>1, <3>1, <3>2 DEF EventInv, EventComing, HasEvent, At, trackerVars
    <3>3. CASE k # Flag
      <4>1. Value(store)' = Value(store)
        BY <2>3, <3>3 DEF Value
      <4>2. EventComing => EventComing'
        BY <2>1, <3>1 DEF EventComing, HasEvent, InChannel, At, trackerVars
      <4> QED
        BY <2>1, <4>1, <4>2 DEF EventInv, Listening, trackerVars
    <3> QED
      BY <3>2, <3>3
  <2> QED
    BY <1>5, <2>2, <2>3 DEF StoreUpsert
<1>6. CASE HasListeners(w)
  <2> DEFINE keys == IF subscribed THEN {call[w].key} ELSE {}
  <2>1. At(w, "check") /\ SendChangeEvents(w, keys) /\ UNCHANGED <<sinkVars, trackerVars, missed>>
    BY <1>6 DEF HasListeners
  <2>2. HasEvent(w) => ~subscribed \/ Flag \in keys
    BY <2>1 DEF HasEvent, At
  <2> HIDE DEF keys
  <2> QED
    BY <1>1, <1>2, <2>1, <2>2 DEF sinkVars, trackerVars
<1>7. CASE Broadcast(w)
  <2>1. /\ DOMAIN [call[w] EXCEPT !.sending = TRUE] = DOMAIN call[w]
        /\ {"step", "keys"} \subseteq DOMAIN call[w]
    BY <1>7 DEF Broadcast, CallInv
  <2>2. call'[w].step = call[w].step /\ call'[w].keys = call[w].keys
        /\ \A v \in Writers \ {w} : call'[v] = call[v]
    BY <1>0, <1>7, <2>1, MoveOf DEF Broadcast
  <2>3. HasEvent(w) => HasEvent(w)'
    BY <1>7, <2>2 DEF HasEvent, Broadcast, At
  <2> QED
    BY <1>1, <1>7, <2>2, <2>3 DEF Broadcast, sinkVars, trackerVars
<1>8. CASE Send(w)
  <2>1. PICK k \in call[w].keys :
           /\ IF subscribed THEN flagCh' = Append(flagCh, k) ELSE flagCh' = flagCh
           /\ SendChangeEvents(w, call[w].keys \ {k})
    BY <1>8 DEF Send
  <2>2. At(w, "broadcast") /\ UNCHANGED <<store, subscribed, listener, currentValue, missed>>
    BY <1>8 DEF Send, sinkVars
  <2>3. \A v \in Writers \ {w} : call'[v] = call[v]
    BY <1>2, <2>1
  <2>4. CASE ~subscribed
    BY <2>1, <2>2, <2>4 DEF EventInv
  <2>5. CASE subscribed
    <3>1. /\ IsSequence(flagCh') /\ Len(flagCh) \in Nat /\ Len(flagCh') = Len(flagCh) + 1
          /\ flagCh'[Len(flagCh) + 1] = k /\ \A i \in 1 .. Len(flagCh) : flagCh'[i] = flagCh[i]
      <4>1. flagCh' = Append(flagCh, k) /\ IsSequence(flagCh)
        BY <2>1, <2>5 DEF EventInv
      <4> HIDE DEF IsSequence
      <4> QED
        BY <4>1, SequenceFacts
    <3>2. InChannel => InChannel'
      BY <3>1 DEF InChannel
    <3>3. k = Flag => InChannel'
      BY <3>1 DEF InChannel
    <3>4. HasEvent(w) => k = Flag \/ HasEvent(w)'
      BY <1>2, <2>1, <2>2 DEF HasEvent, At
    <3>5. EventComing => EventComing'
      BY <2>3, <3>2, <3>3, <3>4 DEF EventComing, HasEvent, At
    <3> QED
      BY <2>2, <3>1, <3>5 DEF EventInv, Listening
  <2> QED
    BY <2>4, <2>5
<1> QED
  BY <1>3, <1>4, <1>5, <1>6, <1>7, <1>8 DEF SinkStep

LEMMA StepEvents == CallInv /\ ToldInv /\ EventInv /\ [Next]_vars => EventInv'
<1> SUFFICES ASSUME CallInv, ToldInv, EventInv, [Next]_vars PROVE EventInv'
  OBVIOUS
<1>0. DOMAIN call = Writers
  BY DEF CallInv
<1>1. CASE SourceMoves
  <2>1. UNCHANGED <<subscribed, listener, currentValue, store, missed, flagCh>>
    BY <1>1 DEF SourceMoves, trackerVars
  <2>2. \A v \in Writers : HasEvent(v) => HasEvent(v)'
    BY <1>0, <1>1 DEF SourceMoves, Calls, HasEvent, At
  <2> QED
    BY <2>1, <2>2, EventsStay DEF EventComing, InChannel, EventInv
<1>2. CASE \E w \in Writers : SinkStep(w)
  BY <1>2, SinkEvents
<1>3. CASE AddFlagValueChangeListener
  <2>1. <<>> \in Seq({}) /\ IsSequence(<<>>)
    BY DEF IsSequence
  <2> QED
    BY <1>3, <2>1 DEF AddFlagValueChangeListener, EventInv, Listening
<1>4. CASE RemoveFlagValueChangeListener
  BY <1>4 DEF RemoveFlagValueChangeListener, EventInv
<1>5. CASE FirstEvaluation
  BY <1>5 DEF FirstEvaluation, EventInv, sinkVars, Value
<1>6. CASE FlagChanged
  <2>1. /\ flagCh # <<>> /\ flagCh' = Tail(flagCh) /\ UNCHANGED <<store, call, subscribed>>
        /\ Head(flagCh) # Flag \/ Value(store) = currentValue
             => UNCHANGED <<listener, currentValue>>
        /\ Head(flagCh) = Flag => currentValue' = Value(store)
        /\ missed' = IF Head(flagCh) = Flag THEN FALSE ELSE missed
    BY <1>6 DEF FlagChanged, sinkVars
  <2>2. /\ IsSequence(flagCh') /\ Len(flagCh) \in Nat /\ Len(flagCh') = Len(flagCh) - 1
        /\ Head(flagCh) = flagCh[1] /\ \A i \in 1 .. Len(flagCh) - 1 : flagCh'[i] = flagCh[i + 1]
    BY <2>1, SequenceFacts DEF EventInv
  <2>3. CASE Head(flagCh) = Flag
    BY <2>1, <2>2, <2>3 DEF EventInv, Value
  <2>4. CASE Head(flagCh) # Flag
    <3>1. ASSUME InChannel PROVE InChannel'
      <4>1. PICK i \in 1 .. Len(flagCh) : flagCh[i] = Flag
        BY <3>1 DEF InChannel
      <4>2. i - 1 \in 1 .. Len(flagCh) - 1 /\ flagCh'[i - 1] = flagCh[i]
        BY <2>2, <2>4, <4>1
      <4> QED
        BY <2>2, <4>1, <4>2 DEF InChannel
    <3>2. \A v \in Writers : HasEvent(v) => HasEvent(v)'
      BY <2>1 DEF HasEvent, At
    <3>3. UNCHANGED <<subscribed, listener, currentValue, store, missed>>
      BY <2>1, <2>4
    <3> QED
      BY <2>2, <3>1, <3>2, <3>3, EventsStay DEF EventComing
  <2> QED
    BY <2>3, <2>4
<1>7. CASE ListenerEnds
  BY <1>7 DEF ListenerEnds, EventInv
<1>8. CASE SendValueChange
  BY <1>8 DEF SendValueChange, EventInv, Listening, EventComing, InChannel, HasEvent, At, sinkVars
<1>9. CASE ReadValueChange
  BY <1>9 DEF ReadValueChange, EventInv, Listening, EventComing, InChannel, HasEvent, At, sinkVars
<1> QED
  BY <1>0, <1>1, <1>2, <1>3, <1>4, <1>5, <1>6, <1>7, <1>8, <1>9, AllSources
     DEF TrackerStep, ListenerStep

LEMMA StepListener == ListenerInv /\ [Next]_vars => ListenerInv'
BY StepCall, StepTold, StepEvents DEF ListenerInv, CallInv

\* As long as someone listens, the last value that the application is told, now or by
\* what is on its way to it, is the flag's value, or an event of the flag is still to
\* come, so that the flag is evaluated again; unless the value changed without an event,
\* or changed after the listener was added and before the first evaluation, and nothing
\* has been sent since (flagTrackerImpl.runValueChangeListener, DataSourceUpdateSinkImpl).
LastTold == IF listener = "send" THEN pending ELSE LastSent
ValueIsTold ==
    subscribed /\ Listening =>
        missed \/ (Unheard /\ listener # "send") \/ EventComing \/ LastTold = Value(store)
THEOREM ListenerFollowsTheValue == Spec => []ValueIsTold
<1>1. ListenerInv => ValueIsTold
  BY DEF ListenerInv, ToldInv, EventInv, ValueIsTold, LastTold, Listening
<1> QED
  BY <1>1, InitListener, StepListener, PTL DEF Spec

\* "pushes a new FlagValueChangeEvent to the channel if and only if the resulting value
\* has changed" (AddFlagValueChangeListener): each value that the application reads is
\* another one than it was told before or had when the listener was added, with listeners
\* coming and going, unless the first evaluation found another one.
EachValueIsNew == [][ReadValueChange => early \/ told' # told]_vars
THEOREM OnlyChangesAreTold == Spec => EachValueIsNew
<1>1. ListenerInv /\ [Next]_vars => [ReadValueChange => early \/ told' # told]_vars
  <2> SUFFICES ASSUME ListenerInv, ReadValueChange PROVE early \/ told' # told
    OBVIOUS
  <2>1. valueCh # <<>> /\ told' = Head(valueCh) /\ IsSequence(valueCh)
        /\ (early \/ told # valueCh[1])
    BY DEF ReadValueChange, ListenerInv, ToldInv
  <2>2. Head(valueCh) = valueCh[1]
    BY <2>1, SequenceFacts
  <2> QED
    BY <2>1, <2>2
<1> QED
  BY <1>1, InitListener, StepListener, PTL DEF Spec, EachValueIsNew

(***************************************************************************)
(* Files.  Once every file is watched, an event is pending for each file   *)
(* that has changed since it was read; until then, a retry is scheduled.   *)
(***************************************************************************)
LoaderCall ==
    /\ \A w \in Writers \ {Loader} : At(w, "idle")
    /\ call[Loader].step \in {"idle", "init", "store", "broadcast", "done", "refused"}
    /\ ~At(Loader, "idle") <=> loader = "init"
LoaderTypes ==
    /\ loader \in {"new", "read", "init", "loaded", "setup", "wait", "end"}
    /\ IsSequence(filesData) /\ Len(filesData) < Files
    /\ loader # "read" => filesData = <<>>
    /\ \A f \in 1 .. Len(filesData) : filesData[f] \notin {Missing, Bad}
    /\ files = [f \in 1 .. Files |-> files[f]] /\ watched \subseteq 1 .. Files
    /\ ready /\ loader # "end" => isInitialized

AllWatched == watched = 1 .. Files
WatchInv ==
    /\ loader = "new" => starting
    /\ loader \in {"setup", "wait"} => ~starting
    /\ ~starting /\ loader \in {"read", "init", "loaded", "wait"} => AllWatched \/ retry # "none"

Usable == Readable /\ Mergeable(files)
ReadInv == AllWatched => \A f \in 1 .. Len(filesData) : f \in events \/ filesData[f] = files[f]
LoadInv ==
    AllWatched /\ events = {} =>
        /\ At(Loader, "init") \/ At(Loader, "store") => Usable /\ call[Loader].data = Merge(files)
        /\ At(Loader, "broadcast") \/ At(Loader, "done") => Usable /\ store = Merge(files)
        /\ At(Loader, "refused") => lost # {}
        /\ loader \in {"loaded", "wait"} => lost # {} \/ FilesAreLoaded
FilesInv == source = "file" => LoaderCall /\ LoaderTypes /\ WatchInv /\ ReadInv /\ LoadInv

LEMMA InitFiles == Init => FilesInv
<1> SUFFICES ASSUME Init PROVE FilesInv
  OBVIOUS
<1>1. <<>> \in Seq({}) /\ IsSequence(<<>>) /\ Len(<<>>) = 0 /\ 0 < Files
  BY FilesAssumption DEF IsSequence
<1>2. files = [f \in 1 .. Files |-> files[f]]
  BY DEF Init, FileInit
<1>3. LoaderCall
  BY LoaderAssumption DEF Init, ClientInit, FileInit, LoaderCall, At, Idle
<1>4. LoaderTypes
  BY <1>1, <1>2 DEF Init, FileInit, LoaderTypes
<1>5. WatchInv /\ ReadInv /\ LoadInv
  BY <1>1, <1>3 DEF Init, FileInit, WatchInv, ReadInv, LoadInv, LoaderCall, At
<1> QED
  BY <1>3, <1>4, <1>5 DEF FilesInv

LEMMA SameUsable ==
    files' = files =>
        /\ Readable' <=> Readable
        /\ Mergeable(files)' <=> Mergeable(files)
        /\ Merge(files)' = Merge(files)
BY DEF Readable, Mergeable, Merge, HavingKey

LEMMA SameFiles == FilesInv /\ UNCHANGED <<source, fileVars, sinkVars, call>> => FilesInv'
<1> SUFFICES ASSUME FilesInv, UNCHANGED <<source, fileVars, sinkVars, call>>, source = "file"
             PROVE  (LoaderCall /\ LoaderTypes /\ WatchInv /\ ReadInv /\ LoadInv)'
  BY DEF FilesInv
<1>1. UNCHANGED <<files, loader, filesData, starting, watched, events, retry, isInitialized, ready,
                  store, status, lost, call>>
  BY DEF fileVars, watchVars, readyVars, sinkVars
<1>2. (LoaderCall /\ LoaderTypes /\ WatchInv /\ ReadInv)'
  BY <1>1 DEF FilesInv, LoaderCall, LoaderTypes, WatchInv, ReadInv, AllWatched, At
<1>3. LoadInv'
  BY <1>1, SameUsable DEF FilesInv, LoadInv, AllWatched, Usable, FilesAreLoaded, At
<1> QED
  BY <1>2, <1>3

\* What a call of the sink does with the loader's data
LEMMA SinkFiles ==
    ASSUME DOMAIN call = Writers, FilesInv, source = "file", NEW w \in Writers, SinkStep(w),
           UNCHANGED <<source, fileVars>>
    PROVE  FilesInv'
<1>1. w = Loader
  BY DEF FilesInv, LoaderCall, SinkStep, ReadOld, StoreInit, StoreUpsert, StoreRefuses,
         HasListeners, Broadcast, Send, At
<1>2. UNCHANGED <<files, loader, filesData, starting, watched, events, retry, isInitialized, ready>>
  BY DEF fileVars, watchVars, readyVars
<1>3. (LoaderTypes /\ WatchInv /\ ReadInv)' /\ (Usable' <=> Usable) /\ Merge(files)' = Merge(files)
      /\ AllWatched' = AllWatched
  BY <1>2 DEF FilesInv, LoaderTypes, WatchInv, ReadInv, AllWatched, Usable, Readable, Mergeable,
              Merge, HavingKey
<1> DEFINE new == call'[Loader].step
<1>4. SUFFICES /\ \A v \in Writers \ {Loader} : call'[v] = call[v]
               /\ new \in {"init", "store", "broadcast", "done", "refused"}
               /\ AllWatched /\ events = {} =>
                    /\ new = "store" => Usable /\ call'[Loader].data = Merge(files)
                    /\ new \in {"broadcast", "done"} => Usable /\ store' = Merge(files)
                    /\ new = "refused" => lost' # {}
               /\ new # "init" /\ ~At(Loader, "idle")
  <2> DEFINE Rest == /\ \A v \in Writers \ {Loader} : call'[v] = call[v]
                     /\ new \in {"init", "store", "broadcast", "done", "refused"}
                     /\ AllWatched /\ events = {} =>
                          /\ new = "store" => Usable /\ call'[Loader].data = Merge(files)
                          /\ new \in {"broadcast", "done"} => Usable /\ store' = Merge(files)
                          /\ new = "refused" => lost' # {}
                     /\ new # "init" /\ ~At(Loader, "idle")
  <2>1. SUFFICES ASSUME Rest PROVE FilesInv'
    OBVIOUS
  <2>2. LoaderCall'
    BY <1>2, <2>1 DEF FilesInv, LoaderCall, At
  <2>3. loader = "init"
    BY <2>1 DEF FilesInv, LoaderCall
  <2>4. LoadInv'
    BY <1>2, <1>3, <2>1, <2>3 DEF LoadInv, At
  <2> QED
    BY <1>3, <2>2, <2>4 DEF FilesInv
<1> HIDE DEF new
<1>5. LoaderCall /\ LoadInv
  BY DEF FilesInv
<1>6. CASE ReadOld(Loader)
  BY <1>5, <1>6, LoaderAssumption, MoveOf DEF ReadOld, LoadInv, At, new
<1>7. CASE StoreRefuses(Loader)
  <2>1. At(Loader, "store")
    BY <1>5, <1>7 DEF StoreRefuses, LoaderCall, At
  <2>2. <<Flag, call[Loader].data[Flag].version>> \in lost'
    BY <1>7, <2>1, FlagAssumption DEF StoreRefuses
  <2> QED
    BY <1>7, <2>1, <2>2, LoaderAssumption, MoveOf DEF StoreRefuses, At, new
<1>8. \A keys : SendChangeEvents(Loader, keys) =>
         (\A v \in Writers \ {Loader} : call'[v] = call[v]) /\ new \in {"broadcast", "done"}
  <2> TAKE keys
  <2> HAVE SendChangeEvents(Loader, keys)
  <2>1. CASE keys = {}
    BY <2>1, LoaderAssumption, MoveOf DEF SendChangeEvents, new
  <2>2. CASE keys # {}
    BY <2>2, LoaderAssumption, MoveOf DEF SendChangeEvents, new
  <2> QED
    BY <2>1, <2>2
<1>9. CASE StoreInit(Loader)
  <2>1. /\ At(Loader, "store") /\ store' = call[Loader].data
        /\ \E keys : SendChangeEvents(Loader, keys)
    BY <1>9 DEF StoreInit
  <2> QED
    BY <1>5, <1>8, <2>1 DEF LoadInv, At
<1>10. CASE Send(Loader)
  <2>1. At(Loader, "broadcast") /\ store' = store /\ \E keys : SendChangeEvents(Loader, keys)
    BY <1>10 DEF Send, sinkVars
  <2> QED
    BY <1>5, <1>8, <2>1 DEF LoadInv, At
<1>11. CASE Broadcast(Loader)
  <2>1. At(Loader, "broadcast") /\ store' = store
    BY <1>11 DEF Broadcast, sinkVars
  <2>2. [call[Loader] EXCEPT !.sending = TRUE].step = call[Loader].step
    OBVIOUS
  <2>3. (\A v \in Writers \ {Loader} : call'[v] = call[v]) /\ new = "broadcast"
    BY <1>11, <2>1, <2>2, LoaderAssumption, MoveOf DEF Broadcast, At, new
  <2> QED
    BY <1>5, <2>1, <2>3 DEF LoadInv, At
<1>12. ~StoreUpsert(Loader) /\ ~HasListeners(Loader)
  BY <1>5 DEF StoreUpsert, HasListeners, LoaderCall, At
<1> QED
  BY <1>1, <1>6, <1>7, <1>9, <1>10, <1>11, <1>12 DEF SinkStep

\* The files that have all been read and have not changed are what there is.
LEMMA ReadFilesAreAll ==
    ASSUME LoaderTypes, NEW content,
           LET data == Append(filesData, content)
           IN Len(data) = Files /\ \A f \in 1 .. Files : data[f] = files[f]
    PROVE  Append(filesData, content) = files
<1> DEFINE data == Append(filesData, content)
<1>1. IsSequence(data) /\ Len(data) = Files
  BY SequenceFacts DEF LoaderTypes
<1>2. PICK S : data \in Seq(S)
  BY <1>1 DEF IsSequence
<1> HIDE DEF data
<1>3. data = [f \in 1 .. Files |-> data[f]]
  BY <1>1, <1>2
<1>4. \A f \in 1 .. Files : data[f] = files[f]
  BY DEF data
<1>5. [f \in 1 .. Files |-> data[f]] = [f \in 1 .. Files |-> files[f]]
  BY <1>4
<1> QED
  BY <1>3, <1>5 DEF LoaderTypes, data

LEMMA ReadingFiles ==
    ASSUME DOMAIN call = Writers, FilesInv, source = "file", ReadFile, UNCHANGED source
    PROVE  FilesInv'
<1> DEFINE n == Len(filesData)
           content == files[n + 1]
           data == Append(filesData, content)
<1>0. LoaderCall /\ LoaderTypes /\ WatchInv /\ ReadInv /\ LoadInv
  BY DEF FilesInv
<1>1. /\ n \in Nat /\ n < Files /\ n + 1 \in 1 .. Files
      /\ IsSequence(data) /\ Len(data) = n + 1 /\ data[n + 1] = content
      /\ \A f \in 1 .. n : data[f] = filesData[f]
  BY <1>0, FilesAssumption, SequenceFacts DEF LoaderTypes
<1>2. /\ loader = "read" /\ At(Loader, "idle")
      /\ UNCHANGED <<store, files, starting, watched, events, retry, isInitialized, ready>>
  BY <1>0 DEF ReadFile, LoaderCall, watchVars, readyVars, At
<1>3. (Usable' <=> Usable) /\ Merge(files)' = Merge(files) /\ AllWatched' = AllWatched
  BY <1>2, SameUsable DEF Usable, AllWatched
<1>4. IsSequence(<<>>) /\ Len(<<>>) = 0 /\ 0 < Files
  BY FilesAssumption DEF IsSequence
<1>5. ASSUME AllWatched, events = {}, content \notin {Missing, Bad}, n + 1 = Files
      PROVE  data = files /\ Readable
  <2>1. \A f \in 1 .. Files : data[f] = files[f]
    BY <1>0, <1>1, <1>5 DEF ReadInv
  <2>2. data = files
    BY <1>0, <1>1, <1>5, <2>1, ReadFilesAreAll
  <2>3. \A f \in 1 .. Files : data[f] \notin {Missing, Bad}
    BY <1>0, <1>1, <1>5 DEF LoaderTypes
  <2> QED
    BY <2>1, <2>2, <2>3 DEF Readable
<1>6. CASE content \in {Missing, Bad}
  <2>1. /\ status' = StatusAfter("interrupted") /\ loader' = "loaded" /\ filesData' = <<>>
        /\ UNCHANGED call
    BY <1>6 DEF ReadFile
  <2>2. status' # "valid" /\ ~Usable
    BY <1>1, <1>6, <2>1 DEF StatusAfter, Usable, Readable
  <2>3. LoaderCall' /\ LoaderTypes'
    BY <1>0, <1>2, <1>4, <2>1 DEF LoaderCall, LoaderTypes, At
  <2>4. WatchInv' /\ ReadInv'
    BY <1>0, <1>2, <1>3, <1>4, <2>1 DEF WatchInv, ReadInv
  <2>5. FilesAreLoaded'
    BY <1>3, <2>2 DEF FilesAreLoaded, Usable
  <2>6. LoadInv'
    BY <1>0, <1>2, <2>1, <2>5 DEF LoadInv, At
  <2> QED
    BY <2>3, <2>4, <2>6 DEF FilesInv
<1>7. CASE content \notin {Missing, Bad} /\ Len(data) < Files
  <2>1. filesData' = data /\ UNCHANGED <<loader, status, call, lost>>
    BY <1>1, <1>7 DEF ReadFile
  <2>2. \A f \in 1 .. Len(data) : data[f] \notin {Missing, Bad}
    BY <1>0, <1>1, <1>7 DEF LoaderTypes
  <2>3. LoaderCall' /\ LoaderTypes'
    BY <1>0, <1>1, <1>2, <1>7, <2>1, <2>2 DEF LoaderCall, LoaderTypes, At
  <2>4. AllWatched => \A f \in 1 .. Len(data) : f \in events \/ data[f] = files[f]
    BY <1>0, <1>1 DEF ReadInv
  <2>5. WatchInv' /\ ReadInv'
    BY <1>0, <1>2, <1>3, <2>1, <2>4 DEF WatchInv, ReadInv
  <2>6. LoadInv'
    BY <1>0, <1>2, <2>1 DEF LoadInv, At
  <2> QED
    BY <2>3, <2>5, <2>6 DEF FilesInv
<1>8. CASE content \notin {Missing, Bad} /\ Len(data) = Files /\ Mergeable(data)
  <2>1. filesData' = <<>> /\ CallInit(Loader, Merge(data)) /\ loader' = "init" /\ UNCHANGED status
    BY <1>1, <1>8 DEF ReadFile
  <2>2. call'[Loader].step = "init" /\ call'[Loader].data = Merge(data)
        /\ \A v \in Writers \ {Loader} : call'[v] = call[v]
    BY <2>1, LoaderAssumption, MoveOf DEF CallInit
  <2>3. AllWatched /\ events = {} => Usable /\ Merge(data) = Merge(files)
    BY <1>1, <1>5, <1>8 DEF Usable
  <2>4. LoaderCall' /\ LoaderTypes'
    BY <1>0, <1>2, <1>4, <2>1, <2>2 DEF LoaderCall, LoaderTypes, At
  <2>5. WatchInv' /\ ReadInv'
    BY <1>0, <1>2, <1>3, <1>4, <2>1 DEF WatchInv, ReadInv
  <2>6. LoadInv'
    BY <1>2, <1>3, <2>1, <2>2, <2>3 DEF LoadInv, At
  <2> QED
    BY <2>4, <2>5, <2>6 DEF FilesInv
<1>9. CASE content \notin {Missing, Bad} /\ Len(data) = Files /\ ~Mergeable(data)
  <2>1. /\ status' = StatusAfter("interrupted") /\ loader' = "loaded" /\ filesData' = <<>>
        /\ UNCHANGED call
    BY <1>1, <1>9 DEF ReadFile
  <2>2. status' # "valid"
    BY <2>1 DEF StatusAfter
  <2>3. AllWatched /\ events = {} => ~Usable
    BY <1>1, <1>5, <1>9 DEF Usable
  <2>4. LoaderCall' /\ LoaderTypes'
    BY <1>0, <1>2, <1>4, <2>1 DEF LoaderCall, LoaderTypes, At
  <2>5. WatchInv' /\ ReadInv'
    BY <1>0, <1>2, <1>3, <1>4, <2>1 DEF WatchInv, ReadInv
  <2>6. AllWatched /\ events = {} => FilesAreLoaded'
    BY <1>3, <2>2, <2>3 DEF FilesAreLoaded, Usable
  <2>7. LoadInv'
    BY <1>0, <1>2, <1>3, <2>1, <2>6 DEF LoadInv, At
  <2> QED
    BY <2>4, <2>5, <2>7 DEF FilesInv
<1> QED
  BY <1>1, <1>6, <1>7, <1>8, <1>9, FilesAssumption

LEMMA StepLoader ==
    ASSUME DOMAIN call = Writers, FilesInv, source = "file", FileStep, UNCHANGED source
    PROVE  FilesInv'
<1>0. LoaderCall /\ LoaderTypes /\ WatchInv /\ ReadInv /\ LoadInv
  BY DEF FilesInv
<1>1. CASE ReadFile
  BY <1>1, ReadingFiles
<1>2. CASE InitReturns
  <2>1. /\ loader = "init" /\ loader' = "loaded" /\ Moves(Loader, Idle)
        /\ UNCHANGED <<store, lost, files, filesData, starting, watched, events, retry>>
        /\ \/ At(Loader, "done") /\ SignalStartComplete(TRUE) /\ status' = "valid"
           \/ At(Loader, "refused") /\ UNCHANGED <<status, isInitialized, ready>>
    BY <1>2 DEF InitReturns, Ended, watchVars, readyVars
  <2>2. call'[Loader] = Idle /\ \A v \in Writers \ {Loader} : call'[v] = call[v]
    BY <2>1, LoaderAssumption, MoveOf
  <2>3. (Usable' <=> Usable) /\ Merge(files)' = Merge(files) /\ AllWatched' = AllWatched
    BY <2>1, SameUsable DEF Usable, AllWatched
  <2>4. LoaderCall'
    BY <1>0, <2>1, <2>2 DEF LoaderCall, At, Idle
  <2>5. At(Loader, "done") => isInitialized'
    <3>1. ASSUME At(Loader, "done") PROVE SignalStartComplete(TRUE)
      BY <2>1, <3>1 DEF At
    <3>2. CASE ready
      BY <1>0, <2>1, <3>1, <3>2 DEF SignalStartComplete, LoaderTypes
    <3>3. CASE ~ready
      BY <3>1, <3>3 DEF SignalStartComplete
    <3> QED
      BY <3>2, <3>3
  <2>6. LoaderTypes'
    <3>1. ready' => isInitialized'
      <4>1. CASE At(Loader, "done")
        BY <2>5, <4>1
      <4>2. CASE UNCHANGED <<isInitialized, ready>>
        BY <1>0, <2>1, <4>2 DEF LoaderTypes
      <4> QED
        BY <2>1, <4>1, <4>2
    <3> QED
      BY <1>0, <2>1, <3>1 DEF LoaderTypes
  <2>7. WatchInv' /\ ReadInv'
    BY <1>0, <2>1, <2>3 DEF WatchInv, ReadInv
  <2>8. ASSUME AllWatched, events = {} PROVE lost # {} \/ FilesAreLoaded'
    <3>1. CASE At(Loader, "done")
      <4>1. Usable' /\ store' = Merge(files)' /\ status' = "valid"
        BY <1>0, <2>1, <2>3, <2>8, <3>1 DEF LoadInv, At
      <4> QED
        BY <2>5, <3>1, <4>1 DEF FilesAreLoaded, Usable
    <3>2. CASE At(Loader, "refused")
      BY <1>0, <2>8, <3>2 DEF LoadInv
    <3> QED
      BY <2>1, <3>1, <3>2
  <2>9. LoadInv'
    BY <2>1, <2>2, <2>3, <2>8 DEF LoadInv, At, Idle
  <2> QED
    BY <2>4, <2>6, <2>7, <2>9 DEF FilesInv
<1>3. CASE Started
  <2>1. /\ loader = "loaded" /\ loader' \in {"setup", "end"} /\ starting' = FALSE
        /\ UNCHANGED <<store, call, status, lost, files, filesData, watched, events, retry>>
        /\ loader' # "end" => UNCHANGED <<isInitialized, ready>>
    BY <1>3 DEF Started, watchVars, readyVars, clientVars, sinkVars
  <2>2. LoaderCall' /\ LoaderTypes' /\ WatchInv' /\ ReadInv'
    BY <1>0, <2>1 DEF LoaderCall, LoaderTypes, WatchInv, ReadInv, AllWatched, At
  <2>3. LoadInv'
    BY <1>0, <2>1, SameUsable DEF LoadInv, LoaderCall, AllWatched, At
  <2> QED
    BY <2>2, <2>3 DEF FilesInv
<1>4. CASE SetupWatches
  <2> DEFINE missing == {f \in 1 .. Files : files[f] = Missing}
  <2>1. /\ loader = "setup" /\ loader' = "read"
        /\ watched' = watched \cup {f \in 1 .. Files : \A g \in missing : f < g}
        /\ retry' = IF missing # {} /\ retry = "none" THEN "scheduled" ELSE retry
        /\ UNCHANGED <<store, call, status, lost, files, filesData, starting, events,
                       isInitialized, ready>>
    BY <1>4 DEF SetupWatches, readyVars, clientVars, sinkVars
  <2>2. AllWatched' \/ retry' # "none"
    <3>1. CASE missing = {}
      BY <1>0, <2>1, <3>1 DEF AllWatched, LoaderTypes
    <3>2. CASE missing # {}
      BY <2>1, <3>2
    <3> QED
      BY <3>1, <3>2
  <2>3. watched' \subseteq 1 .. Files
    BY <1>0, <2>1 DEF LoaderTypes
  <2>4. LoaderCall' /\ LoaderTypes' /\ WatchInv'
    BY <1>0, <2>1, <2>2, <2>3 DEF LoaderCall, LoaderTypes, WatchInv, At
  <2>5. filesData' = <<>> /\ Len(<<>>) = 0
    BY <1>0, <2>1 DEF LoaderTypes
  <2>6. ReadInv'
    BY <2>5 DEF ReadInv
  <2>7. LoadInv'
    BY <1>0, <2>1 DEF LoadInv, LoaderCall, At
  <2> QED
    BY <2>4, <2>6, <2>7 DEF FilesInv
<1>5. CASE StartFile \/ FileEvent \/ RetryWatches \/ WatcherQuits
  <2>1. /\ loader \in {"new", "wait"} /\ loader' \in {"read", "setup", "end"}
        /\ loader' = "read" => loader = "new"
        /\ loader' = "setup" => loader = "wait"
        /\ UNCHANGED <<store, call, status, lost, files, filesData, starting, watched,
                       isInitialized, ready>>
    BY <1>5 DEF StartFile, FileEvent, RetryWatches, WatcherQuits, watchVars, readyVars, clientVars,
                sinkVars
  <2>2. loader' = "setup" => ~starting
    BY <1>0, <2>1 DEF WatchInv
  <2>3. filesData' = <<>> /\ Len(<<>>) = 0
    BY <1>0, <2>1 DEF LoaderTypes
  <2>4. LoaderCall' /\ LoaderTypes'
    BY <1>0, <2>1 DEF LoaderCall, LoaderTypes, At
  <2>5. WatchInv'
    BY <1>0, <2>1, <2>2 DEF WatchInv
  <2>6. ReadInv'
    BY <2>3 DEF ReadInv
  <2>7. LoadInv'
    BY <1>0, <2>1 DEF LoadInv, LoaderCall, At
  <2> QED
    BY <2>4, <2>5, <2>6, <2>7 DEF FilesInv
<1>6. CASE Reloaded
  <2>1. /\ loader = "loaded" /\ loader' = "wait" /\ ~starting
        /\ UNCHANGED <<store, call, status, lost, files, filesData, starting, watched, events,
                       retry, isInitialized, ready>>
    BY <1>6 DEF Reloaded, watchVars, readyVars, clientVars, sinkVars
  <2>2. LoaderCall' /\ LoaderTypes' /\ WatchInv' /\ ReadInv'
    BY <1>0, <2>1 DEF LoaderCall, LoaderTypes, WatchInv, ReadInv, AllWatched, At
  <2>3. LoadInv'
    BY <1>0, <2>1, SameUsable DEF LoadInv, LoaderCall, AllWatched, Usable, FilesAreLoaded, At
  <2> QED
    BY <2>2, <2>3 DEF FilesInv
<1>7. CASE RetryTimer
  <2>1. /\ retry' = "ready"
        /\ UNCHANGED <<store, call, status, lost, files, loader, filesData, starting, watched,
                       events, isInitialized, ready>>
    BY <1>7 DEF RetryTimer, readyVars, clientVars, sinkVars
  <2>2. LoaderCall' /\ LoaderTypes' /\ WatchInv' /\ ReadInv'
    BY <1>0, <2>1 DEF LoaderCall, LoaderTypes, WatchInv, ReadInv, AllWatched, At
  <2>3. LoadInv'
    BY <1>0, <2>1, SameUsable DEF LoadInv, AllWatched, Usable, FilesAreLoaded, At
  <2> QED
    BY <2>2, <2>3 DEF FilesInv
<1>8. CASE CloseFile
  <2>1. UNCHANGED <<store, call, status, lost, files, loader, filesData, starting, watched, events,
                    retry, isInitialized, ready>>
    BY <1>8 DEF CloseFile, watchVars, readyVars, clientVars, sinkVars
  <2>2. LoaderCall' /\ LoaderTypes' /\ WatchInv' /\ ReadInv'
    BY <1>0, <2>1 DEF LoaderCall, LoaderTypes, WatchInv, ReadInv, AllWatched, At
  <2>3. LoadInv'
    BY <1>0, <2>1, SameUsable DEF LoadInv, AllWatched, Usable, FilesAreLoaded, At
  <2> QED
    BY <2>2, <2>3 DEF FilesInv
<1>9. ASSUME NEW f \in 1 .. Files, NEW content, FileChanges(f, content) PROVE FilesInv'
  <2>1. /\ files' = [files EXCEPT ![f] = content]
        /\ events' = IF f \in watched THEN events \cup {f} ELSE events
        /\ UNCHANGED <<store, call, status, lost, loader, filesData, starting, watched, retry,
                       isInitialized, ready>>
    BY <1>9 DEF FileChanges, readyVars, clientVars, sinkVars
  <2>2. /\ files' = [g \in 1 .. Files |-> files'[g]]
        /\ \A g \in 1 .. Files \ {f} : files'[g] = files[g]
    BY <1>0, <2>1 DEF LoaderTypes
  <2>3. LoaderCall' /\ LoaderTypes' /\ WatchInv'
    BY <1>0, <2>1, <2>2 DEF LoaderCall, LoaderTypes, WatchInv, AllWatched, At
  <2>4. AllWatched => f \in events' /\ events \subseteq events'
    BY <2>1 DEF AllWatched
  <2>5. \A g \in 1 .. Len(filesData) : g \in 1 .. Files
    BY <1>0, SequenceFacts, FilesAssumption DEF LoaderTypes
  <2>6. ReadInv'
    BY <1>0, <2>1, <2>2, <2>4, <2>5 DEF ReadInv, AllWatched
  <2>7. LoadInv'
    BY <2>1, <2>4 DEF LoadInv, AllWatched
  <2> QED
    BY <2>3, <2>6, <2>7 DEF FilesInv
<1> QED
  BY <1>1, <1>2, <1>3, <1>4, <1>5, <1>6, <1>7, <1>8, <1>9 DEF FileStep, LoaderStep

LEMMA StepFiles == DOMAIN call = Writers /\ FilesInv /\ [Next]_vars => FilesInv'
<1> SUFFICES ASSUME DOMAIN call = Writers, FilesInv, [Next]_vars, source = "file" PROVE FilesInv'
  BY DEF Next, vars, FilesInv
<1>1. CASE FileStep /\ UNCHANGED source
  BY <1>1, StepLoader
<1>2. ASSUME NEW w \in Writers, SinkStep(w), UNCHANGED <<source, fileVars>> PROVE FilesInv'
  BY <1>2, SinkFiles
<1>3. CASE TrackerStep /\ UNCHANGED <<source, fileVars>>
  <2>1. UNCHANGED <<sinkVars, call>>
    BY <1>3, TrackerWritesNothing
  <2> QED
    BY <1>3, <2>1, SameFiles
<1>4. CASE UNCHANGED vars
  BY <1>4, SameFiles DEF vars, clientVars
<1> QED
  BY <1>1, <1>2, <1>3, <1>4 DEF Next

\* When the watcher has nothing left to do - no event of a file, no retry that is
\* scheduled - every file is watched, and the client has what the files contain, unless
\* the store has refused the data (fileWatcher.run, fileDataSource.reload).
FilesAreLoadedOnceQuiet ==
    source = "file" /\ loader = "wait" /\ events = {} /\ retry = "none" =>
        AllWatched /\ (lost # {} \/ FilesAreLoaded)
THEOREM WatcherMissesNothing == Spec => []FilesAreLoadedOnceQuiet
<1>1. FilesInv => FilesAreLoadedOnceQuiet
  BY DEF FilesInv, WatchInv, LoadInv, FilesAreLoadedOnceQuiet
<1>2. ListenerInv => DOMAIN call = Writers
  BY DEF ListenerInv, CallInv
<1> QED
  BY <1>1, <1>2, InitFiles, StepFiles, InitListener, StepListener, PTL DEF Spec

(***************************************************************************)
(* The data of a test.  What is in the store, or is to be stored, is some  *)
(* version of the test's data; and the current version of each key is in   *)
(* the store, or was lost, or is with a goroutine that is about to store   *)
(* it.                                                                     *)
(***************************************************************************)
Older(cur, item, k) ==
    /\ item.version \in Nat /\ item.version <= cur[k].version
    /\ item.version = cur[k].version => item = cur[k]
Past(cur, data) == DOMAIN data = Keys /\ \A k \in Keys : Older(cur, data[k], k)
CallFits(cur, c) ==
    /\ c.step = "upsert" => c.key \in Keys /\ Older(cur, c.item, c.key)
    /\ c.step \in {"init", "store"} =>
          /\ Past(cur, c.data)
          /\ \A k \in Keys : c.since[k].version \in Nat /\ c.since[k].version <= c.data[k].version
UpdateInv ==
    /\ Past(current, current) /\ Past(current, store)
    /\ starter \in {"new", "built", "init", "started"}
    /\ \A w \in Writers :
          /\ CallFits(current, call[w])
          /\ At(w, "init") \/ At(w, "store") => w = Starter /\ starter = "init"
          /\ At(w, "upsert") => w \in Updaters /\ updater[w] = "upsert"

Arrived(k) == store[k] = current[k] \/ <<k, current[k].version>> \in lost
Sent(k) == \E u \in Updaters : At(u, "upsert") /\ call[u].key = k /\ call[u].item = current[k]
StartCarries(k) ==
    (At(Starter, "init") \/ At(Starter, "store")) /\ call[Starter].data[k] = current[k]
ArriveInv ==
    starter \in {"init", "started"} /\ instance =>
        \A k \in Keys : Arrived(k) \/ Sent(k) \/ StartCarries(k)
TestInv == source = "test" => UpdateInv /\ ArriveInv

LEMMA InitUpdates == Init => TestInv
<1> SUFFICES ASSUME Init PROVE TestInv
  OBVIOUS
<1>1. current = NoData /\ store = NoData /\ Past(NoData, NoData)
  BY DEF Init, ClientInit, TestInit, Past, Older, NoData, NoItem
<1>2. \A w \in Writers : call[w].step = "idle"
  BY DEF Init, ClientInit, Idle
<1> QED
  BY <1>1, <1>2 DEF Init, TestInit, TestInv, UpdateInv, ArriveInv, CallFits, At

LEMMA SameTest ==
    TestInv /\ UNCHANGED <<source, store, lost, call, current, starter, instance, updater>>
        => TestInv'
BY DEF TestInv, UpdateInv, ArriveInv, Arrived, Sent, StartCarries, At

\* The next version of a key
LEMMA PastGrows ==
    ASSUME NEW cur, NEW k \in Keys, NEW value, NEW data, Past(cur, cur), Past(cur, data)
    PROVE  LET new == [cur EXCEPT ![k] = [version |-> cur[k].version + 1, value |-> value]]
           IN Past(new, new) /\ Past(new, data)
BY DEF Past, Older

LEMMA CallGrows ==
    ASSUME NEW cur, NEW k \in Keys, NEW value, NEW c, Past(cur, cur), CallFits(cur, c)
    PROVE  CallFits([cur EXCEPT ![k] = [version |-> cur[k].version + 1, value |-> value]], c)
<1> DEFINE new == [cur EXCEPT ![k] = [version |-> cur[k].version + 1, value |-> value]]
<1>1. \A data : Past(cur, data) => Past(new, data)
  BY PastGrows
<1>2. \A j \in Keys : \A item : Older(cur, item, j) => Older(new, item, j)
  BY DEF Past, Older
<1> HIDE DEF new
<1>3. CallFits(new, c)
  BY <1>1, <1>2 DEF CallFits
<1> QED
  BY <1>3 DEF new

LEMMA SinkTest ==
    ASSUME DOMAIN call = Writers, TestInv, source = "test", NEW w \in Writers, SinkStep(w),
           UNCHANGED <<source, current, starter, instance, updater>>
    PROVE  TestInv'
<1>0. UpdateInv /\ ArriveInv /\ Starter \in Writers /\ Updaters \subseteq Writers \ {Starter}
  BY StarterAssumption DEF TestInv
<1> DEFINE Storing(c) == c.step \in {"init", "store", "upsert"}
\* The call goes on after it has written, or has failed to.
<1>1. ASSUME \A v \in Writers \ {w} : call'[v] = call[v], ~Storing(call'[w]),
             Past(current, store'),
             \A k \in Keys : Arrived(k) => Arrived(k)',
             At(w, "upsert") =>
                \A k \in Keys : call[w].key = k /\ call[w].item = current[k] => Arrived(k)',
             At(w, "store") => \A k \in Keys : call[w].data[k] = current[k] => Arrived(k)',
             ~At(w, "init")
      PROVE  TestInv'
  <2>1. UpdateInv'
    BY <1>0, <1>1 DEF UpdateInv, CallFits, At
  <2>2. ASSUME NEW k \in Keys, Sent(k) PROVE Sent(k)' \/ Arrived(k)'
    BY <1>0, <1>1, <2>2 DEF Sent, At
  <2>3. ASSUME NEW k \in Keys, StartCarries(k) PROVE StartCarries(k)' \/ Arrived(k)'
    BY <1>0, <1>1, <2>3 DEF StartCarries, At
  <2>4. ArriveInv'
    BY <1>0, <1>1, <2>2, <2>3 DEF ArriveInv
  <2> QED
    BY <2>1, <2>4 DEF TestInv
<1>2. \A keys : SendChangeEvents(w, keys) =>
         ~Storing(call'[w]) /\ \A v \in Writers \ {w} : call'[v] = call[v]
  <2> TAKE keys
  <2> HAVE SendChangeEvents(w, keys)
  <2>1. CASE keys = {}
    BY <2>1, MoveOf DEF SendChangeEvents
  <2>2. CASE keys # {}
    BY <2>2, MoveOf DEF SendChangeEvents
  <2> QED
    BY <2>1, <2>2
<1>3. CASE ReadOld(w)
  <2>1. /\ At(w, "init") /\ call'[w].step = "store" /\ call'[w].data = call[w].data
        /\ call'[w].since = call[w].since /\ \A v \in Writers \ {w} : call'[v] = call[v]
        /\ UNCHANGED <<store, lost>>
    BY <1>3, MoveOf DEF ReadOld, sinkVars
  <2>2. UpdateInv'
    BY <1>0, <2>1 DEF UpdateInv, CallFits, At
  <2>3. ArriveInv'
    BY <1>0, <2>1 DEF ArriveInv, UpdateInv, Arrived, Sent, StartCarries, At
  <2> QED
    BY <2>2, <2>3 DEF TestInv
<1>4. CASE StoreInit(w)
  <2> DEFINE data == call[w].data
             since == call[w].since
  <2>1. /\ At(w, "store") /\ store' = data /\ \E keys : SendChangeEvents(w, keys)
        /\ lost' = lost \cup {<<k, store[k].version>> : k \in {j \in Keys : store[j] # since[j]}}
    BY <1>4 DEF StoreInit
  <2>2. /\ Past(current, data)
        /\ \A k \in Keys : since[k].version \in Nat /\ since[k].version <= data[k].version
    BY <1>0, <2>1 DEF UpdateInv, CallFits, At
  <2>3. ASSUME NEW k \in Keys, Arrived(k) PROVE Arrived(k)'
    <3>1. CASE <<k, current[k].version>> \in lost
      BY <2>1, <3>1 DEF Arrived
    <3>2. CASE store[k] = current[k] /\ data[k] = current[k]
      BY <2>1, <3>2 DEF Arrived
    <3>3. CASE store[k] = current[k] /\ data[k] # current[k]
      <4>1. data[k].version # current[k].version /\ data[k].version <= current[k].version
            /\ data[k].version \in Nat
        BY <2>2, <3>3 DEF Past, Older
      <4>2. current[k].version \in Nat
        BY <1>0 DEF UpdateInv, Past, Older
      <4>3. store[k] # since[k]
        BY <2>2, <3>3, <4>1, <4>2
      <4>4. <<k, current[k].version>> \in lost'
        BY <2>1, <3>3, <4>3
      <4> QED
        BY <4>4 DEF Arrived
    <3> QED
      BY <2>3, <3>1, <3>2, <3>3 DEF Arrived
  <2>4. \A k \in Keys : data[k] = current[k] => Arrived(k)'
    BY <2>1 DEF Arrived
  <2> QED
    BY <1>1, <1>2, <2>1, <2>2, <2>3, <2>4 DEF At
<1>5. CASE StoreUpsert(w)
  <2> DEFINE item == call[w].item
  <2>1. At(w, "upsert") /\ lost' = lost
    BY <1>5 DEF StoreUpsert
  <2> PICK k \in Keys : k = call[w].key
    BY <1>0, <2>1 DEF UpdateInv, CallFits, At
  <2>2. k \in Keys /\ Older(current, item, k) /\ DOMAIN store = Keys /\ Older(current, store[k], k)
        /\ current[k].version \in Nat
    BY <1>0, <2>1 DEF UpdateInv, CallFits, At, Past, Older
  <2>3. CASE item.version > store[k].version
    <3>1. store' = [store EXCEPT ![k] = item] /\ Moves(w, [step |-> "check", key |-> k])
      BY <1>5, <2>3 DEF StoreUpsert
    <3>2. ~Storing(call'[w]) /\ \A v \in Writers \ {w} : call'[v] = call[v]
      BY <3>1, MoveOf
    <3>3. Past(current, store')
      BY <1>0, <2>2, <3>1 DEF UpdateInv, Past
    <3>4. store[k] # current[k]
      BY <2>2, <2>3 DEF Older
    <3>5. \A j \in Keys : Arrived(j) => Arrived(j)'
      BY <2>1, <2>2, <3>1, <3>4 DEF Arrived
    <3>6. item = current[k] => Arrived(k)'
      BY <2>2, <3>1 DEF Arrived
    <3> QED
      BY <1>1, <2>1, <3>2, <3>3, <3>5, <3>6 DEF At
  <2>4. CASE ~(item.version > store[k].version)
    <3>1. store' = store /\ Moves(w, [step |-> "done"])
      BY <1>5, <2>4 DEF StoreUpsert
    <3>2. ~Storing(call'[w]) /\ \A v \in Writers \ {w} : call'[v] = call[v]
      BY <3>1, MoveOf
    <3>3. item = current[k] => store[k] = current[k]
      BY <2>2, <2>4 DEF Older
    <3>4. item = current[k] => Arrived(k)'
      BY <3>1, <3>3 DEF Arrived
    <3>5. Past(current, store') /\ \A j \in Keys : Arrived(j) => Arrived(j)'
      BY <1>0, <2>1, <3>1 DEF Arrived, UpdateInv
    <3> QED
      BY <1>1, <2>1, <3>2, <3>4, <3>5 DEF At
  <2> QED
    BY <2>3, <2>4
<1>6. CASE StoreRefuses(w)
  <2>1. /\ At(w, "store") \/ At(w, "upsert")
        /\ lost' = lost \cup (IF At(w, "store") THEN {<<k, call[w].data[k].version>> : k \in Keys}
                              ELSE {<<call[w].key, call[w].item.version>>})
        /\ store' = store /\ ~Storing(call'[w]) /\ \A v \in Writers \ {w} : call'[v] = call[v]
    BY <1>6, MoveOf DEF StoreRefuses
  <2>2. Past(current, store') /\ \A j \in Keys : Arrived(j) => Arrived(j)'
    BY <1>0, <2>1 DEF Arrived, UpdateInv
  <2>3. At(w, "upsert") =>
            \A k \in Keys : call[w].key = k /\ call[w].item = current[k] => Arrived(k)'
    BY <2>1 DEF Arrived, At
  <2>4. At(w, "store") => \A k \in Keys : call[w].data[k] = current[k] => Arrived(k)'
    BY <2>1 DEF Arrived, At
  <2> QED
    BY <1>1, <2>1, <2>2, <2>3, <2>4 DEF At
<1>7. CASE HasListeners(w) \/ Broadcast(w) \/ Send(w)
  <2>1. (At(w, "check") \/ At(w, "broadcast")) /\ UNCHANGED <<store, lost>>
    BY <1>7 DEF HasListeners, Broadcast, Send, sinkVars
  <2>2. ~Storing(call'[w]) /\ \A v \in Writers \ {w} : call'[v] = call[v]
    <3>1. CASE Broadcast(w)
      <4>1. [call[w] EXCEPT !.sending = TRUE].step = call[w].step
        OBVIOUS
      <4> QED
        BY <2>1, <3>1, <4>1, MoveOf DEF Broadcast, At
    <3>2. CASE HasListeners(w) \/ Send(w)
      BY <1>2, <3>2 DEF HasListeners, Send
    <3> QED
      BY <1>7, <3>1, <3>2
  <2>3. Past(current, store') /\ \A j \in Keys : Arrived(j) => Arrived(j)'
    BY <1>0, <2>1 DEF Arrived, UpdateInv
  <2> QED
    BY <1>1, <2>1, <2>2, <2>3 DEF At
<1> QED
  BY <1>3, <1>4, <1>5, <1>6, <1>7 DEF SinkStep

\* The critical section of an update: the new version of the key is with its goroutine,
\* if there is an instance to send it to.
LEMMA UpdateTest ==
    ASSUME DOMAIN call = Writers, DOMAIN updater = Updaters, TestInv, source = "test",
           NEW u \in Updaters, NEW key \in Keys, NEW value, updateInternal(u, key, value),
           updater[u] # "upsert", UNCHANGED <<source, store, lost, starter, instance>>
    PROVE  TestInv'
<1>0. UpdateInv /\ ArriveInv /\ Starter \in Writers /\ Updaters \subseteq Writers \ {Starter}
  BY StarterAssumption DEF TestInv
<1> DEFINE item == [version |-> current[key].version + 1, value |-> value]
           new == [current EXCEPT ![key] = item]
<1>1. /\ current' = new
      /\ IF instance
         THEN CallUpsert(u, key, item) /\ updater' = [updater EXCEPT ![u] = "upsert"]
         ELSE updater' = [updater EXCEPT ![u] = "idle"] /\ call' = call
  BY DEF updateInternal
<1>2. /\ Past(new, new) /\ Past(new, store) /\ new[key] = item
      /\ \A k \in Keys \ {key} : new[k] = current[k]
  BY <1>0, PastGrows DEF UpdateInv, Past
<1>3. \A w \in Writers : CallFits(new, call[w])
  BY <1>0, CallGrows DEF UpdateInv
<1> HIDE DEF new, item
<1>4. CASE instance
  <2>1. Moves(u, [step |-> "upsert", key |-> key, item |-> item]) /\ At(u, "idle")
        /\ updater' = [updater EXCEPT ![u] = "upsert"]
    BY <1>1, <1>4 DEF CallUpsert
  <2>2. /\ call'[u].step = "upsert" /\ call'[u].key = key /\ call'[u].item = item
        /\ \A v \in Writers \ {u} : call'[v] = call[v]
    BY <1>0, <2>1, MoveOf
  <2>3. CallFits(new, call'[u])
    BY <1>2, <2>2 DEF CallFits, Past, Older
  <2>4. UpdateInv'
    BY <1>0, <1>1, <1>2, <1>3, <2>1, <2>2, <2>3 DEF UpdateInv, At
  <2>5. Sent(key)'
    BY <1>1, <1>2, <2>2 DEF Sent, At
  <2>6. ASSUME NEW k \in Keys \ {key}
        PROVE  /\ Arrived(k) => Arrived(k)'
               /\ Sent(k) => Sent(k)'
               /\ StartCarries(k) => StartCarries(k)'
    <3>1. current'[k] = current[k]
      BY <1>1, <1>2
    <3>2. Arrived(k) => Arrived(k)'
      BY <3>1 DEF Arrived
    <3>3. Sent(k) => Sent(k)'
      BY <1>0, <2>1, <2>2, <3>1 DEF Sent, At
    <3>4. StartCarries(k) => StartCarries(k)'
      BY <1>0, <2>2, <3>1 DEF StartCarries, At
    <3> QED
      BY <3>2, <3>3, <3>4
  <2>7. ArriveInv'
    BY <1>0, <2>5, <2>6 DEF ArriveInv
  <2> QED
    BY <2>4, <2>7 DEF TestInv
<1>5. CASE ~instance
  <2>1. call' = call /\ updater' = [updater EXCEPT ![u] = "idle"]
    BY <1>1, <1>5
  <2>2. \A w \in Writers : At(w, "upsert") => w # u
    BY <1>0 DEF UpdateInv
  <2>3. UpdateInv'
    BY <1>0, <1>1, <1>2, <1>3, <2>1, <2>2 DEF UpdateInv, At
  <2>4. ArriveInv'
    BY <1>5 DEF ArriveInv
  <2> QED
    BY <2>3, <2>4 DEF TestInv
<1> QED
  BY <1>4, <1>5

LEMMA StepUpdates ==
    CallInv /\ BuildersInv /\ TestInv /\ [Next]_vars => TestInv'
<1> SUFFICES ASSUME CallInv, BuildersInv, TestInv, [Next]_vars, source = "test" PROVE TestInv'
  BY DEF Next, vars, TestInv
<1>0. UpdateInv /\ ArriveInv /\ Starter \in Writers /\ Updaters \subseteq Writers \ {Starter}
      /\ DOMAIN call = Writers /\ DOMAIN updater = Updaters
  BY StarterAssumption DEF TestInv, CallInv, BuildersInv
<1>1. CASE UNCHANGED <<source, sinkVars, call, testVars>>
  BY <1>1, SameTest DEF sinkVars, testVars
<1>2. ASSUME NEW w \in Writers, SinkStep(w), UNCHANGED <<source, testVars>> PROVE TestInv'
  BY <1>0, <1>2, SinkTest DEF testVars
<1>3. CASE Build /\ UNCHANGED source
  <2>1. /\ starter = "new" /\ starter' = "built"
        /\ UNCHANGED <<source, store, lost, call, current, updater>>
    BY <1>3 DEF Build, clientVars, sinkVars
  <2>2. UpdateInv'
    BY <1>0, <2>1 DEF UpdateInv, At
  <2>3. ArriveInv'
    BY <2>1 DEF ArriveInv
  <2> QED
    BY <2>2, <2>3 DEF TestInv
<1>4. CASE StartTest /\ UNCHANGED source
  <2>1. /\ starter = "built" /\ starter' = "init" /\ At(Starter, "idle")
        /\ Moves(Starter, [step |-> "init", data |-> current, since |-> store])
        /\ UNCHANGED <<source, store, current, instance, updater>>
    BY <1>4 DEF StartTest, CallInit
  <2>2. /\ call'[Starter].step = "init" /\ call'[Starter].data = current
        /\ call'[Starter].since = store /\ \A v \in Writers \ {Starter} : call'[v] = call[v]
    BY <1>0, <2>1, MoveOf
  <2>3. CallFits(current, call'[Starter])
    BY <1>0, <2>2 DEF UpdateInv, CallFits, Past, Older
  <2>4. UpdateInv'
    BY <1>0, <2>1, <2>2, <2>3 DEF UpdateInv, At
  <2>5. \A k \in Keys : StartCarries(k)'
    BY <2>1, <2>2 DEF StartCarries, At
  <2>6. ArriveInv'
    BY <2>5 DEF ArriveInv
  <2> QED
    BY <2>4, <2>6 DEF TestInv
<1>5. CASE StartReturns /\ UNCHANGED source
  <2>1. /\ starter = "init" /\ starter' = "started" /\ Moves(Starter, Idle)
        /\ At(Starter, "done") \/ At(Starter, "refused")
        /\ UNCHANGED <<source, store, lost, current, instance, updater>>
    BY <1>5 DEF StartReturns, Ended
  <2>2. call'[Starter].step = "idle" /\ \A v \in Writers \ {Starter} : call'[v] = call[v]
    BY <1>0, <2>1, MoveOf DEF Idle
  <2>3. ~At(Starter, "init") /\ ~At(Starter, "store") /\ ~At(Starter, "upsert")
    BY <2>1 DEF At
  <2>4. UpdateInv'
    BY <1>0, <2>1, <2>2, <2>3 DEF UpdateInv, CallFits, At
  <2>5. \A k \in Keys : ~StartCarries(k) /\ (Arrived(k) => Arrived(k)') /\ (Sent(k) => Sent(k)')
    BY <1>0, <2>1, <2>2, <2>3 DEF StartCarries, Arrived, Sent, At
  <2>6. ArriveInv'
    BY <1>0, <2>1, <2>5 DEF ArriveInv
  <2> QED
    BY <2>4, <2>6 DEF TestInv
<1>6. CASE CloseTest /\ UNCHANGED source
  <2>1. instance' = FALSE /\ UNCHANGED <<source, store, lost, call, current, starter, updater>>
    BY <1>6 DEF CloseTest, clientVars, sinkVars
  <2> QED
    BY <1>0, <2>1 DEF TestInv, UpdateInv, ArriveInv, At
<1>7. ASSUME NEW u \in Updaters, FlagCopy(u), UNCHANGED source PROVE TestInv'
  <2>1. /\ updater[u] = "idle" /\ updater' = [updater EXCEPT ![u] = "edit"]
        /\ UNCHANGED <<source, store, lost, call, current, starter, instance>>
    BY <1>7 DEF FlagCopy, clientVars, sinkVars
  <2>2. UpdateInv'
    BY <1>0, <2>1 DEF UpdateInv, At
  <2>3. ArriveInv'
    BY <1>0, <2>1 DEF ArriveInv, Arrived, Sent, StartCarries, At
  <2> QED
    BY <2>2, <2>3 DEF TestInv
<1>8. ASSUME NEW u \in Updaters, Update(u), UNCHANGED source PROVE TestInv'
  <2>1. /\ updater[u] = "edit"
        /\ updateInternal(u, Flag, Evaluate(createFlag(builder[u]), Context))
        /\ UNCHANGED <<source, store, lost, starter, instance>>
    BY <1>8 DEF Update, sinkVars
  <2> QED
    BY <1>0, <2>1, UpdateTest, FlagAssumption
<1>9. ASSUME NEW u \in Updaters, UsePreconfiguredFlag(u) \/ UsePreconfiguredSegment(u),
             UNCHANGED source
      PROVE  TestInv'
  <2>1. /\ updater[u] = "idle"
        /\ \E k \in Keys : \E value : updateInternal(u, k, value)
        /\ UNCHANGED <<source, store, lost, starter, instance>>
    BY <1>9, FlagAssumption DEF UsePreconfiguredFlag, UsePreconfiguredSegment, sinkVars
  <2> QED
    BY <1>0, <2>1, UpdateTest
<1>10. ASSUME NEW u \in Updaters, UpsertReturns(u), UNCHANGED source PROVE TestInv'
  <2>1. /\ updater[u] = "upsert" /\ updater' = [updater EXCEPT ![u] = "idle"] /\ Moves(u, Idle)
        /\ At(u, "done") \/ At(u, "refused")
        /\ UNCHANGED <<source, store, lost, current, starter, instance>>
    BY <1>10 DEF UpsertReturns, Ended, sinkVars
  <2>2. call'[u].step = "idle" /\ \A v \in Writers \ {u} : call'[v] = call[v]
    BY <1>0, <2>1, MoveOf DEF Idle
  <2>3. UpdateInv'
    BY <1>0, <2>1, <2>2 DEF UpdateInv, CallFits, At
  <2>4. ArriveInv'
    BY <1>0, <2>1, <2>2 DEF ArriveInv, Arrived, Sent, StartCarries, At
  <2> QED
    BY <2>3, <2>4 DEF TestInv
<1>11. ASSUME NEW u \in Updaters, NEW state \in {"valid", "interrupted"}, SimulateStatus(u, state),
              UNCHANGED source
       PROVE  TestInv'
  BY <1>11, SameTest DEF SimulateStatus
<1>12. CASE TestStep /\ UNCHANGED source
  BY <1>3, <1>4, <1>5, <1>6, <1>7, <1>8, <1>9, <1>10, <1>11, <1>12, BuildersAssumption DEF TestStep
<1>13. CASE TrackerStep /\ UNCHANGED <<source, testVars>>
  <2>1. UNCHANGED <<sinkVars, call>>
    BY <1>13, TrackerWritesNothing
  <2> QED
    BY <1>1, <1>13, <2>1
<1> QED
  BY <1>1, <1>2, <1>12, <1>13 DEF Next, vars, clientVars

\* Once the source has started, the current version of each key is in the client's
\* store, unless it was refused or overwritten by the older data that Start was about to
\* store; or the goroutine that made it is still about to store it, so that the updates,
\* which "immediately propagate" (TestDataSource.Update) outside the lock and in any
\* order, leave the latest version.
LatestVersionArrives ==
    source = "test" /\ starter = "started" /\ instance =>
        \A k \in Keys : Arrived(k) \/ Sent(k)
THEOREM UpdatesReachTheClient == Spec => []LatestVersionArrives
<1>1. ListenerInv => CallInv
  BY DEF ListenerInv
<1>2. ListenerInv /\ TestInv => LatestVersionArrives
  BY StarterAssumption DEF ListenerInv, TestInv, UpdateInv, ArriveInv, LatestVersionArrives,
                           StartCarries
<1> QED
  BY <1>1, <1>2, InitListener, StepListener, InitBuilders, StepBuilders, InitUpdates, StepUpdates,
     PTL DEF Spec

=============================================================================
