----------------------------- MODULE FlagBuilder -----------------------------
(***************************************************************************)
(* The flag builder of the test data source                                *)
(* (testhelpers/ldtestdata/test_data_source_flag.go): what each method     *)
(* makes of a builder, the flag that it creates, and the value that the    *)
(* flag gives to a context.                                                *)
(*                                                                         *)
(* Contexts are of one kind; a rule is the set of the contexts that match  *)
(* all of its clauses and the variation it returns.  Variations count from *)
(* 0.  The field want is history: the variation that was last asked for a  *)
(* context, until the targets or the variations are replaced.              *)
(***************************************************************************)
EXTENDS Naturals, Sequences, FiniteSets

CONSTANTS
    Contexts,
    Variation3,     \* the variations of a flag that is not boolean
    ErrorValue,     \* what an evaluation that fails gives
    Undefined

ASSUME VariationsAssumption == Variation3 = [i \in 1 .. 3 |-> Variation3[i]]

BooleanVariations == <<"true", "false">>
Index == 0 .. 2

newFlagBuilder ==
    [on |-> TRUE, off |-> Undefined, fallthrough |-> Undefined, variations |-> <<>>,
     targets |-> [i \in Index |-> {}], rules |-> <<>>, want |-> [c \in Contexts |-> Undefined]]

On(b, on) == [b EXCEPT !.on = on]
FallthroughVariationIndex(b, i) == [b EXCEPT !.fallthrough = i]
OffVariationIndex(b, i) == [b EXCEPT !.off = i]
ClearRules(b) == [b EXCEPT !.rules = <<>>]
ClearTargets(b) ==
    [b EXCEPT !.targets = [i \in Index |-> {}], !.want = [c \in Contexts |-> Undefined]]
\* The targets stay.
Variations(b, values) ==
    [b EXCEPT !.variations = values, !.want = [c \in Contexts |-> Undefined]]

BooleanFlag(b) ==
    IF b.variations = BooleanVariations THEN b
    ELSE OffVariationIndex(FallthroughVariationIndex(Variations(b, BooleanVariations), 0), 1)

VariationForAllIndex(b, i) == FallthroughVariationIndex(ClearTargets(ClearRules(On(b, TRUE))), i)
ValueForAll(b, value) == VariationForAllIndex(Variations(b, <<value>>), 0)

\* Mutant: the context stays a target of the other variations.
VariationIndexForKeyAdds(b, c, i) ==
    [b EXCEPT !.targets = [j \in Index |-> IF j = i THEN b.targets[j] \cup {c} ELSE b.targets[j]],
              !.want[c] = IF i < Len(b.variations) THEN i ELSE Undefined]

\* The context becomes a target of the variation and of no other that the flag has now.
VariationIndexForKey(b, c, i) ==
    [b EXCEPT !.targets = [j \in Index |->
                              IF j >= Len(b.variations) THEN b.targets[j]
                              ELSE IF j = i THEN b.targets[j] \cup {c} ELSE b.targets[j] \ {c}],
              !.want[c] = IF i < Len(b.variations) THEN i ELSE Undefined]

variationForBool(value) == IF value THEN 0 ELSE 1
VariationForKey(b, c, value) == VariationIndexForKey(BooleanFlag(b), c, variationForBool(value))
FallthroughVariation(b, value) == FallthroughVariationIndex(BooleanFlag(b), variationForBool(value))
OffVariation(b, value) == OffVariationIndex(BooleanFlag(b), variationForBool(value))
VariationForAll(b, value) == VariationForAllIndex(BooleanFlag(b), variationForBool(value))

\* IfMatchContext, AndMatchContext, AndNotMatchContext and ThenReturnIndex
ThenReturnIndex(b, matching, i) ==
    [b EXCEPT !.rules = Append(@, [matching |-> matching, variation |-> i])]
ThenReturn(b, matching, value) == ThenReturnIndex(BooleanFlag(b), matching, variationForBool(value))

\* createFlag: only the targets of variations that the flag has
createFlag(b) ==
    [on |-> b.on, off |-> b.off, fallthrough |-> b.fallthrough, variations |-> b.variations,
     targets |-> [i \in 0 .. Len(b.variations) - 1 |-> b.targets[i]], rules |-> b.rules]

\* The evaluator: the first target, the first rule, or the fallthrough
ValueOf(flag, i) ==
    IF i \in 0 .. Len(flag.variations) - 1 THEN flag.variations[i + 1] ELSE ErrorValue
FirstOf(S) == CHOOSE i \in S : \A j \in S : i <= j
Evaluate(flag, c) ==
    LET targets == {i \in DOMAIN flag.targets : c \in flag.targets[i]}
        rules == {r \in DOMAIN flag.rules : c \in flag.rules[r].matching}
    IN ValueOf(flag, IF ~flag.on THEN flag.off
                     ELSE IF targets # {} THEN FirstOf(targets)
                     ELSE IF rules # {} THEN flag.rules[FirstOf(rules)].variation
                     ELSE flag.fallthrough)

\* The methods, as a test calls them
Edits(b) ==
       {On(b, on) : on \in BOOLEAN}
  \cup {VariationIndexForKey(b, c, i) : c \in Contexts, i \in Index}
  \cup {VariationForKey(b, c, value) : c \in Contexts, value \in BOOLEAN}
  \cup {FallthroughVariation(b, value) : value \in BOOLEAN}
  \cup {OffVariation(b, value) : value \in BOOLEAN}
  \cup {FallthroughVariationIndex(b, i) : i \in Index}
  \cup {OffVariationIndex(b, i) : i \in Index}
  \cup {VariationForAll(b, value) : value \in BOOLEAN}
  \cup {VariationForAllIndex(b, i) : i \in Index}
  \cup {ValueForAll(b, Variation3[1]), Variations(b, Variation3), ClearRules(b), ClearTargets(b)}
  \cup {ThenReturnIndex(b, S, i) : S \in SUBSET Contexts, i \in Index}
  \cup {ThenReturn(b, S, value) : S \in SUBSET Contexts, value \in BOOLEAN}

\* "VariationIndexForKey sets the flag to return the specified variation for a specific
\* context [...] when targeting is on", whatever was built before: targets of other
\* variations, variations the flag once had, rules.
ServesTargets(b) ==
    b.on => \A c \in Contexts : b.want[c] # Undefined =>
                Evaluate(createFlag(b), c) = b.variations[b.want[c] + 1]

=============================================================================
