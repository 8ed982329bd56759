----------------------------- MODULE PolicyRules -----------------------------
(***************************************************************************)
(* Policy (config/load.rs, validate.rs, merge.rs and routing/rules.rs): the *)
(* user's and the project's rules, validated and merged, are matched        *)
(* against a prompt and the paths it mentions, and those that match turn    *)
(* the features of the prompt into the task that is routed.                 *)
(*                                                                         *)
(* A prompt and a phrase are sequences of symbols, a glob is the set of     *)
(* paths it matches.  Prompts are lower case when they are looked at.       *)
(***************************************************************************)
EXTENDS RouteSelection, FiniteSets, Sequences, SequencesExt

CONSTANTS
    RuleIds,    \* identifiers of rules
    Symbols,    \* what prompts and phrases are made of, lower case
    Paths,      \* paths a prompt can mention or a glob can match
    LowerCase   \* a path in lower case

\* RawRule, with its deltas as they are written.
I8 == -128..127
Rule ==
    [id : RuleIds, phrases : Seq(Seq(Symbols)), globs : Seq(SUBSET Paths),
     deltas : [scope : I8, ambiguity : I8, cost : I8, runtime : I8, depth : I8,
               verification : I8, parallel : I8],
     familyFloor : FamilyBound, familyCeiling : FamilyBound,
     effortFloor : OptLevel, effortCeiling : OptLevel]

\* What features.rs sees in a prompt, and the text and paths that rules look at.
Request ==
    [type : TaskTypes, dims : Dimensions, tracks : BOOLEAN, delegation : BOOLEAN,
     prompt : Seq(Symbols), paths : SUBSET Paths]

\* A task as it is routed and logged: features after the deltas, the bounds of the
\* matched rules, their ids, and which bounds contradict one another.
Task ==
    [type : TaskTypes, dims : Dimensions, tracks : BOOLEAN, delegation : BOOLEAN,
     familyFloor : FamilyBound, familyCeiling : FamilyBound,
     effortFloor : OptLevel, effortCeiling : OptLevel,
     rules : SUBSET RuleIds, conflicts : SUBSET {"family", "effort"}]

ASSUME PolicyConstantsOK == LowerCase \in [Paths -> Paths]

-----------------------------------------------------------------------------
(* The rules in force *)

Contradicts(floor, ceiling) == floor # None /\ ceiling # None /\ floor > ceiling

\* validate_rule.  (Fault: its bounds are not compared.)
ValidRuleIgnoringBounds(rule) ==
    /\ rule.phrases # <<>> \/ rule.globs # <<>>
    /\ <<>> \notin ToSet(rule.phrases)
    /\ \A dim \in DOMAIN rule.deltas : rule.deltas[dim] \in -4..4
ValidRule(rule) ==
    /\ rule.phrases # <<>> \/ rule.globs # <<>>
    /\ <<>> \notin ToSet(rule.phrases)
    /\ \A dim \in DOMAIN rule.deltas : rule.deltas[dim] \in -4..4
    /\ ~Contradicts(rule.familyFloor, rule.familyCeiling)
    /\ ~Contradicts(rule.effortFloor, rule.effortCeiling)

\* validate_layer
ValidLayer(rules) ==
    /\ \A i \in DOMAIN rules : ValidRule(rules[i])
    /\ \A i, j \in DOMAIN rules : rules[i].id = rules[j].id => i = j

\* RawConfig::merge: a rule of the project replaces the user's of the same id.
Merge(user, project) ==
    FoldLeft(LAMBDA kept, r : IF \E i \in DOMAIN project : project[i].id = r.id
                              THEN kept ELSE Append(kept, r),
             <<>>, user) \o project

\* load: each layer is validated, then the merged one; any error stops the command.
Loads(user, project) ==
    ValidLayer(user) /\ ValidLayer(project) /\ ValidLayer(Merge(user, project))

-----------------------------------------------------------------------------
(* Matching *)

\* The phrase stands in the prompt at from or later, with its end at the position to.
EndsAt(phrase, prompt, from, to) ==
    /\ to - Len(phrase) + 1 >= from
    /\ SubSeq(prompt, to - Len(phrase) + 1, to) = phrase

\* AhoCorasick::find_iter with its standard semantics: of the phrases of all rules the
\* one that ends first, the longest of those, the earliest rule of equal ones; it
\* goes on behind its end, and so never sees a phrase that overlaps a reported one.
FoundPhrases(rules, prompt) ==
    LET ending(from, to) ==
            {h \in (1..Len(prompt)) \X DOMAIN rules :
                \E p \in ToSet(rules[h[2]].phrases) :
                    Len(p) = h[1] /\ EndsAt(p, prompt, from, to)}
        first(hits) == CHOOSE h \in hits :
            \A o \in hits : o[1] < h[1] \/ (o[1] = h[1] /\ h[2] <= o[2])
        Step(acc, to) ==
            LET hits == ending(acc.from, to) IN
            IF hits = {} THEN acc
            ELSE [from |-> to + 1, rules |-> acc.rules \cup {first(hits)[2]}]
    IN FoldLeftDomain(Step, [from |-> 1, rules |-> {}], prompt).rules

\* The path evidence of a rule.  Paths are taken from the lower-case prompt.
ExplicitPaths(request) == {LowerCase[p] : p \in request.paths}
PathMatches(rule, request) == \E g \in ToSet(rule.globs) : g \cap ExplicitPaths(request) # {}

\* The positions of the rules that match.
Matched(rules, request) ==
    LET found == FoundPhrases(rules, request.prompt) IN
    {n \in DOMAIN rules : n \in found \/ PathMatches(rules[n], request)}

-----------------------------------------------------------------------------
(* Application *)

\* saturating_add_signed keeps a score in 0..4.
Clamp(score) == IF score \in 0..4 THEN score ELSE IF score > 4 THEN 4 ELSE 0

\* (Fault: the comparison of ceilings is the one of floors.)
Highest(bounds) ==
    IF bounds = {} THEN None ELSE CHOOSE b \in bounds : \A o \in bounds : o <= b
LowestSwapped(bounds) ==
    IF bounds = {} THEN None ELSE CHOOSE b \in bounds : \A o \in bounds : o <= b
Lowest(bounds) ==
    IF bounds = {} THEN None ELSE CHOOSE b \in bounds : \A o \in bounds : b <= o

\* CompiledRules::evaluate, and the parallel tracks that resolve_prepared takes from
\* the features or from two rules.  The deltas of the matched rules are added in the
\* order of the rules.
TaskOf(rules, request) ==
    LET matched == Matched(rules, request)
        score(dim) == Clamp(FoldLeftDomain(
                          LAMBDA v, n : IF n \in matched THEN Clamp(v + rules[n].deltas[dim]) ELSE v,
                          request.dims[dim], rules))
        families(bound) == {f \in {Luna, Terra, Sol} : \E n \in matched : rules[n][bound] = f}
        levels(bound) == {l \in Levels : \E n \in matched : rules[n][bound] = l}
        familyFloor == Highest(families("familyFloor"))
        familyCeiling == Lowest(families("familyCeiling"))
        effortFloor == Highest(levels("effortFloor"))
        effortCeiling == Lowest(levels("effortCeiling"))
    IN [type |-> request.type,
        dims |-> [scope |-> score("scope"), ambiguity |-> score("ambiguity"),
                  cost |-> score("cost"), runtime |-> score("runtime"),
                  depth |-> score("depth"), verification |-> score("verification"),
                  parallel |-> score("parallel")],
        tracks |-> request.tracks \/
                   Cardinality({n \in matched : rules[n].deltas.parallel > 0}) >= 2,
        delegation |-> request.delegation,
        familyFloor |-> familyFloor, familyCeiling |-> familyCeiling,
        effortFloor |-> effortFloor, effortCeiling |-> effortCeiling,
        rules |-> {id \in RuleIds : \E n \in matched : rules[n].id = id},
        conflicts |-> {b \in {"family", "effort"} :
                          IF b = "family" THEN Contradicts(familyFloor, familyCeiling)
                          ELSE Contradicts(effortFloor, effortCeiling)}]
=============================================================================
