----------------------------- MODULE XccdfPolicy -----------------------------
(***************************************************************************)
(* Evaluation of an XCCDF policy (XCCDF_POLICY/xccdf_policy.c,             *)
(* xccdf_policy_resolve.c, XCCDF/result_scoring.c).                        *)
(*                                                                         *)
(* A policy is a benchmark (a tree of groups and rules) seen through a     *)
(* profile: selectors choose items, refine-rules change rules.  It keeps   *)
(* the selection of every item resolved (selected_final), also when a      *)
(* selector is added later.  The evaluation walks the rules in document    *)
(* order, reports the start and the end of each to the caller's callbacks, *)
(* which may stop it, asks the checking engines, combines the answers and  *)
(* adds a rule-result.  Scores are computed from the rule-results.         *)
(*                                                                         *)
(* Abstracted: texts, times, identifiers; the engines (any answer), the    *)
(* applicability of a platform (a constant) and value bindings (found or   *)
(* not).                                                                   *)
(***************************************************************************)
EXTENDS Integers, SequencesExt, FiniteSets

CONSTANTS Groups, Rules,
          Content,      \* [Groups \cup {"benchmark"} -> sequence of items]
          Selected,     \* [items -> BOOLEAN], the selected attribute
          Clusters,     \* [cluster ids -> set of items]
          Applicable,   \* [items and "benchmark" -> BOOLEAN], some platform of it applies
          RuleRole,     \* [Rules -> role]
          Weight,       \* [items -> Nat]
          Check,        \* [check ids -> check], the checks and what is in a complex-check
          Checks,       \* [Rules -> sequence of candidate checks]
          Profiles,     \* sequences of selectors and of refine-rules
          Selectors,    \* selectors a caller may add
          Answers,      \* what an engine may answer
          MaxSelects    \* bound: selectors added by the caller

VARIABLES internal,   \* policy->selected_internal: the last selector of an item
          final,      \* policy->selected_final: the items selected in it
          refine,     \* policy->refine_rules_internal
          added,      \* number of selectors added by the caller
          phase,      \* "new", "ready", "evaluating", "done", "stopped", "error"
          only,       \* policy->rule, or "any"
          pos,        \* place of the current rule in document order
          at,         \* place within the evaluation of the current rule
          results,    \* rule-results
          events      \* what the callbacks were told

vars == <<internal, final, refine, added, phase, only, pos, at, results, events>>

Items == Groups \cup Rules
Unset == "unset"
NoRefine == [role |-> "none", selector |-> "none"]

PASS == 1
FAIL == 2
ERROR == 3
UNKNOWN == 4
NOT_APPLICABLE == 5
NOT_CHECKED == 6
NOT_SELECTED == 7
INFORMATIONAL == 8

-----------------------------------------------------------------------------
(* The benchmark tree *)

Holder(i) == CHOOSE g \in Groups \cup {"benchmark"} : i \in ToSet(Content[g])

\* An item and the groups it is in.
Path[i \in Items] == {i} \cup IF Holder(i) = "benchmark" THEN {} ELSE Path[Holder(i)]

RulesOf[i \in Items \cup {"benchmark"}] ==
    IF i \in Rules THEN <<i>>
    ELSE FlattenSeq([k \in DOMAIN Content[i] |-> RulesOf[Content[i][k]]])
Order == RulesOf["benchmark"]

\* The benchmark is a finite tree, in which every rule is met once.
ASSUME TreeAssumption ==
    /\ "benchmark" \notin Items /\ Groups \cap Rules = {}
    /\ IsFiniteSet(Items)
    /\ \A g \in Groups \cup {"benchmark"} : Content[g] \in Seq(Items)
    /\ \A i \in Items : \E g \in Groups \cup {"benchmark"} : i \in ToSet(Content[g])
    /\ \A g, h \in Groups \cup {"benchmark"} : g # h => ToSet(Content[g]) \cap ToSet(Content[h]) = {}
    /\ \E level \in [Items -> 1 .. Cardinality(Items)] :
          \A i \in Items : Holder(i) # "benchmark" => level[Holder(i)] < level[i]
ASSUME OrderAssumption ==
    /\ Order \in Seq(Rules)
    /\ \A r \in Rules : \E n \in DOMAIN Order : Order[n] = r
    /\ \A m, n \in DOMAIN Order : Order[m] = Order[n] => m = n

\* Weights are not negative; in units small enough they are whole numbers.
ASSUME WeightAssumption == Weight \in [Items -> Nat]

-----------------------------------------------------------------------------
(* Selection *)

\* The last selector of an item, or else its selected attribute.
Own(int, i) == IF int[i] # Unset THEN int[i] = "yes" ELSE Selected[i]

Under(i) == {x \in Items : i \in Path[x]}

\* What the calls of xccdf_policy_resolve_item find out, from item i down.
Passed(int, i, selected) ==
    LET result[x \in Under(i)] == (IF x = i THEN selected ELSE result[Holder(x)]) /\ Own(int, x)
    IN  result

\* Faulty variant: only the item itself is resolved, not what is in it.
ResolveOne(int, fin, i, selected) ==
    {x \in Items : IF x = i THEN selected /\ Own(int, i) ELSE x \in fin}

\* xccdf_policy_resolve_item
ResolveItem(int, fin, i, selected) ==
    {x \in Items : IF x \in Under(i) THEN Passed(int, i, selected)[x] ELSE x \in fin}

\* Items are resolved one after another, each below its holder as it is then;
\* the benchmark cannot be unselected.
ResolveAll(int, fin, order) ==
    LET Above(f, i) == Holder(i) = "benchmark" \/ Holder(i) \in f
        done[n \in 0 .. Len(order)] ==
            IF n = 0 THEN fin
            ELSE ResolveItem(int, done[n - 1], order[n], Above(done[n - 1], order[n]))
    IN  done[Len(order)]

\* A selector names an item, or a cluster of items; any other is ignored.
Named(sel) == IF sel.item \in Items THEN {sel.item}
              ELSE IF sel.item \in DOMAIN Clusters THEN Clusters[sel.item] ELSE {}

\* The index of clusters holds items of the benchmark.
ASSUME ClusterAssumption == \A c \in DOMAIN Clusters : Clusters[c] \in SUBSET Items

Note(int, sel) == [i \in Items |-> IF i \in Named(sel) THEN sel.value ELSE int[i]]

\* Defined fields of a later refine-rule replace those of an earlier one.
MergeRefine(ref, rr) ==
    [r \in Rules |->
        IF r \notin Named(rr) THEN ref[r]
        ELSE IF ref[r] = NoRefine THEN [role |-> rr.role, selector |-> rr.selector]
        ELSE [role     |-> IF rr.role # Unset THEN rr.role ELSE ref[r].role,
              selector |-> IF rr.selector # Unset THEN rr.selector ELSE ref[r].selector]]

Init ==
    /\ internal = [i \in Items |-> Unset]
    /\ final = {}
    /\ refine = [r \in Rules |-> NoRefine]
    /\ added = 0
    /\ phase = "new"
    /\ only = "any"
    /\ pos = 1
    /\ at = 0
    /\ results = <<>>
    /\ events = <<>>

\* xccdf_policy_new
New ==
    /\ phase = "new"
    /\ \E p \in Profiles :
        /\ internal' = FoldLeft(Note, internal, p.selects)
        /\ refine' = FoldLeft(MergeRefine, refine, p.refines)
        /\ final' = ResolveAll(internal', final, Content["benchmark"])
    /\ phase' = "ready"
    /\ UNCHANGED <<added, only, pos, at, results, events>>

\* xccdf_policy_add_select; the items of a cluster come in the order of a
\* hash table.
AddSelect ==
    /\ phase = "ready"
    /\ added < MaxSelects
    /\ \E sel \in Selectors : \E order \in SetToSeqs(Named(sel)) :
        /\ internal' = Note(internal, sel)
        /\ final' = ResolveAll(internal', final, order)
    /\ added' = added + 1
    /\ UNCHANGED <<refine, phase, only, pos, at, results, events>>

\* After the last rule: a rule named by the session that was never met is an
\* error.
PhaseAt(place, named) ==
    IF place <= Len(Order) THEN "evaluating"
    ELSE IF named \in Rules \cup {"any"} THEN "done" ELSE "error"

\* xccdf_policy_evaluate begins; the session may have named a single rule.
Evaluate ==
    /\ phase = "ready"
    /\ only' \in {"any", "missing"} \cup Rules
    /\ phase' = PhaseAt(pos, only')
    /\ UNCHANGED <<internal, final, refine, added, pos, at, results, events>>

-----------------------------------------------------------------------------
(* Checks *)

ResultTable == [
    AND |-> << <<1, 2, 3, 4, 1, 1, 1, 1>>,
               <<2, 2, 2, 2, 2, 2, 2, 2>>,
               <<4, 2, 4, 4, 4, 4, 4, 4>>,
               <<3, 2, 3, 4, 3, 3, 3, 3>>,
               <<1, 2, 3, 4, 5, 5, 5, 5>>,
               <<1, 2, 3, 4, 5, 6, 6, 6>>,
               <<1, 2, 3, 4, 5, 6, 7, 7>>,
               <<1, 2, 3, 4, 5, 6, 7, 8>> >>,
    OR  |-> << <<1, 1, 1, 1, 1, 1, 1, 1>>,
               <<1, 2, 3, 4, 2, 2, 2, 2>>,
               <<1, 4, 4, 4, 4, 4, 4, 4>>,
               <<1, 3, 3, 4, 3, 3, 3, 3>>,
               <<1, 2, 3, 4, 5, 5, 5, 5>>,
               <<1, 2, 3, 4, 5, 6, 6, 6>>,
               <<1, 2, 3, 4, 5, 6, 7, 7>>,
               <<1, 2, 3, 4, 5, 6, 7, 8>> >>]

\* _resolve_operation
ResolveOperation(a, b, oper) == IF a = 0 \/ b = 0 THEN 0 ELSE ResultTable[oper][a][b]

\* Faulty variant: a check that is negated and neither passes nor fails fails.
ResolveNegateAll(value, negate) ==
    IF ~negate THEN value ELSE IF value = FAIL THEN PASS ELSE FAIL

\* _resolve_negate
ResolveNegate(value, negate) ==
    IF ~negate THEN value
    ELSE IF value = PASS THEN FAIL ELSE IF value = FAIL THEN PASS ELSE value

\* The content references of a check are alternatives: the first one an engine
\* can use counts.  Without value bindings no engine is asked.
FirstAnswer(check, ans, nothing) ==
    LET refs == check.refs
        usable == {k \in DOMAIN refs : ans[refs[k]] # NOT_CHECKED}
    IN  IF ~check.bound THEN UNKNOWN
        ELSE IF refs = <<>> THEN nothing
        ELSE IF usable = {} THEN NOT_CHECKED
        ELSE ans[refs[CHOOSE k \in usable : \A m \in usable : k <= m]]

\* What the parts of a complex-check yield is combined one after another; -1
\* from an engine ends everything.
Combine(vals, oper) ==
    LET ret[n \in 0 .. Len(vals)] ==
            IF n = 0 THEN 0
            ELSE IF ret[n - 1] = -1 \/ vals[n] = -1 THEN -1
            ELSE IF ret[n - 1] = 0 THEN vals[n]
            ELSE ResolveOperation(ret[n - 1], vals[n], oper)
    IN  ret[Len(vals)]

\* xccdf_policy_check_evaluate
CheckEvaluate(id, ans) ==
    LET Val[c \in DOMAIN Check] ==
            LET parts == [k \in DOMAIN Check[c].children |-> Val[Check[c].children[k]]]
                ret == IF Check[c].kind = "complex" THEN Combine(parts, Check[c].oper)
                       ELSE FirstAnswer(Check[c], ans, 0)
            IN  ResolveNegate(ret, Check[c].negate)
    IN  Val[id]

Parts(c) == IF Check[c].kind = "complex" THEN ToSet(Check[c].children) ELSE {}

\* The content references in a check.
Leaves[c \in DOMAIN Check] ==
    IF Check[c].kind = "complex" THEN UNION {Leaves[p] : p \in Parts(c)} ELSE ToSet(Check[c].refs)

\* Complex-checks are finite trees of complex-checks and of checks with content
\* references; engines answer with a result or with -1.
ASSUME CheckAssumption ==
    /\ Answers \subseteq {-1} \cup 1 .. 8
    /\ \A r \in Rules : Checks[r] \in Seq(ToSet(Checks[r])) /\ \A k \in DOMAIN Checks[r] : Checks[r][k].check \in DOMAIN Check
    /\ \A c \in DOMAIN Check : Check[c].kind = "simple" => Check[c].refs \in Seq(ToSet(Check[c].refs))
    /\ IsFiniteSet(DOMAIN Check)
    /\ \A S \in SUBSET DOMAIN Check : S # {} => \E c \in S : Parts(c) \cap S = {}
    /\ \A c \in DOMAIN Check : Check[c].kind = "complex" =>
          /\ Check[c].oper \in {"AND", "OR"}
          /\ Check[c].children \in Seq(DOMAIN Check) \ {<<>>}
          /\ \A p \in Parts(c) : Check[p].kind # "complex" => Check[p].refs \in Seq(ToSet(Check[p].refs)) \ {<<>>}

NoCheck == "none"

\* _xccdf_policy_rule_get_applicable_check: a complex-check, or the last
\* candidate of the refined selector whose checking system is registered.
SelectedCheck(r, selector) ==
    LET cands == Checks[r]
        complex == {k \in DOMAIN cands : Check[cands[k].check].kind = "complex"}
        With(s) == {k \in DOMAIN cands : cands[k].selector = s}
        named == IF With(selector) = {} THEN With(Unset) ELSE With(selector)
        usable == {k \in named : cands[k].registered}
    IN  IF complex # {} THEN cands[Min(complex)].check
        ELSE IF usable = {} THEN NoCheck ELSE cands[Max(usable)].check

ApplicableCheck(r) == SelectedCheck(r, IF refine[r] = NoRefine THEN Unset ELSE refine[r].selector)

CheckOf(r) == IF ApplicableCheck(r) = NoCheck THEN [kind |-> "none"] ELSE Check[ApplicableCheck(r)]

\* xccdf_get_final_role
FinalRole(r) == IF refine[r] = NoRefine THEN RuleRole[r] ELSE refine[r].role

-----------------------------------------------------------------------------
(* The evaluation of a rule *)

Cur == Order[pos]
Evaluating(place) == phase = "evaluating" /\ at = place

Event(type) == [type |-> type, rule |-> Cur]

\* The evaluation goes on with the next rule in document order.
NextRule ==
    /\ pos' = pos + 1
    /\ at' = 0
    /\ phase' = PhaseAt(pos + 1, only)

\* A callback that returns something else than 0 stops the evaluation; -1 makes
\* xccdf_policy_evaluate free the results and return NULL.
Stop == phase' \in {"stopped", "error"} /\ UNCHANGED <<pos, at>>

\* Faulty variant: the end of every rule is reported.
ReportedAlways == TRUE

\* Callbacks are told about the rule the session named, or about every rule.
Reported == only \in {"any", Cur}

RuleResult(res, verdict) ==
    [rule |-> Cur, result |-> res, role |-> FinalRole(Cur), verdict |-> verdict]

\* _xccdf_policy_report_rule_result, then what the callers do with its answer.
End(res, verdict) ==
    IF res = -1 THEN phase' = "error" /\ UNCHANGED <<pos, at, results, events>>
    ELSE /\ results' = Append(results, RuleResult(res, verdict))
         /\ IF Reported THEN events' = Append(events, Event("END")) /\ (NextRule \/ Stop)
            ELSE events' = events /\ NextRule

Policy == <<internal, final, refine, added, only>>

\* Another rule than the one the session named.
Skip ==
    /\ Evaluating(0)
    /\ only \notin {"any", Cur}
    /\ End(NOT_SELECTED, "none")
    /\ UNCHANGED Policy

Start ==
    /\ Evaluating(0)
    /\ only \in {"any", Cur}
    /\ events' = Append(events, Event("START"))
    /\ \/ at' = 1 /\ UNCHANGED <<phase, pos>>
       \/ Stop
    /\ UNCHANGED <<Policy, results>>

\* The result of a rule that no engine is asked about, or 0.
Settled(r) ==
    LET check == CheckOf(r)
    IN  CASE r \notin final -> NOT_SELECTED
          [] r \in final /\ FinalRole(r) = "unchecked" -> NOT_CHECKED
          [] r \in final /\ FinalRole(r) # "unchecked" /\ (\E i \in Path[r] \cup {"benchmark"} : ~Applicable[i]) -> NOT_APPLICABLE
          [] OTHER -> IF check.kind = "none" THEN NOT_CHECKED
                      ELSE IF check.kind # "complex" /\ ~check.bound THEN UNKNOWN
                      ELSE IF check.kind = "multi" /\ check.definitions = 0 THEN UNKNOWN
                      ELSE 0

Settle ==
    /\ Evaluating(1)
    /\ Settled(Cur) # 0
    /\ End(Settled(Cur), "none")
    /\ UNCHANGED Policy

\* The reference: what a tree of checks yields by the table in the comment
\* above _resolve_operation, where the strongest part decides.
Class(res) ==
    CASE res = PASS -> "pass"
      [] res = FAIL -> "fail"
      [] res \in {ERROR, UNKNOWN} -> "undecided"
      [] OTHER -> "neutral"

Strongest(parts, oper) ==
    LET decisive == IF oper = "AND" THEN "fail" ELSE "pass"
        other    == IF oper = "AND" THEN "pass" ELSE "fail"
    IN  IF decisive \in parts THEN decisive
        ELSE IF "undecided" \in parts THEN "undecided"
        ELSE IF other \in parts THEN other ELSE "neutral"

Opposite(class) == IF class = "pass" THEN "fail" ELSE IF class = "fail" THEN "pass" ELSE class

Verdict(id, ans) ==
    LET V[c \in DOMAIN Check] ==
            LET parts == {V[p] : p \in Parts(c)}
                plain == IF Check[c].kind = "complex" THEN Strongest(parts, Check[c].oper)
                         ELSE Class(FirstAnswer(Check[c], ans, 0))
            IN  IF Check[c].negate THEN Opposite(plain) ELSE plain
    IN  V[id]

\* A complex-check; the role of the rule does not change its result.
Complex ==
    /\ Evaluating(1)
    /\ Settled(Cur) = 0
    /\ CheckOf(Cur).kind = "complex"
    /\ LET id == ApplicableCheck(Cur)
       IN  \E ans \in [Leaves[id] -> Answers] : End(CheckEvaluate(id, ans), Verdict(id, ans))
    /\ UNCHANGED Policy

\* One check; "unscored" turns whatever was found into INFORMATIONAL.
Simple ==
    /\ Evaluating(1)
    /\ Settled(Cur) = 0
    /\ LET check == CheckOf(Cur)
       IN  /\ check.kind = "simple"
           /\ \E ans \in [ToSet(check.refs) -> Answers] :
                  LET ret == IF FinalRole(Cur) = "unscored" THEN INFORMATIONAL
                             ELSE FirstAnswer(check, ans, NOT_CHECKED)
                  IN  End(ResolveNegate(ret, check.negate), "none")
    /\ UNCHANGED Policy

\* A check with @multi-check: a rule-result per definition of the content;
\* place at is the definition at hand.  The multicheck callback, the check,
\* the end of this result and the start of the next one.
Multi ==
    /\ phase = "evaluating" /\ at >= 1
    /\ Settled(Cur) = 0
    /\ LET check == CheckOf(Cur)
           asked == Append(events, Event("MULTI"))
           ended == Append(asked, Event("END"))
       IN  /\ check.kind = "multi"
           /\ \/ events' = asked /\ Stop /\ results' = results
              \/ \E a \in Answers :
                  LET ret == ResolveNegate(a, check.negate)
                  IN  IF ret = -1
                      THEN phase' = "error" /\ events' = asked /\ UNCHANGED <<pos, at, results>>
                      ELSE /\ results' = Append(results, RuleResult(ret, "none"))
                           /\ \/ events' = ended /\ Stop
                              \/ at = check.definitions /\ events' = ended /\ NextRule
                              \/ at < check.definitions /\ events' = Append(ended, Event("START"))
                                 /\ (Stop \/ (at' = at + 1 /\ UNCHANGED <<phase, pos>>))
    /\ UNCHANGED Policy

Next == New \/ AddSelect \/ Evaluate \/ Skip \/ Start \/ Settle \/ Complex \/ Simple \/ Multi

Spec == Init /\ [][Next]_vars

-----------------------------------------------------------------------------
(* Scores: rationals are pairs <<numerator, denominator>> *)

\* xccdf_result_get_rule_result_by_id: the first one.
HasResult(r) == \E k \in DOMAIN results : results[k].rule = r
ResultOf(r) == results[Min({k \in DOMAIN results : results[k].rule = r})]

Ignored == {NOT_SELECTED, NOT_APPLICABLE, INFORMATIONAL, NOT_CHECKED}

Counts(r) ==
    /\ HasResult(r)
    /\ ResultOf(r).role # "unscored"
    /\ ResultOf(r).result \notin Ignored
Passes(r) == ResultOf(r).result = PASS

\* The weighted scores of the items in content that count are added up.
WeightedSum(scores, content) ==
    LET sum[n \in 0 .. Len(content)] ==
            IF n = 0 THEN [count |-> 0, weight |-> 0, score |-> <<0, 1>>]
            ELSE LET acc == sum[n - 1]
                     s == scores[content[n]]
                     w == Weight[content[n]]
                 IN  IF s.count = 0 THEN acc
                     ELSE [count |-> acc.count + 1, weight |-> acc.weight + w,
                           score |-> <<acc.score[1] * s.score[2] + s.score[1] * w * acc.score[2],
                                       acc.score[2] * s.score[2]>>]
    IN  sum[Len(content)]

\* Faulty variant: whatever counts is divided by the sum of the weights.
GroupScoreUnguarded(scores, i) ==
    LET sum == WeightedSum(scores, Content[i])
    IN  [count |-> sum.count,
         score |-> IF sum.count = 0 THEN sum.score
                   ELSE <<sum.score[1], sum.score[2] * sum.weight>>]

\* The score of a group or of the benchmark, normalised unless the weights add up to 0.
GroupScore(scores, i) ==
    LET sum == WeightedSum(scores, Content[i])
    IN  [count |-> sum.count,
         score |-> IF sum.weight = 0 THEN sum.score
                   ELSE <<sum.score[1], sum.score[2] * sum.weight>>]

\* xccdf_item_get_default_score: a group's score is the weighted average of
\* the scores of what counts in it.
DefaultScore[i \in Items \cup {"benchmark"}] ==
    IF i \in Rules
    THEN [count |-> IF Counts(i) THEN 1 ELSE 0,
          score |-> IF Counts(i) /\ Passes(i) THEN <<100, 1>> ELSE <<0, 1>>]
    ELSE GroupScore([c \in ToSet(Content[i]) |-> DefaultScore[c]], i)

\* xccdf_item_get_flat_score of the benchmark: the sum over the rules.
FlatScore ==
    LET sum[n \in 0 .. Len(Order)] ==
            IF n = 0 THEN [weight |-> 0, score |-> 0]
            ELSE LET acc == sum[n - 1]
                     r == Order[n]
                 IN  IF ~Counts(r) THEN acc
                     ELSE [weight |-> acc.weight + Weight[r],
                           score  |-> acc.score + IF Passes(r) THEN Weight[r] ELSE 0]
    IN  sum[Len(Order)]

-----------------------------------------------------------------------------
Exact(i) == \A g \in Path[i] : Own(internal, g)

\* The selection of every item is what resolving the whole benchmark with the
\* last selector of each item gives, whatever selectors were added one by one,
\* in whatever order a cluster is walked (xccdf_policy_add_select).
SelectionExact == phase # "new" => final = {i \in Items : Exact(i)}

Place(r) == CHOOSE n \in DOMAIN Order : Order[n] = r
ResultsFor(res, r) == {k \in DOMAIN res : res[k].rule = r}
EndsFor(ev, r) == {k \in DOMAIN ev : ev[k].rule = r /\ ev[k].type = "END"}
Expected(r) == IF only \in {"any", r} /\ Settled(r) = 0 /\ CheckOf(r).kind = "multi"
               THEN CheckOf(r).definitions ELSE 1

\* The callbacks see the start of a rule before its end, and nothing of
\* another rule in between.
EventsOrdered(ev) ==
    \A k \in DOMAIN ev :
        /\ ev[k].type = "START" => k = 1 \/ ev[k - 1].type = "END"
        /\ ev[k].type # "START" => k > 1 /\ ev[k - 1].type # "END" /\ ev[k - 1].rule = ev[k].rule

\* A finished evaluation has results for the rules in document order: one, or
\* one per definition with multi-check, and NOT_SELECTED for what is not
\* selected; the end of each is reported to the callbacks exactly once.
RulesReported ==
    /\ EventsOrdered(events)
    /\ phase = "done" =>
        /\ \A j, k \in DOMAIN results : j < k => Place(results[j].rule) <= Place(results[k].rule)
        /\ \A r \in Rules :
            /\ Cardinality(ResultsFor(results, r)) = Expected(r)
            /\ Cardinality(EndsFor(events, r)) = IF only \in {"any", r} THEN Cardinality(ResultsFor(results, r)) ELSE 0
            /\ r \notin final => \A k \in ResultsFor(results, r) : results[k].result = NOT_SELECTED

\* A complex-check passes, fails or is undecided (error, unknown) exactly when
\* the logic of its tree says so, negations included (_resolve_operation,
\* _resolve_negate); every check in it has a content reference.
ComplexVerdict ==
    \A k \in DOMAIN results : results[k].verdict # "none" => Class(results[k].result) = results[k].verdict

\* A rule-result that a score is to show, and one that agrees with another in that.
Scored(k) == results[k].role # "unscored" /\ results[k].result \in {PASS, FAIL, ERROR, UNKNOWN}
ScoredPass(k) == Scored(k) /\ results[k].result = PASS
Unanimous ==
    \A r \in Rules : \A j, k \in ResultsFor(results, r) :
        Scored(j) = Scored(k) /\ ScoredPass(j) = ScoredPass(k)

\* No weight of 0 on the way from the benchmark to an item.
Bears(i) == \A x \in Path[i] : Weight[x] > 0

\* The default score exists (no division by 0) and lies between 0 and 100.  Unless the
\* results of a multi-check rule disagree, it is 0 exactly when no rule whose weight
\* reaches the benchmark passed, and 100 exactly when all those that count did, there
\* are some, and in no group that bears weight only rules without it count (such a
\* group scores 0); the absolute score is full exactly when every rule that counts
\* and has a weight passed.
ScoreSound ==
    phase \in {"done", "stopped"} =>
        LET counted == {r \in Rules : \E k \in ResultsFor(results, r) : Scored(k)}
            passed  == {r \in counted : \A k \in ResultsFor(results, r) : Scored(k) => ScoredPass(k)}
            bearing == {r \in counted : Bears(r)}
            s == DefaultScore["benchmark"].score
        IN  /\ s[2] > 0 /\ 0 <= s[1] /\ s[1] <= 100 * s[2]
            /\ Unanimous =>
                /\ (s[1] = 0) <=> bearing \cap passed = {}
                /\ (s[1] = 100 * s[2]) <=>
                      /\ bearing # {} /\ bearing \subseteq passed
                      /\ \A g \in Groups : Bears(g) /\ (\E r \in counted : g \in Path[r])
                                           => \E r \in bearing : g \in Path[r]
                /\ (FlatScore.score = FlatScore.weight) <=>
                      \A r \in counted : Weight[r] > 0 => r \in passed

-----------------------------------------------------------------------------
(***************************************************************************)
(* The inductive invariant behind RulesReported, proved in                 *)
(* XccdfPolicyProofs.                                                      *)
(***************************************************************************)
PhaseInv ==
    /\ phase \in {"new", "ready", "evaluating", "done", "stopped", "error"}
    /\ pos \in Nat \ {0} /\ at \in Nat
    /\ phase \in {"new", "ready"} => pos = 1 /\ at = 0 /\ results = <<>> /\ events = <<>>
    /\ phase = "evaluating" => pos <= Len(Order)
    /\ phase = "done" => pos > Len(Order)

\* Between rules the end of a rule was the last thing reported, within a rule
\* its start.
EventsInv ==
    /\ events \in Seq([type : {"START", "MULTI", "END"}, rule : Rules])
    /\ EventsOrdered(events)
    /\ phase = "evaluating" /\ at = 0 => events = <<>> \/ events[Len(events)].type = "END"
    /\ phase = "evaluating" /\ at > 0 => events # <<>> /\ events[Len(events)] = Event("START")

\* A rule that is under way was to be reported; all but its first result come
\* from multi-check.
RuleInv ==
    phase = "evaluating" /\ at > 0 =>
        /\ only \in {"any", Cur}
        /\ at > 1 => Settled(Cur) = 0 /\ CheckOf(Cur).kind = "multi"

\* The rules before the current one have all their results, the current one
\* those of the definitions before the one at hand, later ones none.
ResultsInv ==
    /\ results \in Seq(ToSet(results)) /\ \A k \in DOMAIN results : results[k].rule \in Rules
    /\ \A j, k \in DOMAIN results : j < k => Place(results[j].rule) <= Place(results[k].rule)
    /\ \A k \in DOMAIN results : results[k].rule \notin final => results[k].result = NOT_SELECTED
    /\ \A r \in Rules :
          Cardinality(EndsFor(events, r)) = IF only \in {"any", r} THEN Cardinality(ResultsFor(results, r)) ELSE 0
    /\ phase \in {"evaluating", "done"} => \A r \in Rules :
          Cardinality(ResultsFor(results, r)) = IF Place(r) < pos THEN Expected(r)
                                       ELSE IF Place(r) = pos /\ at > 0 THEN at - 1 ELSE 0

PolicyInv == PhaseInv /\ EventsInv /\ RuleInv /\ ResultsInv

\* What is reported of a rule is a result.
ResultTypeInv == \A k \in DOMAIN results : results[k].result \in 1 .. 8
=============================================================================
