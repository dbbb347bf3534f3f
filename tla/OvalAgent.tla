------------------------------ MODULE OvalAgent ------------------------------
(***************************************************************************)
(* Variable instances ("multisets") of an agent session (oval_agent.c,     *)
(* oval_probe_hint.c, oval_vardefMapping.c, results/oval_resultSystem.c,   *)
(* oval_probe.c).  XCCDF rules are evaluated one after another in one      *)
(* session.  Every rule binds OVAL variables before its definition is      *)
(* evaluated; what was collected and decided for other values of the same  *)
(* variables must be kept for the report, and not be used again.           *)
(*                                                                         *)
(* A result is represented by its provenance: the set of pairs of an       *)
(* external variable and the values of it that the result was computed     *)
(* from.  What the result is, and what happens when a query fails, is the  *)
(* subject of DefinitionEvaluation.                                        *)
(***************************************************************************)
EXTENDS Integers, FiniteSets, SequencesExt

CONSTANTS Vars,      \* external variables
          Locals,    \* local variables
          Values,
          Lists,     \* SUBSET SUBSET Values: what a rule may bind a variable to
          Defs, Tests, Objects,
          Leaves,    \* [Defs -> Seq(Tests \cup Defs)], the criteria in document order,
                     \* << >> for a definition without criteria
          ObjectOf,  \* [Tests -> Objects]
          ObjRefs,   \* [Objects -> SUBSET (Vars \cup Locals)]
          StateRefs, \* [Tests -> SUBSET (Vars \cup Locals)]
          Base,      \* [Locals -> SUBSET Vars], what a local variable is computed from
          Rules,
          RuleVars,  \* [Rules -> SUBSET Vars], the variables a rule exports to
          RuleDef,   \* [Rules -> Defs \cup {All, Missing}]
          All,       \* a check without a name: every definition (multi-check)
          Missing,   \* a name that is not in the document
          None, MaxRules

ASSUME MaxRulesAssumption == MaxRules \in Nat
ASSUME ListsAssumption == Lists \subseteq (SUBSET Values) \ {{}}
ASSUME DocumentAssumption == /\ {All, Missing, None} \cap Defs = {}
                             /\ Defs \cap Tests = {}
                             /\ None \notin Rules

VARIABLES vals,    \* [Vars -> SUBSET Values], {} when the variable has no values
          local,   \* [Locals -> provenance or None], values are computed once
          rdefs, rtests, syschars,  \* the instances of each, the latest last
          report,  \* the rule evaluated last, and the provenance of its result
          count
vars == <<vals, local, rdefs, rtests, syschars, report, count>>

-----------------------------------------------------------------------------
Session == [vals |-> vals, local |-> local, rdefs |-> rdefs, rtests |-> rtests,
            syschars |-> syschars]

\* The tests below a definition, those of the definitions it extends included.
TestsOf[d \in Defs] ==
  UNION {IF Leaves[d][k] \in Tests THEN {Leaves[d][k]} ELSE TestsOf[Leaves[d][k]]
         : k \in DOMAIN Leaves[d]}

\* The definitions oval_definition_model_build_vardef_mapping lists for a variable: it
\* looks at the references of objects and states, not into local variables.
Dependent(v) ==
  {d \in Defs : \E t \in TestsOf[d] : v \in ObjRefs[ObjectOf[t]] \cup StateRefs[t]}

\* The existing values and the new ones differ; a variable without values never conflicts.
Conflicting(s, b) == {v \in DOMAIN b : s.vals[v] # {} /\ s.vals[v] # b[v]}

\* Faulty variant: the collected objects are not hinted.
HintDefinitionOnly(s, d) ==
  IF s.rdefs[d] = << >> THEN s
  ELSE [s EXCEPT !.rdefs[d][Len(s.rdefs[d])].hint = Last(s.rdefs[d]).instance + 1]

\* The objects _oval_probe_hint_criteria comes to: an extended definition that has no
\* criteria is an error (-1), at which the walk stops, in every criteria it is below.
Hinted[d \in Defs] ==
  LET Leaf(acc, x) ==
        IF ~acc.ok THEN acc
        ELSE IF x \in Tests THEN [acc EXCEPT !.objects = @ \cup {ObjectOf[x]}]
        ELSE [ok |-> Hinted[x].ok, objects |-> acc.objects \cup Hinted[x].objects]
  IN  FoldLeft(Leaf, [ok |-> Leaves[d] # << >>, objects |-> {}], Leaves[d])

\* The latest result-definition, and the latest collected object of each test the walk
\* comes to, are marked; nothing is done for a definition without a result-definition.
HintDefinition(s, d) ==
  IF s.rdefs[d] = << >> THEN s
  ELSE LET next == Last(s.rdefs[d]).instance + 1
           Mark(q) == IF q = << >> THEN q ELSE [q EXCEPT ![Len(q)].hint = next]
       IN  [s EXCEPT !.rdefs[d] = Mark(@),
                     !.syschars = [o \in Objects |-> IF o \in Hinted[d].objects THEN Mark(@[o])
                                                    ELSE @[o]]]

\* The orders in which the keys of a hash table may come.
Orders(S) == {q \in [1..Cardinality(S) -> S] : \A x \in S : \E k \in DOMAIN q : q[k] = x}

\* oval_agent_resolve_variables: only the first conflicting variable that is met has its
\* definitions hinted, but all external variables are cleared.  Afterwards the variables
\* of the rule are bound; those that have the values already are skipped.
Resolved(s, b) ==
  LET Bind(u, kept) == [u EXCEPT !.vals = [v \in Vars |-> IF v \in DOMAIN b THEN b[v]
                                                          ELSE IF kept THEN @[v] ELSE {}]]
  IN  IF Conflicting(s, b) = {} THEN {Bind(s, TRUE)}
      ELSE UNION {{Bind(FoldLeft(HintDefinition, s, q), FALSE) : q \in Orders(Dependent(v))}
                  : v \in Conflicting(s, b)}

-----------------------------------------------------------------------------
\* What is computed from references now: a local variable keeps the values it had when
\* it was first needed.
Pairs(s, S) == {<<v, s.vals[v]>> : v \in S \cap Vars}
Computed(s, S) ==
  [s EXCEPT !.local = [l \in Locals |-> IF l \in S /\ @[l] = None THEN Pairs(s, Base[l])
                                        ELSE @[l]]]
Seen(s, S) == Pairs(s, S) \cup UNION {s.local[l] : l \in S \cap Locals}

\* Faulty variant: a new entry does not take the hint.
NewInstanceFirst(q, instance) ==
  IF q = << >> \/ Last(q).hint # Last(q).instance THEN instance ELSE None

\* The instance a missing or outdated entry is created with, None if the latest is used.
NewInstance(q, instance) ==
  IF q = << >> THEN instance
  ELSE IF Last(q).hint # Last(q).instance THEN Last(q).hint ELSE None

Entry(i, env) == [instance |-> i, hint |-> i, result |-> env]

\* oval_probe_query_object; every query succeeds here.
QueryObject(s, o) ==
  LET i == NewInstance(s.syschars[o], 1)
      c == Computed(s, ObjRefs[o])
  IN  IF i = None THEN s
      ELSE [c EXCEPT !.syschars[o] = Append(@, Entry(i, Seen(c, ObjRefs[o])))]

\* Faulty variant: the latest result-test is evaluated again in place.
TestUpdated(s, t, i) ==
  LET u == Computed(QueryObject(s, ObjectOf[t]), StateRefs[t])
      e == Entry(i, Last(u.syschars[ObjectOf[t]]).result \cup Seen(u, StateRefs[t]))
  IN  [u EXCEPT !.rtests[t] = <<e>>]

\* oval_result_system_get_new_test and oval_result_test_eval: a result-test of the
\* instance of the definition, evaluated if it is new.
Test(s, t, i) ==
  LET u == Computed(QueryObject(s, ObjectOf[t]), StateRefs[t])
      env == Last(u.syschars[ObjectOf[t]]).result \cup Seen(u, StateRefs[t])
  IN  IF s.rtests[t] # << >> /\ Last(s.rtests[t]).instance = i THEN s
      ELSE [u EXCEPT !.rtests[t] = Append(@, Entry(i, env))]

\* prepare_definition, get_new_definition and oval_result_definition_eval.  The code
\* first makes the result-definition with all below it and then evaluates it; both walk
\* the criteria in the same order and nothing comes between, so one walk does both here.
RECURSIVE Definition(_, _, _)
Definition(s, d, instance) ==
  LET i == NewInstance(s.rdefs[d], instance)
      Leaf(acc, x) ==
        LET u == IF x \in Tests THEN Test(acc.s, x, i) ELSE Definition(acc.s, x, i)
        IN  [s |-> u, env |-> acc.env \cup
               (IF x \in Tests THEN Last(u.rtests[x]).result ELSE Last(u.rdefs[x]).result)]
      done == FoldLeft(Leaf, [s |-> s, env |-> {}], Leaves[d])
  IN  IF i = None THEN s
      ELSE [done.s EXCEPT !.rdefs[d] = Append(@, Entry(i, done.env))]

-----------------------------------------------------------------------------
Init == /\ vals = [v \in Vars |-> {}]
        /\ local = [l \in Locals |-> None]
        /\ rdefs = [d \in Defs |-> << >>]
        /\ rtests = [t \in Tests |-> << >>]
        /\ syschars = [o \in Objects |-> << >>]
        /\ report = [rule |-> None, result |-> {}]
        /\ count = 0

\* The definitions a rule evaluates; without a name, all of them.
Targets(r) == IF RuleDef[r] = All THEN SetToSeq(Defs)
              ELSE IF RuleDef[r] = Missing THEN << >> ELSE <<RuleDef[r]>>

\* oval_agent_eval_rule.  A rule that exports nothing leaves the variables alone; a
\* definition that does not exist is noticed after the variables have been bound.
EvalRule(r, b) ==
  /\ count < MaxRules
  /\ count' = count + 1
  /\ \E s \in IF DOMAIN b = {} THEN {Session} ELSE Resolved(Session, b) :
       LET Evaluate(u, d) == Definition(u, d, 1)
           u == FoldLeft(Evaluate, s, Targets(r))
       IN  /\ vals' = u.vals /\ local' = u.local /\ rdefs' = u.rdefs
           /\ rtests' = u.rtests /\ syschars' = u.syschars
           /\ report' = [rule |-> r,
                         result |-> UNION {Last(u.rdefs[d]).result : d \in Range(Targets(r))}]

Bindings(r) == [RuleVars[r] -> Lists]
Next == \E r \in Rules : \E b \in Bindings(r) : EvalRule(r, b)
Spec == Init /\ [][Next]_vars

-----------------------------------------------------------------------------
\* The result reported for a rule was computed from the values the rule has bound, all
\* of it: no collected object, test or definition of another instance was used again.
RuleFresh == \A p \in report.result : p[2] = vals[p[1]]

\* Two result-definitions, result-tests or collected objects of one id differ in their
\* variable_instance, as the keys of the results and characteristics schemas demand.
InstancesDistinct ==
  \A f \in {rdefs, rtests, syschars} : \A x \in DOMAIN f :
    \A j, k \in DOMAIN f[x] : f[x][j].instance = f[x][k].instance => j = k

\* The results model encompasses all evaluations: what a definition, test or collected
\* object said for earlier values is never changed or dropped by a later rule.
HistoryKept ==
  [][\A x \in Defs \cup Tests \cup Objects :
       LET Of(D, T, O) == IF x \in Defs THEN D[x] ELSE IF x \in Tests THEN T[x] ELSE O[x]
           old == Of(rdefs, rtests, syschars)
           new == Of(rdefs', rtests', syschars')
       IN  /\ Len(old) <= Len(new)
           /\ \A k \in DOMAIN old : /\ new[k].instance = old[k].instance
                                    /\ new[k].result = old[k].result]_vars
=============================================================================
