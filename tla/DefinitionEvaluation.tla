------------------------ MODULE DefinitionEvaluation ------------------------
(***************************************************************************)
(* Evaluation of OVAL definitions (results/oval_resultDefinition.c,        *)
(* oval_resultCriteriaNode.c, oval_resultTest.c, oval_probe.c): the        *)
(* recursive walk over the criteria of a definition, with a result         *)
(* remembered at every definition, node and test, the collection of a      *)
(* test's object on demand, and the test's verdict on what was collected.  *)
(*                                                                         *)
(* The C call stack is the variable stack, its top first; ret is the value *)
(* the callee just returned, None when the top frame has been entered or   *)
(* goes on.  A test is loaded once and shared by all criteria that refer   *)
(* to it; criteria nodes belong to one definition.                         *)
(***************************************************************************)
EXTENDS OvalLogic, FiniteSets, Sequences

CONSTANTS Defs, Nodes, Tests, Objects, Items, None,
          Criteria,      \* [Defs -> Nodes \cup {None}], a definition's root
          NodeType,      \* [Nodes -> {"criteria", "criterion", "extend"}]
          Subnodes,      \* [Nodes -> Seq(Nodes)]
          Target,        \* [Nodes -> Tests \cup Defs \cup {None}]
          Negate,        \* [Nodes -> BOOLEAN]
          OperatorSets,  \* [Nodes -> SUBSET Operators]: the documents considered
          KnownSubtype,  \* [Tests -> BOOLEAN]
          ObjectOf,      \* [Tests -> Objects]
          Compatible,    \* [Tests -> BOOLEAN]: test and object are of one subtype
          Existence, Check, StateOp,
          States,        \* [Tests -> Seq of states]
          ItemsOf,       \* [Objects -> SUBSET Items], all a probe could find
          Status,        \* [Items -> Statuses]
          Entities,      \* [Items -> Seq of entities]
          Compare(_, _), \* oval_str_cmp_str on an item's and a state's value
          MaxCalls       \* bound of the model: top-level evaluations

ASSUME MaxCallsAssumption == MaxCalls \in Nat
ASSUME NoneAssumption == None \notin Results \cup {Failed} /\ None \notin Nodes

\* The criteria of a definition are a tree, as they are parsed: no node is in two
\* places.  Definitions may extend each other in any way.
ASSUME DocumentAssumption ==
  /\ Criteria \in [Defs -> Nodes \cup {None}]
  /\ NodeType \in [Nodes -> {"criteria", "criterion", "extend"}]
  /\ Subnodes \in [Nodes -> Seq(Nodes)]
  /\ \A n \in Nodes : /\ NodeType[n] = "criterion" => Target[n] \in Tests
                      /\ NodeType[n] = "extend" => Target[n] \in Defs
                      /\ NodeType[n] # "criteria" => Subnodes[n] = << >>
  /\ \A m, n \in Nodes : \A i \in DOMAIN Subnodes[m], j \in DOMAIN Subnodes[n] :
        Subnodes[m][i] = Subnodes[n][j] => m = n /\ i = j
  /\ \A d \in Defs, n \in Nodes : \A i \in DOMAIN Subnodes[n] : Criteria[d] # Subnodes[n][i]

ASSUME SystemAssumption ==
  /\ ObjectOf \in [Tests -> Objects]
  /\ \A o \in Objects : ItemsOf[o] \subseteq Items /\ IsFiniteSet(ItemsOf[o])

Opposite(v) == IF v = "true" THEN "false" ELSE IF v = "false" THEN "true" ELSE v

VARIABLES operator,    \* the operator attribute of every criteria
          live,        \* there is a probe session; otherwise results are computed
                       \* from a system characteristics file
          stack, ret,
          dres, nres, tres,  \* results of definitions, criteria nodes and tests
          syschar,     \* [Objects -> a collected object or None]
          added,       \* how many times the items were added to the result test
          lost,        \* history: tests evaluated after a query that brought nothing
          calls

input == <<operator, live>>
vars == <<input, stack, ret, dres, nres, tres, syschar, added, lost, calls>>

-----------------------------------------------------------------------------
(***************************************************************************)
(* The verdict of a test on a collected object.                            *)
(***************************************************************************)
Flags == {"unknown", "error", "complete", "does_not_exist", "incomplete",
          "not_collected", "not_applicable"}

\* A cleared tally to which the results f[x], or the statuses f[x], of all x in the
\* domain of f have been added, each as often as copies says.
Tally(f, copies) ==
  [r \in Results |-> copies * Cardinality({x \in DOMAIN f : f[x] = r})]

StatusTally(f) == [s \in Statuses |-> Cardinality({x \in DOMAIN f : f[x] = s})]

\* The loops that add up results f[x] and then ask for the result.
ByCheck(f, copies, check) ==
  LET result == [c \in Tallies |-> ores_get_result_bychk(c, check)] IN result[Tally(f, copies)]
ByOperator(f, op) ==
  LET result == [c \in Tallies |-> ores_get_result_byopr(c, op)] IN result[Tally(f, 1)]

Count(items, s) == Cardinality({i \in items : Status[i] = s})

\* An entity against one state entity; a variable contributes all of its values.
evaluate_sysent(e, c) ==
  IF e.status = "does_not_exist" THEN "false"
  ELSE IF c.var = "literal" THEN Compare(e.value, c.values[1])
  ELSE IF c.var \in {"complete", "incomplete"}
  THEN ByCheck([k \in DOMAIN c.values |-> Compare(e.value, c.values[k])], 1, c.var_check)
  ELSE IF c.var = "unknown" THEN Failed ELSE "error"

\* Every state entity contributes its comparison and its check_existence.  The status
\* counter counts all entities of the item, whatever their name.
eval_item(i, ste) ==
  LET ents == Entities[i]
      Matching(c) == {k \in DOMAIN ents : ents[k].name = c.name}
      Compared(c) == ByCheck([k \in Matching(c) |-> evaluate_sysent(ents[k], c)], 1, c.check)
      Existing(c) == oval_status_counter_get_result(
            StatusTally([k \in DOMAIN ents |-> ents[k].status]), c.existence)
      parts == [x \in (DOMAIN ste.contents) \X {"compared", "existing"} |->
                  IF x[2] = "compared" THEN Compared(ste.contents[x[1]])
                                       ELSE Existing(ste.contents[x[1]])]
  IN  IF \E n \in DOMAIN ste.contents : \E k \in Matching(ste.contents[n]) :
            evaluate_sysent(ents[k], ste.contents[n]) = Failed
      THEN "error"
      ELSE ByOperator(parts, ste.operator)

\* The states of a test against an item; this depends on the definitions alone.
ItemResult == [t \in Tests |-> [i \in Items |->
  IF Status[i] \in {"error", "not_collected"} THEN "error"
  ELSE IF Status[i] = "does_not_exist" THEN "false"
  ELSE ByOperator([k \in DOMAIN States[t] |-> eval_item(i, States[t][k])], StateOp[t])]]

\* The result test's item list is searched, which holds every item once for each time
\* the test was evaluated.
eval_check_state(t, items, copies) ==
  ByCheck([i \in items |-> ItemResult[t][i]], copies, Check[t])

\* Without items a flag decides alone.
FlagVerdict == [error |-> "error", not_collected |-> "unknown",
                not_applicable |-> "notappl"]

\* Faulty variant: what an incomplete collection satisfies is believed.
evaluate_items_hasty(t, sc, copies) ==
  IF sc.flag \in {"complete", "incomplete"} /\ States[t] # << >>
  THEN eval_check_state(t, sc.items, copies) ELSE "unknown"

evaluate_items(t, sc, copies) ==
  LET exists == Count(sc.items, "exists")
      hasstate == States[t] # << >>
      any == Existence[t] = "any_exist"
      enough == any \/ (Existence[t] = "at_least_one_exists" /\ exists > 0)
      present == eval_check_existence(Existence[t], exists, Count(sc.items, "error"))
      state == eval_check_state(t, sc.items, copies)
  IN  IF sc.flag \in DOMAIN FlagVerdict
      THEN IF any /\ ~hasstate THEN "true" ELSE FlagVerdict[sc.flag]
      ELSE IF sc.flag = "does_not_exist"
      THEN IF any \/ Existence[t] = "none_exist" THEN "true" ELSE "false"
      ELSE IF sc.flag = "complete"
      THEN IF present = "true" /\ hasstate THEN state ELSE present
      ELSE IF sc.flag = "incomplete"
      THEN IF enough
           THEN IF ~hasstate THEN "true"
                ELSE IF state = "false" \/ (state = "true" /\ Check[t] = "at_least_one")
                THEN state ELSE "unknown"
           ELSE IF \/ Existence[t] = "none_exist" /\ exists > 0
                   \/ Existence[t] = "only_one_exists" /\ exists > 1
           THEN "false" ELSE "unknown"
      ELSE "error"

-----------------------------------------------------------------------------
(***************************************************************************)
(* What a probe may send back.                                             *)
(***************************************************************************)
probe_cobj_compute_flag(items) ==
  IF Count(items, "error") > 0 THEN "error"
  ELSE IF Count(items, "not_collected") > 0 THEN "incomplete"
  ELSE IF Count(items, "exists") > 0 THEN "complete" ELSE "does_not_exist"

\* The flag is computed unless the probe or the item cache has set one.
Replies(o) ==
  {[flag |-> f, items |-> {}] : f \in {"not_applicable", "not_collected"}}
  \cup UNION {{[flag |-> f, items |-> S] :
                  f \in {probe_cobj_compute_flag(S), "incomplete", "error"}}
              : S \in SUBSET ItemsOf[o]}

\* Faulty variant: a new collected object counts as complete before any reply.
NoReplyComplete == [flag |-> "complete", items |-> {}]

NoReply == [flag |-> "unknown", items |-> {}]
NotSupported == [flag |-> "not_collected", items |-> {}]

\* No collected object is the null pointer.
ASSUME NullAssumption == \A o \in Objects : None \notin Replies(o) \cup {NotSupported}

-----------------------------------------------------------------------------
Frame(kind, id) == [kind |-> kind, id |-> id, next |-> 1, ores |-> ores_clear]

Top == Head(stack)
Running(kind) == stack # << >> /\ Top.kind = kind
Entered(kind) == Running(kind) /\ ret = None
Returned(kind) == Running(kind) /\ ret # None

Call(kind, id) == stack' = <<Frame(kind, id)>> \o stack /\ ret' = None
Return(v) == stack' = Tail(stack) /\ ret' = v
GoOn(frame) == stack' = <<frame>> \o Tail(stack) /\ ret' = None

Init ==
  /\ operator \in [Nodes -> Operators]
  /\ \A n \in Nodes : operator[n] \in OperatorSets[n]
  /\ live \in BOOLEAN
  /\ stack = << >> /\ ret = None
  /\ dres = [d \in Defs |-> "noteval"]
  /\ nres = [n \in Nodes |-> "noteval"]
  /\ tres = [t \in Tests |-> "noteval"]
  /\ syschar \in IF live THEN [Objects -> {None}]
                 ELSE {f \in [Objects -> UNION {Replies(o) : o \in Objects} \cup {None}] :
                          \A o \in Objects : f[o] \in Replies(o) \cup {None}}
  /\ added = [t \in Tests |-> 0]
  /\ lost = {}
  /\ calls = 0

\* oval_result_system_eval_definition on any definition, in any order, repeatedly.
EvalDefinition(d) ==
  /\ stack = << >> /\ calls < MaxCalls
  /\ calls' = calls + 1
  /\ Call("definition", d)
  /\ UNCHANGED <<input, dres, nres, tres, syschar, added, lost>>

\* A definition that has a result, or no criteria, returns at once.
DefinitionEnter ==
  /\ Entered("definition")
  /\ IF dres[Top.id] # "noteval" \/ Criteria[Top.id] = None
     THEN Return(dres[Top.id]) ELSE Call("node", Criteria[Top.id])
  /\ UNCHANGED <<input, dres, nres, tres, syschar, added, lost, calls>>

\* Faulty variant: only a true or false result is remembered.
DefinitionDoneForgetful ==
  /\ Returned("definition")
  /\ dres' = [dres EXCEPT ![Top.id] = IF ret \in {"true", "false"} THEN ret ELSE "unknown"]
  /\ Return(ret)
  /\ UNCHANGED <<input, nres, tres, syschar, added, lost, calls>>

DefinitionDone ==
  /\ Returned("definition")
  /\ dres' = [dres EXCEPT ![Top.id] = ret]
  /\ Return(ret)
  /\ UNCHANGED <<input, nres, tres, syschar, added, lost, calls>>

\* Faulty variant: error, unknown and the like become true under a negation.
negate_open(n, res) == IF Negate[n] THEN IF res = "true" THEN "false" ELSE "true" ELSE res

oval_result_criteria_node_negate(n, res) ==
  IF Negate[n] /\ res = "true" THEN "false"
  ELSE IF Negate[n] /\ res = "false" THEN "true" ELSE res

\* A node that has a result returns it; otherwise it visits its subnodes, its test or
\* the definition it extends.
NodeEnter ==
  /\ Entered("node")
  /\ LET n == Top.id IN
     IF nres[n] # "noteval" THEN Return(nres[n])
     ELSE IF NodeType[n] = "criterion" THEN Call("test", Target[n])
     ELSE IF NodeType[n] = "extend" THEN Call("definition", Target[n])
     ELSE Top.next <= Len(Subnodes[n]) /\ Call("node", Subnodes[n][Top.next])
  /\ UNCHANGED <<input, dres, nres, tres, syschar, added, lost, calls>>

\* Faulty variant: the iterator is not advanced after an invalid result.
AddSubresultStuck ==
  /\ Returned("node") /\ NodeType[Top.id] = "criteria"
  /\ GoOn(IF ret = Failed THEN Top
          ELSE [Top EXCEPT !.next = @ + 1, !.ores = ores_add_res(@, ret)])
  /\ UNCHANGED <<input, dres, nres, tres, syschar, added, lost, calls>>

\* Faulty variant: the iterator is advanced over a true or false result only.
AddSubresultBehind ==
  /\ Returned("node") /\ NodeType[Top.id] = "criteria"
  /\ GoOn([Top EXCEPT !.next = IF ret \in {"true", "false"} THEN @ + 1 ELSE @,
                      !.ores = ores_add_res(@, ret)])
  /\ UNCHANGED <<input, dres, nres, tres, syschar, added, lost, calls>>

AddSubresult ==
  /\ Returned("node") /\ NodeType[Top.id] = "criteria"
  /\ GoOn([Top EXCEPT !.next = @ + 1, !.ores = ores_add_res(@, ret)])
  /\ UNCHANGED <<input, dres, nres, tres, syschar, added, lost, calls>>

FinishNode(res) ==
  LET r == oval_result_criteria_node_negate(Top.id, res)
  IN  /\ nres' = [nres EXCEPT ![Top.id] = r]
      /\ Return(r)
      /\ UNCHANGED <<input, dres, tres, syschar, added, lost, calls>>

CriteriaDone == /\ Entered("node") /\ nres[Top.id] = "noteval"
                /\ NodeType[Top.id] = "criteria" /\ Top.next > Len(Subnodes[Top.id])
                /\ FinishNode(ores_get_result_byopr(Top.ores, operator[Top.id]))

LeafDone == /\ Returned("node") /\ NodeType[Top.id] \in {"criterion", "extend"}
            /\ FinishNode(ret)

-----------------------------------------------------------------------------
(***************************************************************************)
(* oval_result_test_eval: a remembered result, or a test of unknown type,  *)
(* returns at once; otherwise the object is queried, then its items are    *)
(* evaluated (frame.next = 2).                                             *)
(***************************************************************************)
FinishTest(t, r) == tres' = [tres EXCEPT ![t] = r] /\ Return(r)

TestKnown ==
  /\ Entered("test") /\ Top.next = 1
  /\ tres[Top.id] # "noteval" \/ ~ KnownSubtype[Top.id]
  /\ FinishTest(Top.id, IF tres[Top.id] # "noteval" THEN tres[Top.id] ELSE "unknown")
  /\ UNCHANGED <<input, dres, nres, syschar, added, lost, calls>>

\* Faulty variant: only true and false are remembered by a test.
ToQueryAgain(t) == /\ Entered("test") /\ Top.id = t /\ Top.next = 1
                   /\ tres[t] \notin {"true", "false"} /\ KnownSubtype[t]

ToQuery(t) == /\ Entered("test") /\ Top.id = t /\ Top.next = 1
              /\ tres[t] = "noteval" /\ KnownSubtype[t]

Collected(o) == syschar[o] # None /\ syschar[o].flag # "unknown"

\* No probe session, or the object has been collected before, be it of another subtype.
NoQuery(t) ==
  /\ ToQuery(t)
  /\ ~live \/ Collected(ObjectOf[t])
  /\ GoOn([Top EXCEPT !.next = 2])
  /\ UNCHANGED <<input, dres, nres, tres, syschar, added, lost, calls>>

\* A test of another subtype than its object: oval_probe_query_test returns 0, and the
\* caller goes on without a collected object.
Incompatible(t) ==
  /\ ToQuery(t) /\ live /\ ~Collected(ObjectOf[t]) /\ ~Compatible[t]
  /\ GoOn([Top EXCEPT !.next = 2])
  /\ lost' = lost \cup {t}
  /\ UNCHANGED <<input, dres, nres, tres, syschar, added, calls>>

ToCollect(t) == ToQuery(t) /\ live /\ ~Collected(ObjectOf[t]) /\ Compatible[t]

\* Faulty variant: a collected object is collected again.
QueryRepeated(t, sc) ==
  /\ ToQuery(t) /\ live
  /\ syschar' = [syschar EXCEPT ![ObjectOf[t]] = sc]
  /\ GoOn([Top EXCEPT !.next = 2])
  /\ UNCHANGED <<input, dres, nres, tres, added, lost, calls>>

\* The probe replies, or there is no probe for the object.
Query(t, sc) ==
  /\ ToCollect(t)
  /\ syschar' = [syschar EXCEPT ![ObjectOf[t]] = sc]
  /\ GoOn([Top EXCEPT !.next = 2])
  /\ UNCHANGED <<input, dres, nres, tres, added, lost, calls>>

\* The object could not be sent, or the connection was aborted (-2, which
\* oval_probe_query_test does not look at): the syschar stays empty.
QueryAborted(t) ==
  /\ ToCollect(t)
  /\ syschar' = [syschar EXCEPT ![ObjectOf[t]] = NoReply]
  /\ GoOn([Top EXCEPT !.next = 2])
  /\ lost' = lost \cup {t}
  /\ UNCHANGED <<input, dres, nres, tres, added, calls>>

\* oval_probe_query_test returns -1, and the caller returns it as the test's result.
QueryFailed(t) ==
  /\ ToCollect(t)
  /\ syschar' = [syschar EXCEPT ![ObjectOf[t]] = NoReply]
  /\ FinishTest(t, Failed)
  /\ lost' = lost \cup {t}
  /\ UNCHANGED <<input, dres, nres, added, calls>>

\* The same for an object that a variable of a state depends on, after the test's own.
HasVariable(t) == \E k \in DOMAIN States[t] : \E n \in DOMAIN States[t][k].contents :
                     States[t][k].contents[n].var # "literal"

VariableFailed(t) ==
  /\ Entered("test") /\ Top.id = t /\ Top.next = 2
  /\ live /\ Compatible[t] /\ HasVariable(t)
  /\ FinishTest(t, Failed)
  /\ lost' = lost \cup {t}
  /\ UNCHANGED <<input, dres, nres, syschar, added, calls>>

\* _oval_result_test_result after the query: the verdict on what is known of the object by now.
TestVerdict(t) == LET sc == syschar[ObjectOf[t]] IN
                  IF sc = None THEN "unknown" ELSE evaluate_items(t, sc, added[t] + 1)

TestEvaluate ==
  /\ Entered("test") /\ Top.next = 2
  /\ \E r \in {TestVerdict(Top.id)} : FinishTest(Top.id, r)
  /\ added' = [added EXCEPT ![Top.id] = IF syschar[ObjectOf[Top.id]] = None THEN @ ELSE @ + 1]
  /\ UNCHANGED <<input, dres, nres, syschar, lost, calls>>

Step == \/ DefinitionEnter \/ DefinitionDone
        \/ NodeEnter \/ AddSubresult \/ CriteriaDone \/ LeafDone
        \/ TestKnown \/ TestEvaluate
        \/ \E t \in Tests :
              \/ NoQuery(t) \/ Incompatible(t)
              \/ QueryAborted(t) \/ QueryFailed(t) \/ VariableFailed(t)
              \/ \E sc \in Replies(ObjectOf[t]) \cup {NotSupported} : Query(t, sc)

Next == Step \/ \E d \in Defs : EvalDefinition(d)

\* The evaluating thread goes on, and a probe answers or its connection breaks.
Spec == Init /\ [][Next]_vars /\ WF_vars(Step)

-----------------------------------------------------------------------------
\* The one type invariant: results are results or the -1 of a failed query, and every
\* frame of the stack counts what its subnodes returned.
EvalTypeOK ==
  /\ dres \in [Defs -> Results \cup {Failed}]
  /\ nres \in [Nodes -> Results \cup {Failed}]
  /\ tres \in [Tests -> Results \cup {Failed}]
  /\ ret \in Results \cup {Failed, None}
  /\ added \in [Tests -> Nat]
  /\ lost \subseteq Tests
  /\ calls \in 0..MaxCalls
  /\ \A o \in Objects : syschar[o] # None => /\ syschar[o].flag \in Flags
                                             /\ syschar[o].items \subseteq ItemsOf[o]
  /\ \A k \in DOMAIN stack :
        /\ stack[k].kind \in {"definition", "node", "test"}
        /\ stack[k].ores \in Tallies
        /\ Operands(stack[k].ores) + stack[k].ores["notappl"] < stack[k].next

\* The nodes that the result of a node is made of.
Below(n) == IF NodeType[n] = "criteria" THEN {Subnodes[n][k] : k \in DOMAIN Subnodes[n]}
            ELSE IF NodeType[n] = "extend" /\ Criteria[Target[n]] # None
            THEN {Criteria[Target[n]]} ELSE {}

\* A document in which no definition extends itself, directly or through others.
Acyclic == /\ IsFiniteSet(Nodes)
           /\ \A S \in SUBSET Nodes : S # {} => \E n \in S : Below(n) \cap S = {}

\* The nodes of a definition, those of the definitions it extends included.
Reach(d) ==
  LET reach[n \in Nodes] == {n} \cup UNION {reach[m] : m \in Below(n)}
  IN  IF Criteria[d] = None THEN {} ELSE reach[Criteria[d]]

LeafTests(d) == {Target[n] : n \in {m \in Reach(d) : NodeType[m] = "criterion"}}
LeafDefs(d) == {e \in Defs : Criteria[e] = None
                             /\ \E n \in Reach(d) : NodeType[n] = "extend" /\ Target[n] = e}

\* What an operator says of operands; those that are not applicable are left out.
Says(op, vals) ==
  LET t == Cardinality({k \in DOMAIN vals : vals[k] = "true"})
      f == Cardinality({k \in DOMAIN vals : vals[k] = "false"})
  IN  IF t + f = 0 THEN "notappl" ELSE IF Truth(op, t, f) THEN "true" ELSE "false"

\* The two-valued meaning of a definition when rho settles its leaves.
Meaning(d, rho) ==
  LET val[n \in Nodes] ==
        LET v == IF NodeType[n] = "criteria"
                 THEN Says(operator[n], [k \in DOMAIN Subnodes[n] |-> val[Subnodes[n][k]]])
                 ELSE IF NodeType[n] = "extend" /\ Criteria[Target[n]] # None
                 THEN val[Criteria[Target[n]]] ELSE rho[Target[n]]
        IN  IF Negate[n] THEN Opposite(v) ELSE v
  IN  val[Criteria[d]]

\* The ways to settle the leaves: a verdict and "not applicable" stand, anything else
\* may turn out either way.
Settlements(d) ==
  LET fixed == {t \in LeafTests(d) : tres[t] \in {"true", "false", "notappl"}}
  IN  {rho \in [LeafTests(d) \cup LeafDefs(d) -> {"true", "false", "notappl"}] :
         \A x \in DOMAIN rho : IF x \in fixed THEN rho[x] = tres[x]
                                              ELSE rho[x] # "notappl"}

VerdictSound(d) == dres[d] \in {"true", "false"} =>
                      \A rho \in Settlements(d) : Meaning(d, rho) = dres[d]

\* A definition is true or false only if it would be so whatever the tests that could
\* not be decided had shown; for definitions none of whose queries failed.  This is
\* about the whole walk: counting, operators, negation, extension, remembered results.
DefinitionSound ==
  \A d \in Defs : (\A t \in LeafTests(d) : tres[t] # Failed) => VerdictSound(d)

\* The results written to a report explain each other: a criteria's result is the
\* combination of the results its subnodes have now, a criterion's its test's, an
\* extension's its definition's.
ReportConsistent ==
  \A n \in Nodes : nres[n] # "noteval" =>
    nres[n] = oval_result_criteria_node_negate(n,
      IF NodeType[n] = "criteria"
      THEN ByOperator([k \in DOMAIN Subnodes[n] |-> nres[Subnodes[n][k]]], operator[n])
      ELSE IF NodeType[n] = "criterion" THEN tres[Target[n]] ELSE dres[Target[n]])

\* A test's remembered result is what evaluating the collected object kept in the
\* system characteristics gives, also after other tests have used the object.  Not for
\* the check "only one": a test that came out not evaluated is evaluated again when it
\* is asked for again, then holds every item twice, and "only one" counts them.
ResultExplained ==
  \A t \in Tests :
     (tres[t] # "noteval" /\ t \notin lost /\ KnownSubtype[t] /\ Check[t] # "only_one") =>
     LET sc == syschar[ObjectOf[t]]
     IN  tres[t] = IF sc = None THEN "unknown" ELSE evaluate_items(t, sc, 1)

\* A verdict reached on an incomplete collection stands whatever further items exist,
\* except that false for "at least one" and "only one" is taken from the items at hand.
IncompleteSound ==
  \A t \in Tests :
    LET sc == syschar[ObjectOf[t]] IN
    /\ tres[t] \in {"true", "false"} /\ t \notin lost
    /\ sc # None /\ sc.flag = "incomplete"
    /\ tres[t] = "true" \/ Check[t] \in {"all", "none_satisfy"}
    =>
      \A more \in SUBSET {i \in ItemsOf[ObjectOf[t]] : Status[i] = "exists"} :
         LET all == {i \in sc.items \cup more : Status[i] \notin {"error", "not_collected"}}
         IN  Count(all, "exists") > 0 =>
               evaluate_items(t, [flag |-> "complete", items |-> all], 1) = tres[t]

\* A test whose object could not be collected, because the probe did not answer, the
\* connection broke, a variable failed or the subtypes differ, is neither true nor false:
\* nothing that oval_probe_query_test lets pass goes on as if the object were collected.
UncollectedUndecided == \A t \in lost : tres[t] \notin {"true", "false"}

\* A result, once known, is never replaced, whoever asks again and in which order.
ResultsStable ==
  [][/\ \A t \in Tests : tres[t] # "noteval" => tres'[t] = tres[t]
     /\ \A n \in Nodes : nres[n] # "noteval" => nres'[n] = nres[n]
     /\ \A d \in Defs : dres[d] # "noteval" => dres'[d] = dres[d]]_vars

\* Every evaluation comes to an end, failed queries included.
EvaluationEnds == stack # << >> ~> stack = << >>

-----------------------------------------------------------------------------
(***************************************************************************)
(* The inductive invariant behind ReportConsistent, ResultsStable and      *)
(* ResultExplained, proved in DefinitionEvaluationProofs.                  *)
(***************************************************************************)
\* What a frame is an evaluation of, and what it calls, or called last.
Activation(f) == <<f.kind, f.id>>
Callee(f) ==
  IF f.kind = "definition" THEN <<"node", Criteria[f.id]>>
  ELSE IF NodeType[f.id] = "criterion" THEN <<"test", Target[f.id]>>
  ELSE IF NodeType[f.id] = "extend" THEN <<"definition", Target[f.id]>>
  ELSE <<"node", Subnodes[f.id][f.next]>>
MayCall(f) == \/ f.kind = "definition" /\ Criteria[f.id] # None
              \/ f.kind = "node" /\ (NodeType[f.id] = "criteria" => f.next <= Len(Subnodes[f.id]))
ResultOf(a) == IF a[1] = "definition" THEN dres[a[2]]
               ELSE IF a[1] = "node" THEN nres[a[2]] ELSE tres[a[2]]

Frames == [kind : {"definition", "node", "test"}, id : Defs \cup Nodes \cup Tests,
           next : Nat \ {0}, ores : Tallies]
FrameOK(f) ==
  /\ f.kind = "definition" => f.id \in Defs /\ f.next = 1
  /\ f.kind = "node" => f.id \in Nodes /\ f.next <= Len(Subnodes[f.id]) + 1
  /\ f.kind = "test" => f.id \in Tests /\ f.next <= 2

\* Every frame was called by the one below it, the first one from outside.
ChainInv ==
  /\ stack \in Seq(Frames) /\ \A k \in DOMAIN stack : FrameOK(stack[k])
  /\ stack # << >> => stack[Len(stack)].kind = "definition"
  /\ \A k \in 1 .. Len(stack) - 1 :
        MayCall(stack[k + 1]) /\ Activation(stack[k]) = Callee(stack[k + 1])

\* What is under evaluation has no result.
ProgressInv ==
  \A k \in DOMAIN stack : k > 1 \/ ret # None \/ stack[k].next > 1
                          => ResultOf(Activation(stack[k])) = "noteval"

\* What returned has the result it returned and is not under evaluation any more: no
\* definition that extends itself ever gets a result.
ReturnInv ==
  ret # None /\ stack # << >> =>
    /\ MayCall(Top) /\ ret = ResultOf(Callee(Top))
    /\ \A j \in DOMAIN stack : Activation(stack[j]) # Callee(Top)
DoneInv ==
  \A k \in DOMAIN stack : stack[k].kind = "node" =>
    \A i \in 1 .. stack[k].next - 1 : \A j \in k .. Len(stack) :
       Activation(stack[j]) # <<"node", Subnodes[stack[k].id][i]>>

\* The innermost evaluation of a criteria has counted the results its subnodes have.
Innermost(k) == \A j \in 1 .. k - 1 : Activation(stack[j]) # Activation(stack[k])
TallyInv ==
  \A k \in DOMAIN stack : stack[k].kind = "node" /\ Innermost(k) =>
    stack[k].ores = Tally([i \in 1 .. stack[k].next - 1 |-> nres[Subnodes[stack[k].id][i]]], 1)

\* The object of a test whose query did not fail keeps what was collected.
Settled(o) == ~live \/ Collected(o)
VerdictOn(t, copies) == LET sc == syschar[ObjectOf[t]] IN
                        IF sc = None THEN "unknown" ELSE evaluate_items(t, sc, copies)
TestInv ==
  /\ DOMAIN syschar = Objects
  /\ (stack # << >> /\ Top.kind = "test" /\ Top.next = 2) =>
        KnownSubtype[Top.id] /\ (Top.id \in lost \/ Settled(ObjectOf[Top.id]))
  /\ \A t \in Tests : ~KnownSubtype[t] => tres[t] \in {"noteval", "unknown"}
  /\ \A t \in Tests :
        (t \notin lost /\ tres[t] # "noteval" /\ KnownSubtype[t]) =>
           Settled(ObjectOf[t]) /\ \E copies \in 1 .. added[t] + 1 : tres[t] = VerdictOn(t, copies)

\* The test of a query that brought nothing has no verdict, or is about to be evaluated
\* on an object that is not collected.
LostInv ==
  \A t \in lost : \/ tres[t] \in {"unknown", "error", Failed}
                  \/ /\ tres[t] = "noteval" /\ stack # << >> /\ ret = None
                     /\ Top.kind = "test" /\ Top.id = t /\ Top.next = 2
                     /\ ~Collected(ObjectOf[t])

\* The result of a definition is that of its criteria.
DefinitionInv ==
  \A d \in Defs : dres[d] # "noteval" => Criteria[d] # None /\ dres[d] = nres[Criteria[d]]

EvalInv == /\ EvalTypeOK /\ ChainInv /\ ProgressInv /\ ReturnInv /\ DoneInv /\ TallyInv
           /\ ReportConsistent /\ TestInv

-----------------------------------------------------------------------------
\* What oval_types.h and the operator tables of the OVAL schema promise, and the code
\* does not keep when a query fails: an error in a test is an error for its criteria.
FailureNotLost == \A d \in Defs : VerdictSound(d)
=============================================================================
