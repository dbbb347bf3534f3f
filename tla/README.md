# OpenSCAP in TLA+

OpenSCAP evaluates SCAP content: an XCCDF benchmark selects rules, rules refer to
OVAL definitions, a definition is a tree of criteria over tests, a test compares the
items of an object with states, and a *probe* collects the items of an object from the
system.  This directory holds TLA+ models of the parts of that chain that decide what
is reported, the TLC runs that check them on small instances, and TLAPS proofs of what
matters most for every size.

    tlc -config MCICache.cfg MCICache       # any run: PROJECT.json lists module and cfg
    tlapm ICacheProofs.tla                  # any module of proofs

Contents: [Inventory](#inventory) - [Modules](#modules) - [Runs](#runs) -
[Bounds](#bounds) - [Fairness](#fairness) - [Proofs](#proofs) -
[Findings](#findings) - [Not modelled](#not-modelled) - [Plan](#plan)

## Inventory

| component | state | operations | what makes it correct | hard part |
|---|---|---|---|---|
| Item cache (`probes/probe/icache.c`) | ring buffer, mutex, condition variables, tree of cached items, next unique ID | `probe_item_collect`, `probe_icache_add`, `probe_icache_nop`, the worker thread, `probe_icache_free` | every accepted item ends up once, by content, in the object it was collected for; the object is touched by one thread at a time; nobody waits for ever | threads, signals without a waiter, full and wrapped ring, synchronisation by a NOP, tear-down |
| Result logic (`oval_resultTest.c`, `oval_status_counter.c`) | six result counters, four status counters | add a result or status, ask for the result by check, operator or existence | three-valued logic: a verdict only when the open operands cannot change it | zero, one and two operands of six kinds under many operators |
| Definition evaluation (`oval_resultDefinition.c`, `oval_resultCriteriaNode.c`, `oval_resultTest.c`, `oval_probe.c`) | results remembered at definitions, criteria nodes and tests; collected objects | recursive evaluation, collection on demand, verdict of a test | verdicts are sound, results stay and explain each other, evaluation ends | failed and aborted queries, sharing, partial collections, order of evaluation |
| Agent session (`oval_agent.c`, `oval_probe_hint.c`, `oval_vardefMapping.c`, `oval_resultSystem.c`) | values of variables, instances of definitions, tests and objects with their hints | evaluate a rule: bind variables, resolve conflicts, mark, evaluate | a rule gets the result for its own values, earlier results stay for the report | long sequences of rules that rebind shared variables |
| Probe protocol (`oval_probe_ext.c`, `probe/input_handler.c`, `probe/worker.c`, `SEAP/seap-command.c`, `sch_queue.c`) | two queues per probe, commands that wait for an answer, one worker thread per request, result cache | ask for an object, serve a command, answer from the cache, start a worker, wait for and wake up a worker | every reply reaches the request it belongs to, threads are not inside an unlocked tree together, every query ends | commands nested in queries nested in commands, objects that refer to one another, waits without a predicate |
| Object collection (`probe/worker.c`, `probe-api.c`, `sexp-manip.c`) | collected objects with flags, states of filters, the stack of evaluations | collect for every combination of variable values, filter, unite, intersect, complement | a set holds the items set theory gives, a flag claims nothing that was not seen | lists merged as if sorted, flag tables, references through the library, circles |
| Red-black trees (`SEAP/generic/rbt`) | nodes, colours, root | add, delete, get, walk | a balanced search tree with the return codes of a set | restructuring on the way down with a short history |
| XCCDF policy (`XCCDF_POLICY`, `XCCDF/result_scoring.c`) | last selector and resolved selection of each item, refine-rules, rule-results | create, add a selector, evaluate rules, report to callbacks, score | selection as a full resolution gives it, a result and an end for every rule, complex checks decide by logic, scores follow from what counts | selectors added one by one, several results per rule, evaluation stopped half-way |
| Documents (`oval_parser.c`, `XCCDF`, `DS`, `CPE`, `CVE`, `CVSS`, `CVRF`, `SCE`) | trees read from XML | parse, validate, export, split, compose | round trips | sizes, references |
| Utilities, command line, bindings | containers, error queue | - | - | - |

How they interact: `xccdf_policy` calls `oval_agent_eval_rule` for a rule with the
values it exports.  The agent binds them, marks what depended on others, and evaluates
the definition.  A definition calls its criteria, these their tests and the definitions
they extend; a test asks `oval_probe_query_test` for its object, which sends a request
to a probe and waits for the collected object.  A probe is a group of threads in the same
process, reached through two queues that neither lose nor reorder anything.  In it, an
input handler starts a thread per request; the threads hand their items to the one icache
worker, and send the collected object back when they are done.  The worker of a set
object needs other objects: it sends a command to the library, which asks a probe, often
the same one, while the worker waits.  The library has one thread of its own.

PROJECT.json lists every component and every hazard with its source line, and for
each hazard the properties that would show it going wrong.

## Modules

| module | models |
|---|---|
| `ItemCollector` | abstract: what the item cache promises, without queue, lock or signal |
| `ICache` | `icache.c`, with its start-up barrier and tear-down in `probe_main.c`, `input_handler.c` |
| `OvalLogic` | the result and status counters as operators, and the reference logic |
| `Oresults` | the loops that fill the counters; properties of `OvalLogic` |
| `DefinitionEvaluation` | evaluation of definitions, criteria, tests and collected objects |
| `OvalAgent` | variable instances in a session of rules |
| `CollectedObject` | flags of collected objects and how set operations combine them, as operators |
| `ItemList` | lists of items: the merges of `probe_set_combine` and `SEXP_list_sort`, as operators |
| `SetObject` | collection of simple and set objects by one probe; extends `CollectedObject` and `ItemList` |
| `ProbeProtocol` | library, input handlers and workers, the queues and trees between them |
| `RbtSet` | abstract: a set of keys with the return codes of the tree |
| `RedBlackTree` | insertion, deletion, lookup and walk of the red-black tree |
| `XccdfPolicy` | selection, evaluation of rules, complex checks, scores |
| `MC...` | instances of these for TLC |
| `ICacheProofs`, `OvalLogicProofs`, `DefinitionEvaluationProofs`, `ItemListProofs`, `SetObjectProofs`, `ProbeProtocolProofs`, `XccdfPolicyProofs` | theorems |
| `RecursionLemmas` | what proofs about recursive definitions share: least and greatest places, functions given by recursion, rounds that exhaust a finite set |

Definitions named "faulty variant" are not part of any specification.  Each is a
plausible bug of the definition that follows it; put in its place, it makes TLC report
the property PROJECT.json names under "mutants", which shows that the property depends
on the code being right there.

**ICache.**  `queue`, `queue_beg`, `queue_end`, `queue_cnt`, `tree` and `next_ID` are
the fields of `probe_icache_t`; `ids` are the unique IDs stored in the items; `cobj` and
`flag` are the collected objects; `mem` records which items were created and released.
A section under `queue_mutex`, from lock to unlock or to `pthread_cond_wait`, is one
action.  Handling an extracted pair happens without the mutex and is an action of its
own (`HandleNop`, `HandleHit`, `HandleMiss`), so adds and NOPs interleave with it.
`CollectItem`, `CollectFiltered` and `CollectRefused` are the ways through
`probe_item_collect`, `Add` and `WaitNotFull` are `probe_icache_add`, `Nop` and
`NopReturn` are `probe_icache_nop`, which is called from the memory check ("limit") and
at the end of a request ("final").  A signal wakes one waiter if there is one and is
lost otherwise.  `ImplementsCollector` maps the state to `ItemCollector`: pending items
are those queued or in the worker's hand, an object is the sequence of its contents.
Only one thing of the code's schedule is assumed: the probe is closed when no
request is open, since the library waits for each reply.

**OvalLogic, Oresults.**  `ores_add_res`, `ores_get_result_bychk`,
`ores_get_result_byopr`, `eval_check_existence` and the `oval_status_counter`
functions, comparison for comparison.  Beside them stands a reference that does not
look like the code: `Truth` is the two-valued meaning of an operator, and `Kleene` says
true or false exactly if all ways to settle the open operands agree.  `ExistenceSays` is
the existence chart of the OVAL schema in the same way: true or false if all ways to settle
what is in error or not collected agree, and otherwise error before unknown.

**DefinitionEvaluation.**  The C call stack is the variable `stack`, with one frame per
active `oval_result_definition_eval`, `oval_result_criteria_node_eval` or
`oval_result_test_eval`; `ret` is the value just returned.  `dres`, `nres` and `tres` are
the remembered results, in which NOT EVALUATED also means "no result yet", as in the
code.  `syschar` holds the collected objects.  `Query`, `QueryAborted`, `QueryFailed`,
`VariableFailed` and `Incompatible` (a test of another subtype than its object, for which
nothing is collected) are the outcomes of `oval_probe_query_test`, and `live` is false when
results are computed from a file without probes.  `added` counts how often the items of
an object were put into a result test, `lost` remembers tests whose query brought
nothing.  Values are abstract and compared by the constant `Compare`.  The operator of
every criteria is chosen in the initial state.

**OvalAgent.** A result is represented by what it was computed from: pairs of a variable
and its values.  An `Entry` is one result-definition, result-test or collected object with
its `variable_instance` and `variable_instance_hint`.  `EvalRule` is
`oval_agent_eval_rule`: `Resolved` finds the conflict, marks what depends on the first
conflicting variable it meets (`Dependent`, `HintDefinition`), resets the session and
binds the variables; `Hinted` is the walk that marks collected objects, which stops at an
extended definition without criteria; `Definition`, `Test` and `QueryObject` then make new
entries or use the latest.  The order in which a rule's variables are looked at is the
document's and is a choice in the model.

**CollectedObject, ItemList, SetObject.** The three tables of `probe_cobj_combine_flags`
are transcribed; `Describes` is the reference: what a flag claims about the reported items
and the matching items of the system.  In `SetObject` the C stack and the stack of waiting
workers are one variable, `stack`: the library waits for the reply to its last request, so
only the top can move.  `Collect` is one round of the loop over variable combinations;
`RefHit`, `RefMiss`, `RefFail` and `Nested` take the next member of a set, `Evaluate`
fetches its filters and combines.  The library sends all the states asked for or, if it
cannot convert one, none; they are cached from the last to the first, up to one that is
cached already (`Fetched`), which fails the fetch like an answer without states.
`ItemList` has the lists: they keep their order and their blocks, since the merge and the
sort depend on both.  Ghost fields carry the set-theoretic result and the true items
beside every collected object.

**ProbeProtocol.**  What an object needs (references and filter states, in order) is a
constant; everything about who sends what to whom is the code's.  The library's stack of
queries is `lib`.  Because `rbt_wlock` is empty, an operation on a tree has no lock and is
represented by a control state ("add_result", "delete_command", ...): the thread is inside
until its next step, and the properties speak about who is inside together.  Wait and
signal of a synchronous command are separate steps, with the mutex held from `SendCommand`
to `Wait`.

**RedBlackTree.**  One action is one iteration of the loop in `rbt_i32_add` or
`rbt_i32_del`, with the history `h[0..3]` and the direction vector as variables.
`ImplementsSet` maps it to `RbtSet`: the keys reachable from the root change in the step
that returns, and in no other.

**XccdfPolicy.**  `internal` is the last selector of an item, `final` the set of items the
resolved selection holds.  `New` and `AddSelect` are the two ways to change them; a
profile's selectors include those of the profiles it extends, the parent's first, and a
cluster is walked in any order, since the code walks a hash table.  `at` is the place within
`_xccdf_policy_rule_evaluate`, whose exits are `Skip`, `Start`, `Settle`, `Complex`,
`Simple` and `Multi`; each reports through `End`, after which a callback may stop the
evaluation.  An engine may give any answer.  Complex checks are a table `Check` from names
to a check or an operator over other names, so that their evaluation is one recursive function on
the table.  Scores are exact fractions.

## Runs

Passing runs:

* `icache` - 64,550 states.  The worker never leaves its loop (`WorkerAlive`), never
  sleeps on a non-empty queue (`NoLostWakeup`); a thread waits for its NOP exactly while
  the NOP is on its way (`NopNotLost`); after it, nothing of the thread is on the way and
  everything it gave is in its object (`SyncBeforeModify`).  Cached items have distinct
  contents and IDs and no released item is referenced (`CacheCanonical`).  An object that
  was handed over does not change and an incomplete one stays so (`ObjectStable`).  All
  requests finish, tear-down ends (`ProducersFinish`, `CleanupCompletes`), and the whole
  implements the abstract collector (`ImplementsCollector`).  Deadlock is checked.
* `oresults` - all counters with up to five operands.  Operators are exact, checks are
  exact but for the kind of undetermined result of "at least one".  Existence requirements
  give exactly what the schema's charts say of items (`TestExistenceExact`) and of entities
  (`EntityExistenceExact`), in both directions and for all four results.  The cases in which
  the code departs from the charts are named in the properties, with what it gives instead,
  and are findings.
* `definition` - 388,391 states.  A true or false definition would be so however its
  undecided tests turned out (`DefinitionSound`); the results in a report follow from one
  another (`ReportConsistent`) and from the collected objects (`ResultExplained`); a
  verdict on an incomplete object is not overturned by the items that are missing
  (`IncompleteSound`); a test whose object was not collected is neither true nor false,
  also if another test collects the object later (`UncollectedUndecided`); a known result
  is never replaced (`ResultsStable`); evaluation ends (`EvaluationEnds`).  Three of these
  state their limits: `DefinitionSound` excludes definitions with a failed query (see
  `lost_error`); `IncompleteSound` excludes false of "at least one" and "only one", which
  the code takes from the items at hand; `ResultExplained` excludes tests with the check
  "only one": such a test that is NOT EVALUATED is evaluated again and counts its items
  twice (see Findings).
* `agent` - 18,073 states.  In a document in which definitions share nothing that
  depends on a variable, a rule binds all variables or none, and no object that depends on a
  variable comes after an extended definition without criteria, each rule gets the result
  for its own values (`RuleFresh`), instances are distinct (`InstancesDistinct`), and what
  was reported earlier stays (`HistoryKept`).  These conditions are needed: see
  `stale_variable` and the findings after it.
* `set_object` - 977,012 states.  For lists that repeat no item, a cached set holds exactly
  the items of set theory and repeats none (`SetExact`), and a flag claims nothing false of
  the system (`FlagsSound`); every combination of variable values is collected once
  (`EveryCombination`); no object is evaluated by two workers or evaluated again
  (`NoReentry`), which is what ends circular sets.
* `probe_protocol` - 60,599 states.  A message on its way to the library answers its
  innermost query, although nobody compares ids (`ReplyMatches`); no two threads are inside
  the tree of workers or the result cache when one of them writes (`TreesExclusive`); every
  query ends (`Answered`).
* `rbt` - all sequences of insertions and deletions of nine keys.  Between
  operations the tree is balanced (`RedBlack`), lookups and the walk see the same keys, and
  the walk's stack is no deeper than 2 log2(size + 1) (`ReadersAgree`), the law by which its
  48 unchecked slots last for millions of keys; nine keys check the law, not the slots.  The
  whole implements a set (`ImplementsSet`).
* `xccdf_policy` - 70,163 states.  Selections are those of a full resolution
  (`SelectionExact`); results and callbacks match rule by rule (`RulesReported`); complex
  checks pass, fail or stay undecided as their logic says (`ComplexVerdict`).  `ScoreSound`:
  the default score never divides by 0 and is between 0 and 100; it is 0 exactly when nothing
  that bears weight passed, and 100 exactly when all of it that counts did; the absolute score
  is full exactly when every counted rule with a weight passed.  It looks at all results of a
  rule, so the last three are stated for evaluations in which the results of one multi-check
  agree (see Findings).  A group that has weight itself, but
  whose counting rules have none, scores 0 in the code and lowers the average of the group
  around it; the property says so.

Runs that end in a violation, each a finding: `lost_error`, `stale_variable`,
`set_duplicates`, `command_table`.

Deadlock is not checked where the system really stops: after `MaxOperands` operands,
`MaxCalls` evaluations, `MaxRules` rules, `MaxQueries` queries, when every object is
collected, or when a policy has been evaluated.  In `probe_protocol` a deadlock of the
threads would violate `Answered`.

## Bounds

* `icache`: two threads, three items, a ring of two slots, item-count threshold 0.  The
  second item equals the first, the third collides with them under the hash, so hits,
  collisions, refusals, a full queue, both waits for space and wrap-around all occur.
  The theorems cover any number of threads, items and slots.
* `oresults`: five operands.  The code compares its counters with 0, 1 and 2 only, and
  XOR looks at parity; the theorems cover any number.
* `definition`: three definitions, ten criteria nodes, four tests, two objects, three
  items, and two top-level evaluations (`MaxCalls`).  The document has the shapes that
  matter: a test used twice, an object used twice, once by a test of another subtype, nested
  and negated criteria, an extended definition, a definition without criteria.  The root criteria has every
  operator in turn; every subset of an object's items and every flag a probe could
  give are replies.
* `agent`: five definitions, of which one has no criteria and is extended by another; four
  rules in any order (`MaxRules`), of five (by definition, by extension, all definitions, a
  missing one, one without values); two variables with the values {1} and {1, 2}, one a part
  of the other.
* `set_object`: nine items (seven exist, one cannot be collected, one does not exist), two
  variables of two values, and a list of seven members in no order, which has three blocks
  to be merged by the sort; sets nested beyond `MaxEvalDepth`, here 2 instead of 8.
* `probe_protocol`: two probes, six objects with a circle, a reference into the other probe,
  filters of a set and of a simple object, an object that is skipped; three queries
  (`MaxQueries`), so that caches are hit by later queries.
* `rbt`: nine keys, enough for every case of deletion at every height the case needs.
* `xccdf_policy`: three nested groups, the innermost of weight 0, five rules, one of
  weight 0, a cluster that holds a group and a rule in it, three profiles, two added
  selectors (`MaxSelects`), a negated complex check with a nested one, a multi-check with
  two definitions and with none.

No symmetry is used: liveness properties are checked in the runs where it would pay.

## Fairness

* `ICache`: weak fairness for the worker and for each probe thread, and for the
  steps of start-up and release: a thread that can run is scheduled eventually.  Not
  for the arrival of a request (`Spawn`) nor for closing the probe (`Cleanup`), which are
  the library's choice.  A thread collects finitely many items because `Items` is finite;
  a probe that never stops collecting is not the cache's concern.
* `DefinitionEvaluation`: weak fairness for `Step`, the evaluating thread.  It includes
  the end of a query, that is, it assumes that `probe_main` returns: `oval_probe_comm` has no
  timeout, and a probe that never returns hangs the evaluation.  That nothing else does is
  `Answered` for the protocol and `ProducersFinish` for the item cache.  Starting another
  evaluation is not fair.
* `ProbeProtocol`: weak fairness for the library's thread, each input handler and each
  worker: they are threads, blocked only where the model has a guard (an empty queue, a
  mutex, a condition).  Not for `Query`, the evaluation's choice.

## Proofs

`ICacheProofs` proves `TypeCorrect`, `WorkerStaysAlive`, `NoWakeupLost`,
`NopsAreNotLost` and `SyncIsSound` from one inductive invariant, `IInv`, for any
threads, items and queue capacity.  The assumptions are those of `ICache`: a capacity of
at least one, a natural threshold, and `None` different from everything else.

`SyncBeforeModify` is not inductive: that the objects are complete after a NOP follows
from the order of the queue, which it does not mention.  `IInv` adds what is needed:
`RingInv`, the three indices describe one run of slots; `LockInv` and `StartInv`, who
holds the mutex and who has passed the barrier; `WakeInv`, how full the queue is at each
place of the worker's loop - in particular it is empty at "wait" and not empty at
"woken", which is why the worker survives; `PairInv`, the shape of queued pairs;
`NopInv`, every pair of a thread is ahead of its NOP and the NOP is unique; and
`DeliveryInv`, every accepted item is on its way or in the object by content.
`EnqueueRing` and `ExtractRing` turn ring indices into positions of a sequence; after
that, there is one lemma for each group of actions.

`OvalLogicProofs` proves, for any number of operands, that counters stay correct
(`TalliesCorrect`), that operators and checks compute three-valued logic
(`OperatorsAreExact`, `ChecksAreExact`), and that existence requirements give the rows of
the schema's charts, with the exceptions the properties name (`TestExistenceIsExact`,
`EntityExistenceIsExact`).  The lemmas `ByoprExact`, `BychkExact`, `ItemsExact`,
`EntitiesExact` and `EntitiesAmiss` are about the operators alone, `ExistenceChart` turns the reference, which
quantifies over ways to settle what is open, into comparisons of counters; the theorems
apply them to the states the loops reach.

The second half of `ICacheProofs` proves that the cache implements the abstract collector
(`CacheImplementsCollector`), that cached items have distinct contents and IDs
(`CacheIsCanonical`) and that an object handed over does not change (`ObjectsAreStable`).
Beside `IInv` this needs `ItemInv`: which items exist, are cached, referenced or
released, and that equal contents have one cached item.  The refinement is proved step
by step: the initial states map to initial states, an action that accepts or delivers an
item maps to that step of the collector, and every other action to a stutter.

`ProbeProtocolProofs` proves `RepliesMatch` and `TreesAreExclusive` for any probes,
objects and references between them, circles included.  Its invariant
(`ProtocolInvariance`) says who waits for whom: the library's queries, the messages and
the workers form one chain, in which each request, reply or command has one place and
exactly the end of the chain can move.  That is why ids need not be compared and why two
threads are never inside a tree with a writer; the table of commands, which is the
exception, is the finding `command_table`.  The only assumption, `ProtocolAssumption`, is
that objects are finitely many and each has a probe that collects it; nothing is assumed
about references.

`ItemListProofs` is about lists of any length.  `MergeExact`: the merges of
`probe_set_combine`, which only compare two heads, give the sorted list of the union, the
intersection or the complement of sorted lists that repeat no item (`MergeUnion`: the union
also holds all items when the lists are neither).  `RestrictedExact`: filtering keeps a list
sorted.  `ListSortSorts`: `SEXP_list_sort` sorts a list that repeats no item.  Its invariant
after place p: the list is a permutation of the original (`Shuffled`), the places up to p
hold the least items in order (`PrefixSorted`), and every block is sorted behind p
(`BlocksSorted`).  The least item behind p is then the head of a block; the binary search of
`oscap_bfind_i` finds the place for the item it displaces (`BfindPlace`), and the blocks stay
sorted.  Equal items are what it needs to exclude: `oscap_bfind_i` saves no place for a key
it finds, and the run `set_duplicates` shows what follows.

`SetObjectProofs` proves `NoObjectTwice`, `CombinationsExact`, `SetsAreExact` and
`FlagsAreSound` for any set objects, however nested or circular, any values of variables
(at least one per variable), any items and filters.  The invariant `CollectionInv` ties
the stack of evaluations to the cache: an object on the stack was asked for, is on it once
and is not cached, what is cached was asked for, and the loop over combinations has
collected exactly the combinations before the one it is at.  `ContentInv` is about what is
collected: a cached object and an operand held by `probe_set_eval` have sorted lists of
exactly the right items and a flag that claims nothing false, unless marked otherwise by
the ghost fields; the object being collected has the right items in any order.
`SetsAreExact` needs this of the operands on the stack as much as of the cache, since a
nested set is never cached or sorted. `ItemAssumption` says that a probe reports items
with one of the four statuses, and `SetAssumption` that a set has one or two members, as
the arrays and assertions of `probe_set_eval` have it.  What a run of a probe promises is
`Honest`, in the model.

Its first part is about flags alone, for any sets of items:
`CombineSound` (from `UnionSound`, `IntersectionSound`, `ComplementSound` and
`EmptiedSound`) says that a combination of two objects whose flags claim nothing false has
such a flag, for all 108 combinations of flags and operation; `FilterSound` says the same
of filtering.  `FlagsAreSound` carries them through the lists, the order and the cache.

`DefinitionEvaluationProofs` proves all safety properties of the evaluation:
`EvaluationTypes`, `ReportsAreConsistent`, `ResultsAreStable`, `ResultsAreExplained`,
`IncompleteVerdictsStand`, `UncollectedTestsUndecided` and `DefinitionsAreSound`, for
every document, operator, system and order of evaluations.  `DocumentAssumption` says that
criteria are trees, as the parser builds them; definitions may extend each other in
circles.  `SystemAssumption` says that an object has finitely many items.  The invariant
`EvalInv` is about the call stack. `ChainInv`: each frame was called by the one below.
`ProgressInv`: what is under evaluation has no result.  `ReturnInv`: what just returned is
not under evaluation elsewhere.  `DoneInv` and `TallyInv`: a criteria has counted the
results its subnodes have now.  The last is true of the innermost evaluation of a criteria
only, since a definition that extends itself has several on the stack, and that is enough:
an evaluation that ends is the only one of its kind (`OnceKnown`, `OnceReturned`,
`OnceCounted`), because another one further down would have called something that is known
not to be under evaluation.  So a result is recorded once, and only after all it is made
of.  `TestInv` ties a test's result to the collected object, which no later query
replaces.  `UncollectedTestsUndecided` needs `LostInv` beside it: a test that lost its
query is evaluated at once, with no collected object or an empty one of flag UNKNOWN, and
the result of that is neither true, nor false, nor open to be evaluated again.
`CopiesDoNotCount` shows that evaluating a test again does not change what the checks
other than "only one" say; the attempt to prove it for all of them showed that exception.

`DefinitionsAreSound` has the hypothesis `Acyclic` that `DefinitionSound` is about:
definitions do not extend each other in circles, or the meaning of a definition, a recursion
over the document, would not exist.  The proof needs no induction rule: `EvalInv` already
says that each remembered result is the operator's result of what lies below.  `Acyclic` says
that every set of nodes has one without anything below it in the set.  Among the nodes whose
verdict their meaning does not allow that one would be made of nodes that are right, and
`ByoprExact` of `OvalLogicProofs` contradicts it.

`XccdfPolicyProofs` proves all properties of the policy from one invariant
(`PolicyInvariance`): `RulesAreReported`, `SelectionsAreExact`, `VerdictsFollowTheTree`,
`ScoresAreSound` and `ResultTypes`, for every benchmark, profile and sequence of added
selectors.  The assumptions are about the constants: items form a finite tree
(`TreeAssumption`) whose walk meets every rule once (`OrderAssumption`), clusters name
items (`ClusterAssumption`), and complex checks are finite trees (`CheckAssumption`).
`SelectionsAreExact` compares what one added selector changes with a full resolution: both
are recursions along the path to the root, and the topmost item at which they differ would
be one where they agree. `VerdictsFollowTheTree` is the same argument on complex checks,
from the leaves up.  `ScoresAreSound` assumes of the weights that they are natural
numbers, 0 included (`WeightAssumption`).  Along the weighted sum over the content of a
group it carries that the divisor is positive, that the score is between 0 and 100, that
it is 0 exactly if nothing that bears weight below the group passed, and 100 exactly if
all of it did and every part with weight has some; without weight the sum is 0 and is not
divided.

`RecursionLemmas` holds the three arguments by which recursion is reasoned about without an
induction rule that takes an operator.  `LeastNatural` and `GreatestPlace` give a least or
greatest counterexample in a set of numbers.  `NatRecursion` says that a function defined
from its value at the predecessor satisfies its equation.  `FamilyExhausts` says that a
growing family of subsets of a finite set, strict as long as it is not everything, becomes
everything.

Only model-checked, and why:

* liveness (`ProducersFinish`, `CleanupCompletes`, `EvaluationEnds`, `Answered`), which is
  out of the prover's reach;
* `RedBlackTree` (`RedBlack`, `ReadersAgree`, `ImplementsSet`) and
  `OvalAgent` (`RuleFresh`, `InstancesDistinct`, `HistoryKept`), whose definitions recur
  over trees and documents with RECURSIVE operators, which the prover does not accept.

## Findings

PROJECT.json quotes the line each of these disagrees with.

Shown by a run:

1. `lost_error`: the -1 of a failed query is no result, is not counted, and a
   definition may be true without one of its tests.
2. `stale_variable`: of several variables a rule changes, one is looked at; definitions
   of the others report old results.
3. `set_duplicates`: the lists of variable combinations are merged before they are sorted;
   an item is repeated, and a set over that object may keep an item it should not.
4. `command_table`: the input handler wakes a worker up and then deletes its command from an
   unlocked tree to which the worker may be adding.

From the code, read while modelling; the models have the behaviour, and where a property
would fail because of it, the property says so, but no run is spent on it:

5. The wait of `probe_icache_nop` has no predicate; a spurious wake-up, which `ICache` does
   not have, would let a thread touch its object while the worker does.  The worker's own
   wait would end it, with the mutex held.  `WorkerAlive` and `SyncBeforeModify` therefore
   hold without spurious wake-ups only.
6. An item refused by the memory check is not released.
7. Existence of items: "all_exist" is true of an existing item beside a missing one, since
   items that do not exist, or were not collected, are not counted; "none_exist" is an error
   where an existing item makes it false (`TestExistenceExact`).
8. Existence of entities: a branch of `oval_status_counter_get_result` can never be taken,
   and when no entity exists "at_least_one_exists" and "only_one_exists" are unknown and not
   false; "only_one_exists" is false when one entity was not collected and may exist
   (`EntityExistenceExact`).
9. Items that do not exist count as false against the check of a test; the schema says that
   they are ignored.  The check "at least one" answers two rows of its table, both
   undetermined, with another kind of result.
10. The existence check is an operand of a state's operator, so OR holds of any item with
    an existing entity.
11. A test that is NOT EVALUATED is evaluated again at each reference, and its items count
    twice.
12. The walk that marks collected objects stops at an extended definition without criteria,
    and the objects behind it are used again for other values (`Hinted`).  Local variables
    hide the external ones they are computed from; numbers of instances are not common to
    definitions that share a test or an object.
13. A failed run of a probe is cached and later answered as a success; under
    PROBE_OFFLINE_CHROOT the worker of a set never leaves the chroot.
14. XCCDF: a score looks at the first result of a multi-check rule only, so that PASS and FAIL
    score in full; the weight of a refine-rule changes no score; exchanged rows in the result
    tables; a refine-rule without a role erases the rule's role; the documented result of
    "unchecked"; a check without content in a complex check.

## Not modelled

Parsing, validation and export of XML, data streams, CVE, CVSS, CVRF and SCE: input and
output without protocol, and by far the most lines of the repository.  The probes
themselves: their behaviour is the operating system's.  Comparison of values and functions
of local variables: pure functions of strings, a constant relation here.  Remediation,
which runs scripts.  Within the modelled parts: failing `malloc` and `pthread` calls and
spurious wake-ups; masks, messages and record entities; the reporting callbacks of
`oval_agent_eval_system`; reset and abort of a probe session; the name cache; tailoring and
value bindings of a policy.

## Plan

1. Proofs: `HistoryKept` of `OvalAgent`, once its recursion over documents is written as
   functions.
2. Resolution of a benchmark (`resolve.c`, `tsort.c`) and remediation
   (`xccdf_policy_remediate.c`), which changes results after the evaluation.
3. Composition of `XccdfPolicy` with `OvalAgent`, and reset of a probe session.
