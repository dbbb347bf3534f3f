------------------------------ MODULE SetObject ------------------------------
(***************************************************************************)
(* Collection of objects by one probe (OVAL/probes/probe/worker.c).        *)
(*                                                                         *)
(* A simple object is collected once for every combination of the values   *)
(* of the variables it refers to (probe_varref_iterate_ctx) and the lists  *)
(* are united.  A set object is evaluated by probe_set_eval over the       *)
(* results in the probe's cache; a reference the cache misses goes through *)
(* the library (probe_obj_eval, oval_probe_cmd_obj_eval), which has this   *)
(* same probe evaluate it in another worker while the first one waits, so  *)
(* that the workers form a stack.  The library never asks a second time    *)
(* for an object it has asked for, which is what ends a circular reference.*)
(*                                                                         *)
(* A collected object carries ghost fields: "set", the items a             *)
(* set-theoretic evaluation of the same lists gives, and "truth", the      *)
(* items of the system that match the object; "sound" is false when a      *)
(* collection it rests on failed, "clean" when one repeated an item.       *)
(***************************************************************************)
EXTENDS CollectedObject, ItemList

CONSTANTS Items,        \* item addresses, a set of numbers
          Status,         \* [Items -> item status]
          Reports,        \* [Objects -> lists probe_main may report for one combination]
          Objects,        \* object ids
          Def,            \* [Objects -> definition]: its kind, the numbers of values of
                          \* its variables, or its set
          Sets,           \* the sets of the definitions, those within others too
          FilterStates,   \* state ids used by filters
          StateResult,    \* [FilterStates -> [Items -> result of the state]]
          MaxEvalDepth    \* MAX_EVAL_DEPTH

VARIABLES rcache,   \* probe->rcache: the collected objects
          states,   \* probe->rcache: the states fetched for filters
          asked,    \* the library has a syschar for the object
          stack,    \* the workers and the probe_set_eval calls they are in
          visited   \* ghost: the combinations each object was collected for

vars == <<rcache, states, asked, stack, visited>>

None == [flag |-> "NULL"]

\* A variable without values makes an object "skip".
ASSUME DefAssumption ==
    /\ "nested" \notin Objects
    /\ \A o \in Objects : /\ Def[o].kind \in {"simple", "set", "skip", "foreign"}
                          /\ Def[o].kind = "simple" => Def[o].values \in Seq(Nat \ {0})
                          /\ Def[o].kind = "set" => Def[o].set \in Sets

\* What a probe reports are items with a status.
ASSUME ItemAssumption ==
    /\ Items \subseteq Nat
    /\ Status \in [Items -> {"EXISTS", "DOES_NOT_EXIST", "NOT_COLLECTED", "ERROR"}]
    /\ \A o \in Objects : Def[o].kind = "simple" => Reports[o] \subseteq Seq(Items)

\* A set has one or two members, references to objects or sets
\* (s_subset[2], o_subset[2] and the assertions of probe_set_eval).
ASSUME SetAssumption ==
    \A node \in Sets :
        /\ node.op \in Operations
        /\ Len(node.members) \in 1 .. 2
        /\ \A i \in 1 .. Len(node.members) :
              /\ node.members[i].type = "ref" => node.members[i].obj \in Objects
              /\ node.members[i].type = "set" => node.members[i].set \in Sets

-----------------------------------------------------------------------------
(* Collected objects *)

\* probe_cobj_compute_flag
ComputeFlag(items) ==
    LET st == {Status[items[i]] : i \in DOMAIN items}
    IN  CASE "ERROR" \in st -> "ERROR"
          [] "ERROR" \notin st /\ "NOT_COLLECTED" \in st -> "INCOMPLETE"
          [] "ERROR" \notin st /\ "NOT_COLLECTED" \notin st /\ "EXISTS" \in st -> "COMPLETE"
          [] OTHER -> "DOES_NOT_EXIST"

\* probe_set_combine
Combine(c, d, op) ==
    IF c = None THEN d
    ELSE IF d = None THEN c
    ELSE LET items == Merge(op, c.items, d.items)
         IN  [flag  |-> Emptied(CombineFlags(c.flag, d.flag, op), items = <<>>),
              items |-> items,
              set   |-> SetOperation(op, c.set, d.set),
              truth |-> SetOperation(op, c.truth, d.truth),
              sound |-> c.sound /\ d.sound,
              clean |-> c.clean /\ d.clean]

\* probe_item_filtered, from the result of the state on the item.
ItemFiltered(item, filters) ==
    \E k \in DOMAIN filters :
        LET r == StateResult[filters[k].state][item]
        IN  \/ r = "TRUE" /\ filters[k].action = "exclude"
            \/ r = "FALSE" /\ filters[k].action = "include"

ErrorObject == [flag |-> "ERROR", items |-> <<>>, set |-> {}, truth |-> {}, sound |-> TRUE, clean |-> TRUE]

\* probe_set_apply_filters
ApplyFilters(c, filters) ==
    LET kept == {x \in Items : Status[x] # "DOES_NOT_EXIST" /\ ~ItemFiltered(x, filters)}
        items == Restricted(c.items, kept)
    IN  IF \E i \in DOMAIN c.items : Status[c.items[i]] = "NOT_COLLECTED"
        THEN ErrorObject
        ELSE [c EXCEPT !.flag  = Emptied(c.flag, items = <<>>),
                       !.items = items,
                       !.set   = @ \cap kept,
                       !.truth = @ \cap kept]

-----------------------------------------------------------------------------
(* Workers *)

Top == stack[Len(stack)]
SetTop(frame) == [stack EXCEPT ![Len(stack)] = frame]

First(o) == [k \in DOMAIN Def[o].values |-> 0]
SetFrame(o, node, depth) ==
    [kind |-> "set", obj |-> o, node |-> node, depth |-> depth, subsets |-> <<>>, answer |-> "none"]
Frame(o) ==
    IF Def[o].kind = "set" THEN SetFrame(o, Def[o].set, 0)
    ELSE [kind |-> "simple", obj |-> o, idx |-> First(o), out |-> None]

\* A worker for object o ends: its list is sorted and the result cached; the
\* worker below, if any, is told whether the library saw an error.
Finish(o, cobj, answer, under) ==
    /\ rcache' = [rcache EXCEPT ![o] = [cobj EXCEPT !.items = ListSort(@)]]
    /\ stack' = IF under = <<>> THEN <<>>
                ELSE [under EXCEPT ![Len(under)].answer = answer]

Init ==
    /\ rcache = [o \in Objects |-> None]
    /\ states = {}
    /\ asked = {}
    /\ stack = <<>>
    /\ visited = [o \in Objects |-> <<>>]

\* Faulty variant: an object is requested whenever the cache has no result.
RequestAgain(o) == Def[o].kind \in {"simple", "set"} /\ rcache[o] = None

\* The library forwards a request for o to the probe unless it has a syschar.
Request(o) == Def[o].kind \in {"simple", "set"} /\ o \notin asked

\* oval_probe_query_object called by the evaluation of a test, and the input
\* handler's miss: a worker starts.
Query(o) ==
    /\ stack = <<>>
    /\ Request(o)
    /\ asked' = asked \cup {o}
    /\ stack' = <<Frame(o)>>
    /\ UNCHANGED <<rcache, states, visited>>

\* The library could not give the variables of o a value: the request says
\* skip_eval and the input handler caches an empty result itself.
Skip(o, under) ==
    /\ Def[o].kind = "skip"
    /\ o \notin asked
    /\ asked' = asked \cup {o}
    /\ Finish(o, [ErrorObject EXCEPT !.flag = "DOES_NOT_EXIST"], "ok", under)
    /\ UNCHANGED <<states, visited>>

QuerySkipped(o) == stack = <<>> /\ Skip(o, <<>>)

-----------------------------------------------------------------------------
(* Simple objects *)

\* Faulty variant: the counters before the one that advances keep their value.
AdvanceNoReset(idx, values) ==
    LET k == CHOOSE n \in DOMAIN idx : /\ idx[n] + 1 < values[n]
                                       /\ \A m \in 1 .. n - 1 : idx[m] + 1 >= values[m]
    IN  [n \in DOMAIN idx |-> IF n = k THEN idx[n] + 1 ELSE idx[n]]

\* probe_varref_iterate_ctx: the next combination, the first variable fastest.
Advance(idx, values) ==
    LET k == CHOOSE n \in DOMAIN idx : /\ idx[n] + 1 < values[n]
                                       /\ \A m \in 1 .. n - 1 : idx[m] + 1 >= values[m]
    IN  [n \in DOMAIN idx |-> IF n < k THEN 0 ELSE IF n = k THEN idx[n] + 1 ELSE idx[n]]

Exhausted(idx, values) == \A n \in DOMAIN idx : idx[n] + 1 >= values[n]

Existing(items) == {x \in ToSet(items) : Status[x] = "EXISTS"}

AllExisting == {x \in Items : Status[x] = "EXISTS"}

\* The probe's promise about one run: what it reports exists, and unless it
\* says otherwise, by its flag or by an item's status, nothing is left out.
\* After an error it promises nothing: everything may have been missed.
Honest(items, flag, ret, truth) ==
    /\ Existing(items) \subseteq truth
    /\ flag = "NOT_APPLICABLE" => items = <<>> /\ truth = {}
    /\ (/\ flag = "UNKNOWN" /\ ret = 0
        /\ \A x \in ToSet(items) : Status[x] \in {"EXISTS", "DOES_NOT_EXIST"})
       => truth = Existing(items)
    /\ flag = "ERROR" \/ ret # 0 => truth = AllExisting

\* What one run of probe_main gives the object of frame f, united with what
\* was collected for it so far.
CollectedBy(items, flag, ret, truth) ==
    [flag  |-> IF flag = "UNKNOWN" THEN ComputeFlag(items) ELSE flag,
     items |-> items, set |-> ToSet(items), truth |-> truth, sound |-> ret = 0, clean |-> TRUE]
United(out, cobj) ==
    LET all == Combine(out, cobj, "UNION")
    IN  [all EXCEPT !.clean = IsInjective(all.items)]

\* One round of the loop in probe_worker: probe_main, the flag, the union
\* with what was collected so far, the next combination.  What the probe may
\* miss is everything, the worst case for every claim a flag makes.
CollectOnce(f, out, ret) ==
    /\ visited' = [visited EXCEPT ![f.obj] = Append(@, f.idx)]
    /\ IF ret = 0 /\ ~Exhausted(f.idx, Def[f.obj].values)
       THEN /\ stack' = SetTop([f EXCEPT !.out = out, !.idx = Advance(@, Def[f.obj].values)])
            /\ rcache' = rcache
       ELSE Finish(f.obj, out, IF ret = 0 THEN "ok" ELSE "error", Front(stack))

Collect ==
    /\ stack # <<>>
    /\ Top.kind = "simple"
    /\ \E items \in Reports[Top.obj], flag \in {"UNKNOWN", "INCOMPLETE", "NOT_APPLICABLE", "ERROR"},
          ret \in {0, 1} : \E truth \in {Existing(items), AllExisting} :
        /\ Honest(items, flag, ret, truth)
        /\ CollectOnce(Top, United(Top.out, CollectedBy(items, flag, ret, truth)), ret)
    /\ UNCHANGED <<states, asked>>

-----------------------------------------------------------------------------
(* Set objects: probe_set_eval *)

InSet == stack # <<>> /\ Top.kind = "set"
Member == Top.node.members[Len(Top.subsets) + 1]
AtMember(type) == InSet /\ Len(Top.subsets) < Len(Top.node.members) /\ Member.type = type

\* probe_set_eval returns: a nested set to its parent, an object's set ends
\* the worker.
Return(cobj) ==
    IF Top.obj = "nested"
    THEN /\ stack' = [Front(stack) EXCEPT ![Len(stack) - 1].subsets = Append(@, cobj)]
         /\ rcache' = rcache
    ELSE Finish(Top.obj, cobj, "ok", Front(stack))

\* The operand: filters apply to object references only.
Operand(cobj) == [stack EXCEPT ![Len(stack)].subsets = Append(@, cobj),
                               ![Len(stack)].answer = "none"]

\* The reference is in the cache.
RefHit ==
    /\ AtMember("ref")
    /\ Top.answer # "error"
    /\ rcache[Member.obj] # None
    /\ stack' = Operand(rcache[Member.obj])
    /\ UNCHANGED <<rcache, states, asked, visited>>

\* The reference is not in the cache and the library has it evaluated here.
RefMiss ==
    /\ AtMember("ref")
    /\ Top.answer = "none"
    /\ rcache[Member.obj] = None
    /\ \/ /\ Request(Member.obj)
          /\ asked' = asked \cup {Member.obj}
          /\ stack' = Append(stack, Frame(Member.obj))
          /\ UNCHANGED <<rcache, states, visited>>
       \/ Skip(Member.obj, stack)

\* eval_fail: the evaluation of the reference failed, another probe has its
\* result, or it was requested before and has no result: it is being evaluated.
RefFail ==
    /\ AtMember("ref")
    /\ \/ Top.answer = "error"
       \/ rcache[Member.obj] = None /\ (Def[Member.obj].kind = "foreign" \/ Member.obj \in asked)
    /\ asked' = asked \cup {Member.obj}
    /\ Return(ErrorObject)
    /\ UNCHANGED <<states, visited>>

\* A set in the set.
Nested ==
    /\ AtMember("set")
    /\ stack' = IF Top.depth + 1 > MaxEvalDepth THEN Operand(ErrorObject)
                ELSE Append(stack, SetFrame("nested", Member.set, Top.depth + 1))
    /\ UNCHANGED <<rcache, states, asked, visited>>

\* The states of the filters that the cache misses are fetched in one request:
\* the library sends all of them, or none if it cannot convert one.  They are
\* cached from the last to the first, up to one that is cached already.
Missing == SelectSeq(Top.node.filters, LAMBDA f : f.state \notin states)
Repeated == {i \in DOMAIN Missing :
                \E j \in DOMAIN Missing : j > i /\ Missing[j].state = Missing[i].state}
Fetched == {Missing[j].state : j \in {k \in DOMAIN Missing : \A i \in Repeated : k > i}}
FetchFails(sent) == ~sent \/ Repeated # {}

Evaluate(sent) ==
    /\ InSet
    /\ Len(Top.subsets) = Len(Top.node.members)
    /\ sent \/ Missing # <<>>
    /\ states' = IF sent THEN states \cup Fetched ELSE states
    /\ LET Part(i) == IF i > Len(Top.subsets) THEN None
                      ELSE IF Top.node.members[i].type = "ref"
                           THEN ApplyFilters(Top.subsets[i], Top.node.filters)
                           ELSE Top.subsets[i]
       IN  Return(IF FetchFails(sent) THEN ErrorObject ELSE Combine(Part(1), Part(2), Top.node.op))
    /\ UNCHANGED <<asked, visited>>

Next ==
    \/ \E o \in Objects : Query(o) \/ QuerySkipped(o)
    \/ Collect
    \/ RefHit \/ RefMiss \/ RefFail \/ Nested
    \/ \E sent \in BOOLEAN : Evaluate(sent)

Spec == Init /\ [][Next]_vars

-----------------------------------------------------------------------------
Cached == {o \in Objects : rcache[o] # None}

\* The result of a set object holds the items set theory gives for the cached
\* operands, as long as no operand's list repeats an item: the merges of
\* probe_set_combine are right although they only look at two heads.
SetExact ==
    \A o \in Cached : rcache[o].clean => /\ ToSet(rcache[o].items) = rcache[o].set
                                         /\ IsInjective(rcache[o].items)

\* The flag of a cached object claims nothing false of the system, through
\* unions over variable values, filters and nested sets
\* (probe_cobj_combine_flags, probe_cobj_compute_flag).
FlagsSound ==
    \A o \in Cached : rcache[o].sound /\ rcache[o].clean
                      => Describes(rcache[o].flag, Existing(rcache[o].items), rcache[o].truth)

Combinations(o) ==
    LET values == Def[o].values
    IN  {c \in [DOMAIN values -> UNION {0 .. values[n] - 1 : n \in DOMAIN values}] :
            \A n \in DOMAIN values : c[n] < values[n]}
CollectedFor(o, combinations) == IsInjective(visited[o]) /\ ToSet(visited[o]) = combinations

\* Every combination of variable values is collected exactly once, unless a
\* run failed (the loop of probe_worker and probe_varref_iterate_ctx).
EveryCombination ==
    \A o \in Cached : Def[o].kind = "simple" /\ rcache[o].sound => CollectedFor(o, Combinations(o))

\* No object is evaluated by two workers at once, and none again once cached:
\* circular sets end, and probe_worker_runfn never finds the result it adds
\* in the cache already, where it would abort.
NoReentry ==
    LET owners == {i \in DOMAIN stack : stack[i].obj # "nested"}
    IN  /\ \A i, j \in owners : stack[i].obj = stack[j].obj => i = j
        /\ \A i \in owners : stack[i].obj \notin Cached

\* "complement ... elements in A, but not in B, with the duplicates removed":
\* what the OVAL schema says of every set, with no proviso.
SetOperationExact == \A o \in Cached : ToSet(rcache[o].items) = rcache[o].set

-----------------------------------------------------------------------------
(***************************************************************************)
(* The inductive invariant behind NoReentry and EveryCombination, proved   *)
(* in SetObjectProofs.                                                     *)
(***************************************************************************)
IsSetFrame(f) ==
    /\ f.kind = "set"
    /\ f = [kind |-> "set", obj |-> f.obj, node |-> f.node, depth |-> f.depth,
            subsets |-> f.subsets, answer |-> f.answer]
IsSimpleFrame(f) ==
    /\ f.kind = "simple"
    /\ f = [kind |-> "simple", obj |-> f.obj, idx |-> f.idx, out |-> f.out]

\* Only the innermost worker collects a simple object.
StackInv ==
    /\ stack \in Seq(ToSet(stack))
    /\ \A i \in DOMAIN stack : IF i < Len(stack) THEN IsSetFrame(stack[i])
                               ELSE IsSetFrame(stack[i]) \/ IsSimpleFrame(stack[i])

\* An object under evaluation was asked for and has no result, and one with a
\* result was asked for.
OwnerInv ==
    /\ DOMAIN rcache = Objects /\ Cached \subseteq asked
    /\ \A i \in DOMAIN stack : stack[i].obj # "nested" => stack[i].obj \in asked \ Cached
    /\ \A i, j \in DOMAIN stack : stack[i].obj = stack[j].obj /\ stack[i].obj # "nested" => i = j

\* The order in which probe_varref_iterate_ctx visits combinations: the last
\* variable in which two of them differ decides.
Earlier(c, d) == \E k \in DOMAIN d : /\ c[k] < d[k]
                                     /\ \A n \in DOMAIN d : n > k => c[n] = d[n]
CombinationsBefore(o, d) == {c \in Combinations(o) : Earlier(c, d)}

\* The object being collected was collected for the combinations before the
\* next one.
VisitedInv ==
    /\ DOMAIN visited = Objects
    /\ \A o \in Objects : visited[o] \in Seq(ToSet(visited[o]))
    /\ \A o \in Objects \ asked : visited[o] = <<>>
    /\ \A i \in DOMAIN stack : stack[i].obj \in Objects =>
          /\ stack[i].kind = Def[stack[i].obj].kind
          /\ stack[i].kind = "simple" =>
                /\ stack[i].idx \in Combinations(stack[i].obj)
                /\ CollectedFor(stack[i].obj, CombinationsBefore(stack[i].obj, stack[i].idx))
    /\ EveryCombination

CollectionInv == StackInv /\ OwnerInv /\ VisitedInv

-----------------------------------------------------------------------------
(***************************************************************************)
(* The inductive invariant behind SetExact and FlagsSound: what is known   *)
(* of the contents of cached objects, of the operands probe_set_eval holds *)
(* and of the object a worker is collecting.                               *)
(***************************************************************************)
IsCollected(c) ==
    /\ c = [flag |-> c.flag, items |-> c.items, set |-> c.set, truth |-> c.truth,
            sound |-> c.sound, clean |-> c.clean]
    /\ c.flag \in Flags

\* The merges need sorted operands, and give sorted results.
SortedObject(c) ==
    /\ IsCollected(c)
    /\ c.clean => c.items \in Seq(Nat) /\ Ascending(c.items) /\ ToSet(c.items) = c.set
    /\ c.sound /\ c.clean => Describes(c.flag, Existing(c.items), c.truth)

\* The united lists of a simple object are not sorted yet, and may repeat items.
UnitedObject(c) ==
    /\ IsCollected(c)
    /\ c.items \in Seq(Nat) /\ ToSet(c.items) = c.set
    /\ c.clean => IsInjective(c.items)
    /\ c.sound => Describes(c.flag, Existing(c.items), c.truth)

FrameContent(f) ==
    /\ f.kind = "set" => /\ f.node \in Sets
                         /\ f.subsets \in Seq(ToSet(f.subsets))
                         /\ \A k \in DOMAIN f.subsets : SortedObject(f.subsets[k])
    /\ f.kind = "simple" => /\ f.obj \in Objects /\ Def[f.obj].kind = "simple"
                            /\ f.out = None \/ UnitedObject(f.out)

ContentInv ==
    /\ \A o \in Cached : SortedObject(rcache[o])
    /\ \A i \in DOMAIN stack : FrameContent(stack[i])

=============================================================================
