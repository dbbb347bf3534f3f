------------------------------- MODULE ICache -------------------------------
(***************************************************************************)
(* The item cache of an OVAL probe (src/OVAL/probes/probe/icache.c): a     *)
(* ring buffer between the probe threads, which collect items, and one     *)
(* icache worker, which gives every item a unique ID, replaces duplicates  *)
(* by the item already cached, and appends the result to the collected     *)
(* object the item belongs to.  A probe thread that wants to touch its     *)
(* collected object first synchronises with the worker by queueing a NOP   *)
(* that carries a condition variable on its own stack.                     *)
(*                                                                         *)
(* A section of code that runs under queue_mutex from lock to unlock (or   *)
(* to pthread_cond_wait) is one action guarded by mutex = None.  The       *)
(* variable mutex records only ownership that outlasts a step: the worker  *)
(* holds it across the start-up barrier and, if it ever returns from its   *)
(* loop, for ever.  Failing pthread calls are not modelled.                *)
(***************************************************************************)
EXTENDS Integers, Sequences

CONSTANTS Producers,     \* probe worker threads; each fills one collected object
          Items,         \* the SEXP_t items the probes create (by address)
          Content(_),    \* what SEXP_deepcmp compares of an item
          ID(_),         \* SEXP_ID_v: the hash the tree is keyed with
          Keys,          \* the values of ID
          QueueMax,      \* PROBE_IQUEUE_CAPACITY
          MemThreshold,  \* PROBE_RESULT_MEMCHECK_CTRESHOLD
          None           \* NULL

ASSUME CapacityAssumption == QueueMax \in Nat \ {0}
ASSUME ThresholdAssumption == MemThreshold \in Nat
ASSUME NoneAssumption == /\ None \notin Producers /\ None \notin Items
                         /\ None # "worker"
\* Equal contents hash to equal keys; different contents may collide.
ASSUME HashAssumption ==
          /\ \A i \in Items : ID(i) \in Keys
          /\ \A i, j \in Items : Content(i) = Content(j) => ID(i) = ID(j)

VARIABLES mutex,      \* "worker" while the worker keeps queue_mutex across steps
          queue, queue_beg, queue_end, queue_cnt,
          wpc, hand,  \* the icache worker: program counter, extracted pair
          tree,       \* tree[k]: collision chain of the items with hash k
          ids,        \* ids[i]: the unique ID given to item i, -1 before
          next_ID,
          handler,    \* the input handler thread and the probe's main thread
          pc, arg,    \* probe threads: program counter, item being collected
          cobj, flag, \* collected objects: item list and collection flag
          mem,        \* mem[i]: "fresh" (not yet created), "live" or "freed"
          given       \* history: items of p accepted into the queue

ring == <<queue, queue_beg, queue_end, queue_cnt>>
worker == <<wpc, hand, tree, ids, next_ID>>
vars == <<mutex, ring, worker, handler, pc, arg, cobj, flag, mem, given>>

Pairs == [cobj : Producers \cup {None},
          item : Items \cup {None},
          cond : Producers \cup {None}]
NoPair == [cobj |-> None, item |-> None, cond |-> None]
ItemPair(p, i) == [cobj |-> p, item |-> i, cond |-> None]
NopPair(p) == [cobj |-> None, item |-> None, cond |-> p]

WorkerStates == {"start", "barrier", "passed", "wait", "woken", "handle", "relock",
                 "died", "exited", "freed"}
ProducerStates == {"idle", "collect", "add", "addfull",
                   "limit", "limitfull", "limitwait", "limitwoken", "mark",
                   "final", "finalfull", "finalwait", "finalwoken", "compute", "done"}
HandlerStates == {"start", "barrier", "running", "stopped"}

\* The one type invariant: every variable, the ring indices included, stays in range.
TypeOK ==
  /\ mutex \in {None, "worker"}
  /\ queue \in [0..QueueMax-1 -> Pairs]
  /\ queue_beg \in 0..QueueMax-1
  /\ queue_end \in 0..QueueMax-1
  /\ queue_cnt \in 0..QueueMax
  /\ wpc \in WorkerStates
  /\ hand \in Pairs
  /\ tree \in [Keys -> Seq(Items)]
  /\ ids \in [Items -> Nat \cup {-1}]
  /\ next_ID \in Nat
  /\ handler \in HandlerStates
  /\ pc \in [Producers -> ProducerStates]
  /\ arg \in [Producers -> Items \cup {None}]
  /\ cobj \in [Producers -> Seq(Items)]
  /\ flag \in [Producers -> {"unknown", "incomplete", "computed"}]
  /\ mem \in [Items -> {"fresh", "live", "freed"}]
  /\ given \in [Producers -> SUBSET Items]

Init ==
  /\ mutex = None
  /\ queue = [k \in 0..QueueMax-1 |-> NoPair]
  /\ queue_beg = 0 /\ queue_end = 0 /\ queue_cnt = 0
  /\ wpc = "start" /\ hand = NoPair
  /\ tree = [k \in Keys |-> << >>]
  /\ ids = [i \in Items |-> -1] /\ next_ID = 0
  /\ handler = "start"
  /\ pc = [p \in Producers |-> "idle"]
  /\ arg = [p \in Producers |-> None]
  /\ cobj = [p \in Producers |-> << >>]
  /\ flag = [p \in Producers |-> "unknown"]
  /\ mem = [i \in Items |-> "fresh"]
  /\ given = [p \in Producers |-> {}]

-----------------------------------------------------------------------------
(***************************************************************************)
(* Start-up.  The worker takes queue_mutex before the barrier and gives it *)
(* up only inside pthread_cond_wait, so that no probe thread can signal    *)
(* notempty before the worker listens.                                     *)
(***************************************************************************)
\* Faulty variant: the worker does not hold the mutex across the barrier.
WorkerStartUnlocked == /\ wpc = "start"
                       /\ wpc' = "barrier"
                       /\ UNCHANGED <<mutex, ring, hand, tree, ids, next_ID, handler, pc,
                                      arg, cobj, flag, mem, given>>

WorkerStart == /\ wpc = "start" /\ mutex = None
               /\ wpc' = "barrier" /\ mutex' = "worker"
               /\ UNCHANGED <<ring, hand, tree, ids, next_ID, handler, pc, arg, cobj,
                              flag, mem, given>>

HandlerStart == /\ handler = "start"
                /\ handler' = "barrier"
                /\ UNCHANGED <<mutex, ring, worker, pc, arg, cobj, flag, mem, given>>

\* th_barrier opens when both of its threads have arrived.
BarrierOpen == /\ wpc = "barrier" /\ handler = "barrier"
               /\ wpc' = "passed" /\ handler' = "running"
               /\ UNCHANGED <<mutex, ring, hand, tree, ids, next_ID, pc, arg, cobj,
                              flag, mem, given>>

WorkerWait == /\ wpc = "passed"
              /\ wpc' = "wait" /\ mutex' = None
              /\ UNCHANGED <<ring, hand, tree, ids, next_ID, handler, pc, arg, cobj,
                             flag, mem, given>>

\* The input handler starts a worker thread for a request.
Spawn(p) == /\ handler = "running"
            /\ pc[p] = "idle"
            /\ pc' = [pc EXCEPT ![p] = "collect"]
            /\ UNCHANGED <<mutex, ring, worker, handler, arg, cobj, flag, mem, given>>

-----------------------------------------------------------------------------
(***************************************************************************)
(* Probe threads: probe_item_collect, probe_icache_add, probe_icache_nop.  *)
(***************************************************************************)
\* probe_cobj_memcheck is asked only above the item-count threshold; whether the
\* machine is short of memory then is not the program's to decide.  The item count is
\* read without any lock.
OverThreshold(p) == Len(cobj[p]) > MemThreshold

\* Not refused and not filtered: the item goes to probe_icache_add.
CollectItem(p, i) ==
  /\ pc[p] = "collect"
  /\ mem[i] = "fresh"
  /\ pc' = [pc EXCEPT ![p] = "add"]
  /\ arg' = [arg EXCEPT ![p] = i]
  /\ mem' = [mem EXCEPT ![i] = "live"]
  /\ UNCHANGED <<mutex, ring, worker, handler, cobj, flag, given>>

\* Filtered out (return code 1): the item is released.
CollectFiltered(p, i) ==
  /\ pc[p] = "collect"
  /\ mem[i] = "fresh"
  /\ mem' = [mem EXCEPT ![i] = "freed"]
  /\ UNCHANGED <<mutex, ring, worker, handler, pc, arg, cobj, flag, given>>

\* Refused by the memory check (return code 2).  Only the first refusal synchronises
\* and marks the object; a later one returns at once.
CollectRefused(p, i) ==
  /\ pc[p] = "collect"
  /\ mem[i] = "fresh"
  /\ OverThreshold(p)
  /\ mem' = [mem EXCEPT ![i] = "live"]
  /\ IF flag[p] = "incomplete"
     THEN UNCHANGED <<pc, arg>>
     ELSE /\ pc' = [pc EXCEPT ![p] = "limit"]
          /\ arg' = [arg EXCEPT ![p] = i]
  /\ UNCHANGED <<mutex, ring, worker, handler, cobj, flag, given>>

\* Faulty variant: the object is closed without the final NOP.
ProbeMainReturnsUnsynced(p) ==
  /\ pc[p] = "collect"
  /\ pc' = [pc EXCEPT ![p] = "compute"]
  /\ UNCHANGED <<mutex, ring, worker, handler, arg, cobj, flag, mem, given>>

\* probe_main returned; probe_worker synchronises before it closes the object.
ProbeMainReturns(p) ==
  /\ pc[p] = "collect"
  /\ pc' = [pc EXCEPT ![p] = "final"]
  /\ UNCHANGED <<mutex, ring, worker, handler, arg, cobj, flag, mem, given>>

\* Faulty variant: the index wraps one slot too late.
WrapLate(n) == IF n = QueueMax + 1 THEN 0 ELSE n

Wrap(n) == IF n = QueueMax THEN 0 ELSE n

\* Faulty variants: queue_end is not advanced; a full queue is overwritten.
EnqueueStuck(pair) ==
  /\ queue_cnt < QueueMax
  /\ queue' = [queue EXCEPT ![queue_end] = pair]
  /\ queue_cnt' = queue_cnt + 1
  /\ UNCHANGED <<queue_beg, queue_end>>
EnqueueOverfull(pair) ==
  /\ queue_cnt <= QueueMax
  /\ queue' = [queue EXCEPT ![queue_end] = pair]
  /\ queue_cnt' = queue_cnt + 1
  /\ queue_end' = Wrap(queue_end + 1)
  /\ UNCHANGED queue_beg

\* The part of __probe_icache_add_nolock that stores a pair.
Enqueue(pair) ==
  /\ queue_cnt < QueueMax
  /\ queue' = [queue EXCEPT ![queue_end] = pair]
  /\ queue_cnt' = queue_cnt + 1
  /\ queue_end' = Wrap(queue_end + 1)
  /\ UNCHANGED queue_beg

\* pthread_cond_signal(&cache->queue_notempty): the worker is its only waiter.
SignalNotEmpty == wpc' = IF wpc = "wait" THEN "woken" ELSE wpc

Add(p) ==
  /\ pc[p] = "add" /\ mutex = None
  /\ Enqueue(ItemPair(p, arg[p]))
  /\ SignalNotEmpty
  /\ pc' = [pc EXCEPT ![p] = "collect"]
  /\ arg' = [arg EXCEPT ![p] = None]
  /\ given' = [given EXCEPT ![p] = @ \cup {arg[p]}]
  /\ UNCHANGED <<mutex, hand, tree, ids, next_ID, handler, cobj, flag, mem>>

\* Where a NOP or an add stands: about to test the queue, waiting for notfull, waiting
\* for the NOP's own condition, signalled.
TestStates == {"add", "limit", "final"}
NopStates == {"limit", "final"}
NotFullStates == {"addfull", "limitfull", "finalfull"}
NopWaitStates == {"limitwait", "finalwait"}
NopWokenStates == {"limitwoken", "finalwoken"}

FullState(s) == IF s = "add" THEN "addfull"
                ELSE IF s = "limit" THEN "limitfull" ELSE "finalfull"
RetryState(s) == IF s = "addfull" THEN "add"
                 ELSE IF s = "limitfull" THEN "limit" ELSE "final"
NopWaitState(s) == IF s = "limit" THEN "limitwait" ELSE "finalwait"
NopWokenState(s) == IF s = "limitwait" THEN "limitwoken" ELSE "finalwoken"
SyncedState(s) == IF s = "limitwoken" THEN "mark" ELSE "compute"

\* The queue is full: wait for notfull; a wake-up goes back to the test (retry:).
WaitNotFull(p) ==
  /\ pc[p] \in TestStates /\ mutex = None
  /\ queue_cnt = QueueMax
  /\ pc' = [pc EXCEPT ![p] = FullState(@)]
  /\ UNCHANGED <<mutex, ring, worker, handler, arg, cobj, flag, mem, given>>

\* Faulty variant: the NOP is queued but not waited for.
NopNoWait(p) ==
  /\ pc[p] \in NopStates /\ mutex = None
  /\ Enqueue(NopPair(p))
  /\ SignalNotEmpty
  /\ pc' = [pc EXCEPT ![p] = IF @ = "limit" THEN "limitwoken" ELSE "finalwoken"]
  /\ UNCHANGED <<mutex, hand, tree, ids, next_ID, handler, arg, cobj, flag, mem, given>>

\* probe_icache_nop up to its pthread_cond_wait; the mutex is held from the enqueue
\* to the wait.
Nop(p) ==
  /\ pc[p] \in NopStates /\ mutex = None
  /\ Enqueue(NopPair(p))
  /\ SignalNotEmpty
  /\ pc' = [pc EXCEPT ![p] = NopWaitState(@)]
  /\ UNCHANGED <<mutex, hand, tree, ids, next_ID, handler, arg, cobj, flag, mem, given>>

\* The wait is over: the mutex is taken and released again, the NOP returns.
NopReturn(p) ==
  /\ pc[p] \in NopWokenStates /\ mutex = None
  /\ pc' = [pc EXCEPT ![p] = SyncedState(@)]
  /\ UNCHANGED <<mutex, ring, worker, handler, arg, cobj, flag, mem, given>>

\* The message and the INCOMPLETE flag, after the sync of probe_item_collect, which then
\* returns 2.
MarkIncomplete(p) ==
  /\ pc[p] = "mark"
  /\ flag' = [flag EXCEPT ![p] = "incomplete"]
  /\ pc' = [pc EXCEPT ![p] = "collect"]
  /\ arg' = [arg EXCEPT ![p] = None]
  /\ UNCHANGED <<mutex, ring, worker, handler, cobj, mem, given>>

\* probe_cobj_compute_flag, which keeps a flag that is already set, and the hand-over of
\* the object to the result cache and to the reply.
Close(p) ==
  /\ pc[p] = "compute"
  /\ flag' = [flag EXCEPT ![p] = IF @ = "unknown" THEN "computed" ELSE @]
  /\ pc' = [pc EXCEPT ![p] = "done"]
  /\ UNCHANGED <<mutex, ring, worker, handler, arg, cobj, mem, given>>

-----------------------------------------------------------------------------
(***************************************************************************)
(* The icache worker.                                                      *)
(***************************************************************************)
\* pthread_cond_signal(&cache->queue_notfull) wakes one waiter, if there is one.
NotFullWaiters == {p \in Producers : pc[p] \in NotFullStates}

\* Faulty variant: nobody is told that a slot became free.
SignalNotFullForgotten == UNCHANGED pc

SignalNotFull ==
  IF NotFullWaiters = {}
  THEN UNCHANGED pc
  ELSE \E p \in NotFullWaiters : pc' = [pc EXCEPT ![p] = RetryState(@)]

\* The consistency test the worker makes after it moved queue_beg.
RingBroken(cnt, beg, end) == IF cnt = 0 THEN end # beg ELSE end = beg

\* With queue_mutex: extract the first pair.  A worker that wakes up to an empty queue,
\* or finds the ring inconsistent, returns with the mutex locked.
Extract ==
  /\ wpc \in {"woken", "relock"} /\ mutex = None
  /\ queue_cnt > 0
  /\ hand' = queue[queue_beg]
  /\ queue_cnt' = queue_cnt - 1
  /\ queue_beg' = Wrap(queue_beg + 1)
  /\ IF RingBroken(queue_cnt', queue_beg', queue_end)
     THEN wpc' = "died" /\ mutex' = "worker" /\ UNCHANGED pc
     ELSE wpc' = "handle" /\ UNCHANGED mutex /\ SignalNotFull
  /\ UNCHANGED <<queue, queue_end, tree, ids, next_ID, handler, arg, cobj, flag, mem,
                 given>>

\* With queue_mutex and an empty queue: leave the inner loop and wait again, or, when the
\* wait just returned, give up with the mutex locked.
FoundEmpty ==
  /\ wpc \in {"woken", "relock"} /\ mutex = None
  /\ queue_cnt = 0
  /\ IF wpc = "woken"
     THEN wpc' = "died" /\ mutex' = "worker"
     ELSE wpc' = "wait" /\ UNCHANGED mutex
  /\ UNCHANGED <<ring, hand, tree, ids, next_ID, handler, pc, arg, cobj, flag, mem, given>>

\* Without the mutex: a NOP only signals the condition of the thread that queued it.
HandleNop ==
  /\ wpc = "handle" /\ hand.cobj = None
  /\ pc' = [pc EXCEPT ![hand.cond] =
              IF @ \in NopWaitStates THEN NopWokenState(@) ELSE @]
  /\ wpc' = "relock"
  /\ UNCHANGED <<mutex, ring, hand, tree, ids, next_ID, handler, arg, cobj, flag, mem,
                 given>>

\* Faulty variant: only the head of the chain is compared.
FindHead(chain, i) == IF chain # << >> /\ Content(chain[1]) = Content(i) THEN 1 ELSE 0

\* The place in a collision chain of an item with the same content, 0 if there is none.
\* (The loop stops at the first one; by CacheCanonical there is no second.)
Find(chain, i) ==
  IF \E k \in 1..Len(chain) : Content(chain[k]) = Content(i)
  THEN CHOOSE k \in 1..Len(chain) : Content(chain[k]) = Content(i)
  ELSE 0

\* Faulty variant: a duplicate is released and then forgotten.
HandleHitDropped ==
  /\ wpc = "handle" /\ hand.cobj # None
  /\ Find(tree[ID(hand.item)], hand.item) # 0
  /\ mem' = [mem EXCEPT ![hand.item] = "freed"]
  /\ wpc' = "relock"
  /\ UNCHANGED <<mutex, ring, hand, tree, ids, next_ID, handler, pc, arg, cobj, flag,
                 given>>

\* Cache hit: the new item is released, the cached one is added in its stead.
HandleHit ==
  /\ wpc = "handle" /\ hand.cobj # None
  /\ LET chain == tree[ID(hand.item)]
         k == Find(chain, hand.item)
     IN /\ k # 0
        /\ cobj' = [cobj EXCEPT ![hand.cobj] = Append(@, chain[k])]
  /\ mem' = [mem EXCEPT ![hand.item] = "freed"]
  /\ wpc' = "relock"
  /\ UNCHANGED <<mutex, ring, hand, tree, ids, next_ID, handler, pc, arg, flag, given>>

\* Cache miss: the item joins the chain (icache_lookup) or starts one
\* (icache_add_to_tree) and gets the next unique ID.
HandleMiss ==
  /\ wpc = "handle" /\ hand.cobj # None
  /\ LET i == hand.item IN
        /\ Find(tree[ID(i)], i) = 0
        /\ tree' = [tree EXCEPT ![ID(i)] = Append(@, i)]
        /\ ids' = [ids EXCEPT ![i] = next_ID]
        /\ next_ID' = next_ID + 1
        /\ cobj' = [cobj EXCEPT ![hand.cobj] = Append(@, i)]
  /\ wpc' = "relock"
  /\ UNCHANGED <<mutex, ring, hand, handler, pc, arg, flag, mem, given>>

-----------------------------------------------------------------------------
(***************************************************************************)
(* Tear-down: probe_common_main_cleanup ends the input handler, then       *)
(* probe_icache_free cancels and joins the worker.  The library closes a   *)
(* probe only when it has the replies to its requests, hence the guard.    *)
(***************************************************************************)
Cleanup ==
  /\ handler = "running"
  /\ \A p \in Producers : pc[p] \in {"idle", "done"}
  /\ handler' = "stopped"
  /\ UNCHANGED <<mutex, ring, worker, pc, arg, cobj, flag, mem, given>>

\* Faulty variant: the cancellation is noticed only after a wake-up.
WorkerCancelledLate ==
  /\ handler = "stopped"
  /\ wpc = "woken" /\ mutex = None
  /\ wpc' = "exited" /\ mutex' = "worker"
  /\ UNCHANGED <<ring, hand, tree, ids, next_ID, handler, pc, arg, cobj, flag, mem, given>>

\* pthread_cond_wait is the worker's cancellation point; it ends owning the mutex.
WorkerCancelled ==
  /\ handler = "stopped"
  /\ wpc = "wait" /\ mutex = None
  /\ wpc' = "exited" /\ mutex' = "worker"
  /\ UNCHANGED <<ring, hand, tree, ids, next_ID, handler, pc, arg, cobj, flag, mem, given>>

\* The tree gives up its references; the collected objects keep theirs.
FreeCache ==
  /\ handler = "stopped" /\ wpc \in {"exited", "died"}
  /\ wpc' = "freed"
  /\ tree' = [k \in Keys |-> << >>]
  /\ UNCHANGED <<mutex, ring, hand, ids, next_ID, handler, pc, arg, cobj, flag, mem, given>>

Terminated == wpc = "freed" /\ UNCHANGED vars

-----------------------------------------------------------------------------
Worker == \/ WorkerStart \/ WorkerWait
          \/ Extract \/ FoundEmpty \/ HandleNop \/ HandleHit \/ HandleMiss
          \/ WorkerCancelled

Producer(p) == \/ \E i \in Items : \/ CollectItem(p, i)
                                   \/ CollectFiltered(p, i)
                                   \/ CollectRefused(p, i)
               \/ ProbeMainReturns(p)
               \/ Add(p) \/ WaitNotFull(p) \/ Nop(p) \/ NopReturn(p)
               \/ MarkIncomplete(p) \/ Close(p)

Main == HandlerStart \/ BarrierOpen \/ Cleanup \/ FreeCache

Next == Worker \/ Main \/ (\E p \in Producers : Spawn(p) \/ Producer(p)) \/ Terminated

Spec == Init /\ [][Next]_vars

\* Every thread is scheduled again and again; whether a request arrives (Spawn) and when
\* the library closes the probe (Cleanup) is up to the environment.
Fairness == /\ WF_vars(Worker)
            /\ WF_vars(HandlerStart) /\ WF_vars(BarrierOpen) /\ WF_vars(FreeCache)
            /\ \A p \in Producers : WF_vars(Producer(p))

FairSpec == Spec /\ Fairness

-----------------------------------------------------------------------------
(***************************************************************************)
(* Properties.                                                             *)
(***************************************************************************)
\* The ring slot of the k-th pair of the queue, counted from queue_beg.
Slot(k) == IF queue_beg + k < QueueMax THEN queue_beg + k ELSE queue_beg + k - QueueMax
Places == 0..queue_cnt-1
At(k) == queue[Slot(k)]

InQueue(e) == \E k \in Places : At(k) = e
InHand(e) == wpc = "handle" /\ hand = e

\* The items of p that are between probe_icache_add and probe_cobj_add_item.
Pending(p) == {i \in Items : InQueue(ItemPair(p, i)) \/ InHand(ItemPair(p, i))}

Collected(p) == {Content(cobj[p][k]) : k \in 1..Len(cobj[p])}

\* The icache worker never leaves its loop while the probe runs: it neither wakes up to
\* an empty queue nor finds the ring indices inconsistent.  (It would return holding
\* queue_mutex, and every probe thread would block in its next add or NOP.)
WorkerAlive == wpc # "died"

\* The worker sleeps on notempty only when the queue is empty, although it releases the
\* mutex while it handles a pair and a signal sent meanwhile wakes nobody.
NoLostWakeup == wpc = "wait" => queue_cnt = 0

\* A thread that waits for its NOP has exactly that NOP ahead of it, in the queue or in
\* the worker's hand: nobody waits for a NOP that was dropped or overwritten.
NopNotLost == \A p \in Producers :
                 pc[p] \in NopWaitStates <=> InQueue(NopPair(p)) \/ InHand(NopPair(p))

\* When a NOP has returned, and until the thread adds again, the worker does not hold or
\* find anything for the thread's collected object, and every accepted item is in it:
\* the message, the flag and the list are then modified by one thread only.
SyncedStates == {"mark", "compute", "done"}
SyncBeforeModify ==
  \A p \in Producers : pc[p] \in SyncedStates =>
     /\ Pending(p) = {}
     /\ Collected(p) = {Content(i) : i \in given[p]}

\* The cache is canonical: contents and unique IDs identify cached items, every item of a
\* collected object is a cached one, and no pointer in the queue, in the worker's hand or
\* in the tree was released by the duplicate elimination.
Cached(i) == \E k \in 1..Len(tree[ID(i)]) : tree[ID(i)][k] = i
CacheCanonical ==
  wpc # "freed" =>
    /\ \A i, j \in Items : Cached(i) /\ Cached(j) /\ i # j =>
          Content(i) # Content(j) /\ ids[i] # ids[j]
    /\ \A p \in Producers : \A k \in 1..Len(cobj[p]) : Cached(cobj[p][k])
    /\ \A i \in Items : Cached(i) => mem[i] = "live"
    /\ \A p \in Producers : \A i \in Pending(p) : mem[i] = "live" /\ ~Cached(i)

\* A collected object that was handed over for the reply is never modified again, by the
\* worker in particular, and one that was ever marked incomplete is handed over so.
ObjectStable ==
  [][\A p \in Producers :
        /\ pc[p] = "done" => cobj'[p] = cobj[p] /\ flag'[p] = flag[p]
        /\ flag[p] = "incomplete" => flag'[p] = "incomplete"]_vars

\* Every probe thread that was started closes its object: no add waits for ever on a full
\* queue and no NOP for ever on its condition.
ProducersFinish == \A p \in Producers : pc[p] = "collect" ~> pc[p] = "done"

\* Once the probe is torn down, the join of probe_icache_free comes back: the worker
\* reaches its cancellation point and the cache is released.
CleanupCompletes == handler = "stopped" ~> wpc = "freed"

\* The detailed cache implements the abstract collector.
Collector == INSTANCE ItemCollector WITH
               pending <- [p \in Producers |-> Pending(p)],
               object <- [p \in Producers |->
                            [k \in 1..Len(cobj[p]) |-> Content(cobj[p][k])]],
               flag <- flag,
               closed <- {p \in Producers : pc[p] = "done"}
ImplementsCollector == Collector!Spec

-----------------------------------------------------------------------------
(***************************************************************************)
(* The inductive invariant behind WorkerAlive, NoLostWakeup, NopNotLost    *)
(* and SyncBeforeModify; proved in ICacheProofs.                           *)
(***************************************************************************)
\* The three indices describe one contiguous run of slots.
RingInv == queue_end = Slot(queue_cnt)

\* The worker keeps the mutex across steps exactly from its start to its first wait and
\* after it left the loop.
LockInv == mutex = "worker" <=> wpc \in {"barrier", "passed", "died", "exited", "freed"}

\* Both threads leave the barrier together and no request is served before.
StartInv == /\ wpc \in {"start", "barrier"} <=> handler \in {"start", "barrier"}
            /\ handler \in {"start", "barrier"} => \A p \in Producers : pc[p] = "idle"

\* How full the queue is where the worker stands.
WakeInv == /\ wpc \in {"start", "barrier", "passed", "wait", "exited", "freed"} =>
                 queue_cnt = 0
           /\ wpc = "woken" => queue_cnt > 0
           /\ wpc # "died"

\* A pair is an item with its object or a NOP with its condition.
PairOK(e) == \/ e.cobj \in Producers /\ e.item \in Items /\ e.cond = None
             \/ e.cobj = None /\ e.item = None /\ e.cond \in Producers
PairInv == /\ \A k \in Places : PairOK(At(k))
           /\ wpc = "handle" => PairOK(hand)
           /\ \A p \in Producers : pc[p] \in {"add", "addfull"} => arg[p] \in Items

\* Every pair of a thread precedes its NOP; a thread has at most one NOP, and has
\* one exactly while it waits; a thread that was woken has nothing on the way.
NopInv ==
  \A p \in Producers :
    /\ \A k \in Places : At(k).cond = p =>
          /\ pc[p] \in NopWaitStates
          /\ \A j \in Places : /\ At(j).cobj = p => j < k
                               /\ At(j).cond = p => j = k
    /\ wpc = "handle" /\ hand.cond = p =>
          /\ pc[p] \in NopWaitStates
          /\ \A j \in Places : At(j).cobj # p /\ At(j).cond # p
    /\ pc[p] \in {"idle"} \cup NopWokenStates \cup SyncedStates =>
          /\ \A j \in Places : At(j).cobj # p
          /\ wpc = "handle" => hand.cobj # p
    /\ pc[p] \in NopWaitStates =>
          \/ \E k \in Places : At(k).cond = p
          \/ wpc = "handle" /\ hand.cond = p

\* Every accepted item is on the way or, by content, in the collected object; the object
\* holds nothing else.
Carries(e, p, i) == e.cobj = p /\ e.item = i
DeliveryInv ==
  \A p \in Producers :
    /\ \A i \in given[p] :
          \/ \E k \in Places : Carries(At(k), p, i)
          \/ wpc = "handle" /\ Carries(hand, p, i)
          \/ \E n \in 1..Len(cobj[p]) : Content(cobj[p][n]) = Content(i)
    /\ \A n \in 1..Len(cobj[p]) : \E i \in given[p] : Content(cobj[p][n]) = Content(i)
    /\ \A k \in Places : At(k).cobj = p => At(k).item \in given[p]
    /\ wpc = "handle" /\ hand.cobj = p => hand.item \in given[p]

IInv == /\ TypeOK /\ RingInv /\ LockInv /\ StartInv /\ WakeInv /\ PairInv
        /\ NopInv /\ DeliveryInv

-----------------------------------------------------------------------------
(***************************************************************************)
(* What CacheCanonical, ObjectStable and the refinement of ItemCollector   *)
(* need in addition; proved in ICacheProofs.                               *)
(***************************************************************************)
\* A chain holds the items of its hash, no two of them with the same content.
ChainInv ==
  \A c \in Keys :
    /\ \A n \in 1..Len(tree[c]) : ID(tree[c][n]) = c
    /\ \A m, n \in 1..Len(tree[c]) : Content(tree[c][m]) = Content(tree[c][n]) => m = n

\* Cached items are alive and have unique IDs below the next one; until the tree is
\* released, collected objects hold cached items only.
CachedInv ==
  /\ \A i \in Items : Cached(i) => mem[i] = "live" /\ ids[i] \in 0..next_ID-1
  /\ \A i, j \in Items : Cached(i) /\ Cached(j) /\ ids[i] = ids[j] => i = j
  /\ wpc # "freed" => \A p \in Producers : \A n \in 1..Len(cobj[p]) : Cached(cobj[p][n])

\* An item on its way from probe_item_collect to the worker is alive, not cached, and in
\* one place only: with the thread that adds it, at one place of the queue, or in hand.
Adds(p, i) == pc[p] \in {"add", "addfull"} /\ arg[p] = i
Handles(i) == wpc = "handle" /\ hand.item = i
TransitInv ==
  \A i \in Items :
    /\ \A p \in Producers : Adds(p, i) =>
          /\ mem[i] = "live" /\ ~Cached(i)
          /\ \A q \in Producers : Adds(q, i) => q = p
          /\ \A k \in Places : At(k).item # i
          /\ ~Handles(i)
    /\ \A k \in Places : At(k).item = i =>
          /\ mem[i] = "live" /\ ~Cached(i)
          /\ \A j \in Places : At(j).item = i => j = k
          /\ ~Handles(i)
    /\ Handles(i) => mem[i] = "live" /\ ~Cached(i)

\* A thread refused by the memory check for the first time has not marked its object yet,
\* and only a finished thread has computed the flag.
RefusedStates == {"limit", "limitfull", "limitwait", "limitwoken", "mark"}
FlagInv ==
  \A p \in Producers : /\ pc[p] \in RefusedStates => flag[p] = "unknown"
                       /\ flag[p] = "computed" => pc[p] = "done"

ItemInv == ChainInv /\ CachedInv /\ TransitInv /\ FlagInv
==============================================================================
