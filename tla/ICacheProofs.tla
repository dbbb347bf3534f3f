---------------------------- MODULE ICacheProofs ----------------------------
(***************************************************************************)
(* Proofs about the item cache: its types, the accounting of its ring and  *)
(* references, that the cache is canonical, that a finished object is      *)
(* never modified again, and that it implements the abstract collector;    *)
(* for any set of probe threads, any items, contents and hash, any queue   *)
(* capacity and any memory threshold.                                      *)
(***************************************************************************)
EXTENDS ICache, TLAPS

-----------------------------------------------------------------------------
(***************************************************************************)
(* Type correctness.                                                       *)
(***************************************************************************)
\* An enqueued pair keeps the ring variables in range.
LEMMA EnqueueType ==
  ASSUME TypeOK, NEW e \in Pairs, Enqueue(e)
  PROVE  /\ queue' \in [0..QueueMax-1 -> Pairs]
         /\ queue_beg' \in 0..QueueMax-1
         /\ queue_end' \in 0..QueueMax-1
         /\ queue_cnt' \in 0..QueueMax
BY CapacityAssumption DEF TypeOK, Enqueue, Wrap

\* A hit in a collision chain is a position of the chain.
LEMMA FindInChain ==
  ASSUME NEW chain \in Seq(Items), NEW i \in Items, Find(chain, i) # 0
  PROVE  /\ Find(chain, i) \in 1..Len(chain)
         /\ Content(chain[Find(chain, i)]) = Content(i)
BY DEF Find

\* Every step preserves TypeOK, given that queued pairs are well formed.
LEMMA TypeStep ==
  ASSUME TypeOK, PairInv, [Next]_vars
  PROVE  TypeOK'
<1> USE CapacityAssumption, NoneAssumption
<1>1. CASE UNCHANGED vars
  BY <1>1 DEF vars, ring, worker, TypeOK
<1>2. ASSUME NEW p \in Producers, NEW i \in Items,
             CollectItem(p, i) \/ CollectFiltered(p, i) \/ CollectRefused(p, i)
      PROVE  TypeOK'
  <2>1. CASE CollectItem(p, i)
    BY <2>1 DEF CollectItem, ring, worker, TypeOK, ProducerStates
  <2>2. CASE CollectFiltered(p, i)
    BY <2>2 DEF CollectFiltered, ring, worker, TypeOK
  <2>3. CASE CollectRefused(p, i)
    <3>1. pc' \in [Producers -> ProducerStates] /\ arg' \in [Producers -> Items \cup {None}]
      <4>1. CASE flag[p] = "incomplete"
        BY <2>3, <4>1 DEF CollectRefused, TypeOK
      <4>2. CASE flag[p] # "incomplete"
        BY <2>3, <4>2 DEF CollectRefused, TypeOK, ProducerStates
      <4> QED
        BY <4>1, <4>2
    <3>2. mem' \in [Items -> {"fresh", "live", "freed"}]
      BY <2>3 DEF CollectRefused, TypeOK
    <3> QED
      BY <2>3, <3>1, <3>2 DEF CollectRefused, ring, worker, TypeOK
  <2> QED
    BY <1>2, <2>1, <2>2, <2>3
<1>3. ASSUME NEW p \in Producers, Add(p)
      PROVE  TypeOK'
  <2>1. arg[p] \in Items
    BY <1>3 DEF Add, PairInv
  <2>2. ItemPair(p, arg[p]) \in Pairs
    BY <2>1 DEF ItemPair, Pairs
  <2>3. /\ queue' \in [0..QueueMax-1 -> Pairs]
        /\ queue_beg' \in 0..QueueMax-1
        /\ queue_end' \in 0..QueueMax-1
        /\ queue_cnt' \in 0..QueueMax
    BY <1>3, <2>2, EnqueueType DEF Add
  <2>4. given' \in [Producers -> SUBSET Items]
    BY <1>3, <2>1 DEF Add, TypeOK
  <2> QED
    BY <1>3, <2>3, <2>4 DEF Add, SignalNotEmpty, TypeOK, ProducerStates, WorkerStates
<1>4. ASSUME NEW p \in Producers, Nop(p)
      PROVE  TypeOK'
  <2>1. NopPair(p) \in Pairs
    BY DEF NopPair, Pairs
  <2>2. /\ queue' \in [0..QueueMax-1 -> Pairs]
        /\ queue_beg' \in 0..QueueMax-1
        /\ queue_end' \in 0..QueueMax-1
        /\ queue_cnt' \in 0..QueueMax
    BY <1>4, <2>1, EnqueueType DEF Nop
  <2> QED
    BY <1>4, <2>2 DEF Nop, SignalNotEmpty, TypeOK, ProducerStates, WorkerStates,
                      NopWaitState
<1>5. ASSUME NEW p \in Producers,
             \/ ProbeMainReturns(p) \/ WaitNotFull(p) \/ NopReturn(p)
             \/ MarkIncomplete(p) \/ Close(p) \/ Spawn(p)
      PROVE  TypeOK'
  BY <1>5 DEF ProbeMainReturns, WaitNotFull, NopReturn, MarkIncomplete, Close, Spawn,
              ring, worker, TypeOK, ProducerStates, TestStates, FullState, SyncedState
<1>6. ASSUME Extract PROVE TypeOK'
  <2>1. pc' \in [Producers -> ProducerStates]
    BY <1>6 DEF Extract, SignalNotFull, NotFullWaiters, NotFullStates, RetryState,
                TypeOK, ProducerStates
  <2>2. queue_cnt' \in 0..QueueMax /\ queue_beg' \in 0..QueueMax-1
    BY <1>6 DEF Extract, TypeOK, Wrap
  <2> QED
    BY <1>6, <2>1, <2>2 DEF Extract, TypeOK, WorkerStates
<1>7. ASSUME FoundEmpty \/ HandleNop PROVE TypeOK'
  BY <1>7 DEF FoundEmpty, HandleNop, ring, TypeOK, WorkerStates, ProducerStates,
              NopWaitStates, NopWokenState
<1>8. ASSUME HandleHit \/ HandleMiss PROVE TypeOK'
  <2>1. hand.cobj \in Producers /\ hand.item \in Items
    BY <1>8 DEF HandleHit, HandleMiss, PairInv, PairOK
  <2>2. ID(hand.item) \in Keys /\ tree[ID(hand.item)] \in Seq(Items)
    BY <2>1, HashAssumption DEF TypeOK
  <2>3. CASE HandleHit
    <3> DEFINE chain == tree[ID(hand.item)]
    <3> DEFINE k == Find(chain, hand.item)
    <3>1. k \in 1..Len(chain)
      BY <2>1, <2>2, <2>3, FindInChain DEF HandleHit
    <3>2. chain[k] \in Items
      BY <2>2, <3>1
    <3>3. cobj' \in [Producers -> Seq(Items)]
      BY <2>1, <2>3, <3>2 DEF HandleHit, TypeOK
    <3> QED
      BY <2>1, <2>3, <3>3 DEF HandleHit, ring, TypeOK, WorkerStates
  <2>4. CASE HandleMiss
    <3>1. tree' \in [Keys -> Seq(Items)]
      BY <2>1, <2>2, <2>4 DEF HandleMiss, TypeOK
    <3>2. cobj' \in [Producers -> Seq(Items)]
      BY <2>1, <2>4 DEF HandleMiss, TypeOK
    <3> QED
      BY <2>1, <2>4, <3>1, <3>2 DEF HandleMiss, ring, TypeOK, WorkerStates
  <2> QED
    BY <1>8, <2>3, <2>4
<1>9. ASSUME \/ WorkerStart \/ WorkerWait \/ WorkerCancelled
             \/ HandlerStart \/ BarrierOpen \/ Cleanup
      PROVE  TypeOK'
  BY <1>9 DEF WorkerStart, WorkerWait, WorkerCancelled, HandlerStart, BarrierOpen,
              Cleanup, ring, worker, TypeOK, WorkerStates, HandlerStates
<1>10. ASSUME FreeCache PROVE TypeOK'
  BY <1>10 DEF FreeCache, ring, TypeOK, WorkerStates
<1> QED
  BY <1>1, <1>2, <1>3, <1>4, <1>5, <1>6, <1>7, <1>8, <1>9, <1>10
     DEF Next, Worker, Producer, Main, Terminated

-----------------------------------------------------------------------------
(***************************************************************************)
(* The ring.                                                               *)
(***************************************************************************)
\* Enqueue puts the pair behind the queued ones and keeps the indices consistent.
LEMMA EnqueueRing ==
  ASSUME TypeOK, RingInv, NEW e, Enqueue(e)
  PROVE  /\ RingInv'
         /\ queue_cnt' = queue_cnt + 1
         /\ \A k \in Places : At(k)' = At(k)
         /\ \A k \in Int : k = queue_cnt => At(k)' = e
<1> USE CapacityAssumption
<1>1. /\ queue_beg \in 0..QueueMax-1 /\ queue_end \in 0..QueueMax-1
      /\ queue_cnt \in 0..QueueMax-1 /\ queue \in [0..QueueMax-1 -> Pairs]
  BY DEF TypeOK, Enqueue
<1>2. /\ queue_beg' = queue_beg
      /\ queue_cnt' = queue_cnt + 1
      /\ queue' = [queue EXCEPT ![queue_end] = e]
      /\ queue_end' = IF queue_end + 1 = QueueMax THEN 0 ELSE queue_end + 1
  BY DEF Enqueue, Wrap
<1>3. queue_end = Slot(queue_cnt)
  BY DEF RingInv
<1>4. RingInv'
  BY <1>1, <1>2, <1>3 DEF RingInv, Slot
<1>5. \A k \in Places : Slot(k) \in 0..QueueMax-1 /\ Slot(k) # queue_end
  BY <1>1, <1>3 DEF Places, Slot
<1>6. \A k \in Int : Slot(k)' = Slot(k)
  BY <1>2 DEF Slot
<1>7. \A k \in Places : At(k)' = At(k)
  BY <1>1, <1>2, <1>5, <1>6 DEF At, Places
<1>8. \A k \in Int : k = queue_cnt => At(k)' = e
  BY <1>1, <1>2, <1>3, <1>6 DEF At
<1> QED
  BY <1>2, <1>4, <1>7, <1>8

\* Extract takes the first pair, moves the others one place forward, and finds the
\* indices consistent.
LEMMA ExtractRing ==
  ASSUME TypeOK, RingInv, Extract
  PROVE  /\ RingInv'
         /\ wpc' = "handle"
         /\ mutex' = mutex
         /\ SignalNotFull
         /\ queue_cnt \in Nat \ {0} /\ queue_cnt' = queue_cnt - 1
         /\ hand' = At(0)
         /\ \A k \in Places' : k + 1 \in Places /\ At(k)' = At(k + 1)
<1> USE CapacityAssumption
<1>1. /\ queue_beg \in 0..QueueMax-1 /\ queue_end \in 0..QueueMax-1
      /\ queue_cnt \in 1..QueueMax
  BY DEF TypeOK, Extract
<1>2. /\ queue_beg' = IF queue_beg + 1 = QueueMax THEN 0 ELSE queue_beg + 1
      /\ queue_cnt' = queue_cnt - 1
      /\ queue' = queue /\ queue_end' = queue_end
      /\ hand' = queue[queue_beg]
  BY DEF Extract, Wrap
<1>3. queue_end = Slot(queue_cnt)
  BY DEF RingInv
<1>4. RingInv'
  BY <1>1, <1>2, <1>3 DEF RingInv, Slot
<1>5. ~RingBroken(queue_cnt', queue_beg', queue_end)
  BY <1>1, <1>2, <1>3 DEF RingBroken, Slot
<1>6. wpc' = "handle" /\ mutex' = mutex /\ SignalNotFull
  BY <1>5 DEF Extract
<1>7. hand' = At(0)
  BY <1>1, <1>2 DEF At, Slot
<1>8. \A k \in Places' : k + 1 \in Places /\ Slot(k)' = Slot(k + 1)
  BY <1>1, <1>2 DEF Places, Slot
<1>9. \A k \in Places' : k + 1 \in Places /\ At(k)' = At(k + 1)
  BY <1>2, <1>8 DEF At
<1> QED
  BY <1>1, <1>2, <1>4, <1>6, <1>7, <1>9

\* The places of the queue are slots of the ring.
LEMMA PlacesInRange ==
  ASSUME TypeOK, NEW k \in Places
  PROVE  Slot(k) \in 0..QueueMax-1
BY CapacityAssumption DEF TypeOK, Places, Slot

\* A step that leaves the ring alone leaves the queue alone.
LEMMA RingFrame ==
  ASSUME UNCHANGED ring
  PROVE  /\ Places' = Places
         /\ \A k : At(k)' = At(k)
         /\ RingInv' <=> RingInv
BY DEF ring, Places, At, Slot, RingInv

-----------------------------------------------------------------------------
(***************************************************************************)
(* The inductive invariant.                                                *)
(***************************************************************************)
\* Steps of a probe thread that touch neither the ring nor the worker.
LEMMA QuietProducerStep ==
  ASSUME IInv, NEW p \in Producers,
         \/ \E i \in Items : \/ CollectItem(p, i)
                             \/ CollectFiltered(p, i)
                             \/ CollectRefused(p, i)
         \/ ProbeMainReturns(p) \/ WaitNotFull(p) \/ NopReturn(p)
         \/ MarkIncomplete(p) \/ Close(p) \/ Spawn(p)
  PROVE  /\ RingInv' /\ LockInv' /\ StartInv' /\ WakeInv' /\ PairInv'
         /\ NopInv' /\ DeliveryInv'
<1> DEFINE Apart == {"idle"} \cup NopWokenStates \cup SyncedStates
<1> DEFINE Frame == /\ UNCHANGED <<mutex, ring, wpc, hand, handler, cobj, given>>
                    /\ \A q \in Producers : q # p => pc'[q] = pc[q] /\ arg'[q] = arg[q]
                    /\ handler \notin {"start", "barrier"}
<1> DEFINE Moves == /\ pc'[p] \in {"add", "addfull"} => arg'[p] \in Items
                    /\ pc[p] \notin NopWaitStates /\ pc'[p] \notin NopWaitStates
                    /\ pc'[p] \in Apart => pc[p] \in Apart
<1>1. TypeOK /\ RingInv /\ LockInv /\ StartInv /\ WakeInv /\ PairInv /\ NopInv /\ DeliveryInv
  BY DEF IInv
<1>2. pc \in [Producers -> ProducerStates] /\ arg \in [Producers -> Items \cup {None}]
  BY <1>1 DEF TypeOK
<1>3. handler \in {"start", "barrier"} => pc[p] = "idle"
  BY <1>1 DEF StartInv
<1>4. ASSUME NEW i \in Items,
             CollectItem(p, i) \/ CollectFiltered(p, i) \/ CollectRefused(p, i)
      PROVE  Frame /\ Moves
  BY <1>2, <1>3, <1>4 DEF CollectItem, CollectFiltered, CollectRefused, worker,
     NopWaitStates, NopWokenStates, SyncedStates
<1>5. ASSUME WaitNotFull(p) PROVE Frame /\ Moves
  <2>1. pc[p] = "add" => arg[p] \in Items
    BY <1>1 DEF PairInv
  <2> QED
    <3>1. Frame
      BY <1>2, <1>3, <1>5 DEF WaitNotFull, worker, TestStates
    <3>2. Moves
      BY <1>2, <1>5, <2>1 DEF WaitNotFull, TestStates, FullState,
         NopWaitStates, NopWokenStates, SyncedStates
    <3> QED
      BY <3>1, <3>2
<1>6. ASSUME ProbeMainReturns(p) \/ NopReturn(p) \/ MarkIncomplete(p) \/ Close(p)
      PROVE  Frame /\ Moves
  BY <1>2, <1>3, <1>6 DEF ProbeMainReturns, NopReturn, MarkIncomplete, Close, worker,
     SyncedState, NopWaitStates, NopWokenStates, SyncedStates
<1>7. ASSUME Spawn(p) PROVE Frame /\ Moves
  BY <1>2, <1>7 DEF Spawn, worker, NopWaitStates, NopWokenStates, SyncedStates
<1>8. Frame /\ Moves
  BY <1>4, <1>5, <1>6, <1>7
<1>9. Places' = Places /\ (\A k : At(k)' = At(k)) /\ RingInv'
  BY <1>1, <1>8, RingFrame
<1>10. LockInv' /\ StartInv'
  BY <1>1, <1>8 DEF LockInv, StartInv
<1>11. WakeInv'
  BY <1>1, <1>8 DEF WakeInv, ring
<1>12. PairInv'
  BY <1>1, <1>8, <1>9 DEF PairInv, PairOK
<1>13. NopInv'
  BY <1>1, <1>8, <1>9 DEF NopInv
<1>14. DeliveryInv'
  BY <1>1, <1>8, <1>9 DEF DeliveryInv, Carries
<1> QED
  BY <1>9, <1>10, <1>11, <1>12, <1>13, <1>14

\* probe_icache_add: the item pair goes behind everything its thread queued before.
LEMMA AddStep ==
  ASSUME IInv, NEW p \in Producers, Add(p)
  PROVE  /\ RingInv' /\ LockInv' /\ StartInv' /\ WakeInv' /\ PairInv'
         /\ NopInv' /\ DeliveryInv'
<1> USE NoneAssumption
<1> DEFINE e == ItemPair(p, arg[p])
<1>1. TypeOK /\ RingInv /\ LockInv /\ StartInv /\ WakeInv /\ PairInv /\ NopInv /\ DeliveryInv
  BY DEF IInv
<1>2. /\ pc[p] = "add" /\ mutex = None /\ arg[p] \in Items
      /\ pc' = [pc EXCEPT ![p] = "collect"]
      /\ pc'[p] = "collect"
      /\ \A q \in Producers : q # p => pc'[q] = pc[q] /\ arg'[q] = arg[q]
                                     /\ given'[q] = given[q]
      /\ given'[p] = given[p] \cup {arg[p]}
      /\ wpc' = IF wpc = "wait" THEN "woken" ELSE wpc
      /\ UNCHANGED <<mutex, hand, handler, cobj>>
  BY <1>1 DEF Add, SignalNotEmpty, TypeOK, PairInv
<1>3. e.cobj = p /\ e.item = arg[p] /\ e.cond = None
  BY DEF ItemPair
<1>4. /\ RingInv'
      /\ queue_cnt' = queue_cnt + 1 /\ queue_cnt \in Nat
      /\ \A k \in Places : At(k)' = At(k)
      /\ \A k \in Int : k = queue_cnt => At(k)' = e
  BY <1>1, EnqueueRing DEF Add, TypeOK
<1>5. /\ \A k \in Places' : (k \in Places /\ At(k)' = At(k)) \/ (k = queue_cnt /\ At(k)' = e)
      /\ Places \subseteq Places' /\ queue_cnt \in Places'
  BY <1>4 DEF Places
<1>6. LockInv' /\ StartInv'
  BY <1>1, <1>2 DEF LockInv, StartInv
<1>7. WakeInv'
  BY <1>1, <1>2, <1>4, <1>6 DEF WakeInv, LockInv, StartInv
<1>8. wpc' = "handle" <=> wpc = "handle"
  BY <1>2
<1>9. PairInv'
  BY <1>1, <1>2, <1>3, <1>5, <1>8 DEF PairInv, PairOK
<1>10. NopInv'
  BY <1>1, <1>2, <1>3, <1>4, <1>5, <1>8
     DEF NopInv, NopWaitStates, NopWokenStates, SyncedStates
<1>11. DeliveryInv'
  BY <1>1, <1>2, <1>3, <1>4, <1>5, <1>8 DEF DeliveryInv, Carries
<1> QED
  BY <1>4, <1>6, <1>7, <1>9, <1>10, <1>11

\* probe_icache_nop up to its wait: the NOP goes behind every pair of its thread.
LEMMA NopStep ==
  ASSUME IInv, NEW p \in Producers, Nop(p)
  PROVE  /\ RingInv' /\ LockInv' /\ StartInv' /\ WakeInv' /\ PairInv'
         /\ NopInv' /\ DeliveryInv'
<1> USE NoneAssumption
<1> DEFINE e == NopPair(p)
<1>1. TypeOK /\ RingInv /\ LockInv /\ StartInv /\ WakeInv /\ PairInv /\ NopInv /\ DeliveryInv
  BY DEF IInv
<1>2. /\ pc[p] \in {"limit", "final"} /\ mutex = None
      /\ pc'[p] \in NopWaitStates
      /\ \A q \in Producers : q # p => pc'[q] = pc[q]
      /\ wpc' = IF wpc = "wait" THEN "woken" ELSE wpc
      /\ UNCHANGED <<mutex, hand, handler, arg, cobj, given>>
  BY <1>1 DEF Nop, SignalNotEmpty, TypeOK, NopStates, NopWaitState, NopWaitStates
<1>3. e.cobj = None /\ e.item = None /\ e.cond = p
  BY DEF NopPair
<1>4. /\ RingInv'
      /\ queue_cnt' = queue_cnt + 1 /\ queue_cnt \in Nat
      /\ \A k \in Places : At(k)' = At(k)
      /\ \A k \in Int : k = queue_cnt => At(k)' = e
  BY <1>1, EnqueueRing DEF Nop, TypeOK
<1>5. /\ \A k \in Places' : (k \in Places /\ At(k)' = At(k)) \/ (k = queue_cnt /\ At(k)' = e)
      /\ Places \subseteq Places' /\ queue_cnt \in Places'
      /\ \A k \in Places : k < queue_cnt
  BY <1>4 DEF Places
<1>6. LockInv' /\ StartInv'
  BY <1>1, <1>2 DEF LockInv, StartInv
<1>7. WakeInv'
  BY <1>1, <1>2, <1>4, <1>6 DEF WakeInv, LockInv, StartInv
<1>8. wpc' = "handle" <=> wpc = "handle"
  BY <1>2
<1>9. PairInv'
  BY <1>1, <1>2, <1>3, <1>5, <1>8 DEF PairInv, PairOK, NopWaitStates
<1>10. NopInv'
  BY <1>1, <1>2, <1>3, <1>4, <1>5, <1>8
     DEF NopInv, NopWaitStates, NopWokenStates, SyncedStates
<1>11. DeliveryInv'
  BY <1>1, <1>2, <1>3, <1>4, <1>5, <1>8 DEF DeliveryInv, Carries
<1> QED
  BY <1>4, <1>6, <1>7, <1>9, <1>10, <1>11

\* The worker takes the first pair: everything else moves one place forward, so the
\* order between a NOP and the items before it is kept.
LEMMA ExtractStep ==
  ASSUME IInv, Extract
  PROVE  /\ RingInv' /\ LockInv' /\ StartInv' /\ WakeInv' /\ PairInv'
         /\ NopInv' /\ DeliveryInv'
<1> USE NoneAssumption
<1>1. TypeOK /\ RingInv /\ LockInv /\ StartInv /\ WakeInv /\ PairInv /\ NopInv /\ DeliveryInv
  BY DEF IInv
<1>2. /\ RingInv'
      /\ wpc' = "handle" /\ mutex' = mutex /\ mutex = None
      /\ wpc \in {"woken", "relock"}
      /\ queue_cnt \in Nat \ {0} /\ queue_cnt' = queue_cnt - 1
      /\ hand' = At(0)
      /\ \A k \in Places' : k + 1 \in Places /\ At(k)' = At(k + 1)
      /\ UNCHANGED <<handler, arg, cobj, given>>
  BY <1>1, ExtractRing DEF Extract
<1>3. /\ 0 \in Places /\ Places \subseteq Nat
      /\ \A k \in Places : k = 0 \/ (k - 1 \in Places' /\ At(k - 1)' = At(k))
  <2>1. 0 \in Places /\ Places \subseteq Nat
    BY <1>2 DEF Places
  <2>2. ASSUME NEW k \in Places, k # 0
        PROVE  k - 1 \in Places' /\ At(k - 1)' = At(k)
    <3>1. k - 1 \in Places' /\ (k - 1) + 1 = k
      BY <1>2, <2>2 DEF Places
    <3> QED
      BY <1>2, <3>1
  <2> QED
    BY <2>1, <2>2
<1>4. /\ \A q \in Producers : \/ pc'[q] = pc[q]
                              \/ pc[q] = "addfull" /\ pc'[q] = "add"
                              \/ pc[q] = "limitfull" /\ pc'[q] = "limit"
                              \/ pc[q] = "finalfull" /\ pc'[q] = "final"
  <2>1. SignalNotFull /\ pc \in [Producers -> ProducerStates]
    BY <1>1, ExtractRing DEF TypeOK
  <2> QED
    BY <2>1 DEF SignalNotFull, NotFullWaiters, NotFullStates, RetryState
<1>5. LockInv' /\ StartInv' /\ WakeInv'
  BY <1>1, <1>2, <1>4 DEF LockInv, StartInv, WakeInv
<1>6. PairInv'
  <2>1. PairInv
    BY <1>1
  <2>2. ASSUME NEW k \in Places'
        PROVE  PairOK(At(k)')
    <3>1. k + 1 \in Places /\ At(k)' = At(k + 1)
      BY <1>2, <2>2
    <3>2. PairOK(At(k + 1))
      BY <2>1, <3>1 DEF PairInv
    <3> QED
      BY <3>1, <3>2
  <2>3. PairOK(hand')
    <3>1. PairOK(At(0))
      BY <2>1, <1>3 DEF PairInv
    <3> QED
      BY <1>2, <3>1
  <2>4. \A q \in Producers : pc'[q] \in {"add", "addfull"} => arg'[q] \in Items
    BY <2>1, <1>2, <1>4 DEF PairInv
  <2> QED
    BY <2>2, <2>3, <2>4 DEF PairInv, PairOK
<1>7. ASSUME NEW q \in Producers, NEW k \in Places', (At(k)').cond = q
      PROVE  /\ pc'[q] \in NopWaitStates
             /\ \A j \in Places' : /\ (At(j)').cobj = q => j < k
                                   /\ (At(j)').cond = q => j = k
  <2>1. k + 1 \in Places /\ At(k + 1).cond = q
    BY <1>2, <1>7
  <2>2. /\ pc[q] \in NopWaitStates
        /\ \A j \in Places : /\ At(j).cobj = q => j < k + 1
                             /\ At(j).cond = q => j = k + 1
    BY <1>1, <2>1 DEF NopInv
  <2>3. ASSUME NEW j \in Places'
        PROVE  /\ (At(j)').cobj = q => j < k
               /\ (At(j)').cond = q => j = k
    <3>1. j + 1 \in Places /\ At(j)' = At(j + 1)
      BY <1>2
    <3>2. j \in Int /\ k \in Int
      BY <1>2 DEF Places
    <3>3. /\ At(j + 1).cobj = q => j + 1 < k + 1
          /\ At(j + 1).cond = q => j + 1 = k + 1
      BY <2>2, <3>1
    <3> QED
      BY <3>1, <3>2, <3>3
  <2> QED
    BY <1>4, <2>2, <2>3 DEF NopWaitStates
<1>8. ASSUME NEW q \in Producers, hand'.cond = q
      PROVE  /\ pc'[q] \in NopWaitStates
             /\ \A j \in Places' : (At(j)').cobj # q /\ (At(j)').cond # q
  <2>1. /\ pc[q] \in NopWaitStates
        /\ \A j \in Places : /\ At(j).cobj = q => j < 0
                             /\ At(j).cond = q => j = 0
    BY <1>1, <1>2, <1>3, <1>8 DEF NopInv
  <2>2. ASSUME NEW j \in Places'
        PROVE  (At(j)').cobj # q /\ (At(j)').cond # q
    <3>1. j + 1 \in Places /\ At(j)' = At(j + 1)
      BY <1>2
    <3>2. /\ At(j + 1).cobj = q => j + 1 < 0
          /\ At(j + 1).cond = q => j + 1 = 0
      BY <2>1, <3>1
    <3>3. j \in Nat
      BY <1>2 DEF Places
    <3> QED
      BY <3>1, <3>2, <3>3
  <2> QED
    BY <1>4, <2>1, <2>2 DEF NopWaitStates
<1>9. ASSUME NEW q \in Producers,
             pc'[q] \in {"idle"} \cup NopWokenStates \cup SyncedStates
      PROVE  (\A j \in Places' : (At(j)').cobj # q) /\ hand'.cobj # q
  <2>1. pc[q] \in {"idle"} \cup NopWokenStates \cup SyncedStates
    BY <1>4, <1>9 DEF NopWokenStates, SyncedStates
  <2>2. \A j \in Places : At(j).cobj # q
    BY <1>1, <2>1 DEF NopInv
  <2> QED
    BY <1>2, <1>3, <2>2
<1>10. ASSUME NEW q \in Producers, pc'[q] \in NopWaitStates
       PROVE  (\E k \in Places' : (At(k)').cond = q) \/ hand'.cond = q
  <2>1. pc[q] \in NopWaitStates
    BY <1>4, <1>10 DEF NopWaitStates
  <2>2. PICK k \in Places : At(k).cond = q
    BY <1>1, <1>2, <2>1 DEF NopInv
  <2> QED
    BY <1>2, <1>3, <2>2
<1>11. NopInv'
  BY <1>2, <1>7, <1>8, <1>9, <1>10 DEF NopInv
<1>12. DeliveryInv'
  BY <1>1, <1>2, <1>3 DEF DeliveryInv, Carries
<1> QED
  BY <1>2, <1>5, <1>6, <1>11, <1>12

\* The worker handles a NOP: the thread it wakes has nothing left on the way.
LEMMA HandleNopStep ==
  ASSUME IInv, HandleNop
  PROVE  /\ RingInv' /\ LockInv' /\ StartInv' /\ WakeInv' /\ PairInv'
         /\ NopInv' /\ DeliveryInv'
<1> USE NoneAssumption
<1>1. TypeOK /\ RingInv /\ LockInv /\ StartInv /\ WakeInv /\ PairInv /\ NopInv /\ DeliveryInv
  BY DEF IInv
<1>2. PICK p \in Producers : hand.cond = p
  BY <1>1 DEF HandleNop, PairInv, PairOK
<1>3. /\ wpc = "handle" /\ wpc' = "relock" /\ hand.cobj = None
      /\ pc[p] \in NopWaitStates /\ pc'[p] \in NopWokenStates
      /\ \A q \in Producers : q # p => pc'[q] = pc[q]
      /\ UNCHANGED <<mutex, ring, hand, handler, arg, cobj, given>>
  <2>1. pc[p] \in NopWaitStates /\ pc \in [Producers -> ProducerStates]
    BY <1>1, <1>2 DEF HandleNop, NopInv, TypeOK
  <2> QED
    BY <1>2, <2>1 DEF HandleNop, NopWokenState, NopWaitStates, NopWokenStates
<1>4. Places' = Places /\ (\A k : At(k)' = At(k)) /\ RingInv'
  BY <1>1, <1>3, RingFrame
<1>5. LockInv' /\ StartInv' /\ WakeInv'
  BY <1>1, <1>3 DEF LockInv, StartInv, WakeInv, NopWaitStates
<1>6. PairInv'
  BY <1>1, <1>3, <1>4 DEF PairInv, PairOK, NopWokenStates
<1>7. NopInv'
  BY <1>1, <1>2, <1>3, <1>4 DEF NopInv, NopWaitStates, NopWokenStates
<1>8. DeliveryInv'
  BY <1>1, <1>2, <1>3, <1>4 DEF DeliveryInv, Carries
<1> QED
  BY <1>4, <1>5, <1>6, <1>7, <1>8

\* The worker handles an item: its content is appended to the object it was given for.
LEMMA HandleItemStep ==
  ASSUME IInv, HandleHit \/ HandleMiss
  PROVE  /\ RingInv' /\ LockInv' /\ StartInv' /\ WakeInv' /\ PairInv'
         /\ NopInv' /\ DeliveryInv'
<1> USE NoneAssumption
<1>1. TypeOK /\ RingInv /\ LockInv /\ StartInv /\ WakeInv /\ PairInv /\ NopInv /\ DeliveryInv
  BY DEF IInv
<1> DEFINE p == hand.cobj
<1> DEFINE i == hand.item
<1>2. p \in Producers /\ i \in Items /\ hand.cond = None /\ i \in given[p]
  BY <1>1 DEF HandleHit, HandleMiss, PairInv, PairOK, DeliveryInv
<1>3. /\ wpc = "handle" /\ wpc' = "relock"
      /\ UNCHANGED <<mutex, ring, hand, handler, pc, arg, given>>
  BY DEF HandleHit, HandleMiss
<1>4. \E x \in Items : Content(x) = Content(i) /\ cobj' = [cobj EXCEPT ![p] = Append(@, x)]
  <2>1. CASE HandleHit
    <3> DEFINE chain == tree[ID(i)]
    <3> DEFINE k == Find(chain, i)
    <3>1. chain \in Seq(Items)
      BY <1>1, <1>2, HashAssumption DEF TypeOK
    <3>2. k \in 1..Len(chain) /\ Content(chain[k]) = Content(i)
      BY <1>2, <2>1, <3>1, FindInChain DEF HandleHit
    <3>3. chain[k] \in Items
      BY <3>1, <3>2
    <3> QED
      BY <2>1, <3>2, <3>3 DEF HandleHit
  <2>2. CASE HandleMiss
    BY <1>2, <2>2 DEF HandleMiss
  <2> QED
    BY <2>1, <2>2
<1>5. PICK x \in Items : Content(x) = Content(i) /\ cobj' = [cobj EXCEPT ![p] = Append(@, x)]
  BY <1>4
<1>6. /\ \A q \in Producers : q # p => cobj'[q] = cobj[q]
      /\ Len(cobj[p]) \in Nat /\ Len(cobj'[p]) = Len(cobj[p]) + 1
      /\ \A n \in 1..Len(cobj[p]) : cobj'[p][n] = cobj[p][n]
      /\ cobj'[p][Len(cobj[p]) + 1] = x
  <2>1. cobj[p] \in Seq(Items) /\ cobj'[p] = Append(cobj[p], x)
    BY <1>1, <1>2, <1>5 DEF TypeOK
  <2> QED
    BY <1>1, <1>2, <1>5, <2>1 DEF TypeOK
<1>7. Places' = Places /\ (\A k : At(k)' = At(k)) /\ RingInv'
  BY <1>1, <1>3, RingFrame
<1>8. LockInv' /\ StartInv' /\ WakeInv'
  BY <1>1, <1>3 DEF LockInv, StartInv, WakeInv
<1>9. PairInv'
  BY <1>1, <1>3, <1>7 DEF PairInv, PairOK
<1>10. NopInv'
  BY <1>1, <1>2, <1>3, <1>7 DEF NopInv
<1>11. ASSUME NEW q \in Producers, NEW n \in 1..Len(cobj'[q])
       PROVE  \E j \in given[q] : Content(cobj'[q][n]) = Content(j)
  BY <1>1, <1>2, <1>5, <1>6 DEF DeliveryInv
<1>12. ASSUME NEW q \in Producers, NEW j \in given[q]
       PROVE  \/ \E k \in Places : Carries(At(k), q, j)
              \/ \E n \in 1..Len(cobj'[q]) : Content(cobj'[q][n]) = Content(j)
  <2>1. CASE \E n \in 1..Len(cobj[q]) : Content(cobj[q][n]) = Content(j)
    BY <1>6, <2>1
  <2>2. CASE Carries(hand, q, j)
    <3>1. q = p /\ j = i /\ Len(cobj[p]) + 1 \in 1..Len(cobj'[p])
      BY <2>2, <1>6 DEF Carries
    <3> QED
      BY <1>5, <1>6, <3>1
  <2> QED
    BY <1>1, <2>1, <2>2 DEF DeliveryInv
<1>13. DeliveryInv'
  BY <1>1, <1>3, <1>7, <1>11, <1>12 DEF DeliveryInv
<1> QED
  BY <1>7, <1>8, <1>9, <1>10, <1>13

\* Start-up, tear-down and the worker going back to sleep.
LEMMA ControlStep ==
  ASSUME IInv,
         \/ WorkerStart \/ WorkerWait \/ FoundEmpty \/ WorkerCancelled
         \/ HandlerStart \/ BarrierOpen \/ Cleanup \/ FreeCache
  PROVE  /\ RingInv' /\ LockInv' /\ StartInv' /\ WakeInv' /\ PairInv'
         /\ NopInv' /\ DeliveryInv'
<1> USE NoneAssumption
<1>1. TypeOK /\ RingInv /\ LockInv /\ StartInv /\ WakeInv /\ PairInv /\ NopInv /\ DeliveryInv
  BY DEF IInv
<1>2. UNCHANGED <<ring, hand, pc, arg, cobj, given>>
  BY DEF WorkerStart, WorkerWait, FoundEmpty, WorkerCancelled, HandlerStart, BarrierOpen,
         Cleanup, FreeCache, worker
<1>3. wpc' = "handle" <=> wpc = "handle"
  BY DEF WorkerStart, WorkerWait, FoundEmpty, WorkerCancelled, HandlerStart, BarrierOpen,
         Cleanup, FreeCache, worker
<1>4. Places' = Places /\ (\A k : At(k)' = At(k)) /\ RingInv' /\ queue_cnt' = queue_cnt
  BY <1>1, <1>2, RingFrame DEF ring
<1>5. LockInv' /\ StartInv' /\ WakeInv'
  <2>1. CASE WorkerStart
    BY <1>1, <1>2, <1>4, <2>1 DEF WorkerStart, LockInv, StartInv, WakeInv
  <2>2. CASE WorkerWait
    BY <1>1, <1>2, <1>4, <2>2 DEF WorkerWait, LockInv, StartInv, WakeInv
  <2>3. CASE FoundEmpty
    BY <1>1, <1>2, <1>4, <2>3 DEF FoundEmpty, LockInv, StartInv, WakeInv
  <2>4. CASE WorkerCancelled
    BY <1>1, <1>2, <1>4, <2>4 DEF WorkerCancelled, LockInv, StartInv, WakeInv
  <2>5. CASE HandlerStart
    BY <1>1, <1>2, <1>4, <2>5 DEF HandlerStart, worker, LockInv, StartInv, WakeInv
  <2>6. CASE BarrierOpen
    BY <1>1, <1>2, <1>4, <2>6 DEF BarrierOpen, LockInv, StartInv, WakeInv
  <2>7. CASE Cleanup
    BY <1>1, <1>2, <1>4, <2>7 DEF Cleanup, worker, LockInv, StartInv, WakeInv
  <2>8. CASE FreeCache
    BY <1>1, <1>2, <1>4, <2>8 DEF FreeCache, LockInv, StartInv, WakeInv
  <2> QED
    BY <2>1, <2>2, <2>3, <2>4, <2>5, <2>6, <2>7, <2>8
<1>6. PairInv' /\ NopInv' /\ DeliveryInv'
  BY <1>1, <1>2, <1>3, <1>4 DEF PairInv, PairOK, NopInv, DeliveryInv, Carries
<1> QED
  BY <1>4, <1>5, <1>6

\* The invariant holds initially: the queue is empty and nobody has started.
LEMMA InvInit == Init => IInv
<1> SUFFICES ASSUME Init PROVE IInv
  OBVIOUS
<1> USE CapacityAssumption, NoneAssumption
<1>1. TypeOK
  BY DEF Init, TypeOK, NoPair, Pairs, WorkerStates, HandlerStates, ProducerStates
<1>2. Places = {} /\ RingInv
  BY DEF Init, Places, RingInv, Slot
<1>3. LockInv /\ StartInv /\ WakeInv
  BY DEF Init, LockInv, StartInv, WakeInv
<1>4. PairInv /\ NopInv
  BY <1>2 DEF Init, PairInv, NopInv, NopWaitStates
<1>5. DeliveryInv
  <2>1. \A p \in Producers : given[p] = {} /\ Len(cobj[p]) = 0
    BY DEF Init
  <2>2. wpc # "handle" /\ 1..0 = {}
    BY DEF Init
  <2> QED
    BY <1>2, <2>1, <2>2 DEF DeliveryInv
<1> QED
  BY <1>1, <1>2, <1>3, <1>4, <1>5 DEF IInv

\* Every step preserves the invariant.
LEMMA InvStep == IInv /\ [Next]_vars => IInv'
<1> SUFFICES ASSUME IInv, [Next]_vars PROVE IInv'
  OBVIOUS
<1> DEFINE Rest == RingInv /\ LockInv /\ StartInv /\ WakeInv /\ PairInv /\ NopInv /\ DeliveryInv
<1>1. TypeOK'
  BY TypeStep DEF IInv
<1>2. Rest'
  <2>1. CASE UNCHANGED vars
    <3>1. Places' = Places /\ (\A k : At(k)' = At(k)) /\ (RingInv' <=> RingInv)
      BY <2>1, RingFrame DEF vars
    <3> QED
      BY <2>1, <3>1 DEF vars, ring, worker, IInv, LockInv, StartInv, WakeInv, PairInv,
                        PairOK, NopInv, DeliveryInv, Carries
  <2>2. CASE Terminated
    BY <2>1, <2>2 DEF Terminated
  <2>3. CASE \E p \in Producers : Spawn(p) \/ Producer(p)
    BY <2>3, QuietProducerStep, AddStep, NopStep DEF Producer
  <2>4. CASE Worker
    BY <2>4, ControlStep, ExtractStep, HandleNopStep, HandleItemStep DEF Worker
  <2>5. CASE Main
    BY <2>5, ControlStep DEF Main
  <2> QED
    BY <2>1, <2>2, <2>3, <2>4, <2>5 DEF Next
<1> QED
  BY <1>1, <1>2 DEF IInv

\* The inductive invariant is an invariant of the item cache.
THEOREM Invariance == Spec => []IInv
BY InvInit, InvStep, PTL DEF Spec

-----------------------------------------------------------------------------
(***************************************************************************)
(* What the invariant gives.                                               *)
(***************************************************************************)
\* Every variable keeps its type; in particular the ring indices stay in range and only
\* items and conditions ever reach the worker.
THEOREM TypeCorrect == Spec => []TypeOK
<1>1. IInv => TypeOK
  BY DEF IInv
<1> QED
  BY <1>1, Invariance, PTL

\* The icache worker never returns from its loop while probes may still queue pairs.
THEOREM WorkerStaysAlive == Spec => []WorkerAlive
<1>1. IInv => WorkerAlive
  BY DEF IInv, WakeInv, WorkerAlive
<1> QED
  BY <1>1, Invariance, PTL

\* No signal of notempty is lost: the worker never sleeps on a non-empty queue.
THEOREM NoWakeupLost == Spec => []NoLostWakeup
<1>1. IInv => NoLostWakeup
  BY DEF IInv, WakeInv, NoLostWakeup
<1> QED
  BY <1>1, Invariance, PTL

\* A thread waits for a NOP exactly as long as that NOP is queued or being handled.
THEOREM NopsAreNotLost == Spec => []NopNotLost
<1>1. ASSUME IInv PROVE NopNotLost
  <2> USE NoneAssumption
  <2>1. TypeOK /\ PairInv /\ NopInv
    BY <1>1 DEF IInv
  <2>2. ASSUME NEW e \in Pairs, NEW p \in Producers, PairOK(e), e.cond = p
        PROVE  e = NopPair(p)
    BY <2>2 DEF Pairs, PairOK, NopPair
  <2>3. hand \in Pairs /\ \A k \in Places : At(k) \in Pairs
    BY <2>1, PlacesInRange DEF TypeOK, At
  <2>4. ASSUME NEW p \in Producers
        PROVE  /\ InQueue(NopPair(p)) <=> \E k \in Places : At(k).cond = p
               /\ InHand(NopPair(p)) <=> wpc = "handle" /\ hand.cond = p
    <3>1. NopPair(p).cond = p
      BY DEF NopPair
    <3> QED
      BY <2>1, <2>2, <2>3, <3>1 DEF InQueue, InHand, PairInv
  <2> QED
    BY <2>1, <2>4 DEF NopInv, NopNotLost
<1> QED
  BY <1>1, Invariance, PTL

\* When a NOP has returned, the collected object is complete and the worker does not
\* touch it.
THEOREM SyncIsSound == Spec => []SyncBeforeModify
<1>1. ASSUME IInv PROVE SyncBeforeModify
  <2>1. NopInv /\ DeliveryInv
    BY <1>1 DEF IInv
  <2>2. SUFFICES ASSUME NEW p \in Producers, pc[p] \in SyncedStates
                 PROVE  Pending(p) = {} /\ Collected(p) = {Content(i) : i \in given[p]}
    BY DEF SyncBeforeModify
  <2>3. (\A j \in Places : At(j).cobj # p) /\ (wpc = "handle" => hand.cobj # p)
    BY <2>1, <2>2 DEF NopInv
  <2>4. \A i : ItemPair(p, i).cobj = p
    BY DEF ItemPair
  <2>5. Pending(p) = {}
    BY <2>3, <2>4 DEF Pending, InQueue, InHand
  <2>6. /\ \A i \in given[p] : \E n \in 1..Len(cobj[p]) : Content(cobj[p][n]) = Content(i)
        /\ \A n \in 1..Len(cobj[p]) : \E i \in given[p] : Content(cobj[p][n]) = Content(i)
    BY <2>1, <2>3 DEF DeliveryInv, Carries
  <2> QED
    BY <2>5, <2>6 DEF Collected
<1> QED
  BY <1>1, Invariance, PTL

-----------------------------------------------------------------------------
(***************************************************************************)
(* Chains and cached items.                                                *)
(***************************************************************************)
\* A cached item sits in the chain of its own hash.
LEMMA InChainIsCached ==
  ASSUME TypeOK, ChainInv, NEW c \in Keys, NEW n \in 1..Len(tree[c])
  PROVE  tree[c][n] \in Items /\ Cached(tree[c][n])
<1>1. tree[c] \in Seq(Items)
  BY DEF TypeOK
<1>2. tree[c][n] \in Items /\ ID(tree[c][n]) = c
  BY <1>1 DEF ChainInv
<1> QED
  BY <1>2 DEF Cached

\* Cached items with the same content are the same item.
LEMMA CachedByContent ==
  ASSUME TypeOK, ChainInv, NEW i \in Items, NEW j \in Items, Cached(i), Cached(j),
         Content(i) = Content(j)
  PROVE  i = j
<1>1. ID(i) = ID(j) /\ ID(i) \in Keys
  BY HashAssumption
<1>2. PICK m \in 1..Len(tree[ID(i)]) : tree[ID(i)][m] = i
  BY DEF Cached
<1>3. PICK n \in 1..Len(tree[ID(i)]) : tree[ID(i)][n] = j
  BY <1>1 DEF Cached
<1>4. m = n
  BY <1>1, <1>2, <1>3 DEF ChainInv
<1> QED
  BY <1>2, <1>3, <1>4

\* No item of the chain has the content of an item that Find does not find.
LEMMA NotFound ==
  ASSUME NEW chain \in Seq(Items), NEW i \in Items, Find(chain, i) = 0
  PROVE  \A k \in 1..Len(chain) : Content(chain[k]) # Content(i)
<1>1. Len(chain) \in Nat
  OBVIOUS
<1> QED
  BY <1>1 DEF Find

\* The invariant holds initially: there is no item anywhere.
LEMMA ItemInit == Init => ItemInv
<1> SUFFICES ASSUME Init PROVE ItemInv
  OBVIOUS
<1>1. Places = {} /\ wpc = "start"
  BY DEF Init, Places
<1>2. \A c \in Keys : Len(tree[c]) = 0
  BY DEF Init
<1>3. 1..0 = {}
  OBVIOUS
<1>4. ChainInv
  BY <1>2, <1>3 DEF ChainInv
<1>5. \A i \in Items : ~Cached(i)
  BY <1>2, <1>3, HashAssumption DEF Cached
<1>6. \A p \in Producers : Len(cobj[p]) = 0 /\ pc[p] = "idle" /\ flag[p] = "unknown"
  BY DEF Init
<1>7. CachedInv
  BY <1>3, <1>5, <1>6 DEF CachedInv
<1>8. TransitInv
  BY <1>1, <1>6 DEF TransitInv, Adds, Handles
<1>9. FlagInv
  BY <1>6 DEF FlagInv, RefusedStates
<1> QED
  BY <1>4, <1>7, <1>8, <1>9 DEF ItemInv

\* A step that changes neither the tree nor the unique IDs, leaves the cached items alive
\* and changes no collected object leaves the cache alone.
LEMMA CacheFrame ==
  ASSUME ItemInv, UNCHANGED <<tree, ids, next_ID, cobj>>,
         wpc = "freed" => wpc' = "freed",
         \A i \in Items : mem[i] = "live" => mem'[i] = "live"
  PROVE  ChainInv' /\ CachedInv' /\ \A i \in Items : Cached(i)' <=> Cached(i)
<1>1. \A i \in Items : Cached(i)' <=> Cached(i)
  BY DEF Cached
<1>2. ChainInv'
  BY DEF ItemInv, ChainInv
<1>3. CachedInv'
  <2>1. CachedInv
    BY DEF ItemInv
  <2>2. \A p \in Producers : \A n \in 1..Len(cobj[p]) : Cached(cobj[p][n])' <=> Cached(cobj[p][n])
    BY DEF Cached
  <2> QED
    BY <1>1, <2>1, <2>2 DEF CachedInv
<1> QED
  BY <1>1, <1>2, <1>3

-----------------------------------------------------------------------------
(***************************************************************************)
(* Every action preserves the invariant.                                   *)
(***************************************************************************)
\* probe_item_collect decides about a new item, which nobody else knows.
LEMMA CollectItems ==
  ASSUME IInv, ItemInv, NEW p \in Producers, NEW x \in Items,
         CollectItem(p, x) \/ CollectFiltered(p, x) \/ CollectRefused(p, x)
  PROVE  ItemInv'
<1>1. TypeOK /\ ChainInv /\ CachedInv /\ TransitInv /\ FlagInv
  BY DEF IInv, ItemInv
<1>2. /\ mem[x] = "fresh" /\ pc[p] = "collect"
      /\ \A i \in Items : i # x => mem'[i] = mem[i]
      /\ UNCHANGED <<ring, tree, ids, next_ID, cobj, flag, wpc, hand>>
      /\ \A q \in Producers : q # p => pc'[q] = pc[q] /\ arg'[q] = arg[q]
  BY <1>1 DEF CollectItem, CollectFiltered, CollectRefused, worker, TypeOK
<1>3. Places' = Places /\ (\A k : At(k)' = At(k))
  BY <1>2, RingFrame
<1>4. ChainInv' /\ CachedInv' /\ \A i \in Items : Cached(i)' <=> Cached(i)
  BY <1>2, CacheFrame
<1>5. /\ ~Cached(x) /\ ~Handles(x)
      /\ \A q \in Producers : ~Adds(q, x)
      /\ \A k \in Places : At(k).item # x
  BY <1>1, <1>2 DEF CachedInv, TransitInv
<1>6. \/ pc'[p] = "add" /\ arg'[p] = x /\ mem'[x] = "live"
      \/ pc'[p] = "collect"
      \/ pc'[p] = "limit" /\ flag[p] # "incomplete"
  BY <1>1, <1>2 DEF CollectItem, CollectFiltered, CollectRefused, TypeOK
<1>7. /\ \A q \in Producers, i \in Items : Adds(q, i)' => Adds(q, i) \/ (q = p /\ i = x /\ mem'[x] = "live")
      /\ \A i \in Items : Handles(i)' <=> Handles(i)
  BY <1>2, <1>6 DEF Adds, Handles
<1>8. TransitInv'
  BY <1>1, <1>2, <1>3, <1>4, <1>5, <1>7 DEF TransitInv
<1>9. FlagInv'
  BY <1>1, <1>2, <1>6 DEF FlagInv, RefusedStates, TypeOK
<1> QED
  BY <1>4, <1>8, <1>9 DEF ItemInv

\* Steps of a probe thread that move no item.
LEMMA ThreadItems ==
  ASSUME IInv, ItemInv, NEW p \in Producers,
         \/ ProbeMainReturns(p) \/ WaitNotFull(p) \/ NopReturn(p)
         \/ MarkIncomplete(p) \/ Close(p) \/ Spawn(p)
  PROVE  ItemInv'
<1>1. TypeOK /\ ChainInv /\ CachedInv /\ TransitInv /\ FlagInv
  BY DEF IInv, ItemInv
<1>2. /\ UNCHANGED <<ring, tree, ids, next_ID, cobj, wpc, hand, mem>>
      /\ \A q \in Producers : q # p => pc'[q] = pc[q] /\ arg'[q] = arg[q] /\ flag'[q] = flag[q]
  BY <1>1 DEF ProbeMainReturns, WaitNotFull, NopReturn, MarkIncomplete, Close, Spawn,
              worker, TypeOK
<1>3. Places' = Places /\ (\A k : At(k)' = At(k))
  BY <1>2, RingFrame
<1>4. ChainInv' /\ CachedInv' /\ \A i \in Items : Cached(i)' <=> Cached(i)
  BY <1>2, CacheFrame
<1>5. /\ pc'[p] \in {"add", "addfull"} => pc[p] \in {"add", "addfull"} /\ arg'[p] = arg[p]
      /\ pc'[p] \in RefusedStates => pc[p] \in RefusedStates /\ flag'[p] = flag[p]
      /\ flag'[p] = "computed" => pc'[p] = "done" \/ flag[p] = "computed"
      /\ pc[p] # "done"
  <2>1. CASE WaitNotFull(p)
    BY <1>1, <2>1 DEF WaitNotFull, TestStates, FullState, RefusedStates, TypeOK
  <2>2. CASE NopReturn(p)
    BY <1>1, <2>2 DEF NopReturn, NopWokenStates, SyncedState, RefusedStates, TypeOK
  <2>3. CASE ProbeMainReturns(p) \/ MarkIncomplete(p) \/ Close(p) \/ Spawn(p)
    BY <1>1, <2>3 DEF ProbeMainReturns, MarkIncomplete, Close, Spawn, RefusedStates, TypeOK
  <2> QED
    BY <2>1, <2>2, <2>3
<1>6. /\ \A q \in Producers, i \in Items : Adds(q, i)' => Adds(q, i)
      /\ \A i \in Items : Handles(i)' <=> Handles(i)
  BY <1>2, <1>5 DEF Adds, Handles
<1>7. TransitInv'
  BY <1>1, <1>2, <1>3, <1>4, <1>6 DEF TransitInv
<1>8. FlagInv'
  BY <1>1, <1>2, <1>5 DEF FlagInv
<1> QED
  BY <1>4, <1>7, <1>8 DEF ItemInv

\* probe_icache_add: the item moves from its thread to the last place of the queue.
LEMMA AddItems ==
  ASSUME IInv, ItemInv, NEW p \in Producers, Add(p)
  PROVE  ItemInv'
<1> USE NoneAssumption
<1> DEFINE x == arg[p]
<1>1. TypeOK /\ RingInv /\ ChainInv /\ CachedInv /\ TransitInv /\ FlagInv
  BY DEF IInv, ItemInv
<1>2. /\ x \in Items /\ Adds(p, x)
      /\ pc'[p] = "collect"
      /\ \A q \in Producers : q # p => pc'[q] = pc[q] /\ arg'[q] = arg[q]
      /\ wpc' = IF wpc = "wait" THEN "woken" ELSE wpc
      /\ UNCHANGED <<hand, tree, ids, next_ID, cobj, flag, mem>>
  BY <1>1 DEF Add, SignalNotEmpty, TypeOK, IInv, PairInv, Adds
<1>3. /\ queue_cnt' = queue_cnt + 1 /\ queue_cnt \in Nat
      /\ \A k \in Places : At(k)' = At(k)
      /\ \A k \in Int : k = queue_cnt => At(k)' = ItemPair(p, x)
  BY <1>1, EnqueueRing DEF Add, TypeOK
<1>4. \A k \in Places' : (k \in Places /\ At(k)' = At(k)) \/ (k = queue_cnt /\ (At(k)').item = x)
  BY <1>3 DEF Places, ItemPair
<1>5. ChainInv' /\ CachedInv' /\ \A i \in Items : Cached(i)' <=> Cached(i)
  BY <1>2, CacheFrame
<1>6. /\ \A q \in Producers, i \in Items : Adds(q, i)' => q # p /\ Adds(q, i)
      /\ \A i \in Items : Handles(i)' <=> Handles(i)
  BY <1>2 DEF Adds, Handles
<1>7. TransitInv'
  BY <1>1, <1>2, <1>4, <1>5, <1>6 DEF TransitInv
<1>8. FlagInv'
  BY <1>1, <1>2 DEF FlagInv, RefusedStates, Adds
<1> QED
  BY <1>5, <1>7, <1>8 DEF ItemInv

\* probe_icache_nop: a NOP carries no item.
LEMMA NopItems ==
  ASSUME IInv, ItemInv, NEW p \in Producers, Nop(p)
  PROVE  ItemInv'
<1> USE NoneAssumption
<1>1. TypeOK /\ RingInv /\ ChainInv /\ CachedInv /\ TransitInv /\ FlagInv
  BY DEF IInv, ItemInv
<1>2. /\ pc'[p] \in NopWaitStates /\ (pc'[p] \in RefusedStates => pc[p] \in RefusedStates)
      /\ pc[p] # "done"
      /\ \A q \in Producers : q # p => pc'[q] = pc[q]
      /\ wpc' = IF wpc = "wait" THEN "woken" ELSE wpc
      /\ UNCHANGED <<hand, tree, ids, next_ID, arg, cobj, flag, mem>>
  BY <1>1 DEF Nop, SignalNotEmpty, TypeOK, NopStates, NopWaitState, NopWaitStates,
              RefusedStates
<1>3. /\ queue_cnt' = queue_cnt + 1 /\ queue_cnt \in Nat
      /\ \A k \in Places : At(k)' = At(k)
      /\ \A k \in Int : k = queue_cnt => At(k)' = NopPair(p)
  BY <1>1, EnqueueRing DEF Nop, TypeOK
<1>4. \A k \in Places' : (k \in Places /\ At(k)' = At(k)) \/ (k = queue_cnt /\ (At(k)').item = None)
  BY <1>3 DEF Places, NopPair
<1>5. ChainInv' /\ CachedInv' /\ \A i \in Items : Cached(i)' <=> Cached(i)
  BY <1>2, CacheFrame
<1>6. /\ \A q \in Producers, i \in Items : Adds(q, i)' => Adds(q, i)
      /\ \A i \in Items : Handles(i)' <=> Handles(i)
  BY <1>2 DEF Adds, Handles, NopWaitStates
<1>7. TransitInv'
  BY <1>1, <1>2, <1>4, <1>5, <1>6 DEF TransitInv
<1>8. FlagInv'
  BY <1>1, <1>2 DEF FlagInv
<1> QED
  BY <1>5, <1>7, <1>8 DEF ItemInv

\* The worker extracts the first pair: its item moves from place 0 to the hand.
LEMMA ExtractItems ==
  ASSUME IInv, ItemInv, Extract
  PROVE  ItemInv'
<1>1. TypeOK /\ RingInv /\ ChainInv /\ CachedInv /\ TransitInv /\ FlagInv
  BY DEF IInv, ItemInv
<1>2. /\ wpc # "handle" /\ wpc # "freed" /\ wpc' = "handle"
      /\ queue_cnt \in Nat \ {0} /\ hand' = At(0)
      /\ \A k \in Places' : k + 1 \in Places /\ At(k)' = At(k + 1)
      /\ UNCHANGED <<tree, ids, next_ID, arg, cobj, flag, mem>>
  BY <1>1, ExtractRing DEF Extract
<1>3. 0 \in Places /\ \A k \in Places' : k \in Int /\ k + 1 # 0
  BY <1>1, <1>2, CapacityAssumption DEF Places, TypeOK, Extract
<1>4. \A q \in Producers : \/ pc'[q] = pc[q]
                           \/ pc[q] = "addfull" /\ pc'[q] = "add"
                           \/ pc[q] = "limitfull" /\ pc'[q] = "limit"
                           \/ pc[q] = "finalfull" /\ pc'[q] = "final"
  <2>1. SignalNotFull /\ pc \in [Producers -> ProducerStates]
    BY <1>1, ExtractRing DEF TypeOK
  <2> QED
    BY <2>1 DEF SignalNotFull, NotFullWaiters, NotFullStates, RetryState
<1>5. ChainInv' /\ CachedInv' /\ \A i \in Items : Cached(i)' <=> Cached(i)
  BY <1>2, CacheFrame
<1>6. /\ \A q \in Producers, i \in Items : Adds(q, i)' => Adds(q, i)
      /\ \A i \in Items : Handles(i)' <=> At(0).item = i
  BY <1>2, <1>4 DEF Adds, Handles
<1>7. ASSUME NEW i \in Items, NEW k \in Places', (At(k)').item = i
      PROVE  /\ mem[i] = "live" /\ ~Cached(i) /\ At(0).item # i
             /\ \A j \in Places' : (At(j)').item = i => j = k
  <2>1. k + 1 \in Places /\ At(k + 1).item = i
    BY <1>2, <1>7
  <2>2. /\ mem[i] = "live" /\ ~Cached(i)
        /\ \A j \in Places : At(j).item = i => j = k + 1
    BY <1>1, <2>1 DEF TransitInv
  <2>3. At(0).item # i
    BY <1>3, <2>2
  <2>4. ASSUME NEW j \in Places', (At(j)').item = i
        PROVE  j = k
    <3>1. j + 1 \in Places /\ At(j + 1).item = i
      BY <1>2, <2>4
    <3>2. j + 1 = k + 1
      BY <2>2, <3>1
    <3> QED
      BY <1>3, <3>2
  <2> QED
    BY <2>2, <2>3, <2>4
<1>8. ASSUME NEW i \in Items, NEW q \in Producers, Adds(q, i)
      PROVE  /\ mem[i] = "live" /\ ~Cached(i) /\ At(0).item # i
             /\ \A r \in Producers : Adds(r, i) => r = q
             /\ \A k \in Places' : (At(k)').item # i
  BY <1>1, <1>2, <1>3, <1>8 DEF TransitInv
<1>9. ASSUME NEW i \in Items, At(0).item = i
      PROVE  mem[i] = "live" /\ ~Cached(i)
  BY <1>1, <1>3, <1>9 DEF TransitInv
<1>10. TransitInv'
  BY <1>2, <1>5, <1>6, <1>7, <1>8, <1>9 DEF TransitInv
<1>11. FlagInv'
  BY <1>1, <1>2, <1>4 DEF FlagInv, RefusedStates
<1> QED
  BY <1>5, <1>10, <1>11 DEF ItemInv

\* A NOP is handled: no item moves.
LEMMA HandleNopItems ==
  ASSUME IInv, ItemInv, HandleNop
  PROVE  ItemInv'
<1>1. TypeOK /\ ChainInv /\ CachedInv /\ TransitInv /\ FlagInv /\ PairInv
  BY DEF IInv, ItemInv
<1>2. /\ wpc = "handle" /\ wpc' = "relock"
      /\ UNCHANGED <<ring, hand, tree, ids, next_ID, arg, cobj, flag, mem>>
      /\ \A q \in Producers : \/ pc'[q] = pc[q]
                              \/ pc[q] = "limitwait" /\ pc'[q] = "limitwoken"
                              \/ pc[q] = "finalwait" /\ pc'[q] = "finalwoken"
  BY <1>1 DEF HandleNop, TypeOK, NopWaitStates, NopWokenState
<1>3. Places' = Places /\ (\A k : At(k)' = At(k))
  BY <1>2, RingFrame
<1>4. ChainInv' /\ CachedInv' /\ \A i \in Items : Cached(i)' <=> Cached(i)
  BY <1>2, CacheFrame
<1>5. /\ \A q \in Producers, i \in Items : Adds(q, i)' => Adds(q, i)
      /\ \A i \in Items : ~Handles(i)'
  BY <1>2 DEF Adds, Handles
<1>6. TransitInv'
  BY <1>1, <1>2, <1>3, <1>4, <1>5 DEF TransitInv
<1>7. FlagInv'
  BY <1>1, <1>2 DEF FlagInv, RefusedStates
<1> QED
  BY <1>4, <1>6, <1>7 DEF ItemInv

\* A duplicate is released: only the worker still had it, and the object gets the item
\* that is cached.
LEMMA HandleHitItems ==
  ASSUME IInv, ItemInv, HandleHit
  PROVE  ItemInv'
<1> DEFINE x == hand.item
<1> DEFINE p == hand.cobj
<1> DEFINE chain == tree[ID(x)]
<1> DEFINE k == Find(chain, x)
<1>1. TypeOK /\ ChainInv /\ CachedInv /\ TransitInv /\ FlagInv /\ PairInv
  BY DEF IInv, ItemInv
<1>2. p \in Producers /\ x \in Items /\ Handles(x)
  BY <1>1 DEF HandleHit, PairInv, PairOK, Handles
<1>3. /\ wpc = "handle" /\ wpc' = "relock"
      /\ cobj' = [cobj EXCEPT ![p] = Append(@, chain[k])]
      /\ mem' = [mem EXCEPT ![x] = "freed"]
      /\ UNCHANGED <<ring, hand, tree, ids, next_ID, pc, arg, flag>>
  BY DEF HandleHit
<1>4. chain \in Seq(Items) /\ ID(x) \in Keys
  BY <1>1, <1>2, HashAssumption DEF TypeOK
<1>5. k \in 1..Len(chain)
  BY <1>2, <1>4, FindInChain DEF HandleHit
<1>6. chain[k] \in Items /\ Cached(chain[k])
  BY <1>1, <1>4, <1>5, InChainIsCached
<1>7. \A i \in Items : Cached(i)' <=> Cached(i)
  BY <1>3 DEF Cached
<1>8. ChainInv'
  BY <1>1, <1>3 DEF ChainInv
<1>9. /\ ~Cached(x)
      /\ \A q \in Producers : ~Adds(q, x)
      /\ \A n \in Places : At(n).item # x
  BY <1>1, <1>2 DEF TransitInv
<1>10. \A i \in Items : i # x => mem'[i] = mem[i]
  BY <1>1, <1>3 DEF TypeOK
<1>11. ASSUME NEW q \in Producers, NEW n \in 1..Len(cobj'[q])
       PROVE  cobj'[q][n] \in Items /\ Cached(cobj'[q][n])
  <2>1. cobj[q] \in Seq(Items) /\ \A m \in 1..Len(cobj[q]) : Cached(cobj[q][m])
    BY <1>1, <1>3 DEF TypeOK, CachedInv
  <2>2. CASE q # p
    BY <1>1, <1>3, <2>1, <2>2 DEF TypeOK
  <2>3. CASE q = p
    <3>1. cobj'[q] = Append(cobj[q], chain[k])
      BY <1>1, <1>2, <1>3, <2>3 DEF TypeOK
    <3>2. (n \in 1..Len(cobj[q]) /\ cobj'[q][n] = cobj[q][n]) \/ cobj'[q][n] = chain[k]
      BY <1>6, <2>1, <3>1
    <3> QED
      BY <1>6, <2>1, <3>2
  <2> QED
    BY <2>2, <2>3
<1>12. CachedInv'
  <2>1. /\ \A i \in Items : Cached(i)' => mem'[i] = "live" /\ ids'[i] \in 0..next_ID'-1
        /\ \A i, j \in Items : Cached(i)' /\ Cached(j)' /\ ids'[i] = ids'[j] => i = j
    BY <1>1, <1>3, <1>7, <1>9, <1>10 DEF CachedInv
  <2>2. \A q \in Producers : \A n \in 1..Len(cobj'[q]) : Cached(cobj[q][n])'
    BY <1>7, <1>11
  <2> QED
    BY <2>1, <2>2 DEF CachedInv
<1>13. Places' = Places /\ (\A n : At(n)' = At(n))
  BY <1>3, RingFrame
<1>14. /\ \A q \in Producers, i \in Items : Adds(q, i)' <=> Adds(q, i)
       /\ \A i \in Items : ~Handles(i)'
  BY <1>3 DEF Adds, Handles
<1>15. TransitInv'
  BY <1>1, <1>7, <1>9, <1>10, <1>13, <1>14 DEF TransitInv
<1>16. FlagInv'
  BY <1>1, <1>3 DEF FlagInv
<1> QED
  BY <1>8, <1>12, <1>15, <1>16 DEF ItemInv

\* A new content joins its chain and gets an ID nobody has.
LEMMA HandleMissItems ==
  ASSUME IInv, ItemInv, HandleMiss
  PROVE  ItemInv'
<1> DEFINE x == hand.item
<1> DEFINE p == hand.cobj
<1> DEFINE h == ID(x)
<1> DEFINE chain == tree[h]
<1>1. TypeOK /\ ChainInv /\ CachedInv /\ TransitInv /\ FlagInv /\ PairInv
  BY DEF IInv, ItemInv
<1>2. p \in Producers /\ x \in Items /\ Handles(x)
  BY <1>1 DEF HandleMiss, PairInv, PairOK, Handles
<1>3. /\ wpc = "handle" /\ wpc' = "relock"
      /\ Find(chain, x) = 0
      /\ tree' = [tree EXCEPT ![h] = Append(@, x)]
      /\ ids' = [ids EXCEPT ![x] = next_ID]
      /\ next_ID' = next_ID + 1
      /\ cobj' = [cobj EXCEPT ![p] = Append(@, x)]
      /\ UNCHANGED <<ring, hand, pc, arg, flag, mem>>
  BY DEF HandleMiss
<1>4. chain \in Seq(Items) /\ h \in Keys
  BY <1>1, <1>2, HashAssumption DEF TypeOK
<1>5. /\ tree'[h] = Append(chain, x)
      /\ \A c \in Keys : c # h => tree'[c] = tree[c]
  BY <1>1, <1>3, <1>4 DEF TypeOK
<1>6. /\ Len(chain) \in Nat /\ Len(tree'[h]) = Len(chain) + 1
      /\ \A n \in 1..Len(chain) : tree'[h][n] = chain[n]
      /\ tree'[h][Len(chain) + 1] = x
  BY <1>2, <1>4, <1>5
<1>7. /\ \A n \in 1..Len(tree'[h]) : n \in 1..Len(chain) \/ n = Len(chain) + 1
      /\ \A n \in 1..Len(chain) : n \in 1..Len(tree'[h])
      /\ Len(chain) + 1 \in 1..Len(tree'[h])
  BY <1>6
<1>8. \A n \in 1..Len(chain) : Content(chain[n]) # Content(x)
  BY <1>2, <1>3, <1>4, NotFound
<1>9. ChainInv'
  <2>1. ASSUME NEW c \in Keys, c # h
        PROVE  /\ \A n \in 1..Len(tree'[c]) : ID(tree'[c][n]) = c
               /\ \A m, n \in 1..Len(tree'[c]) :
                     Content(tree'[c][m]) = Content(tree'[c][n]) => m = n
    BY <1>1, <1>5, <2>1 DEF ChainInv
  <2>2. /\ \A n \in 1..Len(chain) : ID(chain[n]) = h
        /\ \A m, n \in 1..Len(chain) : Content(chain[m]) = Content(chain[n]) => m = n
    BY <1>1, <1>4 DEF ChainInv
  <2>3. ASSUME NEW n \in 1..Len(tree'[h])
        PROVE  ID(tree'[h][n]) = h
    BY <1>6, <1>7, <2>2
  <2>4. ASSUME NEW m \in 1..Len(tree'[h]), NEW n \in 1..Len(tree'[h]),
               Content(tree'[h][m]) = Content(tree'[h][n])
        PROVE  m = n
    BY <1>6, <1>7, <1>8, <2>2, <2>4
  <2> QED
    BY <2>1, <2>3, <2>4 DEF ChainInv
<1>10. ASSUME NEW i \in Items
       PROVE  Cached(i)' <=> Cached(i) \/ i = x
  <2>1. CASE ID(i) = h
    BY <1>6, <1>7, <2>1 DEF Cached
  <2>2. CASE ID(i) # h
    BY <1>5, <2>2, HashAssumption DEF Cached
  <2> QED
    BY <2>1, <2>2
<1>11. /\ ~Cached(x) /\ mem[x] = "live"
       /\ \A q \in Producers : ~Adds(q, x)
       /\ \A n \in Places : At(n).item # x
  BY <1>1, <1>2 DEF TransitInv
<1>12. ASSUME NEW q \in Producers, NEW n \in 1..Len(cobj'[q])
       PROVE  cobj'[q][n] \in Items /\ (cobj'[q][n] = x \/ Cached(cobj'[q][n]))
  <2>1. cobj[q] \in Seq(Items) /\ \A m \in 1..Len(cobj[q]) : Cached(cobj[q][m])
    BY <1>1, <1>3 DEF TypeOK, CachedInv
  <2>2. CASE q # p
    BY <1>1, <1>3, <2>1, <2>2 DEF TypeOK
  <2>3. CASE q = p
    <3>1. cobj'[q] = Append(cobj[q], x)
      BY <1>1, <1>2, <1>3, <2>3 DEF TypeOK
    <3>2. (n \in 1..Len(cobj[q]) /\ cobj'[q][n] = cobj[q][n]) \/ cobj'[q][n] = x
      BY <1>2, <2>1, <3>1
    <3> QED
      BY <1>2, <2>1, <3>2
  <2> QED
    BY <2>2, <2>3
<1>13. CachedInv'
  <2>1. ids'[x] = next_ID /\ next_ID \in Nat /\ \A i \in Items : i # x => ids'[i] = ids[i]
    BY <1>1, <1>2, <1>3 DEF TypeOK
  <2>2. \A i \in Items : Cached(i) => ids[i] \in 0..next_ID-1 /\ ids[i] # next_ID
                                      /\ ids[i] \in 0..next_ID'-1
    BY <1>1, <1>3, <2>1 DEF CachedInv
  <2>3. \A i \in Items : Cached(i)' => mem'[i] = "live" /\ ids'[i] \in 0..next_ID'-1
    BY <1>1, <1>3, <1>10, <1>11, <2>1, <2>2 DEF CachedInv
  <2>4. \A i, j \in Items : Cached(i)' /\ Cached(j)' /\ ids'[i] = ids'[j] => i = j
    BY <1>1, <1>10, <2>1, <2>2 DEF CachedInv
  <2>5. \A q \in Producers : \A n \in 1..Len(cobj'[q]) : Cached(cobj[q][n])'
    BY <1>10, <1>12
  <2> QED
    BY <2>3, <2>4, <2>5 DEF CachedInv
<1>14. Places' = Places /\ (\A n : At(n)' = At(n))
  BY <1>3, RingFrame
<1>15. /\ \A q \in Producers, i \in Items : Adds(q, i)' <=> Adds(q, i)
       /\ \A i \in Items : ~Handles(i)'
  BY <1>3 DEF Adds, Handles
<1>16. TransitInv'
  BY <1>1, <1>3, <1>10, <1>11, <1>14, <1>15 DEF TransitInv
<1>17. FlagInv'
  BY <1>1, <1>3 DEF FlagInv
<1> QED
  BY <1>9, <1>13, <1>16, <1>17 DEF ItemInv

\* Start-up, sleep and cancellation of the worker move no item; the release of the cache
\* comes when nothing is on the way.
LEMMA ControlItems ==
  ASSUME IInv, ItemInv,
         \/ WorkerStart \/ WorkerWait \/ FoundEmpty \/ WorkerCancelled
         \/ HandlerStart \/ BarrierOpen \/ Cleanup \/ FreeCache
  PROVE  ItemInv'
<1>1. TypeOK /\ ChainInv /\ CachedInv /\ TransitInv /\ FlagInv /\ WakeInv
  BY DEF IInv, ItemInv
<1>2. /\ UNCHANGED <<ring, hand, ids, next_ID, pc, arg, cobj, flag, mem>>
      /\ wpc' = "handle" <=> wpc = "handle"
      /\ \/ UNCHANGED tree /\ (wpc = "freed" => wpc' = "freed")
         \/ wpc' = "freed" /\ tree' = [c \in Keys |-> << >>]
  <2>1. CASE FreeCache
    BY <2>1 DEF FreeCache, worker
  <2>2. CASE HandlerStart \/ Cleanup
    BY <2>2 DEF HandlerStart, Cleanup, worker
  <2>3. CASE WorkerStart \/ WorkerWait \/ FoundEmpty \/ WorkerCancelled \/ BarrierOpen
    BY <2>3 DEF WorkerStart, WorkerWait, FoundEmpty, WorkerCancelled, BarrierOpen, worker
  <2> QED
    BY <2>1, <2>2, <2>3
<1>3. Places' = Places /\ (\A n : At(n)' = At(n))
  BY <1>2, RingFrame
<1>4. /\ \A q \in Producers, i \in Items : Adds(q, i)' <=> Adds(q, i)
      /\ \A i \in Items : Handles(i)' <=> Handles(i)
  BY <1>2 DEF Adds, Handles
<1>5. ChainInv' /\ CachedInv' /\ \A i \in Items : Cached(i)' => Cached(i)
  <2>1. CASE UNCHANGED tree /\ (wpc = "freed" => wpc' = "freed")
    BY <1>2, <2>1, CacheFrame
  <2>2. CASE wpc' = "freed" /\ tree' = [c \in Keys |-> << >>]
    <3>1. 1..0 = {} /\ \A c \in Keys : Len(tree'[c]) = 0
      BY <2>2
    <3>2. ChainInv'
      BY <3>1 DEF ChainInv
    <3>3. \A i \in Items : ~Cached(i)'
      BY <3>1, HashAssumption DEF Cached
    <3>4. CachedInv'
      BY <2>2, <3>3 DEF CachedInv
    <3> QED
      BY <3>2, <3>3, <3>4
  <2> QED
    BY <1>2, <2>1, <2>2
<1>6. TransitInv'
  BY <1>1, <1>2, <1>3, <1>4, <1>5 DEF TransitInv
<1>7. FlagInv'
  BY <1>1, <1>2 DEF FlagInv
<1> QED
  BY <1>5, <1>6, <1>7 DEF ItemInv

\* Every step preserves the invariant.
LEMMA ItemStep == IInv /\ ItemInv /\ [Next]_vars => ItemInv'
<1> SUFFICES ASSUME IInv, ItemInv, [Next]_vars PROVE ItemInv'
  OBVIOUS
<1>1. CASE UNCHANGED vars
  <2>1. Places' = Places /\ (\A n : At(n)' = At(n))
    BY <1>1, RingFrame DEF vars
  <2>2. ChainInv' /\ CachedInv' /\ \A i \in Items : Cached(i)' <=> Cached(i)
    BY <1>1, CacheFrame DEF vars, worker
  <2>3. TransitInv' /\ FlagInv'
    BY <1>1, <2>1, <2>2 DEF vars, worker, ItemInv, TransitInv, FlagInv, Adds, Handles
  <2> QED
    BY <2>2, <2>3 DEF ItemInv
<1>2. CASE Terminated
  BY <1>1, <1>2 DEF Terminated
<1>3. CASE \E p \in Producers : Spawn(p) \/ Producer(p)
  BY <1>3, CollectItems, ThreadItems, AddItems, NopItems DEF Producer
<1>4. CASE Worker
  BY <1>4, ControlItems, ExtractItems, HandleNopItems, HandleHitItems, HandleMissItems
     DEF Worker
<1>5. CASE Main
  BY <1>5, ControlItems DEF Main
<1> QED
  BY <1>1, <1>2, <1>3, <1>4, <1>5 DEF Next

\* Both halves of the inductive invariant hold in every reachable state.
THEOREM ItemInvariance == Spec => [](IInv /\ ItemInv)
BY InvInit, InvStep, ItemInit, ItemStep, PTL DEF Spec

-----------------------------------------------------------------------------
(***************************************************************************)
(* What the invariant gives.                                               *)
(***************************************************************************)
\* Membership in Pending, in terms of the parts of the pairs on the way.
LEMMA PendingParts ==
  ASSUME IInv, NEW p \in Producers, NEW i \in Items
  PROVE  i \in Pending(p) <=> \/ \E k \in Places : Carries(At(k), p, i)
                              \/ wpc = "handle" /\ Carries(hand, p, i)
<1> USE NoneAssumption
<1>1. TypeOK /\ PairInv
  BY DEF IInv
<1>2. ASSUME NEW e \in Pairs, PairOK(e)
      PROVE  Carries(e, p, i) <=> e = ItemPair(p, i)
  BY <1>2 DEF Pairs, PairOK, Carries, ItemPair
<1>3. hand \in Pairs /\ \A k \in Places : At(k) \in Pairs
  BY <1>1, PlacesInRange DEF TypeOK, At
<1>4. /\ InQueue(ItemPair(p, i)) <=> \E k \in Places : Carries(At(k), p, i)
      /\ InHand(ItemPair(p, i)) <=> wpc = "handle" /\ Carries(hand, p, i)
  BY <1>1, <1>2, <1>3 DEF InQueue, InHand, PairInv
<1> QED
  BY <1>4 DEF Pending

\* The cache is canonical: duplicate elimination leaves one live item per content, with a
\* unique ID of its own, and never releases an item that something still points to.
THEOREM CacheIsCanonical == Spec => []CacheCanonical
<1>1. ASSUME IInv, ItemInv PROVE CacheCanonical
  <2>1. TypeOK /\ ChainInv /\ CachedInv /\ TransitInv
    BY <1>1 DEF IInv, ItemInv
  <2>2. ASSUME NEW i \in Items, NEW j \in Items, Cached(i), Cached(j), i # j
        PROVE  Content(i) # Content(j) /\ ids[i] # ids[j]
    BY <2>1, <2>2, CachedByContent DEF CachedInv
  <2>3. ASSUME NEW p \in Producers, NEW i \in Pending(p)
        PROVE  mem[i] = "live" /\ ~Cached(i)
    <3>1. i \in Items
      BY DEF Pending
    <3>2. (\E k \in Places : At(k).item = i) \/ Handles(i)
      BY <1>1, <3>1, PendingParts DEF Carries, Handles
    <3> QED
      BY <2>1, <3>1, <3>2 DEF TransitInv
  <2> QED
    BY <2>1, <2>2, <2>3 DEF CacheCanonical, CachedInv
<1> QED
  BY <1>1, ItemInvariance, PTL

\* Once its thread is done, nobody modifies a collected object, and the mark that it is
\* incomplete is never lost.
THEOREM ObjectsAreStable == Spec => ObjectStable
<1> DEFINE Kept == \A p \in Producers :
                      /\ pc[p] = "done" => cobj'[p] = cobj[p] /\ flag'[p] = flag[p]
                      /\ flag[p] = "incomplete" => flag'[p] = "incomplete"
<1>1. ASSUME IInv, [Next]_vars PROVE Kept
  <2>1. TypeOK /\ NopInv
    BY <1>1 DEF IInv
  <2>2. ASSUME NEW q \in Producers, Close(q) \/ MarkIncomplete(q)
        PROVE  Kept
    BY <2>1, <2>2 DEF Close, MarkIncomplete, TypeOK
  <2>3. ASSUME HandleHit \/ HandleMiss
        PROVE  Kept
    <3>1. UNCHANGED flag /\ wpc = "handle"
      BY <2>3 DEF HandleHit, HandleMiss
    <3>2. \A p \in Producers : p # hand.cobj => cobj'[p] = cobj[p]
      BY <2>1, <2>3 DEF HandleHit, HandleMiss, TypeOK
    <3>3. \A p \in Producers : pc[p] = "done" => p # hand.cobj
      BY <2>1, <3>1 DEF NopInv, SyncedStates
    <3> QED
      BY <3>1, <3>2, <3>3
  <2>4. CASE UNCHANGED <<cobj, flag>>
    BY <2>4
  <2>5. CASE \E p \in Producers : Spawn(p) \/ Producer(p)
    <3>1. PICK q \in Producers : Spawn(q) \/ Producer(q)
      BY <2>5
    <3>2. Close(q) \/ MarkIncomplete(q) \/ UNCHANGED <<cobj, flag>>
      BY <3>1 DEF Spawn, Producer, CollectItem, CollectFiltered, CollectRefused,
         ProbeMainReturns, Add, WaitNotFull, Nop, NopReturn
    <3> QED
      BY <2>2, <2>4, <3>2
  <2>6. CASE Worker
    <3>1. HandleHit \/ HandleMiss \/ UNCHANGED <<cobj, flag>>
      BY <2>6 DEF Worker, WorkerStart, WorkerWait, Extract, FoundEmpty, HandleNop,
         WorkerCancelled
    <3> QED
      BY <2>3, <2>4, <3>1
  <2>7. CASE Main \/ Terminated \/ UNCHANGED vars
    BY <2>4, <2>7 DEF Main, HandlerStart, BarrierOpen, Cleanup, FreeCache, Terminated, vars
  <2> QED
    BY <1>1, <2>5, <2>6, <2>7 DEF Next
<1>2. IInv /\ [Next]_vars => [Kept]_vars
  BY <1>1
<1> QED
  BY <1>2, Invariance, PTL DEF Spec, ObjectStable

-----------------------------------------------------------------------------
(***************************************************************************)
(* Refinement: the queue, the mutex and the condition variables implement  *)
(* the abstract collector.                                                 *)
(***************************************************************************)
\* An item pair is no NOP and tells its thread and its item.
LEMMA ItemPairs ==
  ASSUME NEW p \in Producers, NEW q \in Producers, NEW i \in Items, NEW j \in Items
  PROVE  /\ ItemPair(p, i) # NopPair(q)
         /\ ItemPair(p, i) = ItemPair(q, j) <=> p = q /\ i = j
<1>1. ItemPair(p, i).cobj = p /\ ItemPair(p, i).item = i
  BY DEF ItemPair
<1>2. ItemPair(q, j).cobj = q /\ ItemPair(q, j).item = j
  BY DEF ItemPair
<1>3. NopPair(q).cobj = None
  BY DEF NopPair
<1> QED
  BY <1>1, <1>2, <1>3, NoneAssumption

\* A step that moves no pair, touches neither objects nor flags and finishes no thread is
\* invisible to the collector.
LEMMA InvisibleStep ==
  ASSUME \A q \in Producers : Pending(q)' = Pending(q),
         UNCHANGED <<cobj, flag>>,
         \A q \in Producers : pc'[q] = "done" <=> pc[q] = "done"
  PROVE  UNCHANGED Collector!vars
<1>1. [q \in Producers |-> Pending(q)]' = [q \in Producers |-> Pending(q)]
  OBVIOUS
<1>2. {q \in Producers : pc[q] = "done"}' = {q \in Producers : pc[q] = "done"}
  OBVIOUS
<1> QED
  BY <1>1, <1>2 DEF Collector!vars

\* Queue and hand unchanged, nothing becomes pending or ceases to be.
LEMMA PendingFrame ==
  ASSUME UNCHANGED <<ring, hand>>, wpc' = "handle" <=> wpc = "handle"
  PROVE  \A q \in Producers : Pending(q)' = Pending(q)
<1>1. Places' = Places /\ (\A k : At(k)' = At(k))
  BY RingFrame
<1>2. \A e : (InQueue(e)' <=> InQueue(e)) /\ (InHand(e)' <=> InHand(e))
  BY <1>1 DEF InQueue, InHand
<1> QED
  BY <1>2 DEF Pending

\* probe_icache_add gives the item to the collector.
LEMMA AddGives ==
  ASSUME IInv, ItemInv, NEW p \in Producers, Add(p)
  PROVE  Collector!Give(p, arg[p])
<1> USE NoneAssumption
<1> DEFINE x == arg[p]
<1>1. TypeOK /\ RingInv /\ TransitInv /\ PairInv
  BY DEF IInv, ItemInv
<1>2. /\ x \in Items /\ Adds(p, x) /\ pc[p] = "add"
      /\ \A q \in Producers : pc'[q] = "done" <=> pc[q] = "done"
      /\ wpc' = IF wpc = "wait" THEN "woken" ELSE wpc
      /\ UNCHANGED <<hand, cobj, flag>>
  BY <1>1 DEF Add, SignalNotEmpty, TypeOK, PairInv, Adds
<1>3. /\ queue_cnt' = queue_cnt + 1 /\ queue_cnt \in Nat
      /\ \A k \in Places : At(k)' = At(k)
      /\ \A k \in Int : k = queue_cnt => At(k)' = ItemPair(p, x)
  BY <1>1, EnqueueRing DEF Add, TypeOK
<1>4. /\ \A k \in Places' : (k \in Places /\ At(k)' = At(k)) \/ At(k)' = ItemPair(p, x)
      /\ Places \subseteq Places' /\ queue_cnt \in Places' /\ queue_cnt \in Int
  BY <1>3 DEF Places
<1>5. \A e : InQueue(e)' <=> InQueue(e) \/ e = ItemPair(p, x)
  BY <1>3, <1>4 DEF InQueue
<1>6. \A e : InHand(e)' <=> InHand(e)
  BY <1>2 DEF InHand
<1>7. ASSUME NEW q \in Producers
      PROVE  Pending(q)' = IF q = p THEN Pending(q) \cup {x} ELSE Pending(q)
  <2>1. \A i \in Items : i \in Pending(q)' <=> i \in Pending(q) \/ (q = p /\ i = x)
    BY <1>2, <1>5, <1>6, ItemPairs DEF Pending
  <2>2. Pending(q)' \subseteq Items /\ Pending(q) \subseteq Items
    BY DEF Pending
  <2> QED
    BY <1>2, <2>1, <2>2
<1>8. \A q \in Producers : x \notin Pending(q)
  <2>1. (\A k \in Places : At(k).item # x) /\ ~Handles(x)
    BY <1>1, <1>2 DEF TransitInv
  <2>2. \A q : ItemPair(q, x).item = x
    BY DEF ItemPair
  <2> QED
    BY <2>1, <2>2 DEF Pending, InQueue, InHand, Handles
<1>9. [q \in Producers |-> Pending(q)]' =
        [[q \in Producers |-> Pending(q)] EXCEPT ![p] = @ \cup {x}]
  BY <1>7
<1>10. {q \in Producers : pc[q] = "done"}' = {q \in Producers : pc[q] = "done"}
  BY <1>2
<1> QED
  BY <1>2, <1>8, <1>9, <1>10 DEF Collector!Give

\* A NOP is invisible when it is queued ...
LEMMA NopInvisible ==
  ASSUME IInv, NEW p \in Producers, Nop(p)
  PROVE  UNCHANGED Collector!vars
<1>1. TypeOK /\ RingInv
  BY DEF IInv
<1>2. /\ \A q \in Producers : pc'[q] = "done" <=> pc[q] = "done"
      /\ wpc' = IF wpc = "wait" THEN "woken" ELSE wpc
      /\ UNCHANGED <<hand, cobj, flag>>
  BY <1>1 DEF Nop, SignalNotEmpty, TypeOK, NopStates, NopWaitState
<1>3. /\ queue_cnt' = queue_cnt + 1 /\ queue_cnt \in Nat
      /\ \A k \in Places : At(k)' = At(k)
      /\ \A k \in Int : k = queue_cnt => At(k)' = NopPair(p)
  BY <1>1, EnqueueRing DEF Nop, TypeOK
<1>4. /\ \A k \in Places' : (k \in Places /\ At(k)' = At(k)) \/ At(k)' = NopPair(p)
      /\ Places \subseteq Places'
  BY <1>3 DEF Places
<1>5. \A e : e # NopPair(p) => (InQueue(e)' <=> InQueue(e))
  BY <1>3, <1>4 DEF InQueue
<1>6. \A e : InHand(e)' <=> InHand(e)
  BY <1>2 DEF InHand
<1>7. \A q \in Producers : Pending(q)' = Pending(q)
  BY <1>5, <1>6, ItemPairs DEF Pending
<1> QED
  BY <1>2, <1>7, InvisibleStep

\* ... and when it is handled; and it is invisible that the worker takes a pair.
LEMMA ExtractInvisible ==
  ASSUME IInv, Extract
  PROVE  UNCHANGED Collector!vars
<1>1. TypeOK /\ RingInv
  BY DEF IInv
<1>2. /\ wpc # "handle" /\ wpc' = "handle" /\ SignalNotFull
      /\ queue_cnt \in Nat \ {0} /\ queue_cnt' = queue_cnt - 1 /\ hand' = At(0)
      /\ \A k \in Places' : k + 1 \in Places /\ At(k)' = At(k + 1)
      /\ UNCHANGED <<cobj, flag>>
  BY <1>1, ExtractRing DEF Extract
<1>3. \A q \in Producers : pc'[q] = "done" <=> pc[q] = "done"
  BY <1>1, <1>2 DEF SignalNotFull, NotFullWaiters, NotFullStates, RetryState, TypeOK
<1>4. 0 \in Places /\ \A k \in Places : k = 0 \/ (k - 1 \in Places' /\ (k - 1) + 1 = k)
  BY <1>2 DEF Places
<1>5. \A k \in Places : k = 0 \/ (k - 1 \in Places' /\ At(k - 1)' = At(k))
  BY <1>2, <1>4
<1>6. \A e : InQueue(e)' \/ InHand(e)' <=> InQueue(e) \/ InHand(e)
  BY <1>2, <1>4, <1>5 DEF InQueue, InHand
<1>7. \A q \in Producers : Pending(q)' = Pending(q)
  BY <1>6 DEF Pending
<1> QED
  BY <1>2, <1>3, <1>7, InvisibleStep

LEMMA HandleNopInvisible ==
  ASSUME IInv, HandleNop
  PROVE  UNCHANGED Collector!vars
<1>1. TypeOK
  BY DEF IInv
<1>2. /\ wpc = "handle" /\ wpc' = "relock" /\ hand.cobj = None
      /\ UNCHANGED <<ring, cobj, flag>>
      /\ \A q \in Producers : pc'[q] = "done" <=> pc[q] = "done"
  BY <1>1 DEF HandleNop, TypeOK, NopWaitStates, NopWokenState
<1>3. Places' = Places /\ (\A k : At(k)' = At(k))
  BY <1>2, RingFrame
<1>4. \A e : (InQueue(e)' <=> InQueue(e)) /\ ~InHand(e)'
  BY <1>2, <1>3 DEF InQueue, InHand
<1>5. \A q \in Producers, i \in Items : ~InHand(ItemPair(q, i))
  BY <1>2, NoneAssumption DEF InHand, ItemPair
<1>6. \A q \in Producers : Pending(q)' = Pending(q)
  BY <1>4, <1>5 DEF Pending
<1> QED
  BY <1>2, <1>6, InvisibleStep

\* The contents of a collected object with one more item.
LEMMA AppendContents ==
  ASSUME NEW s \in Seq(Items), NEW x \in Items
  PROVE  [k \in 1..Len(Append(s, x)) |-> Content(Append(s, x)[k])]
           = Append([k \in 1..Len(s) |-> Content(s[k])], Content(x))
<1> DEFINE C == {Content(i) : i \in Items}
<1> DEFINE t == [k \in 1..Len(s) |-> Content(s[k])]
<1>1. Len(s) \in Nat /\ \A k \in 1..Len(s) : s[k] \in Items
  OBVIOUS
<1>2. t \in Seq(C) /\ Len(t) = Len(s)
  BY <1>1
<1>3. /\ Append(s, x) \in Seq(Items) /\ Len(Append(s, x)) = Len(s) + 1
      /\ \A k \in 1..Len(s) : Append(s, x)[k] = s[k]
      /\ Append(s, x)[Len(s) + 1] = x
  OBVIOUS
<1>4. /\ Append(t, Content(x)) \in Seq(C) /\ Len(Append(t, Content(x))) = Len(s) + 1
      /\ \A k \in 1..Len(s) : Append(t, Content(x))[k] = Content(s[k])
      /\ Append(t, Content(x))[Len(s) + 1] = Content(x)
  BY <1>2
<1> DEFINE u == [k \in 1..Len(Append(s, x)) |-> Content(Append(s, x)[k])]
<1>5. u \in Seq(C) /\ Len(u) = Len(s) + 1
  BY <1>3
<1>6. \A k \in 1..Len(s) + 1 : u[k] = Append(t, Content(x))[k]
  <2>1. \A k \in 1..Len(s) + 1 : k \in 1..Len(s) \/ k = Len(s) + 1
    BY <1>1
  <2> QED
    BY <1>3, <1>4, <2>1
<1> HIDE DEF u, t
<1>7. u = Append(t, Content(x))
  BY <1>4, <1>5, <1>6
<1> QED
  BY <1>7 DEF u, t

\* The worker delivers the item it handles, by content, whether it was cached before or
\* not.
LEMMA HandleDelivers ==
  ASSUME IInv, ItemInv, HandleHit \/ HandleMiss
  PROVE  \E p \in Producers, i \in Items : Collector!Deliver(p, i)
<1> USE NoneAssumption
<1>1. TypeOK /\ PairInv /\ TransitInv
  BY DEF IInv, ItemInv
<1>2. PICK p \in Producers, i \in Items :
         hand.cobj = p /\ hand.item = i /\ Handles(i) /\ PairOK(hand) /\ hand \in Pairs
  BY <1>1 DEF HandleHit, HandleMiss, PairInv, PairOK, Handles, TypeOK
<1>3. /\ wpc = "handle" /\ wpc' = "relock"
      /\ UNCHANGED <<ring, hand, pc, flag>>
  BY DEF HandleHit, HandleMiss
<1>4. \E x \in Items : Content(x) = Content(i) /\ cobj' = [cobj EXCEPT ![p] = Append(@, x)]
  <2>1. CASE HandleHit
    <3> DEFINE chain == tree[ID(i)]
    <3> DEFINE k == Find(chain, i)
    <3>1. chain \in Seq(Items)
      BY <1>1, <1>2, HashAssumption DEF TypeOK
    <3>2. k \in 1..Len(chain) /\ Content(chain[k]) = Content(i)
      BY <1>2, <2>1, <3>1, FindInChain DEF HandleHit
    <3>3. chain[k] \in Items
      BY <3>1, <3>2
    <3> QED
      BY <1>2, <2>1, <3>2, <3>3 DEF HandleHit
  <2>2. CASE HandleMiss
    BY <1>2, <2>2 DEF HandleMiss
  <2> QED
    BY <2>1, <2>2
<1>5. PICK x \in Items : Content(x) = Content(i) /\ cobj' = [cobj EXCEPT ![p] = Append(@, x)]
  BY <1>4
<1>6. hand = ItemPair(p, i)
  BY <1>2 DEF PairOK, Pairs, ItemPair
<1>7. Places' = Places /\ (\A k : At(k)' = At(k))
  BY <1>3, RingFrame
<1>8. \A e : (InQueue(e)' <=> InQueue(e)) /\ ~InHand(e)' /\ (InHand(e) <=> e = ItemPair(p, i))
  BY <1>3, <1>6, <1>7 DEF InQueue, InHand
<1>9. ~InQueue(ItemPair(p, i))
  <2>1. \A k \in Places : At(k).item # i
    BY <1>1, <1>2 DEF TransitInv
  <2> QED
    BY <2>1 DEF InQueue, ItemPair
<1>10. ASSUME NEW q \in Producers
       PROVE  Pending(q)' = IF q = p THEN Pending(q) \ {i} ELSE Pending(q)
  <2>1. \A j \in Items : j \in Pending(q)' <=> j \in Pending(q) /\ ~(q = p /\ j = i)
    BY <1>2, <1>8, <1>9, ItemPairs DEF Pending
  <2>2. Pending(q)' \subseteq Items /\ Pending(q) \subseteq Items
    BY DEF Pending
  <2> QED
    BY <1>2, <2>1, <2>2
<1>11. [q \in Producers |-> Pending(q)]' =
         [[q \in Producers |-> Pending(q)] EXCEPT ![p] = @ \ {i}]
  BY <1>10
<1>12. i \in [q \in Producers |-> Pending(q)][p]
  BY <1>2, <1>8 DEF Pending
<1>13. [q \in Producers |-> [k \in 1..Len(cobj[q]) |-> Content(cobj[q][k])]]' =
         [[q \in Producers |-> [k \in 1..Len(cobj[q]) |-> Content(cobj[q][k])]]
            EXCEPT ![p] = Append(@, Content(i))]
  <2> DEFINE O(s) == [k \in 1..Len(s) |-> Content(s[k])]
  <2>1. cobj[p] \in Seq(Items) /\ cobj'[p] = Append(cobj[p], x)
        /\ \A q \in Producers : q # p => cobj'[q] = cobj[q]
    BY <1>1, <1>2, <1>5 DEF TypeOK
  <2>2. O(Append(cobj[p], x)) = Append(O(cobj[p]), Content(x))
    BY <2>1, <1>5, AppendContents
  <2>3. O(cobj'[p]) = Append(O(cobj[p]), Content(i))
    BY <1>5, <2>1, <2>2
  <2>4. \A q \in Producers : q # p => O(cobj'[q]) = O(cobj[q])
    BY <2>1
  <2>5. [q \in Producers |-> O(cobj'[q])] =
          [[q \in Producers |-> O(cobj[q])] EXCEPT ![p] = Append(@, Content(i))]
    <3> HIDE DEF O
    <3> QED
      BY <1>2, <2>3, <2>4
  <2> QED
    BY <2>5
<1>14. {q \in Producers : pc[q] = "done"}' = {q \in Producers : pc[q] = "done"} /\ flag' = flag
  BY <1>3
<1>15. Collector!Deliver(p, i)
  BY <1>11, <1>12, <1>13, <1>14 DEF Collector!Deliver
<1> QED
  BY <1>2, <1>15

\* Marking and closing happen after a NOP, when nothing of the thread is pending.
LEMMA SyncedActs ==
  ASSUME IInv, ItemInv, NEW p \in Producers, MarkIncomplete(p) \/ Close(p)
  PROVE  Collector!MarkIncomplete(p) \/ Collector!Close(p)
<1>1. TypeOK /\ NopInv /\ FlagInv
  BY DEF IInv, ItemInv
<1>2. /\ pc[p] \in {"mark", "compute"}
      /\ UNCHANGED <<ring, hand, wpc, cobj>>
  BY DEF MarkIncomplete, Close, worker
<1>3. \A q \in Producers : Pending(q)' = Pending(q)
  BY <1>2, PendingFrame
<1>4. Pending(p) = {}
  <2>1. (\A j \in Places : At(j).cobj # p) /\ (wpc = "handle" => hand.cobj # p)
    BY <1>1, <1>2 DEF NopInv, SyncedStates
  <2>2. \A i : ItemPair(p, i).cobj = p
    BY DEF ItemPair
  <2> QED
    BY <2>1, <2>2 DEF Pending, InQueue, InHand
<1>5. /\ [q \in Producers |-> Pending(q)]' = [q \in Producers |-> Pending(q)]
      /\ [q \in Producers |-> Pending(q)][p] = {}
      /\ p \notin {q \in Producers : pc[q] = "done"}
  BY <1>2, <1>3, <1>4
<1>6. CASE MarkIncomplete(p)
  <2>1. flag[p] = "unknown" /\ flag' = [flag EXCEPT ![p] = "incomplete"]
    BY <1>1, <1>6 DEF MarkIncomplete, FlagInv, RefusedStates
  <2>2. {q \in Producers : pc[q] = "done"}' = {q \in Producers : pc[q] = "done"}
    BY <1>1, <1>6 DEF MarkIncomplete, TypeOK
  <2> QED
    BY <1>2, <1>5, <2>1, <2>2 DEF Collector!MarkIncomplete
<1>7. CASE Close(p)
  <2>1. flag' = [flag EXCEPT ![p] = IF @ = "unknown" THEN "computed" ELSE @]
    BY <1>7 DEF Close
  <2>2. {q \in Producers : pc[q] = "done"}' = {q \in Producers : pc[q] = "done"} \cup {p}
    BY <1>1, <1>7 DEF Close, TypeOK
  <2> QED
    BY <1>2, <1>5, <2>1, <2>2 DEF Collector!Close
<1> QED
  BY <1>6, <1>7

\* Steps of a probe thread before it adds, synchronises or closes, ...
LEMMA ThreadInvisible ==
  ASSUME IInv, NEW p \in Producers,
         \/ \E i \in Items : \/ CollectItem(p, i)
                             \/ CollectFiltered(p, i)
                             \/ CollectRefused(p, i)
         \/ ProbeMainReturns(p) \/ WaitNotFull(p) \/ NopReturn(p) \/ Spawn(p)
  PROVE  UNCHANGED Collector!vars
<1>1. TypeOK
  BY DEF IInv
<1>2. UNCHANGED <<ring, hand, wpc, cobj, flag>>
  BY DEF CollectItem, CollectFiltered, CollectRefused, ProbeMainReturns, WaitNotFull,
         NopReturn, Spawn, worker
<1>3. \A q \in Producers : pc'[q] = "done" <=> pc[q] = "done"
  <2>1. CASE WaitNotFull(p) \/ NopReturn(p)
    BY <1>1, <2>1 DEF WaitNotFull, NopReturn, TestStates, FullState, NopWokenStates,
                      SyncedState, TypeOK
  <2>2. CASE ProbeMainReturns(p) \/ Spawn(p)
    BY <1>1, <2>2 DEF ProbeMainReturns, Spawn, TypeOK
  <2>3. ASSUME NEW i \in Items,
               CollectItem(p, i) \/ CollectFiltered(p, i) \/ CollectRefused(p, i)
        PROVE  \A q \in Producers : pc'[q] = "done" <=> pc[q] = "done"
    BY <1>1, <2>3 DEF CollectItem, CollectFiltered, CollectRefused, TypeOK
  <2> QED
    BY <2>1, <2>2, <2>3
<1>4. \A q \in Producers : Pending(q)' = Pending(q)
  BY <1>2, PendingFrame
<1> QED
  BY <1>2, <1>3, <1>4, InvisibleStep

\* ... and start-up, sleep and tear-down are invisible.
LEMMA ControlInvisible ==
  ASSUME \/ WorkerStart \/ WorkerWait \/ FoundEmpty \/ WorkerCancelled
         \/ HandlerStart \/ BarrierOpen \/ Cleanup \/ FreeCache
         \/ UNCHANGED vars
  PROVE  UNCHANGED Collector!vars
<1>1. UNCHANGED <<ring, hand, pc, cobj, flag>> /\ (wpc' = "handle" <=> wpc = "handle")
  BY DEF WorkerStart, WorkerWait, FoundEmpty, WorkerCancelled, HandlerStart, BarrierOpen,
         Cleanup, FreeCache, worker, vars
<1>2. \A q \in Producers : Pending(q)' = Pending(q)
  BY <1>1, PendingFrame
<1> QED
  BY <1>1, <1>2, InvisibleStep

\* The item cache implements the abstract collector: whatever the threads do, each item
\* handed over reaches its object once, by content, and none is on the way when a thread
\* marks or closes its object.
THEOREM CacheImplementsCollector == Spec => ImplementsCollector
<1>1. ASSUME Init PROVE Collector!Init
  <2>1. Places = {} /\ wpc = "start"
    BY <1>1 DEF Init, Places
  <2>2. \A p \in Producers : Pending(p) = {}
    BY <2>1 DEF Pending, InQueue, InHand
  <2>3. \A p \in Producers : [k \in 1..Len(cobj[p]) |-> Content(cobj[p][k])] = << >>
    <3>1. << >> \in Seq(Items) /\ Len(<< >>) = 0 /\ 1..0 = {}
      OBVIOUS
    <3>2. \A f : f = [k \in 1..0 |-> Content(<< >>[k])] => f = << >>
      BY <3>1
    <3> QED
      BY <1>1, <3>1, <3>2 DEF Init
  <2> QED
    BY <1>1, <2>2, <2>3 DEF Init, Collector!Init
<1>2. ASSUME IInv, ItemInv, [Next]_vars
      PROVE  [Collector!Next]_Collector!vars
  <2>1. CASE \E p \in Producers : Spawn(p) \/ Producer(p)
    <3>1. PICK p \in Producers : Spawn(p) \/ Producer(p)
      BY <2>1
    <3>2. CASE Add(p)
      <4>1. arg[p] \in Items
        BY <1>2, <3>2 DEF Add, IInv, PairInv
      <4> QED
        BY <1>2, <3>2, <4>1, AddGives DEF Collector!Next
    <3>3. CASE MarkIncomplete(p) \/ Close(p)
      BY <1>2, <3>3, SyncedActs DEF Collector!Next
    <3>4. CASE Nop(p)
      BY <1>2, <3>4, NopInvisible
    <3>5. CASE ~(Add(p) \/ MarkIncomplete(p) \/ Close(p) \/ Nop(p))
      BY <1>2, <3>1, <3>5, ThreadInvisible DEF Producer
    <3> QED
      BY <3>2, <3>3, <3>4, <3>5
  <2>2. CASE Worker
    <3>1. CASE HandleHit \/ HandleMiss
      BY <1>2, <3>1, HandleDelivers DEF Collector!Next
    <3>2. CASE ~(HandleHit \/ HandleMiss)
      BY <1>2, <2>2, <3>2, ExtractInvisible, HandleNopInvisible, ControlInvisible
         DEF Worker
    <3> QED
      BY <3>1, <3>2
  <2>3. CASE Main \/ Terminated \/ UNCHANGED vars
    BY <2>3, ControlInvisible DEF Main, Terminated
  <2> QED
    BY <1>2, <2>1, <2>2, <2>3 DEF Next
<1> QED
  BY <1>1, <1>2, ItemInvariance, PTL DEF Spec, ImplementsCollector, Collector!Spec

==============================================================================
