---------------------------- MODULE ItemCollector ----------------------------
(***************************************************************************)
(* What the item cache of a probe promises to the threads that use it,     *)
(* without any queue, mutex or condition variable.  A probe thread hands   *)
(* items over one by one; each of them ends up, by content, exactly once   *)
(* in the thread's collected object; and whenever the thread touches its   *)
(* collected object again - to flag it as incomplete or to close it - none *)
(* of its items is still on the way.                                       *)
(***************************************************************************)
EXTENDS Integers, Sequences

CONSTANTS Producers, Items, Content(_)

VARIABLES pending,   \* pending[p]: items handed over by p and not delivered yet
          object,    \* object[p]: contents of the items delivered to p's object
          flag,      \* flag[p]: "unknown", "incomplete" or "computed"
          closed     \* the threads that are finished with their object

vars == <<pending, object, flag, closed>>

Init == /\ pending = [p \in Producers |-> {}]
        /\ object = [p \in Producers |-> << >>]
        /\ flag = [p \in Producers |-> "unknown"]
        /\ closed = {}

\* p hands over item i; an item is handed over at most once while pending.
Give(p, i) == /\ p \notin closed
              /\ \A q \in Producers : i \notin pending[q]
              /\ pending' = [pending EXCEPT ![p] = @ \cup {i}]
              /\ UNCHANGED <<object, flag, closed>>

\* A pending item reaches the object it was handed over for.
Deliver(p, i) == /\ i \in pending[p]
                 /\ pending' = [pending EXCEPT ![p] = @ \ {i}]
                 /\ object' = [object EXCEPT ![p] = Append(@, Content(i))]
                 /\ UNCHANGED <<flag, closed>>

\* The memory limit was hit: nothing of p is on the way at that moment.
MarkIncomplete(p) == /\ p \notin closed
                     /\ flag[p] = "unknown"
                     /\ pending[p] = {}
                     /\ flag' = [flag EXCEPT ![p] = "incomplete"]
                     /\ UNCHANGED <<pending, object, closed>>

\* The probe is finished with the object: nothing of p is on the way.
Close(p) == /\ p \notin closed
            /\ pending[p] = {}
            /\ flag' = [flag EXCEPT ![p] = IF @ = "unknown" THEN "computed" ELSE @]
            /\ closed' = closed \cup {p}
            /\ UNCHANGED <<pending, object>>

Next == \E p \in Producers :
           \/ \E i \in Items : Give(p, i) \/ Deliver(p, i)
           \/ MarkIncomplete(p)
           \/ Close(p)

Spec == Init /\ [][Next]_vars
==============================================================================
