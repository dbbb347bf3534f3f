------------------------------- MODULE RbtSet -------------------------------
(***************************************************************************)
(* What a red-black tree of OVAL/probes/SEAP/generic/rbt promises its      *)
(* users (the result cache, the name cache, the worker table, the error    *)
(* queue, the item cache): a set of keys with insert and delete, and the   *)
(* return codes of rbt_*_add (0 new, 1 collision) and rbt_*_del (0         *)
(* deleted, 1 not found).                                                  *)
(***************************************************************************)
EXTENDS Integers

CONSTANTS Keys

VARIABLES
    set,    \* the keys the tree holds
    ret     \* return code of the last operation

Init == set = {} /\ ret = 0

Add(k) == /\ ret' = IF k \in set THEN 1 ELSE 0
          /\ set' = set \cup {k}

Del(k) == /\ ret' = IF k \in set THEN 0 ELSE 1
          /\ set' = set \ {k}

Next == \E k \in Keys : Add(k) \/ Del(k)

Spec == Init /\ [][Next]_<<set, ret>>
=============================================================================
