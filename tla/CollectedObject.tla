--------------------------- MODULE CollectedObject ---------------------------
(***************************************************************************)
(* Collection flags and set operations of collected objects                *)
(* (OVAL/probes/probe-api.c).                                              *)
(*                                                                         *)
(* A collected object is what a probe returns for an OVAL object: a list   *)
(* of items and a flag that says how the list relates to the system.  A    *)
(* set object combines two collected objects, and probe_cobj_combine_flags *)
(* decides what may be claimed of the combination.                         *)
(***************************************************************************)
EXTENDS FiniteSets

Flags == {"ERROR", "COMPLETE", "INCOMPLETE", "DOES_NOT_EXIST", "NOT_COLLECTED", "NOT_APPLICABLE"}
Operations == {"UNION", "INTERSECTION", "COMPLEMENT"}

\* What the OVAL schema says each operation is.
SetOperation(op, A, B) ==
    CASE op = "UNION"        -> A \cup B
      [] op = "INTERSECTION" -> A \cap B
      [] OTHER               -> A \ B

-----------------------------------------------------------------------------
Complement(f, g) ==
    CASE f = "COMPLETE" /\ g \in {"COMPLETE", "DOES_NOT_EXIST"}             -> "COMPLETE"
      [] f = "INCOMPLETE" /\ g \in {"COMPLETE", "DOES_NOT_EXIST"}           -> "INCOMPLETE"
      [] f = "DOES_NOT_EXIST" /\ g # "NOT_APPLICABLE"                       -> "DOES_NOT_EXIST"
      [] f = "NOT_COLLECTED" /\ g \notin {"NOT_APPLICABLE", "ERROR"}        -> "NOT_COLLECTED"
      [] OTHER                                                              -> "ERROR"

Intersection(f, g) ==
    CASE f = "ERROR"                                                        -> "ERROR"
      [] f = "DOES_NOT_EXIST"                                               -> "DOES_NOT_EXIST"
      [] f # "DOES_NOT_EXIST" /\ f # "ERROR" /\ g \in {"ERROR", "DOES_NOT_EXIST"} -> g
      [] f = "COMPLETE" /\ g \in {"COMPLETE", "NOT_APPLICABLE"}             -> "COMPLETE"
      [] f = "COMPLETE" /\ g \in {"INCOMPLETE", "NOT_COLLECTED"}            -> g
      [] f = "INCOMPLETE" /\ g = "NOT_APPLICABLE"                           -> "NOT_APPLICABLE"
      [] f = "INCOMPLETE" /\ g \in {"COMPLETE", "INCOMPLETE", "NOT_COLLECTED"} -> "INCOMPLETE"
      [] f = "NOT_COLLECTED" /\ g \notin {"ERROR", "DOES_NOT_EXIST"}        -> "NOT_COLLECTED"
      [] f = "NOT_APPLICABLE" /\ g \notin {"ERROR", "DOES_NOT_EXIST"}       -> g

\* Faulty variant: a set that was not collected adds nothing to a union.
UnionOptimist(f, g) ==
    CASE f = "ERROR" \/ g = "ERROR"             -> "ERROR"
      [] f = "COMPLETE" /\ g # "ERROR"          -> "COMPLETE"
      [] f \in Flags \ {"ERROR", "COMPLETE"} /\ g # "ERROR" -> g

Union(f, g) ==
    CASE f = "ERROR" \/ g = "ERROR"                                         -> "ERROR"
      [] f = "COMPLETE" /\ g \in {"COMPLETE", "DOES_NOT_EXIST", "NOT_APPLICABLE"} -> "COMPLETE"
      [] f \in {"COMPLETE", "DOES_NOT_EXIST"} /\ g \in {"INCOMPLETE", "NOT_COLLECTED"} -> "INCOMPLETE"
      [] f = "INCOMPLETE" /\ g # "ERROR"                                    -> "INCOMPLETE"
      [] f = "DOES_NOT_EXIST" /\ g = "COMPLETE"                             -> "COMPLETE"
      [] f = "DOES_NOT_EXIST" /\ g \in {"NOT_APPLICABLE", "DOES_NOT_EXIST"} -> "DOES_NOT_EXIST"
      [] f = "NOT_COLLECTED" /\ g \in {"COMPLETE", "INCOMPLETE", "DOES_NOT_EXIST"} -> "INCOMPLETE"
      [] f = "NOT_COLLECTED" /\ g \in {"NOT_APPLICABLE", "NOT_COLLECTED"}   -> "NOT_COLLECTED"
      [] f = "NOT_APPLICABLE" /\ g # "ERROR"                                -> g

\* probe_cobj_combine_flags
CombineFlags(f, g, op) ==
    CASE op = "COMPLEMENT"   -> Complement(f, g)
      [] op = "INTERSECTION" -> Intersection(f, g)
      [] OTHER               -> Union(f, g)

\* "If the collected information is complete but all the items are removed":
\* the correction probe_set_combine and probe_set_apply_filters both end with.
Emptied(flag, empty) == IF flag = "COMPLETE" /\ empty THEN "DOES_NOT_EXIST" ELSE flag

-----------------------------------------------------------------------------
(***************************************************************************)
(* What a flag claims: Describes(flag, reported, truth) holds when a list  *)
(* of the items "reported" may carry "flag" on a system whose matching     *)
(* items are "truth".                                                      *)
(***************************************************************************)
Describes(flag, reported, truth) ==
    CASE flag = "COMPLETE"       -> reported = truth
      [] flag = "INCOMPLETE"     -> reported \subseteq truth
      [] flag = "DOES_NOT_EXIST" -> reported = {} /\ truth = {}
      [] flag = "NOT_APPLICABLE" -> reported = {} /\ truth = {}
      [] flag = "NOT_COLLECTED"  -> reported = {}
      [] OTHER                   -> TRUE

=============================================================================
