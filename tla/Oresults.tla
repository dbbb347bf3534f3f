------------------------------ MODULE Oresults ------------------------------
(***************************************************************************)
(* The two tallies at work: the loops over the operands of a criteria, the *)
(* states of a test or the items of an object add one result at a time to  *)
(* a struct oresults; the loop over the entities of an item adds one       *)
(* status at a time to a struct oval_status_counter.  Any of the results   *)
(* may be asked for whenever the loop ends, hence in every state.          *)
(***************************************************************************)
EXTENDS OvalLogic

CONSTANT MaxOperands    \* bound of the model: the longest loop

ASSUME MaxOperandsAssumption == MaxOperands \in Nat

VARIABLES ores, counter, steps

vars == <<ores, counter, steps>>

Init == /\ ores = ores_clear
        /\ counter = oval_status_counter_clear
        /\ steps = 0

AddResult(res) == /\ steps < MaxOperands
                  /\ ores' = ores_add_res(ores, res)
                  /\ steps' = steps + 1
                  /\ UNCHANGED counter

AddStatus(s) == /\ steps < MaxOperands
                /\ counter' = oval_status_counter_add_status(counter, s)
                /\ steps' = steps + 1
                /\ UNCHANGED ores

Next == \/ \E res \in Results \cup {Failed} : AddResult(res)
        \/ \E s \in Statuses : AddStatus(s)

Spec == Init /\ [][Next]_vars

-----------------------------------------------------------------------------
\* The tallies are natural numbers, and no step adds more than one operand.
TallyTypeOK == /\ ores \in Tallies /\ counter \in StatusTallies /\ steps \in Nat
               /\ Operands(ores) + ores["notappl"] + counter["exists"]
                    + counter["does_not_exist"] + counter["error"]
                    + counter["not_collected"] <= steps

\* ores_get_result_byopr computes every operator exactly: true or false when, and only
\* when, no way to determine the undetermined operands could change the answer.
OperatorsExact == \A op \in Operators : ores_get_result_byopr(ores, op) = Kleene(op, ores)

\* ores_get_result_bychk computes the checks exactly, except that "at_least_one" may
\* give another undetermined result than the reference, never another verdict.
ChecksExact ==
  /\ \A ch \in Checks \ {"at_least_one"} :
        ores_get_result_bychk(ores, ch) = Kleene(ch, ores)
  /\ LET code == ores_get_result_bychk(ores, "at_least_one")
         ref == Kleene("at_least_one", ores)
     IN  code # ref => {code, ref} \subseteq Open

\* eval_check_existence gives what the schema's chart says of a test's items, with two
\* exceptions: items that do not exist (under all_exist) or were not collected are not
\* counted, and the verdict is the chart's for the others; and none_exist prefers an
\* error to the existing item that refutes it.
TestExistenceExact ==
  LET seen == [counter EXCEPT !["does_not_exist"] = 0, !["not_collected"] = 0]
  IN  \A ch \in Existences :
        LET result == eval_check_existence(ch, counter["exists"], counter["error"])
        IN  \/ result = ExistenceSays(ch, counter)
            \/ /\ \/ counter["not_collected"] >= 1
                  \/ ch = "all_exist" /\ counter["does_not_exist"] >= 1
               /\ result = ExistenceSays(ch, seen)
            \/ /\ ch = "none_exist" /\ counter["exists"] >= 1 /\ counter["error"] >= 1
               /\ result = "error"

\* oval_status_counter_get_result gives what the chart says of an item's entities, with
\* three exceptions: at_least_one_exists and only_one_exists are unknown, not false, when
\* none exists and all was collected; only_one_exists is false when none exists and one
\* was not collected, and an error, not unknown, when more may exist.
EntityExistenceExact ==
  \A ch \in Existences :
     LET result == oval_status_counter_get_result(counter, ch)
     IN  \/ result = ExistenceSays(ch, counter)
         \/ /\ ch \in {"at_least_one_exists", "only_one_exists"} /\ result = "unknown"
            /\ counter["exists"] = 0 /\ counter["error"] = 0 /\ counter["not_collected"] = 0
         \/ /\ ch = "only_one_exists" /\ counter["error"] = 0
            /\ \/ counter["exists"] = 0 /\ counter["not_collected"] = 1 /\ result = "false"
               \/ /\ counter["exists"] <= 1 /\ counter["exists"] + counter["not_collected"] >= 2
                  /\ result = "error"
=============================================================================
