------------------------------ MODULE OvalLogic ------------------------------
(***************************************************************************)
(* How OpenSCAP combines OVAL results (results/oval_resultTest.c,          *)
(* results/oval_status_counter.c): the tallies struct oresults and struct  *)
(* oval_status_counter, and the functions that turn a tally into one       *)
(* result by a check, an operator or an existence requirement.             *)
(*                                                                         *)
(* The reference they are compared with is three-valued logic taken        *)
(* seriously: an operand that is error, unknown or not evaluated would     *)
(* have been true or false had it been determined, so the combination is   *)
(* true (false) exactly when every way to determine them makes it so.      *)
(***************************************************************************)
EXTENDS Integers

Results == {"true", "false", "error", "unknown", "noteval", "notappl"}
Open == {"error", "unknown", "noteval"}
Failed == "failed"      \* the int -1 that some functions return as an oval_result_t

Operators == {"AND", "ONE", "OR", "XOR"}
Checks == {"all", "at_least_one", "none_satisfy", "only_one"}
Statuses == {"exists", "does_not_exist", "error", "not_collected"}
Existences == {"all_exist", "any_exist", "at_least_one_exists", "none_exist",
               "only_one_exists"}

-----------------------------------------------------------------------------
(***************************************************************************)
(* struct oresults: one counter per result.                                *)
(***************************************************************************)
Tallies == [Results -> Nat]

ores_clear == [r \in Results |-> 0]

\* Faulty variant: the case of true falls through to that of false.
add_res_fallthrough(c, res) ==
  IF res = "true" THEN [c EXCEPT !["true"] = @ + 1, !["false"] = @ + 1]
  ELSE IF res \in Results THEN [c EXCEPT ![res] = @ + 1] ELSE c

\* A value that is no result, such as the -1 of a failed query, is reported by the
\* return value, which no caller looks at; the tally stays as it was.
ores_add_res(c, res) ==
  IF res \in Results THEN [c EXCEPT ![res] = @ + 1] ELSE c

Determined(c) == \A r \in Open : c[r] = 0
Operands(c) == c["true"] + c["false"] + c["error"] + c["unknown"] + c["noteval"]

\* The tests for error, unknown and not evaluated that end every branch; ERROR is the
\* value the result is initialised with.
OpenResult(c) == IF c["error"] > 0 THEN "error"
                 ELSE IF c["unknown"] > 0 THEN "unknown"
                 ELSE IF c["noteval"] > 0 THEN "noteval" ELSE "error"

\* The two early returns of both functions.
NoOperand(c) == IF c["notappl"] = 0 THEN "unknown" ELSE "notappl"

\* Faulty variant: true requires no undetermined operand for "at_least_one" only.
bychk_eager(c, check) ==
  IF Operands(c) = 0 THEN NoOperand(c)
  ELSE IF check = "all" THEN IF c["false"] > 0 THEN "false" ELSE "true"
  ELSE IF check = "only_one" THEN IF c["true"] = 1 THEN "true" ELSE "false"
  ELSE IF c["true"] > 0 THEN "false" ELSE "true"

ores_get_result_bychk(c, check) ==
  IF Operands(c) = 0 THEN NoOperand(c)
  ELSE IF check = "all"
  THEN IF c["true"] > 0 /\ c["false"] = 0 /\ Determined(c) THEN "true"
       ELSE IF c["false"] > 0 THEN "false" ELSE OpenResult(c)
  ELSE IF check = "at_least_one"
  THEN IF c["true"] > 0 THEN "true"
       ELSE IF c["false"] > 0 /\ Determined(c) THEN "false"
       ELSE IF c["error"] = 0 /\ c["false"] > 0 THEN "error" ELSE OpenResult(c)
  ELSE IF check = "none_satisfy"
  THEN IF c["true"] > 0 THEN "false"
       ELSE IF ~Determined(c) THEN OpenResult(c)
       ELSE IF c["false"] > 0 THEN "true" ELSE "error"
  ELSE IF check = "only_one"
  THEN IF c["true"] = 1 /\ Determined(c) THEN "true"
       ELSE IF c["true"] > 1 THEN "false"
       ELSE IF ~Determined(c) THEN OpenResult(c)
       ELSE IF c["false"] > 0 THEN "false" ELSE "error"
  ELSE "error"

\* Faulty variant: an undetermined operand is overlooked once one operand is true.
byopr_eager(c, op) ==
  IF Operands(c) = 0 THEN NoOperand(c)
  ELSE IF op = "ONE" /\ c["true"] = 1 THEN "true"
  ELSE IF ~Determined(c) THEN OpenResult(c)
  ELSE IF op = "AND" THEN IF c["false"] > 0 THEN "false" ELSE "true"
  ELSE IF op = "OR" THEN IF c["true"] > 0 THEN "true" ELSE "false"
  ELSE IF c["true"] % 2 = 1 THEN "true" ELSE "false"

ores_get_result_byopr(c, op) ==
  IF Operands(c) = 0 THEN NoOperand(c)
  ELSE IF op = "AND"
  THEN IF c["true"] > 0 /\ c["false"] = 0 /\ Determined(c) THEN "true"
       ELSE IF c["false"] > 0 THEN "false" ELSE OpenResult(c)
  ELSE IF op = "ONE"
  THEN IF c["true"] = 1 /\ Determined(c) THEN "true"
       ELSE IF c["true"] >= 2 \/ (c["true"] = 0 /\ Determined(c)) THEN "false"
       ELSE OpenResult(c)
  ELSE IF op = "OR"
  THEN IF c["true"] > 0 THEN "true"
       ELSE IF c["false"] > 0 /\ Determined(c) THEN "false" ELSE OpenResult(c)
  ELSE IF op = "XOR"
  THEN IF ~Determined(c) THEN OpenResult(c)
       ELSE IF c["true"] % 2 = 1 THEN "true" ELSE "false"
  ELSE "error"

-----------------------------------------------------------------------------
(***************************************************************************)
(* Existence: of the items of a test, and of the entities of an item.      *)
(***************************************************************************)
\* Faulty variant: an item whose collection failed counts as missing.
check_existence_lenient(check, exists_cnt, error_cnt) ==
  IF check = "any_exist" THEN "true"
  ELSE IF check = "all_exist" \/ check = "at_least_one_exists"
  THEN IF exists_cnt >= 1 THEN "true" ELSE "false"
  ELSE IF check = "none_exist" THEN IF exists_cnt = 0 THEN "true" ELSE "false"
  ELSE IF exists_cnt = 1 THEN "true" ELSE "false"

eval_check_existence(check, exists_cnt, error_cnt) ==
  IF check = "all_exist"
  THEN IF error_cnt >= 1 THEN "error" ELSE IF exists_cnt >= 1 THEN "true" ELSE "false"
  ELSE IF check = "any_exist"
  THEN IF error_cnt = 0 \/ exists_cnt >= 1 THEN "true" ELSE "error"
  ELSE IF check = "at_least_one_exists"
  THEN IF exists_cnt >= 1 THEN "true" ELSE IF error_cnt = 0 THEN "false" ELSE "error"
  ELSE IF check = "none_exist"
  THEN IF error_cnt >= 1 THEN "error" ELSE IF exists_cnt = 0 THEN "true" ELSE "false"
  ELSE IF check = "only_one_exists"
  THEN IF exists_cnt >= 2 THEN "false"
       ELSE IF error_cnt >= 1 THEN "error" ELSE IF exists_cnt = 1 THEN "true" ELSE "false"
  ELSE "error"

StatusTallies == [Statuses -> Nat]

oval_status_counter_clear == [s \in Statuses |-> 0]

oval_status_counter_add_status(n, status) ==
  IF status \in Statuses THEN [n EXCEPT ![status] = @ + 1] ELSE n

\* Faulty variant: "at_least_one" is satisfied by entities that were not collected.
counter_result_lenient(n, check) ==
  IF check = "at_least_one_exists"
  THEN IF n["exists"] + n["not_collected"] >= 1 THEN "true" ELSE "unknown"
  ELSE "unknown"

\* UNKNOWN is the value the result is initialised with.
oval_status_counter_get_result(n, check) ==
  IF check = "all_exist"
  THEN IF n["does_not_exist"] >= 1 THEN "false"
       ELSE IF n["error"] >= 1 THEN "error"
       ELSE IF n["not_collected"] >= 1 THEN "unknown"
       ELSE IF n["exists"] >= 1 THEN "true" ELSE "false"
  ELSE IF check = "any_exist"
  THEN IF n["error"] = 0 \/ n["exists"] >= 1 THEN "true" ELSE "error"
  ELSE IF check = "at_least_one_exists"
  THEN IF n["exists"] >= 1 THEN "true"
       ELSE IF n["error"] >= 1 THEN "error" ELSE "unknown"
  ELSE IF check = "none_exist"
  THEN IF n["exists"] >= 1 THEN "false"
       ELSE IF n["error"] >= 1 THEN "error"
       ELSE IF n["not_collected"] >= 1 THEN "unknown" ELSE "true"
  ELSE IF check = "only_one_exists"
  THEN IF n["exists"] >= 2 THEN "false"
       ELSE IF n["exists"] = 1 /\ n["error"] = 0 /\ n["not_collected"] = 0 THEN "true"
       ELSE IF n["exists"] = 0 /\ n["error"] = 0 /\ n["not_collected"] = 1 THEN "false"
       ELSE IF n["error"] >= 1 \/ n["not_collected"] >= 1 THEN "error" ELSE "unknown"
  ELSE "error"

-----------------------------------------------------------------------------
(***************************************************************************)
(* The reference.  Truth(op, t, f) is what the operator or the check says  *)
(* of t true and f false operands.                                         *)
(***************************************************************************)
Truth(op, t, f) ==
  IF op \in {"AND", "all"} THEN f = 0
  ELSE IF op \in {"OR", "at_least_one"} THEN t > 0
  ELSE IF op = "none_satisfy" THEN t = 0
  ELSE IF op \in {"ONE", "only_one"} THEN t = 1
  ELSE t % 2 = 1

OpenCount(c) == c["error"] + c["unknown"] + c["noteval"]

\* In every case, or in none: k of the undetermined operands turn out to be true.
Always(op, c) == \A k \in 0..OpenCount(c) :
                    Truth(op, c["true"] + k, c["false"] + (OpenCount(c) - k))
Never(op, c) == \A k \in 0..OpenCount(c) :
                   ~ Truth(op, c["true"] + k, c["false"] + (OpenCount(c) - k))

Kleene(op, c) == IF Operands(c) = 0 THEN NoOperand(c)
                 ELSE IF Always(op, c) THEN "true"
                 ELSE IF Never(op, c) THEN "false" ELSE OpenResult(c)

\* What an existence requirement says of e existing and m missing things.
Exist(check, e, m) ==
  IF check = "all_exist" THEN e >= 1 /\ m = 0
  ELSE IF check = "any_exist" THEN TRUE
  ELSE IF check = "at_least_one_exists" THEN e >= 1
  ELSE IF check = "none_exist" THEN e = 0
  ELSE e = 1

\* What the existence chart of the OVAL schema says of a tally: true (false) when every
\* way to settle the things in error or not collected satisfies (violates) the
\* requirement, and otherwise error before unknown.  any_exist, which nothing violates,
\* is an error when all that is known is that something could not be read.
ExistenceSays(check, n) ==
  LET x == n["error"] + n["not_collected"]
      Settled(k) == Exist(check, n["exists"] + k, n["does_not_exist"] + (x - k))
  IN  IF check = "any_exist"
      THEN IF n["exists"] = 0 /\ n["error"] >= 1 THEN "error" ELSE "true"
      ELSE IF \A k \in 0..x : Settled(k) THEN "true"
      ELSE IF \A k \in 0..x : ~ Settled(k) THEN "false"
      ELSE IF n["error"] >= 1 THEN "error" ELSE "unknown"
==============================================================================
