--------------------------- MODULE OvalLogicProofs ---------------------------
(***************************************************************************)
(* Oresults: the combination functions agree with the reference for tallies *)
(* of any size.  The lemmas are about the operators of OvalLogic; for each *)
(* operator the undetermined operands matter only through the two extreme  *)
(* cases, none of them true or one (all) of them true.                     *)
(***************************************************************************)
EXTENDS Oresults, TLAPS

\* The counters of a tally are natural numbers.
LEMMA TallyCounts ==
  ASSUME NEW c \in Tallies
  PROVE  /\ c["true"] \in Nat /\ c["false"] \in Nat /\ c["notappl"] \in Nat
         /\ c["error"] \in Nat /\ c["unknown"] \in Nat /\ c["noteval"] \in Nat
         /\ OpenCount(c) \in Nat
         /\ Determined(c) <=> OpenCount(c) = 0
         /\ Operands(c) = c["true"] + c["false"] + OpenCount(c)
<1>1. /\ c["true"] \in Nat /\ c["false"] \in Nat /\ c["notappl"] \in Nat
      /\ c["error"] \in Nat /\ c["unknown"] \in Nat /\ c["noteval"] \in Nat
  BY DEF Tallies, Results
<1>2. Determined(c) <=> c["error"] = 0 /\ c["unknown"] = 0 /\ c["noteval"] = 0
  BY DEF Determined, Open
<1> QED
  BY <1>1, <1>2 DEF OpenCount, Operands

\* Conjunction ("AND", "all"): decided by one false operand, or by there being no
\* undetermined one.
LEMMA Conjunction ==
  ASSUME NEW c \in Tallies, NEW op \in {"AND", "all"}
  PROVE  /\ Always(op, c) <=> c["false"] = 0 /\ Determined(c)
         /\ Operands(c) # 0 => (Never(op, c) <=> c["false"] > 0)
<1> DEFINE t == c["true"]  f == c["false"]  u == OpenCount(c)
<1>1. t \in Nat /\ f \in Nat /\ u \in Nat /\ (Determined(c) <=> u = 0)
      /\ \A k \in 0..u : t + k \in Nat /\ f + (u - k) \in Nat
  <2>1. t \in Nat /\ f \in Nat /\ u \in Nat /\ (Determined(c) <=> u = 0)
    BY TallyCounts
  <2> HIDE DEF t, f, u
  <2> QED
    BY <2>1
<1>2. \A a, b \in Nat : Truth(op, a, b) <=> b = 0
  BY DEF Truth
<1>3. Always(op, c) <=> \A k \in 0..u : f + (u - k) = 0
  BY <1>1, <1>2 DEF Always
<1>4. Never(op, c) <=> \A k \in 0..u : f + (u - k) # 0
  BY <1>1, <1>2 DEF Never
<1>5. 0 \in 0..u /\ u \in 0..u
  BY <1>1
<1>6. Operands(c) = t + f + u
  BY TallyCounts
<1> HIDE DEF t, f, u
<1>7. Always(op, c) <=> f = 0 /\ u = 0
  BY <1>1, <1>3, <1>5
<1>8. t + f + u # 0 => (Never(op, c) <=> f > 0)
  BY <1>1, <1>4, <1>5
<1> QED
  BY <1>1, <1>6, <1>7, <1>8 DEF t, f, u

\* Disjunction ("OR", "at_least_one"): decided by one true operand.
LEMMA Disjunction ==
  ASSUME NEW c \in Tallies, NEW op \in {"OR", "at_least_one"}
  PROVE  /\ Always(op, c) <=> c["true"] > 0
         /\ Never(op, c) <=> c["true"] = 0 /\ Determined(c)
<1> DEFINE t == c["true"]  f == c["false"]  u == OpenCount(c)
<1>1. t \in Nat /\ f \in Nat /\ u \in Nat /\ (Determined(c) <=> u = 0)
      /\ \A k \in 0..u : t + k \in Nat /\ f + (u - k) \in Nat
  <2>1. t \in Nat /\ f \in Nat /\ u \in Nat /\ (Determined(c) <=> u = 0)
    BY TallyCounts
  <2> HIDE DEF t, f, u
  <2> QED
    BY <2>1
<1>2. \A a, b \in Nat : Truth(op, a, b) <=> a > 0
  BY DEF Truth
<1>3. Always(op, c) <=> \A k \in 0..u : t + k > 0
  BY <1>1, <1>2 DEF Always
<1>4. Never(op, c) <=> \A k \in 0..u : t + k = 0
  BY <1>1, <1>2 DEF Never
<1>5. 0 \in 0..u /\ u \in 0..u
  BY <1>1
<1> QED
  BY <1>1, <1>3, <1>4, <1>5

\* "none_satisfy": decided by one true operand.
LEMMA NoneSatisfy ==
  ASSUME NEW c \in Tallies
  PROVE  /\ Always("none_satisfy", c) <=> c["true"] = 0 /\ Determined(c)
         /\ Never("none_satisfy", c) <=> c["true"] > 0
<1> DEFINE t == c["true"]  f == c["false"]  u == OpenCount(c)
<1>1. t \in Nat /\ f \in Nat /\ u \in Nat /\ (Determined(c) <=> u = 0)
      /\ \A k \in 0..u : t + k \in Nat /\ f + (u - k) \in Nat
  <2>1. t \in Nat /\ f \in Nat /\ u \in Nat /\ (Determined(c) <=> u = 0)
    BY TallyCounts
  <2> HIDE DEF t, f, u
  <2> QED
    BY <2>1
<1>2. \A a, b \in Nat : Truth("none_satisfy", a, b) <=> a = 0
  BY DEF Truth
<1>3. Always("none_satisfy", c) <=> \A k \in 0..u : t + k = 0
  BY <1>1, <1>2 DEF Always
<1>4. Never("none_satisfy", c) <=> \A k \in 0..u : t + k # 0
  BY <1>1, <1>2 DEF Never
<1>5. 0 \in 0..u /\ u \in 0..u
  BY <1>1
<1> HIDE DEF t, f, u
<1>6. Always("none_satisfy", c) <=> t = 0 /\ u = 0
  BY <1>1, <1>3, <1>5
<1>7. Never("none_satisfy", c) <=> t > 0
  BY <1>1, <1>4, <1>5
<1> QED
  BY <1>1, <1>6, <1>7 DEF t, f, u

\* Exactly one ("ONE", "only_one"): two true operands refute it, and nothing else is
\* certain while an operand is undetermined.
LEMMA ExactlyOne ==
  ASSUME NEW c \in Tallies, NEW op \in {"ONE", "only_one"}
  PROVE  /\ Always(op, c) <=> c["true"] = 1 /\ Determined(c)
         /\ Never(op, c) <=> c["true"] > 1 \/ (c["true"] = 0 /\ Determined(c))
<1> DEFINE t == c["true"]  f == c["false"]  u == OpenCount(c)
<1>1. t \in Nat /\ f \in Nat /\ u \in Nat /\ (Determined(c) <=> u = 0)
      /\ \A k \in 0..u : t + k \in Nat /\ f + (u - k) \in Nat
  <2>1. t \in Nat /\ f \in Nat /\ u \in Nat /\ (Determined(c) <=> u = 0)
    BY TallyCounts
  <2> HIDE DEF t, f, u
  <2> QED
    BY <2>1
<1>2. \A a, b \in Nat : Truth(op, a, b) <=> a = 1
  BY DEF Truth
<1>3. Always(op, c) <=> \A k \in 0..u : t + k = 1
  BY <1>1, <1>2 DEF Always
<1>4. Never(op, c) <=> \A k \in 0..u : t + k # 1
  BY <1>1, <1>2 DEF Never
<1>5. 0 \in 0..u /\ (u > 0 => 1 \in 0..u)
  BY <1>1
<1> QED
  BY <1>1, <1>3, <1>4, <1>5

\* Parity ("XOR"): one undetermined operand makes it uncertain.
LEMMA Parity ==
  ASSUME NEW c \in Tallies
  PROVE  /\ Always("XOR", c) <=> c["true"] % 2 = 1 /\ Determined(c)
         /\ Never("XOR", c) <=> c["true"] % 2 = 0 /\ Determined(c)
<1> DEFINE t == c["true"]  f == c["false"]  u == OpenCount(c)
<1>1. t \in Nat /\ f \in Nat /\ u \in Nat /\ (Determined(c) <=> u = 0)
      /\ \A k \in 0..u : t + k \in Nat /\ f + (u - k) \in Nat
  <2>1. t \in Nat /\ f \in Nat /\ u \in Nat /\ (Determined(c) <=> u = 0)
    BY TallyCounts
  <2> HIDE DEF t, f, u
  <2> QED
    BY <2>1
<1>2. \A a, b \in Nat : Truth("XOR", a, b) <=> a % 2 = 1
  BY DEF Truth
<1>3. Always("XOR", c) <=> \A k \in 0..u : (t + k) % 2 = 1
  BY <1>1, <1>2 DEF Always
<1>4. Never("XOR", c) <=> \A k \in 0..u : (t + k) % 2 # 1
  BY <1>1, <1>2 DEF Never
<1>5. 0 \in 0..u /\ (u > 0 => 1 \in 0..u)
  BY <1>1
<1>6. /\ t % 2 = 0 \/ t % 2 = 1
      /\ t % 2 = 1 <=> (t + 1) % 2 = 0
      /\ t + 0 = t /\ (t + 1) % 2 \in 0..1
  <2> HIDE DEF t
  <2>1. t \in Nat
    BY <1>1
  <2>2. /\ t % 2 \in 0..1 /\ (t + 1) % 2 \in 0..1
        /\ t = 2 * (t \div 2) + (t % 2)
        /\ t + 1 = 2 * ((t + 1) \div 2) + ((t + 1) % 2)
        /\ t \div 2 \in Nat /\ (t + 1) \div 2 \in Nat
    BY <2>1
  <2> QED
    BY <2>1, <2>2
<1>7. CASE u = 0
  BY <1>1, <1>3, <1>4, <1>6, <1>7
<1>8. CASE u > 0
  <2>1. ~ Always("XOR", c)
    BY <1>3, <1>5, <1>6, <1>8
  <2>2. ~ Never("XOR", c)
    BY <1>4, <1>5, <1>6, <1>8
  <2> QED
    BY <2>1, <2>2, <1>1, <1>8
<1> QED
  BY <1>1, <1>7, <1>8

\* ores_get_result_byopr is the reference, operator by operator.
LEMMA ByoprExact ==
  ASSUME NEW c \in Tallies, NEW op \in Operators
  PROVE  ores_get_result_byopr(c, op) = Kleene(op, c)
<1>1. CASE op = "AND"
  BY <1>1, TallyCounts, Conjunction DEF ores_get_result_byopr, Kleene
<1>2. CASE op = "ONE"
  BY <1>2, TallyCounts, ExactlyOne DEF ores_get_result_byopr, Kleene
<1>3. CASE op = "OR"
  BY <1>3, TallyCounts, Disjunction DEF ores_get_result_byopr, Kleene
<1>4. CASE op = "XOR"
  BY <1>4, TallyCounts, Parity DEF ores_get_result_byopr, Kleene
<1> QED
  BY <1>1, <1>2, <1>3, <1>4 DEF Operators

\* ores_get_result_bychk is the reference for three checks, and gives no other verdict
\* than the reference for "at_least_one".
LEMMA BychkExact ==
  ASSUME NEW c \in Tallies
  PROVE  /\ \A ch \in Checks \ {"at_least_one"} :
               ores_get_result_bychk(c, ch) = Kleene(ch, c)
         /\ ores_get_result_bychk(c, "at_least_one") # Kleene("at_least_one", c)
            => {ores_get_result_bychk(c, "at_least_one"), Kleene("at_least_one", c)}
                  \subseteq Open
<1>1. ores_get_result_bychk(c, "all") = Kleene("all", c)
  BY TallyCounts, Conjunction DEF ores_get_result_bychk, Kleene
<1>2. ores_get_result_bychk(c, "none_satisfy") = Kleene("none_satisfy", c)
  BY TallyCounts, NoneSatisfy DEF ores_get_result_bychk, Kleene
<1>3. ores_get_result_bychk(c, "only_one") = Kleene("only_one", c)
  BY TallyCounts, ExactlyOne DEF ores_get_result_bychk, Kleene
<1>4. OpenResult(c) \in Open
  BY DEF OpenResult, Open
<1>5. ores_get_result_bychk(c, "at_least_one") # Kleene("at_least_one", c)
      => {ores_get_result_bychk(c, "at_least_one"), Kleene("at_least_one", c)}
            \subseteq Open
  <2>1. "error" \in Open
    BY DEF Open
  <2> QED
    BY <1>4, <2>1, TallyCounts, Disjunction DEF ores_get_result_bychk, Kleene
<1> QED
  BY <1>1, <1>2, <1>3, <1>5 DEF Checks

\* The reference is the existence chart of oval-common-schema.xsd, row by row.
LEMMA ExistenceChart ==
  ASSUME NEW n \in StatusTallies,
         NEW e, e = n["exists"], NEW m, m = n["does_not_exist"],
         NEW r, r = n["error"], NEW u, u = n["not_collected"]
  PROVE  /\ e \in Nat /\ m \in Nat /\ r \in Nat /\ u \in Nat
         /\ ExistenceSays("all_exist", n) = IF m >= 1 THEN "false"
                                           ELSE IF r >= 1 THEN "error"
                                           ELSE IF u >= 1 THEN "unknown"
                                           ELSE IF e >= 1 THEN "true" ELSE "false"
         /\ ExistenceSays("any_exist", n) = IF e = 0 /\ r >= 1 THEN "error" ELSE "true"
         /\ ExistenceSays("at_least_one_exists", n) = IF e >= 1 THEN "true"
                                                     ELSE IF r >= 1 THEN "error"
                                                     ELSE IF u >= 1 THEN "unknown"
                                                     ELSE "false"
         /\ ExistenceSays("none_exist", n) = IF e >= 1 THEN "false"
                                            ELSE IF r >= 1 THEN "error"
                                            ELSE IF u >= 1 THEN "unknown" ELSE "true"
         /\ ExistenceSays("only_one_exists", n) = IF e >= 2 THEN "false"
                                                 ELSE IF r >= 1 THEN "error"
                                                 ELSE IF u >= 1 THEN "unknown"
                                                 ELSE IF e = 1 THEN "true" ELSE "false"
<1> DEFINE x == r + u
           S(ch, k) == Exist(ch, e + k, m + (x - k))
           All(ch) == \A k \in 0..x : S(ch, k)
           No(ch) == \A k \in 0..x : ~ S(ch, k)
<1>1. e \in Nat /\ m \in Nat /\ r \in Nat /\ u \in Nat
  BY DEF StatusTallies, Statuses
<1>2. /\ x \in Nat /\ 0 \in 0..x /\ x \in 0..x /\ (x >= 1 => 1 \in 0..x)
      /\ x = 0 <=> r = 0 /\ u = 0
      /\ \A k \in 0..x : k \in Nat /\ x - k \in Nat /\ k <= x
  BY <1>1
<1>3. \A ch \in Existences \ {"any_exist"} :
         ExistenceSays(ch, n) = IF All(ch) THEN "true" ELSE IF No(ch) THEN "false"
                                ELSE IF r >= 1 THEN "error" ELSE "unknown"
  BY DEF ExistenceSays
<1>4. ExistenceSays("any_exist", n) = IF e = 0 /\ r >= 1 THEN "error" ELSE "true"
  BY DEF ExistenceSays
<1>5. \A k \in 0..x : /\ S("all_exist", k) <=> e + k >= 1 /\ m + (x - k) = 0
                      /\ S("at_least_one_exists", k) <=> e + k >= 1
                      /\ S("none_exist", k) <=> e + k = 0
                      /\ S("only_one_exists", k) <=> e + k = 1
  BY DEF Exist
<1> HIDE DEF x, S
<1>6. /\ All("all_exist") <=> e >= 1 /\ m = 0 /\ x = 0
      /\ No("all_exist") <=> m >= 1 \/ (e = 0 /\ x = 0)
  <2>1. /\ S("all_exist", 0) <=> e >= 1 /\ m + x = 0
        /\ S("all_exist", x) <=> e + x >= 1 /\ m = 0
    BY <1>1, <1>2, <1>5
  <2>2. ASSUME NEW k \in 0..x, S("all_exist", k) PROVE m = 0 /\ e + x >= 1
    <3>1. e + k >= 1 /\ m + (x - k) = 0
      BY <1>5, <2>2
    <3>2. k \in Nat /\ x - k \in Nat /\ k <= x
      BY <1>2
    <3>3. \A d \in Nat : m + d = 0 => m = 0
      BY <1>1
    <3>4. \A j \in Nat : j <= x /\ e + j >= 1 => e + x >= 1
      <4>1. x \in Nat
        BY <1>2
      <4> QED
        BY <1>1, <4>1
    <3> QED
      BY <3>1, <3>2, <3>3, <3>4
  <2>3. x = 0 => \A k \in 0..x : k = 0
    BY <1>1, <1>2
  <2>4. All("all_exist") <=> e >= 1 /\ m = 0 /\ x = 0
    <3>1. All("all_exist") => S("all_exist", 0)
      BY <1>2
    <3>2. x = 0 /\ S("all_exist", 0) => All("all_exist")
      BY <2>3
    <3> QED
      BY <1>1, <1>2, <2>1, <3>1, <3>2
  <2>5. No("all_exist") <=> ~ (m = 0 /\ e + x >= 1)
    BY <1>2, <2>1, <2>2
  <2> QED
    BY <1>1, <1>2, <2>4, <2>5
<1>7. /\ All("at_least_one_exists") <=> e >= 1
      /\ No("at_least_one_exists") <=> e = 0 /\ x = 0
  BY <1>1, <1>2, <1>5
<1>8. /\ All("none_exist") <=> e = 0 /\ x = 0
      /\ No("none_exist") <=> e >= 1
  BY <1>1, <1>2, <1>5
<1>9. /\ All("only_one_exists") <=> e = 1 /\ x = 0
      /\ No("only_one_exists") <=> e >= 2 \/ (e = 0 /\ x = 0)
  BY <1>1, <1>2, <1>5
<1> HIDE DEF All, No
<1> QED
  BY <1>1, <1>2, <1>3, <1>4, <1>6, <1>7, <1>8, <1>9 DEF Existences

\* The verdict on a test's items is the chart's, outside the two exceptions.
LEMMA ItemsExact ==
  ASSUME NEW n \in StatusTallies, n["not_collected"] = 0, NEW ch \in Existences,
         ~ (ch = "all_exist" /\ n["does_not_exist"] >= 1),
         ~ (ch = "none_exist" /\ n["exists"] >= 1 /\ n["error"] >= 1)
  PROVE  eval_check_existence(ch, n["exists"], n["error"]) = ExistenceSays(ch, n)
  BY ExistenceChart DEF eval_check_existence, Existences

\* The second exception: an error hides the existing item.
LEMMA ErrorFirst ==
  ASSUME NEW e \in Nat, NEW r \in Nat, e >= 1, r >= 1
  PROVE  eval_check_existence("none_exist", e, r) = "error"
  BY DEF eval_check_existence

\* So is the verdict on an item's entities, outside its own three.
LEMMA EntitiesExact ==
  ASSUME NEW n \in StatusTallies, NEW ch \in Existences,
         ~ (ch = "at_least_one_exists"
            /\ n["exists"] = 0 /\ n["error"] = 0 /\ n["not_collected"] = 0),
         ~ (ch = "only_one_exists" /\ n["exists"] <= 1 /\ n["error"] = 0
            /\ (n["exists"] = 0 \/ n["not_collected"] >= 1))
  PROVE  oval_status_counter_get_result(n, ch) = ExistenceSays(ch, n)
<1> USE ExistenceChart
<1>1. CASE ch = "all_exist"
  BY <1>1 DEF oval_status_counter_get_result
<1>2. CASE ch = "any_exist"
  BY <1>2 DEF oval_status_counter_get_result
<1>3. CASE ch = "at_least_one_exists"
  BY <1>3 DEF oval_status_counter_get_result
<1>4. CASE ch = "none_exist"
  BY <1>4 DEF oval_status_counter_get_result
<1>5. CASE ch = "only_one_exists"
  BY <1>5 DEF oval_status_counter_get_result
<1> QED
  BY <1>1, <1>2, <1>3, <1>4, <1>5 DEF Existences

\* What the code says in those cases.
LEMMA EntitiesAmiss ==
  ASSUME NEW n \in StatusTallies, n["exists"] <= 1, n["error"] = 0
  PROVE  /\ n["exists"] = 0 /\ n["not_collected"] = 0
            => /\ oval_status_counter_get_result(n, "at_least_one_exists") = "unknown"
               /\ oval_status_counter_get_result(n, "only_one_exists") = "unknown"
         /\ n["exists"] = 0 /\ n["not_collected"] = 1
            => oval_status_counter_get_result(n, "only_one_exists") = "false"
         /\ n["not_collected"] >= 1 /\ n["exists"] + n["not_collected"] >= 2
            => oval_status_counter_get_result(n, "only_one_exists") = "error"
<1>1. n["exists"] \in Nat /\ n["does_not_exist"] \in Nat /\ n["not_collected"] \in Nat
  BY DEF StatusTallies, Statuses
<1> QED
  BY <1>1 DEF oval_status_counter_get_result

-----------------------------------------------------------------------------
\* The tallies stay natural numbers that together count no operand twice, whatever is
\* added to them (ores_add_res, oval_status_counter_add_status).
THEOREM TalliesCorrect == Spec => []TallyTypeOK
<1> USE DEF TallyTypeOK, Operands, Tallies, StatusTallies, Results, Statuses
<1>1. Init => TallyTypeOK
  BY DEF Init, ores_clear, oval_status_counter_clear
<1>2. TallyTypeOK /\ [Next]_vars => TallyTypeOK'
  <2> SUFFICES ASSUME TallyTypeOK, [Next]_vars PROVE TallyTypeOK'
    OBVIOUS
  <2>1. CASE \E res \in Results \cup {Failed} : AddResult(res)
    BY <2>1 DEF AddResult, ores_add_res
  <2>2. CASE \E s \in Statuses : AddStatus(s)
    BY <2>2 DEF AddStatus, oval_status_counter_add_status
  <2>3. CASE UNCHANGED vars
    BY <2>3 DEF vars
  <2> QED
    BY <2>1, <2>2, <2>3 DEF Next
<1> QED
  BY <1>1, <1>2, PTL DEF Spec

\* The operators of criteria and states compute exactly the reference, for any number
\* of operands (ores_get_result_byopr).
THEOREM OperatorsAreExact == Spec => []OperatorsExact
<1>1. TallyTypeOK => OperatorsExact
  BY ByoprExact DEF TallyTypeOK, OperatorsExact
<1> QED
  BY <1>1, TalliesCorrect, PTL

\* The checks compute exactly the reference, "at_least_one" up to the kind of
\* undetermined result (ores_get_result_bychk).
THEOREM ChecksAreExact == Spec => []ChecksExact
<1>1. TallyTypeOK => ChecksExact
  BY BychkExact DEF TallyTypeOK, ChecksExact
<1> QED
  BY <1>1, TalliesCorrect, PTL

\* What a test concludes from the existence of its items is what the schema's chart
\* says of the whole tally, or, when items were not collected or are missing under
\* all_exist, what it says of the others; but for an error beside an existing item
\* under none_exist (eval_check_existence).
THEOREM TestExistenceIsExact == Spec => []TestExistenceExact
<1>1. TallyTypeOK => TestExistenceExact
  <2> SUFFICES ASSUME counter \in StatusTallies PROVE TestExistenceExact
    BY DEF TallyTypeOK
  <2> DEFINE seen == [counter EXCEPT !["does_not_exist"] = 0, !["not_collected"] = 0]
  <2>1. /\ seen \in StatusTallies
        /\ seen["exists"] = counter["exists"] /\ seen["error"] = counter["error"]
        /\ seen["does_not_exist"] = 0 /\ seen["not_collected"] = 0
        /\ \A s \in Statuses : counter[s] \in Nat
    BY DEF StatusTallies, Statuses
  <2> SUFFICES ASSUME NEW ch \in Existences
               PROVE  LET result == eval_check_existence(ch, counter["exists"], counter["error"])
                      IN  \/ result = ExistenceSays(ch, counter)
                          \/ /\ \/ counter["not_collected"] >= 1
                                \/ ch = "all_exist" /\ counter["does_not_exist"] >= 1
                             /\ result = ExistenceSays(ch, seen)
                          \/ /\ ch = "none_exist"
                             /\ counter["exists"] >= 1 /\ counter["error"] >= 1
                             /\ result = "error"
    BY DEF TestExistenceExact
  <2> HIDE DEF seen
  <2>2. CASE ch = "none_exist" /\ counter["exists"] >= 1 /\ counter["error"] >= 1
    BY <2>1, <2>2, ErrorFirst DEF Statuses
  <2>3. CASE ~ (ch = "none_exist" /\ counter["exists"] >= 1 /\ counter["error"] >= 1)
    <3>1. eval_check_existence(ch, counter["exists"], counter["error"]) = ExistenceSays(ch, seen)
      BY <2>1, <2>3, ItemsExact
    <3>2. \/ eval_check_existence(ch, counter["exists"], counter["error"])
               = ExistenceSays(ch, counter)
          \/ counter["not_collected"] >= 1
          \/ ch = "all_exist" /\ counter["does_not_exist"] >= 1
      <4>1. counter["not_collected"] \in Nat
        BY <2>1 DEF Statuses
      <4> QED
        BY <2>3, <4>1, ItemsExact
    <3> QED
      BY <3>1, <3>2
  <2> QED
    BY <2>2, <2>3
<1> QED
  BY <1>1, TalliesCorrect, PTL

\* What is concluded from the existence of an item's entities is what the chart says,
\* but for at_least_one_exists with nothing there and for only_one_exists with at most
\* one entity and no error, and it is known what is concluded then
\* (oval_status_counter_get_result).
THEOREM EntityExistenceIsExact == Spec => []EntityExistenceExact
<1>1. TallyTypeOK => EntityExistenceExact
  <2> SUFFICES ASSUME counter \in StatusTallies PROVE EntityExistenceExact
    BY DEF TallyTypeOK
  <2>1. \A s \in Statuses : counter[s] \in Nat
    BY DEF StatusTallies
  <2> QED
    BY <2>1, EntitiesExact, EntitiesAmiss DEF EntityExistenceExact, Statuses
<1> QED
  BY <1>1, TalliesCorrect, PTL
==============================================================================
