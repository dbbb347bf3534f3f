---------------------------- MODULE MCDefinition ----------------------------
(***************************************************************************)
(* Two definitions that share tests and extend one another:                *)
(*   d1 = criteria(T1, NOT criteria(T2, d3), d2)   (nodes 1 to 6)          *)
(*   d2 = criteria(NOT T1, T3, T4)                 (nodes 7 to 10)         *)
(* and d3, which has no criteria.  T1, T2 and T4 share the object o1; T4   *)
(* is not of its subtype.                                                  *)
(***************************************************************************)
EXTENDS DefinitionEvaluation, TLC

CONSTANTS d1, d2, d3, T1, T2, T3, T4, o1, o2, match, nomatch, part

MCDefs == {d1, d2, d3}
MCNodes == 1..10
MCTests == {T1, T2, T3, T4}
MCObjects == {o1, o2}
MCItems == {match, nomatch, part}

MCCriteria == (d1 :> 1) @@ (d2 :> 7) @@ (d3 :> None)
MCNodeType == <<"criteria", "criterion", "criteria", "extend", "criterion", "extend",
                "criteria", "criterion", "criterion", "criterion">>
MCSubnodes == <<<<2, 3, 4>>, << >>, <<5, 6>>, << >>, << >>, << >>, <<8, 9, 10>>,
                << >>, << >>, << >>>>
MCTarget == <<None, T1, None, d2, T2, d3, None, T1, T3, T4>>
MCNegate == [n \in MCNodes |-> n \in {3, 8}]
MCOperatorSets == [n \in MCNodes |-> IF n = 1 THEN Operators
                                     ELSE IF n = 7 THEN {"ONE"} ELSE {"OR"}]
MCKnownSubtype == [t \in MCTests |-> TRUE]
MCObjectOf == (T1 :> o1) @@ (T2 :> o1) @@ (T3 :> o2) @@ (T4 :> o1)
MCCompatible == [t \in MCTests |-> t # T4]
MCExistence == (T1 :> "at_least_one_exists") @@ (T2 :> "any_exist") @@ (T3 :> "none_exist")
            @@ (T4 :> "only_one_exists")
MCCheck == (T1 :> "all") @@ (T2 :> "at_least_one") @@ (T3 :> "all") @@ (T4 :> "all")
MCStateOp == (T1 :> "AND") @@ (T2 :> "OR") @@ (T3 :> "AND") @@ (T4 :> "AND")

Content(v, var) == [name |-> "value", values |-> v, var |-> var,
                    var_check |-> "at_least_one", check |-> "all",
                    existence |-> "at_least_one_exists"]
State(op, contents) == [operator |-> op, contents |-> contents]
Good == State("AND", <<Content(<<"good">>, "literal")>>)
Odd == State("AND", <<Content(<<"odd">>, "literal")>>)
MCStates == (T1 :> <<State("AND", <<Content(<<"good", "fine">>, "complete")>>)>>)
         @@ (T2 :> <<Good, Odd>>)
         @@ (T3 :> << >>) @@ (T4 :> << >>)

MCItemsOf == (o1 :> {match, nomatch, part}) @@ (o2 :> {match})
MCStatus == (match :> "exists") @@ (nomatch :> "exists") @@ (part :> "not_collected")
Entity(v) == <<[name |-> "value", status |-> "exists", value |-> v]>>
MCEntities == (match :> Entity("good")) @@ (nomatch :> Entity("bad"))
           @@ (part :> << >>)

\* Values of a data type the program does not support are not compared.
MCCompare(v, w) == IF w = "odd" THEN "noteval" ELSE IF v = w THEN "true" ELSE "false"

\* DefinitionSound is about documents in which no definition extends itself.
ASSUME DocumentIsAcyclic == Acyclic
=============================================================================
