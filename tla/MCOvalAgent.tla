----------------------------- MODULE MCOvalAgent -----------------------------
(***************************************************************************)
(* Documents for OvalAgent.                                                *)
(*                                                                         *)
(* Separate: every variable-dependent object and test belongs to one       *)
(* definition.  A rule binds all variables or none, and its definition     *)
(* depends on all or none: d1 by the object and the state of its test, d2  *)
(* by a state, d3 by extending d5, which has no criteria, and d2, which no *)
(* rule names alone; d4 only uses a local variable computed from           *)
(* constants.                                                              *)
(*                                                                         *)
(* Two: d1 depends on v, d2 on w, and nothing is shared; every rule binds  *)
(* both variables.                                                         *)
(***************************************************************************)
EXTENDS OvalAgent

CONSTANTS d1, d2, d3, d4, d5, t1, t2, t3, o1, o2, o3, v, w, l, r1, r2, r3, r4, r5

SeparateLeaves == (d1 :> <<t1>>) @@ (d2 :> <<t2>>) @@ (d3 :> <<d5, d2>>) @@ (d4 :> <<t3>>)
               @@ (d5 :> << >>)
SeparateObjectOf == (t1 :> o1) @@ (t2 :> o2) @@ (t3 :> o3)
SeparateObjRefs == (o1 :> {v}) @@ (o2 :> {}) @@ (o3 :> {l})
SeparateStateRefs == (t1 :> {w}) @@ (t2 :> {v, w}) @@ (t3 :> {l})
SeparateBase == l :> {}
SeparateRuleVars == [r \in {r1, r2, r3, r4, r5} |-> IF r = r5 THEN {} ELSE {v, w}]
SeparateRuleDef == (r1 :> d1) @@ (r2 :> d3) @@ (r3 :> All) @@ (r4 :> Missing) @@ (r5 :> d4)

TwoLeaves == (d1 :> <<t1>>) @@ (d2 :> <<t2>>)
TwoObjectOf == (t1 :> o1) @@ (t2 :> o2)
TwoObjRefs == (o1 :> {}) @@ (o2 :> {})
TwoStateRefs == (t1 :> {v}) @@ (t2 :> {w})
TwoBase == << >>
TwoRuleVars == (r1 :> {v, w}) @@ (r2 :> {v, w})
TwoRuleDef == (r1 :> d1) @@ (r2 :> d2)
=============================================================================
