SPECIFICATION Spec
CHECK_DEADLOCK FALSE
CONSTANTS
  d1 = d1 d2 = d2 d3 = d3 d4 = d4 d5 = d5 t1 = t1 t2 = t2 t3 = t3 o1 = o1 o2 = o2 o3 = o3
  v = v w = w l = l r1 = r1 r2 = r2 r3 = r3 r4 = r4 r5 = r5
  Vars = {v, w} Locals = {} Values = {1, 2} Lists = {{1}, {1, 2}}
  Defs = {d1, d2} Tests = {t1, t2} Objects = {o1, o2}
  Leaves <- TwoLeaves ObjectOf <- TwoObjectOf
  ObjRefs <- TwoObjRefs StateRefs <- TwoStateRefs Base <- TwoBase
  Rules = {r1, r2} RuleVars <- TwoRuleVars RuleDef <- TwoRuleDef
  All = All Missing = Missing None = None MaxRules = 4
INVARIANT RuleFresh
