----------------------- MODULE DefinitionEvaluationProofs -----------------------
(***************************************************************************)
(* DefinitionEvaluation: the results in a report explain each other, a     *)
(* result once known is never replaced, and a test's verdict is the one    *)
(* its collected object gives, for every document (definitions may extend  *)
(* each other in circles), every content of the system and every order of  *)
(* evaluations.                                                            *)
(*                                                                         *)
(* The stack changes in three ways: a frame is pushed, the top frame is    *)
(* replaced, or it is popped and its result recorded.  One lemma for each  *)
(* preserves the part of the invariant that is about the stack; what is    *)
(* popped is evaluated nowhere else on the stack.                          *)
(***************************************************************************)
EXTENDS DefinitionEvaluation, FiniteSetTheorems, SequenceTheorems, RecursionLemmas, TLAPS

StackInv == ChainInv /\ ProgressInv /\ ReturnInv /\ DoneInv /\ TallyInv

\* The frames of a stack after a push, a pop and a replacement of its top.
LEMMA PushedFrames ==
  ASSUME NEW S, NEW s \in Seq(S), NEW f \in S
  PROVE  /\ <<f>> \o s \in Seq(S) /\ Len(<<f>> \o s) = Len(s) + 1
         /\ (<<f>> \o s)[1] = f /\ <<f>> \o s # << >>
         /\ \A k \in 2 .. Len(s) + 1 : (<<f>> \o s)[k] = s[k - 1]
  OBVIOUS

LEMMA PoppedFrames ==
  ASSUME NEW S, NEW s \in Seq(S), s # << >>
  PROVE  /\ Tail(s) \in Seq(S) /\ Len(Tail(s)) = Len(s) - 1
         /\ \A k \in 1 .. Len(s) - 1 : Tail(s)[k] = s[k + 1]
         /\ Len(s) \in Nat \ {0} /\ Head(s) = s[1] /\ s[1] \in S
  OBVIOUS

LEMMA ReplacedFrames ==
  ASSUME NEW S, NEW s \in Seq(S), s # << >>, NEW f \in S
  PROVE  /\ <<f>> \o Tail(s) \in Seq(S) /\ Len(<<f>> \o Tail(s)) = Len(s)
         /\ (<<f>> \o Tail(s))[1] = f /\ <<f>> \o Tail(s) # << >>
         /\ \A k \in 2 .. Len(s) : (<<f>> \o Tail(s))[k] = s[k]
<1>1. Tail(s) \in Seq(S) /\ Len(Tail(s)) = Len(s) - 1 /\ Len(s) \in Nat \ {0}
      /\ \A k \in 1 .. Len(s) - 1 : Tail(s)[k] = s[k + 1]
  BY PoppedFrames
<1> QED
  BY <1>1

\* The tally of no result is clear, and counting one more result is ores_add_res.
LEMMA NoTally ==
  ASSUME NEW f, DOMAIN f = {}
  PROVE  Tally(f, 1) = ores_clear
<1>1. \A r : {x \in DOMAIN f : f[x] = r} = {}
  OBVIOUS
<1>2. Cardinality({}) = 0
  BY FS_EmptySet
<1> QED
  BY <1>1, <1>2 DEF Tally, ores_clear

LEMMA TallyIsTally ==
  ASSUME NEW f, IsFiniteSet(DOMAIN f), NEW copies \in Nat
  PROVE  Tally(f, copies) \in Tallies
<1>1. ASSUME NEW r \in Results
      PROVE  copies * Cardinality({x \in DOMAIN f : f[x] = r}) \in Nat
  <2>1. IsFiniteSet({x \in DOMAIN f : f[x] = r})
    BY FS_Subset
  <2>2. Cardinality({x \in DOMAIN f : f[x] = r}) \in Nat
    BY <2>1, FS_CardinalityType
  <2> QED
    BY <2>2
<1> QED
  BY <1>1 DEF Tally, Tallies

LEMMA TallyOneMore ==
  ASSUME NEW m \in Nat, NEW f, NEW g, DOMAIN f = 1 .. m, DOMAIN g = 1 .. m + 1,
         \A i \in 1 .. m : g[i] = f[i]
  PROVE  Tally(g, 1) = ores_add_res(Tally(f, 1), g[m + 1])
<1> DEFINE F(r) == {x \in DOMAIN f : f[x] = r}
           G(r) == {x \in DOMAIN g : g[x] = r}
<1>1. IsFiniteSet(DOMAIN f) /\ m + 1 \notin DOMAIN f
  BY FS_Interval
<1>2. Tally(f, 1) \in Tallies
  BY <1>1, TallyIsTally
<1>3. ASSUME NEW r \in Results
      PROVE  /\ Cardinality(F(r)) \in Nat
             /\ Cardinality(G(r)) = IF g[m + 1] = r THEN Cardinality(F(r)) + 1
                                                    ELSE Cardinality(F(r))
  <2>1. IsFiniteSet(F(r)) /\ m + 1 \notin F(r)
    BY <1>1, FS_Subset
  <2>2. Cardinality(F(r)) \in Nat
    BY <2>1, FS_CardinalityType
  <2>3. CASE g[m + 1] = r
    <3>1. G(r) = F(r) \cup {m + 1}
      BY <2>3
    <3>2. Cardinality(F(r) \cup {m + 1}) = Cardinality(F(r)) + 1
      BY ONLY <2>1, FS_AddElement
    <3> QED
      BY ONLY <2>2, <2>3, <3>1, <3>2
  <2>4. CASE g[m + 1] # r
    <3>1. G(r) = F(r)
      BY <2>4
    <3> QED
      BY ONLY <2>2, <2>4, <3>1
  <2> QED
    BY <2>3, <2>4
<1>4. Tally(f, 1) = [r \in Results |-> 1 * Cardinality(F(r))]
  BY DEF Tally
<1>5. Tally(g, 1) = [r \in Results |-> 1 * Cardinality(G(r))]
  BY DEF Tally
<1> HIDE DEF F, G
<1>6. Tally(f, 1) = [r \in Results |-> Cardinality(F(r))]
  BY ONLY <1>3, <1>4
<1>7. Tally(g, 1) = [r \in Results |-> IF g[m + 1] = r THEN Cardinality(F(r)) + 1
                                                       ELSE Cardinality(F(r))]
  BY ONLY <1>3, <1>5
<1> QED
  BY ONLY <1>6, <1>7 DEF ores_add_res

-----------------------------------------------------------------------------
\* The part of the invariant about the stack, for the three ways the stack changes.
LEMMA PushKeeps ==
  ASSUME StackInv, NEW f \in Frames, stack' = <<f>> \o stack, ret' = None,
         UNCHANGED <<dres, nres, tres>>,
         FrameOK(f), f.next = 1, f.ores = ores_clear,
         stack = << >> => f.kind = "definition",
         stack # << >> => /\ MayCall(Top) /\ Activation(f) = Callee(Top)
                          /\ ResultOf(Activation(Top)) = "noteval"
  PROVE  StackInv'
<1>1. stack \in Seq(Frames) /\ Len(stack) \in Nat /\ DOMAIN stack = 1 .. Len(stack)
      /\ (stack # << >> => Top = stack[1] /\ Len(stack) > 0)
      /\ (Len(stack) > 0 => stack # << >>)
  BY DEF StackInv, ChainInv, Top
<1>2. /\ stack' \in Seq(Frames) /\ Len(stack') = Len(stack) + 1
      /\ stack'[1] = f /\ stack' # << >>
      /\ DOMAIN stack' = 1 .. Len(stack) + 1
      /\ \A k \in 2 .. Len(stack) + 1 : k - 1 \in DOMAIN stack /\ stack'[k] = stack[k - 1]
  <2>1. /\ <<f>> \o stack \in Seq(Frames) /\ Len(<<f>> \o stack) = Len(stack) + 1
        /\ (<<f>> \o stack)[1] = f /\ <<f>> \o stack # << >>
        /\ \A k \in 2 .. Len(stack) + 1 : (<<f>> \o stack)[k] = stack[k - 1]
    BY <1>1, PushedFrames
  <2> QED
    BY <1>1, <2>1
<1>3. dres' = dres /\ nres' = nres /\ tres' = tres /\ ret' = None
  OBVIOUS
<1>4. FrameOK(f) /\ f.next = 1 /\ f.ores = ores_clear
      /\ (stack = << >> => f.kind = "definition")
      /\ (stack # << >> => /\ MayCall(Top) /\ Activation(f) = Callee(Top)
                           /\ ResultOf(Activation(Top)) = "noteval")
  OBVIOUS
<1>5. ChainInv /\ ProgressInv /\ ReturnInv /\ DoneInv /\ TallyInv
  BY DEF StackInv
<1>6. ChainInv'
  <2>1. ASSUME NEW k \in DOMAIN stack' PROVE FrameOK(stack'[k])
    <3>1. CASE k = 1
      BY ONLY <3>1, <1>2, <1>4
    <3>2. CASE k # 1
      <4>1. k - 1 \in DOMAIN stack /\ stack'[k] = stack[k - 1]
        BY ONLY <3>2, <1>1, <1>2, k \in DOMAIN stack'
      <4> QED
        BY ONLY <4>1, <1>5 DEF ChainInv
    <3> QED
      BY ONLY <3>1, <3>2
  <2>2. stack'[Len(stack')].kind = "definition"
    BY ONLY <1>1, <1>2, <1>4, <1>5 DEF ChainInv
  <2>3. ASSUME NEW k \in 1 .. Len(stack') - 1
        PROVE  MayCall(stack'[k + 1]) /\ Activation(stack'[k]) = Callee(stack'[k + 1])
    <3>1. CASE k = 1
      BY ONLY <3>1, <2>3, <1>1, <1>2, <1>4
    <3>2. CASE k # 1
      <4>1. k - 1 \in 1 .. Len(stack) - 1 /\ stack'[k] = stack[k - 1]
            /\ stack'[k + 1] = stack[(k - 1) + 1]
        BY ONLY <3>2, <1>1, <1>2, k \in 1 .. Len(stack') - 1
      <4> QED
        BY ONLY <4>1, <1>5 DEF ChainInv
    <3> QED
      BY ONLY <3>1, <3>2
  <2> QED
    BY ONLY <1>2, <2>1, <2>2, <2>3 DEF ChainInv
<1>7. ProgressInv'
  <2>1. ASSUME NEW k \in DOMAIN stack', k > 1 \/ stack'[k].next > 1
        PROVE  ResultOf(Activation(stack'[k])) = "noteval"
    <3>1. k \in 2 .. Len(stack) + 1
      BY ONLY <2>1, <1>1, <1>2, <1>4
    <3>2. CASE k = 2
      BY ONLY <3>1, <3>2, <1>1, <1>2, <1>4
    <3>3. CASE k # 2
      <4>1. k - 1 \in DOMAIN stack /\ k - 1 > 1 /\ stack'[k] = stack[k - 1]
        BY ONLY <3>1, <3>3, <1>1, <1>2
      <4> QED
        BY ONLY <4>1, <1>5 DEF ProgressInv
    <3> QED
      BY ONLY <3>2, <3>3
  <2> QED
    BY ONLY <2>1, <1>3 DEF ProgressInv, ResultOf
<1>8. ReturnInv'
  BY ONLY <1>3 DEF ReturnInv
<1>9. DoneInv'
  <2>1. ASSUME NEW k \in DOMAIN stack', stack'[k].kind = "node",
               NEW i \in 1 .. stack'[k].next - 1, NEW j \in k .. Len(stack')
        PROVE  Activation(stack'[j]) # <<"node", Subnodes[stack'[k].id][i]>>
    <3>1. k # 1
      BY ONLY <2>1, <1>2, <1>4
    <3>2. /\ k - 1 \in DOMAIN stack /\ stack'[k] = stack[k - 1]
          /\ j - 1 \in k - 1 .. Len(stack) /\ stack'[j] = stack[j - 1]
      BY ONLY <3>1, <2>1, <1>1, <1>2
    <3>3. /\ stack[k - 1].kind = "node" /\ i \in 1 .. stack[k - 1].next - 1
      BY ONLY <3>2, <2>1
    <3>4. Activation(stack[j - 1]) # <<"node", Subnodes[stack[k - 1].id][i]>>
      BY ONLY <3>2, <3>3, <1>5 DEF DoneInv
    <3> QED
      BY ONLY <3>2, <3>4
  <2> QED
    BY ONLY <2>1 DEF DoneInv
<1>10. TallyInv'
  <2>1. ASSUME NEW k \in DOMAIN stack', stack'[k].kind = "node",
               \A j \in 1 .. k - 1 : Activation(stack'[j]) # Activation(stack'[k])
        PROVE  stack'[k].ores = Tally([i \in 1 .. stack'[k].next - 1 |->
                                          nres[Subnodes[stack'[k].id][i]]], 1)
    <3>1. CASE k = 1
      <4> DEFINE g == [i \in 1 .. stack'[k].next - 1 |-> nres[Subnodes[stack'[k].id][i]]]
      <4>1. DOMAIN g = {}
        BY ONLY <3>1, <1>2, <1>4
      <4>2. Tally(g, 1) = ores_clear
        BY ONLY <4>1, NoTally
      <4> QED
        BY ONLY <4>2, <3>1, <1>2, <1>4
    <3>2. CASE k # 1
      <4>1. k - 1 \in DOMAIN stack /\ stack'[k] = stack[k - 1]
        BY ONLY <2>1, <3>2, <1>1, <1>2
      <4>2. Innermost(k - 1)
        <5> SUFFICES ASSUME NEW j \in 1 .. (k - 1) - 1
                     PROVE  Activation(stack[j]) # Activation(stack[k - 1])
          BY DEF Innermost
        <5>1. j + 1 \in 1 .. k - 1 /\ stack'[j + 1] = stack[j]
          BY ONLY j \in 1 .. (k - 1) - 1, <4>1, <1>1, <1>2, <2>1, <3>2
        <5> QED
          BY ONLY <5>1, <4>1, <2>1
      <4>3. stack[k - 1].kind = "node"
        BY ONLY <4>1, <2>1
      <4>4. stack[k - 1].ores = Tally([i \in 1 .. stack[k - 1].next - 1 |->
                                          nres[Subnodes[stack[k - 1].id][i]]], 1)
        BY ONLY <4>1, <4>2, <4>3, <1>5 DEF TallyInv
      <4> QED
        BY ONLY <4>1, <4>4
    <3> QED
      BY ONLY <3>1, <3>2
  <2> QED
    BY ONLY <2>1, <1>3 DEF TallyInv, Innermost
<1> QED
  BY ONLY <1>6, <1>7, <1>8, <1>9, <1>10 DEF StackInv

\* A node under evaluation that is a subnode was called by an evaluation of its parent.
LEMMA ParentFrame ==
  ASSUME ChainInv, stack # << >>, Top.kind = "node",
         NEW n \in Nodes, NEW i \in DOMAIN Subnodes[n], Subnodes[n][i] = Top.id
  PROVE  /\ Len(stack) \in Nat /\ Len(stack) > 1
         /\ stack[2].kind = "node" /\ stack[2].id = n /\ stack[2].next = i
<1>1. stack \in Seq(Frames) /\ Len(stack) \in Nat /\ Len(stack) > 0 /\ Top = stack[1]
  BY DEF ChainInv, Top
<1>2. Len(stack) > 1
  BY <1>1 DEF ChainInv
<1>3. 2 \in DOMAIN stack /\ stack[2] \in Frames
  BY <1>1, <1>2
<1>4. FrameOK(stack[2]) /\ MayCall(stack[2]) /\ Activation(stack[1]) = Callee(stack[2])
  <2>1. 1 \in 1 .. Len(stack) - 1
    BY <1>1, <1>2
  <2> QED
    BY <1>3, <2>1 DEF ChainInv
<1>5. <<"node", Subnodes[n][i]>> = Callee(stack[2])
  BY <1>1, <1>4 DEF Activation
<1>6. CASE stack[2].kind = "definition"
  <2>1. stack[2].id \in Defs /\ Criteria[stack[2].id] = Subnodes[n][i]
    BY <1>4, <1>5, <1>6 DEF FrameOK, Callee
  <2> QED
    BY <2>1, DocumentAssumption
<1>7. CASE stack[2].kind # "definition"
  <2>1. stack[2].kind = "node" /\ stack[2].id \in Nodes
    BY <1>4, <1>7 DEF MayCall, FrameOK
  <2>2. NodeType[stack[2].id] \in {"criteria", "criterion", "extend"}
    BY <2>1, DocumentAssumption
  <2>3. NodeType[stack[2].id] = "criteria"
        /\ Subnodes[stack[2].id][stack[2].next] = Subnodes[n][i]
    BY <1>5, <1>7, <2>2 DEF Callee
  <2>4. stack[2].next <= Len(Subnodes[stack[2].id]) /\ stack[2].next \in Nat \ {0}
    BY <1>3, <1>4, <1>7, <2>1, <2>3 DEF MayCall, Frames
  <2>5. Subnodes[stack[2].id] \in Seq(Nodes)
    BY <2>1, DocumentAssumption
  <2>6. stack[2].next \in DOMAIN Subnodes[stack[2].id]
    BY <2>4, <2>5
  <2> QED
    BY <1>1, <1>2, <2>1, <2>3, <2>6, DocumentAssumption
<1> QED
  BY <1>6, <1>7

\* What the top frame evaluates is evaluated by no other frame.
OnceOnStack == \A j \in 2 .. Len(stack) : Activation(stack[j]) # Activation(Top)

LEMMA PopKeeps ==
  ASSUME StackInv, OnceOnStack, stack # << >>, stack' = Tail(stack),
         \A d \in Defs : <<"definition", d>> # Activation(Top) => dres'[d] = dres[d],
         \A n \in Nodes : <<"node", n>> # Activation(Top) => nres'[n] = nres[n],
         \A t \in Tests : <<"test", t>> # Activation(Top) => tres'[t] = tres[t],
         NEW a, a = Activation(Top), ret' = ResultOf(a)'
  PROVE  StackInv'
<1>1. stack \in Seq(Frames) /\ Len(stack) \in Nat \ {0} /\ DOMAIN stack = 1 .. Len(stack)
      /\ Top = stack[1]
  BY DEF StackInv, ChainInv, Top
<1>2. /\ stack' \in Seq(Frames) /\ Len(stack') = Len(stack) - 1
      /\ DOMAIN stack' = 1 .. Len(stack) - 1
      /\ \A k \in 1 .. Len(stack) - 1 : k + 1 \in DOMAIN stack /\ k + 1 \in 2 .. Len(stack)
                                        /\ stack'[k] = stack[k + 1]
  <2>1. /\ Tail(stack) \in Seq(Frames) /\ Len(Tail(stack)) = Len(stack) - 1
        /\ \A k \in 1 .. Len(stack) - 1 : Tail(stack)[k] = stack[k + 1]
    BY <1>1, PoppedFrames
  <2> QED
    BY <1>1, <2>1
<1>3. ret' = ResultOf(a)' /\ a = Activation(stack[1])
  BY <1>1
<1>4. \A k \in DOMAIN stack' : Activation(stack'[k]) # a
  BY <1>1, <1>2, <1>3 DEF OnceOnStack
<1>5. ChainInv /\ ProgressInv /\ ReturnInv /\ DoneInv /\ TallyInv
  BY DEF StackInv
<1>6. ChainInv'
  <2>1. \A k \in DOMAIN stack' : FrameOK(stack'[k])
    BY ONLY <1>1, <1>2, <1>5 DEF ChainInv
  <2>2. stack' # << >> => stack'[Len(stack')].kind = "definition"
    BY ONLY <1>1, <1>2, <1>5 DEF ChainInv
  <2>3. ASSUME NEW k \in 1 .. Len(stack') - 1
        PROVE  MayCall(stack'[k + 1]) /\ Activation(stack'[k]) = Callee(stack'[k + 1])
    <3>1. k + 1 \in 1 .. Len(stack) - 1 /\ stack'[k] = stack[k + 1]
          /\ stack'[k + 1] = stack[(k + 1) + 1]
      BY ONLY <1>1, <1>2, k \in 1 .. Len(stack') - 1
    <3> QED
      BY ONLY <3>1, <1>5 DEF ChainInv
  <2> QED
    BY ONLY <1>2, <2>1, <2>2, <2>3 DEF ChainInv
<1>7. ProgressInv'
  <2>1. ASSUME NEW k \in DOMAIN stack'
        PROVE  ResultOf(Activation(stack[k]))' = "noteval"
    <3>1. k + 1 \in DOMAIN stack /\ k + 1 > 1 /\ stack'[k] = stack[k + 1]
          /\ FrameOK(stack'[k]) /\ stack'[k] \in Frames
      BY ONLY <1>1, <1>2, <1>6, k \in DOMAIN stack' DEF ChainInv
    <3>2. ResultOf(Activation(stack'[k])) = "noteval"
      BY ONLY <3>1, <1>5 DEF ProgressInv
    <3>3. Activation(stack'[k]) # Activation(Top)
      BY <1>4
    <3>4. /\ stack'[k].kind \in {"definition", "node", "test"}
          /\ stack'[k].kind = "definition" => stack'[k].id \in Defs
          /\ stack'[k].kind = "node" => stack'[k].id \in Nodes
          /\ stack'[k].kind = "test" => stack'[k].id \in Tests
      BY ONLY <3>1 DEF FrameOK, Frames
    <3> QED
      BY <3>2, <3>3, <3>4 DEF ResultOf, Activation
  <2> QED
    BY ONLY <2>1 DEF ProgressInv
<1>8. ReturnInv'
  <2> SUFFICES ASSUME stack' # << >>
               PROVE  /\ MayCall(Top') /\ ret' = ResultOf(Callee(Top))'
                      /\ \A j \in DOMAIN stack' : Activation(stack'[j]) # Callee(Top')
    BY DEF ReturnInv
  <2>1. Top' = stack'[1] /\ 1 \in 1 .. Len(stack) - 1 /\ stack'[1] = stack[1 + 1]
    BY <1>1, <1>2 DEF Top
  <2>2. MayCall(Top') /\ a = Callee(Top')
    BY ONLY <2>1, <1>3, <1>5 DEF ChainInv
  <2> QED
    BY ONLY <2>2, <1>3, <1>4
<1>9. DoneInv'
  <2>1. ASSUME NEW k \in DOMAIN stack', stack'[k].kind = "node",
               NEW i \in 1 .. stack'[k].next - 1, NEW j \in k .. Len(stack')
        PROVE  Activation(stack'[j]) # <<"node", Subnodes[stack'[k].id][i]>>
    <3>1. /\ k + 1 \in DOMAIN stack /\ stack'[k] = stack[k + 1]
          /\ j + 1 \in k + 1 .. Len(stack) /\ stack'[j] = stack[j + 1]
      BY ONLY <2>1, <1>1, <1>2
    <3>2. /\ stack[k + 1].kind = "node" /\ i \in 1 .. stack[k + 1].next - 1
      BY ONLY <3>1, <2>1
    <3>3. Activation(stack[j + 1]) # <<"node", Subnodes[stack[k + 1].id][i]>>
      BY ONLY <3>1, <3>2, <1>5 DEF DoneInv
    <3> QED
      BY ONLY <3>1, <3>3
  <2> QED
    BY ONLY <2>1 DEF DoneInv
<1>10. TallyInv'
  <2>1. ASSUME NEW k \in DOMAIN stack', stack'[k].kind = "node",
               \A j \in 1 .. k - 1 : Activation(stack'[j]) # Activation(stack'[k])
        PROVE  stack'[k].ores = Tally([i \in 1 .. stack'[k].next - 1 |->
                                          nres'[Subnodes[stack'[k].id][i]]], 1)
    <3>1. /\ k + 1 \in DOMAIN stack /\ stack'[k] = stack[k + 1] /\ k \in Nat \ {0}
          /\ FrameOK(stack'[k]) /\ stack'[k] \in Frames
      BY ONLY <2>1, <1>1, <1>2, <1>6 DEF ChainInv
    <3>2. Innermost(k + 1)
      <4> SUFFICES ASSUME NEW j \in 1 .. (k + 1) - 1
                   PROVE  Activation(stack[j]) # Activation(stack[k + 1])
        BY DEF Innermost
      <4>1. CASE j = 1
        BY ONLY <4>1, <3>1, <1>3, <1>4, k \in DOMAIN stack'
      <4>2. CASE j # 1
        <5>1. j - 1 \in 1 .. k - 1 /\ stack'[j - 1] = stack[(j - 1) + 1] /\ (j - 1) + 1 = j
          BY ONLY <4>2, <3>1, <1>1, <1>2, j \in 1 .. (k + 1) - 1
        <5> QED
          BY ONLY <5>1, <3>1, <2>1
      <4> QED
        BY ONLY <4>1, <4>2
    <3>3. stack[k + 1].kind = "node"
      BY ONLY <3>1, <2>1
    <3>4. stack[k + 1].ores = Tally([i \in 1 .. stack[k + 1].next - 1 |->
                                        nres[Subnodes[stack[k + 1].id][i]]], 1)
      BY ONLY <3>1, <3>2, <3>3, <1>5 DEF TallyInv
    <3>5. ASSUME NEW i \in 1 .. stack[k + 1].next - 1
          PROVE  nres'[Subnodes[stack[k + 1].id][i]] = nres[Subnodes[stack[k + 1].id][i]]
      <4> DEFINE n == stack[k + 1].id
      <4>1. n \in Nodes /\ stack[k + 1].next \in Nat /\ stack[k + 1].next <= Len(Subnodes[n]) + 1
        BY ONLY <3>1, <3>3 DEF FrameOK, Frames
      <4>2. Subnodes[n] \in Seq(Nodes)
        BY ONLY <4>1, DocumentAssumption
      <4>3. i \in DOMAIN Subnodes[n] /\ Subnodes[n][i] \in Nodes
        BY ONLY <4>1, <4>2, i \in 1 .. stack[k + 1].next - 1
      <4>4. <<"node", Subnodes[n][i]>> # Activation(Top)
        <5> SUFFICES ASSUME <<"node", Subnodes[n][i]>> = Activation(Top) PROVE FALSE
          OBVIOUS
        <5>1. Top.kind = "node" /\ Subnodes[n][i] = Top.id
          BY DEF Activation
        <5>2. stack[2].kind = "node" /\ stack[2].id = n /\ stack[2].next = i
          BY ONLY <4>1, <4>3, <5>1, <1>5, ParentFrame, stack # << >>
        <5>3. Activation(stack[2]) = Activation(stack[k + 1])
          BY ONLY <5>2, <3>3 DEF Activation
        <5>4. CASE k = 1
          <6>1. stack[2].next = stack[k + 1].next
            BY ONLY <5>4
          <6> QED
            BY ONLY <6>1, <5>2, <4>1, i \in 1 .. stack[k + 1].next - 1
        <5>5. CASE k # 1
          <6>1. 2 \in 1 .. (k + 1) - 1
            BY ONLY <3>1, <5>5
          <6> QED
            BY ONLY <6>1, <5>3, <3>2 DEF Innermost
        <5> QED
          BY ONLY <5>4, <5>5
      <4> QED
        BY <4>3, <4>4
    <3>6. [i \in 1 .. stack[k + 1].next - 1 |-> nres'[Subnodes[stack[k + 1].id][i]]]
           = [i \in 1 .. stack[k + 1].next - 1 |-> nres[Subnodes[stack[k + 1].id][i]]]
      BY ONLY <3>5
    <3> QED
      BY ONLY <3>1, <3>4, <3>6
  <2> QED
    BY ONLY <2>1 DEF TallyInv, Innermost
<1> QED
  BY ONLY <1>6, <1>7, <1>8, <1>9, <1>10 DEF StackInv

LEMMA ReplaceKeeps ==
  ASSUME StackInv, stack # << >>, NEW f \in Frames, stack' = <<f>> \o Tail(stack),
         ret' = None, UNCHANGED <<dres, nres, tres>>,
         FrameOK(f), Activation(f) = Activation(Top), ResultOf(Activation(Top)) = "noteval",
         f.kind = "node" => /\ ret # None /\ NodeType[f.id] = "criteria"
                            /\ f.next = Top.next + 1 /\ f.ores = ores_add_res(Top.ores, ret)
  PROVE  StackInv'
<1>1. stack \in Seq(Frames) /\ Len(stack) \in Nat \ {0} /\ DOMAIN stack = 1 .. Len(stack)
      /\ Top = stack[1] /\ stack[1] \in Frames /\ stack # << >>
  BY DEF StackInv, ChainInv, Top
<1>2. /\ stack' \in Seq(Frames) /\ Len(stack') = Len(stack) /\ stack'[1] = f
      /\ DOMAIN stack' = 1 .. Len(stack)
      /\ \A k \in 2 .. Len(stack) : stack'[k] = stack[k]
  <2>1. /\ <<f>> \o Tail(stack) \in Seq(Frames) /\ Len(<<f>> \o Tail(stack)) = Len(stack)
        /\ (<<f>> \o Tail(stack))[1] = f
        /\ \A k \in 2 .. Len(stack) : (<<f>> \o Tail(stack))[k] = stack[k]
    BY <1>1, ReplacedFrames
  <2> QED
    BY <1>1, <2>1
<1>3. dres' = dres /\ nres' = nres /\ tres' = tres /\ ret' = None
  OBVIOUS
<1>4. FrameOK(f) /\ Activation(f) = Activation(stack[1]) /\ f \in Frames
      /\ f.kind = stack[1].kind /\ f.id = stack[1].id
      /\ ResultOf(Activation(stack[1])) = "noteval"
  BY <1>1 DEF Activation
<1>5. ChainInv /\ ProgressInv /\ ReturnInv /\ DoneInv /\ TallyInv
  BY DEF StackInv
<1>6. \A k \in DOMAIN stack' : Activation(stack'[k]) = Activation(stack[k])
  BY ONLY <1>1, <1>2, <1>4
<1>7. ASSUME f.kind = "node"
      PROVE  /\ stack[1].kind = "node" /\ stack[1].id \in Nodes
             /\ stack[1].next \in Nat \ {0} /\ f.next = stack[1].next + 1
             /\ f.ores = ores_add_res(stack[1].ores, ret)
             /\ ret = nres[Subnodes[f.id][stack[1].next]]
             /\ \A j \in DOMAIN stack :
                   Activation(stack[j]) # <<"node", Subnodes[f.id][stack[1].next]>>
  <2>1. stack[1].kind = "node" /\ stack[1].id \in Nodes /\ f.id = stack[1].id
        /\ NodeType[f.id] = "criteria" /\ f.next = stack[1].next + 1
        /\ f.ores = ores_add_res(stack[1].ores, ret) /\ ret # None
    BY <1>1, <1>4, <1>7 DEF FrameOK
  <2>2. Callee(stack[1]) = <<"node", Subnodes[f.id][stack[1].next]>>
    BY ONLY <2>1 DEF Callee
  <2>3. ret = ResultOf(Callee(stack[1]))
        /\ \A j \in DOMAIN stack : Activation(stack[j]) # Callee(stack[1])
    BY ONLY <2>1, <1>1, <1>5 DEF ReturnInv
  <2>4. ResultOf(<<"node", Subnodes[f.id][stack[1].next]>>)
          = nres[Subnodes[f.id][stack[1].next]]
    BY DEF ResultOf
  <2>5. stack[1].next \in Nat \ {0}
    BY ONLY <1>1 DEF Frames
  <2> QED
    BY ONLY <2>1, <2>2, <2>3, <2>4, <2>5
<1>8. ChainInv'
  <2>1. \A k \in DOMAIN stack' : FrameOK(stack'[k])
    BY ONLY <1>1, <1>2, <1>4, <1>5 DEF ChainInv
  <2>2. stack'[Len(stack')].kind = "definition"
    BY ONLY <1>1, <1>2, <1>4, <1>5 DEF ChainInv
  <2>3. ASSUME NEW k \in 1 .. Len(stack') - 1
        PROVE  MayCall(stack'[k + 1]) /\ Activation(stack'[k]) = Callee(stack'[k + 1])
    <3>1. k \in 1 .. Len(stack) - 1 /\ k \in DOMAIN stack' /\ stack'[k + 1] = stack[k + 1]
      BY ONLY <1>1, <1>2, k \in 1 .. Len(stack') - 1
    <3> QED
      BY ONLY <3>1, <1>5, <1>6 DEF ChainInv
  <2> QED
    BY ONLY <1>2, <2>1, <2>2, <2>3 DEF ChainInv
<1>9. ProgressInv'
  <2>1. ASSUME NEW k \in DOMAIN stack'
        PROVE  ResultOf(Activation(stack'[k])) = "noteval"
    <3>1. Activation(stack'[k]) = Activation(stack[k]) /\ k \in DOMAIN stack
      BY ONLY <1>1, <1>2, <1>6, k \in DOMAIN stack'
    <3>2. k = 1 \/ k > 1
      BY ONLY <3>1, <1>1
    <3> QED
      BY ONLY <3>1, <3>2, <1>4, <1>5 DEF ProgressInv
  <2> QED
    BY ONLY <2>1, <1>3 DEF ProgressInv, ResultOf
<1>10. ReturnInv'
  BY ONLY <1>3 DEF ReturnInv
<1>11. DoneInv'
  <2>1. ASSUME NEW k \in DOMAIN stack', stack'[k].kind = "node",
               NEW i \in 1 .. stack'[k].next - 1, NEW j \in k .. Len(stack')
        PROVE  Activation(stack'[j]) # <<"node", Subnodes[stack'[k].id][i]>>
    <3>1. k \in DOMAIN stack /\ j \in k .. Len(stack) /\ j \in DOMAIN stack
          /\ Activation(stack'[j]) = Activation(stack[j])
      BY ONLY <2>1, <1>1, <1>2, <1>6
    <3>2. CASE k # 1
      <4>1. stack'[k] = stack[k] /\ stack[k].kind = "node" /\ i \in 1 .. stack[k].next - 1
        BY ONLY <3>1, <3>2, <2>1, <1>1, <1>2
      <4>2. Activation(stack[j]) # <<"node", Subnodes[stack[k].id][i]>>
        BY ONLY <3>1, <4>1, <1>5 DEF DoneInv
      <4> QED
        BY ONLY <3>1, <4>1, <4>2
    <3>3. CASE k = 1
      <4>1. f.kind = "node" /\ stack'[k] = f /\ i \in 1 .. f.next - 1
        BY ONLY <3>3, <2>1, <1>2
      <4>2. CASE i = stack[1].next
        BY ONLY <4>1, <4>2, <3>1, <1>7
      <4>3. CASE i # stack[1].next
        <5>1. i \in 1 .. stack[1].next - 1 /\ stack[1].kind = "node" /\ 1 \in DOMAIN stack
              /\ j \in 1 .. Len(stack)
          BY ONLY <4>1, <4>3, <3>1, <1>1, <1>7
        <5>2. Activation(stack[j]) # <<"node", Subnodes[stack[1].id][i]>>
          BY ONLY <5>1, <1>5 DEF DoneInv
        <5> QED
          BY ONLY <5>2, <4>1, <3>1, <1>4
      <4> QED
        BY ONLY <4>2, <4>3
    <3> QED
      BY ONLY <3>2, <3>3
  <2> QED
    BY ONLY <2>1 DEF DoneInv
<1>12. TallyInv'
  <2>1. ASSUME NEW k \in DOMAIN stack', stack'[k].kind = "node",
               \A j \in 1 .. k - 1 : Activation(stack'[j]) # Activation(stack'[k])
        PROVE  stack'[k].ores = Tally([i \in 1 .. stack'[k].next - 1 |->
                                          nres[Subnodes[stack'[k].id][i]]], 1)
    <3>1. k \in DOMAIN stack /\ k \in Nat \ {0} /\ \A j \in 1 .. k - 1 : j \in DOMAIN stack'
      BY ONLY <2>1, <1>1, <1>2
    <3>2. CASE k # 1
      <4>1. stack'[k] = stack[k] /\ stack[k].kind = "node"
        BY ONLY <3>1, <3>2, <2>1, <1>1, <1>2
      <4>2. Innermost(k)
        BY ONLY <3>1, <2>1, <1>6 DEF Innermost
      <4>3. stack[k].ores = Tally([i \in 1 .. stack[k].next - 1 |->
                                      nres[Subnodes[stack[k].id][i]]], 1)
        BY ONLY <3>1, <4>1, <4>2, <1>5 DEF TallyInv
      <4> QED
        BY ONLY <4>1, <4>3
    <3>3. CASE k = 1
      <4> DEFINE m == stack[1].next - 1
                 g == [i \in 1 .. m |-> nres[Subnodes[stack[1].id][i]]]
                 h == [i \in 1 .. f.next - 1 |-> nres[Subnodes[f.id][i]]]
      <4>1. stack'[k] = f /\ f.kind = "node"
        BY ONLY <3>3, <2>1, <1>2
      <4>2. 1 \in DOMAIN stack /\ stack[1].kind = "node" /\ Innermost(1)
        BY ONLY <4>1, <1>1, <1>7 DEF Innermost
      <4>3. stack[1].ores = Tally(g, 1)
        BY ONLY <4>2, <1>5 DEF TallyInv
      <4>4. /\ m \in Nat /\ f.next - 1 = m + 1 /\ m + 1 = stack[1].next
            /\ f.ores = ores_add_res(stack[1].ores, ret)
            /\ ret = nres[Subnodes[f.id][m + 1]] /\ f.id = stack[1].id
        BY ONLY <4>1, <1>4, <1>7
      <4>5. /\ DOMAIN g = 1 .. m /\ DOMAIN h = 1 .. m + 1 /\ h[m + 1] = ret
            /\ \A i \in 1 .. m : h[i] = g[i]
        BY ONLY <4>4
      <4> HIDE DEF m, g, h
      <4>6. Tally(h, 1) = ores_add_res(Tally(g, 1), h[m + 1])
        <5>1. m \in Nat /\ DOMAIN g = 1 .. m /\ DOMAIN h = 1 .. m + 1
              /\ \A i \in 1 .. m : h[i] = g[i]
          BY ONLY <4>4, <4>5
        <5> QED
          BY ONLY <5>1, TallyOneMore
      <4>7. f.ores = Tally(h, 1)
        BY ONLY <4>3, <4>4, <4>5, <4>6
      <4> QED
        BY ONLY <4>1, <4>7 DEF h
    <3> QED
      BY ONLY <3>2, <3>3
  <2> QED
    BY ONLY <2>1, <1>3 DEF TallyInv, Innermost
<1> QED
  BY ONLY <1>8, <1>9, <1>10, <1>11, <1>12 DEF StackInv

\* What is popped is evaluated nowhere else: a second evaluation further down would
\* have called it, and is refuted by what is known of the callee.
LEMMA LowerFrames ==
  ASSUME ChainInv, NEW j \in 2 .. Len(stack)
  PROVE  /\ j \in DOMAIN stack /\ j - 1 \in DOMAIN stack /\ j > 1 /\ j \in Nat
         /\ stack[j] \in Frames /\ FrameOK(stack[j])
         /\ MayCall(stack[j]) /\ Activation(stack[j - 1]) = Callee(stack[j])
<1>1. stack \in Seq(Frames) /\ Len(stack) \in Nat
  BY DEF ChainInv
<1>2. j \in DOMAIN stack /\ j - 1 \in DOMAIN stack /\ j > 1 /\ j \in Nat
      /\ j - 1 \in 1 .. Len(stack) - 1 /\ (j - 1) + 1 = j /\ stack[j] \in Frames
  BY <1>1
<1>3. FrameOK(stack[j]) /\ MayCall(stack[(j - 1) + 1])
      /\ Activation(stack[j - 1]) = Callee(stack[(j - 1) + 1])
  BY ONLY <1>2, ChainInv DEF ChainInv
<1> QED
  BY <1>2, <1>3

LEMMA OnceKnown ==
  ASSUME StackInv, stack # << >>,
         \/ ResultOf(Activation(Top)) # "noteval"
         \/ Top.kind = "definition" /\ Criteria[Top.id] = None
         \/ Top.kind = "test"
  PROVE  OnceOnStack
<1> SUFFICES ASSUME NEW j \in 2 .. Len(stack), Activation(stack[j]) = Activation(Top)
             PROVE  FALSE
  BY DEF OnceOnStack
<1>1. j \in DOMAIN stack /\ j > 1 /\ MayCall(stack[j]) /\ FrameOK(stack[j])
  BY LowerFrames DEF StackInv
<1>2. ResultOf(Activation(Top)) = "noteval"
  <2>1. ResultOf(Activation(stack[j])) = "noteval"
    BY <1>1 DEF StackInv, ProgressInv
  <2> QED
    BY <2>1
<1>3. stack[j].kind = Top.kind /\ stack[j].id = Top.id
  BY DEF Activation
<1> QED
  BY <1>1, <1>2, <1>3 DEF MayCall

LEMMA OnceReturned ==
  ASSUME StackInv, stack # << >>, ret # None,
         Top.kind = "definition" \/ NodeType[Top.id] # "criteria"
  PROVE  OnceOnStack
<1> SUFFICES ASSUME NEW j \in 2 .. Len(stack), Activation(stack[j]) = Activation(Top)
             PROVE  FALSE
  BY DEF OnceOnStack
<1>1. j - 1 \in DOMAIN stack /\ MayCall(stack[j]) /\ FrameOK(stack[j])
      /\ Activation(stack[j - 1]) = Callee(stack[j])
  BY LowerFrames DEF StackInv
<1>2. stack[j].kind = Top.kind /\ stack[j].id = Top.id
  BY DEF Activation
<1>3. Callee(stack[j]) = Callee(Top)
  <2>1. CASE Top.kind = "definition"
    BY <1>2, <2>1 DEF Callee
  <2>2. CASE Top.kind # "definition"
    <3>1. stack[j].kind = "node" /\ stack[j].id \in Nodes
      BY <1>1, <1>2, <2>2 DEF MayCall, FrameOK
    <3>2. NodeType[Top.id] \in {"criterion", "extend"}
      BY <3>1, <1>2, <2>2, DocumentAssumption
    <3> QED
      BY <1>2, <3>1, <3>2 DEF Callee
  <2> QED
    BY <2>1, <2>2
<1>4. Activation(stack[j - 1]) # Callee(Top)
  BY <1>1 DEF StackInv, ReturnInv
<1> QED
  BY <1>1, <1>3, <1>4

LEMMA OnceCounted ==
  ASSUME StackInv, stack # << >>, Top.kind = "node", NodeType[Top.id] = "criteria",
         Top.next > Len(Subnodes[Top.id])
  PROVE  OnceOnStack
<1> SUFFICES ASSUME NEW j \in 2 .. Len(stack), Activation(stack[j]) = Activation(Top)
             PROVE  FALSE
  BY DEF OnceOnStack
<1>1. /\ j - 1 \in DOMAIN stack /\ MayCall(stack[j]) /\ FrameOK(stack[j])
      /\ Activation(stack[j - 1]) = Callee(stack[j]) /\ stack[j] \in Frames
  BY LowerFrames DEF StackInv
<1>2. stack[j].kind = "node" /\ stack[j].id = Top.id
  BY DEF Activation
<1>3. stack \in Seq(Frames) /\ Len(stack) \in Nat \ {0} /\ Top = stack[1] /\ 1 \in DOMAIN stack
      /\ stack[1] \in Frames
  BY DEF StackInv, ChainInv, Top
<1>4. Top.next \in Nat \ {0} /\ stack[j].next \in Nat \ {0} /\ Top.id \in Nodes
  BY <1>1, <1>2, <1>3 DEF Frames, FrameOK
<1>5. Len(Subnodes[Top.id]) \in Nat
  <2>1. Subnodes[Top.id] \in Seq(Nodes)
    BY <1>4, DocumentAssumption
  <2> QED
    BY <2>1
<1>6. stack[j].next \in 1 .. Top.next - 1
  <2>1. stack[j].next <= Len(Subnodes[Top.id])
    BY <1>1, <1>2 DEF MayCall
  <2> QED
    BY <2>1, <1>4, <1>5
<1>7. Activation(stack[j - 1]) = <<"node", Subnodes[Top.id][stack[j].next]>>
  BY <1>1, <1>2 DEF Callee
<1>8. j - 1 \in 1 .. Len(stack)
  BY <1>1, <1>3
<1> QED
  BY <1>3, <1>6, <1>7, <1>8 DEF StackInv, DoneInv

-----------------------------------------------------------------------------
\* A frame has counted fewer results than it has visited subnodes.
Small(f) == Operands(f.ores) + f.ores["notappl"] < f.next
SmallInv == \A k \in DOMAIN stack : Small(stack[k])

\* The rest of the type invariant.
ResultTypes ==
  /\ dres \in [Defs -> Results \cup {Failed}]
  /\ nres \in [Nodes -> Results \cup {Failed}]
  /\ tres \in [Tests -> Results \cup {Failed}]
  /\ ret \in Results \cup {Failed, None}
  /\ added \in [Tests -> Nat]
  /\ lost \subseteq Tests
  /\ calls \in 0..MaxCalls
  /\ \A o \in Objects : syschar[o] # None => /\ syschar[o].flag \in Flags
                                             /\ syschar[o].items \subseteq ItemsOf[o]

LEMMA InvParts ==
  EvalInv <=> ResultTypes /\ SmallInv /\ StackInv /\ ReportConsistent /\ TestInv
<1>1. ASSUME ChainInv PROVE EvalTypeOK <=> ResultTypes /\ SmallInv
  <2>1. \A k \in DOMAIN stack : stack[k].kind \in {"definition", "node", "test"}
                                /\ stack[k].ores \in Tallies
    <3>1. \A k \in DOMAIN stack : stack[k] \in Frames
      BY <1>1 DEF ChainInv
    <3> QED
      BY <3>1 DEF Frames
  <2> QED
    BY <2>1 DEF EvalTypeOK, ResultTypes, SmallInv, Small
<1> QED
  BY <1>1 DEF EvalInv, StackInv

LEMMA SmallKeeps ==
  ASSUME ChainInv, SmallInv, NEW f \in Frames, Small(f),
         \/ stack' = <<f>> \o stack
         \/ stack # << >> /\ stack' = Tail(stack)
         \/ stack # << >> /\ stack' = <<f>> \o Tail(stack)
  PROVE  SmallInv'
<1>1. stack \in Seq(Frames) /\ Len(stack) \in Nat /\ DOMAIN stack = 1 .. Len(stack)
  BY DEF ChainInv
<1>2. \A k \in DOMAIN stack' : stack'[k] = f \/ \E j \in DOMAIN stack : stack'[k] = stack[j]
  <2>1. CASE stack' = <<f>> \o stack
    <3>1. /\ stack' \in Seq(Frames) /\ Len(stack') = Len(stack) + 1
          /\ stack'[1] = f
          /\ \A k \in 2 .. Len(stack) + 1 : stack'[k] = stack[k - 1]
      BY <1>1, <2>1, PushedFrames
    <3>2. \A k \in DOMAIN stack' : k = 1 \/ (k \in 2 .. Len(stack) + 1 /\ k - 1 \in DOMAIN stack)
      BY ONLY <1>1, <3>1
    <3> QED
      BY ONLY <3>1, <3>2
  <2>2. CASE stack # << >> /\ stack' = Tail(stack)
    <3>1. /\ stack' \in Seq(Frames) /\ Len(stack') = Len(stack) - 1
          /\ \A k \in 1 .. Len(stack) - 1 : stack'[k] = stack[k + 1]
          /\ Len(stack) \in Nat \ {0}
      BY <1>1, <2>2, PoppedFrames
    <3>2. \A k \in DOMAIN stack' : k \in 1 .. Len(stack) - 1 /\ k + 1 \in DOMAIN stack
      BY ONLY <1>1, <3>1
    <3> QED
      BY ONLY <3>1, <3>2
  <2>3. CASE stack # << >> /\ stack' = <<f>> \o Tail(stack)
    <3>1. /\ stack' \in Seq(Frames) /\ Len(stack') = Len(stack)
          /\ stack'[1] = f
          /\ \A k \in 2 .. Len(stack) : stack'[k] = stack[k]
      <4>1. /\ <<f>> \o Tail(stack) \in Seq(Frames) /\ Len(<<f>> \o Tail(stack)) = Len(stack)
            /\ (<<f>> \o Tail(stack))[1] = f
            /\ \A k \in 2 .. Len(stack) : (<<f>> \o Tail(stack))[k] = stack[k]
        BY ONLY f \in Frames, <1>1, <2>3, ReplacedFrames
      <4> QED
        BY ONLY <2>3, <4>1
    <3>2. \A k \in DOMAIN stack' : k = 1 \/ (k \in 2 .. Len(stack) /\ k \in DOMAIN stack)
      BY ONLY <1>1, <3>1
    <3> QED
      BY ONLY <3>1, <3>2
  <2> QED
    BY <2>1, <2>2, <2>3
<1>3. \A k \in DOMAIN stack' : Small(stack'[k])
  BY ONLY <1>2, Small(f), SmallInv DEF SmallInv
<1> QED
  BY ONLY <1>3 DEF SmallInv, Small

-----------------------------------------------------------------------------
\* Recording a result keeps the report consistent: the result of a test or definition
\* that has none yet is in no node's result, and that of a node in no criteria's.
LEMMA ReportKeeps ==
  ASSUME ReportConsistent, nres' = nres, operator' = operator,
         \A d \in Defs : dres[d] # "noteval" => dres'[d] = dres[d],
         \A t \in Tests : tres[t] # "noteval" => tres'[t] = tres[t]
  PROVE  ReportConsistent'
<1> SUFFICES ASSUME NEW n \in Nodes, nres[n] # "noteval"
             PROVE  nres[n] = oval_result_criteria_node_negate(n,
                      IF NodeType[n] = "criteria"
                      THEN ByOperator([k \in DOMAIN Subnodes[n] |-> nres[Subnodes[n][k]]],
                                      operator[n])
                      ELSE IF NodeType[n] = "criterion" THEN tres'[Target[n]]
                      ELSE dres'[Target[n]])
  BY DEF ReportConsistent
<1>1. nres[n] = oval_result_criteria_node_negate(n,
                  IF NodeType[n] = "criteria"
                  THEN ByOperator([k \in DOMAIN Subnodes[n] |-> nres[Subnodes[n][k]]],
                                  operator[n])
                  ELSE IF NodeType[n] = "criterion" THEN tres[Target[n]]
                  ELSE dres[Target[n]])
  BY DEF ReportConsistent
<1>2. NodeType[n] \in {"criteria", "criterion", "extend"}
      /\ (NodeType[n] = "criterion" => Target[n] \in Tests)
      /\ (NodeType[n] = "extend" => Target[n] \in Defs)
  BY DocumentAssumption
<1>3. oval_result_criteria_node_negate(n, "noteval") = "noteval"
  BY DEF oval_result_criteria_node_negate
<1>4. CASE NodeType[n] = "criteria"
  BY <1>1, <1>4
<1>5. CASE NodeType[n] = "criterion"
  <2>1. tres[Target[n]] # "noteval"
    BY <1>1, <1>3, <1>5
  <2> QED
    BY <2>1, <1>1, <1>2, <1>5
<1>6. CASE NodeType[n] = "extend"
  <2>1. dres[Target[n]] # "noteval"
    BY <1>1, <1>3, <1>6
  <2> QED
    BY <2>1, <1>1, <1>2, <1>6
<1> QED
  BY <1>2, <1>4, <1>5, <1>6

LEMMA ReportExtended ==
  ASSUME ReportConsistent, NEW m \in Nodes, NEW r,
         DOMAIN nres = Nodes, nres' = [nres EXCEPT ![m] = r],
         operator' = operator, dres' = dres, tres' = tres,
         \A n \in Nodes : \A i \in DOMAIN Subnodes[n] :
            Subnodes[n][i] = m => nres[n] = "noteval" /\ n # m,
         r = oval_result_criteria_node_negate(m,
               IF NodeType[m] = "criteria"
               THEN ByOperator([k \in DOMAIN Subnodes[m] |-> nres[Subnodes[m][k]]], operator[m])
               ELSE IF NodeType[m] = "criterion" THEN tres[Target[m]] ELSE dres[Target[m]])
  PROVE  ReportConsistent'
<1> DEFINE Value(n) == IF NodeType[n] = "criteria"
                       THEN ByOperator([k \in DOMAIN Subnodes[n] |-> nres[Subnodes[n][k]]],
                                       operator[n])
                       ELSE IF NodeType[n] = "criterion" THEN tres[Target[n]]
                       ELSE dres[Target[n]]
           Value2(n) == IF NodeType[n] = "criteria"
                        THEN ByOperator([k \in DOMAIN Subnodes[n] |-> nres'[Subnodes[n][k]]],
                                        operator[n])
                        ELSE IF NodeType[n] = "criterion" THEN tres[Target[n]]
                        ELSE dres[Target[n]]
<1>1. ASSUME NEW n \in Nodes, nres'[n] # "noteval"
      PROVE  nres'[n] = oval_result_criteria_node_negate(n, Value2(n))
  <2>1. nres'[n] = oval_result_criteria_node_negate(n, Value(n))
    <3>1. CASE n = m
      BY <3>1
    <3>2. CASE n # m
      <4>1. nres'[n] = nres[n]
        BY <3>2
      <4> QED
        BY <4>1, <1>1 DEF ReportConsistent
    <3> QED
      BY <3>1, <3>2
  <2>2. \A i \in DOMAIN Subnodes[n] : Subnodes[n][i] # m
    <3> SUFFICES ASSUME NEW i \in DOMAIN Subnodes[n], Subnodes[n][i] = m PROVE FALSE
      OBVIOUS
    <3>1. nres[n] = "noteval" /\ n # m
      OBVIOUS
    <3>2. nres'[n] = nres[n]
      BY <3>1
    <3> QED
      BY <3>1, <3>2, <1>1
  <2>3. \A i \in DOMAIN Subnodes[n] : Subnodes[n][i] \in Nodes
    <3>1. Subnodes[n] \in Seq(Nodes)
      BY DocumentAssumption
    <3> QED
      BY <3>1
  <2>4. [k \in DOMAIN Subnodes[n] |-> nres'[Subnodes[n][k]]]
          = [k \in DOMAIN Subnodes[n] |-> nres[Subnodes[n][k]]]
    BY <2>2, <2>3
  <2>5. Value2(n) = Value(n)
    BY ONLY <2>4
  <2> QED
    BY ONLY <2>1, <2>5
<1> QED
  BY ONLY <1>1, operator' = operator, dres' = dres, tres' = tres DEF ReportConsistent

-----------------------------------------------------------------------------
\* Combining results gives a result.
LEMMA CombinedIsResult ==
  ASSUME NEW c, NEW x
  PROVE  ores_get_result_bychk(c, x) \in Results /\ ores_get_result_byopr(c, x) \in Results
  BY DEF ores_get_result_bychk, ores_get_result_byopr, NoOperand, OpenResult, Results

LEMMA ByCheckIs ==
  ASSUME NEW f, IsFiniteSet(DOMAIN f), NEW copies \in Nat, NEW check
  PROVE  ByCheck(f, copies, check) = ores_get_result_bychk(Tally(f, copies), check)
<1>1. Tally(f, copies) \in Tallies
  BY TallyIsTally
<1> QED
  BY <1>1 DEF ByCheck

LEMMA ByOperatorIs ==
  ASSUME NEW f, IsFiniteSet(DOMAIN f), NEW op
  PROVE  ByOperator(f, op) = ores_get_result_byopr(Tally(f, 1), op)
<1>1. Tally(f, 1) \in Tallies
  BY TallyIsTally
<1> QED
  BY <1>1 DEF ByOperator

\* The verdict on a collected object is a result.
LEMMA VerdictIsResult ==
  ASSUME NEW t, NEW sc, IsFiniteSet(sc.items), NEW copies \in Nat
  PROVE  evaluate_items(t, sc, copies) \in Results
<1>1. eval_check_state(t, sc.items, copies) \in Results
  <2> DEFINE f == [i \in sc.items |-> ItemResult[t][i]]
  <2>1. DOMAIN f = sc.items
    OBVIOUS
  <2>2. eval_check_state(t, sc.items, copies) = ByCheck(f, copies, Check[t])
    BY DEF eval_check_state
  <2> HIDE DEF f
  <2>3. ByCheck(f, copies, Check[t]) = ores_get_result_bychk(Tally(f, copies), Check[t])
    BY <2>1, ByCheckIs
  <2> QED
    BY <2>2, <2>3, CombinedIsResult
<1>2. \A x, y, z : eval_check_existence(x, y, z) \in Results
  BY DEF eval_check_existence, Results
<1>3. \A x \in DOMAIN FlagVerdict : FlagVerdict[x] \in Results
  BY DEF FlagVerdict, Results
<1>4. {"true", "false", "unknown", "error"} \subseteq Results
  BY DEF Results
<1> QED
  BY <1>1, <1>2, <1>3, <1>4 DEF evaluate_items

-----------------------------------------------------------------------------
LEMMA NextParts ==
  EvalInv' <=> ResultTypes' /\ SmallInv' /\ StackInv' /\ ReportConsistent' /\ TestInv'
  BY InvParts, PTL

LEMMA TopFrame ==
  ASSUME ChainInv, stack # << >>
  PROVE  /\ Top = stack[1] /\ 1 \in DOMAIN stack /\ Top \in Frames /\ FrameOK(Top)
         /\ Top.kind = "definition" => Top.id \in Defs
         /\ Top.kind = "node" => Top.id \in Nodes
         /\ Top.kind = "test" => Top.id \in Tests
         /\ Top.next \in Nat \ {0} /\ Top.ores \in Tallies
<1>1. Top = stack[1] /\ 1 \in DOMAIN stack /\ stack[1] \in Frames
  BY DEF ChainInv, Top
<1>2. FrameOK(Top)
  BY <1>1 DEF ChainInv
<1> QED
  BY <1>1, <1>2 DEF FrameOK, Frames

\* The caller of an evaluation is not a test.
LEMMA CallerNoTest ==
  ASSUME ChainInv, stack # << >>, stack' = Tail(stack)
  PROVE  stack' # << >> => Top'.kind # "test"
<1> SUFFICES ASSUME stack' # << >> PROVE Top'.kind # "test"
  OBVIOUS
<1>1. stack \in Seq(Frames)
  BY DEF ChainInv
<1>2. /\ stack' \in Seq(Frames) /\ Len(stack') = Len(stack) - 1 /\ Len(stack) \in Nat
      /\ \A k \in 1 .. Len(stack) - 1 : stack'[k] = stack[k + 1]
  BY <1>1, PoppedFrames
<1>3. Top' = stack'[1] /\ 1 \in 1 .. Len(stack) - 1
  BY ONLY <1>2, stack' # << >> DEF Top
<1>4. Top' = stack[2] /\ 2 \in 2 .. Len(stack)
  BY ONLY <1>2, <1>3
<1>5. MayCall(stack[2])
  BY <1>4, LowerFrames
<1> QED
  BY <1>4, <1>5 DEF MayCall

\* What is known of the tests does not depend on the rest of the stack.
LEMMA TestKeeps ==
  ASSUME TestInv, UNCHANGED <<live, tres, syschar, added, lost>>,
         stack' # << >> => Top'.kind # "test" \/ Top'.next = 1
  PROVE  TestInv'
<1>1. live' = live /\ tres' = tres /\ syschar' = syschar /\ added' = added /\ lost' = lost
  OBVIOUS
<1>2. ~ (stack' # << >> /\ Top'.kind = "test" /\ Top'.next = 2)
  OBVIOUS
<1> QED
  BY ONLY <1>1, <1>2, TestInv DEF TestInv, Settled, Collected, VerdictOn

\* A call: of a definition from outside, or of what the top frame evaluates next.
LEMMA CallKeeps ==
  ASSUME EvalInv, NEW kind, NEW id, Call(kind, id),
         \/ kind = "definition" /\ id \in Defs
         \/ kind = "node" /\ id \in Nodes
         \/ kind = "test" /\ id \in Tests,
         UNCHANGED <<input, dres, nres, tres, syschar, added, lost>>, calls' \in 0..MaxCalls,
         stack = << >> => kind = "definition",
         stack # << >> => /\ MayCall(Top) /\ <<kind, id>> = Callee(Top)
                          /\ ResultOf(Activation(Top)) = "noteval"
  PROVE  EvalInv'
<1> DEFINE f == Frame(kind, id)
<1>1. ResultTypes /\ SmallInv /\ StackInv /\ ReportConsistent /\ TestInv
  BY InvParts
<1>2. /\ f \in Frames /\ f.next = 1 /\ f.ores = ores_clear /\ f.kind = kind
      /\ Activation(f) = <<kind, id>>
  BY DEF Frame, Frames, Tallies, ores_clear, Activation
<1>3. FrameOK(f)
  <2>1. ASSUME NEW n \in Nodes PROVE Len(Subnodes[n]) \in Nat
    <3>1. Subnodes[n] \in Seq(Nodes)
      BY DocumentAssumption
    <3> QED
      BY <3>1
  <2>2. f.id = id
    BY DEF Frame
  <2> QED
    BY <1>2, <2>1, <2>2 DEF FrameOK
<1>4. Small(f)
  <2>1. Operands(ores_clear) = 0 /\ ores_clear["notappl"] = 0
    BY DEF Operands, ores_clear, Results
  <2> QED
    BY <1>2, <2>1 DEF Small
<1>5. stack' = <<f>> \o stack /\ ret' = None
  BY DEF Call
<1> HIDE DEF f
<1>6. StackInv'
  BY <1>1, <1>2, <1>3, <1>5, PushKeeps
<1>7. SmallInv'
  BY <1>1, <1>2, <1>4, <1>5, SmallKeeps DEF StackInv
<1>8. ResultTypes'
  BY <1>1, <1>5 DEF ResultTypes
<1>9. ReportConsistent'
  BY <1>1, ReportKeeps DEF input
<1>10. TestInv'
  <2>1. Top' = f
    <3>1. stack \in Seq(Frames)
      BY <1>1 DEF StackInv, ChainInv
    <3>2. (<<f>> \o stack)[1] = f /\ <<f>> \o stack \in Seq(Frames) /\ <<f>> \o stack # << >>
      BY ONLY <3>1, <1>2, PushedFrames
    <3> QED
      BY ONLY <3>2, <1>5 DEF Top
  <2> QED
    BY <1>1, <1>2, <2>1, TestKeeps DEF input
<1> QED
  BY <1>6, <1>7, <1>8, <1>9, <1>10, NextParts

\* A return, for the part of the invariant about the stack.
LEMMA ReturnKeeps ==
  ASSUME SmallInv, StackInv, OnceOnStack, stack # << >>, stack' = Tail(stack),
         \A d \in Defs : <<"definition", d>> # Activation(Top) => dres'[d] = dres[d],
         \A n \in Nodes : <<"node", n>> # Activation(Top) => nres'[n] = nres[n],
         \A t \in Tests : <<"test", t>> # Activation(Top) => tres'[t] = tres[t],
         ret' = IF Top.kind = "definition" THEN dres'[Top.id]
                ELSE IF Top.kind = "node" THEN nres'[Top.id] ELSE tres'[Top.id]
  PROVE  StackInv' /\ SmallInv'
<1>1. StackInv'
  <2>1. PICK a : a = Activation(Top)
    OBVIOUS
  <2>2. ret' = ResultOf(a)'
    BY <2>1 DEF ResultOf, Activation
  <2> QED
    BY <2>1, <2>2, PopKeeps
<1>2. SmallInv'
  <2>1. PICK f : f = Top
    OBVIOUS
  <2>2. f \in Frames /\ Small(f)
    BY <2>1, TopFrame DEF StackInv, SmallInv
  <2> QED
    BY <2>2, SmallKeeps DEF StackInv
<1> QED
  BY <1>1, <1>2

-----------------------------------------------------------------------------
\* The actions.
LEMMA KeepsEvalDefinition ==
  ASSUME EvalInv, NEW d \in Defs, EvalDefinition(d)
  PROVE  EvalInv'
<1>1. Call("definition", d) /\ stack = << >>
      /\ UNCHANGED <<input, dres, nres, tres, syschar, added, lost>>
  BY DEF EvalDefinition
<1>2. calls' \in 0..MaxCalls
  BY MaxCallsAssumption DEF EvalDefinition, EvalInv, EvalTypeOK
<1> QED
  BY <1>1, <1>2, CallKeeps

LEMMA KeepsDefinitionEnter ==
  ASSUME EvalInv, DefinitionEnter
  PROVE  EvalInv'
<1>1. ResultTypes /\ SmallInv /\ StackInv /\ ReportConsistent /\ TestInv
  BY InvParts
<1>2. /\ stack # << >> /\ Top.kind = "definition"
      /\ UNCHANGED <<input, dres, nres, tres, syschar, added, lost>> /\ calls' = calls
  BY DEF DefinitionEnter, Entered, Running
<1>3. Top.id \in Defs
  BY <1>1, <1>2, TopFrame DEF StackInv
<1>4. Activation(Top) = <<"definition", Top.id>>
      /\ ResultOf(Activation(Top)) = dres[Top.id]
  BY <1>2 DEF Activation, ResultOf
<1>5. CASE dres[Top.id] # "noteval" \/ Criteria[Top.id] = None
  <2>1. stack' = Tail(stack) /\ ret' = dres[Top.id]
    BY <1>5 DEF DefinitionEnter, Return
  <2>2. OnceOnStack
    BY <1>1, <1>2, <1>4, <1>5, OnceKnown
  <2>3. StackInv' /\ SmallInv'
    BY <1>1, <1>2, <2>1, <2>2, ReturnKeeps
  <2>4. ResultTypes'
    BY <1>1, <1>2, <1>3, <2>1 DEF ResultTypes
  <2>5. ReportConsistent'
    BY <1>1, <1>2, ReportKeeps DEF input
  <2>6. TestInv'
    BY <1>1, <1>2, <2>1, CallerNoTest, TestKeeps DEF input, StackInv
  <2> QED
    BY <2>3, <2>4, <2>5, <2>6, NextParts
<1>6. CASE dres[Top.id] = "noteval" /\ Criteria[Top.id] # None
  <2>1. Call("node", Criteria[Top.id])
    BY <1>6 DEF DefinitionEnter
  <2>2. Criteria[Top.id] \in Nodes
    BY <1>3, <1>6, DocumentAssumption
  <2>3. /\ MayCall(Top) /\ <<"node", Criteria[Top.id]>> = Callee(Top)
        /\ ResultOf(Activation(Top)) = "noteval"
    BY <1>2, <1>4, <1>6 DEF MayCall, Callee
  <2>4. calls' \in 0..MaxCalls
    BY <1>1, <1>2 DEF ResultTypes
  <2> QED
    BY <1>2, <2>1, <2>2, <2>3, <2>4, CallKeeps
<1> QED
  BY <1>5, <1>6

LEMMA KeepsDefinitionDone ==
  ASSUME EvalInv, DefinitionDone
  PROVE  EvalInv'
<1>1. ResultTypes /\ SmallInv /\ StackInv /\ ReportConsistent /\ TestInv
  BY InvParts
<1>2. /\ stack # << >> /\ Top.kind = "definition" /\ ret # None
      /\ dres' = [dres EXCEPT ![Top.id] = ret] /\ stack' = Tail(stack) /\ ret' = ret
      /\ UNCHANGED <<input, nres, tres, syschar, added, lost, calls>>
  BY DEF DefinitionDone, Returned, Running, Return
<1>3. Top.id \in Defs /\ 1 \in DOMAIN stack /\ Top = stack[1]
  BY <1>1, <1>2, TopFrame DEF StackInv
<1>4. Activation(Top) = <<"definition", Top.id>>
      /\ ResultOf(Activation(Top)) = dres[Top.id]
  BY <1>2 DEF Activation, ResultOf
<1>5. dres[Top.id] = "noteval"
  BY <1>1, <1>2, <1>3, <1>4 DEF StackInv, ProgressInv
<1>6. /\ dres'[Top.id] = ret /\ \A d \in Defs : d # Top.id => dres'[d] = dres[d]
      /\ dres' \in [Defs -> Results \cup {Failed}]
  BY <1>1, <1>2, <1>3 DEF ResultTypes
<1>7. OnceOnStack
  BY <1>1, <1>2, OnceReturned
<1>8. StackInv' /\ SmallInv'
  <2>1. \A d \in Defs : <<"definition", d>> # Activation(Top) => dres'[d] = dres[d]
    BY <1>4, <1>6
  <2>2. ret' = IF Top.kind = "definition" THEN dres'[Top.id]
               ELSE IF Top.kind = "node" THEN nres'[Top.id] ELSE tres'[Top.id]
    BY <1>2, <1>6
  <2>3. stack # << >> /\ stack' = Tail(stack) /\ nres' = nres /\ tres' = tres
    BY <1>2
  <2> QED
    BY ONLY <1>1, <1>7, <2>1, <2>2, <2>3, ReturnKeeps
<1>9. ResultTypes'
  BY <1>1, <1>2, <1>6 DEF ResultTypes
<1>10. ReportConsistent'
  <2>1. \A d \in Defs : dres[d] # "noteval" => dres'[d] = dres[d]
    BY <1>5, <1>6
  <2>2. nres' = nres /\ tres' = tres /\ operator' = operator
    BY <1>2 DEF input
  <2> QED
    BY ONLY <1>1, <2>1, <2>2, ReportKeeps
<1>11. TestInv'
  BY <1>1, <1>2, CallerNoTest, TestKeeps DEF input, StackInv
<1> QED
  BY <1>8, <1>9, <1>10, <1>11, NextParts

LEMMA KeepsNodeEnter ==
  ASSUME EvalInv, NodeEnter
  PROVE  EvalInv'
<1>1. ResultTypes /\ SmallInv /\ StackInv /\ ReportConsistent /\ TestInv
  BY InvParts
<1>2. /\ stack # << >> /\ Top.kind = "node"
      /\ UNCHANGED <<input, dres, nres, tres, syschar, added, lost>> /\ calls' = calls
  BY DEF NodeEnter, Entered, Running
<1>3. Top.id \in Nodes /\ Top.next \in Nat \ {0}
  BY <1>1, <1>2, TopFrame DEF StackInv
<1>4. Activation(Top) = <<"node", Top.id>> /\ ResultOf(Activation(Top)) = nres[Top.id]
  BY <1>2 DEF Activation, ResultOf
<1>5. calls' \in 0..MaxCalls
  BY <1>1, <1>2 DEF ResultTypes
<1>6. CASE nres[Top.id] # "noteval"
  <2>1. stack' = Tail(stack) /\ ret' = nres[Top.id]
    BY <1>6 DEF NodeEnter, Return
  <2>2. OnceOnStack
    BY <1>1, <1>2, <1>4, <1>6, OnceKnown
  <2>3. StackInv' /\ SmallInv'
    BY <1>1, <1>2, <2>1, <2>2, ReturnKeeps
  <2>4. ResultTypes'
    BY <1>1, <1>2, <1>3, <2>1 DEF ResultTypes
  <2>5. ReportConsistent'
    BY <1>1, <1>2, ReportKeeps DEF input
  <2>6. TestInv'
    BY <1>1, <1>2, <2>1, CallerNoTest, TestKeeps DEF input, StackInv
  <2> QED
    BY <2>3, <2>4, <2>5, <2>6, NextParts
<1>7. CASE nres[Top.id] = "noteval" /\ NodeType[Top.id] = "criterion"
  <2>1. Call("test", Target[Top.id])
    BY <1>7 DEF NodeEnter
  <2>2. Target[Top.id] \in Tests
    BY <1>3, <1>7, DocumentAssumption
  <2>3. /\ MayCall(Top) /\ <<"test", Target[Top.id]>> = Callee(Top)
        /\ ResultOf(Activation(Top)) = "noteval"
    BY <1>2, <1>4, <1>7 DEF MayCall, Callee
  <2> QED
    BY <1>2, <1>5, <2>1, <2>2, <2>3, CallKeeps
<1>8. CASE nres[Top.id] = "noteval" /\ NodeType[Top.id] = "extend"
  <2>1. Call("definition", Target[Top.id])
    BY <1>8 DEF NodeEnter
  <2>2. Target[Top.id] \in Defs
    BY <1>3, <1>8, DocumentAssumption
  <2>3. /\ MayCall(Top) /\ <<"definition", Target[Top.id]>> = Callee(Top)
        /\ ResultOf(Activation(Top)) = "noteval"
    BY <1>2, <1>4, <1>8 DEF MayCall, Callee
  <2> QED
    BY <1>2, <1>5, <2>1, <2>2, <2>3, CallKeeps
<1>9. CASE nres[Top.id] = "noteval" /\ NodeType[Top.id] \notin {"criterion", "extend"}
  <2>1. Call("node", Subnodes[Top.id][Top.next]) /\ Top.next <= Len(Subnodes[Top.id])
    BY <1>9 DEF NodeEnter
  <2>2. Subnodes[Top.id][Top.next] \in Nodes
    <3>1. Subnodes[Top.id] \in Seq(Nodes)
      BY <1>3, DocumentAssumption
    <3> QED
      BY <3>1, <2>1, <1>3
  <2>3. /\ MayCall(Top) /\ <<"node", Subnodes[Top.id][Top.next]>> = Callee(Top)
        /\ ResultOf(Activation(Top)) = "noteval"
    BY <1>2, <1>4, <1>9, <2>1 DEF MayCall, Callee
  <2> QED
    BY <1>2, <1>5, <2>1, <2>2, <2>3, CallKeeps
<1> QED
  BY <1>6, <1>7, <1>8, <1>9

LEMMA KeepsAddSubresult ==
  ASSUME EvalInv, AddSubresult
  PROVE  EvalInv'
<1> DEFINE f == [Top EXCEPT !.next = @ + 1, !.ores = ores_add_res(@, ret)]
<1>1. ResultTypes /\ SmallInv /\ StackInv /\ ReportConsistent /\ TestInv
  BY InvParts
<1>2. /\ stack # << >> /\ Top.kind = "node" /\ ret # None /\ NodeType[Top.id] = "criteria"
      /\ stack' = <<f>> \o Tail(stack) /\ ret' = None
      /\ UNCHANGED <<input, dres, nres, tres, syschar, added, lost, calls>>
  BY DEF AddSubresult, Returned, Running, GoOn
<1>3. /\ Top \in Frames /\ Top.id \in Nodes /\ Top.next \in Nat \ {0} /\ Top.ores \in Tallies
      /\ Top = stack[1] /\ 1 \in DOMAIN stack
  BY <1>1, <1>2, TopFrame DEF StackInv
<1>4. ores_add_res(Top.ores, ret) \in Tallies
  BY <1>3 DEF ores_add_res, Tallies
<1>5. /\ f \in Frames /\ f.kind = "node" /\ f.id = Top.id /\ f.next = Top.next + 1
      /\ f.ores = ores_add_res(Top.ores, ret)
  <2>1. Top \in [kind : {"definition", "node", "test"}, id : Defs \cup Nodes \cup Tests,
                 next : Nat \ {0}, ores : Tallies]
    BY <1>3 DEF Frames
  <2>2. Top.next + 1 \in Nat \ {0}
    BY <1>3
  <2>3. f \in Frames
    BY ONLY <2>1, <2>2, <1>4 DEF Frames
  <2>4. /\ f.kind = Top.kind /\ f.id = Top.id /\ f.next = Top.next + 1
        /\ f.ores = ores_add_res(Top.ores, ret)
    BY ONLY <2>1
  <2> QED
    BY <2>3, <2>4, <1>2
<1> HIDE DEF f
<1>6. FrameOK(f)
  <2>1. MayCall(Top)
    BY <1>1, <1>2 DEF StackInv, ReturnInv
  <2>2. Top.next <= Len(Subnodes[Top.id])
    BY <1>2, <2>1 DEF MayCall
  <2>3. Len(Subnodes[Top.id]) \in Nat
    <3>1. Subnodes[Top.id] \in Seq(Nodes)
      BY <1>3, DocumentAssumption
    <3> QED
      BY <3>1
  <2> QED
    BY ONLY <2>2, <2>3, <1>3, <1>5 DEF FrameOK
<1>7. Activation(f) = Activation(Top) /\ ResultOf(Activation(Top)) = "noteval"
  <2>1. Activation(f) = Activation(Top)
    BY <1>2, <1>5 DEF Activation
  <2>2. ResultOf(Activation(Top)) = "noteval"
    BY <1>1, <1>2, <1>3 DEF StackInv, ProgressInv
  <2> QED
    BY <2>1, <2>2
<1>8. StackInv'
  BY <1>1, <1>2, <1>5, <1>6, <1>7, ReplaceKeeps
<1>9. SmallInv'
  <2>1. Small(Top)
    BY <1>1, <1>3 DEF SmallInv
  <2>2. Small(f)
    <3>1. \A r \in Results : Top.ores[r] \in Nat
      BY <1>3 DEF Tallies
    <3>2. \A r \in Results : ores_add_res(Top.ores, ret)[r]
                               = IF r = ret THEN Top.ores[r] + 1 ELSE Top.ores[r]
      BY <1>3 DEF ores_add_res, Tallies
    <3>3. Operands(Top.ores) + Top.ores["notappl"] < Top.next
      BY <2>1 DEF Small
    <3>4. Operands(f.ores) + f.ores["notappl"] < f.next
      <4> DEFINE c == Top.ores  b == ores_add_res(Top.ores, ret)
      <4>1. /\ c["true"] \in Nat /\ c["false"] \in Nat /\ c["error"] \in Nat
            /\ c["unknown"] \in Nat /\ c["noteval"] \in Nat /\ c["notappl"] \in Nat
        BY <3>1 DEF Results
      <4>2. /\ b["true"] = IF "true" = ret THEN c["true"] + 1 ELSE c["true"]
            /\ b["false"] = IF "false" = ret THEN c["false"] + 1 ELSE c["false"]
            /\ b["error"] = IF "error" = ret THEN c["error"] + 1 ELSE c["error"]
            /\ b["unknown"] = IF "unknown" = ret THEN c["unknown"] + 1 ELSE c["unknown"]
            /\ b["noteval"] = IF "noteval" = ret THEN c["noteval"] + 1 ELSE c["noteval"]
            /\ b["notappl"] = IF "notappl" = ret THEN c["notappl"] + 1 ELSE c["notappl"]
        BY <3>2 DEF Results
      <4>3. Operands(b) + b["notappl"] \in {Operands(c) + c["notappl"],
                                            Operands(c) + c["notappl"] + 1}
            /\ Operands(c) + c["notappl"] \in Nat
        <5> HIDE DEF b, c
        <5> QED
          BY ONLY <4>1, <4>2 DEF Operands
      <4> QED
        BY <4>3, <3>3, <1>3, <1>5
    <3> QED
      BY <3>4 DEF Small
  <2> QED
    BY <1>1, <1>2, <1>5, <2>2, SmallKeeps DEF StackInv
<1>10. ResultTypes'
  BY <1>1, <1>2 DEF ResultTypes
<1>11. ReportConsistent'
  BY <1>1, <1>2, ReportKeeps DEF input
<1>12. TestInv'
  <2>1. Top' = f
    <3>1. stack \in Seq(Frames)
      BY <1>1 DEF StackInv, ChainInv
    <3>2. (<<f>> \o Tail(stack))[1] = f /\ <<f>> \o Tail(stack) \in Seq(Frames)
          /\ <<f>> \o Tail(stack) # << >>
      BY ONLY <3>1, <1>2, <1>5, ReplacedFrames
    <3> QED
      BY ONLY <3>2, <1>2 DEF Top
  <2> QED
    BY <1>1, <1>2, <1>5, <2>1, TestKeeps DEF input
<1> QED
  BY <1>8, <1>9, <1>10, <1>11, <1>12, NextParts

\* A node gets its result.
LEMMA FinishKeeps ==
  ASSUME EvalInv, NEW v \in Results \cup {Failed}, FinishNode(v), OnceOnStack,
         stack # << >>, Top.kind = "node", nres[Top.id] = "noteval",
         v = IF NodeType[Top.id] = "criteria"
             THEN ByOperator([k \in DOMAIN Subnodes[Top.id] |-> nres[Subnodes[Top.id][k]]],
                             operator[Top.id])
             ELSE IF NodeType[Top.id] = "criterion" THEN tres[Target[Top.id]]
             ELSE dres[Target[Top.id]]
  PROVE  EvalInv'
<1> DEFINE r == oval_result_criteria_node_negate(Top.id, v)
<1>1. ResultTypes /\ SmallInv /\ StackInv /\ ReportConsistent /\ TestInv
  BY InvParts
<1>2. /\ nres' = [nres EXCEPT ![Top.id] = r] /\ stack' = Tail(stack) /\ ret' = r
      /\ UNCHANGED <<input, dres, tres, syschar, added, lost, calls>>
  BY DEF FinishNode, Return
<1>3. Top.id \in Nodes /\ 1 \in DOMAIN stack /\ Top = stack[1]
  BY <1>1, TopFrame DEF StackInv
<1>4. r \in Results \cup {Failed}
  BY DEF oval_result_criteria_node_negate, Results
<1>5. /\ nres'[Top.id] = r /\ \A n \in Nodes : n # Top.id => nres'[n] = nres[n]
      /\ nres' \in [Nodes -> Results \cup {Failed}] /\ DOMAIN nres = Nodes
  BY <1>1, <1>2, <1>3, <1>4 DEF ResultTypes
<1>6. StackInv' /\ SmallInv'
  <2>1. \A n \in Nodes : <<"node", n>> # Activation(Top) => nres'[n] = nres[n]
    BY <1>5 DEF Activation
  <2>2. ret' = IF Top.kind = "definition" THEN dres'[Top.id]
               ELSE IF Top.kind = "node" THEN nres'[Top.id] ELSE tres'[Top.id]
    BY <1>2, <1>5
  <2>3. stack # << >> /\ stack' = Tail(stack) /\ dres' = dres /\ tres' = tres /\ OnceOnStack
    BY <1>2
  <2> QED
    BY ONLY <1>1, <2>1, <2>2, <2>3, ReturnKeeps
<1>7. ResultTypes'
  BY <1>1, <1>2, <1>4, <1>5 DEF ResultTypes
<1>8. ReportConsistent'
  <2>1. ASSUME NEW n \in Nodes, NEW i \in DOMAIN Subnodes[n], Subnodes[n][i] = Top.id
        PROVE  nres[n] = "noteval" /\ n # Top.id
    <3>1. /\ Len(stack) \in Nat /\ Len(stack) > 1
          /\ stack[2].kind = "node" /\ stack[2].id = n
      BY <1>1, <2>1, ParentFrame DEF StackInv
    <3>2. 2 \in DOMAIN stack /\ 2 \in 2 .. Len(stack)
      <4>1. stack \in Seq(Frames)
        BY <1>1 DEF StackInv, ChainInv
      <4> QED
        BY <3>1, <4>1
    <3>3. ResultOf(Activation(stack[2])) = "noteval"
      BY <3>2, <1>1 DEF StackInv, ProgressInv
    <3>4. Activation(stack[2]) # Activation(Top)
      BY <3>2 DEF OnceOnStack
    <3> QED
      BY <3>1, <3>3, <3>4 DEF Activation, ResultOf
  <2>2. operator' = operator /\ dres' = dres /\ tres' = tres
    BY <1>2 DEF input
  <2>3. PICK m, q : m = Top.id /\ q = r
    OBVIOUS
  <2>4. m \in Nodes /\ nres' = [nres EXCEPT ![m] = q]
    BY <1>2, <1>3, <2>3
  <2>5. \A n \in Nodes : \A i \in DOMAIN Subnodes[n] :
           Subnodes[n][i] = m => nres[n] = "noteval" /\ n # m
    BY <2>1, <2>3
  <2>6. q = oval_result_criteria_node_negate(m,
              IF NodeType[m] = "criteria"
              THEN ByOperator([k \in DOMAIN Subnodes[m] |-> nres[Subnodes[m][k]]], operator[m])
              ELSE IF NodeType[m] = "criterion" THEN tres[Target[m]] ELSE dres[Target[m]])
    BY <2>3
  <2> QED
    BY ONLY <1>1, <1>5, <2>2, <2>4, <2>5, <2>6, ReportExtended
<1>9. TestInv'
  BY <1>1, <1>2, CallerNoTest, TestKeeps DEF input, StackInv
<1> QED
  BY <1>6, <1>7, <1>8, <1>9, NextParts

LEMMA KeepsCriteriaDone ==
  ASSUME EvalInv, CriteriaDone
  PROVE  EvalInv'
<1> DEFINE g == [k \in DOMAIN Subnodes[Top.id] |-> nres[Subnodes[Top.id][k]]]
<1>1. ResultTypes /\ SmallInv /\ StackInv /\ ReportConsistent /\ TestInv
  BY InvParts
<1>2. /\ stack # << >> /\ Top.kind = "node" /\ nres[Top.id] = "noteval"
      /\ NodeType[Top.id] = "criteria" /\ Top.next > Len(Subnodes[Top.id])
      /\ FinishNode(ores_get_result_byopr(Top.ores, operator[Top.id]))
  BY DEF CriteriaDone, Entered, Running
<1>3. /\ Top.id \in Nodes /\ Top.next \in Nat \ {0} /\ FrameOK(Top)
      /\ Top = stack[1] /\ 1 \in DOMAIN stack
  BY <1>1, <1>2, TopFrame DEF StackInv
<1>4. /\ Subnodes[Top.id] \in Seq(Nodes) /\ Len(Subnodes[Top.id]) \in Nat
      /\ DOMAIN Subnodes[Top.id] = 1 .. Len(Subnodes[Top.id])
  <2>1. Subnodes[Top.id] \in Seq(Nodes)
    BY <1>3, DocumentAssumption
  <2> QED
    BY <2>1
<1>5. DOMAIN Subnodes[Top.id] = 1 .. Top.next - 1
  <2>1. Top.next <= Len(Subnodes[Top.id]) + 1
    BY <1>2, <1>3 DEF FrameOK
  <2>2. Top.next - 1 = Len(Subnodes[Top.id])
    BY ONLY <2>1, <1>2, <1>3, <1>4
  <2> QED
    BY <2>2, <1>4
<1>6. Top.ores = Tally(g, 1)
  <2>1. Innermost(1)
    BY DEF Innermost
  <2>2. stack[1].kind = "node"
    BY <1>2, <1>3
  <2>3. stack[1].ores = Tally([i \in 1 .. stack[1].next - 1 |->
                                  nres[Subnodes[stack[1].id][i]]], 1)
    BY ONLY <2>1, <2>2, <1>1, <1>3 DEF StackInv, TallyInv
  <2> QED
    BY ONLY <2>3, <1>3, <1>5
<1>7. ores_get_result_byopr(Top.ores, operator[Top.id]) = ByOperator(g, operator[Top.id])
  <2>1. IsFiniteSet(DOMAIN g)
    <3>1. DOMAIN g = 1 .. Len(Subnodes[Top.id])
      BY <1>4
    <3>2. IsFiniteSet(1 .. Len(Subnodes[Top.id]))
      BY <1>4, FS_Interval
    <3> QED
      BY <3>1, <3>2
  <2> HIDE DEF g
  <2>2. ByOperator(g, operator[Top.id]) = ores_get_result_byopr(Tally(g, 1), operator[Top.id])
    BY <2>1, ByOperatorIs
  <2> QED
    BY <1>6, <2>2
<1>8. OnceOnStack
  BY <1>1, <1>2, OnceCounted
<1>9. PICK v : v = ores_get_result_byopr(Top.ores, operator[Top.id])
  OBVIOUS
<1>10. v \in Results \cup {Failed} /\ FinishNode(v)
  BY <1>2, <1>9, CombinedIsResult
<1>11. v = IF NodeType[Top.id] = "criteria"
           THEN ByOperator([k \in DOMAIN Subnodes[Top.id] |-> nres[Subnodes[Top.id][k]]],
                           operator[Top.id])
           ELSE IF NodeType[Top.id] = "criterion" THEN tres[Target[Top.id]]
           ELSE dres[Target[Top.id]]
  BY <1>2, <1>7, <1>9
<1> QED
  BY ONLY EvalInv, <1>2, <1>8, <1>10, <1>11, FinishKeeps

LEMMA KeepsLeafDone ==
  ASSUME EvalInv, LeafDone
  PROVE  EvalInv'
<1>1. ResultTypes /\ SmallInv /\ StackInv /\ ReportConsistent /\ TestInv
  BY InvParts
<1>2. /\ stack # << >> /\ Top.kind = "node" /\ ret # None
      /\ NodeType[Top.id] \in {"criterion", "extend"} /\ FinishNode(ret)
  BY DEF LeafDone, Returned, Running
<1>3. Top.id \in Nodes /\ Top = stack[1] /\ 1 \in DOMAIN stack
  BY <1>1, <1>2, TopFrame DEF StackInv
<1>4. nres[Top.id] = "noteval"
  <2>1. ResultOf(Activation(Top)) = "noteval"
    BY <1>1, <1>2, <1>3 DEF StackInv, ProgressInv
  <2> QED
    BY <2>1, <1>2 DEF ResultOf, Activation
<1>5. ret \in Results \cup {Failed}
  BY <1>1, <1>2 DEF ResultTypes
<1>6. OnceOnStack
  BY <1>1, <1>2, OnceReturned
<1>7. ret = IF NodeType[Top.id] = "criteria"
            THEN ByOperator([k \in DOMAIN Subnodes[Top.id] |-> nres[Subnodes[Top.id][k]]],
                            operator[Top.id])
            ELSE IF NodeType[Top.id] = "criterion" THEN tres[Target[Top.id]]
            ELSE dres[Target[Top.id]]
  <2>1. ret = ResultOf(Callee(Top))
    BY <1>1, <1>2 DEF StackInv, ReturnInv
  <2> QED
    BY <2>1, <1>2 DEF ResultOf, Callee
<1>8. PICK v : v = ret
  OBVIOUS
<1>9. v \in Results \cup {Failed} /\ FinishNode(v)
  BY <1>2, <1>5, <1>8
<1>10. v = IF NodeType[Top.id] = "criteria"
           THEN ByOperator([k \in DOMAIN Subnodes[Top.id] |-> nres[Subnodes[Top.id][k]]],
                           operator[Top.id])
           ELSE IF NodeType[Top.id] = "criterion" THEN tres[Target[Top.id]]
           ELSE dres[Target[Top.id]]
  BY <1>7, <1>8
<1> QED
  BY ONLY EvalInv, <1>2, <1>4, <1>6, <1>9, <1>10, FinishKeeps

\* What is known of the tests, when the one on top of the stack may change.
LEMMA TestsKept ==
  ASSUME TestInv, live' = live, DOMAIN syschar' = Objects, lost \subseteq lost',
         \A t \in Tests : Settled(ObjectOf[t]) => syschar'[ObjectOf[t]] = syschar[ObjectOf[t]],
         NEW u \in Tests,
         \A t \in Tests \ {u} : tres'[t] = tres[t] /\ added'[t] = added[t],
         ~KnownSubtype[u] => tres'[u] \in {"noteval", "unknown"},
         (u \notin lost' /\ tres'[u] # "noteval" /\ KnownSubtype[u]) =>
            /\ Settled(ObjectOf[u])'
            /\ \E copies \in 1 .. added'[u] + 1 : tres'[u] = VerdictOn(u, copies)',
         (stack' # << >> /\ Top'.kind = "test" /\ Top'.next = 2) =>
            KnownSubtype[Top'.id] /\ (Top'.id \in lost' \/ Settled(ObjectOf[Top.id])')
  PROVE  TestInv'
<1>1. ASSUME NEW t \in Tests, Settled(ObjectOf[t])
      PROVE  Settled(ObjectOf[t])' /\ \A copies : VerdictOn(t, copies)' = VerdictOn(t, copies)
  <2>1. syschar'[ObjectOf[t]] = syschar[ObjectOf[t]]
    BY <1>1
  <2> QED
    BY ONLY <2>1, <1>1, live' = live DEF Settled, Collected, VerdictOn
<1>2. \A t \in Tests : ~KnownSubtype[t] => tres'[t] \in {"noteval", "unknown"}
  BY DEF TestInv
<1>3. ASSUME NEW t \in Tests, t \notin lost', tres'[t] # "noteval", KnownSubtype[t]
      PROVE  /\ Settled(ObjectOf[t])'
             /\ \E copies \in 1 .. added'[t] + 1 : tres'[t] = VerdictOn(t, copies)'
  <2>1. CASE t = u
    BY <1>3, <2>1
  <2>2. CASE t # u
    <3>1. tres'[t] = tres[t] /\ added'[t] = added[t] /\ t \notin lost
      BY <1>3, <2>2
    <3>2. /\ Settled(ObjectOf[t])
          /\ \E copies \in 1 .. added[t] + 1 : tres[t] = VerdictOn(t, copies)
      BY ONLY <3>1, <1>3, TestInv, t \in Tests DEF TestInv
    <3> QED
      BY ONLY <3>1, <3>2, <1>1, t \in Tests
  <2> QED
    BY <2>1, <2>2
<1>4. /\ DOMAIN syschar' = Objects
      /\ (stack' # << >> /\ Top'.kind = "test" /\ Top'.next = 2) =>
            KnownSubtype[Top'.id] /\ (Top'.id \in lost' \/ Settled(ObjectOf[Top.id])')
  OBVIOUS
<1> QED
  BY ONLY <1>2, <1>3, <1>4 DEF TestInv

\* A test gets its result.
LEMMA FinishTestKeeps ==
  ASSUME EvalInv, stack # << >>, Top.kind = "test", NEW v \in Results \cup {Failed},
         FinishTest(Top.id, v), tres[Top.id] = "noteval" \/ v = tres[Top.id],
         UNCHANGED <<input, dres, nres>>
  PROVE  /\ StackInv' /\ SmallInv' /\ ReportConsistent'
         /\ Top.id \in Tests /\ tres'[Top.id] = v
         /\ \A t \in Tests \ {Top.id} : tres'[t] = tres[t]
         /\ tres' \in [Tests -> Results \cup {Failed}]
         /\ ret' = v
         /\ stack' # << >> => Top'.kind # "test"
<1>1. ResultTypes /\ SmallInv /\ StackInv /\ ReportConsistent /\ TestInv
  BY InvParts
<1>2. tres' = [tres EXCEPT ![Top.id] = v] /\ stack' = Tail(stack) /\ ret' = v
  BY DEF FinishTest, Return
<1>3. Top.id \in Tests
  BY <1>1, TopFrame DEF StackInv
<1>4. /\ tres'[Top.id] = v /\ \A t \in Tests \ {Top.id} : tres'[t] = tres[t]
      /\ tres' \in [Tests -> Results \cup {Failed}]
  BY <1>1, <1>2, <1>3 DEF ResultTypes
<1>5. OnceOnStack
  BY <1>1, OnceKnown
<1>6. StackInv' /\ SmallInv'
  <2>1. \A t \in Tests : <<"test", t>> # Activation(Top) => tres'[t] = tres[t]
    BY <1>4 DEF Activation
  <2>2. ret' = IF Top.kind = "definition" THEN dres'[Top.id]
               ELSE IF Top.kind = "node" THEN nres'[Top.id] ELSE tres'[Top.id]
    BY <1>2, <1>4
  <2>3. stack # << >> /\ stack' = Tail(stack) /\ dres' = dres /\ nres' = nres
    BY <1>2
  <2> QED
    BY ONLY <1>1, <1>5, <2>1, <2>2, <2>3, ReturnKeeps
<1>7. ReportConsistent'
  <2>1. \A t \in Tests : tres[t] # "noteval" => tres'[t] = tres[t]
    BY <1>4
  <2>2. nres' = nres /\ dres' = dres /\ operator' = operator
    BY DEF input
  <2> QED
    BY ONLY <1>1, <2>1, <2>2, ReportKeeps
<1>8. stack' # << >> => Top'.kind # "test"
  BY <1>1, <1>2, CallerNoTest DEF StackInv
<1> QED
  BY <1>2, <1>3, <1>4, <1>6, <1>7, <1>8

\* A test goes on to its verdict after the query.
LEMMA QueriedKeeps ==
  ASSUME EvalInv, stack # << >>, Top.kind = "test", Top.next = 1, tres[Top.id] = "noteval",
         GoOn([Top EXCEPT !.next = 2]), UNCHANGED <<input, dres, nres, tres>>
  PROVE  /\ StackInv' /\ SmallInv' /\ ReportConsistent'
         /\ Top'.id = Top.id /\ Top.id \in Tests /\ ret' = None
         /\ stack' # << >> /\ Top'.kind = "test" /\ Top'.next = 2
<1> DEFINE f == [Top EXCEPT !.next = 2]
<1>1. ResultTypes /\ SmallInv /\ StackInv /\ ReportConsistent /\ TestInv
  BY InvParts
<1>2. stack' = <<f>> \o Tail(stack) /\ ret' = None
  BY DEF GoOn
<1>3. /\ Top \in Frames /\ Top.id \in Tests /\ Top.ores \in Tallies
      /\ Top = stack[1] /\ 1 \in DOMAIN stack
  BY <1>1, TopFrame DEF StackInv
<1>4. f \in Frames /\ f.kind = "test" /\ f.id = Top.id /\ f.next = 2 /\ f.ores = Top.ores
  <2>1. Top \in [kind : {"definition", "node", "test"}, id : Defs \cup Nodes \cup Tests,
                 next : Nat \ {0}, ores : Tallies]
    BY <1>3 DEF Frames
  <2>2. f \in Frames
    BY ONLY <2>1 DEF Frames
  <2>3. f.kind = Top.kind /\ f.id = Top.id /\ f.next = 2 /\ f.ores = Top.ores
    BY ONLY <2>1
  <2> QED
    BY <2>2, <2>3
<1> HIDE DEF f
<1>5. FrameOK(f) /\ Activation(f) = Activation(Top) /\ ResultOf(Activation(Top)) = "noteval"
  BY <1>3, <1>4 DEF FrameOK, Activation, ResultOf
<1>6. StackInv'
  <2>1. f.kind # "node"
    BY <1>4
  <2> QED
    BY <1>1, <1>2, <1>4, <1>5, <2>1, ReplaceKeeps
<1>7. SmallInv'
  <2>1. Operands(Top.ores) + Top.ores["notappl"] < 1
    BY <1>1, <1>3 DEF SmallInv, Small
  <2>2. Operands(Top.ores) + Top.ores["notappl"] \in Nat
    <3>1. \A r \in Results : Top.ores[r] \in Nat
      BY <1>3 DEF Tallies
    <3>2. /\ Top.ores["true"] \in Nat /\ Top.ores["false"] \in Nat /\ Top.ores["error"] \in Nat
          /\ Top.ores["unknown"] \in Nat /\ Top.ores["noteval"] \in Nat
          /\ Top.ores["notappl"] \in Nat
      BY ONLY <3>1 DEF Results
    <3> QED
      BY ONLY <3>2 DEF Operands
  <2>3. Small(f)
    BY <2>1, <2>2, <1>4 DEF Small
  <2> QED
    BY <1>1, <1>2, <1>4, <2>3, SmallKeeps DEF StackInv
<1>8. ReportConsistent'
  BY <1>1, ReportKeeps DEF input
<1>9. Top' = f /\ stack' # << >>
  <2>1. stack \in Seq(Frames)
    BY <1>1 DEF StackInv, ChainInv
  <2>2. (<<f>> \o Tail(stack))[1] = f /\ <<f>> \o Tail(stack) \in Seq(Frames)
        /\ <<f>> \o Tail(stack) # << >>
    BY <2>1, <1>4, ReplacedFrames
  <2> QED
    BY ONLY <2>2, <1>2 DEF Top
<1> QED
  BY <1>2, <1>3, <1>4, <1>6, <1>7, <1>8, <1>9

LEMMA KeepsTestKnown ==
  ASSUME EvalInv, TestKnown
  PROVE  EvalInv'
<1>1. ResultTypes /\ SmallInv /\ StackInv /\ ReportConsistent /\ TestInv
  BY InvParts
<1>2. /\ stack # << >> /\ Top.kind = "test"
      /\ tres[Top.id] # "noteval" \/ ~ KnownSubtype[Top.id]
      /\ FinishTest(Top.id, IF tres[Top.id] # "noteval" THEN tres[Top.id] ELSE "unknown")
      /\ UNCHANGED <<input, dres, nres, syschar, added, lost, calls>>
  BY DEF TestKnown, Entered, Running
<1>3. Top.id \in Tests
  BY <1>1, <1>2, TopFrame DEF StackInv
<1>4. PICK v : v = IF tres[Top.id] # "noteval" THEN tres[Top.id] ELSE "unknown"
  OBVIOUS
<1>5. /\ v \in Results \cup {Failed} /\ FinishTest(Top.id, v)
      /\ tres[Top.id] = "noteval" \/ v = tres[Top.id]
  BY <1>1, <1>2, <1>3, <1>4 DEF ResultTypes, Results
<1>6. PICK u : u = Top.id
  OBVIOUS
<1>7. /\ StackInv' /\ SmallInv' /\ ReportConsistent' /\ u \in Tests /\ tres'[u] = v
      /\ \A t \in Tests \ {u} : tres'[t] = tres[t]
      /\ tres' \in [Tests -> Results \cup {Failed}] /\ ret' = v
      /\ stack' # << >> => Top'.kind # "test"
  BY <1>2, <1>5, <1>6, FinishTestKeeps
<1>8. ResultTypes'
  BY <1>1, <1>2, <1>5, <1>7 DEF ResultTypes
<1>9. TestInv'
  <2>1. CASE tres[u] # "noteval"
    <3>1. tres'[u] = tres[u]
      BY <1>4, <1>6, <1>7, <2>1
    <3>2. tres' = tres
      <4>1. \A t \in Tests : tres'[t] = tres[t]
        BY ONLY <1>7, <3>1
      <4>2. tres \in [Tests -> Results \cup {Failed}]
        BY <1>1 DEF ResultTypes
      <4> QED
        BY ONLY <4>1, <4>2, <1>7
    <3> QED
      BY <1>1, <1>2, <1>7, <3>2, TestKeeps DEF input
  <2>2. CASE tres[u] = "noteval"
    <3>1. tres'[u] = "unknown" /\ ~ KnownSubtype[u]
      BY <1>2, <1>4, <1>6, <1>7, <2>2
    <3>2. /\ live' = live /\ syschar' = syschar /\ lost' = lost /\ added' = added
          /\ DOMAIN syschar' = Objects
      BY <1>1, <1>2 DEF input, TestInv
    <3> QED
      BY ONLY <1>1, <1>7, <3>1, <3>2, TestsKept
  <2> QED
    BY <2>1, <2>2
<1> QED
  BY <1>7, <1>8, <1>9, NextParts

\* A query that changes what is known of an object is about one that no test with a
\* verdict has been evaluated on.
LEMMA CollectionKeeps ==
  ASSUME TestInv, NEW t \in Tests, live, ~Collected(ObjectOf[t]), NEW sc,
         syschar' = [syschar EXCEPT ![ObjectOf[t]] = sc]
  PROVE  /\ DOMAIN syschar' = Objects /\ syschar'[ObjectOf[t]] = sc
         /\ \A o \in Objects \ {ObjectOf[t]} : syschar'[o] = syschar[o]
         /\ \A u \in Tests : Settled(ObjectOf[u]) =>
               syschar'[ObjectOf[u]] = syschar[ObjectOf[u]]
<1>1. DOMAIN syschar = Objects /\ ObjectOf[t] \in Objects
      /\ \A u \in Tests : ObjectOf[u] \in Objects
  BY SystemAssumption DEF TestInv
<1>2. ~Settled(ObjectOf[t])
  BY DEF Settled
<1>3. DOMAIN syschar' = Objects /\ syschar'[ObjectOf[t]] = sc
      /\ \A o \in Objects \ {ObjectOf[t]} : syschar'[o] = syschar[o]
  BY <1>1
<1> QED
  BY ONLY <1>1, <1>2, <1>3

LEMMA KeepsNoQuery ==
  ASSUME EvalInv, NEW t \in Tests, NoQuery(t)
  PROVE  EvalInv'
<1>1. ResultTypes /\ SmallInv /\ StackInv /\ ReportConsistent /\ TestInv
  BY InvParts
<1>2. /\ stack # << >> /\ Top.kind = "test" /\ Top.id = t /\ Top.next = 1
      /\ tres[t] = "noteval" /\ KnownSubtype[t] /\ (~live \/ Collected(ObjectOf[t]))
      /\ GoOn([Top EXCEPT !.next = 2])
      /\ UNCHANGED <<input, dres, nres, tres, syschar, added, lost, calls>>
  BY DEF NoQuery, ToQuery, Entered, Running
<1>3. StackInv' /\ SmallInv' /\ ReportConsistent' /\ Top'.id = t /\ ret' = None
  BY <1>2, QueriedKeeps
<1>4. ResultTypes'
  BY <1>1, <1>2, <1>3 DEF ResultTypes
<1>5. TestInv'
  <2>1. /\ live' = live /\ syschar' = syschar /\ lost' = lost /\ added' = added
        /\ tres' = tres /\ DOMAIN syschar' = Objects
    BY <1>1, <1>2 DEF input, TestInv
  <2>2. Settled(ObjectOf[Top.id])'
    BY <1>2, <1>3, <2>1 DEF Settled, Collected
  <2> QED
    BY ONLY <1>1, <1>2, <1>3, <2>1, <2>2, TestsKept, t \in Tests
<1> QED
  BY <1>3, <1>4, <1>5, NextParts

LEMMA KeepsIncompatible ==
  ASSUME EvalInv, NEW t \in Tests, Incompatible(t)
  PROVE  EvalInv'
<1>1. ResultTypes /\ SmallInv /\ StackInv /\ ReportConsistent /\ TestInv
  BY InvParts
<1>2. /\ stack # << >> /\ Top.kind = "test" /\ Top.id = t /\ Top.next = 1
      /\ tres[t] = "noteval" /\ KnownSubtype[t]
      /\ GoOn([Top EXCEPT !.next = 2]) /\ lost' = lost \cup {t}
      /\ UNCHANGED <<input, dres, nres, tres, syschar, added, calls>>
  BY DEF Incompatible, ToQuery, Entered, Running
<1>3. StackInv' /\ SmallInv' /\ ReportConsistent' /\ Top'.id = t /\ ret' = None
  BY <1>2, QueriedKeeps
<1>4. ResultTypes'
  BY <1>1, <1>2, <1>3 DEF ResultTypes
<1>5. TestInv'
  <2>1. /\ live' = live /\ syschar' = syschar /\ added' = added /\ tres' = tres
        /\ t \in lost' /\ lost \subseteq lost' /\ DOMAIN syschar' = Objects
    BY <1>1, <1>2 DEF input, TestInv
  <2> QED
    BY ONLY <1>1, <1>2, <1>3, <2>1, TestsKept, t \in Tests
<1> QED
  BY <1>3, <1>4, <1>5, NextParts

LEMMA KeepsQueryAborted ==
  ASSUME EvalInv, NEW t \in Tests, QueryAborted(t)
  PROVE  EvalInv'
<1>1. ResultTypes /\ SmallInv /\ StackInv /\ ReportConsistent /\ TestInv
  BY InvParts
<1>2. /\ stack # << >> /\ Top.kind = "test" /\ Top.id = t /\ Top.next = 1
      /\ tres[t] = "noteval" /\ KnownSubtype[t] /\ live /\ ~Collected(ObjectOf[t])
      /\ syschar' = [syschar EXCEPT ![ObjectOf[t]] = NoReply]
      /\ GoOn([Top EXCEPT !.next = 2]) /\ lost' = lost \cup {t}
      /\ UNCHANGED <<input, dres, nres, tres, added, calls>>
  BY DEF QueryAborted, ToCollect, ToQuery, Entered, Running
<1>3. StackInv' /\ SmallInv' /\ ReportConsistent' /\ Top'.id = t /\ ret' = None
  BY <1>2, QueriedKeeps
<1>4. /\ DOMAIN syschar' = Objects /\ syschar'[ObjectOf[t]] = NoReply
      /\ \A o \in Objects \ {ObjectOf[t]} : syschar'[o] = syschar[o]
      /\ \A u \in Tests : Settled(ObjectOf[u]) =>
            syschar'[ObjectOf[u]] = syschar[ObjectOf[u]]
  BY <1>1, <1>2, CollectionKeeps
<1>5. ResultTypes'
  <2>1. NoReply.flag \in Flags /\ \A o \in Objects : NoReply.items \subseteq ItemsOf[o]
    BY DEF NoReply, Flags
  <2>2. \A o \in Objects : syschar'[o] # None => /\ syschar'[o].flag \in Flags
                                                 /\ syschar'[o].items \subseteq ItemsOf[o]
    BY <1>1, <1>4, <2>1 DEF ResultTypes
  <2> QED
    BY <1>1, <1>2, <1>3, <2>2 DEF ResultTypes
<1>6. TestInv'
  <2>1. /\ live' = live /\ added' = added /\ tres' = tres /\ t \in lost' /\ lost \subseteq lost'
    BY <1>2 DEF input
  <2> QED
    BY ONLY <1>1, <1>2, <1>3, <1>4, <2>1, TestsKept, t \in Tests
<1> QED
  BY <1>3, <1>5, <1>6, NextParts

LEMMA RepliesTyped ==
  ASSUME NEW o \in Objects, NEW sc \in Replies(o) \cup {NotSupported}
  PROVE  /\ sc.flag \in Flags \ {"unknown"} /\ sc.items \subseteq ItemsOf[o]
         /\ sc # None
<1>1. sc.flag \in Flags \ {"unknown"} /\ sc.items \subseteq ItemsOf[o]
  <2>1. CASE sc = NotSupported
    BY <2>1 DEF NotSupported, Flags
  <2>2. CASE \E f \in {"not_applicable", "not_collected"} : sc = [flag |-> f, items |-> {}]
    BY <2>2 DEF Flags
  <2>3. CASE \E S \in SUBSET ItemsOf[o] :
               \E f \in {probe_cobj_compute_flag(S), "incomplete", "error"} :
                  sc = [flag |-> f, items |-> S]
    BY <2>3 DEF Flags, probe_cobj_compute_flag
  <2> QED
    BY <2>1, <2>2, <2>3 DEF Replies
<1> QED
  BY <1>1, NullAssumption

LEMMA KeepsQuery ==
  ASSUME EvalInv, NEW t \in Tests, NEW sc \in Replies(ObjectOf[t]) \cup {NotSupported},
         Query(t, sc)
  PROVE  EvalInv'
<1>1. ResultTypes /\ SmallInv /\ StackInv /\ ReportConsistent /\ TestInv
  BY InvParts
<1>2. /\ stack # << >> /\ Top.kind = "test" /\ Top.id = t /\ Top.next = 1
      /\ tres[t] = "noteval" /\ KnownSubtype[t] /\ live /\ ~Collected(ObjectOf[t])
      /\ syschar' = [syschar EXCEPT ![ObjectOf[t]] = sc]
      /\ GoOn([Top EXCEPT !.next = 2])
      /\ UNCHANGED <<input, dres, nres, tres, added, lost, calls>>
  BY DEF Query, ToCollect, ToQuery, Entered, Running
<1>3. StackInv' /\ SmallInv' /\ ReportConsistent' /\ Top'.id = t /\ ret' = None
  BY <1>2, QueriedKeeps
<1>4. /\ DOMAIN syschar' = Objects /\ syschar'[ObjectOf[t]] = sc
      /\ \A o \in Objects \ {ObjectOf[t]} : syschar'[o] = syschar[o]
      /\ \A u \in Tests : Settled(ObjectOf[u]) =>
            syschar'[ObjectOf[u]] = syschar[ObjectOf[u]]
  BY <1>1, <1>2, CollectionKeeps
<1>5. sc.flag \in Flags \ {"unknown"} /\ sc.items \subseteq ItemsOf[ObjectOf[t]] /\ sc # None
  BY RepliesTyped, SystemAssumption
<1>6. ResultTypes'
  <2>1. \A o \in Objects : syschar'[o] # None => /\ syschar'[o].flag \in Flags
                                                 /\ syschar'[o].items \subseteq ItemsOf[o]
    BY <1>1, <1>4, <1>5 DEF ResultTypes
  <2> QED
    BY <1>1, <1>2, <1>3, <2>1 DEF ResultTypes
<1>7. TestInv'
  <2>1. /\ live' = live /\ lost' = lost /\ added' = added /\ tres' = tres
    BY <1>2 DEF input
  <2>2. Settled(ObjectOf[Top.id])'
    BY <1>3, <1>4, <1>5 DEF Settled, Collected
  <2> QED
    BY ONLY <1>1, <1>2, <1>3, <1>4, <2>1, <2>2, TestsKept, t \in Tests
<1> QED
  BY <1>3, <1>6, <1>7, NextParts

LEMMA KeepsQueryFailed ==
  ASSUME EvalInv, NEW t \in Tests, QueryFailed(t)
  PROVE  EvalInv'
<1>1. ResultTypes /\ SmallInv /\ StackInv /\ ReportConsistent /\ TestInv
  BY InvParts
<1>2. /\ stack # << >> /\ Top.kind = "test" /\ Top.id = t
      /\ tres[t] = "noteval" /\ KnownSubtype[t] /\ live /\ ~Collected(ObjectOf[t])
      /\ syschar' = [syschar EXCEPT ![ObjectOf[t]] = NoReply]
      /\ FinishTest(Top.id, Failed) /\ lost' = lost \cup {t}
      /\ UNCHANGED <<input, dres, nres, added, calls>>
  BY DEF QueryFailed, ToCollect, ToQuery, Entered, Running
<1>3. /\ StackInv' /\ SmallInv' /\ ReportConsistent'
      /\ \A u \in Tests \ {t} : tres'[u] = tres[u]
      /\ tres' \in [Tests -> Results \cup {Failed}] /\ ret' = Failed
      /\ stack' # << >> => Top'.kind # "test"
  <2>1. Failed \in Results \cup {Failed}
    OBVIOUS
  <2> QED
    BY <1>2, <2>1, FinishTestKeeps
<1>4. /\ DOMAIN syschar' = Objects /\ syschar'[ObjectOf[t]] = NoReply
      /\ \A o \in Objects \ {ObjectOf[t]} : syschar'[o] = syschar[o]
      /\ \A u \in Tests : Settled(ObjectOf[u]) =>
            syschar'[ObjectOf[u]] = syschar[ObjectOf[u]]
  BY <1>1, <1>2, CollectionKeeps
<1>5. ResultTypes'
  <2>1. NoReply.flag \in Flags /\ \A o \in Objects : NoReply.items \subseteq ItemsOf[o]
    BY DEF NoReply, Flags
  <2>2. \A o \in Objects : syschar'[o] # None => /\ syschar'[o].flag \in Flags
                                                 /\ syschar'[o].items \subseteq ItemsOf[o]
    BY <1>1, <1>4, <2>1 DEF ResultTypes
  <2> QED
    BY <1>1, <1>2, <1>3, <2>2 DEF ResultTypes
<1>6. TestInv'
  <2>1. /\ live' = live /\ added' = added /\ t \in lost' /\ lost \subseteq lost'
    BY <1>2 DEF input
  <2> QED
    BY ONLY <1>1, <1>2, <1>3, <1>4, <2>1, TestsKept, t \in Tests
<1> QED
  BY <1>3, <1>5, <1>6, NextParts

LEMMA KeepsVariableFailed ==
  ASSUME EvalInv, NEW t \in Tests, VariableFailed(t)
  PROVE  EvalInv'
<1>1. ResultTypes /\ SmallInv /\ StackInv /\ ReportConsistent /\ TestInv
  BY InvParts
<1>2. /\ stack # << >> /\ Top.kind = "test" /\ Top.id = t /\ Top.next = 2
      /\ FinishTest(Top.id, Failed) /\ lost' = lost \cup {t}
      /\ UNCHANGED <<input, dres, nres, syschar, added, calls>>
  BY DEF VariableFailed, Entered, Running
<1>3. tres[Top.id] = "noteval" /\ KnownSubtype[t]
  <2>1. Top = stack[1] /\ 1 \in DOMAIN stack
    BY <1>1, <1>2, TopFrame DEF StackInv
  <2>2. ResultOf(Activation(Top)) = "noteval"
    BY <1>1, <1>2, <2>1 DEF StackInv, ProgressInv
  <2>3. KnownSubtype[t]
    BY <1>1, <1>2 DEF TestInv
  <2> QED
    BY <2>2, <2>3, <1>2 DEF ResultOf, Activation
<1>4. /\ StackInv' /\ SmallInv' /\ ReportConsistent'
      /\ \A u \in Tests \ {t} : tres'[u] = tres[u]
      /\ tres' \in [Tests -> Results \cup {Failed}] /\ ret' = Failed
      /\ stack' # << >> => Top'.kind # "test"
  <2>1. Failed \in Results \cup {Failed}
    OBVIOUS
  <2> QED
    BY <1>2, <1>3, <2>1, FinishTestKeeps
<1>5. ResultTypes'
  BY <1>1, <1>2, <1>4 DEF ResultTypes
<1>6. TestInv'
  <2>1. /\ live' = live /\ added' = added /\ t \in lost' /\ lost \subseteq lost'
        /\ syschar' = syschar /\ DOMAIN syschar' = Objects
    BY <1>1, <1>2 DEF input, TestInv
  <2> QED
    BY ONLY <1>1, <1>3, <1>4, <2>1, TestsKept, t \in Tests
<1> QED
  BY <1>4, <1>5, <1>6, NextParts

LEMMA KeepsTestEvaluate ==
  ASSUME EvalInv, TestEvaluate
  PROVE  EvalInv'
<1>1. ResultTypes /\ SmallInv /\ StackInv /\ ReportConsistent /\ TestInv
  BY InvParts
<1>2. /\ stack # << >> /\ Top.kind = "test" /\ Top.next = 2
      /\ FinishTest(Top.id, TestVerdict(Top.id))
      /\ added' = [added EXCEPT ![Top.id] = IF syschar[ObjectOf[Top.id]] = None THEN @ ELSE @ + 1]
      /\ UNCHANGED <<input, dres, nres, syschar, lost, calls>>
  BY DEF TestEvaluate, Entered, Running
<1>3. PICK u : u = Top.id
  OBVIOUS
<1>4. u \in Tests /\ tres[Top.id] = "noteval"
  <2>1. Top = stack[1] /\ 1 \in DOMAIN stack /\ Top.id \in Tests
    BY <1>1, <1>2, TopFrame DEF StackInv
  <2>2. ResultOf(Activation(Top)) = "noteval"
    BY <1>1, <1>2, <2>1 DEF StackInv, ProgressInv
  <2> QED
    BY <2>1, <2>2, <1>2, <1>3 DEF ResultOf, Activation
<1>5. PICK v : v = TestVerdict(Top.id)
  OBVIOUS
<1>6. added[u] \in Nat /\ v = VerdictOn(u, added[u] + 1)
  BY <1>1, <1>3, <1>4, <1>5 DEF ResultTypes, TestVerdict, VerdictOn
<1>7. v \in Results
  <2>1. CASE syschar[ObjectOf[u]] = None
    BY <1>6, <2>1 DEF VerdictOn, Results
  <2>2. CASE syschar[ObjectOf[u]] # None
    <3>1. PICK sc : sc = syschar[ObjectOf[u]]
      OBVIOUS
    <3>2. ObjectOf[u] \in Objects /\ IsFiniteSet(ItemsOf[ObjectOf[u]])
      BY <1>4, SystemAssumption
    <3>3. sc.items \subseteq ItemsOf[ObjectOf[u]]
      BY <1>1, <2>2, <3>1, <3>2 DEF ResultTypes
    <3>4. IsFiniteSet(sc.items)
      BY ONLY <3>2, <3>3, FS_Subset
    <3>5. evaluate_items(u, sc, added[u] + 1) \in Results
      BY ONLY <1>6, <3>4, VerdictIsResult
    <3> QED
      BY <1>6, <2>2, <3>1, <3>5 DEF VerdictOn
  <2> QED
    BY <2>1, <2>2
<1>8. /\ StackInv' /\ SmallInv' /\ ReportConsistent' /\ tres'[u] = v
      /\ \A t \in Tests \ {u} : tres'[t] = tres[t]
      /\ tres' \in [Tests -> Results \cup {Failed}] /\ ret' = v
      /\ stack' # << >> => Top'.kind # "test"
  <2>1. v \in Results \cup {Failed} /\ FinishTest(Top.id, v)
    BY <1>2, <1>5, <1>7
  <2> QED
    BY <1>2, <1>3, <1>4, <2>1, FinishTestKeeps
<1>9. /\ added' \in [Tests -> Nat] /\ \A t \in Tests \ {u} : added'[t] = added[t]
      /\ added[u] + 1 \in 1 .. added'[u] + 1
  <2>1. added \in [Tests -> Nat]
    BY <1>1 DEF ResultTypes
  <2>2. added' = [added EXCEPT ![u] = IF syschar[ObjectOf[u]] = None THEN added[u]
                                                                    ELSE added[u] + 1]
    BY <1>2, <1>3, <1>4, <2>1
  <2>3. added' \in [Tests -> Nat] /\ (added'[u] = added[u] \/ added'[u] = added[u] + 1)
        /\ \A t \in Tests \ {u} : added'[t] = added[t]
    BY ONLY <2>1, <2>2, <1>4
  <2> QED
    BY ONLY <2>3, <1>6
<1>10. ResultTypes'
  BY <1>1, <1>2, <1>7, <1>8, <1>9 DEF ResultTypes
<1>11. TestInv'
  <2>1. /\ live' = live /\ lost' = lost /\ syschar' = syschar /\ DOMAIN syschar' = Objects
    BY <1>1, <1>2 DEF input, TestInv
  <2>2. KnownSubtype[u] /\ (u \in lost \/ Settled(ObjectOf[u]))
    BY <1>1, <1>2, <1>3 DEF TestInv
  <2>3. (u \notin lost' /\ tres'[u] # "noteval" /\ KnownSubtype[u]) =>
            /\ Settled(ObjectOf[u])'
            /\ \E copies \in 1 .. added'[u] + 1 : tres'[u] = VerdictOn(u, copies)'
    <3>1. u \notin lost' => Settled(ObjectOf[u])'
      BY ONLY <2>1, <2>2 DEF Settled, Collected
    <3>2. tres'[u] = VerdictOn(u, added[u] + 1)
      BY ONLY <1>6, <1>8
    <3>3. \A copies : VerdictOn(u, copies)' = VerdictOn(u, copies)
      BY ONLY <2>1 DEF VerdictOn
    <3> QED
      BY ONLY <3>1, <3>2, <3>3, <1>9
  <2> QED
    BY ONLY <1>1, <1>4, <1>8, <1>9, <2>1, <2>2, <2>3, TestsKept
<1> QED
  BY <1>8, <1>10, <1>11, NextParts

-----------------------------------------------------------------------------
LEMMA InitEvalInv == Init => EvalInv
<1> SUFFICES ASSUME Init PROVE EvalInv
  OBVIOUS
<1>1. /\ stack = << >> /\ ret = None /\ lost = {} /\ calls = 0
      /\ dres = [d \in Defs |-> "noteval"] /\ nres = [n \in Nodes |-> "noteval"]
      /\ tres = [t \in Tests |-> "noteval"] /\ added = [t \in Tests |-> 0]
  BY DEF Init
<1>2. DOMAIN syschar = Objects
      /\ \A o \in Objects : syschar[o] # None => syschar[o] \in Replies(o)
  <2>1. CASE live
    BY <2>1 DEF Init
  <2>2. CASE ~live
    BY <2>2 DEF Init
  <2> QED
    BY <2>1, <2>2
<1>3. ResultTypes
  <2>1. \A o \in Objects : syschar[o] # None => /\ syschar[o].flag \in Flags
                                                /\ syschar[o].items \subseteq ItemsOf[o]
    BY <1>2, RepliesTyped
  <2> QED
    BY <1>1, <2>1, MaxCallsAssumption DEF ResultTypes, Results
<1>4. SmallInv /\ StackInv
  <2>1. << >> \in Seq(Frames) /\ Len(<< >>) = 0 /\ DOMAIN << >> = {}
    OBVIOUS
  <2> QED
    BY <1>1, <2>1 DEF SmallInv, StackInv, ChainInv, ProgressInv, ReturnInv, DoneInv, TallyInv
<1>5. ReportConsistent
  BY <1>1 DEF ReportConsistent
<1>6. TestInv
  BY <1>1, <1>2 DEF TestInv
<1> QED
  BY <1>3, <1>4, <1>5, <1>6, InvParts

\* A step that changes no variable keeps the invariant.
LEMMA StutterEvalInv ==
  ASSUME EvalInv, UNCHANGED vars
  PROVE  EvalInv'
<1>1. ResultTypes /\ SmallInv /\ StackInv /\ ReportConsistent /\ TestInv
  BY InvParts
<1>2. /\ operator' = operator /\ live' = live /\ stack' = stack /\ ret' = ret
      /\ dres' = dres /\ nres' = nres /\ tres' = tres /\ syschar' = syschar
      /\ added' = added /\ lost' = lost /\ calls' = calls
  BY DEF vars, input
<1>3. ResultTypes' /\ SmallInv'
  BY ONLY <1>1, <1>2 DEF ResultTypes, SmallInv
<1>4. StackInv'
  BY ONLY <1>1, <1>2 DEF StackInv, ChainInv, ProgressInv, ReturnInv, DoneInv, TallyInv,
                         Innermost, ResultOf, Top
<1>5. ReportConsistent'
  BY ONLY <1>1, <1>2 DEF ReportConsistent
<1>6. TestInv'
  BY ONLY <1>1, <1>2 DEF TestInv, Settled, Collected, VerdictOn, Top
<1> QED
  BY <1>3, <1>4, <1>5, <1>6, NextParts

\* The inductive invariant: the frames of the call stack call one another, what is under
\* evaluation has no result, and an evaluation has counted what its subnodes returned.
THEOREM EvaluationInvariance == Spec => []EvalInv
<1>1. Init => EvalInv
  BY InitEvalInv
<1>2. EvalInv /\ [Next]_vars => EvalInv'
  <2> SUFFICES ASSUME EvalInv, [Next]_vars PROVE EvalInv'
    OBVIOUS
  <2>1. CASE \E d \in Defs : EvalDefinition(d)
    BY <2>1, KeepsEvalDefinition
  <2>2. CASE DefinitionEnter
    BY <2>2, KeepsDefinitionEnter
  <2>3. CASE DefinitionDone
    BY <2>3, KeepsDefinitionDone
  <2>4. CASE NodeEnter
    BY <2>4, KeepsNodeEnter
  <2>5. CASE AddSubresult
    BY <2>5, KeepsAddSubresult
  <2>6. CASE CriteriaDone
    BY <2>6, KeepsCriteriaDone
  <2>7. CASE LeafDone
    BY <2>7, KeepsLeafDone
  <2>8. CASE TestKnown
    BY <2>8, KeepsTestKnown
  <2>9. CASE TestEvaluate
    BY <2>9, KeepsTestEvaluate
  <2>10. ASSUME NEW t \in Tests, NoQuery(t) PROVE EvalInv'
    BY <2>10, KeepsNoQuery
  <2>11. ASSUME NEW t \in Tests, QueryAborted(t) PROVE EvalInv'
    BY <2>11, KeepsQueryAborted
  <2>12. ASSUME NEW t \in Tests, QueryFailed(t) PROVE EvalInv'
    BY <2>12, KeepsQueryFailed
  <2>13. ASSUME NEW t \in Tests, VariableFailed(t) PROVE EvalInv'
    BY <2>13, KeepsVariableFailed
  <2>14. ASSUME NEW t \in Tests, NEW sc \in Replies(ObjectOf[t]) \cup {NotSupported},
                Query(t, sc)
         PROVE  EvalInv'
    BY <2>14, KeepsQuery
  <2>15. ASSUME NEW t \in Tests, Incompatible(t) PROVE EvalInv'
    BY <2>15, KeepsIncompatible
  <2>16. CASE UNCHANGED vars
    BY <2>16, StutterEvalInv
  <2> QED
    BY <2>1, <2>2, <2>3, <2>4, <2>5, <2>6, <2>7, <2>8, <2>9, <2>10, <2>11, <2>12, <2>13,
       <2>14, <2>15, <2>16 DEF Next, Step
<1> QED
  BY <1>1, <1>2, PTL DEF Spec

\* Every result is a result of the OVAL language or the -1 of a failed query, and no
\* criteria counts more results than it has visited subnodes.
THEOREM EvaluationTypes == Spec => []EvalTypeOK
<1>1. EvalInv => EvalTypeOK
  BY DEF EvalInv
<1> QED
  BY <1>1, EvaluationInvariance, PTL

\* The results in a report explain each other, for every document: also when definitions
\* extend each other, share tests, are evaluated in any order and again, and when queries
\* fail in between (oval_result_criteria_node_eval).
THEOREM ReportsAreConsistent == Spec => []ReportConsistent
<1>1. EvalInv => ReportConsistent
  BY DEF EvalInv
<1> QED
  BY <1>1, EvaluationInvariance, PTL

\* A result once known is never replaced: what is recorded is the result of the top
\* frame, which had none when its evaluation went past the remembered result.
LEMMA NoneUnderEvaluation ==
  ASSUME EvalInv, stack # << >>, ret # None \/ Top.next > 1
  PROVE  /\ Top.kind = "definition" => dres[Top.id] = "noteval"
         /\ Top.kind = "node" => nres[Top.id] = "noteval"
         /\ Top.kind = "test" => tres[Top.id] = "noteval"
<1>1. Top = stack[1] /\ 1 \in DOMAIN stack
  BY TopFrame DEF EvalInv
<1>2. ResultOf(Activation(Top)) = "noteval"
  BY <1>1 DEF EvalInv, ProgressInv
<1> QED
  BY <1>2 DEF ResultOf, Activation

LEMMA StepStable ==
  ASSUME EvalInv, Next
  PROVE  /\ \A t \in Tests : tres[t] # "noteval" => tres'[t] = tres[t]
         /\ \A n \in Nodes : nres[n] # "noteval" => nres'[n] = nres[n]
         /\ \A d \in Defs : dres[d] # "noteval" => dres'[d] = dres[d]
<1>1. /\ dres \in [Defs -> Results \cup {Failed}] /\ nres \in [Nodes -> Results \cup {Failed}]
      /\ tres \in [Tests -> Results \cup {Failed}]
  BY DEF EvalInv, EvalTypeOK
<1>2. CASE \E d \in Defs : EvalDefinition(d)
  BY <1>2 DEF EvalDefinition
<1>3. CASE DefinitionEnter \/ NodeEnter \/ AddSubresult
  BY <1>3 DEF DefinitionEnter, NodeEnter, AddSubresult
<1>4. CASE DefinitionDone
  <2>1. dres[Top.id] = "noteval"
    BY <1>4, NoneUnderEvaluation DEF DefinitionDone, Returned, Running
  <2> QED
    BY <1>1, <1>4, <2>1 DEF DefinitionDone
<1>5. CASE CriteriaDone \/ LeafDone
  <2>1. nres[Top.id] = "noteval"
    BY <1>5, NoneUnderEvaluation DEF CriteriaDone, LeafDone, Returned, Running
  <2>2. \E r : nres' = [nres EXCEPT ![Top.id] = r]
        /\ dres' = dres /\ tres' = tres
    BY <1>5 DEF CriteriaDone, LeafDone, FinishNode
  <2> QED
    BY <1>1, <2>1, <2>2
<1>6. CASE TestKnown
  BY <1>1, <1>6 DEF TestKnown, FinishTest
<1>7. CASE TestEvaluate
  <2>1. tres[Top.id] = "noteval"
    BY <1>7, NoneUnderEvaluation DEF TestEvaluate, Entered, Running
  <2> QED
    BY <1>1, <1>7, <2>1 DEF TestEvaluate, FinishTest
<1>8. ASSUME NEW t \in Tests, NoQuery(t) \/ Incompatible(t) \/ QueryAborted(t)
             \/ \E sc \in Replies(ObjectOf[t]) \cup {NotSupported} : Query(t, sc)
      PROVE  dres' = dres /\ nres' = nres /\ tres' = tres
  BY <1>8 DEF NoQuery, Incompatible, QueryAborted, Query
<1>9. ASSUME NEW t \in Tests, QueryFailed(t)
      PROVE  dres' = dres /\ nres' = nres /\ tres[t] = "noteval"
             /\ tres' = [tres EXCEPT ![t] = Failed]
  BY <1>9 DEF QueryFailed, ToCollect, ToQuery, FinishTest
<1>10. ASSUME NEW t \in Tests, VariableFailed(t)
       PROVE  dres' = dres /\ nres' = nres /\ tres[t] = "noteval"
              /\ tres' = [tres EXCEPT ![t] = Failed]
  <2>1. tres[Top.id] = "noteval" /\ Top.id = t
    BY <1>10, NoneUnderEvaluation DEF VariableFailed, Entered, Running
  <2> QED
    BY <1>10, <2>1 DEF VariableFailed, FinishTest
<1> QED
  BY <1>1, <1>2, <1>3, <1>4, <1>5, <1>6, <1>7, <1>8, <1>9, <1>10 DEF Next, Step

THEOREM ResultsAreStable == Spec => ResultsStable
<1>1. EvalInv /\ [Next]_vars =>
        [/\ \A t \in Tests : tres[t] # "noteval" => tres'[t] = tres[t]
         /\ \A n \in Nodes : nres[n] # "noteval" => nres'[n] = nres[n]
         /\ \A d \in Defs : dres[d] # "noteval" => dres'[d] = dres[d]]_vars
  BY StepStable
<1> QED
  BY <1>1, EvaluationInvariance, PTL DEF Spec, ResultsStable

-----------------------------------------------------------------------------
\* A test is only ever marked lost when its query brings nothing.
LEMMA StepLoses ==
  ASSUME Next, NEW t \in lost', t \notin lost, lost \subseteq Tests
  PROVE  t \in Tests /\ (Incompatible(t) \/ QueryAborted(t) \/ QueryFailed(t) \/ VariableFailed(t))
<1>1. ASSUME NEW u \in Tests,
             Incompatible(u) \/ QueryAborted(u) \/ QueryFailed(u) \/ VariableFailed(u)
      PROVE  lost' = lost \cup {u}
  BY <1>1 DEF Incompatible, QueryAborted, QueryFailed, VariableFailed
<1>2. CASE \/ \E d \in Defs : EvalDefinition(d)
           \/ DefinitionEnter \/ DefinitionDone \/ NodeEnter \/ AddSubresult
           \/ TestKnown \/ TestEvaluate
  BY <1>2 DEF EvalDefinition, DefinitionEnter, DefinitionDone, NodeEnter, AddSubresult,
              TestKnown, TestEvaluate
<1>3. CASE CriteriaDone \/ LeafDone
  BY <1>3 DEF CriteriaDone, LeafDone, FinishNode
<1>4. ASSUME NEW u \in Tests,
             NoQuery(u) \/ \E sc \in Replies(ObjectOf[u]) \cup {NotSupported} : Query(u, sc)
      PROVE  lost' = lost
  BY <1>4 DEF NoQuery, Query
<1> QED
  BY <1>1, <1>2, <1>3, <1>4 DEF Next, Step

\* While a test waits for its verdict nothing else happens.
LEMMA StepOfWaiting ==
  ASSUME Next, stack # << >>, ret = None, Top.kind = "test", Top.next = 2
  PROVE  TestEvaluate \/ \E t \in Tests : VariableFailed(t)
<1>1. ~ \E d \in Defs : EvalDefinition(d)
  BY DEF EvalDefinition
<1>2. ~ (DefinitionEnter \/ DefinitionDone \/ NodeEnter \/ AddSubresult \/ CriteriaDone \/ LeafDone)
  BY DEF DefinitionEnter, DefinitionDone, NodeEnter, AddSubresult, CriteriaDone, LeafDone,
         Entered, Returned, Running
<1>3. ~ TestKnown /\ \A t \in Tests : ~ ToQuery(t)
  BY DEF TestKnown, ToQuery
<1>4. \A t \in Tests : /\ ~ (NoQuery(t) \/ Incompatible(t) \/ QueryAborted(t) \/ QueryFailed(t))
                      /\ \A sc : ~ Query(t, sc)
  BY <1>3 DEF NoQuery, Incompatible, QueryAborted, QueryFailed, Query, ToCollect
<1> QED
  BY <1>1, <1>2, <1>3, <1>4 DEF Next, Step

\* Evaluating an object that was not collected decides nothing.
LEMMA UncollectedVerdict ==
  ASSUME NEW t, ~Collected(ObjectOf[t])
  PROVE  TestVerdict(t) \in {"unknown", "error"}
<1>1. CASE syschar[ObjectOf[t]] = None
  BY <1>1 DEF TestVerdict
<1>2. CASE syschar[ObjectOf[t]] # None
  <2>1. syschar[ObjectOf[t]].flag = "unknown"
    BY <1>2 DEF Collected
  <2>2. evaluate_items(t, syschar[ObjectOf[t]], added[t] + 1) = "error"
    BY <2>1 DEF evaluate_items, FlagVerdict
  <2> QED
    BY <1>2, <2>2 DEF TestVerdict
<1> QED
  BY <1>1, <1>2

\* The step that marks a test lost leaves it without verdict, or waiting for the verdict
\* on an object that is not collected.
LEMMA LosingStep ==
  ASSUME EvalInv, NEW t \in Tests,
         Incompatible(t) \/ QueryAborted(t) \/ QueryFailed(t) \/ VariableFailed(t)
  PROVE  \/ tres'[t] \in {"unknown", "error", Failed}
         \/ /\ tres'[t] = "noteval" /\ stack' # << >> /\ ret' = None
            /\ Top'.kind = "test" /\ Top'.id = t /\ Top'.next = 2
            /\ ~Collected(ObjectOf[t])'
<1>1. tres \in [Tests -> Results \cup {Failed}] /\ TestInv
  BY DEF EvalInv, EvalTypeOK
<1>2. CASE QueryFailed(t) \/ VariableFailed(t)
  BY <1>1, <1>2 DEF QueryFailed, VariableFailed, FinishTest
<1>3. CASE Incompatible(t) \/ QueryAborted(t)
  <2>1. /\ stack # << >> /\ Top.kind = "test" /\ Top.id = t /\ Top.next = 1
        /\ tres[t] = "noteval" /\ live /\ ~Collected(ObjectOf[t])
        /\ GoOn([Top EXCEPT !.next = 2]) /\ UNCHANGED <<input, dres, nres, tres>>
    BY <1>3 DEF Incompatible, QueryAborted, ToCollect, ToQuery, Entered, Running
  <2>2. /\ Top'.id = t /\ ret' = None /\ stack' # << >> /\ Top'.kind = "test" /\ Top'.next = 2
    BY <2>1, QueriedKeeps
  <2>3. ~Collected(ObjectOf[t])'
    <3>1. CASE Incompatible(t)
      BY <2>1, <3>1 DEF Incompatible, Collected
    <3>2. CASE QueryAborted(t)
      <4>1. syschar'[ObjectOf[t]] = NoReply
        BY <1>1, <2>1, <3>2, CollectionKeeps DEF QueryAborted
      <4> QED
        BY <4>1 DEF Collected, NoReply
    <3> QED
      BY <1>3, <3>1, <3>2
  <2> QED
    BY <2>1, <2>2, <2>3
<1> QED
  BY <1>2, <1>3

\* A test whose object could not be collected, for whatever reason oval_probe_query_test
\* lets pass, is neither true nor false, for every document and every sequence of failures.
THEOREM UncollectedTestsUndecided == Spec => []UncollectedUndecided
<1>1. Init => LostInv
  BY DEF Init, LostInv
<1>2. ASSUME EvalInv, LostInv, [Next]_vars
      PROVE  LostInv'
  <2>1. CASE UNCHANGED vars
    BY <1>2, <2>1 DEF vars, LostInv, Top, Collected
  <2>2. ASSUME Next, NEW t \in lost'
        PROVE  \/ tres'[t] \in {"unknown", "error", Failed}
               \/ /\ tres'[t] = "noteval" /\ stack' # << >> /\ ret' = None
                  /\ Top'.kind = "test" /\ Top'.id = t /\ Top'.next = 2
                  /\ ~Collected(ObjectOf[t])'
    <3>1. lost \subseteq Tests /\ tres \in [Tests -> Results \cup {Failed}]
      BY <1>2 DEF EvalInv, EvalTypeOK
    <3>2. CASE t \notin lost
      <4>1. t \in Tests /\ (Incompatible(t) \/ QueryAborted(t) \/ QueryFailed(t) \/ VariableFailed(t))
        BY <2>2, <3>1, <3>2, StepLoses
      <4> QED
        BY <1>2, <4>1, LosingStep
    <3>3. CASE t \in lost /\ tres[t] \in {"unknown", "error", Failed}
      <4>1. t \in Tests /\ tres[t] # "noteval"
        BY <3>1, <3>3 DEF Failed
      <4> QED
        BY <1>2, <2>2, <3>3, <4>1, StepStable
    <3>4. CASE /\ t \in lost /\ stack # << >> /\ ret = None
               /\ Top.kind = "test" /\ Top.id = t /\ Top.next = 2 /\ ~Collected(ObjectOf[t])
      <4>1. CASE TestEvaluate
        <5>1. tres' = [tres EXCEPT ![t] = TestVerdict(t)]
          BY <3>4, <4>1 DEF TestEvaluate, FinishTest
        <5> QED
          BY <3>1, <3>4, <5>1, UncollectedVerdict
      <4>2. CASE \E u \in Tests : VariableFailed(u)
        <5>1. tres' = [tres EXCEPT ![t] = Failed]
          BY <3>4, <4>2 DEF VariableFailed, FinishTest
        <5> QED
          BY <3>1, <3>4, <5>1
      <4> QED
        BY <2>2, <3>4, <4>1, <4>2, StepOfWaiting
    <3> QED
      BY <1>2, <3>2, <3>3, <3>4 DEF LostInv
  <2> QED
    BY <1>2, <2>1, <2>2 DEF LostInv
<1>3. LostInv => UncollectedUndecided
  BY DEF LostInv, UncollectedUndecided, Failed
<1> QED
  BY <1>1, <1>2, <1>3, EvaluationInvariance, PTL DEF Spec

-----------------------------------------------------------------------------
\* How often the items were added to the result test does not matter, unless the check
\* is "only one".
LEMMA CopiesDoNotCount ==
  ASSUME NEW f, IsFiniteSet(DOMAIN f), NEW copies \in Nat \ {0}, NEW check,
         check # "only_one"
  PROVE  ByCheck(f, copies, check) = ByCheck(f, 1, check)
<1> DEFINE c == Tally(f, copies)  b == Tally(f, 1)
<1>1. c \in Tallies /\ b \in Tallies
  BY TallyIsTally
<1>2. \A r \in Results : c[r] = copies * b[r]
  <2>1. \A r \in Results : Cardinality({x \in DOMAIN f : f[x] = r}) \in Nat
    <3> TAKE r \in Results
    <3>1. IsFiniteSet({x \in DOMAIN f : f[x] = r})
      BY FS_Subset
    <3> QED
      BY <3>1, FS_CardinalityType
  <2>2. \A r \in Results : /\ c[r] = copies * Cardinality({x \in DOMAIN f : f[x] = r})
                           /\ b[r] = 1 * Cardinality({x \in DOMAIN f : f[x] = r})
    BY DEF Tally
  <2> HIDE DEF c, b
  <2>3. \A m \in Nat : 1 * m = m
    OBVIOUS
  <2> QED
    BY ONLY <2>1, <2>2, <2>3
<1>3. ByCheck(f, copies, check) = ores_get_result_bychk(c, check)
      /\ ByCheck(f, 1, check) = ores_get_result_bychk(b, check)
  BY ByCheckIs
<1> HIDE DEF c, b
<1>4. \A m \in Nat : copies * m \in Nat /\ (copies * m = 0 <=> m = 0)
  OBVIOUS
<1>5. \A r \in Results : c[r] \in Nat /\ b[r] \in Nat /\ (c[r] = 0 <=> b[r] = 0)
  BY ONLY <1>1, <1>2, <1>4 DEF Tallies
<1>6. /\ c["true"] \in Nat /\ b["true"] \in Nat /\ (c["true"] = 0 <=> b["true"] = 0)
      /\ c["false"] \in Nat /\ b["false"] \in Nat /\ (c["false"] = 0 <=> b["false"] = 0)
      /\ c["error"] \in Nat /\ b["error"] \in Nat /\ (c["error"] = 0 <=> b["error"] = 0)
      /\ c["unknown"] \in Nat /\ b["unknown"] \in Nat /\ (c["unknown"] = 0 <=> b["unknown"] = 0)
      /\ c["noteval"] \in Nat /\ b["noteval"] \in Nat /\ (c["noteval"] = 0 <=> b["noteval"] = 0)
      /\ c["notappl"] \in Nat /\ b["notappl"] \in Nat /\ (c["notappl"] = 0 <=> b["notappl"] = 0)
  BY ONLY <1>5 DEF Results
<1>7. /\ c["true"] > 0 <=> b["true"] > 0
      /\ c["false"] > 0 <=> b["false"] > 0
      /\ c["error"] > 0 <=> b["error"] > 0
      /\ c["unknown"] > 0 <=> b["unknown"] > 0
      /\ c["noteval"] > 0 <=> b["noteval"] > 0
      /\ Operands(c) = 0 <=> Operands(b) = 0
  <2>1. \A p, q \in Nat : (p = 0 <=> q = 0) => (p > 0 <=> q > 0)
    OBVIOUS
  <2>2. ASSUME NEW e \in Tallies
        PROVE  Operands(e) = 0 <=> /\ e["true"] = 0 /\ e["false"] = 0 /\ e["error"] = 0
                                   /\ e["unknown"] = 0 /\ e["noteval"] = 0
    <3>1. /\ e["true"] \in Nat /\ e["false"] \in Nat /\ e["error"] \in Nat
          /\ e["unknown"] \in Nat /\ e["noteval"] \in Nat
      BY DEF Tallies, Results
    <3>2. PICK p \in Nat, q \in Nat, r \in Nat, u \in Nat, v \in Nat :
            /\ p = e["true"] /\ q = e["false"] /\ r = e["error"]
            /\ u = e["unknown"] /\ v = e["noteval"]
      BY <3>1
    <3>3. p + q + r + u + v = 0 <=> (p = 0 /\ q = 0 /\ r = 0 /\ u = 0 /\ v = 0)
      BY p \in Nat, q \in Nat, r \in Nat, u \in Nat, v \in Nat
    <3>4. Operands(e) = p + q + r + u + v
      BY ONLY <3>2 DEF Operands
    <3> QED
      BY ONLY <3>2, <3>3, <3>4
  <2>3. /\ Operands(c) = 0 <=> /\ c["true"] = 0 /\ c["false"] = 0 /\ c["error"] = 0
                               /\ c["unknown"] = 0 /\ c["noteval"] = 0
        /\ Operands(b) = 0 <=> /\ b["true"] = 0 /\ b["false"] = 0 /\ b["error"] = 0
                               /\ b["unknown"] = 0 /\ b["noteval"] = 0
    BY ONLY <1>1, <2>2
  <2> QED
    BY ONLY <1>6, <2>1, <2>3
<1>8. Determined(c) <=> Determined(b)
  BY ONLY <1>6 DEF Determined, Open
<1>9. OpenResult(c) = OpenResult(b) /\ NoOperand(c) = NoOperand(b)
  BY ONLY <1>6, <1>7 DEF OpenResult, NoOperand
<1>10. ores_get_result_bychk(c, check) = ores_get_result_bychk(b, check)
  BY ONLY <1>6, <1>7, <1>8, <1>9, check # "only_one" DEF ores_get_result_bychk
<1> QED
  BY <1>3, <1>10

LEMMA VerdictOfCopies ==
  ASSUME NEW t, Check[t] # "only_one", NEW sc, IsFiniteSet(sc.items), NEW copies \in Nat \ {0}
  PROVE  evaluate_items(t, sc, copies) = evaluate_items(t, sc, 1)
<1>1. eval_check_state(t, sc.items, copies) = eval_check_state(t, sc.items, 1)
  <2> DEFINE f == [i \in sc.items |-> ItemResult[t][i]]
  <2>1. IsFiniteSet(DOMAIN f)
    OBVIOUS
  <2>2. eval_check_state(t, sc.items, copies) = ByCheck(f, copies, Check[t])
        /\ eval_check_state(t, sc.items, 1) = ByCheck(f, 1, Check[t])
    BY DEF eval_check_state
  <2> HIDE DEF f
  <2>3. ByCheck(f, copies, Check[t]) = ByCheck(f, 1, Check[t])
    BY ONLY <2>1, Check[t] # "only_one", copies \in Nat \ {0}, CopiesDoNotCount
  <2> QED
    BY <2>2, <2>3
<1> QED
  BY <1>1 DEF evaluate_items

\* A test's remembered result is the verdict on the collected object that the system
\* characteristics hold, whatever other tests did with the object and however often the
\* test was asked for (_oval_result_test_result, oval_probe_query_object).
THEOREM ResultsAreExplained == Spec => []ResultExplained
<1>1. EvalInv => ResultExplained
  <2> SUFFICES ASSUME EvalInv, NEW t \in Tests, tres[t] # "noteval", t \notin lost,
                      KnownSubtype[t], Check[t] # "only_one"
               PROVE  tres[t] = VerdictOn(t, 1)
    BY DEF ResultExplained, VerdictOn
  <2>1. PICK copies \in 1 .. added[t] + 1 : tres[t] = VerdictOn(t, copies)
    BY DEF EvalInv, TestInv
  <2>2. CASE syschar[ObjectOf[t]] = None
    BY <2>1, <2>2 DEF VerdictOn
  <2>3. CASE syschar[ObjectOf[t]] # None
    <3>1. PICK sc : sc = syschar[ObjectOf[t]]
      OBVIOUS
    <3>2. ObjectOf[t] \in Objects /\ IsFiniteSet(ItemsOf[ObjectOf[t]])
      BY SystemAssumption
    <3>3. sc.items \subseteq ItemsOf[ObjectOf[t]]
      BY <2>3, <3>1, <3>2 DEF EvalInv, EvalTypeOK
    <3>4. IsFiniteSet(sc.items)
      BY ONLY <3>2, <3>3, FS_Subset
    <3>5. copies \in Nat \ {0}
      BY DEF EvalInv, EvalTypeOK
    <3>6. evaluate_items(t, sc, copies) = evaluate_items(t, sc, 1)
      BY ONLY <3>4, <3>5, Check[t] # "only_one", VerdictOfCopies
    <3> QED
      BY <2>1, <2>3, <3>1, <3>6 DEF VerdictOn
  <2> QED
    BY <2>2, <2>3
<1> QED
  BY <1>1, EvaluationInvariance, PTL

-----------------------------------------------------------------------------
\* A counter of a tally is positive when one of the results is counted by it.
LEMMA TallyPositive ==
  ASSUME NEW f, IsFiniteSet(DOMAIN f), NEW copies \in Nat \ {0}, NEW r \in Results
  PROVE  Tally(f, copies)[r] > 0 <=> \E x \in DOMAIN f : f[x] = r
<1> DEFINE S == {x \in DOMAIN f : f[x] = r}
<1>1. IsFiniteSet(S)
  BY FS_Subset
<1>2. Cardinality(S) \in Nat /\ (Cardinality(S) = 0 <=> S = {})
  BY <1>1, FS_CardinalityType, FS_EmptySet
<1>3. Tally(f, copies)[r] = copies * Cardinality(S)
  BY DEF Tally
<1>4. S = {} <=> ~ \E x \in DOMAIN f : f[x] = r
  OBVIOUS
<1> HIDE DEF S
<1>5. \A m \in Nat : copies * m > 0 <=> m # 0
  OBVIOUS
<1> QED
  BY ONLY <1>2, <1>3, <1>4, <1>5

\* What one false, or one true, operand decides.
LEMMA DecidedByOne ==
  ASSUME NEW c \in Tallies
  PROVE  /\ ores_get_result_bychk(c, "all") = "false" <=> c["false"] > 0
         /\ ores_get_result_bychk(c, "none_satisfy") = "false" <=> c["true"] > 0
         /\ ores_get_result_bychk(c, "at_least_one") = "true" <=> c["true"] > 0
<1>1. /\ c["true"] \in Nat /\ c["false"] \in Nat /\ c["error"] \in Nat
      /\ c["unknown"] \in Nat /\ c["noteval"] \in Nat
  BY DEF Tallies, Results
<1>2. (c["true"] > 0 \/ c["false"] > 0) => Operands(c) # 0
  BY ONLY <1>1 DEF Operands
<1>3. OpenResult(c) \notin {"true", "false"} /\ NoOperand(c) \notin {"true", "false"}
  BY DEF OpenResult, NoOperand
<1> QED
  BY ONLY <1>1, <1>2, <1>3 DEF ores_get_result_bychk

LEMMA BadItem ==
  ASSUME NEW t \in Tests, NEW i \in Items, Status[i] \in {"error", "not_collected"}
  PROVE  ItemResult[t][i] = "error"
  BY DEF ItemResult

\* A verdict that the states give on some items stands for any more items of the object.
LEMMA StateVerdictStands ==
  ASSUME NEW t \in Tests, NEW few, NEW many, IsFiniteSet(few), IsFiniteSet(many),
         few \subseteq Items, NEW copies \in Nat \ {0},
         \A i \in few : Status[i] \notin {"error", "not_collected"} => i \in many,
         NEW v, v = eval_check_state(t, few, copies),
         \/ v = "false" /\ Check[t] \in {"all", "none_satisfy"}
         \/ v = "true" /\ Check[t] = "at_least_one"
  PROVE  eval_check_state(t, many, 1) = v
<1> DEFINE f == [i \in few |-> ItemResult[t][i]]
           g == [i \in many |-> ItemResult[t][i]]
           c == Tally(f, copies)
           b == Tally(g, 1)
<1>1. DOMAIN f = few /\ DOMAIN g = many
      /\ (\A i \in few : f[i] = ItemResult[t][i]) /\ (\A i \in many : g[i] = ItemResult[t][i])
  OBVIOUS
<1>2. /\ eval_check_state(t, few, copies) = ByCheck(f, copies, Check[t])
      /\ eval_check_state(t, many, 1) = ByCheck(g, 1, Check[t])
  BY DEF eval_check_state
<1> HIDE DEF f, g
<1>3. c \in Tallies /\ b \in Tallies
  BY <1>1, TallyIsTally
<1>4. /\ ByCheck(f, copies, Check[t]) = ores_get_result_bychk(c, Check[t])
      /\ ByCheck(g, 1, Check[t]) = ores_get_result_bychk(b, Check[t])
  BY <1>1, ByCheckIs
<1>5. ASSUME NEW r \in {"true", "false"}, c[r] > 0 PROVE b[r] > 0
  <2>1. r \in Results
    BY DEF Results
  <2>2. PICK i \in few : f[i] = r
    BY <1>1, <1>5, <2>1, TallyPositive
  <2>3. Status[i] \notin {"error", "not_collected"}
    <3>1. ItemResult[t][i] # "error" /\ i \in Items
      BY <1>1, <2>2
    <3> QED
      BY <3>1, BadItem
  <2>4. i \in many /\ g[i] = r
    BY <1>1, <2>2, <2>3
  <2> QED
    BY <1>1, <2>1, <2>4, TallyPositive
<1> HIDE DEF c, b
<1>6. ores_get_result_bychk(c, Check[t]) = v
  BY <1>2, <1>4
<1>7. ores_get_result_bychk(b, Check[t]) = v
  <2>1. CASE Check[t] = "all"
    <3>1. v = "false"
      BY <2>1
    <3> QED
      BY ONLY <1>3, <1>5, <1>6, <2>1, <3>1, DecidedByOne
  <2>2. CASE Check[t] = "none_satisfy"
    <3>1. v = "false"
      BY <2>2
    <3> QED
      BY ONLY <1>3, <1>5, <1>6, <2>2, <3>1, DecidedByOne
  <2>3. CASE Check[t] = "at_least_one"
    <3>1. v = "true"
      BY <2>3
    <3> QED
      BY ONLY <1>3, <1>5, <1>6, <2>3, <3>1, DecidedByOne
  <2> QED
    BY <2>1, <2>2, <2>3
<1> QED
  BY ONLY <1>2, <1>4, <1>7

LEMMA CountTypes ==
  ASSUME NEW few, NEW many, IsFiniteSet(many), NEW s,
         \A i \in few : Status[i] = s => i \in many
  PROVE  Count(few, s) \in Nat /\ Count(many, s) \in Nat /\ Count(few, s) <= Count(many, s)
<1> DEFINE A == {i \in few : Status[i] = s}  B == {i \in many : Status[i] = s}
<1>1. A \subseteq B /\ IsFiniteSet(B)
  BY FS_Subset
<1>2. Count(few, s) = Cardinality(A) /\ Count(many, s) = Cardinality(B)
  BY DEF Count
<1> HIDE DEF A, B
<1>3. IsFiniteSet(A) /\ Cardinality(A) \in Nat /\ Cardinality(B) \in Nat
      /\ Cardinality(A) <= Cardinality(B)
  BY <1>1, FS_Subset, FS_CardinalityType
<1> QED
  BY ONLY <1>2, <1>3

LEMMA CountNone ==
  ASSUME NEW many, NEW s, \A i \in many : Status[i] # s
  PROVE  Count(many, s) = 0
<1>1. {i \in many : Status[i] = s} = {}
  OBVIOUS
<1> QED
  BY <1>1, FS_EmptySet DEF Count

\* The verdict on an incomplete collection, case by case.
LEMMA IncompleteVerdictStands ==
  ASSUME NEW t \in Tests, NEW sc, sc.flag = "incomplete", IsFiniteSet(sc.items),
         sc.items \subseteq Items, NEW copies \in Nat \ {0},
         NEW v \in {"true", "false"}, v = evaluate_items(t, sc, copies),
         v = "true" \/ Check[t] \in {"all", "none_satisfy"},
         NEW all, IsFiniteSet(all),
         \A i \in all : Status[i] \notin {"error", "not_collected"},
         \A i \in sc.items : Status[i] \notin {"error", "not_collected"} => i \in all,
         Count(all, "exists") > 0
  PROVE  evaluate_items(t, [flag |-> "complete", items |-> all], 1) = v
<1> DEFINE e == Count(sc.items, "exists")
           ee == Count(all, "exists")
           hasstate == States[t] # << >>
           any == Existence[t] = "any_exist"
           enough == any \/ (Existence[t] = "at_least_one_exists" /\ e > 0)
           state == eval_check_state(t, sc.items, copies)
           present == eval_check_existence(Existence[t], ee, 0)
<1>1. e \in Nat /\ ee \in Nat /\ e <= ee /\ ee > 0
  BY CountTypes
<1>2. Count(all, "error") = 0
  BY CountNone
<1>3. v = IF enough
          THEN IF ~hasstate THEN "true"
               ELSE IF state = "false" \/ (state = "true" /\ Check[t] = "at_least_one")
               THEN state ELSE "unknown"
          ELSE IF \/ Existence[t] = "none_exist" /\ e > 0
                  \/ Existence[t] = "only_one_exists" /\ e > 1
          THEN "false" ELSE "unknown"
  BY DEF evaluate_items, FlagVerdict
<1>4. evaluate_items(t, [flag |-> "complete", items |-> all], 1)
        = IF present = "true" /\ hasstate THEN eval_check_state(t, all, 1) ELSE present
  BY <1>2 DEF evaluate_items, FlagVerdict
<1> HIDE DEF e, ee, state, present
<1>5. CASE enough
  <2>1. present = "true"
    BY <1>1, <1>5 DEF present, eval_check_existence
  <2>2. CASE hasstate
    <3>1. v = state /\ (v = "false" \/ (v = "true" /\ Check[t] = "at_least_one"))
      BY <1>3, <1>5, <2>2
    <3>2. \/ v = "false" /\ Check[t] \in {"all", "none_satisfy"}
          \/ v = "true" /\ Check[t] = "at_least_one"
      BY <3>1
    <3>3. v = eval_check_state(t, sc.items, copies)
      BY <3>1 DEF state
    <3>4. PICK few : few = sc.items
      OBVIOUS
    <3>5. /\ IsFiniteSet(few) /\ IsFiniteSet(all) /\ few \subseteq Items
          /\ v = eval_check_state(t, few, copies)
          /\ \A i \in few : Status[i] \notin {"error", "not_collected"} => i \in all
      BY <3>3, <3>4
    <3>6. eval_check_state(t, all, 1) = v
      BY ONLY <3>2, <3>5, StateVerdictStands, t \in Tests, copies \in Nat \ {0}
    <3> QED
      BY <1>4, <2>1, <2>2, <3>6
  <2>3. CASE ~hasstate
    BY <1>3, <1>4, <1>5, <2>1, <2>3
  <2> QED
    BY <2>2, <2>3
<1>6. CASE ~enough
  <2>1. v = "false" /\ \/ Existence[t] = "none_exist" /\ e > 0
                       \/ Existence[t] = "only_one_exists" /\ e > 1
    BY <1>3, <1>6
  <2>2. present = "false"
    BY <1>1, <2>1 DEF present, eval_check_existence
  <2> QED
    BY <1>4, <2>1, <2>2
<1> QED
  BY <1>5, <1>6

\* A verdict on an incomplete collection is the one the complete collection would give,
\* whatever existing items it adds (the cases of _oval_result_test_evaluate_items).
THEOREM IncompleteVerdictsStand == Spec => []IncompleteSound
<1>1. EvalInv => IncompleteSound
  <2> SUFFICES ASSUME EvalInv, NEW t \in Tests,
                      tres[t] \in {"true", "false"}, t \notin lost,
                      syschar[ObjectOf[t]] # None, syschar[ObjectOf[t]].flag = "incomplete",
                      tres[t] = "true" \/ Check[t] \in {"all", "none_satisfy"},
                      NEW more \in SUBSET {i \in ItemsOf[ObjectOf[t]] : Status[i] = "exists"},
                      NEW all,
                      all = {i \in syschar[ObjectOf[t]].items \cup more :
                               Status[i] \notin {"error", "not_collected"}},
                      Count(all, "exists") > 0
               PROVE  evaluate_items(t, [flag |-> "complete", items |-> all], 1) = tres[t]
    BY DEF IncompleteSound
  <2>1. KnownSubtype[t] /\ tres[t] # "noteval"
    BY DEF EvalInv, TestInv
  <2>2. PICK copies \in 1 .. added[t] + 1 : tres[t] = VerdictOn(t, copies)
    BY <2>1 DEF EvalInv, TestInv
  <2>3. copies \in Nat \ {0}
    BY DEF EvalInv, EvalTypeOK
  <2>4. PICK sc, v : sc = syschar[ObjectOf[t]] /\ v = tres[t]
    OBVIOUS
  <2>5. /\ v = evaluate_items(t, sc, copies) /\ v \in {"true", "false"}
        /\ sc.flag = "incomplete" /\ (v = "true" \/ Check[t] \in {"all", "none_satisfy"})
    BY <2>2, <2>4 DEF VerdictOn
  <2>6. ObjectOf[t] \in Objects /\ IsFiniteSet(ItemsOf[ObjectOf[t]])
        /\ ItemsOf[ObjectOf[t]] \subseteq Items
    BY SystemAssumption
  <2>7. sc.items \subseteq ItemsOf[ObjectOf[t]]
    BY <2>4, <2>6 DEF EvalInv, EvalTypeOK
  <2>8. all \subseteq ItemsOf[ObjectOf[t]]
    BY <2>4, <2>7
  <2>9. IsFiniteSet(sc.items) /\ IsFiniteSet(all) /\ sc.items \subseteq Items
    BY ONLY <2>6, <2>7, <2>8, FS_Subset
  <2>10. /\ \A i \in all : Status[i] \notin {"error", "not_collected"}
         /\ \A i \in sc.items : Status[i] \notin {"error", "not_collected"} => i \in all
    BY <2>4
  <2>11. evaluate_items(t, [flag |-> "complete", items |-> all], 1) = v
    BY ONLY <2>3, <2>5, <2>9, <2>10, Count(all, "exists") > 0, t \in Tests,
            IncompleteVerdictStands
  <2> QED
    BY <2>4, <2>11
<1> QED
  BY <1>1, EvaluationInvariance, PTL


-----------------------------------------------------------------------------
(***************************************************************************)
(* A verdict of a definition is what its criteria mean.  The two recursive *)
(* definitions of that statement have the values their equations say when  *)
(* no definition extends itself, and are reasoned about from the leaves    *)
(* up.                                                                     *)
(***************************************************************************)
\* The result of a definition is that of its criteria, from the time it is known.
LEMMA DefinitionResults == Spec => []DefinitionInv
<1>1. Init => DefinitionInv
  BY DEF Init, DefinitionInv
<1>2. ASSUME EvalInv, DefinitionInv, [Next]_vars
      PROVE  DefinitionInv'
  <2>1. \A d \in Defs : Criteria[d] \in Nodes \cup {None}
    BY DocumentAssumption
  <2>2. CASE DefinitionDone
    <3>1. stack # << >> /\ Top.kind = "definition" /\ ret # None
      BY <2>2 DEF DefinitionDone, Returned, Running
    <3>2. MayCall(Top) /\ ret = ResultOf(Callee(Top))
      BY <1>2, <3>1 DEF EvalInv, ReturnInv
    <3>3. Criteria[Top.id] # None /\ ret = nres[Criteria[Top.id]]
      BY <3>1, <3>2 DEF MayCall, ResultOf, Callee
    <3>4. dres \in [Defs -> Results \cup {Failed}]
      BY <1>2 DEF EvalInv, EvalTypeOK
    <3>5. dres' = [dres EXCEPT ![Top.id] = ret] /\ nres' = nres
      BY <2>2 DEF DefinitionDone
    <3>6. PICK id, v : id = Top.id /\ v = ret
      OBVIOUS
    <3>7. ASSUME NEW d \in Defs, dres'[d] # "noteval"
          PROVE  Criteria[d] # None /\ dres'[d] = nres'[Criteria[d]]
      <4>1. CASE d = id
        BY <3>3, <3>4, <3>5, <3>6, <4>1
      <4>2. CASE d # id
        <5>1. dres'[d] = dres[d]
          BY <3>4, <3>5, <3>6, <4>2
        <5> QED
          BY <1>2, <3>5, <3>7, <5>1 DEF DefinitionInv
      <4> QED
        BY <4>1, <4>2
    <3> QED
      BY <3>7 DEF DefinitionInv
  <2>3. CASE dres' = dres
    <3>1. \A n \in Nodes : nres[n] # "noteval" => nres'[n] = nres[n]
      <4>1. CASE Next
        BY <1>2, <4>1, StepStable
      <4>2. CASE UNCHANGED vars
        BY <4>2 DEF vars
      <4> QED
        BY <1>2, <4>1, <4>2
    <3> QED
      BY <1>2, <2>1, <2>3, <3>1 DEF DefinitionInv
  <2>4. DefinitionDone \/ dres' = dres
    <3>1. CASE \E d \in Defs : EvalDefinition(d)
      BY <3>1 DEF EvalDefinition
    <3>2. CASE DefinitionEnter \/ NodeEnter \/ AddSubresult \/ TestKnown \/ TestEvaluate
      BY <3>2 DEF DefinitionEnter, NodeEnter, AddSubresult, TestKnown, TestEvaluate
    <3>3. CASE CriteriaDone \/ LeafDone
      BY <3>3 DEF CriteriaDone, LeafDone, FinishNode
    <3>4. ASSUME NEW t \in Tests, NoQuery(t) \/ Incompatible(t) \/ QueryAborted(t)
                 \/ QueryFailed(t) \/ VariableFailed(t)
                 \/ \E sc \in Replies(ObjectOf[t]) \cup {NotSupported} : Query(t, sc)
          PROVE  dres' = dres
      BY <3>4 DEF NoQuery, Incompatible, QueryAborted, QueryFailed, VariableFailed, Query
    <3>5. CASE UNCHANGED vars
      BY <3>5 DEF vars
    <3> QED
      BY <1>2, <3>1, <3>2, <3>3, <3>4, <3>5 DEF Next, Step
  <2> QED
    BY <2>2, <2>3, <2>4
<1> QED
  BY <1>1, <1>2, EvaluationInvariance, PTL DEF Spec

\* The nodes below a node are nodes; what holds of a node whenever it holds of those
\* below it holds of all.
LEMMA BelowAreNodes ==
  ASSUME NEW n \in Nodes
  PROVE  Below(n) \subseteq Nodes
<1>1. CASE NodeType[n] = "criteria"
  <2>1. Subnodes[n] \in Seq(Nodes)
    BY DocumentAssumption
  <2>2. \A k \in DOMAIN Subnodes[n] : Subnodes[n][k] \in Nodes
    BY <2>1
  <2> QED
    BY <1>1, <2>2 DEF Below
<1>2. CASE NodeType[n] = "extend" /\ Criteria[Target[n]] # None
  BY <1>2, DocumentAssumption DEF Below
<1> QED
  BY <1>1, <1>2 DEF Below

LEMMA NodeInduction ==
  ASSUME Acyclic, NEW T \in SUBSET Nodes,
         \A n \in Nodes : Below(n) \subseteq T => n \in T
  PROVE  T = Nodes
<1>1. SUFFICES ASSUME Nodes \ T # {}
               PROVE  FALSE
  OBVIOUS
<1>2. PICK n \in Nodes \ T : Below(n) \cap (Nodes \ T) = {}
  BY <1>1 DEF Acyclic
<1>3. Below(n) \subseteq T
  BY <1>2, BelowAreNodes
<1> QED
  BY <1>2, <1>3


\* The nodes of a definition: those of its criteria, and with a node those below it.
LEMMA ReachDef ==
  ASSUME Acyclic
  PROVE  \E reach : /\ \A n \in Nodes : reach[n] = {n} \cup UNION {reach[m] : m \in Below(n)}
                    /\ \A d \in Defs : Reach(d) = IF Criteria[d] = None THEN {} ELSE reach[Criteria[d]]
<1> DEFINE Body(f, n) == {n} \cup UNION {f[m] : m \in Below(n)}
           Closed(A) == \A n \in A : Below(n) \subseteq A
           F == {A \in SUBSET Nodes : Closed(A) /\ \E f : \A n \in A : f[n] = Body(f, n)}
<1>1. ASSUME NEW f, NEW h, NEW n \in Nodes, \A m \in Below(n) : f[m] = h[m]
      PROVE  Body(f, n) = Body(h, n)
  <2>1. {f[m] : m \in Below(n)} = {h[m] : m \in Below(n)}
    BY <1>1
  <2> QED
    BY <2>1
<1>2. \A n \in Nodes : Below(n) \subseteq Nodes
  BY BelowAreNodes
<1> HIDE DEF Body
<1>3. {} \in F
  OBVIOUS
<1>4. ASSUME NEW A \in F, A # Nodes
      PROVE  \E c \in Nodes \ A : A \cup {c} \in F
  <2>1. PICK c \in Nodes \ A : Below(c) \cap (Nodes \ A) = {}
    BY <1>4 DEF Acyclic
  <2>2. Below(c) \subseteq A
    BY <1>2, <2>1
  <2>3. Closed(A) /\ A \in SUBSET Nodes
    OBVIOUS
  <2>4. PICK f : \A x \in A : f[x] = Body(f, x)
    OBVIOUS
  <2>5. PICK h : h = [x \in Nodes |-> IF x = c THEN Body(f, c) ELSE f[x]]
    OBVIOUS
  <2>6. \A x \in A : h[x] = f[x]
    BY <2>1, <2>3, <2>5
  <2>7. \A x \in A : h[x] = Body(h, x)
    BY <1>1, <2>3, <2>4, <2>6
  <2>8. h[c] = Body(h, c)
    BY <1>1, <2>1, <2>2, <2>5, <2>6
  <2>9. A \cup {c} \in SUBSET Nodes /\ Closed(A \cup {c})
    BY <2>1, <2>2, <2>3
  <2>10. \A x \in A \cup {c} : h[x] = Body(h, x)
    BY <2>7, <2>8
  <2> QED
    BY <2>1, <2>9, <2>10
<1>5. Nodes \in F
  <2>1. F \in SUBSET SUBSET Nodes /\ IsFiniteSet(Nodes)
    BY DEF Acyclic
  <2> HIDE DEF F
  <2> QED
    BY <1>3, <1>4, <2>1, FamilyExhausts
<1>6. PICK f : \A n \in Nodes : f[n] = Body(f, n)
  BY <1>5
<1>7. PICK h : h = [n \in Nodes |-> f[n]]
  OBVIOUS
<1>8. \A n \in Nodes : Body(f, n) = Body(h, n)
  BY <1>1, <1>2, <1>7
<1>9. h = [n \in Nodes |-> Body(h, n)]
  BY <1>6, <1>7, <1>8
<1>10. PICK val : val = CHOOSE g : g = [n \in Nodes |-> Body(g, n)]
  OBVIOUS
<1>11. val = [n \in Nodes |-> Body(val, n)]
  BY <1>9, <1>10
<1>12. \A d \in Defs : Reach(d) = IF Criteria[d] = None THEN {} ELSE val[Criteria[d]]
  BY <1>10 DEF Reach, Body
<1> QED
  BY <1>11, <1>12 DEF Body

LEMMA ReachClosed ==
  ASSUME Acyclic, NEW d \in Defs, Criteria[d] # None
  PROVE  /\ Criteria[d] \in Reach(d) /\ Reach(d) \subseteq Nodes
         /\ \A n \in Reach(d) : Below(n) \subseteq Reach(d)
<1>1. PICK reach : /\ \A n \in Nodes : reach[n] = {n} \cup UNION {reach[m] : m \in Below(n)}
                   /\ Reach(d) = reach[Criteria[d]]
  BY ReachDef
<1> DEFINE Closed(r) == reach[r] \subseteq Nodes /\ \A n \in reach[r] : Below(n) \subseteq reach[r]
           T == {r \in Nodes : Closed(r)}
<1>2. ASSUME NEW r \in Nodes, Below(r) \subseteq T
      PROVE  r \in T
  <2>1. \A m \in Below(r) : Closed(m) /\ m \in Nodes /\ m \in reach[m]
    BY <1>1, <1>2
  <2>2. \A m \in Below(r) : reach[m] \subseteq reach[r]
    BY <1>1
  <2>3. \A n \in reach[r] : n = r \/ \E m \in Below(r) : n \in reach[m]
    BY <1>1
  <2>4. Below(r) \subseteq reach[r]
    BY <2>1, <2>2
  <2>5. ASSUME NEW n \in reach[r], n # r
        PROVE  n \in Nodes /\ Below(n) \subseteq reach[r]
    <3>1. PICK m \in Below(r) : n \in reach[m]
      BY <2>3, <2>5
    <3> QED
      BY <2>1, <2>2, <3>1
  <2> QED
    BY <2>4, <2>5
<1>3. T = Nodes
  <2>1. T \in SUBSET Nodes
    OBVIOUS
  <2> HIDE DEF T
  <2> QED
    BY <1>2, <2>1, NodeInduction
<1>4. Criteria[d] \in Nodes
  BY DocumentAssumption
<1> QED
  BY <1>1, <1>3, <1>4

\* What a node means, from what the nodes below it mean.
Means(val, n, rho) ==
  LET v == IF NodeType[n] = "criteria"
           THEN Says(operator[n], [k \in DOMAIN Subnodes[n] |-> val[Subnodes[n][k]]])
           ELSE IF NodeType[n] = "extend" /\ Criteria[Target[n]] # None
           THEN val[Criteria[Target[n]]] ELSE rho[Target[n]]
  IN  IF Negate[n] THEN Opposite(v) ELSE v

LEMMA MeaningDef ==
  ASSUME Acyclic, NEW rho
  PROVE  \E val : /\ \A n \in Nodes : val[n] = Means(val, n, rho)
                  /\ \A d \in Defs : Meaning(d, rho) = val[Criteria[d]]
<1> DEFINE Body(f, n) == Means(f, n, rho)
           Closed(A) == \A n \in A : Below(n) \subseteq A
           F == {A \in SUBSET Nodes : Closed(A) /\ \E f : \A n \in A : f[n] = Body(f, n)}
<1>1. ASSUME NEW f, NEW h, NEW n \in Nodes, \A m \in Below(n) : f[m] = h[m]
      PROVE  Body(f, n) = Body(h, n)
  <2>1. ASSUME NodeType[n] = "criteria"
        PROVE  [k \in DOMAIN Subnodes[n] |-> f[Subnodes[n][k]]] = [k \in DOMAIN Subnodes[n] |-> h[Subnodes[n][k]]]
    <3>1. \A k \in DOMAIN Subnodes[n] : Subnodes[n][k] \in Below(n)
      BY <2>1 DEF Below
    <3> QED
      BY <1>1, <3>1
  <2>2. ASSUME NodeType[n] = "extend", Criteria[Target[n]] # None
        PROVE  f[Criteria[Target[n]]] = h[Criteria[Target[n]]]
    BY <1>1, <2>2 DEF Below
  <2>3. CASE NodeType[n] = "criteria"
    BY <2>1, <2>3 DEF Means
  <2>4. CASE NodeType[n] = "extend" /\ Criteria[Target[n]] # None
    BY <2>2, <2>4 DEF Means
  <2>5. CASE NodeType[n] # "criteria" /\ ~(NodeType[n] = "extend" /\ Criteria[Target[n]] # None)
    BY <2>5 DEF Means
  <2> QED
    BY <2>3, <2>4, <2>5
<1>2. \A n \in Nodes : Below(n) \subseteq Nodes
  BY BelowAreNodes
<1> HIDE DEF Body
<1>3. {} \in F
  OBVIOUS
<1>4. ASSUME NEW A \in F, A # Nodes
      PROVE  \E c \in Nodes \ A : A \cup {c} \in F
  <2>1. PICK c \in Nodes \ A : Below(c) \cap (Nodes \ A) = {}
    BY <1>4 DEF Acyclic
  <2>2. Below(c) \subseteq A
    BY <1>2, <2>1
  <2>3. Closed(A) /\ A \in SUBSET Nodes
    OBVIOUS
  <2>4. PICK f : \A x \in A : f[x] = Body(f, x)
    OBVIOUS
  <2>5. PICK h : h = [x \in Nodes |-> IF x = c THEN Body(f, c) ELSE f[x]]
    OBVIOUS
  <2>6. \A x \in A : h[x] = f[x]
    BY <2>1, <2>3, <2>5
  <2>7. \A x \in A : h[x] = Body(h, x)
    BY <1>1, <2>3, <2>4, <2>6
  <2>8. h[c] = Body(h, c)
    BY <1>1, <2>1, <2>2, <2>5, <2>6
  <2>9. A \cup {c} \in SUBSET Nodes /\ Closed(A \cup {c})
    BY <2>1, <2>2, <2>3
  <2>10. \A x \in A \cup {c} : h[x] = Body(h, x)
    BY <2>7, <2>8
  <2> QED
    BY <2>1, <2>9, <2>10
<1>5. Nodes \in F
  <2>1. F \in SUBSET SUBSET Nodes /\ IsFiniteSet(Nodes)
    BY DEF Acyclic
  <2> HIDE DEF F
  <2> QED
    BY <1>3, <1>4, <2>1, FamilyExhausts
<1>6. PICK f : \A n \in Nodes : f[n] = Body(f, n)
  BY <1>5
<1>7. PICK h : h = [n \in Nodes |-> f[n]]
  OBVIOUS
<1>8. \A n \in Nodes : Body(f, n) = Body(h, n)
  BY <1>1, <1>2, <1>7
<1>9. h = [n \in Nodes |-> Body(h, n)]
  BY <1>6, <1>7, <1>8
<1>10. PICK val : val = CHOOSE g : g = [n \in Nodes |-> Body(g, n)]
  OBVIOUS
<1>11. val = [n \in Nodes |-> Body(val, n)]
  BY <1>9, <1>10
<1>12. \A d \in Defs : Meaning(d, rho) = val[Criteria[d]]
  BY <1>10 DEF Meaning, Body, Means
<1> QED
  BY <1>11, <1>12 DEF Body


LEMMA ZeroSum ==
  \A a, b, c, d, e \in Nat : a + b + c + d + e = 0 => a = 0 /\ b = 0 /\ c = 0 /\ d = 0 /\ e = 0
  OBVIOUS

\* Operands with a verdict keep it, and the others turn out somehow: an operator that
\* decides on the results decides the same on what they turn out to be.
Verdicts == {"true", "false", "notappl"}

LEMMA OperatorStands ==
  ASSUME NEW f, IsFiniteSet(DOMAIN f), NEW g, DOMAIN g = DOMAIN f, NEW op,
         \A k \in DOMAIN f : /\ f[k] \in Results /\ g[k] \in Verdicts
                             /\ f[k] \in Verdicts => g[k] = f[k],
         NEW v \in Verdicts, v = ByOperator(f, op)
  PROVE  Says(op, g) = v
<1> DEFINE c == Tally(f, 1)
           At(h, r) == {k \in DOMAIN h : h[k] = r}
           t == Cardinality(At(g, "true"))
           e == Cardinality(At(g, "false"))
<1>1. c \in Tallies /\ v = ores_get_result_byopr(c, op)
  BY TallyIsTally, ByOperatorIs
<1>2. ASSUME NEW r \in Results
      PROVE  /\ IsFiniteSet(At(f, r)) /\ IsFiniteSet(At(g, r))
             /\ Cardinality(At(f, r)) \in Nat /\ Cardinality(At(g, r)) \in Nat
             /\ c[r] = Cardinality(At(f, r)) /\ (c[r] = 0 <=> At(f, r) = {})
  <2>1. IsFiniteSet(At(f, r)) /\ IsFiniteSet(At(g, r))
    BY FS_Subset
  <2>2. /\ Cardinality(At(f, r)) \in Nat /\ Cardinality(At(g, r)) \in Nat
        /\ (Cardinality(At(f, r)) = 0 <=> At(f, r) = {})
    BY <2>1, FS_CardinalityType, FS_EmptySet
  <2>3. c[r] = 1 * Cardinality(At(f, r))
    BY DEF Tally
  <2> QED
    BY <2>1, <2>2, <2>3
<1>3. {"true", "false", "notappl", "error", "unknown", "noteval"} \subseteq Results
  BY DEF Results
<1>4. /\ c["true"] \in Nat /\ c["false"] \in Nat /\ c["error"] \in Nat /\ c["unknown"] \in Nat
      /\ c["noteval"] \in Nat /\ c["notappl"] \in Nat /\ t \in Nat /\ e \in Nat
  BY <1>1, <1>2, <1>3 DEF Tallies
<1>5. t >= c["true"] /\ e >= c["false"]
  <2>1. At(f, "true") \subseteq At(g, "true") /\ At(f, "false") \subseteq At(g, "false")
    BY DEF Verdicts
  <2>2. /\ Cardinality(At(f, "true")) <= Cardinality(At(g, "true"))
        /\ Cardinality(At(f, "false")) <= Cardinality(At(g, "false"))
    BY <1>2, <1>3, <2>1, FS_Subset
  <2> QED
    BY <1>2, <1>3, <1>4, <2>2
<1>6. ASSUME Determined(c)
      PROVE  t = c["true"] /\ e = c["false"]
  <2>1. At(f, "error") = {} /\ At(f, "unknown") = {} /\ At(f, "noteval") = {}
    BY <1>2, <1>3, <1>6 DEF Determined, Open
  <2>2. \A k \in DOMAIN f : f[k] \in Verdicts
    BY <2>1 DEF Results, Verdicts
  <2>3. At(g, "true") = At(f, "true") /\ At(g, "false") = At(f, "false")
    BY <2>2
  <2> QED
    BY <1>2, <1>3, <2>3
<1>7. Says(op, g) = IF t + e = 0 THEN "notappl" ELSE IF Truth(op, t, e) THEN "true" ELSE "false"
  BY DEF Says
<1> HIDE DEF c, t, e, At
<1>8. OpenResult(c) \notin Verdicts
  BY DEF OpenResult, Verdicts
<1>9. CASE Operands(c) = 0
  <2>1. v = "notappl"
    BY <1>1, <1>9 DEF ores_get_result_byopr, NoOperand, Verdicts
  <2>2. /\ c["true"] = 0 /\ c["false"] = 0
        /\ c["error"] = 0 /\ c["unknown"] = 0 /\ c["noteval"] = 0
    <3>1. c["true"] + c["false"] + c["error"] + c["unknown"] + c["noteval"] = 0
      BY ONLY <1>9 DEF Operands
    <3>2. PICK i1, i2, i3, i4, i5 \in Nat :
             c["true"] = i1 /\ c["false"] = i2 /\ c["error"] = i3 /\ c["unknown"] = i4 /\ c["noteval"] = i5
      BY ONLY <1>4
    <3>3. i1 + i2 + i3 + i4 + i5 = 0
      BY ONLY <3>1, <3>2
    <3> QED
      BY ONLY <3>2, <3>3, ZeroSum
  <2>3. Determined(c)
    BY ONLY <2>2 DEF Determined, Open
  <2> QED
    BY <1>6, <1>7, <2>1, <2>2, <2>3
<1>10. CASE Operands(c) # 0
  <2>1. Determined(c) => c["true"] + c["false"] # 0
    BY <1>4, <1>10 DEF Operands, Determined, Open
  <2>2. CASE op = "AND"
    BY <1>1, <1>4, <1>5, <1>6, <1>7, <1>8, <1>10, <2>1, <2>2 DEF ores_get_result_byopr, Truth
  <2>3. CASE op = "ONE"
    BY <1>1, <1>4, <1>5, <1>6, <1>7, <1>8, <1>10, <2>1, <2>3 DEF ores_get_result_byopr, Truth
  <2>4. CASE op = "OR"
    BY <1>1, <1>4, <1>5, <1>6, <1>7, <1>8, <1>10, <2>1, <2>4 DEF ores_get_result_byopr, Truth
  <2>5. CASE op = "XOR"
    BY <1>1, <1>4, <1>5, <1>6, <1>7, <1>8, <1>10, <2>1, <2>5 DEF ores_get_result_byopr, Truth
  <2>6. CASE op \notin {"AND", "ONE", "OR", "XOR"}
    BY <1>1, <1>10, <2>6 DEF ores_get_result_byopr, Verdicts
  <2> QED
    BY <2>2, <2>3, <2>4, <2>5, <2>6
<1> QED
  BY <1>9, <1>10

\* Negation does to a verdict what it means, and makes no verdict of anything else.
LEMMA NegationStands ==
  ASSUME NEW n, NEW r, NEW w \in Verdicts, r # Failed, r \in Verdicts => w = r
  PROVE  LET q == oval_result_criteria_node_negate(n, r)
             u == IF Negate[n] THEN Opposite(w) ELSE w
         IN  u \in Verdicts /\ q # Failed /\ (q \in Verdicts => u = q)
  BY DEF oval_result_criteria_node_negate, Opposite, Verdicts, Failed

LEMMA VerdictsMean ==
  ASSUME Acyclic, EvalInv, DefinitionInv, NEW d \in Defs, dres[d] \in {"true", "false"},
         \A t \in LeafTests(d) : tres[t] # Failed, NEW rho \in Settlements(d)
  PROVE  Meaning(d, rho) = dres[d]
<1>1. Criteria[d] # None /\ dres[d] = nres[Criteria[d]]
  BY DEF DefinitionInv
<1>2. PICK val : /\ \A n \in Nodes : val[n] = Means(val, n, rho)
                 /\ Meaning(d, rho) = val[Criteria[d]]
  BY MeaningDef
<1>3. /\ Criteria[d] \in Reach(d) /\ Reach(d) \subseteq Nodes
      /\ \A n \in Reach(d) : Below(n) \subseteq Reach(d)
  BY <1>1, ReachClosed
<1> DEFINE Right(n) == /\ nres[n] # Failed /\ val[n] \in Verdicts
                       /\ nres[n] \in Verdicts => val[n] = nres[n]
           T == {n \in Nodes : n \in Reach(d) => Right(n)}
<1>4. ASSUME NEW n \in Nodes, Below(n) \subseteq T
      PROVE  n \in T
  <2> SUFFICES ASSUME n \in Reach(d)
               PROVE  Right(n)
    OBVIOUS
  <2>1. \A m \in Below(n) : Right(m) /\ m \in Nodes
    BY <1>3, <1>4
  <2>2. nres \in [Nodes -> Results \cup {Failed}] /\ ReportConsistent
    BY DEF EvalInv, EvalTypeOK
  <2>3. PICK r : r = IF NodeType[n] = "criteria"
                     THEN ByOperator([k \in DOMAIN Subnodes[n] |-> nres[Subnodes[n][k]]], operator[n])
                     ELSE IF NodeType[n] = "criterion" THEN tres[Target[n]] ELSE dres[Target[n]]
    OBVIOUS
  <2>4. nres[n] = "noteval" \/ nres[n] = oval_result_criteria_node_negate(n, r)
    BY <2>2, <2>3 DEF ReportConsistent
  <2>5. PICK w : w = IF NodeType[n] = "criteria"
                     THEN Says(operator[n], [k \in DOMAIN Subnodes[n] |-> val[Subnodes[n][k]]])
                     ELSE IF NodeType[n] = "extend" /\ Criteria[Target[n]] # None
                     THEN val[Criteria[Target[n]]] ELSE rho[Target[n]]
    OBVIOUS
  <2>6. val[n] = IF Negate[n] THEN Opposite(w) ELSE w
    BY <1>2, <2>5 DEF Means
  <2>7. NodeType[n] \in {"criteria", "criterion", "extend"}
    BY DocumentAssumption
  <2>8. /\ DOMAIN rho = LeafTests(d) \cup LeafDefs(d)
        /\ \A x \in DOMAIN rho : rho[x] \in Verdicts
        /\ \A t \in LeafTests(d) : tres[t] \in Verdicts => rho[t] = tres[t]
    BY DEF Settlements, Verdicts
  <2>9. CASE NodeType[n] = "criteria"
    <3> DEFINE f == [k \in DOMAIN Subnodes[n] |-> nres[Subnodes[n][k]]]
               g == [k \in DOMAIN Subnodes[n] |-> val[Subnodes[n][k]]]
    <3>1. Subnodes[n] \in Seq(Nodes)
      BY DocumentAssumption
    <3>2. DOMAIN f = DOMAIN Subnodes[n] /\ DOMAIN g = DOMAIN f /\ IsFiniteSet(DOMAIN f)
      <4>1. DOMAIN Subnodes[n] = 1 .. Len(Subnodes[n]) /\ Len(Subnodes[n]) \in Nat
        BY <3>1
      <4>2. IsFiniteSet(DOMAIN Subnodes[n])
        BY ONLY <4>1, FS_Interval
      <4> QED
        BY <4>2
    <3>3. ASSUME NEW k \in DOMAIN f
          PROVE  /\ f[k] \in Results /\ g[k] \in Verdicts
                 /\ f[k] \in Verdicts => g[k] = f[k]
      <4>1. Subnodes[n][k] \in Below(n)
        BY <2>9 DEF Below
      <4>2. Right(Subnodes[n][k]) /\ Subnodes[n][k] \in Nodes
        BY <2>1, <4>1
      <4> QED
        BY <2>2, <4>2
    <3>4. r = ByOperator(f, operator[n]) /\ w = Says(operator[n], g)
      BY <2>3, <2>5, <2>9
    <3> HIDE DEF f, g
    <3>5. w \in Verdicts
      BY <3>4 DEF Says, Verdicts
    <3>6. r \in Verdicts => w = r
      BY <3>2, <3>3, <3>4, OperatorStands
    <3>7. r # Failed
      <4>1. r = ores_get_result_byopr(Tally(f, 1), operator[n])
        BY <3>2, <3>4, ByOperatorIs
      <4> QED
        BY <4>1 DEF ores_get_result_byopr, NoOperand, OpenResult, Failed
    <3> HIDE DEF T
    <3> QED
      BY <2>4, <2>6, <3>5, <3>6, <3>7, NegationStands DEF Verdicts, Failed
  <2>10. CASE NodeType[n] = "criterion"
    <3>1. Target[n] \in LeafTests(d)
      BY <2>10 DEF LeafTests
    <3>2. r = tres[Target[n]] /\ w = rho[Target[n]]
      BY <2>3, <2>5, <2>10
    <3>3. r # Failed /\ w \in Verdicts /\ (r \in Verdicts => w = r)
      BY <2>8, <3>1, <3>2
    <3> QED
      BY <2>4, <2>6, <3>3, NegationStands DEF Verdicts, Failed
  <2>11. CASE NodeType[n] = "extend"
    <3>1. Target[n] \in Defs
      BY <2>11, DocumentAssumption
    <3>2. r = dres[Target[n]]
      BY <2>3, <2>11
    <3>3. CASE Criteria[Target[n]] = None
      <4>1. Target[n] \in LeafDefs(d) /\ w = rho[Target[n]]
        BY <2>5, <2>11, <3>1, <3>3 DEF LeafDefs
      <4>2. r = "noteval"
        BY <3>1, <3>2, <3>3 DEF DefinitionInv
      <4>3. r # Failed /\ w \in Verdicts /\ (r \in Verdicts => w = r)
        BY <2>8, <4>1, <4>2 DEF Verdicts, Failed
      <4> QED
        BY <2>4, <2>6, <4>3, NegationStands DEF Verdicts, Failed
    <3>4. CASE Criteria[Target[n]] # None
      <4>1. Criteria[Target[n]] \in Below(n) /\ w = val[Criteria[Target[n]]]
        BY <2>5, <2>11, <3>4 DEF Below
      <4>2. Right(Criteria[Target[n]])
        BY <2>1, <4>1
      <4>3. r = "noteval" \/ r = nres[Criteria[Target[n]]]
        BY <3>1, <3>2 DEF DefinitionInv
      <4>4. r # Failed /\ w \in Verdicts /\ (r \in Verdicts => w = r)
        BY <4>1, <4>2, <4>3 DEF Verdicts, Failed
      <4> QED
        BY <2>4, <2>6, <4>4, NegationStands DEF Verdicts, Failed
    <3> QED
      BY <3>3, <3>4
  <2> QED
    BY <2>7, <2>9, <2>10, <2>11
<1>5. T = Nodes
  <2>1. T \in SUBSET Nodes
    OBVIOUS
  <2> HIDE DEF T
  <2> QED
    BY <1>4, <2>1, NodeInduction
<1>6. Right(Criteria[d])
  BY <1>3, <1>5
<1> QED
  BY <1>1, <1>2, <1>6 DEF Verdicts

\* In a document in which no definition extends itself, a definition whose queries have
\* not failed is true or false only if it would be so whatever its open tests had shown
\* (oval_result_definition_eval and all it calls).
THEOREM DefinitionsAreSound == Acyclic => (Spec => []DefinitionSound)
<1>1. ASSUME Acyclic
      PROVE  EvalInv /\ DefinitionInv => DefinitionSound
  BY <1>1, VerdictsMean DEF DefinitionSound, VerdictSound
<1>2. ASSUME Acyclic
      PROVE  Spec => []DefinitionSound
  <2>1. EvalInv /\ DefinitionInv => DefinitionSound
    BY <1>1, <1>2
  <2> QED
    BY <2>1, EvaluationInvariance, DefinitionResults, PTL
<1> QED
  BY <1>2

=================================================================================
