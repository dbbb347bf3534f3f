--------------------------- MODULE RecursionLemmas ---------------------------
(***************************************************************************)
(* Induction and recursion stated about sets and functions, for the proofs *)
(* about recursive definitions: least counterexamples, functions defined   *)
(* along a list, and exhausting a finite set from the leaves up.           *)
(***************************************************************************)
EXTENDS Integers, FiniteSetTheorems, WellFoundedInduction, TLAPS

\* A set of naturals has a least element: the least counterexample of an
\* induction.
LEMMA LeastNatural ==
  ASSUME NEW T \in SUBSET Nat, T # {}
  PROVE  \E n \in T : \A m \in T : n <= m
<1>1. PICK R : R = OpToRel(<, Nat)
  OBVIOUS
<1>2. IsWellFoundedOn(R, Nat)
  BY <1>1, NatLessThanWellFounded
<1>3. PICK n \in T : \A m \in T : <<m, n>> \notin R
  BY <1>2, WFMin
<1>4. \A m \in T : ~(m < n)
  BY <1>1, <1>3 DEF OpToRel
<1> QED
  BY <1>4

\* A set of places in a list has a last one.
LEMMA GreatestPlace ==
  ASSUME NEW n \in Nat, NEW T \in SUBSET (1 .. n), T # {}
  PROVE  \E x \in T : \A y \in T : y <= x
<1>1. PICK U : U = {k \in Nat : n - k \in T}
  OBVIOUS
<1>2. \A x \in T : n - x \in U /\ n - x \in Nat /\ n - (n - x) = x
  BY <1>1
<1>3. U \in SUBSET Nat /\ U # {}
  BY <1>1, <1>2
<1>4. PICK k \in U : \A j \in U : k <= j
  BY <1>3, LeastNatural
<1>5. n - k \in T /\ k \in Nat
  BY <1>1
<1>6. \A y \in T : y <= n - k
  <2> TAKE y \in T
  <2>1. k <= n - y
    BY <1>2, <1>4
  <2> QED
    BY <1>5, <2>1
<1> QED
  BY <1>5, <1>6

\* Functions defined by recursion over the places of a list.
Recurs(f, s0, N, G) == f[0] = s0 /\ \A n \in 1 .. N : f[n] = G[n][f[n - 1]]

LEMMA NatRecursion ==
  ASSUME NEW S, NEW s0 \in S, NEW N \in Nat, NEW G \in [1 .. N -> [S -> S]]
  PROVE  \E f \in [0 .. N -> S] : Recurs(f, s0, N, G)
<1> DEFINE Upto(k) == \E f \in [0 .. k -> S] : f[0] = s0 /\ \A n \in 1 .. k : f[n] = G[n][f[n - 1]]
<1>1. Upto(0)
  <2>1. PICK f : f = [k \in 0 .. 0 |-> s0]
    OBVIOUS
  <2>2. f \in [0 .. 0 -> S] /\ f[0] = s0 /\ \A n \in 1 .. 0 : f[n] = G[n][f[n - 1]]
    BY <2>1
  <2> QED
    BY <2>2
<1>2. ASSUME NEW k \in 0 .. N - 1, Upto(k)
      PROVE  Upto(k + 1)
  <2>1. PICK f \in [0 .. k -> S] : f[0] = s0 /\ \A n \in 1 .. k : f[n] = G[n][f[n - 1]]
    BY <1>2
  <2>2. PICK v : v = G[k + 1][f[k]]
    OBVIOUS
  <2>3. v \in S
    <3>1. f[k] \in S /\ k + 1 \in 1 .. N
      BY <2>1
    <3> QED
      BY <2>2, <3>1
  <2>4. PICK h : h = [n \in 0 .. k + 1 |-> IF n = k + 1 THEN v ELSE f[n]]
    OBVIOUS
  <2>5. \A n \in 0 .. k + 1 : n \in 0 .. k \/ n = k + 1
    OBVIOUS
  <2>6. h \in [0 .. k + 1 -> S] /\ h[0] = s0
    BY <2>1, <2>3, <2>4, <2>5
  <2>7. ASSUME NEW n \in 1 .. k + 1
        PROVE  h[n] = G[n][h[n - 1]]
    <3>1. n - 1 \in 0 .. k /\ h[n - 1] = f[n - 1]
      BY <2>4
    <3>2. CASE n = k + 1
      BY <2>2, <2>4, <3>1, <3>2
    <3>3. CASE n \in 1 .. k
      BY <2>1, <2>4, <3>1, <3>3
    <3> QED
      BY <3>2, <3>3
  <2> QED
    BY <2>6, <2>7
<1> HIDE DEF Upto
<1>3. SUFFICES ASSUME ~Upto(N)
               PROVE  FALSE
  BY DEF Upto, Recurs
<1>4. PICK T : T = {k \in 0 .. N : ~Upto(k)}
  OBVIOUS
<1>5. PICK k \in T : \A m \in T : k <= m
  <2>1. N \in T /\ T \in SUBSET Nat
    BY <1>3, <1>4
  <2> QED
    BY <2>1, LeastNatural
<1>6. k # 0 /\ k - 1 \in 0 .. N - 1 /\ k - 1 \notin T
  BY <1>1, <1>4, <1>5
<1>7. Upto(k - 1) /\ (k - 1) + 1 = k
  BY <1>4, <1>6
<1> QED
  BY <1>2, <1>4, <1>5, <1>6, <1>7

\* A family of sets that can always be extended by an element has the whole set.
LEMMA FamilyExhausts ==
  ASSUME NEW D, IsFiniteSet(D), NEW F \in SUBSET SUBSET D, {} \in F,
         \A A \in F : A # D => \E c \in D \ A : A \cup {c} \in F
  PROVE  D \in F
<1>1. SUFFICES ASSUME D \notin F
               PROVE  FALSE
  OBVIOUS
<1>2. ASSUME NEW B \in SUBSET D
      PROVE  /\ IsFiniteSet(B) /\ Cardinality(B) \in Nat
             /\ \A c \in B : Cardinality(B \ {c}) = Cardinality(B) - 1
  <2>1. IsFiniteSet(B) /\ Cardinality(B) \in Nat
    BY FS_Subset, FS_CardinalityType
  <2> QED
    BY <2>1, FS_RemoveElement
<1>3. PICK left : left = [A \in F |-> Cardinality(D \ A)]
  OBVIOUS
<1>4. left \in [F -> Nat]
  <2>1. \A A \in F : D \ A \in SUBSET D
    OBVIOUS
  <2> QED
    BY <1>2, <1>3, <2>1
<1>5. PICK T : T = {left[A] : A \in F}
  OBVIOUS
<1>6. PICK n \in T : \A m \in T : n <= m
  <2>1. T \in SUBSET Nat /\ T # {}
    BY <1>4, <1>5
  <2> QED
    BY <2>1, LeastNatural
<1>7. PICK A \in F : n = left[A]
  BY <1>5, <1>6
<1>8. PICK c \in D \ A : A \cup {c} \in F
  BY <1>1, <1>7
<1>9. PICK B : B = D \ A
  OBVIOUS
<1>10. B \in SUBSET D /\ c \in B /\ D \ (A \cup {c}) = B \ {c}
  BY <1>8, <1>9
<1>11. left[A \cup {c}] = Cardinality(B \ {c}) /\ left[A] = Cardinality(B)
  BY <1>3, <1>7, <1>8, <1>9, <1>10
<1>12. Cardinality(B \ {c}) = Cardinality(B) - 1 /\ Cardinality(B) \in Nat
  BY <1>2, <1>10
<1>13. left[A \cup {c}] \in T
  BY <1>5, <1>8
<1> QED
  BY <1>6, <1>7, <1>11, <1>12, <1>13
=============================================================================
