--------------------------- MODULE SetObjectProofs ---------------------------
(***************************************************************************)
(* One probe never evaluates an object twice, collects a simple object for *)
(* every combination of its variables' values exactly once, and gives the  *)
(* items of a set exactly, under a flag that claims nothing false: for any *)
(* objects, sets over them, variables, items and filters.                  *)
(***************************************************************************)
EXTENDS SetObject, ItemListProofs

-----------------------------------------------------------------------------
(***************************************************************************)
(* The flag table of probe_cobj_combine_flags is sound for every pair of   *)
(* collected objects, whatever their items and whatever the system holds.  *)
(***************************************************************************)
\* The correction to DOES_NOT_EXIST keeps a sound claim sound: it is used by
\* probe_set_combine and probe_set_apply_filters after items were removed.
LEMMA EmptiedSound ==
    ASSUME NEW flag \in Flags, NEW R, NEW T, Describes(flag, R, T)
    PROVE  Describes(Emptied(flag, R = {}), R, T)
<1>1. CASE flag = "COMPLETE" /\ R = {}
  BY <1>1 DEF Describes, Emptied
<1>2. CASE ~(flag = "COMPLETE" /\ R = {})
  BY <1>2 DEF Emptied
<1> QED BY <1>1, <1>2

LEMMA UnionSound ==
    ASSUME NEW f \in Flags, NEW g \in Flags, NEW R1, NEW T1, NEW R2, NEW T2,
           Describes(f, R1, T1), Describes(g, R2, T2)
    PROVE  /\ Union(f, g) \in Flags
           /\ Describes(Union(f, g), R1 \cup R2, T1 \cup T2)
<1>1. CASE f = "ERROR" \/ g = "ERROR"
  BY <1>1 DEF Union, Describes, Flags
<1>2. CASE f = "COMPLETE" /\ g # "ERROR"
  BY <1>2 DEF Union, Describes, Flags
<1>3. CASE f = "INCOMPLETE" /\ g # "ERROR"
  BY <1>3 DEF Union, Describes, Flags
<1>4. CASE f = "DOES_NOT_EXIST" /\ g # "ERROR"
  BY <1>4 DEF Union, Describes, Flags
<1>5. CASE f = "NOT_COLLECTED" /\ g # "ERROR"
  BY <1>5 DEF Union, Describes, Flags
<1>6. CASE f = "NOT_APPLICABLE" /\ g # "ERROR"
  BY <1>6 DEF Union, Describes, Flags
<1> QED BY <1>1, <1>2, <1>3, <1>4, <1>5, <1>6 DEF Flags

LEMMA IntersectionSound ==
    ASSUME NEW f \in Flags, NEW g \in Flags, NEW R1, NEW T1, NEW R2, NEW T2,
           Describes(f, R1, T1), Describes(g, R2, T2)
    PROVE  /\ Intersection(f, g) \in Flags
           /\ Describes(Intersection(f, g), R1 \cap R2, T1 \cap T2)
<1>1. CASE f = "ERROR"
  BY <1>1 DEF Intersection, Describes, Flags
<1>2. CASE f = "COMPLETE"
  BY <1>2 DEF Intersection, Describes, Flags
<1>3. CASE f = "INCOMPLETE"
  BY <1>3 DEF Intersection, Describes, Flags
<1>4. CASE f = "DOES_NOT_EXIST"
  BY <1>4 DEF Intersection, Describes, Flags
<1>5. CASE f = "NOT_COLLECTED"
  BY <1>5 DEF Intersection, Describes, Flags
<1>6. CASE f = "NOT_APPLICABLE"
  BY <1>6 DEF Intersection, Describes, Flags
<1> QED BY <1>1, <1>2, <1>3, <1>4, <1>5, <1>6 DEF Flags

LEMMA ComplementSound ==
    ASSUME NEW f \in Flags, NEW g \in Flags, NEW R1, NEW T1, NEW R2, NEW T2,
           Describes(f, R1, T1), Describes(g, R2, T2)
    PROVE  /\ Complement(f, g) \in Flags
           /\ Describes(Complement(f, g), R1 \ R2, T1 \ T2)
<1>1. CASE f = "COMPLETE"
  BY <1>1 DEF Complement, Describes, Flags
<1>2. CASE f = "INCOMPLETE"
  BY <1>2 DEF Complement, Describes, Flags
<1>3. CASE f = "DOES_NOT_EXIST"
  BY <1>3 DEF Complement, Describes, Flags
<1>4. CASE f = "NOT_COLLECTED"
  BY <1>4 DEF Complement, Describes, Flags
<1>5. CASE f \in {"ERROR", "NOT_APPLICABLE"}
  BY <1>5 DEF Complement, Describes, Flags
<1> QED BY <1>1, <1>2, <1>3, <1>4, <1>5 DEF Flags

\* What probe_cobj_combine_flags gives is a flag, and claims nothing false.
LEMMA CombineFlagsSound ==
  ASSUME NEW f \in Flags, NEW g \in Flags, NEW op \in Operations,
         NEW R1, NEW T1, NEW R2, NEW T2,
         Describes(f, R1, T1), Describes(g, R2, T2)
  PROVE  Describes(CombineFlags(f, g, op), SetOperation(op, R1, R2), SetOperation(op, T1, T2))
<1>1. CASE op = "UNION"
  BY <1>1, UnionSound DEF CombineFlags, SetOperation
<1>2. CASE op = "INTERSECTION"
  BY <1>2, IntersectionSound DEF CombineFlags, SetOperation
<1>3. CASE op = "COMPLEMENT"
  BY <1>3, ComplementSound DEF CombineFlags, SetOperation
<1> QED
  BY <1>1, <1>2, <1>3 DEF Operations

LEMMA CombineFlagsType ==
  ASSUME NEW f \in Flags, NEW g \in Flags, NEW op \in Operations
  PROVE  CombineFlags(f, g, op) \in Flags
<1>1. Union(f, g) \in Flags
  BY DEF Union, Flags
<1>2. Intersection(f, g) \in Flags
  BY DEF Intersection, Flags
<1>3. Complement(f, g) \in Flags
  BY DEF Complement, Flags
<1> QED
  BY <1>1, <1>2, <1>3 DEF CombineFlags, Operations

\* Whatever two collected objects claim rightly of the system, the flag
\* probe_set_combine computes for their combination claims rightly too.
THEOREM CombineSound ==
    ASSUME NEW f \in Flags, NEW g \in Flags, NEW op \in Operations,
           NEW R1, NEW T1, NEW R2, NEW T2,
           Describes(f, R1, T1), Describes(g, R2, T2)
    PROVE  LET R == SetOperation(op, R1, R2)
           IN  Describes(Emptied(CombineFlags(f, g, op), R = {}), R, SetOperation(op, T1, T2))
<1> DEFINE R == SetOperation(op, R1, R2)
           T == SetOperation(op, T1, T2)
<1>1. CombineFlags(f, g, op) \in Flags /\ Describes(CombineFlags(f, g, op), R, T)
  BY CombineFlagsSound, CombineFlagsType
<1> HIDE DEF R, T
<1>2. Describes(Emptied(CombineFlags(f, g, op), R = {}), R, T)
  BY <1>1, EmptiedSound
<1> QED BY <1>2 DEF R, T

\* Filtering keeps a rightful claim rightful: probe_set_apply_filters removes
\* the same items from what was reported as the filter removes from the system.
THEOREM FilterSound ==
    ASSUME NEW f \in Flags, NEW R, NEW T, NEW Kept, Describes(f, R, T)
    PROVE  Describes(Emptied(f, R \cap Kept = {}), R \cap Kept, T \cap Kept)
<1>1. Describes(f, R \cap Kept, T \cap Kept)
  BY DEF Describes, Flags
<1> QED BY <1>1, EmptiedSound

-----------------------------------------------------------------------------
(***************************************************************************)
(* The iteration over the values of variables.                             *)
(***************************************************************************)
LEMMA CombinationType ==
  ASSUME NEW o \in Objects, Def[o].kind = "simple"
  PROVE  /\ Def[o].values \in Seq(Nat \ {0})
         /\ Len(Def[o].values) \in Nat /\ DOMAIN Def[o].values = 1 .. Len(Def[o].values)
         /\ \A n \in DOMAIN Def[o].values : Def[o].values[n] \in Nat \ {0}
         /\ \A c : c \in Combinations(o) <=>
               /\ c \in [DOMAIN Def[o].values -> Nat]
               /\ \A n \in DOMAIN Def[o].values : c[n] < Def[o].values[n]
<1>1. PICK v : v = Def[o].values
  OBVIOUS
<1>2. /\ v \in Seq(Nat \ {0}) /\ Len(v) \in Nat /\ DOMAIN v = 1 .. Len(v)
      /\ \A n \in DOMAIN v : v[n] \in Nat \ {0}
  BY <1>1, DefAssumption
<1>3. PICK U : U = UNION {0 .. v[n] - 1 : n \in DOMAIN v}
  OBVIOUS
<1>4. Combinations(o) = {c \in [DOMAIN v -> U] : \A n \in DOMAIN v : c[n] < v[n]}
  BY <1>1, <1>3 DEF Combinations
<1>5. U \subseteq Nat
  BY <1>2, <1>3
<1>6. ASSUME NEW c \in [DOMAIN v -> Nat], \A n \in DOMAIN v : c[n] < v[n]
      PROVE  c \in [DOMAIN v -> U]
  <2>1. \A n \in DOMAIN v : c[n] \in 0 .. v[n] - 1
    BY <1>2, <1>6
  <2>2. \A n \in DOMAIN v : c[n] \in U
    BY <1>3, <2>1
  <2> QED
    BY <2>2
<1> QED
  BY <1>1, <1>2, <1>4, <1>5, <1>6

\* Two combinations that differ are in order at the last place they differ.
LEMMA LastDifference ==
  ASSUME NEW n \in Nat, NEW c \in [1 .. n -> Nat], NEW d \in [1 .. n -> Nat], c # d
  PROVE  \E k \in 1 .. n : c[k] # d[k] /\ \A m \in 1 .. n : m > k => c[m] = d[m]
<1>1. PICK T : T = {k \in 1 .. n : c[k] # d[k]}
  OBVIOUS
<1>2. T \in SUBSET (1 .. n) /\ T # {}
  BY <1>1
<1>3. PICK k \in T : \A y \in T : y <= k
  BY <1>2, GreatestPlace
<1> QED
  BY <1>1, <1>3

\* No combination comes before the first, or before itself.
LEMMA FirstCombination ==
  ASSUME NEW o \in Objects, Def[o].kind = "simple"
  PROVE  First(o) \in Combinations(o) /\ CombinationsBefore(o, First(o)) = {}
<1>1. /\ \A n \in DOMAIN Def[o].values : Def[o].values[n] \in Nat \ {0}
      /\ \A c : c \in Combinations(o) <=>
               /\ c \in [DOMAIN Def[o].values -> Nat]
               /\ \A n \in DOMAIN Def[o].values : c[n] < Def[o].values[n]
  BY CombinationType
<1>2. First(o) = [n \in DOMAIN Def[o].values |-> 0]
  BY DEF First
<1>3. First(o) \in Combinations(o)
  BY <1>1, <1>2
<1>4. \A c \in Combinations(o) : \A k \in DOMAIN First(o) : ~(c[k] < First(o)[k])
  BY <1>1, <1>2
<1> QED
  BY <1>3, <1>4 DEF Earlier, CombinationsBefore

\* When the counters are at their end, every other combination was before.
LEMMA LastCombination ==
  ASSUME NEW o \in Objects, Def[o].kind = "simple", NEW idx \in Combinations(o),
         Exhausted(idx, Def[o].values)
  PROVE  Combinations(o) = CombinationsBefore(o, idx) \cup {idx}
<1>1. PICK v, n : v = Def[o].values /\ n = Len(v)
  OBVIOUS
<1>2. /\ n \in Nat /\ DOMAIN v = 1 .. n /\ \A k \in 1 .. n : v[k] \in Nat
      /\ \A c \in Combinations(o) : c \in [1 .. n -> Nat] /\ \A k \in 1 .. n : c[k] < v[k]
  BY <1>1, CombinationType
<1>3. \A k \in 1 .. n : idx[k] + 1 >= v[k]
  BY <1>1, <1>2 DEF Exhausted
<1>4. ASSUME NEW c \in Combinations(o), c # idx
      PROVE  Earlier(c, idx)
  <2>1. PICK k \in 1 .. n : c[k] # idx[k] /\ \A m \in 1 .. n : m > k => c[m] = idx[m]
    BY <1>2, <1>4, LastDifference
  <2>2. c[k] < idx[k]
    <3>1. c[k] \in Nat /\ idx[k] \in Nat /\ v[k] \in Nat /\ c[k] < v[k] /\ idx[k] + 1 >= v[k]
      BY <1>2, <1>3
    <3> QED
      BY <2>1, <3>1
  <2> QED
    BY <1>2, <2>1, <2>2 DEF Earlier
<1> QED
  BY <1>4 DEF CombinationsBefore

\* Otherwise the next combination comes after this one and those before it.
LEMMA NextCombination ==
  ASSUME NEW o \in Objects, Def[o].kind = "simple", NEW idx \in Combinations(o),
         ~Exhausted(idx, Def[o].values)
  PROVE  /\ Advance(idx, Def[o].values) \in Combinations(o)
         /\ CombinationsBefore(o, Advance(idx, Def[o].values))
              = CombinationsBefore(o, idx) \cup {idx}
<1>1. PICK v, n : v = Def[o].values /\ n = Len(v)
  OBVIOUS
<1>2. /\ n \in Nat /\ DOMAIN v = 1 .. n /\ \A k \in 1 .. n : v[k] \in Nat
      /\ \A c \in Combinations(o) : c \in [1 .. n -> Nat] /\ \A k \in 1 .. n : c[k] < v[k]
      /\ \A c \in [1 .. n -> Nat] : (\A k \in 1 .. n : c[k] < v[k]) => c \in Combinations(o)
      /\ \A k \in 1 .. n : v[k] > 0
  <2>1. /\ n \in Nat /\ DOMAIN v = 1 .. n /\ \A k \in 1 .. n : v[k] \in Nat \ {0}
        /\ \A c : c \in Combinations(o) <=> /\ c \in [1 .. n -> Nat]
                                           /\ \A k \in 1 .. n : c[k] < v[k]
    BY <1>1, CombinationType
  <2> QED
    BY <2>1
<1>3. DOMAIN idx = 1 .. n /\ idx \in [1 .. n -> Nat]
  BY <1>2
<1>4. \E k \in 1 .. n : idx[k] + 1 < v[k] /\ \A m \in 1 .. k - 1 : idx[m] + 1 >= v[m]
  <2>1. PICK T : T = {k \in 1 .. n : idx[k] + 1 < v[k]}
    OBVIOUS
  <2>2. T \in SUBSET Nat /\ T # {}
    BY <1>1, <1>2, <1>3, <2>1 DEF Exhausted
  <2>3. PICK k \in T : \A j \in T : k <= j
    BY <2>2, LeastNatural
  <2>4. ASSUME NEW m \in 1 .. k - 1
        PROVE  idx[m] + 1 >= v[m]
    <3>1. m \in 1 .. n /\ m \notin T
      BY <1>2, <2>1, <2>3
    <3> QED
      BY <1>2, <1>3, <2>1, <3>1
  <2> QED
    BY <2>1, <2>4
<1>5. PICK first : first = CHOOSE i \in DOMAIN idx : /\ idx[i] + 1 < v[i]
                                                      /\ \A m \in 1 .. i - 1 : idx[m] + 1 >= v[m]
  OBVIOUS
<1>51. PICK k \in 1 .. n : k = first /\ idx[k] + 1 < v[k] /\ \A m \in 1 .. k - 1 : idx[m] + 1 >= v[m]
  BY <1>3, <1>4, <1>5
<1>6. PICK d : d = [i \in 1 .. n |-> IF i < k THEN 0 ELSE IF i = k THEN idx[i] + 1 ELSE idx[i]]
  OBVIOUS
<1>7. Advance(idx, Def[o].values) = d
  BY <1>1, <1>3, <1>5, <1>51, <1>6 DEF Advance
<1>8. /\ d \in [1 .. n -> Nat] /\ d[k] = idx[k] + 1
      /\ \A i \in 1 .. n : (i < k => d[i] = 0) /\ (i > k => d[i] = idx[i])
  BY <1>2, <1>3, <1>51, <1>6
<1>9. d \in Combinations(o)
  <2>1. ASSUME NEW i \in 1 .. n
        PROVE  d[i] < v[i]
    <3>1. v[i] \in Nat /\ v[i] > 0 /\ idx[i] < v[i]
      BY <1>2
    <3>2. CASE i < k
      BY <1>8, <3>1, <3>2
    <3>3. CASE i = k
      BY <1>51, <1>8, <3>3
    <3>4. CASE i > k
      BY <1>8, <3>1, <3>4
    <3> QED
      BY <3>2, <3>3, <3>4
  <2> QED
    BY <1>2, <1>8, <2>1
<1>10. Earlier(idx, d)
  BY <1>3, <1>51, <1>8 DEF Earlier
<1>11. ASSUME NEW c \in Combinations(o), Earlier(c, idx)
       PROVE  Earlier(c, d)
  <2>1. PICK j \in 1 .. n : c[j] < idx[j] /\ \A m \in 1 .. n : m > j => c[m] = idx[m]
    BY <1>3, <1>11 DEF Earlier
  <2>2. CASE j > k
    BY <1>3, <1>8, <2>1, <2>2 DEF Earlier
  <2>3. CASE j <= k
    <3>1. c[k] <= idx[k] /\ c[k] \in Nat /\ idx[k] \in Nat
      <4>1. c[k] \in Nat /\ idx[k] \in Nat
        BY <1>2, <1>3, <1>51
      <4>2. CASE j = k
        BY <2>1, <4>1, <4>2
      <4>3. CASE j < k
        BY <1>51, <2>1, <4>1, <4>3
      <4> QED
        BY <1>51, <2>1, <2>3, <4>1, <4>2, <4>3
    <3>2. c[k] < d[k]
      BY <1>8, <3>1
    <3>3. \A m \in 1 .. n : m > k => c[m] = d[m]
      BY <1>8, <2>1, <2>3
    <3> QED
      BY <1>8, <3>2, <3>3 DEF Earlier
  <2> QED
    BY <2>2, <2>3
<1>12. ASSUME NEW c \in Combinations(o), Earlier(c, d), c # idx
       PROVE  Earlier(c, idx)
  <2>1. PICK j \in 1 .. n : c[j] < d[j] /\ \A m \in 1 .. n : m > j => c[m] = d[m]
    BY <1>8, <1>12 DEF Earlier
  <2>2. c \in [1 .. n -> Nat] /\ \A i \in 1 .. n : c[i] < v[i]
    BY <1>2
  <2>3. j >= k
    BY <1>8, <2>1, <2>2
  <2>4. CASE j > k
    BY <1>3, <1>8, <2>1, <2>4 DEF Earlier
  <2>5. CASE j = k
    <3>1. PICK i \in 1 .. n : c[i] # idx[i] /\ \A m \in 1 .. n : m > i => c[m] = idx[m]
      BY <1>2, <1>3, <1>12, <2>2, LastDifference
    <3>2. i <= k
      BY <1>8, <2>1, <2>5, <3>1
    <3>3. c[i] < idx[i]
      <4>1. CASE i = k
        BY <1>3, <1>8, <2>1, <2>2, <2>5, <3>1, <4>1
      <4>2. CASE i < k
        <5>1. i \in 1 .. k - 1 /\ c[i] < v[i] /\ idx[i] + 1 >= v[i]
          BY <1>51, <2>2, <4>2
        <5>2. c[i] \in Nat /\ idx[i] \in Nat /\ v[i] \in Nat
          BY <1>2, <1>3, <2>2
        <5> QED
          BY <3>1, <5>1, <5>2
      <4> QED
        BY <3>2, <4>1, <4>2
    <3> QED
      BY <1>3, <3>1, <3>3 DEF Earlier
  <2> QED
    BY <2>3, <2>4, <2>5
<1> QED
  BY <1>7, <1>9, <1>10, <1>11, <1>12 DEF CombinationsBefore

-----------------------------------------------------------------------------
(***************************************************************************)
(* Sequences.                                                              *)
(***************************************************************************)
LEMMA SequenceOfItsElements ==
  ASSUME NEW S, NEW s \in Seq(S)
  PROVE  s \in Seq(ToSet(s))
<1>1. \A i \in 1 .. Len(s) : s[i] \in ToSet(s)
  BY DEF ToSet
<1> QED
  BY <1>1

LEMMA FrontOfSeq ==
  ASSUME NEW S, NEW s \in Seq(S), s # <<>>
  PROVE  /\ Front(s) \in Seq(S) /\ Len(Front(s)) = Len(s) - 1
         /\ \A k \in 1 .. Len(s) - 1 : Front(s)[k] = s[k]
         /\ Front(s) = <<>> <=> Len(s) = 1
<1>1. PICK n : n = Len(s) - 1
  OBVIOUS
<1>2. n \in Nat /\ 1 \in Int /\ n \in Int /\ Len(s) = n + 1 /\ \A i \in 1 .. n : s[i] \in S
  BY <1>1
<1>3. Front(s) = SubSeq(s, 1, n)
  BY <1>1 DEF Front
<1>4. /\ Front(s) \in Seq(S)
      /\ Len(Front(s)) = IF 1 <= n THEN n - 1 + 1 ELSE 0
      /\ \A i \in 1 .. n - 1 + 1 : Front(s)[i] = s[1 + i - 1]
  <2>1. /\ SubSeq(s, 1, n) \in Seq(S)
        /\ Len(SubSeq(s, 1, n)) = IF 1 <= n THEN n - 1 + 1 ELSE 0
        /\ \A i \in 1 .. n - 1 + 1 : SubSeq(s, 1, n)[i] = s[1 + i - 1]
    BY <1>2, SubSeqProperties
  <2> QED
    BY <1>3, <2>1
<1>5. Len(Front(s)) = n /\ \A k \in 1 .. n : Front(s)[k] = s[k]
  BY <1>2, <1>4
<1> QED
  BY <1>1, <1>2, <1>4, <1>5

\* A list that gets a new member has no member twice, and one more.
LEMMA AppendNew ==
  ASSUME NEW S, NEW s \in Seq(S), NEW x, IsInjective(s), x \notin ToSet(s)
  PROVE  /\ Append(s, x) \in Seq(ToSet(Append(s, x)))
         /\ IsInjective(Append(s, x)) /\ ToSet(Append(s, x)) = ToSet(s) \cup {x}
<1>1. s \in Seq(S \cup {x}) /\ x \in S \cup {x}
  OBVIOUS
<1>2. /\ Append(s, x) \in Seq(S \cup {x}) /\ Len(Append(s, x)) = Len(s) + 1 /\ Len(s) \in Nat
      /\ DOMAIN Append(s, x) = 1 .. Len(s) + 1 /\ DOMAIN s = 1 .. Len(s)
      /\ Append(s, x)[Len(s) + 1] = x /\ \A i \in 1 .. Len(s) : Append(s, x)[i] = s[i]
  BY <1>1
<1>3. PICK t : t = Append(s, x)
  OBVIOUS
<1>4. \A i \in 1 .. Len(s) : s[i] # x
  BY <1>2 DEF ToSet
<1>5. IsInjective(t)
  BY <1>2, <1>3, <1>4 DEF IsInjective
<1>6. ToSet(t) = ToSet(s) \cup {x}
  BY <1>2, <1>3 DEF ToSet
<1> QED
  BY <1>2, <1>3, <1>5, <1>6, SequenceOfItsElements

-----------------------------------------------------------------------------
(***************************************************************************)
(* What a step must respect.                                               *)
(***************************************************************************)
\* The workers of the stack before, or fewer, and perhaps a new one.
LEMMA OwnersKept ==
  ASSUME CollectionInv, NEW S, stack' \in Seq(S), asked \subseteq asked',
         DOMAIN rcache' = Objects, Cached' \subseteq asked',
         \A i \in DOMAIN stack' :
            /\ IsSetFrame(stack'[i]) \/ (i = Len(stack') /\ IsSimpleFrame(stack'[i]))
            /\ \/ i \in DOMAIN stack /\ stack'[i].obj = stack[i].obj /\ stack[i].obj \notin Cached' \ Cached
               \/ stack'[i].obj = "nested"
               \/ i = Len(stack') /\ stack'[i].obj \in asked' \ (asked \cup Cached')
  PROVE  StackInv' /\ OwnerInv'
<1>1. stack' \in Seq(ToSet(stack')) /\ DOMAIN stack' = 1 .. Len(stack') /\ Len(stack') \in Nat
  BY SequenceOfItsElements
<1>2. StackInv'
  <2>1. \A i \in DOMAIN stack' : IF i < Len(stack') THEN IsSetFrame(stack'[i])
                                 ELSE IsSetFrame(stack'[i]) \/ IsSimpleFrame(stack'[i])
    BY <1>1
  <2> QED
    BY <1>1, <2>1 DEF StackInv, ToSet, IsSetFrame, IsSimpleFrame
<1>3. OwnerInv
  BY DEF CollectionInv
<1>4. ASSUME NEW i \in DOMAIN stack', stack'[i].obj # "nested"
      PROVE  stack'[i].obj \in asked' \ Cached'
  BY <1>3, <1>4 DEF OwnerInv
<1>5. ASSUME NEW i \in DOMAIN stack', NEW j \in DOMAIN stack',
             stack'[i].obj = stack'[j].obj, stack'[i].obj # "nested"
      PROVE  i = j
  <2>1. CASE i \in DOMAIN stack /\ stack'[i].obj = stack[i].obj
    <3>1. stack[i].obj \in asked
      BY <1>3, <1>5, <2>1 DEF OwnerInv
    <3>2. j \in DOMAIN stack /\ stack'[j].obj = stack[j].obj
      BY <1>5, <2>1, <3>1
    <3> QED
      BY <1>3, <1>5, <2>1, <3>2 DEF OwnerInv
  <2>2. CASE i = Len(stack') /\ stack'[i].obj \notin asked
    <3>1. CASE j \in DOMAIN stack /\ stack'[j].obj = stack[j].obj
      BY <1>3, <1>5, <2>2, <3>1 DEF OwnerInv
    <3>2. CASE j = Len(stack')
      BY <2>2, <3>2
    <3> QED
      BY <1>5, <3>1, <3>2
  <2> QED
    BY <1>5, <2>1, <2>2
<1> QED
  BY <1>2, <1>4, <1>5 DEF OwnerInv

\* A step that collects nothing.
LEMMA VisitedKept ==
  ASSUME CollectionInv, visited' = visited, asked \subseteq asked',
         \A o \in Cached' : (o \in Cached /\ rcache'[o] = rcache[o]) \/ Def[o].kind # "simple",
         \A i \in DOMAIN stack' : stack'[i].obj \in Objects =>
            /\ stack'[i].kind = Def[stack'[i].obj].kind
            /\ stack'[i].kind = "simple" =>
                  \/ i \in DOMAIN stack /\ stack'[i] = stack[i]
                  \/ stack'[i].obj \notin asked /\ stack'[i].idx = First(stack'[i].obj)
  PROVE  VisitedInv'
<1>1. VisitedInv /\ EveryCombination
  BY DEF CollectionInv, VisitedInv
<1>2. \A o, C : CollectedFor(o, C)' <=> CollectedFor(o, C)
  BY DEF CollectedFor
<1>3. EveryCombination'
  <2>1. \A o \in Cached' : Def[o].kind = "simple" /\ rcache'[o].sound => CollectedFor(o, Combinations(o))
    BY <1>1 DEF EveryCombination
  <2> QED
    BY <2>1 DEF EveryCombination, CollectedFor, Combinations
<1>4. ASSUME NEW i \in DOMAIN stack', stack'[i].obj \in Objects, stack'[i].kind = "simple"
      PROVE  /\ stack'[i].idx \in Combinations(stack'[i].obj)
             /\ CollectedFor(stack'[i].obj, CombinationsBefore(stack'[i].obj, stack'[i].idx))
  <2>1. CASE i \in DOMAIN stack /\ stack'[i] = stack[i]
    BY <1>1, <1>4, <2>1 DEF VisitedInv
  <2>2. CASE stack'[i].obj \notin asked /\ stack'[i].idx = First(stack'[i].obj)
    <3>1. PICK o \in Objects : o = stack'[i].obj
      BY <1>4
    <3>2. Def[o].kind = "simple" /\ visited[o] = <<>>
      BY <1>1, <1>4, <2>2, <3>1 DEF VisitedInv
    <3>3. First(o) \in Combinations(o) /\ CombinationsBefore(o, First(o)) = {}
      BY <3>2, FirstCombination
    <3>4. CollectedFor(o, {})
      BY <3>2 DEF CollectedFor, IsInjective, ToSet
    <3> QED
      BY <2>2, <3>1, <3>3, <3>4
  <2> QED
    BY <1>4, <2>1, <2>2
<1>5. ASSUME NEW i \in DOMAIN stack', stack'[i].obj \in Objects
      PROVE  /\ stack'[i].kind = Def[stack'[i].obj].kind
             /\ stack'[i].kind = "simple" =>
                   /\ stack'[i].idx \in Combinations(stack'[i].obj)
                   /\ CollectedFor(stack'[i].obj, CombinationsBefore(stack'[i].obj, stack'[i].idx))
  BY <1>4, <1>5
<1> QED
  BY <1>1, <1>3, <1>5 DEF VisitedInv, CollectedFor, Combinations, CombinationsBefore, Earlier


\* What a set frame is told leaves it the set frame of the same object.
LEMMA FrameTold ==
  ASSUME NEW f, IsSetFrame(f), NEW a, NEW s
  PROVE  /\ IsSetFrame([f EXCEPT !.answer = a]) /\ [f EXCEPT !.answer = a].obj = f.obj
         /\ IsSetFrame([f EXCEPT !.subsets = s]) /\ [f EXCEPT !.subsets = s].obj = f.obj
         /\ IsSetFrame([f EXCEPT !.subsets = s, !.answer = a])
         /\ [f EXCEPT !.subsets = s, !.answer = a].obj = f.obj
<1>1. PICK o, n, d, t, b : f = [kind |-> "set", obj |-> o, node |-> n, depth |-> d,
                                subsets |-> t, answer |-> b]
  BY DEF IsSetFrame
<1>2. \A g : (\E o2, n2, d2, t2, b2 : g = [kind |-> "set", obj |-> o2, node |-> n2, depth |-> d2,
                                          subsets |-> t2, answer |-> b2]) => IsSetFrame(g)
  BY DEF IsSetFrame
<1>3. [f EXCEPT !.answer = a] = [kind |-> "set", obj |-> o, node |-> n, depth |-> d,
                                 subsets |-> t, answer |-> a]
  BY <1>1
<1>4. [f EXCEPT !.subsets = s] = [kind |-> "set", obj |-> o, node |-> n, depth |-> d,
                                  subsets |-> s, answer |-> b]
  BY <1>1
<1>5. [f EXCEPT !.subsets = s, !.answer = a] = [kind |-> "set", obj |-> o, node |-> n, depth |-> d,
                                                subsets |-> s, answer |-> a]
  <2>1. PICK g, h : g = [f EXCEPT !.subsets = s] /\ h = [f EXCEPT !.subsets = s, !.answer = a]
    OBVIOUS
  <2>2. h = [g EXCEPT !.answer = a]
    BY <2>1
  <2> QED
    BY <1>4, <2>1, <2>2
<1> QED
  BY <1>1, <1>2, <1>3, <1>4, <1>5

LEMMA StackShape ==
  ASSUME CollectionInv
  PROVE  /\ stack \in Seq(ToSet(stack)) /\ Len(stack) \in Nat /\ DOMAIN stack = 1 .. Len(stack)
         /\ stack # <<>> => Len(stack) \in 1 .. Len(stack)
         /\ \A i \in 1 .. Len(stack) :
               /\ stack[i].kind = "set" => IsSetFrame(stack[i])
               /\ i < Len(stack) => IsSetFrame(stack[i])
               /\ stack[i].kind = "simple" => i = Len(stack) /\ IsSimpleFrame(stack[i])
               /\ IsSetFrame(stack[i]) \/ (i = Len(stack) /\ IsSimpleFrame(stack[i]))
<1>1. StackInv
  BY DEF CollectionInv
<1>2. /\ stack \in Seq(ToSet(stack)) /\ Len(stack) \in Nat /\ DOMAIN stack = 1 .. Len(stack)
      /\ stack # <<>> => Len(stack) \in 1 .. Len(stack)
  BY <1>1 DEF StackInv
<1>3. \A i \in 1 .. Len(stack) : IF i < Len(stack) THEN IsSetFrame(stack[i])
                                 ELSE IsSetFrame(stack[i]) \/ IsSimpleFrame(stack[i])
  BY <1>1, <1>2 DEF StackInv
<1>4. \A f : (IsSetFrame(f) => f.kind = "set") /\ (IsSimpleFrame(f) => f.kind = "simple")
  BY DEF IsSetFrame, IsSimpleFrame
<1>5. ASSUME NEW i \in 1 .. Len(stack)
      PROVE  /\ stack[i].kind = "set" => IsSetFrame(stack[i])
             /\ i < Len(stack) => IsSetFrame(stack[i])
             /\ stack[i].kind = "simple" => i = Len(stack) /\ IsSimpleFrame(stack[i])
             /\ IsSetFrame(stack[i]) \/ (i = Len(stack) /\ IsSimpleFrame(stack[i]))
  <2>1. CASE i < Len(stack)
    BY <1>2, <1>3, <1>4, <2>1
  <2>2. CASE i = Len(stack)
    BY <1>2, <1>3, <1>4, <2>2
  <2> QED
    BY <1>2, <2>1, <2>2
<1> QED
  BY <1>2, <1>5

\* A step after which the first m workers are left, told something perhaps,
\* and which caches at most the result of an object none of them evaluates.
LEMMA WorkersKept ==
  ASSUME CollectionInv, NEW S, NEW m \in Nat, m <= Len(stack), stack' \in Seq(S), Len(stack') = m,
         \A i \in 1 .. m : \/ stack'[i] = stack[i]
                           \/ /\ IsSetFrame(stack[i]) /\ IsSetFrame(stack'[i])
                              /\ stack'[i].obj = stack[i].obj,
         asked \subseteq asked', visited' = visited,
         \/ rcache' = rcache
         \/ \E o, c : /\ rcache' = [rcache EXCEPT ![o] = c]
                      /\ o \in asked'
                      /\ o \in Objects => /\ Def[o].kind # "simple"
                                         /\ \A i \in 1 .. m : stack[i].obj # o
  PROVE  CollectionInv'
<1>1. /\ Len(stack) \in Nat /\ DOMAIN stack = 1 .. Len(stack) /\ DOMAIN stack' = 1 .. m
      /\ \A i \in 1 .. m : i \in DOMAIN stack
  <2>1. Len(stack) \in Nat /\ DOMAIN stack = 1 .. Len(stack)
    BY StackShape
  <2>2. PICK n \in Nat : n = Len(stack)
    BY <2>1
  <2>3. \A i \in 1 .. m : i \in 1 .. n
    BY <2>2
  <2> QED
    BY <2>1, <2>2, <2>3
<1>2. OwnerInv /\ VisitedInv /\ DOMAIN rcache = Objects /\ Cached \subseteq asked
  BY DEF CollectionInv, OwnerInv
<1>3. /\ DOMAIN rcache' = Objects
      /\ \A o \in Objects : \/ rcache'[o] = rcache[o]
                            \/ /\ o \in asked' /\ Def[o].kind # "simple"
                               /\ \A i \in 1 .. m : stack[i].obj # o
  BY <1>2
<1>4. Cached' \subseteq asked'
  BY <1>2, <1>3 DEF Cached
<1>5. ASSUME NEW i \in 1 .. m
      PROVE  /\ IsSetFrame(stack'[i]) \/ (i = m /\ IsSimpleFrame(stack'[i]))
             /\ stack'[i].obj = stack[i].obj /\ stack[i].obj \notin Cached' \ Cached
             /\ stack'[i].kind = stack[i].kind
             /\ stack'[i].kind = "simple" => stack'[i] = stack[i]
  <2>1. i \in 1 .. Len(stack)
    BY <1>1
  <2>2. IsSetFrame(stack[i]) \/ (i = Len(stack) /\ IsSimpleFrame(stack[i]))
    BY <2>1, StackShape
  <2>3. IsSetFrame(stack'[i]) \/ (i = m /\ IsSimpleFrame(stack'[i]))
    <3>1. CASE IsSetFrame(stack[i])
      <4>1. CASE stack'[i] = stack[i]
        BY <3>1, <4>1 DEF IsSetFrame
      <4> QED
        BY <4>1
    <3>2. CASE i = Len(stack) /\ IsSimpleFrame(stack[i]) /\ ~IsSetFrame(stack[i])
      <4>1. stack'[i] = stack[i]
        BY <3>2
      <4>2. i = m
        <5>1. PICK n \in Nat : n = Len(stack) /\ n = i /\ m <= n
          BY <1>1, <3>2
        <5> QED
          BY <5>1
      <4> QED
        BY <3>2, <4>1, <4>2 DEF IsSimpleFrame
    <3> QED
      BY <2>2, <3>1, <3>2
  <2>4. /\ stack'[i].obj = stack[i].obj
        /\ stack'[i].kind = stack[i].kind
        /\ stack'[i].kind = "simple" => stack'[i] = stack[i]
    BY DEF IsSetFrame
  <2>5. stack[i].obj \notin Cached' \ Cached
    BY <1>3 DEF Cached
  <2> QED
    BY <2>3, <2>4, <2>5
<1>6. StackInv' /\ OwnerInv'
  BY <1>1, <1>3, <1>4, <1>5, OwnersKept
<1>7. \A o \in Cached' : (o \in Cached /\ rcache'[o] = rcache[o]) \/ Def[o].kind # "simple"
  BY <1>3 DEF Cached
<1>8. \A i \in DOMAIN stack' : stack'[i].obj \in Objects =>
          /\ stack'[i].kind = Def[stack'[i].obj].kind
          /\ stack'[i].kind = "simple" => i \in DOMAIN stack /\ stack'[i] = stack[i]
  BY <1>1, <1>2, <1>5 DEF VisitedInv
<1>9. VisitedInv'
  BY <1>7, <1>8, VisitedKept
<1> QED
  BY <1>6, <1>9 DEF CollectionInv

\* A step that starts a worker or enters a nested set.
LEMMA WorkerAdded ==
  ASSUME CollectionInv, NEW f, stack' = Append(stack, f),
         \A i \in 1 .. Len(stack) : IsSetFrame(stack[i]),
         asked \subseteq asked', visited' = visited, rcache' = rcache,
         \/ IsSetFrame(f) /\ f.obj = "nested"
         \/ \E o : f = Frame(o) /\ Request(o) /\ o \in asked'
  PROVE  CollectionInv'
<1>1. /\ Len(stack) \in Nat /\ DOMAIN stack = 1 .. Len(stack) /\ stack \in Seq(ToSet(stack))
  BY StackShape
<1>2. OwnerInv /\ VisitedInv /\ DOMAIN rcache = Objects /\ Cached \subseteq asked
  BY DEF CollectionInv, OwnerInv
<1>3. PICK n \in Nat : n = Len(stack) + 1
  BY <1>1
<1>4. /\ stack' \in Seq(ToSet(stack) \cup {f}) /\ Len(stack') = n /\ DOMAIN stack' = 1 .. n
      /\ stack'[n] = f /\ \A i \in 1 .. n - 1 : stack'[i] = stack[i] /\ i \in DOMAIN stack
      /\ \A i \in 1 .. n : i = n \/ i \in 1 .. n - 1
  <2>1. stack \in Seq(ToSet(stack) \cup {f})
    BY <1>1
  <2> QED
    BY <1>1, <1>3, <2>1
<1>5. Cached' = Cached
  BY DEF Cached
<1>6. /\ IsSetFrame(f) \/ IsSimpleFrame(f)
      /\ \/ f.obj = "nested"
         \/ f.obj \in asked' \ (asked \cup Cached')
      /\ f.obj \in Objects => f.kind = Def[f.obj].kind
      /\ f.kind = "simple" => f.obj \notin asked /\ f.idx = First(f.obj)
  <2>1. CASE IsSetFrame(f) /\ f.obj = "nested"
    BY <2>1, DefAssumption DEF IsSetFrame
  <2>2. ASSUME NEW o, f = Frame(o), Request(o), o \in asked'
        PROVE  /\ IsSetFrame(f) \/ IsSimpleFrame(f)
               /\ f.obj = o /\ o \in asked' \ (asked \cup Cached')
               /\ f.kind = Def[o].kind
               /\ f.kind = "simple" => f.idx = First(o)
    <3>1. o \notin asked /\ o \notin Cached' /\ Def[o].kind \in {"simple", "set"}
      BY <1>2, <1>5, <2>2 DEF Request
    <3>2. CASE Def[o].kind = "set"
      <4>1. f = [kind |-> "set", obj |-> o, node |-> Def[o].set, depth |-> 0, subsets |-> <<>>, answer |-> "none"]
        BY <2>2, <3>2 DEF Frame, SetFrame
      <4> QED
        BY <2>2, <3>1, <3>2, <4>1 DEF IsSetFrame
    <3>3. CASE Def[o].kind = "simple"
      <4>1. f = [kind |-> "simple", obj |-> o, idx |-> First(o), out |-> None]
        BY <2>2, <3>3 DEF Frame
      <4> QED
        BY <2>2, <3>1, <3>3, <4>1 DEF IsSimpleFrame
    <3> QED
      BY <3>1, <3>2, <3>3
  <2> QED
    BY <2>1, <2>2
<1>7. \A i \in DOMAIN stack' :
            /\ IsSetFrame(stack'[i]) \/ (i = Len(stack') /\ IsSimpleFrame(stack'[i]))
            /\ \/ i \in DOMAIN stack /\ stack'[i].obj = stack[i].obj /\ stack[i].obj \notin Cached' \ Cached
               \/ stack'[i].obj = "nested"
               \/ i = Len(stack') /\ stack'[i].obj \in asked' \ (asked \cup Cached')
  <2> SUFFICES ASSUME NEW i \in 1 .. n
               PROVE  /\ IsSetFrame(stack'[i]) \/ (i = n /\ IsSimpleFrame(stack'[i]))
                      /\ \/ i \in DOMAIN stack /\ stack'[i].obj = stack[i].obj /\ stack[i].obj \notin Cached' \ Cached
                         \/ stack'[i].obj = "nested"
                         \/ i = n /\ stack'[i].obj \in asked' \ (asked \cup Cached')
    BY <1>4
  <2>1. CASE i = n
    BY <1>4, <1>6, <2>1
  <2>2. CASE i \in 1 .. n - 1
    BY <1>1, <1>4, <1>5, <2>2
  <2> QED
    BY <1>4, <2>1, <2>2
<1>8. StackInv' /\ OwnerInv'
  BY <1>2, <1>4, <1>5, <1>7, OwnersKept
<1>9. \A o \in Cached' : (o \in Cached /\ rcache'[o] = rcache[o]) \/ Def[o].kind # "simple"
  BY <1>5
<1>10. \A i \in DOMAIN stack' : stack'[i].obj \in Objects =>
            /\ stack'[i].kind = Def[stack'[i].obj].kind
            /\ stack'[i].kind = "simple" =>
                  \/ i \in DOMAIN stack /\ stack'[i] = stack[i]
                  \/ stack'[i].obj \notin asked /\ stack'[i].idx = First(stack'[i].obj)
  <2> SUFFICES ASSUME NEW i \in 1 .. n, stack'[i].obj \in Objects
               PROVE  /\ stack'[i].kind = Def[stack'[i].obj].kind
                      /\ stack'[i].kind = "simple" =>
                            \/ i \in DOMAIN stack /\ stack'[i] = stack[i]
                            \/ stack'[i].obj \notin asked /\ stack'[i].idx = First(stack'[i].obj)
    BY <1>4
  <2>1. CASE i = n
    BY <1>4, <1>6, <2>1
  <2>2. CASE i \in 1 .. n - 1
    BY <1>2, <1>4, <2>2 DEF VisitedInv
  <2> QED
    BY <1>4, <2>1, <2>2
<1>11. VisitedInv'
  BY <1>9, <1>10, VisitedKept
<1> QED
  BY <1>8, <1>11 DEF CollectionInv


-----------------------------------------------------------------------------
(***************************************************************************)
(* The steps.                                                              *)
(***************************************************************************)
LEMMA QueryStep ==
  ASSUME CollectionInv, NEW o \in Objects, Query(o)
  PROVE  CollectionInv'
<1>1. /\ stack = <<>> /\ Request(o) /\ asked' = asked \cup {o} /\ stack' = <<Frame(o)>>
      /\ rcache' = rcache /\ visited' = visited
  BY DEF Query
<1>2. PICK f : f = Frame(o)
  OBVIOUS
<1>3. stack' = Append(stack, f) /\ Len(stack) = 0
  BY <1>1, <1>2
<1>4. \A i \in 1 .. Len(stack) : IsSetFrame(stack[i])
  BY <1>3
<1> QED
  BY <1>1, <1>2, <1>3, <1>4, WorkerAdded

\* A list of frames whose frame m is told something and becomes g.
Told(s, m, g) == [s EXCEPT ![m] = g]

IsTold(t, fs, m, g, S) ==
  /\ t \in Seq(S) /\ Len(t) = Len(fs)
  /\ \A i \in 1 .. Len(fs) : t[i] = IF i = m THEN g ELSE fs[i]

LEMMA ToldShape ==
  ASSUME NEW S, NEW fs \in Seq(S), NEW m \in Nat, NEW g \in S
  PROVE  IsTold(Told(fs, m, g), fs, m, g, S)
<1>1. PICK t : t = [fs EXCEPT ![m] = g] /\ t = Told(fs, m, g)
  BY DEF Told
<1>2. DOMAIN fs = 1 .. Len(fs) /\ Len(fs) \in Nat
  OBVIOUS
<1>3. \A i \in 1 .. Len(fs) : fs[i] \in S /\ t[i] = IF i = m THEN g ELSE fs[i]
  BY <1>1, <1>2
<1>4. t \in [1 .. Len(fs) -> S]
  BY <1>1, <1>2, <1>3
<1>5. t \in Seq(S) /\ Len(t) = Len(fs)
  BY <1>2, <1>4
<1> QED
  BY <1>1, <1>3, <1>5 DEF IsTold

LEMMA InnermostShape ==
  ASSUME CollectionInv, stack # <<>>
  PROVE  \E n \in Nat : /\ n = Len(stack) /\ n > 0 /\ n \in 1 .. n /\ Top = stack[n]
                        /\ stack \in Seq(ToSet(stack)) /\ DOMAIN stack = 1 .. n
                        /\ \A i \in 1 .. n - 1 : i \in 1 .. n /\ IsSetFrame(stack[i])
                        /\ Top.kind = "set" => \A i \in 1 .. n : IsSetFrame(stack[i])
<1>1. PICK n : n = Len(stack)
  OBVIOUS
<1>2. n \in Nat /\ n \in 1 .. n /\ stack \in Seq(ToSet(stack)) /\ DOMAIN stack = 1 .. n
  BY <1>1, StackShape
<1>3. \A i \in 1 .. n : /\ stack[i].kind = "set" => IsSetFrame(stack[i])
                        /\ i < n => IsSetFrame(stack[i])
  BY <1>1, StackShape
<1>4. \A i \in 1 .. n - 1 : i \in 1 .. n /\ i < n
  BY <1>2
<1>5. Top = stack[n]
  BY <1>1 DEF Top
<1>6. ASSUME Top.kind = "set", NEW i \in 1 .. n
      PROVE  IsSetFrame(stack[i])
  <2>1. CASE i < n
    BY <1>3, <2>1
  <2>2. CASE i = n
    BY <1>2, <1>3, <1>5, <1>6, <2>2
  <2> QED
    BY <1>2, <2>1, <2>2
<1> QED
  BY <1>1, <1>2, <1>3, <1>4, <1>5, <1>6

LEMMA OperandStep ==
  ASSUME CollectionInv, InSet, NEW c, stack' = Operand(c), rcache' = rcache, asked' = asked,
         visited' = visited
  PROVE  CollectionInv'
<1>1. PICK n \in Nat : /\ n = Len(stack) /\ n > 0 /\ n \in 1 .. n /\ stack \in Seq(ToSet(stack))
                      /\ DOMAIN stack = 1 .. n /\ \A i \in 1 .. n : IsSetFrame(stack[i])
  BY InnermostShape DEF InSet
<1>2. stack \in Seq(ToSet(stack)) /\ DOMAIN stack = 1 .. n /\ IsSetFrame(stack[n])
  BY <1>1
<1>3. PICK f, s, a, g : /\ f = stack[n] /\ s = Append(f.subsets, c) /\ a = "none"
                        /\ g = [f EXCEPT !.subsets = s, !.answer = a]
  OBVIOUS
<1>4. IsSetFrame(g) /\ g.obj = stack[n].obj
  <2>1. IsSetFrame(f)
    BY <1>2, <1>3
  <2>2. IsSetFrame([f EXCEPT !.subsets = s, !.answer = a]) /\ [f EXCEPT !.subsets = s, !.answer = a].obj = f.obj
    BY <2>1, FrameTold
  <2> QED
    BY <1>3, <2>2
<1>5. stack' = [stack EXCEPT ![n] = g]
  BY <1>1, <1>2, <1>3 DEF Operand
<1>6. /\ stack' \in Seq(ToSet(stack) \cup {g}) /\ Len(stack') = n
      /\ \A i \in 1 .. n : stack'[i] = IF i = n THEN g ELSE stack[i]
  <2>1. stack' = Told(stack, n, g)
    BY <1>5 DEF Told
  <2>2. PICK S : S = ToSet(stack) \cup {g}
    OBVIOUS
  <2>3. stack \in Seq(S) /\ g \in S /\ n \in Nat
    BY <1>1, <1>2, <2>2
  <2>4. /\ Told(stack, n, g) \in Seq(S) /\ Len(Told(stack, n, g)) = Len(stack)
        /\ \A i \in 1 .. Len(stack) : Told(stack, n, g)[i] = IF i = n THEN g ELSE stack[i]
    <3>1. IsTold(Told(stack, n, g), stack, n, g, S)
      BY <2>3, ToldShape
    <3> QED
      BY <3>1 DEF IsTold
  <2> QED
    BY <1>1, <2>1, <2>2, <2>4
<1>7. \A i \in 1 .. n : \/ stack'[i] = stack[i]
                        \/ IsSetFrame(stack[i]) /\ IsSetFrame(stack'[i]) /\ stack'[i].obj = stack[i].obj
  BY <1>1, <1>4, <1>6
<1> QED
  BY <1>1, <1>6, <1>7, WorkersKept

LEMMA NestedStep ==
  ASSUME CollectionInv, Nested
  PROVE  CollectionInv'
<1>1. InSet /\ rcache' = rcache /\ asked' = asked /\ visited' = visited
  BY DEF Nested, AtMember
<1>2. stack # <<>> /\ Top.kind = "set"
  BY <1>1 DEF InSet
<1>3. PICK n \in Nat : /\ n = Len(stack) /\ stack \in Seq(ToSet(stack)) /\ DOMAIN stack = 1 .. n
                      /\ \A i \in 1 .. n : IsSetFrame(stack[i])
  BY <1>2, InnermostShape
<1>4. CASE stack' = Operand(ErrorObject)
  BY <1>1, <1>2, <1>3, <1>4, OperandStep
<1>5. CASE stack' = Append(stack, SetFrame("nested", Member.set, Top.depth + 1))
  <2>1. PICK f : f = SetFrame("nested", Member.set, Top.depth + 1)
    OBVIOUS
  <2>2. IsSetFrame(f) /\ f.obj = "nested"
    BY <2>1 DEF IsSetFrame, SetFrame
  <2> QED
    BY <1>1, <1>2, <1>3, <1>5, <2>1, <2>2, WorkerAdded
<1> QED
  BY <1>4, <1>5 DEF Nested

LEMMA RefHitStep ==
  ASSUME CollectionInv, RefHit
  PROVE  CollectionInv'
<1>1. /\ InSet /\ rcache' = rcache /\ asked' = asked /\ visited' = visited
      /\ stack' = Operand(rcache[Member.obj])
  BY DEF RefHit, AtMember
<1> QED
  BY <1>1, OperandStep

\* A worker ends, or a request is skipped: the workers below go on, the
\* innermost of them told.
LEMMA FinishStack ==
  ASSUME NEW o, NEW c, NEW a, NEW under, NEW S, under \in Seq(S), Finish(o, c, a, under),
         \A i \in 1 .. Len(under) : under[i] = stack[i] /\ IsSetFrame(stack[i])
  PROVE  \E T : /\ stack' \in Seq(T) /\ Len(stack') = Len(under)
                /\ \A i \in 1 .. Len(under) : /\ IsSetFrame(stack[i]) /\ IsSetFrame(stack'[i])
                                             /\ stack'[i].obj = stack[i].obj
<1>1. PICK m \in Nat : m = Len(under) /\ DOMAIN under = 1 .. m
  OBVIOUS
<1>2. CASE under = <<>>
  <2>1. m = 0 /\ stack' = <<>> /\ stack' \in Seq(S) /\ Len(stack') = m
    BY <1>1, <1>2 DEF Finish
  <2> QED
    BY <1>1, <2>1
<1>3. CASE under # <<>>
  <2>1. m \in 1 .. m /\ IsSetFrame(under[m]) /\ \A i \in 1 .. m : under[i] = stack[i]
    BY <1>1, <1>3
  <2>2. PICK f, g : f = under[m] /\ g = [f EXCEPT !.answer = a]
    OBVIOUS
  <2>3. IsSetFrame(g) /\ g.obj = under[m].obj
    BY <2>1, <2>2, FrameTold
  <2>4. stack' = [under EXCEPT ![m] = g]
    BY <1>1, <1>3, <2>2 DEF Finish
  <2>5. /\ stack' \in Seq(S \cup {g}) /\ Len(stack') = m
        /\ \A i \in 1 .. m : stack'[i] = IF i = m THEN g ELSE under[i]
    <3>1. stack' = Told(under, m, g)
      BY <2>4 DEF Told
    <3>2. PICK T : T = S \cup {g}
      OBVIOUS
    <3>3. under \in Seq(T) /\ g \in T
      BY <3>2
    <3>4. /\ Told(under, m, g) \in Seq(T) /\ Len(Told(under, m, g)) = Len(under)
          /\ \A i \in 1 .. Len(under) : Told(under, m, g)[i] = IF i = m THEN g ELSE under[i]
      <4>1. IsTold(Told(under, m, g), under, m, g, T)
        BY <3>3, ToldShape
      <4> QED
        BY <4>1 DEF IsTold
    <3> QED
      BY <1>1, <3>1, <3>2, <3>4
  <2>6. \A i \in 1 .. m : IsSetFrame(stack[i]) /\ IsSetFrame(stack'[i]) /\ stack'[i].obj = stack[i].obj
    BY <1>1, <2>1, <2>3, <2>5
  <2> QED
    BY <1>1, <2>5, <2>6
<1> QED
  BY <1>2, <1>3

LEMMA FinishStep ==
  ASSUME CollectionInv, NEW o, NEW c, NEW a, NEW under, NEW S, under \in Seq(S), Finish(o, c, a, under),
         Len(under) <= Len(stack), \A i \in 1 .. Len(under) : under[i] = stack[i] /\ IsSetFrame(stack[i]),
         asked \subseteq asked', visited' = visited, o \in asked',
         o \in Objects => /\ Def[o].kind # "simple"
                          /\ \A i \in 1 .. Len(under) : stack[i].obj # o
  PROVE  CollectionInv'
<1>1. PICK m \in Nat : m = Len(under) /\ m <= Len(stack)
  OBVIOUS
<1>2. PICK d : rcache' = [rcache EXCEPT ![o] = d]
  BY DEF Finish
<1>3. PICK T : /\ stack' \in Seq(T) /\ Len(stack') = m
               /\ \A i \in 1 .. m : /\ IsSetFrame(stack[i]) /\ IsSetFrame(stack'[i])
                                    /\ stack'[i].obj = stack[i].obj
  BY <1>1, FinishStack
<1> QED
  BY <1>1, <1>2, <1>3, WorkersKept

LEMMA QuerySkippedStep ==
  ASSUME CollectionInv, NEW o \in Objects, QuerySkipped(o)
  PROVE  CollectionInv'
<1>1. /\ stack = <<>> /\ Def[o].kind = "skip" /\ asked' = asked \cup {o} /\ visited' = visited
      /\ Finish(o, [ErrorObject EXCEPT !.flag = "DOES_NOT_EXIST"], "ok", <<>>)
  BY DEF QuerySkipped, Skip
<1>2. PICK u : u = <<>>
  OBVIOUS
<1>3. u \in Seq({}) /\ Len(u) = 0 /\ Len(stack) = 0
  BY <1>1, <1>2
<1>4. \A i \in 1 .. Len(u) : u[i] = stack[i] /\ IsSetFrame(stack[i]) /\ stack[i].obj # o
  BY <1>3
<1>5. PICK c : Finish(o, c, "ok", u)
  BY <1>1, <1>2
<1>6. o \in asked' /\ asked \subseteq asked' /\ Len(u) <= Len(stack)
  BY <1>1, <1>3
<1> QED
  BY <1>1, <1>3, <1>4, <1>5, <1>6, FinishStep

LEMMA RefMissStep ==
  ASSUME CollectionInv, RefMiss
  PROVE  CollectionInv'
<1>1. InSet
  BY DEF RefMiss, AtMember
<1>2. stack # <<>> /\ Top.kind = "set"
  BY <1>1 DEF InSet
<1>3. PICK n \in Nat : /\ n = Len(stack) /\ stack \in Seq(ToSet(stack)) /\ DOMAIN stack = 1 .. n
                      /\ \A i \in 1 .. n : IsSetFrame(stack[i])
  BY <1>2, InnermostShape
<1>4. PICK o : o = Member.obj
  OBVIOUS
<1>5. CASE /\ Request(o) /\ asked' = asked \cup {o} /\ stack' = Append(stack, Frame(o))
           /\ rcache' = rcache /\ visited' = visited
  BY <1>2, <1>3, <1>5, WorkerAdded
<1>6. CASE Skip(o, stack)
  <2>1. PICK c : /\ Def[o].kind = "skip" /\ o \notin asked /\ asked' = asked \cup {o} /\ visited' = visited
                 /\ Finish(o, c, "ok", stack)
    BY <1>6 DEF Skip
  <2>2. o \in Objects => \A i \in 1 .. Len(stack) : stack[i].obj # o
    BY <1>2, <1>3, <2>1, DefAssumption DEF CollectionInv, OwnerInv
  <2> QED
    BY <1>2, <1>3, <2>1, <2>2, FinishStep
<1> QED
  BY <1>4, <1>5, <1>6 DEF RefMiss

LEMMA ReturnStep ==
  ASSUME CollectionInv, InSet, NEW c, Return(c), asked \subseteq asked', visited' = visited
  PROVE  CollectionInv'
<1>1. stack # <<>> /\ Top.kind = "set"
  BY DEF InSet
<1>2. PICK n \in Nat : /\ n = Len(stack) /\ n > 0 /\ n \in 1 .. n /\ Top = stack[n]
                       /\ stack \in Seq(ToSet(stack)) /\ DOMAIN stack = 1 .. n
                       /\ \A i \in 1 .. n : IsSetFrame(stack[i])
                       /\ \A i \in 1 .. n - 1 : i \in 1 .. n
  BY <1>1, InnermostShape
<1>3. PICK m, u : m \in Nat /\ m = n - 1 /\ u = Front(stack)
  BY <1>2
<1>4. u \in Seq(ToSet(stack)) /\ Len(u) = m /\ \A i \in 1 .. m : u[i] = stack[i] /\ IsSetFrame(stack[i])
  BY <1>1, <1>2, <1>3, FrontOfSeq
<1>5. CASE Top.obj = "nested"
  <2>1. PICK f, s, g : f = u[m] /\ s = Append(f.subsets, c) /\ g = [f EXCEPT !.subsets = s]
    OBVIOUS
  <2>2. stack' = [u EXCEPT ![m] = g] /\ rcache' = rcache
    BY <1>2, <1>3, <1>5, <2>1 DEF Return
  <2>3. ASSUME m > 0
        PROVE  IsSetFrame(u[m]) /\ IsSetFrame(g) /\ g.obj = u[m].obj
    <3>1. IsSetFrame(f)
      BY <1>4, <2>1, <2>3
    <3>2. IsSetFrame([f EXCEPT !.subsets = s]) /\ [f EXCEPT !.subsets = s].obj = f.obj
      BY <3>1, FrameTold
    <3> QED
      BY <2>1, <3>1, <3>2
  <2>4. /\ stack' \in Seq(ToSet(stack) \cup {g}) /\ Len(stack') = m
        /\ \A i \in 1 .. m : stack'[i] = IF i = m THEN g ELSE u[i]
    <3>1. stack' = Told(u, m, g)
      BY <2>2 DEF Told
    <3>2. PICK T : T = ToSet(stack) \cup {g}
      OBVIOUS
    <3>3. u \in Seq(T) /\ g \in T /\ m \in Nat
      BY <1>3, <1>4, <3>2
    <3>4. /\ Told(u, m, g) \in Seq(T) /\ Len(Told(u, m, g)) = Len(u)
          /\ \A i \in 1 .. Len(u) : Told(u, m, g)[i] = IF i = m THEN g ELSE u[i]
      <4>1. IsTold(Told(u, m, g), u, m, g, T)
        BY <3>3, ToldShape
      <4> QED
        BY <4>1 DEF IsTold
    <3> QED
      BY <1>4, <3>1, <3>2, <3>4
  <2>5. \A i \in 1 .. m : \/ stack'[i] = stack[i]
                          \/ IsSetFrame(stack[i]) /\ IsSetFrame(stack'[i]) /\ stack'[i].obj = stack[i].obj
    <3> TAKE i \in 1 .. m
    <3>1. u[i] = stack[i] /\ IsSetFrame(stack[i]) /\ m > 0
      BY <1>4
    <3>2. CASE i = m
      BY <2>3, <2>4, <3>1, <3>2
    <3> QED
      BY <2>4, <3>1, <3>2
  <2> QED
    BY <1>2, <1>3, <2>2, <2>4, <2>5, WorkersKept
<1>6. CASE Top.obj # "nested"
  <2>1. PICK o : o = stack[n].obj
    OBVIOUS
  <2>2. Finish(o, c, "ok", u)
    BY <1>2, <1>3, <1>6, <2>1 DEF Return
  <2>3. /\ o \in asked' /\ o # "nested"
        /\ \A i \in 1 .. m : stack[i].obj # o
        /\ o \in Objects => Def[o].kind # "simple"
    <3>1. OwnerInv /\ VisitedInv
      BY DEF CollectionInv
    <3>2. o \in asked' /\ o # "nested"
      BY <1>2, <1>6, <2>1, <3>1 DEF OwnerInv
    <3>3. ASSUME NEW i \in 1 .. m
          PROVE  stack[i].obj # o
      <4>1. i \in DOMAIN stack /\ n \in DOMAIN stack /\ i # n
        BY <1>2, <1>3
      <4> QED
        BY <2>1, <3>1, <3>2, <4>1 DEF OwnerInv
    <3>4. ASSUME o \in Objects
          PROVE  Def[o].kind # "simple"
      BY <1>1, <1>2, <2>1, <3>1, <3>4 DEF VisitedInv
    <3> QED
      BY <3>2, <3>3, <3>4
  <2>4. PICK a : Finish(o, c, a, u)
    BY <2>2
  <2>5. Len(u) <= Len(stack)
    BY <1>2, <1>3, <1>4
  <2> QED
    BY <1>4, <2>3, <2>4, <2>5, FinishStep
<1> QED
  BY <1>5, <1>6

LEMMA RefFailStep ==
  ASSUME CollectionInv, RefFail
  PROVE  CollectionInv'
<1>1. InSet /\ asked \subseteq asked' /\ visited' = visited
  BY DEF RefFail, AtMember
<1>2. PICK c : Return(c)
  BY DEF RefFail
<1> QED
  BY <1>1, <1>2, ReturnStep

LEMMA EvaluateStep ==
  ASSUME CollectionInv, NEW sent \in BOOLEAN, Evaluate(sent)
  PROVE  CollectionInv'
<1>1. InSet /\ asked \subseteq asked' /\ visited' = visited
  BY DEF Evaluate
<1>2. PICK c : Return(c)
  BY DEF Evaluate
<1> QED
  BY <1>1, <1>2, ReturnStep

\* The worker of object o collects for one combination and goes on, or ends:
\* what happens to the combinations visited.
LEMMA CollectVisited ==
  ASSUME CollectionInv, NEW n \in DOMAIN stack, NEW o, o = stack[n].obj, stack[n].kind = "simple",
         NEW idx, idx = stack[n].idx, visited' = [visited EXCEPT ![o] = Append(@, idx)]
  PROVE  /\ DOMAIN visited' = Objects
         /\ \A p \in Objects : visited'[p] \in Seq(ToSet(visited'[p]))
         /\ \A p \in Objects : p # o => visited'[p] = visited[p]
         /\ o \in Objects => /\ Def[o].kind = "simple" /\ idx \in Combinations(o) /\ o \in asked \ Cached
                             /\ IsInjective(visited'[o])
                             /\ ToSet(visited'[o]) = CombinationsBefore(o, idx) \cup {idx}
<1>1. OwnerInv /\ VisitedInv
  BY DEF CollectionInv
<1>2. DOMAIN visited = Objects /\ \A p \in Objects : visited[p] \in Seq(ToSet(visited[p]))
  BY <1>1 DEF VisitedInv
<1>3. DOMAIN visited' = Objects /\ \A p \in Objects : p # o => visited'[p] = visited[p]
  BY <1>2
<1>4. ASSUME o \in Objects
      PROVE  /\ Def[o].kind = "simple" /\ idx \in Combinations(o) /\ o \in asked \ Cached
             /\ IsInjective(visited[o]) /\ ToSet(visited[o]) = CombinationsBefore(o, idx)
  <2>1. Def[o].kind = "simple" /\ idx \in Combinations(o) /\ CollectedFor(o, CombinationsBefore(o, idx))
    BY <1>1, <1>4 DEF VisitedInv
  <2>2. o \in asked \ Cached
    BY <1>1, <1>4, DefAssumption DEF OwnerInv
  <2> QED
    BY <2>1, <2>2 DEF CollectedFor
<1>5. ASSUME o \in Objects
      PROVE  /\ visited'[o] \in Seq(ToSet(visited'[o])) /\ IsInjective(visited'[o])
             /\ ToSet(visited'[o]) = CombinationsBefore(o, idx) \cup {idx}
  <2>1. PICK s, S : s = visited[o] /\ S = ToSet(visited[o])
    OBVIOUS
  <2>2. s \in Seq(S) /\ IsInjective(s) /\ ToSet(s) = CombinationsBefore(o, idx)
    BY <1>2, <1>4, <1>5, <2>1
  <2>3. idx \notin ToSet(s)
    <3>1. DOMAIN idx = DOMAIN Def[o].values /\ \A k \in DOMAIN idx : idx[k] \in Nat
      BY <1>4, <1>5, CombinationType
    <3>2. ~Earlier(idx, idx)
      BY <3>1 DEF Earlier
    <3> QED
      BY <2>2, <3>2 DEF CombinationsBefore
  <2>4. /\ Append(s, idx) \in Seq(ToSet(Append(s, idx)))
        /\ IsInjective(Append(s, idx)) /\ ToSet(Append(s, idx)) = ToSet(s) \cup {idx}
    BY <2>2, <2>3, AppendNew
  <2>5. visited'[o] = Append(s, idx)
    BY <1>2, <1>5, <2>1
  <2> QED
    BY <2>2, <2>4, <2>5
<1>6. \A p \in Objects : visited'[p] \in Seq(ToSet(visited'[p]))
  <2> TAKE p \in Objects
  <2>1. CASE p = o
    BY <1>5, <2>1
  <2>2. CASE p # o
    <3>1. visited'[p] = visited[p] /\ visited[p] \in Seq(ToSet(visited[p]))
      BY <1>2, <1>3, <2>2
    <3> QED
      BY <3>1 DEF ToSet
  <2> QED
    BY <2>1, <2>2
<1> QED
  BY <1>3, <1>4, <1>5, <1>6

\* A result that is sound is one whose last run succeeded.
LEMMA SoundRun ==
  ASSUME NEW out, NEW items, NEW flag, NEW truth, NEW ret,
         [United(out, CollectedBy(items, flag, ret, truth)) EXCEPT !.items = ListSort(@)].sound
  PROVE  ret = 0
<1>1. PICK g, T, cobj : cobj = CollectedBy(items, flag, ret, truth) /\
         cobj = [flag |-> g, items |-> items, set |-> T, truth |-> truth, sound |-> (ret = 0), clean |-> TRUE]
  BY DEF CollectedBy
<1>2. PICK all : all = Combine(out, cobj, "UNION")
  OBVIOUS
<1>3. cobj # None
  BY <1>1 DEF None
<1>4. PICK f, i, s, t, b, c :
         all = [flag |-> f, items |-> i, set |-> s, truth |-> t, sound |-> b, clean |-> c] /\ (b => ret = 0)
  <2>1. CASE out = None
    BY <1>1, <1>2, <2>1 DEF Combine
  <2>2. CASE out # None
    <3>1. cobj.sound => ret = 0
      <4>1. cobj = [flag |-> g, items |-> items, set |-> T, truth |-> truth, sound |-> (ret = 0), clean |-> TRUE]
        BY <1>1
      <4> QED
        BY ONLY <4>1
    <3>2. PICK f, i, s, t, c :
             all = [flag |-> f, items |-> i, set |-> s, truth |-> t,
                    sound |-> (out.sound /\ cobj.sound), clean |-> c]
      BY <1>2, <1>3, <2>2 DEF Combine
    <3>3. PICK b : b = (out.sound /\ cobj.sound)
      OBVIOUS
    <3>4. all = [flag |-> f, items |-> i, set |-> s, truth |-> t, sound |-> b, clean |-> c]
      BY <3>2, <3>3
    <3> QED
      BY <3>1, <3>3, <3>4
  <2> QED
    BY <2>1, <2>2
<1>5. PICK u : u = [all EXCEPT !.clean = IsInjective(all.items)]
  OBVIOUS
<1>6. United(out, CollectedBy(items, flag, ret, truth)) = u
  BY <1>1, <1>2, <1>5 DEF United
<1>7. [u EXCEPT !.items = ListSort(@)].sound
  BY <1>6
<1>8. [u EXCEPT !.items = ListSort(@)].sound = b
  BY <1>4, <1>5
<1> QED
  BY <1>4, <1>7, <1>8

\* The innermost worker, the n-th, collects object o for combination idx.
CollectsFor(n, o, idx) ==
    /\ n = Len(stack) /\ n \in DOMAIN stack /\ stack[n].kind = "simple"
    /\ o = stack[n].obj /\ idx = stack[n].idx
    /\ visited' = [visited EXCEPT ![o] = Append(@, idx)]

\* The worker ends: the combinations of its object were all visited, unless
\* its last run failed.
LEMMA CollectEnds ==
  ASSUME CollectionInv, NEW n \in Nat, NEW o, NEW idx, CollectsFor(n, o, idx), asked' = asked,
         NEW c, NEW a, Finish(o, c, a, Front(stack)),
         o \in Objects /\ rcache'[o].sound => Exhausted(idx, Def[o].values)
  PROVE  CollectionInv'
<1>1. stack # <<>> /\ OwnerInv /\ VisitedInv
  BY DEF CollectionInv, CollectsFor
<1>2. /\ n > 0 /\ stack \in Seq(ToSet(stack)) /\ DOMAIN stack = 1 .. n
      /\ \A i \in 1 .. n - 1 : i \in 1 .. n /\ IsSetFrame(stack[i])
  BY <1>1, InnermostShape DEF CollectsFor
<1>3. PICK m \in Nat : m = n - 1
  <2>1. n - 1 \in Nat
    BY <1>2
  <2> QED
    BY <2>1
<1>4. PICK u : u = Front(stack)
  OBVIOUS
<1>5. u \in Seq(ToSet(stack)) /\ Len(u) = m /\ \A i \in 1 .. m : u[i] = stack[i] /\ IsSetFrame(stack[i])
  BY <1>1, <1>2, <1>3, <1>4, FrontOfSeq DEF CollectsFor
<1>6. PICK T : /\ stack' \in Seq(T) /\ Len(stack') = m
               /\ \A i \in 1 .. m : /\ IsSetFrame(stack[i]) /\ IsSetFrame(stack'[i])
                                    /\ stack'[i].obj = stack[i].obj
  <2>1. Finish(o, c, a, u)
    BY <1>4
  <2> QED
    BY <1>5, <2>1, FinishStack
<1>7. DOMAIN rcache' = Objects /\ \A p \in Objects : p # o => rcache'[p] = rcache[p]
  BY <1>1 DEF OwnerInv, Finish
<1>8. /\ DOMAIN visited' = Objects
      /\ \A p \in Objects : visited'[p] \in Seq(ToSet(visited'[p]))
      /\ \A p \in Objects : p # o => visited'[p] = visited[p]
      /\ o \in Objects => /\ Def[o].kind = "simple" /\ idx \in Combinations(o) /\ o \in asked \ Cached
                          /\ IsInjective(visited'[o])
                          /\ ToSet(visited'[o]) = CombinationsBefore(o, idx) \cup {idx}
  BY CollectVisited DEF CollectsFor
<1>9. \A i \in 1 .. m : i \in DOMAIN stack /\ (o \in Objects => stack[i].obj # o)
  <2> TAKE i \in 1 .. m
  <2>1. i \in DOMAIN stack /\ i # n
    BY <1>2, <1>3
  <2> QED
    BY <1>1, <2>1, DefAssumption DEF OwnerInv, CollectsFor
<1>10. Cached' \subseteq asked' /\ DOMAIN stack' = 1 .. m
  <2>1. \A p \in Objects : p \in Cached' => p \in Cached \/ p = o
    BY <1>7 DEF Cached
  <2> QED
    BY <1>1, <1>6, <1>8, <2>1 DEF OwnerInv, Cached
<1>11. \A i \in 1 .. m : stack[i].obj \notin Cached' \ Cached
  BY <1>7, <1>9 DEF Cached
<1>12. StackInv' /\ OwnerInv'
  BY <1>6, <1>7, <1>9, <1>10, <1>11, OwnersKept
<1>13. EveryCombination'
  <2>1. ASSUME NEW p \in Cached', Def[p].kind = "simple", rcache'[p].sound
        PROVE  IsInjective(visited'[p]) /\ ToSet(visited'[p]) = Combinations(p)
    <3>0. p \in Objects
      BY DEF Cached
    <3>1. CASE p = o
      <4>1. Combinations(o) = CombinationsBefore(o, idx) \cup {idx}
        BY <1>8, <2>1, <3>0, <3>1, LastCombination
      <4> QED
        BY <1>8, <3>0, <3>1, <4>1
    <3>2. CASE p # o
      <4>1. rcache'[p] = rcache[p] /\ visited'[p] = visited[p] /\ p \in Cached
        BY <1>7, <1>8, <3>0, <3>2 DEF Cached
      <4>2. CollectedFor(p, Combinations(p))
        BY <1>1, <2>1, <4>1 DEF VisitedInv, EveryCombination
      <4> QED
        BY <4>1, <4>2 DEF CollectedFor
    <3> QED
      BY <3>1, <3>2
  <2> QED
    BY <2>1 DEF EveryCombination, CollectedFor, Combinations
<1>14. \A i \in DOMAIN stack' : stack'[i].obj \in Objects =>
          stack'[i].kind = Def[stack'[i].obj].kind /\ stack'[i].kind # "simple"
  <2>1. \A i \in 1 .. m : stack'[i].kind = "set" /\ stack[i].kind = "set"
    BY <1>6 DEF IsSetFrame
  <2> QED
    BY <1>1, <1>6, <1>9, <1>10, <2>1 DEF VisitedInv
<1>15. \A p \in Objects \ asked' : visited'[p] = <<>>
  BY <1>1, <1>8 DEF VisitedInv
<1>16. VisitedInv'
  BY <1>8, <1>13, <1>14, <1>15 DEF VisitedInv
<1> QED
  BY <1>12, <1>16 DEF CollectionInv

\* The worker goes on with the next combination.
GoesOn(n, o) ==
    \E out : stack' = SetTop([stack[n] EXCEPT !.out = out, !.idx = Advance(@, Def[o].values)])

LEMMA CollectGoesOn ==
  ASSUME CollectionInv, NEW n \in Nat, NEW o, NEW idx, CollectsFor(n, o, idx),
         ~Exhausted(idx, Def[o].values), asked' = asked, rcache' = rcache, GoesOn(n, o)
  PROVE  CollectionInv'
<1>1. stack # <<>> /\ OwnerInv /\ VisitedInv
  BY DEF CollectionInv, CollectsFor
<1>2. /\ Len(stack) > 0 /\ stack \in Seq(ToSet(stack)) /\ DOMAIN stack = 1 .. n
      /\ \A i \in 1 .. n - 1 : i \in 1 .. n /\ IsSetFrame(stack[i])
      /\ IsSimpleFrame(stack[n])
  <2>1. /\ Len(stack) > 0 /\ stack \in Seq(ToSet(stack)) /\ DOMAIN stack = 1 .. n
        /\ \A i \in 1 .. n - 1 : i \in 1 .. n /\ IsSetFrame(stack[i])
    BY <1>1, InnermostShape DEF CollectsFor
  <2> QED
    BY <2>1, StackShape DEF CollectsFor
<1>3. PICK out, d, g : /\ d = Advance(idx, Def[o].values)
                      /\ g = [stack[n] EXCEPT !.out = out, !.idx = d] /\ stack' = SetTop(g)
  BY DEF GoesOn, CollectsFor
<1>4. g = [kind |-> "simple", obj |-> o, idx |-> d, out |-> out]
  <2>1. PICK f, i, t : f = stack[n] /\ f = [kind |-> "simple", obj |-> o, idx |-> i, out |-> t]
    BY <1>2 DEF IsSimpleFrame, CollectsFor
  <2>2. PICK h : h = [f EXCEPT !.out = out]
    OBVIOUS
  <2>3. h = [kind |-> "simple", obj |-> o, idx |-> i, out |-> out]
    BY <2>1, <2>2
  <2>4. g = [h EXCEPT !.idx = d]
    BY <1>3, <2>1, <2>2 DEF CollectsFor
  <2> QED
    BY <2>3, <2>4
<1>5. stack' = [stack EXCEPT ![n] = g]
  BY <1>3 DEF SetTop, CollectsFor
<1>6. PICK st : st = stack
  OBVIOUS
<1>60. PICK S : S = ToSet(stack) \cup {g}
  OBVIOUS
<1>61. Len(st) = n
  BY <1>6 DEF CollectsFor
<1>7. st \in Seq(S) /\ g \in S /\ n \in Nat
  BY <1>2, <1>6, <1>60
<1>8. /\ Told(st, n, g) \in Seq(S) /\ Len(Told(st, n, g)) = Len(st)
      /\ \A i \in 1 .. Len(st) : Told(st, n, g)[i] = IF i = n THEN g ELSE st[i]
  <2>1. IsTold(Told(st, n, g), st, n, g, S)
    BY <1>7, ToldShape
  <2> QED
    BY <2>1 DEF IsTold
<1>9. /\ stack' \in Seq(S) /\ Len(stack') = n /\ DOMAIN stack' = 1 .. n
      /\ \A i \in 1 .. n : stack'[i] = IF i = n THEN g ELSE stack[i]
  <2>1. stack' = Told(st, n, g)
    BY <1>5, <1>6 DEF Told
  <2>2. /\ stack' \in Seq(S) /\ Len(stack') = n
        /\ \A i \in 1 .. n : stack'[i] = IF i = n THEN g ELSE st[i]
    BY <1>61, <1>8, <2>1
  <2> QED
    BY <1>6, <2>2
<1>10. \A i \in 1 .. n : i = n \/ i \in 1 .. n - 1
  OBVIOUS
<1>11. IsSimpleFrame(g) /\ g.obj = o /\ g.kind = "simple" /\ g.idx = d
  BY <1>4 DEF IsSimpleFrame
<1>12. Cached' = Cached /\ Cached' \subseteq asked' /\ DOMAIN rcache' = Objects
  BY <1>1 DEF OwnerInv, Cached
<1>13. \A i \in 1 .. n : /\ IsSetFrame(stack'[i]) \/ (i = n /\ IsSimpleFrame(stack'[i]))
                         /\ stack'[i].obj = stack[i].obj
  <2> TAKE i \in 1 .. n
  <2>1. CASE i = n
    BY <1>9, <1>11, <2>1 DEF CollectsFor
  <2>2. CASE i \in 1 .. n - 1
    <3>1. stack'[i] = stack[i] /\ IsSetFrame(stack[i])
      BY <1>2, <1>9, <2>2
    <3> QED
      BY <3>1
  <2> QED
    BY <1>10, <2>1, <2>2
<1>14. StackInv' /\ OwnerInv'
  BY <1>2, <1>9, <1>12, <1>13, OwnersKept
<1>15. /\ DOMAIN visited' = Objects
       /\ \A p \in Objects : visited'[p] \in Seq(ToSet(visited'[p]))
       /\ \A p \in Objects : p # o => visited'[p] = visited[p]
       /\ o \in Objects => /\ Def[o].kind = "simple" /\ idx \in Combinations(o) /\ o \in asked \ Cached
                           /\ IsInjective(visited'[o])
                           /\ ToSet(visited'[o]) = CombinationsBefore(o, idx) \cup {idx}
  BY CollectVisited DEF CollectsFor
<1>16. EveryCombination'
  <2>1. ASSUME NEW p \in Cached, Def[p].kind = "simple", rcache[p].sound
        PROVE  IsInjective(visited'[p]) /\ ToSet(visited'[p]) = Combinations(p)
    <3>1. p \in Objects /\ p # o
      BY <1>15 DEF Cached
    <3>2. CollectedFor(p, Combinations(p))
      BY <1>1, <2>1 DEF VisitedInv, EveryCombination
    <3> QED
      BY <1>15, <3>1, <3>2 DEF CollectedFor
  <2> QED
    BY <1>12, <2>1 DEF EveryCombination, CollectedFor, Combinations
<1>17. ASSUME o \in Objects
       PROVE  /\ d \in Combinations(o) /\ IsInjective(visited'[o])
              /\ ToSet(visited'[o]) = CombinationsBefore(o, d)
  BY <1>3, <1>15, <1>17, NextCombination
<1>18. ASSUME NEW i \in 1 .. n, stack'[i].obj \in Objects
       PROVE  /\ stack'[i].kind = Def[stack'[i].obj].kind
              /\ stack'[i].kind = "simple" =>
                    /\ stack'[i].idx \in Combinations(stack'[i].obj)
                    /\ IsInjective(visited'[stack'[i].obj])
                    /\ ToSet(visited'[stack'[i].obj]) = CombinationsBefore(stack'[i].obj, stack'[i].idx)
  <2>1. CASE i = n
    BY <1>9, <1>11, <1>15, <1>17, <1>18, <2>1
  <2>2. CASE i \in 1 .. n - 1
    <3>1. stack'[i] = stack[i] /\ i \in DOMAIN stack /\ IsSetFrame(stack[i])
      BY <1>2, <1>9, <2>2
    <3>2. stack[i].kind = "set"
      BY <3>1 DEF IsSetFrame
    <3> QED
      BY <1>1, <1>18, <3>1, <3>2 DEF VisitedInv
  <2> QED
    BY <1>10, <2>1, <2>2
<1>19. \A p \in Objects \ asked' : visited'[p] = <<>>
  BY <1>1, <1>15 DEF VisitedInv
<1>20. VisitedInv'
  <2>1. ASSUME NEW i \in DOMAIN stack', stack'[i].obj \in Objects
        PROVE  /\ stack'[i].kind = Def[stack'[i].obj].kind
               /\ stack'[i].kind = "simple" =>
                     /\ stack'[i].idx \in Combinations(stack'[i].obj)
                     /\ CollectedFor(stack[i].obj, CombinationsBefore(stack[i].obj, stack[i].idx))'
    <3>1. i \in 1 .. n
      BY <1>9, <2>1
    <3>2. PICK p, e : p = stack'[i].obj /\ e = stack'[i].idx
      OBVIOUS
    <3>3. ASSUME IsInjective(visited'[p]), ToSet(visited'[p]) = CombinationsBefore(p, e)
          PROVE  CollectedFor(stack[i].obj, CombinationsBefore(stack[i].obj, stack[i].idx))'
      <4>1. ToSet(visited'[stack'[i].obj]) = CombinationsBefore(stack'[i].obj, stack'[i].idx)
        BY <3>2, <3>3
      <4>2. IsInjective(visited'[stack'[i].obj])
        BY <3>2, <3>3
      <4> QED
        BY <4>1, <4>2 DEF CollectedFor, CombinationsBefore, Earlier, Combinations
    <3> QED
      BY <1>18, <2>1, <3>1, <3>2, <3>3
  <2> QED
    BY <1>15, <1>16, <1>19, <2>1 DEF VisitedInv, Combinations
<1> QED
  BY <1>14, <1>20 DEF CollectionInv


LEMMA CollectStep ==
  ASSUME CollectionInv, Collect
  PROVE  CollectionInv'
<1>1. stack # <<>> /\ Top.kind = "simple" /\ asked' = asked
  BY DEF Collect
<1>2. PICK n \in Nat : n = Len(stack) /\ n \in 1 .. n /\ Top = stack[n] /\ DOMAIN stack = 1 .. n
  BY <1>1, InnermostShape
<1>3. PICK items, flag, ret, truth :
         CollectOnce(Top, United(Top.out, CollectedBy(items, flag, ret, truth)), ret)
  BY DEF Collect
<1>30. PICK out : out = United(Top.out, CollectedBy(items, flag, ret, truth))
  OBVIOUS
<1>31. CollectOnce(Top, out, ret)
  BY <1>3, <1>30
<1>4. PICK o, idx : o = Top.obj /\ idx = Top.idx
  OBVIOUS
<1>5. CollectsFor(n, o, idx)
  BY <1>1, <1>2, <1>31, <1>4 DEF CollectsFor, CollectOnce
<1>6. CASE ret = 0 /\ ~Exhausted(idx, Def[o].values)
  <2>1. /\ stack' = SetTop([Top EXCEPT !.out = out, !.idx = Advance(@, Def[Top.obj].values)])
        /\ rcache' = rcache
    BY <1>31, <1>4, <1>6 DEF CollectOnce
  <2>2. GoesOn(n, o)
    BY <1>2, <1>4, <2>1 DEF GoesOn
  <2> QED
    BY <1>1, <1>5, <1>6, <2>1, <2>2, CollectGoesOn
<1>7. CASE ~(ret = 0 /\ ~Exhausted(idx, Def[o].values))
  <2>1. PICK a : Finish(o, out, a, Front(stack))
    BY <1>31, <1>4, <1>7 DEF CollectOnce
  <2>2. ASSUME o \in Objects, rcache'[o].sound
        PROVE  Exhausted(idx, Def[o].values)
    <3>1. DOMAIN rcache = Objects
      BY DEF CollectionInv, OwnerInv
    <3>2. rcache'[o] = [out EXCEPT !.items = ListSort(@)]
      BY <2>1, <2>2, <3>1 DEF Finish
    <3>3. PICK t : t = Top.out
      OBVIOUS
    <3>4. [United(t, CollectedBy(items, flag, ret, truth)) EXCEPT !.items = ListSort(@)].sound
      BY <1>30, <2>2, <3>2, <3>3
    <3>5. ret = 0
      BY ONLY <3>4, SoundRun
    <3> QED
      BY <1>7, <3>5
  <2> QED
    BY <1>1, <1>5, <2>1, <2>2, CollectEnds
<1> QED
  BY <1>6, <1>7

LEMMA NoStep ==
  ASSUME CollectionInv, UNCHANGED vars
  PROVE  CollectionInv'
<1>1. rcache' = rcache /\ asked \subseteq asked' /\ stack' = stack /\ visited' = visited
  BY DEF vars
<1>2. PICK m \in Nat : m = Len(stack) /\ stack \in Seq(ToSet(stack))
  BY StackShape
<1>3. PICK S : stack' \in Seq(S) /\ Len(stack') = m /\ m <= Len(stack) /\ \A i \in 1 .. m : stack'[i] = stack[i]
  BY <1>1, <1>2
<1> QED
  BY <1>1, <1>3, WorkersKept

LEMMA InitEstablishes ==
  ASSUME Init
  PROVE  CollectionInv
<1>1. Cached = {} /\ DOMAIN rcache = Objects /\ stack = <<>> /\ DOMAIN stack = {}
  BY DEF Init, Cached
<1>2. StackInv
  BY <1>1 DEF StackInv
<1>3. OwnerInv
  BY <1>1 DEF OwnerInv
<1>4. VisitedInv
  BY <1>1 DEF VisitedInv, EveryCombination, Init
<1> QED
  BY <1>2, <1>3, <1>4 DEF CollectionInv

-----------------------------------------------------------------------------
(***************************************************************************)
(* The results.                                                            *)
(***************************************************************************)
\* Workers, requests and the combinations visited are in step, always.
THEOREM CollectionInvariance == Spec => []CollectionInv
<1>1. Init => CollectionInv
  BY InitEstablishes
<1>2. ASSUME CollectionInv, [Next]_vars
      PROVE  CollectionInv'
  <2>1. CASE UNCHANGED vars
    BY <1>2, <2>1, NoStep
  <2>2. ASSUME NEW o \in Objects, Query(o) \/ QuerySkipped(o)
        PROVE  CollectionInv'
    BY <1>2, <2>2, QueryStep, QuerySkippedStep
  <2>3. CASE Collect
    BY <1>2, <2>3, CollectStep
  <2>4. CASE RefHit
    BY <1>2, <2>4, RefHitStep
  <2>5. CASE RefMiss
    BY <1>2, <2>5, RefMissStep
  <2>6. CASE RefFail
    BY <1>2, <2>6, RefFailStep
  <2>7. CASE Nested
    BY <1>2, <2>7, NestedStep
  <2>8. CASE \E sent \in BOOLEAN : Evaluate(sent)
    BY <1>2, <2>8, EvaluateStep
  <2> QED
    BY <1>2, <2>1, <2>2, <2>3, <2>4, <2>5, <2>6, <2>7, <2>8 DEF Next
<1> QED
  BY <1>1, <1>2, PTL DEF Spec

\* No object is evaluated by two workers at once, or again once its result is
\* cached, whatever the references of the sets: probe_worker_runfn never adds
\* a result the cache already has.
THEOREM NoObjectTwice == Spec => []NoReentry
<1>1. CollectionInv => NoReentry
  BY DEF CollectionInv, OwnerInv, NoReentry
<1> QED
  BY <1>1, CollectionInvariance, PTL

\* The loop of probe_worker over probe_varref_iterate_ctx collects a simple
\* object for every combination of its variables' values exactly once, for any
\* number of variables and values, unless a run failed.
THEOREM CombinationsExact == Spec => []EveryCombination
<1>1. CollectionInv => EveryCombination
  BY DEF CollectionInv, VisitedInv
<1> QED
  BY <1>1, CollectionInvariance, PTL

-----------------------------------------------------------------------------
(***************************************************************************)
(* The contents of collected objects.                                      *)
(***************************************************************************)
\* The correction for an empty list, where "empty" is what the code tests.
LEMMA EmptiedFlag ==
  ASSUME NEW f \in Flags, NEW empty
  PROVE  Emptied(f, empty) \in Flags
BY DEF Emptied, Flags

LEMMA EmptiedKeeps ==
  ASSUME NEW f \in Flags, NEW empty, NEW R, NEW T, empty => R = {}, Describes(f, R, T)
  PROVE  Describes(Emptied(f, empty), R, T)
<1>1. CASE f = "COMPLETE" /\ empty
  BY <1>1 DEF Describes, Emptied
<1>2. CASE ~(f = "COMPLETE" /\ empty)
  BY <1>2 DEF Emptied
<1> QED
  BY <1>1, <1>2

LEMMA ExistingOf ==
  ASSUME NEW s, NEW t, NEW u, NEW op \in Operations,
         ToSet(u) = SetOperation(op, ToSet(s), ToSet(t))
  PROVE  Existing(u) = SetOperation(op, Existing(s), Existing(t))
BY DEF Existing, SetOperation, Operations

LEMMA NothingExists ==
  ASSUME NEW s, s = <<>>
  PROVE  Existing(s) = {}
BY DEF Existing, ToSet

LEMMA AscendingInjective ==
  ASSUME NEW s \in Seq(Nat), Ascending(s)
  PROVE  IsInjective(s)
<1>1. PICK n \in Nat : n = Len(s) /\ DOMAIN s = 1 .. n /\ \A i \in 1 .. n : s[i] \in Nat
  OBVIOUS
<1>2. ASSUME NEW i \in 1 .. n, NEW j \in 1 .. n, s[i] = s[j]
      PROVE  i = j
  <2>1. s[i] \in Nat /\ s[j] \in Nat
    BY <1>1
  <2>2. i < j => s[i] < s[j]
    BY <1>1 DEF Ascending
  <2>3. j < i => s[j] < s[i]
    BY <1>1 DEF Ascending
  <2> QED
    BY <1>2, <2>1, <2>2, <2>3
<1> QED
  BY <1>1, <1>2 DEF IsInjective

\* The record of a collected object from its fields.
Cobj(f, i, s, t, b, c) == [flag |-> f, items |-> i, set |-> s, truth |-> t, sound |-> b, clean |-> c]

LEMMA CobjFields ==
  ASSUME NEW f, NEW i, NEW s, NEW t, NEW b, NEW c, NEW x, x = Cobj(f, i, s, t, b, c)
  PROVE  /\ x.flag = f /\ x.items = i /\ x.set = s /\ x.truth = t /\ x.sound = b /\ x.clean = c
         /\ x # None
         /\ f \in Flags => IsCollected(x)
<1>1. x = [flag |-> f, items |-> i, set |-> s, truth |-> t, sound |-> b, clean |-> c]
  BY DEF Cobj
<1>2. x.flag = f /\ x.items = i /\ x.set = s /\ x.truth = t /\ x.sound = b /\ x.clean = c
  BY <1>1
<1>3. x # None
  BY <1>1 DEF None
<1> QED
  BY <1>1, <1>2, <1>3 DEF IsCollected

LEMMA CobjShape ==
  ASSUME NEW x, IsCollected(x)
  PROVE  /\ x = Cobj(x.flag, x.items, x.set, x.truth, x.sound, x.clean) /\ x # None
         /\ x.flag \in Flags
<1>1. x = Cobj(x.flag, x.items, x.set, x.truth, x.sound, x.clean) /\ x.flag \in Flags
  BY DEF IsCollected, Cobj
<1>2. PICK f, i, s, t, b, c : x = Cobj(f, i, s, t, b, c)
  BY <1>1
<1> QED
  BY <1>1, <1>2, CobjFields

LEMMA ErrorSorted ==
  ASSUME NEW f, f = "ERROR" \/ f = "DOES_NOT_EXIST"
  PROVE  SortedObject([ErrorObject EXCEPT !.flag = f]) /\ SortedObject(ErrorObject)
<1>1. ASSUME NEW g, g = "ERROR" \/ g = "DOES_NOT_EXIST", NEW x, x = Cobj(g, <<>>, {}, {}, TRUE, TRUE)
      PROVE  SortedObject(x)
  <2>1. /\ x.flag = g /\ x.items = <<>> /\ x.set = {} /\ x.truth = {}
        /\ g \in Flags => IsCollected(x)
    <3>1. PICK i, s, b : i = <<>> /\ s = {} /\ b = TRUE
      OBVIOUS
    <3>2. x = Cobj(g, i, s, s, b, b)
      BY <1>1, <3>1
    <3>3. x.flag = g /\ x.items = i /\ x.set = s /\ x.truth = s /\ (g \in Flags => IsCollected(x))
      BY <3>2, CobjFields
    <3> QED
      BY <3>1, <3>3
  <2>2. g \in Flags
    BY <1>1 DEF Flags
  <2>3. <<>> \in Seq(Nat) /\ Ascending(<<>>) /\ ToSet(<<>>) = {} /\ Existing(<<>>) = {}
    BY DEF Ascending, ToSet, Existing
  <2>4. Describes(g, {}, {})
    BY <1>1 DEF Describes
  <2> QED
    BY <2>1, <2>2, <2>3, <2>4 DEF SortedObject
<1>2. ErrorObject = Cobj("ERROR", <<>>, {}, {}, TRUE, TRUE)
  BY DEF ErrorObject, Cobj
<1>3. [ErrorObject EXCEPT !.flag = f] = Cobj(f, <<>>, {}, {}, TRUE, TRUE)
  <2>1. PICK e, g, i, s, b : e = ErrorObject /\ g = "ERROR" /\ i = <<>> /\ s = {} /\ b = TRUE
    OBVIOUS
  <2>2. e = [flag |-> g, items |-> i, set |-> s, truth |-> s, sound |-> b, clean |-> b]
    BY <2>1 DEF ErrorObject
  <2>3. [e EXCEPT !.flag = f] = [flag |-> f, items |-> i, set |-> s, truth |-> s, sound |-> b, clean |-> b]
    BY ONLY <2>2
  <2> QED
    BY <2>1, <2>3 DEF Cobj
<1> QED
  BY <1>1, <1>2, <1>3

\* The result that is cached: whatever a worker ends with, sorted.
LEMMA FinishedSorted ==
  ASSUME NEW c, SortedObject(c) \/ UnitedObject(c)
  PROVE  SortedObject([c EXCEPT !.items = ListSort(@)])
<1>1. IsCollected(c)
  BY DEF SortedObject, UnitedObject
<1>2. PICK f, i, s, t, b, k : /\ f = c.flag /\ i = c.items /\ s = c.set /\ t = c.truth
                              /\ b = c.sound /\ k = c.clean
  OBVIOUS
<1>3. c = Cobj(f, i, s, t, b, k) /\ f \in Flags
  BY <1>1, <1>2, CobjShape
<1>4. PICK x, l : x = [c EXCEPT !.items = ListSort(@)] /\ l = ListSort(i)
  OBVIOUS
<1>5. x = Cobj(f, l, s, t, b, k)
  BY <1>2, <1>3, <1>4 DEF Cobj
<1>6. /\ x.flag = f /\ x.items = l /\ x.set = s /\ x.truth = t /\ x.sound = b /\ x.clean = k
      /\ IsCollected(x)
  BY <1>3, <1>5, CobjFields
<1>7. ASSUME k
      PROVE  i \in Seq(Nat) /\ IsInjective(i) /\ ToSet(i) = s
  <2>1. CASE SortedObject(c)
    <3>1. i \in Seq(Nat) /\ Ascending(i) /\ ToSet(i) = s
      BY <1>2, <1>7, <2>1 DEF SortedObject
    <3> QED
      BY <3>1, AscendingInjective
  <2>2. CASE UnitedObject(c)
    BY <1>2, <1>7, <2>2 DEF UnitedObject
  <2> QED
    BY <2>1, <2>2
<1>8. ASSUME k
      PROVE  l \in Seq(Nat) /\ Ascending(l) /\ ToSet(l) = s /\ ToSet(l) = ToSet(i)
  <2>1. i \in Seq(Nat) /\ IsInjective(i) /\ ToSet(i) = s
    BY <1>7, <1>8
  <2>2. ListSort(i) \in Seq(Nat) /\ Ascending(ListSort(i)) /\ ToSet(ListSort(i)) = ToSet(i)
    BY <2>1, ListSortSorts
  <2> QED
    BY <1>4, <2>1, <2>2
<1>9. ASSUME b, k
      PROVE  Describes(f, Existing(l), t)
  <2>1. Describes(f, Existing(i), t)
    BY <1>2, <1>9 DEF SortedObject, UnitedObject
  <2>2. Existing(l) = Existing(i)
    BY <1>8, <1>9 DEF Existing
  <2> QED
    BY <2>1, <2>2
<1>10. SortedObject(x)
  BY <1>6, <1>8, <1>9 DEF SortedObject
<1> QED
  BY <1>4, <1>10

\* The fields of what probe_set_combine gives for two objects.
Combined(c, d, op, x) ==
  /\ IsCollected(x)
  /\ x.items = Merge(op, c.items, d.items)
  /\ x.flag = Emptied(CombineFlags(c.flag, d.flag, op), x.items = <<>>)
  /\ x.set = SetOperation(op, c.set, d.set)
  /\ x.truth = SetOperation(op, c.truth, d.truth)
  /\ x.sound => c.sound /\ d.sound
  /\ x.clean => c.clean /\ d.clean

LEMMA CombineFields ==
  ASSUME NEW c, NEW d, IsCollected(c), IsCollected(d), NEW op \in Operations, NEW x,
         x = Combine(c, d, op)
  PROVE  Combined(c, d, op, x)
<1>1. c # None /\ d # None /\ c.flag \in Flags /\ d.flag \in Flags
  BY CobjShape
<1>2. PICK l, e, f, s, t, b, k :
         /\ l = Merge(op, c.items, d.items) /\ e = (l = <<>>)
         /\ f = Emptied(CombineFlags(c.flag, d.flag, op), l = <<>>)
         /\ s = SetOperation(op, c.set, d.set) /\ t = SetOperation(op, c.truth, d.truth)
         /\ b = (c.sound /\ d.sound) /\ k = (c.clean /\ d.clean)
  OBVIOUS
<1>3. x = Cobj(f, l, s, t, b, k)
  BY <1>1, <1>2 DEF Combine, Cobj
<1>4. f \in Flags
  <2>1. CombineFlags(c.flag, d.flag, op) \in Flags
    BY <1>1, CombineFlagsType
  <2> QED
    BY <1>2, <2>1, EmptiedFlag
<1>5. /\ x.flag = f /\ x.items = l /\ x.set = s /\ x.truth = t /\ x.sound = b /\ x.clean = k
      /\ IsCollected(x)
  BY <1>3, <1>4, CobjFields
<1> QED
  BY <1>2, <1>5 DEF Combined

\* A combination claims nothing false when its list is the right one.
LEMMA CombinedDescribes ==
  ASSUME NEW c, NEW d, NEW op \in Operations, NEW x, Combined(c, d, op, x),
         c.flag \in Flags, d.flag \in Flags,
         ToSet(x.items) = SetOperation(op, ToSet(c.items), ToSet(d.items)),
         Describes(c.flag, Existing(c.items), c.truth), Describes(d.flag, Existing(d.items), d.truth)
  PROVE  Describes(x.flag, Existing(x.items), x.truth)
<1>1. PICK R, T, f : /\ R = Existing(x.items) /\ T = x.truth /\ f = CombineFlags(c.flag, d.flag, op)
  OBVIOUS
<1>2. R = SetOperation(op, Existing(c.items), Existing(d.items))
  BY <1>1, ExistingOf
<1>3. T = SetOperation(op, c.truth, d.truth)
  BY <1>1 DEF Combined
<1>4. Describes(f, R, T)
  BY <1>1, <1>2, <1>3, CombineFlagsSound
<1>5. f \in Flags
  BY <1>1, CombineFlagsType
<1>6. (x.items = <<>>) => R = {}
  BY <1>1, NothingExists
<1>7. Describes(Emptied(f, x.items = <<>>), R, T)
  BY <1>4, <1>5, <1>6, EmptiedKeeps
<1> QED
  BY <1>1, <1>7 DEF Combined

LEMMA CombineSorted ==
  ASSUME NEW c, NEW d, SortedObject(c), SortedObject(d), NEW op \in Operations
  PROVE  SortedObject(Combine(c, d, op))
<1>1. PICK x : x = Combine(c, d, op)
  OBVIOUS
<1>2. Combined(c, d, op, x) /\ c.flag \in Flags /\ d.flag \in Flags
  <2>1. IsCollected(c) /\ IsCollected(d)
    BY DEF SortedObject
  <2> QED
    BY <1>1, <2>1, CombineFields, CobjShape
<1>3. ASSUME x.clean
      PROVE  /\ x.items \in Seq(Nat) /\ Ascending(x.items) /\ ToSet(x.items) = x.set
             /\ ToSet(x.items) = SetOperation(op, ToSet(c.items), ToSet(d.items))
  <2>1. /\ c.items \in Seq(Nat) /\ Ascending(c.items) /\ ToSet(c.items) = c.set
        /\ d.items \in Seq(Nat) /\ Ascending(d.items) /\ ToSet(d.items) = d.set
    BY <1>2, <1>3 DEF Combined, SortedObject
  <2>2. PICK s, t, l : s = c.items /\ t = d.items /\ l = x.items /\ l = Merge(op, s, t)
    BY <1>2 DEF Combined
  <2>3. l \in Seq(Nat) /\ Ascending(l) /\ ToSet(l) = SetOperation(op, ToSet(s), ToSet(t))
    BY <2>1, <2>2, MergeExact
  <2>4. x.set = SetOperation(op, ToSet(s), ToSet(t))
    BY <1>2, <2>1, <2>2 DEF Combined
  <2> QED
    BY <2>2, <2>3, <2>4
<1>4. ASSUME x.sound, x.clean
      PROVE  Describes(x.flag, Existing(x.items), x.truth)
  <2>1. Describes(c.flag, Existing(c.items), c.truth) /\ Describes(d.flag, Existing(d.items), d.truth)
    BY <1>2, <1>4 DEF Combined, SortedObject
  <2> QED
    BY <1>2, <1>3, <1>4, <2>1, CombinedDescribes
<1> QED
  BY <1>1, <1>2, <1>3, <1>4 DEF SortedObject, Combined

\* Filtering keeps a flag rightful, the list sorted and its items exact.
LEMMA FilterSorted ==
  ASSUME NEW c, SortedObject(c), NEW filters
  PROVE  SortedObject(ApplyFilters(c, filters))
<1>1. PICK kept : kept = {x \in Items : Status[x] # "DOES_NOT_EXIST" /\ ~ItemFiltered(x, filters)}
  OBVIOUS
<1>2. PICK f, i, s, t, b, k : /\ f = c.flag /\ i = c.items /\ s = c.set /\ t = c.truth
                              /\ b = c.sound /\ k = c.clean
  OBVIOUS
<1>3. c = Cobj(f, i, s, t, b, k) /\ f \in Flags
  <2>1. IsCollected(c)
    BY DEF SortedObject
  <2> QED
    BY <1>2, <2>1, CobjShape
<1>4. PICK l, g, x : /\ l = Restricted(i, kept) /\ g = Emptied(f, l = <<>>)
                     /\ x = [c EXCEPT !.flag = g, !.items = l, !.set = @ \cap kept, !.truth = @ \cap kept]
  OBVIOUS
<1>5. ApplyFilters(c, filters) = x \/ ApplyFilters(c, filters) = ErrorObject
  BY <1>1, <1>2, <1>4 DEF ApplyFilters
<1>6. x = Cobj(g, l, s \cap kept, t \cap kept, b, k)
  <2>1. PICK u, v : u = s \cap kept /\ v = t \cap kept
    OBVIOUS
  <2>2. x = [c EXCEPT !.flag = g, !.items = l, !.set = u, !.truth = v]
    BY <1>2, <1>4, <2>1
  <2>3. c = [flag |-> f, items |-> i, set |-> s, truth |-> t, sound |-> b, clean |-> k]
    BY <1>3 DEF Cobj
  <2>4. PICK c1 : c1 = [c EXCEPT !.flag = g]
    OBVIOUS
  <2>5. PICK c2 : c2 = [c1 EXCEPT !.items = l]
    OBVIOUS
  <2>6. PICK c3 : c3 = [c2 EXCEPT !.set = u]
    OBVIOUS
  <2>7. x = [c3 EXCEPT !.truth = v]
    BY <2>2, <2>4, <2>5, <2>6
  <2>8. c1 = [flag |-> g, items |-> i, set |-> s, truth |-> t, sound |-> b, clean |-> k]
    BY ONLY <2>3, <2>4
  <2>9. c2 = [flag |-> g, items |-> l, set |-> s, truth |-> t, sound |-> b, clean |-> k]
    BY ONLY <2>5, <2>8
  <2>10. c3 = [flag |-> g, items |-> l, set |-> u, truth |-> t, sound |-> b, clean |-> k]
    BY ONLY <2>6, <2>9
  <2>11. x = [flag |-> g, items |-> l, set |-> u, truth |-> v, sound |-> b, clean |-> k]
    BY ONLY <2>7, <2>10
  <2> QED
    BY <2>1, <2>11 DEF Cobj
<1>7. g \in Flags
  BY <1>3, <1>4, EmptiedFlag
<1>8. /\ x.flag = g /\ x.items = l /\ x.set = s \cap kept /\ x.truth = t \cap kept
      /\ x.sound = b /\ x.clean = k /\ IsCollected(x)
  <2>1. PICK u, v : u = s \cap kept /\ v = t \cap kept
    OBVIOUS
  <2>2. x = Cobj(g, l, u, v, b, k)
    BY <1>6, <2>1
  <2>3. /\ x.flag = g /\ x.items = l /\ x.set = u /\ x.truth = v
        /\ x.sound = b /\ x.clean = k /\ IsCollected(x)
    BY <1>7, <2>2, CobjFields
  <2> QED
    BY <2>1, <2>3
<1>9. ASSUME k
      PROVE  l \in Seq(Nat) /\ Ascending(l) /\ ToSet(l) = ToSet(i) \cap kept /\ ToSet(i) = s
  <2>1. i \in Seq(Nat) /\ Ascending(i) /\ ToSet(i) = s
    BY <1>2, <1>9 DEF SortedObject
  <2> QED
    BY <1>4, <2>1, RestrictedExact
<1>10. ASSUME b, k
       PROVE  Describes(g, Existing(l), t \cap kept)
  <2>1. Describes(f, Existing(i), t)
    BY <1>2, <1>10 DEF SortedObject
  <2>2. Existing(l) = Existing(i) \cap kept
    BY <1>9, <1>10 DEF Existing
  <2>3. PICK R, T : R = Existing(i) \cap kept /\ T = t \cap kept
    OBVIOUS
  <2>4. Describes(f, R, T)
    BY <1>3, <2>1, <2>3 DEF Describes, Flags
  <2>5. l = <<>> => R = {}
    BY <2>2, <2>3, NothingExists
  <2>6. Describes(Emptied(f, l = <<>>), R, T)
    BY <1>3, <2>4, <2>5, EmptiedKeeps
  <2> QED
    BY <1>4, <2>2, <2>3, <2>6
<1>11. SortedObject(x)
  BY <1>8, <1>9, <1>10 DEF SortedObject
<1>12. SortedObject(ErrorObject)
  <2>1. PICK e : e = "ERROR"
    OBVIOUS
  <2> QED
    BY <2>1, ErrorSorted
<1> QED
  BY <1>5, <1>11, <1>12

\* What one run of probe_main reports, with the flag computed for it.
Reported(x, ret) ==
  /\ IsCollected(x) /\ x.items \in Seq(Nat) /\ ToSet(x.items) = x.set
  /\ x.sound => ret = 0
  /\ ret = 0 => Describes(x.flag, Existing(x.items), x.truth)

LEMMA RunReported ==
  ASSUME NEW items \in Seq(Items), NEW flag \in {"UNKNOWN", "INCOMPLETE", "NOT_APPLICABLE", "ERROR"},
         NEW ret, NEW truth, Honest(items, flag, ret, truth)
  PROVE  Reported(CollectedBy(items, flag, ret, truth), ret)
<1>1. PICK x, g, S, b, k : /\ x = CollectedBy(items, flag, ret, truth)
                        /\ g = (IF flag = "UNKNOWN" THEN ComputeFlag(items) ELSE flag)
                        /\ S = ToSet(items) /\ b = (ret = 0) /\ k = TRUE
  OBVIOUS
<1>2. x = Cobj(g, items, S, truth, b, k)
  BY <1>1 DEF CollectedBy, Cobj
<1>3. PICK st : st = {Status[items[i]] : i \in DOMAIN items}
  OBVIOUS
<1>4. /\ "ERROR" \in st => ComputeFlag(items) = "ERROR"
      /\ "ERROR" \notin st /\ "NOT_COLLECTED" \in st => ComputeFlag(items) = "INCOMPLETE"
      /\ "ERROR" \notin st /\ "NOT_COLLECTED" \notin st /\ "EXISTS" \in st => ComputeFlag(items) = "COMPLETE"
      /\ "ERROR" \notin st /\ "NOT_COLLECTED" \notin st /\ "EXISTS" \notin st
            => ComputeFlag(items) = "DOES_NOT_EXIST"
  BY <1>3 DEF ComputeFlag
<1>5. ComputeFlag(items) \in {"ERROR", "INCOMPLETE", "COMPLETE", "DOES_NOT_EXIST"}
  BY <1>4
<1>6. g \in Flags
  BY <1>1, <1>5 DEF Flags
<1>7. /\ x.flag = g /\ x.items = items /\ x.set = S /\ x.truth = truth /\ x.sound = b
      /\ IsCollected(x)
  BY <1>2, <1>6, CobjFields
<1>8. items \in Seq(Nat)
  <2>1. Len(items) \in Nat /\ items \in [1 .. Len(items) -> Items]
    OBVIOUS
  <2>2. items \in [1 .. Len(items) -> Nat]
    BY <2>1, ItemAssumption
  <2> QED
    BY <2>1, <2>2
<1>9. /\ \A y \in ToSet(items) : Status[y] \in st
      /\ \A y \in ToSet(items) : Status[y] \in {"EXISTS", "DOES_NOT_EXIST", "NOT_COLLECTED", "ERROR"}
  <2>1. \A i \in DOMAIN items : items[i] \in Items
    OBVIOUS
  <2> QED
    BY <1>3, <2>1, ItemAssumption DEF ToSet
<1>10. ASSUME ret = 0
       PROVE  Describes(g, Existing(items), truth)
  <2>1. CASE flag # "UNKNOWN"
    <3>1. g = flag /\ flag \in {"INCOMPLETE", "NOT_APPLICABLE", "ERROR"}
      BY <1>1, <2>1
    <3>2. CASE flag = "INCOMPLETE"
      BY <3>1, <3>2 DEF Describes, Honest
    <3>3. CASE flag = "NOT_APPLICABLE"
      <4>1. items = <<>> /\ truth = {}
        BY <3>3 DEF Honest
      <4>2. Existing(items) = {}
        BY <4>1, NothingExists
      <4> QED
        BY <3>1, <3>3, <4>1, <4>2 DEF Describes
    <3>4. CASE flag = "ERROR"
      BY <3>1, <3>4 DEF Describes
    <3> QED
      BY <3>1, <3>2, <3>3, <3>4
  <2>2. CASE flag = "UNKNOWN"
    <3>1. g = ComputeFlag(items) /\ Existing(items) \subseteq truth
      BY <1>1, <2>2 DEF Honest
    <3>2. CASE "ERROR" \in st
      BY <1>4, <3>1, <3>2 DEF Describes
    <3>3. CASE "ERROR" \notin st /\ "NOT_COLLECTED" \in st
      BY <1>4, <3>1, <3>3 DEF Describes
    <3>4. CASE "ERROR" \notin st /\ "NOT_COLLECTED" \notin st
      <4>1. \A y \in ToSet(items) : Status[y] \in {"EXISTS", "DOES_NOT_EXIST"}
        BY <1>9, <3>4
      <4>2. truth = Existing(items)
        BY <1>10, <2>2, <4>1 DEF Honest
      <4>3. CASE "EXISTS" \in st
        BY <1>4, <3>1, <3>4, <4>2, <4>3 DEF Describes
      <4>4. CASE "EXISTS" \notin st
        <5>1. Existing(items) = {}
          BY <1>9, <4>4 DEF Existing
        <5> QED
          BY <1>4, <3>1, <3>4, <4>2, <4>4, <5>1 DEF Describes
      <4> QED
        BY <4>3, <4>4
    <3> QED
      BY <3>2, <3>3, <3>4
  <2> QED
    BY <2>1, <2>2
<1>11. Reported(x, ret)
  BY <1>1, <1>7, <1>8, <1>10 DEF Reported
<1> QED
  BY <1>1, <1>11

\* The union over the combinations of variable values: exact even when the
\* lists are not sorted.
LEMMA UnitedSound ==
  ASSUME NEW out, out = None \/ UnitedObject(out), NEW x, NEW ret, Reported(x, ret)
  PROVE  UnitedObject(United(out, x))
<1>1. IsCollected(x) /\ x # None /\ x.items \in Seq(Nat) /\ ToSet(x.items) = x.set
  BY CobjShape DEF Reported
<1>2. x.sound => Describes(x.flag, Existing(x.items), x.truth)
  BY DEF Reported
<1>3. PICK all : all = Combine(out, x, "UNION")
  OBVIOUS
<1>4. /\ IsCollected(all) /\ all.items \in Seq(Nat) /\ ToSet(all.items) = all.set
      /\ all.sound => Describes(all.flag, Existing(all.items), all.truth)
  <2>1. CASE out = None
    <3>1. all = x
      BY <1>3, <2>1 DEF Combine
    <3> QED
      BY <1>1, <1>2, <3>1
  <2>2. CASE UnitedObject(out)
    <3>1. IsCollected(out) /\ out.items \in Seq(Nat) /\ ToSet(out.items) = out.set
      BY <2>2 DEF UnitedObject
    <3>2. PICK op \in Operations : op = "UNION" /\ all = Combine(out, x, op)
      BY <1>3 DEF Operations
    <3>3. Combined(out, x, op, all)
      BY <1>1, <3>1, <3>2, CombineFields
    <3>4. PICK s, t, l : s = out.items /\ t = x.items /\ l = all.items /\ l = Merge("UNION", s, t)
      BY <3>2, <3>3 DEF Combined
    <3>5. l \in Seq(Nat) /\ ToSet(l) = ToSet(s) \cup ToSet(t)
      BY <1>1, <3>1, <3>4, MergeUnion
    <3>6. ToSet(l) = SetOperation(op, ToSet(s), ToSet(t))
      BY <3>2, <3>5 DEF SetOperation
    <3>7. ToSet(l) = all.set
      BY <1>1, <3>1, <3>3, <3>4, <3>6 DEF Combined
    <3>8. ASSUME all.sound
          PROVE  Describes(all.flag, Existing(all.items), all.truth)
      <4>1. Describes(out.flag, Existing(out.items), out.truth) /\ Describes(x.flag, Existing(x.items), x.truth)
        BY <1>2, <2>2, <3>3, <3>8 DEF Combined, UnitedObject
      <4>2. out.flag \in Flags /\ x.flag \in Flags
        BY <1>1, <3>1, CobjShape
      <4> QED
        BY <3>3, <3>4, <3>6, <4>1, <4>2, CombinedDescribes
    <3> QED
      BY <3>3, <3>4, <3>5, <3>7, <3>8 DEF Combined
  <2> QED
    BY <2>1, <2>2
<1>5. PICK f, i, s, t, b, k : /\ f = all.flag /\ i = all.items /\ s = all.set /\ t = all.truth
                              /\ b = all.sound /\ k = all.clean
  OBVIOUS
<1>6. all = Cobj(f, i, s, t, b, k) /\ f \in Flags
  BY <1>4, <1>5, CobjShape
<1>7. PICK inj, u : inj = IsInjective(all.items) /\ u = [all EXCEPT !.clean = inj]
  OBVIOUS
<1>8. u = Cobj(f, i, s, t, b, inj)
  <2>1. all = [flag |-> f, items |-> i, set |-> s, truth |-> t, sound |-> b, clean |-> k]
    BY <1>6 DEF Cobj
  <2>2. u = [flag |-> f, items |-> i, set |-> s, truth |-> t, sound |-> b, clean |-> inj]
    BY ONLY <1>7, <2>1
  <2> QED
    BY <2>2 DEF Cobj
<1>9. /\ u.flag = f /\ u.items = i /\ u.set = s /\ u.truth = t /\ u.sound = b /\ u.clean = inj
      /\ IsCollected(u)
  BY <1>6, <1>8, CobjFields
<1>10. UnitedObject(u)
  BY <1>4, <1>5, <1>7, <1>9 DEF UnitedObject
<1>11. United(out, x) = u
  BY <1>3, <1>7 DEF United
<1> QED
  BY <1>10, <1>11

-----------------------------------------------------------------------------
(***************************************************************************)
(* What a step does to the contents.                                       *)
(***************************************************************************)
LEMMA ContentKept ==
  ASSUME \A i \in DOMAIN stack' : FrameContent(stack'[i]),
         \A o \in Cached' : SortedObject(rcache'[o])
  PROVE  ContentInv'
BY DEF ContentInv

\* A set frame that is told something, or given an operand.
LEMMA FrameGiven ==
  ASSUME NEW f, IsSetFrame(f), FrameContent(f), NEW a, NEW c
  PROVE  /\ FrameContent([f EXCEPT !.answer = a])
         /\ SortedObject(c) =>
               /\ FrameContent([f EXCEPT !.subsets = Append(f.subsets, c)])
               /\ FrameContent([f EXCEPT !.subsets = Append(f.subsets, c), !.answer = a])
<1>1. PICK o, n, d, t, b : f = [kind |-> "set", obj |-> o, node |-> n, depth |-> d,
                                subsets |-> t, answer |-> b]
  BY DEF IsSetFrame
<1>2. f.kind = "set" /\ f.subsets = t /\ f.node = n
  BY <1>1
<1>3. n \in Sets /\ t \in Seq(ToSet(t)) /\ \A k \in DOMAIN t : SortedObject(t[k])
  BY <1>2 DEF FrameContent
<1>4. ASSUME NEW g, NEW s, NEW e, g = [kind |-> "set", obj |-> o, node |-> n, depth |-> d,
                                       subsets |-> s, answer |-> e],
             s \in Seq(ToSet(s)), \A k \in DOMAIN s : SortedObject(s[k])
      PROVE  FrameContent(g)
  <2>1. g.kind = "set" /\ g.subsets = s /\ g.node = n
    BY <1>4
  <2> QED
    BY <1>3, <1>4, <2>1 DEF FrameContent
<1>5. PICK s : s = Append(t, c)
  OBVIOUS
<1>6. s \in Seq(ToSet(s)) /\ (SortedObject(c) => \A k \in DOMAIN s : SortedObject(s[k]))
  <2>1. PICK S : S = ToSet(t) \cup {c}
    OBVIOUS
  <2>2. t \in Seq(S) /\ c \in S
    BY <1>3, <2>1
  <2>3. /\ s \in Seq(S) /\ Len(t) \in Nat /\ DOMAIN s = 1 .. Len(t) + 1 /\ DOMAIN t = 1 .. Len(t)
        /\ s[Len(t) + 1] = c /\ \A k \in 1 .. Len(t) : s[k] = t[k]
    BY <1>5, <2>2
  <2>4. s \in Seq(ToSet(s))
    BY <2>3, SequenceOfItsElements
  <2>5. ASSUME SortedObject(c), NEW k \in DOMAIN s
        PROVE  SortedObject(s[k])
    <3>1. CASE k = Len(t) + 1
      BY <2>3, <2>5, <3>1
    <3>2. CASE k \in 1 .. Len(t)
      BY <1>3, <2>3, <3>2
    <3> QED
      BY <2>3, <2>5, <3>1, <3>2
  <2> QED
    BY <2>4, <2>5
<1>7. [f EXCEPT !.answer = a] = [kind |-> "set", obj |-> o, node |-> n, depth |-> d,
                                 subsets |-> t, answer |-> a]
  BY ONLY <1>1
<1>8. [f EXCEPT !.subsets = s] = [kind |-> "set", obj |-> o, node |-> n, depth |-> d,
                                  subsets |-> s, answer |-> b]
  BY ONLY <1>1
<1>9. [f EXCEPT !.subsets = s, !.answer = a] = [kind |-> "set", obj |-> o, node |-> n, depth |-> d,
                                                subsets |-> s, answer |-> a]
  <2>1. PICK g : g = [f EXCEPT !.subsets = s]
    OBVIOUS
  <2>2. PICK h : h = [f EXCEPT !.subsets = s, !.answer = a]
    OBVIOUS
  <2>3. h = [g EXCEPT !.answer = a]
    BY <2>1, <2>2
  <2>4. g = [kind |-> "set", obj |-> o, node |-> n, depth |-> d, subsets |-> s, answer |-> b]
    BY <1>8, <2>1
  <2>5. h = [kind |-> "set", obj |-> o, node |-> n, depth |-> d, subsets |-> s, answer |-> a]
    BY ONLY <2>3, <2>4
  <2> QED
    BY <2>2, <2>5
<1>10. FrameContent([f EXCEPT !.answer = a])
  BY <1>3, <1>4, <1>7
<1>11. ASSUME SortedObject(c)
       PROVE  FrameContent([f EXCEPT !.subsets = s]) /\ FrameContent([f EXCEPT !.subsets = s, !.answer = a])
  BY <1>4, <1>6, <1>8, <1>9, <1>11
<1> QED
  BY <1>2, <1>5, <1>10, <1>11

\* What a worker or a nested evaluation starts with.
LEMMA SetFrameContent ==
  ASSUME NEW o, NEW node \in Sets, NEW d
  PROVE  FrameContent(SetFrame(o, node, d))
<1>1. PICK f, s : f = SetFrame(o, node, d) /\ s = <<>>
  OBVIOUS
<1>2. f.kind = "set" /\ f.node = node /\ f.subsets = s
  <2>1. PICK a : f = [kind |-> "set", obj |-> o, node |-> node, depth |-> d, subsets |-> s, answer |-> a]
    BY <1>1 DEF SetFrame
  <2> QED
    BY ONLY <2>1
<1>3. s \in Seq(ToSet(s)) /\ DOMAIN s = {}
  BY <1>1
<1>4. FrameContent(f)
  BY <1>2, <1>3 DEF FrameContent
<1> QED
  BY <1>1, <1>4

LEMMA NewFrameContent ==
  ASSUME NEW o \in Objects, Request(o)
  PROVE  FrameContent(Frame(o))
<1>1. CASE Def[o].kind = "set"
  <2>1. Frame(o) = SetFrame(o, Def[o].set, 0) /\ Def[o].set \in Sets
    BY <1>1, DefAssumption DEF Frame
  <2>2. PICK node \in Sets, d \in {0} : node = Def[o].set /\ d = 0
    BY <2>1
  <2>3. FrameContent(SetFrame(o, node, d))
    BY SetFrameContent
  <2> QED
    BY <2>1, <2>2, <2>3
<1>2. CASE Def[o].kind = "simple"
  <2>1. PICK f, i, n : /\ f = Frame(o) /\ i = First(o) /\ n = None
                       /\ f = [kind |-> "simple", obj |-> o, idx |-> i, out |-> n]
    BY <1>2 DEF Frame
  <2>2. f.kind = "simple" /\ f.obj = o /\ f.out = n
    BY <2>1
  <2>3. FrameContent(f)
    BY <1>2, <2>1, <2>2 DEF FrameContent
  <2> QED
    BY <2>1, <2>3
<1> QED
  BY <1>1, <1>2 DEF Request

LEMMA ToldContent ==
  ASSUME NEW S, NEW fs \in Seq(S), NEW m \in Nat, NEW g, stack' = [fs EXCEPT ![m] = g],
         \A i \in 1 .. Len(fs) : FrameContent(fs[i]),
         m \in 1 .. Len(fs) => FrameContent(g)
  PROVE  \A i \in DOMAIN stack' : FrameContent(stack'[i])
<1>1. PICK T : T = S \cup {g}
  OBVIOUS
<1>2. fs \in Seq(T) /\ g \in T
  BY <1>1
<1>3. IsTold(Told(fs, m, g), fs, m, g, T)
  BY <1>2, ToldShape
<1>4. /\ stack' \in Seq(T) /\ Len(stack') = Len(fs)
      /\ \A i \in 1 .. Len(fs) : stack'[i] = IF i = m THEN g ELSE fs[i]
  BY <1>3 DEF Told, IsTold
<1>5. DOMAIN stack' = 1 .. Len(fs)
  BY <1>4
<1> QED
  BY <1>4, <1>5

LEMMA FinishContent ==
  ASSUME CollectionInv, ContentInv, NEW o, NEW c, NEW a, NEW under, NEW S, under \in Seq(S),
         Finish(o, c, a, under),
         \A i \in 1 .. Len(under) : under[i] = stack[i] /\ IsSetFrame(stack[i]) /\ i \in DOMAIN stack,
         SortedObject(c) \/ UnitedObject(c)
  PROVE  ContentInv'
<1>1. PICK d : d = [c EXCEPT !.items = ListSort(@)]
  OBVIOUS
<1>2. SortedObject(d)
  BY <1>1, FinishedSorted
<1>3. rcache' = [rcache EXCEPT ![o] = d] /\ DOMAIN rcache = Objects
  BY <1>1 DEF Finish, CollectionInv, OwnerInv
<1>4. ASSUME NEW p \in Cached'
      PROVE  SortedObject(rcache'[p])
  <2>1. p \in Objects /\ rcache'[p] # None
    BY <1>4 DEF Cached
  <2>2. CASE p = o
    BY <1>2, <1>3, <2>1, <2>2
  <2>3. CASE p # o
    <3>1. rcache'[p] = rcache[p] /\ p \in Cached
      BY <1>3, <2>1, <2>3 DEF Cached
    <3> QED
      BY <3>1 DEF ContentInv
  <2> QED
    BY <2>2, <2>3
<1>5. \A i \in 1 .. Len(under) : FrameContent(under[i])
  BY DEF ContentInv
<1>6. \A i \in DOMAIN stack' : FrameContent(stack'[i])
  <2>1. CASE under = <<>>
    BY <2>1 DEF Finish
  <2>2. CASE under # <<>>
    <3>1. PICK m \in Nat : m = Len(under) /\ m \in 1 .. m
      BY <2>2
    <3>2. PICK f, g : f = under[m] /\ g = [f EXCEPT !.answer = a]
      OBVIOUS
    <3>3. stack' = [under EXCEPT ![m] = g]
      BY <2>2, <3>1, <3>2 DEF Finish
    <3>4. IsSetFrame(f) /\ FrameContent(f)
      BY <1>5, <3>1, <3>2
    <3>5. FrameContent(g)
      BY <3>2, <3>4, FrameGiven
    <3> QED
      BY <1>5, <3>3, <3>5, ToldContent
  <2> QED
    BY <2>1, <2>2
<1> QED
  BY <1>4, <1>6, ContentKept

\* A step that leaves the results and adds a frame.
LEMMA FrameAdded ==
  ASSUME CollectionInv, ContentInv, NEW f, FrameContent(f), stack' = Append(stack, f), rcache' = rcache
  PROVE  ContentInv'
<1>1. Len(stack) \in Nat /\ DOMAIN stack = 1 .. Len(stack) /\ stack \in Seq(ToSet(stack))
  BY StackShape
<1>2. PICK S : S = ToSet(stack) \cup {f}
  OBVIOUS
<1>3. stack \in Seq(S) /\ f \in S
  BY <1>1, <1>2
<1>4. /\ DOMAIN stack' = 1 .. Len(stack) + 1 /\ stack'[Len(stack) + 1] = f
      /\ \A i \in 1 .. Len(stack) : stack'[i] = stack[i]
  BY <1>3
<1>5. \A i \in DOMAIN stack' : FrameContent(stack'[i])
  <2> SUFFICES ASSUME NEW i \in DOMAIN stack'
               PROVE  FrameContent(stack'[i])
    OBVIOUS
  <2>1. CASE i = Len(stack) + 1
    BY <1>4, <2>1
  <2>2. CASE i \in 1 .. Len(stack)
    <3>1. stack'[i] = stack[i] /\ i \in DOMAIN stack
      BY <1>1, <1>4, <2>2
    <3> QED
      BY <3>1 DEF ContentInv
  <2> QED
    BY <1>1, <1>4, <2>1, <2>2
<1>6. \A o \in Cached' : SortedObject(rcache'[o])
  BY DEF ContentInv, Cached
<1> QED
  BY <1>5, <1>6, ContentKept

\* The set probe_set_eval is in, and its next member.
LEMMA MemberShape ==
  ASSUME CollectionInv, ContentInv, InSet
  PROVE  /\ IsSetFrame(Top) /\ FrameContent(Top) /\ Top.node \in Sets
         /\ Len(Top.subsets) \in Nat /\ DOMAIN Top.subsets = 1 .. Len(Top.subsets)
         /\ \A k \in 1 .. Len(Top.subsets) : SortedObject(Top.subsets[k])
         /\ AtMember("ref") => Member.obj \in Objects
         /\ AtMember("set") => Member.set \in Sets
<1>1. PICK n \in Nat : /\ n = Len(stack) /\ n > 0 /\ n \in 1 .. n /\ Top = stack[n]
                       /\ DOMAIN stack = 1 .. n /\ \A i \in 1 .. n : IsSetFrame(stack[i])
  BY InnermostShape DEF InSet
<1>2. PICK f : f = Top
  OBVIOUS
<1>3. IsSetFrame(f) /\ FrameContent(f) /\ f.kind = "set"
  BY <1>1, <1>2 DEF ContentInv, IsSetFrame
<1>4. f.node \in Sets /\ f.subsets \in Seq(ToSet(f.subsets)) /\ \A k \in DOMAIN f.subsets : SortedObject(f.subsets[k])
  BY <1>3 DEF FrameContent
<1>5. Len(f.subsets) \in Nat /\ DOMAIN f.subsets = 1 .. Len(f.subsets)
  BY <1>4
<1>6. PICK node \in Sets, i \in Nat : node = f.node /\ i = Len(f.subsets) + 1
  BY <1>4, <1>5
<1>7. Member = node.members[i]
  BY <1>2, <1>6 DEF Member
<1>8. ASSUME Len(f.subsets) < Len(f.node.members)
      PROVE  i \in 1 .. Len(node.members)
  <2>1. PICK L \in 1 .. 2 : L = Len(node.members)
    BY SetAssumption
  <2> QED
    BY <1>5, <1>6, <1>8, <2>1
<1>9. ASSUME NEW type, AtMember(type)
      PROVE  i \in 1 .. Len(node.members) /\ node.members[i].type = type
  BY <1>2, <1>7, <1>8, <1>9 DEF AtMember
<1>10. AtMember("ref") => Member.obj \in Objects
  <2>1. SUFFICES ASSUME AtMember("ref")
                 PROVE  node.members[i].obj \in Objects
    BY <1>7
  <2>2. PICK type : type = "ref" /\ AtMember(type)
    BY <2>1
  <2>3. i \in 1 .. Len(node.members) /\ node.members[i].type = "ref"
    BY <1>9, <2>2
  <2> QED
    BY <2>3, SetAssumption
<1>11. AtMember("set") => Member.set \in Sets
  <2>1. SUFFICES ASSUME AtMember("set")
                 PROVE  node.members[i].set \in Sets
    BY <1>7
  <2>2. PICK type : type = "set" /\ AtMember(type)
    BY <2>1
  <2>3. i \in 1 .. Len(node.members) /\ node.members[i].type = "set"
    BY <1>9, <2>2
  <2> QED
    BY <2>3, SetAssumption
<1> QED
  BY <1>2, <1>3, <1>4, <1>5, <1>10, <1>11

LEMMA OperandContent ==
  ASSUME CollectionInv, ContentInv, InSet, NEW c, SortedObject(c), stack' = Operand(c), rcache' = rcache
  PROVE  ContentInv'
<1>1. PICK n \in Nat : /\ n = Len(stack) /\ n > 0 /\ n \in 1 .. n /\ stack \in Seq(ToSet(stack))
                      /\ Top = stack[n]
                      /\ DOMAIN stack = 1 .. n /\ \A i \in 1 .. n : IsSetFrame(stack[i])
  BY InnermostShape DEF InSet
<1>2. stack \in Seq(ToSet(stack)) /\ DOMAIN stack = 1 .. n /\ IsSetFrame(stack[n])
  BY <1>1
<1>3. PICK f, a, g : /\ f = stack[n] /\ a = "none"
                     /\ g = [f EXCEPT !.subsets = Append(f.subsets, c), !.answer = a]
  OBVIOUS
<1>4. stack' = [stack EXCEPT ![n] = g]
  BY <1>1, <1>2, <1>3 DEF Operand
<1>5. IsSetFrame(f) /\ FrameContent(f)
  BY <1>1, <1>2, <1>3 DEF ContentInv
<1>6. FrameContent(g)
  BY <1>3, <1>5, FrameGiven
<1>7. \A i \in 1 .. Len(stack) : FrameContent(stack[i])
  BY <1>1 DEF ContentInv
<1>8. \A i \in DOMAIN stack' : FrameContent(stack'[i])
  BY <1>2, <1>4, <1>6, <1>7, ToldContent
<1>9. \A o \in Cached' : SortedObject(rcache'[o])
  BY DEF ContentInv, Cached
<1> QED
  BY <1>8, <1>9, ContentKept

LEMMA RefHitContent ==
  ASSUME CollectionInv, ContentInv, RefHit
  PROVE  ContentInv'
<1>1. /\ InSet /\ AtMember("ref") /\ rcache' = rcache /\ stack' = Operand(rcache[Member.obj])
      /\ rcache[Member.obj] # None
  BY DEF RefHit, AtMember
<1>2. Member.obj \in Objects
  BY <1>1, MemberShape
<1>3. PICK c : c = rcache[Member.obj]
  OBVIOUS
<1>4. SortedObject(c)
  BY <1>1, <1>2, <1>3 DEF ContentInv, Cached
<1> QED
  BY <1>1, <1>3, <1>4, OperandContent

LEMMA NestedContent ==
  ASSUME CollectionInv, ContentInv, Nested
  PROVE  ContentInv'
<1>1. InSet /\ AtMember("set") /\ rcache' = rcache
  BY DEF Nested, AtMember
<1>2. Member.set \in Sets
  BY <1>1, MemberShape
<1>3. CASE stack' = Operand(ErrorObject)
  <2>1. PICK c, e : c = ErrorObject /\ e = "ERROR"
    OBVIOUS
  <2>2. SortedObject(c)
    BY <2>1, ErrorSorted
  <2> QED
    BY <1>1, <1>3, <2>1, <2>2, OperandContent
<1>4. CASE stack' = Append(stack, SetFrame("nested", Member.set, Top.depth + 1))
  <2>1. PICK node \in Sets : node = Member.set
    BY <1>2
  <2>2. PICK o, d, f : o = "nested" /\ d = Top.depth + 1 /\ f = SetFrame(o, node, d)
    OBVIOUS
  <2>3. FrameContent(f)
    BY <2>2, SetFrameContent
  <2> QED
    BY <1>1, <1>4, <2>1, <2>2, <2>3, FrameAdded
<1> QED
  BY <1>3, <1>4 DEF Nested

LEMMA QueryContent ==
  ASSUME CollectionInv, ContentInv, NEW o \in Objects, Query(o)
  PROVE  ContentInv'
<1>1. stack = <<>> /\ Request(o) /\ stack' = <<Frame(o)>> /\ rcache' = rcache
  BY DEF Query
<1>2. PICK f : f = Frame(o)
  OBVIOUS
<1>3. stack' = Append(stack, f) /\ FrameContent(f)
  <2>1. stack' = Append(stack, f)
    BY <1>1, <1>2
  <2> QED
    BY <1>1, <1>2, <2>1, NewFrameContent
<1> QED
  BY <1>1, <1>3, FrameAdded

\* The empty result of a skipped request.
LEMMA SkipContent ==
  ASSUME CollectionInv, ContentInv, NEW o, NEW under, NEW S, under \in Seq(S), Skip(o, under),
         \A i \in 1 .. Len(under) : under[i] = stack[i] /\ IsSetFrame(stack[i]) /\ i \in DOMAIN stack
  PROVE  ContentInv'
<1>1. PICK c, f, a : /\ f = "DOES_NOT_EXIST" /\ c = [ErrorObject EXCEPT !.flag = f] /\ a = "ok"
                     /\ Finish(o, c, a, under)
  BY DEF Skip
<1>2. SortedObject(c)
  BY <1>1, ErrorSorted
<1> QED
  BY <1>1, <1>2, FinishContent

LEMMA QuerySkippedContent ==
  ASSUME CollectionInv, ContentInv, NEW o \in Objects, QuerySkipped(o)
  PROVE  ContentInv'
<1>1. PICK u : u = <<>> /\ Skip(o, u)
  BY DEF QuerySkipped
<1>2. u \in Seq({}) /\ Len(u) = 0
  BY <1>1
<1>3. \A i \in 1 .. Len(u) : u[i] = stack[i] /\ IsSetFrame(stack[i]) /\ i \in DOMAIN stack
  BY <1>2
<1> QED
  BY <1>1, <1>2, <1>3, SkipContent

LEMMA RefMissContent ==
  ASSUME CollectionInv, ContentInv, RefMiss
  PROVE  ContentInv'
<1>1. InSet /\ AtMember("ref")
  BY DEF RefMiss, AtMember
<1>2. PICK o \in Objects : o = Member.obj
  BY <1>1, MemberShape
<1>3. CASE Request(o) /\ stack' = Append(stack, Frame(o)) /\ rcache' = rcache
  <2>1. PICK f : f = Frame(o)
    OBVIOUS
  <2>2. FrameContent(f)
    BY <1>3, <2>1, NewFrameContent
  <2> QED
    BY <1>3, <2>1, <2>2, FrameAdded
<1>4. CASE Skip(o, stack)
  <2>1. stack \in Seq(ToSet(stack)) /\ \A i \in 1 .. Len(stack) : IsSetFrame(stack[i]) /\ i \in DOMAIN stack
    BY <1>1, InnermostShape DEF InSet
  <2>2. PICK u, S : u = stack /\ S = ToSet(stack)
    OBVIOUS
  <2>3. /\ u \in Seq(S) /\ Skip(o, u)
        /\ \A i \in 1 .. Len(u) : u[i] = stack[i] /\ IsSetFrame(stack[i]) /\ i \in DOMAIN stack
    BY <1>4, <2>1, <2>2
  <2> QED
    BY <2>3, SkipContent
<1> QED
  BY <1>2, <1>3, <1>4 DEF RefMiss

LEMMA ReturnContent ==
  ASSUME CollectionInv, ContentInv, InSet, NEW c, SortedObject(c), Return(c)
  PROVE  ContentInv'
<1>1. stack # <<>> /\ Top.kind = "set"
  BY DEF InSet
<1>2. PICK n \in Nat : /\ n = Len(stack) /\ n > 0 /\ n \in 1 .. n /\ Top = stack[n]
                       /\ stack \in Seq(ToSet(stack)) /\ DOMAIN stack = 1 .. n
                       /\ \A i \in 1 .. n : IsSetFrame(stack[i])
                       /\ \A i \in 1 .. n - 1 : i \in 1 .. n
  BY <1>1, InnermostShape
<1>3. PICK m, u : m \in Nat /\ m = n - 1 /\ u = Front(stack)
  BY <1>2
<1>4. /\ u \in Seq(ToSet(stack)) /\ Len(u) = m
      /\ \A i \in 1 .. m : u[i] = stack[i] /\ IsSetFrame(stack[i]) /\ i \in DOMAIN stack
  BY <1>1, <1>2, <1>3, FrontOfSeq
<1>5. CASE Top.obj = "nested"
  <2>1. PICK f, g : f = u[m] /\ g = [f EXCEPT !.subsets = Append(f.subsets, c)]
    OBVIOUS
  <2>2. stack' = [u EXCEPT ![m] = g] /\ rcache' = rcache
    BY <1>2, <1>3, <1>5, <2>1 DEF Return
  <2>3. \A i \in 1 .. Len(u) : FrameContent(u[i])
    BY <1>4 DEF ContentInv
  <2>4. ASSUME m \in 1 .. Len(u)
        PROVE  FrameContent(g)
    <3>1. IsSetFrame(f) /\ FrameContent(f)
      BY <1>4, <2>1, <2>3, <2>4
    <3> QED
      BY <2>1, <3>1, FrameGiven
  <2>5. \A i \in DOMAIN stack' : FrameContent(stack'[i])
    BY <1>3, <1>4, <2>2, <2>3, <2>4, ToldContent
  <2>6. \A o \in Cached' : SortedObject(rcache'[o])
    BY <2>2 DEF ContentInv, Cached
  <2> QED
    BY <2>5, <2>6, ContentKept
<1>6. CASE Top.obj # "nested"
  <2>1. PICK o, a : o = Top.obj /\ a = "ok" /\ Finish(o, c, a, u)
    BY <1>3, <1>6 DEF Return
  <2> QED
    BY <1>4, <2>1, FinishContent
<1> QED
  BY <1>5, <1>6

LEMMA RefFailContent ==
  ASSUME CollectionInv, ContentInv, RefFail
  PROVE  ContentInv'
<1>1. PICK c, e : InSet /\ c = ErrorObject /\ e = "ERROR" /\ Return(c)
  BY DEF RefFail, AtMember
<1>2. SortedObject(c)
  BY <1>1, ErrorSorted
<1> QED
  BY <1>1, <1>2, ReturnContent

LEMMA EvaluateContent ==
  ASSUME CollectionInv, ContentInv, NEW sent \in BOOLEAN, Evaluate(sent)
  PROVE  ContentInv'
<1> DEFINE Part(i) == IF i > Len(Top.subsets) THEN None
                      ELSE IF Top.node.members[i].type = "ref"
                           THEN ApplyFilters(Top.subsets[i], Top.node.filters)
                           ELSE Top.subsets[i]
<1>1. /\ InSet /\ Len(Top.subsets) = Len(Top.node.members)
      /\ Return(IF FetchFails(sent) THEN ErrorObject ELSE Combine(Part(1), Part(2), Top.node.op))
  BY DEF Evaluate
<1>2. PICK L \in 1 .. 2, op \in Operations :
         /\ L = Len(Top.subsets) /\ op = Top.node.op
         /\ \A k \in 1 .. L : SortedObject(Top.subsets[k])
  <2>1. Top.node \in Sets /\ \A k \in 1 .. Len(Top.subsets) : SortedObject(Top.subsets[k])
    BY <1>1, MemberShape
  <2>2. Len(Top.node.members) \in 1 .. 2 /\ Top.node.op \in Operations
    BY <2>1, SetAssumption
  <2> QED
    BY <1>1, <2>1, <2>2
<1>3. ASSUME NEW i \in 1 .. 2, i <= L
      PROVE  SortedObject(Part(i))
  <2>1. i \in 1 .. L /\ ~(i > Len(Top.subsets))
    BY <1>2, <1>3
  <2>2. PICK c, fs : c = Top.subsets[i] /\ fs = Top.node.filters
    OBVIOUS
  <2>3. SortedObject(c)
    BY <1>2, <2>1, <2>2
  <2>4. SortedObject(ApplyFilters(c, fs))
    BY <2>3, FilterSorted
  <2> QED
    BY <2>1, <2>2, <2>3, <2>4
<1>4. PICK p, q : p = Part(1) /\ q = Part(2)
  OBVIOUS
<1>5. SortedObject(p) /\ p # None
  <2>1. SortedObject(p)
    BY <1>3, <1>4
  <2>2. IsCollected(p)
    BY <2>1 DEF SortedObject
  <2> QED
    BY <2>1, <2>2, CobjShape
<1>6. q = None \/ SortedObject(q)
  <2>1. CASE L = 1
    BY <1>2, <1>4, <2>1
  <2>2. CASE L = 2
    BY <1>3, <1>4, <2>2
  <2> QED
    BY <2>1, <2>2
<1>7. SortedObject(Combine(p, q, op))
  <2>1. CASE q = None
    <3>1. Combine(p, q, op) = p
      BY <1>5, <2>1 DEF Combine
    <3> QED
      BY <1>5, <3>1
  <2>2. CASE SortedObject(q)
    BY <1>5, <2>2, CombineSorted
  <2> QED
    BY <1>6, <2>1, <2>2
<1>8. SortedObject(ErrorObject)
  <2>1. PICK e : e = "ERROR"
    OBVIOUS
  <2> QED
    BY <2>1, ErrorSorted
<1> HIDE DEF Part
<1>9. PICK c : c = (IF FetchFails(sent) THEN ErrorObject ELSE Combine(Part(1), Part(2), Top.node.op))
  OBVIOUS
<1>10. SortedObject(c)
  BY <1>2, <1>4, <1>7, <1>8, <1>9
<1> QED
  BY <1>1, <1>9, <1>10, ReturnContent

LEMMA CollectContent ==
  ASSUME CollectionInv, ContentInv, Collect
  PROVE  ContentInv'
<1>1. stack # <<>> /\ Top.kind = "simple"
  BY DEF Collect
<1>2. PICK n \in Nat : /\ n = Len(stack) /\ n > 0 /\ n \in 1 .. n /\ Top = stack[n]
                       /\ stack \in Seq(ToSet(stack)) /\ DOMAIN stack = 1 .. n
                       /\ \A i \in 1 .. n - 1 : i \in 1 .. n /\ IsSetFrame(stack[i])
  BY <1>1, InnermostShape
<1>3. PICK f : f = stack[n] /\ f = Top
  BY <1>2
<1>4. IsSimpleFrame(f)
  BY <1>1, <1>2, <1>3, StackShape
<1>5. /\ f.kind = "simple" /\ f.obj \in Objects /\ Def[f.obj].kind = "simple"
      /\ f.out = None \/ UnitedObject(f.out)
  <2>1. FrameContent(f)
    BY <1>2, <1>3 DEF ContentInv
  <2> QED
    BY <1>1, <1>3, <2>1 DEF FrameContent
<1>60. PICK items \in Reports[f.obj], flag \in {"UNKNOWN", "INCOMPLETE", "NOT_APPLICABLE", "ERROR"},
            ret \in {0, 1} : \E truth :
         /\ Honest(items, flag, ret, truth)
         /\ CollectOnce(f, United(f.out, CollectedBy(items, flag, ret, truth)), ret)
  BY <1>3 DEF Collect
<1>6. PICK truth : /\ Honest(items, flag, ret, truth)
                   /\ CollectOnce(f, United(f.out, CollectedBy(items, flag, ret, truth)), ret)
  BY <1>60
<1>7. items \in Seq(Items)
  BY <1>5, <1>6, ItemAssumption
<1>8. PICK x, t, out : x = CollectedBy(items, flag, ret, truth) /\ t = f.out /\ out = United(t, x)
  OBVIOUS
<1>9. UnitedObject(out)
  <2>1. Reported(x, ret)
    BY <1>6, <1>7, <1>8, RunReported
  <2>2. t = None \/ UnitedObject(t)
    BY <1>5, <1>8
  <2> QED
    BY <1>8, <2>1, <2>2, UnitedSound
<1>10. CollectOnce(f, out, ret)
  BY <1>6, <1>8
<1>11. CASE ret = 0 /\ ~Exhausted(f.idx, Def[f.obj].values)
  <2>1. /\ stack' = SetTop([f EXCEPT !.out = out, !.idx = Advance(@, Def[f.obj].values)])
        /\ rcache' = rcache
    BY <1>10, <1>11 DEF CollectOnce
  <2>2. PICK d, g : /\ d = Advance(f.idx, Def[f.obj].values)
                    /\ g = [f EXCEPT !.out = out, !.idx = Advance(@, Def[f.obj].values)]
    OBVIOUS
  <2>3. PICK o, i : o = f.obj /\ f = [kind |-> "simple", obj |-> o, idx |-> i, out |-> t]
    BY <1>4, <1>8 DEF IsSimpleFrame
  <2>4. g = [kind |-> "simple", obj |-> o, idx |-> d, out |-> out]
    <3>1. PICK h : h = [f EXCEPT !.out = out]
      OBVIOUS
    <3>2. h = [kind |-> "simple", obj |-> o, idx |-> i, out |-> out]
      BY ONLY <2>3, <3>1
    <3>3. g = [h EXCEPT !.idx = d]
      BY <2>2, <2>3, <3>1
    <3> QED
      BY ONLY <3>2, <3>3
  <2>5. g.kind = "simple" /\ g.obj = o /\ g.out = out
    BY ONLY <2>4
  <2>6. FrameContent(g)
    BY <1>5, <1>9, <2>3, <2>5 DEF FrameContent
  <2>7. stack' = [stack EXCEPT ![n] = g]
    BY <1>2, <2>1, <2>2 DEF SetTop
  <2>8. \A k \in 1 .. Len(stack) : FrameContent(stack[k])
    BY <1>2 DEF ContentInv
  <2>9. \A k \in DOMAIN stack' : FrameContent(stack'[k])
    BY <1>2, <2>6, <2>7, <2>8, ToldContent
  <2>10. \A p \in Cached' : SortedObject(rcache'[p])
    BY <2>1 DEF ContentInv, Cached
  <2> QED
    BY <2>9, <2>10, ContentKept
<1>12. CASE ~(ret = 0 /\ ~Exhausted(f.idx, Def[f.obj].values))
  <2>1. PICK o, a, u : o = f.obj /\ u = Front(stack) /\ Finish(o, out, a, u)
    BY <1>10, <1>12 DEF CollectOnce
  <2>2. PICK m \in Nat : m = n - 1
    <3>1. n - 1 \in Nat
      BY <1>2
    <3> QED
      BY <3>1
  <2>3. /\ u \in Seq(ToSet(stack)) /\ Len(u) = m
        /\ \A i \in 1 .. m : u[i] = stack[i] /\ IsSetFrame(stack[i]) /\ i \in DOMAIN stack
    BY <1>1, <1>2, <2>1, <2>2, FrontOfSeq
  <2> QED
    BY <1>9, <2>1, <2>3, FinishContent
<1> QED
  BY <1>11, <1>12

LEMMA ContentStep ==
  ASSUME CollectionInv, ContentInv, [Next]_vars
  PROVE  ContentInv'
<1>1. CASE UNCHANGED vars
  <2>1. stack' = stack /\ rcache' = rcache /\ Cached' = Cached
    BY <1>1 DEF vars, Cached
  <2>2. \A i \in DOMAIN stack' : FrameContent(stack'[i])
    BY <2>1 DEF ContentInv
  <2>3. \A o \in Cached' : SortedObject(rcache'[o])
    BY <2>1 DEF ContentInv
  <2> QED
    BY <2>2, <2>3, ContentKept
<1>2. ASSUME NEW o \in Objects, Query(o) \/ QuerySkipped(o)
      PROVE  ContentInv'
  BY <1>2, QueryContent, QuerySkippedContent
<1>3. CASE Collect
  BY <1>3, CollectContent
<1>4. CASE RefHit
  BY <1>4, RefHitContent
<1>5. CASE RefMiss
  BY <1>5, RefMissContent
<1>6. CASE RefFail
  BY <1>6, RefFailContent
<1>7. CASE Nested
  BY <1>7, NestedContent
<1>8. CASE \E sent \in BOOLEAN : Evaluate(sent)
  BY <1>8, EvaluateContent
<1> QED
  BY <1>1, <1>2, <1>3, <1>4, <1>5, <1>6, <1>7, <1>8 DEF Next

\* The cached objects, the operands of the sets under evaluation and the
\* objects being collected are sound, exact and, but for the last, sorted.
THEOREM ContentInvariance == Spec => []ContentInv
<1>1. Init => ContentInv
  BY DEF Init, ContentInv, Cached
<1>2. CollectionInv /\ ContentInv /\ [Next]_vars => ContentInv'
  BY ContentStep
<1> QED
  BY <1>1, <1>2, CollectionInvariance, PTL DEF Spec

\* The items of a cached object are those set theory gives for its operands,
\* each once, whatever the sets, their nesting and their filters, unless a
\* collection it rests on repeated an item: probe_set_combine merges sorted
\* lists, SEXP_list_sort sorts what is cached, and filtering keeps the order.
THEOREM SetsAreExact == Spec => []SetExact
<1>1. ContentInv => SetExact
  <2>1. SUFFICES ASSUME ContentInv, NEW o \in Cached, rcache[o].clean
                 PROVE  ToSet(rcache[o].items) = rcache[o].set /\ IsInjective(rcache[o].items)
    BY DEF SetExact
  <2>2. PICK s : s = rcache[o].items
    OBVIOUS
  <2>3. s \in Seq(Nat) /\ Ascending(s) /\ ToSet(s) = rcache[o].set
    BY <2>1, <2>2 DEF ContentInv, SortedObject
  <2>4. IsInjective(s)
    BY <2>3, AscendingInjective
  <2> QED
    BY <2>2, <2>3, <2>4
<1> QED
  BY <1>1, ContentInvariance, PTL

\* The flag of a cached object claims nothing false of the system, through any
\* unions over variable values, filters and nested sets, if the runs of the
\* probe it rests on were honest and repeated no item.
THEOREM FlagsAreSound == Spec => []FlagsSound
<1>1. ContentInv => FlagsSound
  BY DEF ContentInv, SortedObject, FlagsSound
<1> QED
  BY <1>1, ContentInvariance, PTL

=============================================================================
