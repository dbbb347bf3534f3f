--------------------------- MODULE ItemListProofs ---------------------------
(***************************************************************************)
(* The merges of probe_set_combine and SEXP_list_sort are right, for lists *)
(* of any length in which no item repeats: merging sorted lists gives the  *)
(* sorted list of the union, the intersection or the complement, and       *)
(* sorting block by block gives a sorted list of the same items.           *)
(***************************************************************************)
EXTENDS CollectedObject, ItemList, SequenceTheorems, RecursionLemmas

LEMMA ItemAt ==
  ASSUME NEW s \in Seq(Nat), NEW i \in Int, 1 <= i, i <= Len(s)
  PROVE  i \in 1 .. Len(s) /\ s[i] \in Nat
<1>1. Len(s) \in Nat /\ \A k \in 1 .. Len(s) : s[k] \in Nat
  OBVIOUS
<1>2. i \in 1 .. Len(s)
  BY <1>1
<1> QED
  BY <1>1, <1>2

LEMMA AppendList ==
  ASSUME NEW out \in Seq(Nat), NEW x \in Nat, NEW r, r = Append(out, x)
  PROVE  /\ r \in Seq(Nat) /\ Len(r) = Len(out) + 1 /\ Len(out) \in Nat
         /\ DOMAIN out = 1 .. Len(out) /\ DOMAIN r = 1 .. Len(out) + 1
         /\ r[Len(out) + 1] = x /\ \A k \in 1 .. Len(out) : r[k] = out[k]
         /\ ToSet(r) = ToSet(out) \cup {x}
<1>1. PICK n \in Nat : n = Len(out)
  OBVIOUS
<1>2. /\ r \in Seq(Nat) /\ Len(r) = n + 1 /\ DOMAIN out = 1 .. n /\ DOMAIN r = 1 .. n + 1
      /\ r[n + 1] = x /\ \A k \in 1 .. n : r[k] = out[k]
  BY <1>1
<1>3. \A k : k \in 1 .. n + 1 <=> k \in 1 .. n \/ k = n + 1
  OBVIOUS
<1>4. ToSet(r) = ToSet(out) \cup {x}
  BY ONLY <1>2, <1>3 DEF ToSet
<1> QED
  BY <1>1, <1>2, <1>4

LEMMA AppendSet ==
  ASSUME NEW out \in Seq(Nat), NEW x \in Nat
  PROVE  Append(out, x) \in Seq(Nat) /\ ToSet(Append(out, x)) = ToSet(out) \cup {x}
<1>1. PICK r : r = Append(out, x)
  OBVIOUS
<1>2. r \in Seq(Nat) /\ ToSet(r) = ToSet(out) \cup {x}
  BY ONLY <1>1, AppendList, out \in Seq(Nat), x \in Nat
<1> QED
  BY <1>1, <1>2

\* What is greater than all of an ascending list may be appended.
LEMMA AppendAscending ==
  ASSUME NEW out \in Seq(Nat), NEW x \in Nat, NEW r, r = Append(out, x),
         Ascending(out), \A y \in ToSet(out) : y < x
  PROVE  Ascending(r)
<1>1. PICK n \in Nat : n = Len(out)
  OBVIOUS
<1>2. /\ DOMAIN out = 1 .. n /\ DOMAIN r = 1 .. n + 1
      /\ r[n + 1] = x /\ \A k \in 1 .. n : r[k] = out[k] /\ out[k] \in ToSet(out)
  <2>1. /\ DOMAIN out = 1 .. n /\ DOMAIN r = 1 .. n + 1
        /\ r[n + 1] = x /\ \A k \in 1 .. n : r[k] = out[k]
    BY <1>1, AppendList
  <2>2. \A k \in DOMAIN out : out[k] \in ToSet(out)
    BY DEF ToSet
  <2> QED
    BY <2>1, <2>2
<1>3. SUFFICES ASSUME NEW i \in 1 .. n + 1, NEW j \in 1 .. n + 1, i < j
               PROVE  r[i] < r[j]
  BY <1>2 DEF Ascending
<1>4. i \in 1 .. n
  BY <1>3
<1>5. CASE j = n + 1
  BY <1>2, <1>4, <1>5
<1>6. CASE j \in 1 .. n
  BY <1>2, <1>3, <1>4, <1>6 DEF Ascending
<1>7. j = n + 1 \/ j \in 1 .. n
  OBVIOUS
<1> QED
  BY <1>5, <1>6, <1>7

-----------------------------------------------------------------------------
(***************************************************************************)
(* The merges.                                                             *)
(***************************************************************************)
MergeStates(s, t) == [i : 1 .. Len(s) + 1, j : 1 .. Len(t) + 1, out : Seq(Nat)]
MergeBegin == [i |-> 1, j |-> 1, out |-> <<>>]

LEMMA MergeRoundType ==
  ASSUME NEW s \in Seq(Nat), NEW t \in Seq(Nat), NEW op, NEW m \in MergeStates(s, t)
  PROVE  MergeRound(op, s, t, m) \in MergeStates(s, t)
<1>1. PICK a \in Nat, b \in Nat : a = Len(s) /\ b = Len(t)
  OBVIOUS
<1>2. m.i \in 1 .. a + 1 /\ m.j \in 1 .. b + 1 /\ m.out \in Seq(Nat)
  BY <1>1 DEF MergeStates
<1>3. /\ m.i <= a => s[m.i] \in Nat /\ m.i + 1 \in 1 .. a + 1 /\ Append(m.out, s[m.i]) \in Seq(Nat)
      /\ m.j <= b => t[m.j] \in Nat /\ m.j + 1 \in 1 .. b + 1 /\ Append(m.out, t[m.j]) \in Seq(Nat)
  <2>1. m.i \in Int /\ 1 <= m.i /\ m.j \in Int /\ 1 <= m.j
    BY <1>2
  <2>2. (m.i <= a => s[m.i] \in Nat) /\ (m.j <= b => t[m.j] \in Nat)
    BY <1>1, <2>1, ItemAt
  <2>3. (m.i <= a => m.i + 1 \in 1 .. a + 1) /\ (m.j <= b => m.j + 1 \in 1 .. b + 1)
    BY <2>1
  <2> QED
    BY <1>2, <2>2, <2>3, AppendSet
<1> QED
  BY <1>1, <1>2, <1>3 DEF MergeRound, MergeStates

Merges(op, s, t, f, N) ==
  /\ f \in [0 .. N -> MergeStates(s, t)] /\ f[0] = MergeBegin /\ Merge(op, s, t) = f[N].out
  /\ \A n \in 1 .. N : f[n] = MergeRound(op, s, t, f[n - 1])

LEMMA MergeDef ==
  ASSUME NEW s \in Seq(Nat), NEW t \in Seq(Nat), NEW op
  PROVE  \E f : Merges(op, s, t, f, Len(s) + Len(t))
<1>0. PICK S : S = MergeStates(s, t)
  OBVIOUS
<1>1. PICK N \in Nat : N = Len(s) + Len(t) /\ S = MergeStates(s, t)
  BY <1>0
<1> DEFINE Step(A, n) == MergeRound(op, s, t, A)
<1>2. \A n \in 1 .. N : \A A \in S : Step(A, n) \in S
  BY <1>1, MergeRoundType
<1>3. PICK z : z = MergeBegin /\ z \in S
  <2>1. Len(s) \in Nat /\ Len(t) \in Nat /\ <<>> \in Seq(Nat)
    OBVIOUS
  <2>2. 1 \in 1 .. Len(s) + 1 /\ 1 \in 1 .. Len(t) + 1
    BY <2>1
  <2>3. MergeBegin \in MergeStates(s, t)
    BY <2>1, <2>2 DEF MergeBegin, MergeStates
  <2> QED
    BY <1>1, <2>3
<1>4. \E f : f = [n \in 0 .. N |-> IF n = 0 THEN z ELSE Step(f[n - 1], n)]
  <2> HIDE DEF Step
  <2>1. PICK G : G = [n \in 1 .. N |-> [A \in S |-> Step(A, n)]]
    OBVIOUS
  <2>2. G \in [1 .. N -> [S -> S]]
    BY <1>2, <2>1
  <2>3. PICK f \in [0 .. N -> S] : f[0] = z /\ \A n \in 1 .. N : f[n] = G[n][f[n - 1]]
    <3>1. \E f \in [0 .. N -> S] : Recurs(f, z, N, G)
      BY <1>1, <1>3, <2>2, NatRecursion
    <3> QED
      BY <3>1 DEF Recurs
  <2>4. ASSUME NEW n \in 0 .. N
        PROVE  f[n] = IF n = 0 THEN z ELSE Step(f[n - 1], n)
    <3>1. CASE n = 0
      BY <2>3, <3>1
    <3>2. CASE n # 0
      <4>1. n \in 1 .. N /\ n - 1 \in 0 .. N
        BY <1>1, <3>2
      <4>2. f[n - 1] \in S
        BY <2>3, <4>1
      <4> QED
        BY <2>1, <2>3, <3>2, <4>1, <4>2
    <3> QED
      BY <3>1, <3>2
  <2>5. f = [n \in 0 .. N |-> IF n = 0 THEN z ELSE Step(f[n - 1], n)]
    BY <2>3, <2>4
  <2> QED
    BY <2>5
<1>5. PICK d : d = CHOOSE f : f = [n \in 0 .. N |-> IF n = 0 THEN z ELSE Step(f[n - 1], n)]
  OBVIOUS
<1>6. Merge(op, s, t) = d[N].out
  BY <1>1, <1>3, <1>5 DEF Merge, MergeBegin
<1> HIDE DEF Step
<1>7. d = [n \in 0 .. N |-> IF n = 0 THEN z ELSE Step(d[n - 1], n)]
  BY <1>4, <1>5
<1>8. d[0] = z /\ \A n \in 1 .. N : d[n] = Step(d[n - 1], n)
  BY ONLY N \in Nat, <1>7
<1>9. \A n \in 0 .. N : d[n] \in S
  <2>1. SUFFICES ASSUME NEW m \in 0 .. N, d[m] \notin S
                 PROVE  FALSE
    OBVIOUS
  <2>2. PICK T : T = {k \in 0 .. N : d[k] \notin S}
    OBVIOUS
  <2>3. PICK k \in T : \A j \in T : k <= j
    <3>1. m \in T /\ T \in SUBSET Nat
      BY <1>1, <2>1, <2>2
    <3> QED
      BY <3>1, LeastNatural
  <2>4. k \in 1 .. N /\ k - 1 \in 0 .. N /\ k - 1 \notin T
    BY <1>1, <1>3, <1>8, <2>2, <2>3
  <2> QED
    BY <1>2, <1>8, <2>2, <2>3, <2>4
<1>10. d \in [0 .. N -> S]
  BY <1>7, <1>9
<1>11. Merges(op, s, t, d, N)
  BY <1>1, <1>3, <1>6, <1>8, <1>10 DEF Step, Merges
<1> QED
  BY <1>1, <1>11

\* The items before a place.
Before(s, k) == {s[x] : x \in 1 .. k - 1}

LEMMA BeforeNext ==
  ASSUME NEW V, NEW s \in Seq(V), NEW i \in 1 .. Len(s)
  PROVE  Before(s, i + 1) = Before(s, i) \cup {s[i]}
<1>1. Len(s) \in Nat
  OBVIOUS
<1>2. \A x : x \in 1 .. (i + 1) - 1 <=> x \in 1 .. i - 1 \/ x = i
  BY <1>1
<1> QED
  BY ONLY <1>2 DEF Before

LEMMA BeforeAll ==
  ASSUME NEW V, NEW s \in Seq(V)
  PROVE  Before(s, Len(s) + 1) = ToSet(s) /\ Before(s, 1) = {}
<1>1. Len(s) \in Nat /\ DOMAIN s = 1 .. Len(s)
  OBVIOUS
<1>2. \A x : x \in 1 .. (Len(s) + 1) - 1 <=> x \in DOMAIN s
  BY <1>1
<1>3. \A x : x \notin 1 .. 1 - 1
  OBVIOUS
<1> QED
  BY ONLY <1>2, <1>3 DEF Before, ToSet

\* What one round of a merge does.
Round(op, s, t, m, r) ==
  \/ /\ m.i <= Len(s) /\ (m.j <= Len(t) => s[m.i] < t[m.j])
     /\ r.i = m.i + 1 /\ r.j = m.j
     /\ r.out = IF op # "INTERSECTION" THEN Append(m.out, s[m.i]) ELSE m.out
  \/ /\ m.j <= Len(t) /\ (m.i <= Len(s) => t[m.j] < s[m.i])
     /\ r.i = m.i /\ r.j = m.j + 1
     /\ r.out = IF op = "UNION" THEN Append(m.out, t[m.j]) ELSE m.out
  \/ /\ m.i <= Len(s) /\ m.j <= Len(t) /\ s[m.i] = t[m.j]
     /\ r.i = m.i + 1 /\ r.j = m.j + 1
     /\ r.out = IF op # "COMPLEMENT" THEN Append(m.out, s[m.i]) ELSE m.out
  \/ m.i > Len(s) /\ m.j > Len(t) /\ r = m

LEMMA MergeRoundCases ==
  ASSUME NEW s \in Seq(Nat), NEW t \in Seq(Nat), NEW op, NEW m \in MergeStates(s, t)
  PROVE  Round(op, s, t, m, MergeRound(op, s, t, m))
<1>1. PICK a \in Nat, b \in Nat : a = Len(s) /\ b = Len(t)
  OBVIOUS
<1>2. m.i \in 1 .. a + 1 /\ m.j \in 1 .. b + 1
  BY <1>1 DEF MergeStates
<1>3. (m.i <= a => s[m.i] \in Nat) /\ (m.j <= b => t[m.j] \in Nat)
  <2>1. (\A x \in 1 .. a : s[x] \in Nat) /\ (\A x \in 1 .. b : t[x] \in Nat)
    BY <1>1
  <2>2. (m.i <= a => m.i \in 1 .. a) /\ (m.j <= b => m.j \in 1 .. b)
    BY ONLY <1>2, a \in Nat, b \in Nat
  <2> QED
    BY ONLY <2>1, <2>2
<1>4. CASE m.i <= a /\ (m.j <= b => s[m.i] < t[m.j])
  BY <1>1, <1>4 DEF MergeRound, Round
<1>5. CASE ~(m.i <= a /\ (m.j <= b => s[m.i] < t[m.j])) /\ m.j <= b /\ (m.i <= a => s[m.i] > t[m.j])
  BY <1>1, <1>3, <1>5 DEF MergeRound, Round
<1>6. CASE m.i <= a /\ m.j <= b /\ ~(s[m.i] < t[m.j]) /\ ~(s[m.i] > t[m.j])
  <2>1. s[m.i] = t[m.j]
    BY <1>3, <1>6
  <2> QED
    BY <1>1, <1>6, <2>1 DEF MergeRound, Round
<1>7. CASE ~(m.i <= a) /\ ~(m.j <= b)
  <2>1. MergeRound(op, s, t, m) = m
    BY <1>1, <1>7 DEF MergeRound
  <2> QED
    BY <1>1, <1>2, <1>7, <2>1 DEF Round
<1> QED
  BY <1>4, <1>5, <1>6, <1>7

MergeOver(s, t, m) == m.i = Len(s) + 1 /\ m.j = Len(t) + 1

\* A merge ends.
LEMMA MergeEnds ==
  ASSUME NEW s \in Seq(Nat), NEW t \in Seq(Nat), NEW op, NEW f, Merges(op, s, t, f, Len(s) + Len(t))
  PROVE  MergeOver(s, t, f[Len(s) + Len(t)])
<1>1. PICK a \in Nat, b \in Nat, N \in Nat : a = Len(s) /\ b = Len(t) /\ N = a + b /\ N = Len(s) + Len(t)
  OBVIOUS
<1> DEFINE Right(n) == f[n].i + f[n].j >= n + 2 \/ MergeOver(s, t, f[n])
<1>2. \A n \in 0 .. N : f[n] \in MergeStates(s, t) /\ f[n].i \in 1 .. a + 1 /\ f[n].j \in 1 .. b + 1
  BY <1>1 DEF Merges, MergeStates
<1>3. Right(0)
  BY DEF Merges, MergeBegin
<1>4. ASSUME NEW n \in 1 .. N, Right(n - 1)
      PROVE  Right(n)
  <2>1. PICK m, r : m = f[n - 1] /\ r = f[n] /\ n - 1 \in 0 .. N
    OBVIOUS
  <2>2. m \in MergeStates(s, t) /\ r = MergeRound(op, s, t, m) /\ m.i \in 1 .. a + 1 /\ m.j \in 1 .. b + 1
    BY <1>1, <1>2, <2>1 DEF Merges
  <2>3. \/ m.i <= a /\ r.i = m.i + 1 /\ r.j = m.j
        \/ m.j <= b /\ r.i = m.i /\ r.j = m.j + 1
        \/ m.i <= a /\ m.j <= b /\ r.i = m.i + 1 /\ r.j = m.j + 1
        \/ m.i > a /\ m.j > b /\ r = m
    <3>1. Round(op, s, t, m, r)
      BY <2>2, MergeRoundCases
    <3> QED
      BY ONLY <1>1, <3>1 DEF Round
  <2>4. m.i + m.j >= n + 1 \/ (m.i = a + 1 /\ m.j = b + 1)
    BY <1>1, <1>4, <2>1 DEF MergeOver
  <2>5. r.i + r.j >= n + 2 \/ (r.i = a + 1 /\ r.j = b + 1)
    <3>1. PICK i \in Int, j \in Int : i = m.i /\ j = m.j /\ i <= a + 1 /\ j <= b + 1
      <4>1. m.i \in Int /\ m.j \in Int /\ m.i <= a + 1 /\ m.j <= b + 1
        BY <2>2
      <4> QED
        BY ONLY <4>1
    <3>2. (r.i = i + 1 /\ r.j = j) \/ (r.i = i /\ r.j = j + 1) \/ (r.i = i + 1 /\ r.j = j + 1) \/ (i > a /\ j > b /\ r = m)
      BY ONLY <2>3, <3>1
    <3>3. i + j >= n + 1 \/ (i = a + 1 /\ j = b + 1)
      BY ONLY <2>4, <3>1
    <3>4. i = a + 1 => ~(i <= a)
      BY ONLY a \in Nat
    <3>5. j = b + 1 => ~(j <= b)
      BY ONLY b \in Nat
    <3>6. CASE i + j >= n + 1 /\ ~(i > a /\ j > b)
      BY ONLY <3>2, <3>6, n \in 1 .. N, N \in Nat, i \in Int, j \in Int
    <3>7. CASE i > a /\ j > b
      <4>1. r = m
        BY ONLY <2>3, <3>1, <3>7, a \in Nat, b \in Nat, i \in Int, j \in Int
      <4>2. i = a + 1 /\ j = b + 1
        BY ONLY <3>1, <3>7, a \in Nat, b \in Nat, i \in Int, j \in Int
      <4> QED
        BY <3>1, <4>1, <4>2
    <3>8. i + j >= n + 1 \/ (i > a /\ j > b)
      BY ONLY <3>3, a \in Nat, b \in Nat
    <3> QED
      BY <3>6, <3>7, <3>8
  <2> QED
    BY <1>1, <2>1, <2>5 DEF MergeOver
<1>5. Right(N)
  <2> HIDE DEF Right
  <2>1. SUFFICES ASSUME ~Right(N)
                 PROVE  FALSE
    OBVIOUS
  <2>2. PICK T : T = {k \in 0 .. N : ~Right(k)}
    OBVIOUS
  <2>3. PICK k \in T : \A m \in T : k <= m
    <3>1. N \in T /\ T \in SUBSET Nat
      BY <2>1, <2>2
    <3> QED
      BY <3>1, LeastNatural
  <2>4. k \in 1 .. N /\ k - 1 \in 0 .. N /\ k - 1 \notin T
    BY <1>3, <2>2, <2>3
  <2> QED
    BY <1>4, <2>2, <2>3, <2>4
<1>6. PICK i \in 1 .. a + 1, j \in 1 .. b + 1 : i = f[N].i /\ j = f[N].j
  <2>1. N \in 0 .. N
    OBVIOUS
  <2>2. f[N].i \in 1 .. a + 1 /\ f[N].j \in 1 .. b + 1
    BY <1>2, <2>1
  <2> QED
    BY ONLY <2>2
<1>7. i + j >= N + 2 \/ (i = a + 1 /\ j = b + 1)
  BY <1>1, <1>5, <1>6 DEF MergeOver
<1>8. i = a + 1 /\ j = b + 1
  BY <1>1, <1>7
<1> QED
  BY <1>1, <1>6, <1>8 DEF MergeOver

\* The union of two lists, sorted or not, holds the items of both.
LEMMA MergeUnion ==
  ASSUME NEW s \in Seq(Nat), NEW t \in Seq(Nat)
  PROVE  Merge("UNION", s, t) \in Seq(Nat) /\ ToSet(Merge("UNION", s, t)) = ToSet(s) \cup ToSet(t)
<1>1. PICK a \in Nat, b \in Nat, N \in Nat : a = Len(s) /\ b = Len(t) /\ N = a + b /\ N = Len(s) + Len(t)
  OBVIOUS
<1>2. PICK f : Merges("UNION", s, t, f, N)
  BY <1>1, MergeDef
<1>3. MergeOver(s, t, f[N])
  BY <1>1, <1>2, MergeEnds
<1> DEFINE Right(n) == ToSet(f[n].out) = Before(s, f[n].i) \cup Before(t, f[n].j)
<1>4. Right(0)
  <2>1. f[0].i = 1 /\ f[0].j = 1 /\ f[0].out = <<>>
    BY <1>2 DEF Merges, MergeBegin
  <2> QED
    BY <2>1, BeforeAll DEF ToSet
<1>5. ASSUME NEW n \in 1 .. N, Right(n - 1)
      PROVE  Right(n)
  <2>1. PICK m, r : m = f[n - 1] /\ r = f[n] /\ n - 1 \in 0 .. N
    OBVIOUS
  <2>2. m \in MergeStates(s, t) /\ r = MergeRound("UNION", s, t, m)
    BY <1>2, <2>1 DEF Merges
  <2>3. m.i \in 1 .. a + 1 /\ m.j \in 1 .. b + 1 /\ m.out \in Seq(Nat)
    BY <1>1, <2>2 DEF MergeStates
  <2>4. ToSet(m.out) = Before(s, m.i) \cup Before(t, m.j)
    BY <1>5, <2>1
  <2>5. /\ m.i <= a => s[m.i] \in Nat /\ Before(s, m.i + 1) = Before(s, m.i) \cup {s[m.i]}
                       /\ ToSet(Append(m.out, s[m.i])) = ToSet(m.out) \cup {s[m.i]}
        /\ m.j <= b => t[m.j] \in Nat /\ Before(t, m.j + 1) = Before(t, m.j) \cup {t[m.j]}
                       /\ ToSet(Append(m.out, t[m.j])) = ToSet(m.out) \cup {t[m.j]}
    <3> m.i \in Int /\ 1 <= m.i /\ m.j \in Int /\ 1 <= m.j
      BY <2>3
    <3>1. m.i <= a => m.i \in 1 .. Len(s) /\ s[m.i] \in Nat
      BY <1>1, ItemAt
    <3>2. m.j <= b => m.j \in 1 .. Len(t) /\ t[m.j] \in Nat
      BY <1>1, ItemAt
    <3>3. m.i <= a => Before(s, m.i + 1) = Before(s, m.i) \cup {s[m.i]}
      BY <3>1, BeforeNext
    <3>4. m.j <= b => Before(t, m.j + 1) = Before(t, m.j) \cup {t[m.j]}
      BY <3>2, BeforeNext
    <3>5. ASSUME NEW x \in Nat
          PROVE  ToSet(Append(m.out, x)) = ToSet(m.out) \cup {x}
      BY <2>3, AppendSet
    <3> QED
      BY <3>1, <3>2, <3>3, <3>4, <3>5
  <2>6. \/ m.i <= a /\ r.i = m.i + 1 /\ r.j = m.j /\ r.out = Append(m.out, s[m.i])
        \/ m.j <= b /\ r.i = m.i /\ r.j = m.j + 1 /\ r.out = Append(m.out, t[m.j])
        \/ m.i <= a /\ m.j <= b /\ s[m.i] = t[m.j] /\ r.i = m.i + 1 /\ r.j = m.j + 1 /\ r.out = Append(m.out, s[m.i])
        \/ r = m
    <3>1. Round("UNION", s, t, m, r)
      BY <2>2, MergeRoundCases
    <3> QED
      BY ONLY <1>1, <3>1 DEF Round
  <2>7. ToSet(r.out) = Before(s, r.i) \cup Before(t, r.j)
    BY ONLY <2>4, <2>5, <2>6
  <2> QED
    BY <2>1, <2>7
<1>6. Right(N)
  <2> HIDE DEF Right
  <2>1. SUFFICES ASSUME ~Right(N)
                 PROVE  FALSE
    OBVIOUS
  <2>2. PICK T : T = {k \in 0 .. N : ~Right(k)}
    OBVIOUS
  <2>3. PICK k \in T : \A m \in T : k <= m
    <3>1. N \in T /\ T \in SUBSET Nat
      BY <2>1, <2>2
    <3> QED
      BY <3>1, LeastNatural
  <2>4. k \in 1 .. N /\ k - 1 \in 0 .. N /\ k - 1 \notin T
    BY <1>4, <2>2, <2>3
  <2> QED
    BY <1>5, <2>2, <2>3, <2>4
<1>7. f[N].out \in Seq(Nat) /\ Merge("UNION", s, t) = f[N].out
  BY <1>2 DEF Merges, MergeStates
<1>8. f[N].i = a + 1 /\ f[N].j = b + 1
  BY <1>1, <1>3 DEF MergeOver
<1> QED
  BY <1>1, <1>2, <1>6, <1>7, <1>8, BeforeAll


\* What a merge has done when it is at place i of s and place j of t.
Merged(op, s, t, m) ==
  /\ m.out \in Seq(Nat) /\ Ascending(m.out)
  /\ ToSet(m.out) = SetOperation(op, Before(s, m.i), Before(t, m.j))
  /\ m.j <= Len(t) => \A x \in Before(s, m.i) : x < t[m.j]
  /\ m.i <= Len(s) => \A y \in Before(t, m.j) : y < s[m.i]

LEMMA AscendingBefore ==
  ASSUME NEW s \in Seq(Nat), Ascending(s), NEW i \in 1 .. Len(s)
  PROVE  /\ s[i] \in Nat /\ \A x \in Before(s, i) : x \in Nat /\ x < s[i]
         /\ i + 1 <= Len(s) => s[i + 1] \in Nat /\ s[i] < s[i + 1]
<1>1. PICK a \in Nat : a = Len(s) /\ DOMAIN s = 1 .. a /\ i \in 1 .. a
  OBVIOUS
<1>2. \A k \in 1 .. a : s[k] \in Nat
  BY <1>1
<1>3. \A x \in 1 .. i - 1 : x \in 1 .. a /\ x < i
  BY <1>1
<1>4. \A x \in 1 .. i - 1 : s[x] \in Nat /\ s[x] < s[i]
  BY <1>1, <1>2, <1>3 DEF Ascending
<1>5. i + 1 <= a => i + 1 \in 1 .. a /\ i < i + 1
  BY <1>1
<1> QED
  BY <1>1, <1>2, <1>4, <1>5 DEF Ascending, Before

LEMMA BeforeNat ==
  ASSUME NEW s \in Seq(Nat), NEW i \in 1 .. Len(s) + 1
  PROVE  \A x \in Before(s, i) : x \in Nat
<1>1. Len(s) \in Nat /\ \A k \in 1 .. Len(s) : s[k] \in Nat
  OBVIOUS
<1>2. \A x \in 1 .. i - 1 : x \in 1 .. Len(s)
  BY <1>1
<1> QED
  BY <1>1, <1>2 DEF Before

LEMMA MergedNext ==
  ASSUME NEW s \in Seq(Nat), NEW t \in Seq(Nat), NEW op \in Operations, Ascending(s), Ascending(t),
         NEW m \in MergeStates(s, t), NEW r \in MergeStates(s, t), Merged(op, s, t, m), Round(op, s, t, m, r)
  PROVE  Merged(op, s, t, r)
<1>1. PICK a \in Nat, b \in Nat : a = Len(s) /\ b = Len(t)
  OBVIOUS
<1>2. PICK i \in 1 .. a + 1, j \in 1 .. b + 1, out \in Seq(Nat) : i = m.i /\ j = m.j /\ out = m.out
  BY <1>1 DEF MergeStates
<1>3. PICK A, B : A = Before(s, i) /\ B = Before(t, j)
  OBVIOUS
<1>4. /\ Ascending(out) /\ ToSet(out) = SetOperation(op, A, B)
      /\ j <= b => \A x \in A : x < t[j]
      /\ i <= a => \A y \in B : y < s[i]
  BY <1>1, <1>2, <1>3 DEF Merged
<1>5. i <= a => /\ s[i] \in Nat /\ \A x \in A : x < s[i]
                /\ i + 1 <= a => s[i + 1] \in Nat /\ s[i] < s[i + 1]
                /\ Before(s, i + 1) = A \cup {s[i]}
  <2>1. SUFFICES ASSUME i <= a
                 PROVE  /\ s[i] \in Nat /\ \A x \in A : x < s[i]
                        /\ i + 1 <= a => s[i + 1] \in Nat /\ s[i] < s[i + 1]
                        /\ Before(s, i + 1) = A \cup {s[i]}
    OBVIOUS
  <2>2. i \in 1 .. Len(s)
    BY <1>1, <2>1
  <2> QED
    BY <1>1, <1>3, <2>2, AscendingBefore, BeforeNext
<1>6. j <= b => /\ t[j] \in Nat /\ \A x \in B : x < t[j]
                /\ j + 1 <= b => t[j + 1] \in Nat /\ t[j] < t[j + 1]
                /\ Before(t, j + 1) = B \cup {t[j]}
  <2>1. SUFFICES ASSUME j <= b
                 PROVE  /\ t[j] \in Nat /\ \A x \in B : x < t[j]
                        /\ j + 1 <= b => t[j + 1] \in Nat /\ t[j] < t[j + 1]
                        /\ Before(t, j + 1) = B \cup {t[j]}
    OBVIOUS
  <2>2. j \in 1 .. Len(t)
    BY <1>1, <2>1
  <2> QED
    BY <1>1, <1>3, <2>2, AscendingBefore, BeforeNext
<1>7. (\A x \in A : x \in Nat) /\ (\A x \in B : x \in Nat)
  BY <1>1, <1>3, BeforeNat
<1>8. \A x \in ToSet(out) : x \in A \/ x \in B
  BY <1>4 DEF SetOperation
<1>9. ASSUME NEW x \in Nat, \A y \in A : y < x, \A y \in B : y < x
      PROVE  /\ Append(out, x) \in Seq(Nat) /\ ToSet(Append(out, x)) = ToSet(out) \cup {x}
             /\ Ascending(Append(out, x)) /\ x \notin A /\ x \notin B
  <2>1. \A y \in ToSet(out) : y < x
    BY <1>8, <1>9
  <2>2. PICK q : q = Append(out, x)
    OBVIOUS
  <2>3. Ascending(q)
    BY <1>4, <2>1, <2>2, AppendAscending
  <2>4. x \notin A /\ x \notin B
    BY <1>7, <1>9
  <2> QED
    BY <2>2, <2>3, <2>4, AppendSet
<1>10. CASE /\ i <= a /\ (j <= b => s[i] < t[j]) /\ r.i = i + 1 /\ r.j = j
            /\ r.out = IF op # "INTERSECTION" THEN Append(out, s[i]) ELSE out
  <2>1. PICK x \in Nat : x = s[i] /\ Before(s, i + 1) = A \cup {x} /\ \A y \in A : y < x
    BY <1>5, <1>10
  <2>2. \A y \in B : y < x
    BY <1>4, <1>10, <2>1
  <2>3. /\ Append(out, x) \in Seq(Nat) /\ ToSet(Append(out, x)) = ToSet(out) \cup {x}
        /\ Ascending(Append(out, x)) /\ x \notin A /\ x \notin B
    BY <1>9, <2>1, <2>2
  <2>4. r.out \in Seq(Nat) /\ Ascending(r.out)
    BY <1>4, <1>10, <2>1, <2>3
  <2>5. ToSet(r.out) = SetOperation(op, A \cup {x}, B)
    <3>1. SetOperation(op, A \cup {x}, B) =
            IF op # "INTERSECTION" THEN SetOperation(op, A, B) \cup {x} ELSE SetOperation(op, A, B)
      <4>1. x \notin A /\ x \notin B
        BY <2>3
      <4>2. CASE op = "UNION"
        BY ONLY <4>2 DEF SetOperation
      <4>3. CASE op = "INTERSECTION"
        BY ONLY <4>1, <4>3 DEF SetOperation
      <4>4. CASE op = "COMPLEMENT"
        BY ONLY <4>1, <4>4 DEF SetOperation
      <4> QED
        BY <4>2, <4>3, <4>4 DEF Operations
    <3>2. ToSet(out) = SetOperation(op, A, B)
      BY <1>4
    <3>3. r.out = IF op # "INTERSECTION" THEN Append(out, x) ELSE out
      BY <1>10, <2>1
    <3>4. CASE op # "INTERSECTION"
      BY ONLY <2>3, <3>1, <3>2, <3>3, <3>4
    <3>5. CASE ~(op # "INTERSECTION")
      BY ONLY <3>1, <3>2, <3>3, <3>5
    <3> QED
      BY ONLY <3>4, <3>5
  <2>6. j <= b => \A y \in A \cup {x} : y < t[j]
    BY <1>4, <1>10, <2>1
  <2>7. i + 1 <= a => \A y \in B : y < s[i + 1]
    BY <1>5, <1>7, <1>10, <2>1, <2>2
  <2> QED
    BY <1>1, <1>3, <1>10, <2>1, <2>4, <2>5, <2>6, <2>7 DEF Merged
<1>11. CASE /\ j <= b /\ (i <= a => t[j] < s[i]) /\ r.i = i /\ r.j = j + 1
            /\ r.out = IF op = "UNION" THEN Append(out, t[j]) ELSE out
  <2>1. PICK x \in Nat : x = t[j] /\ Before(t, j + 1) = B \cup {x} /\ \A y \in B : y < x
    BY <1>6, <1>11
  <2>2. \A y \in A : y < x
    BY <1>4, <1>11, <2>1
  <2>3. /\ Append(out, x) \in Seq(Nat) /\ ToSet(Append(out, x)) = ToSet(out) \cup {x}
        /\ Ascending(Append(out, x)) /\ x \notin A /\ x \notin B
    BY <1>9, <2>1, <2>2
  <2>4. r.out \in Seq(Nat) /\ Ascending(r.out)
    BY <1>4, <1>11, <2>1, <2>3
  <2>5. ToSet(r.out) = SetOperation(op, A, B \cup {x})
    <3>1. SetOperation(op, A, B \cup {x}) =
            IF op = "UNION" THEN SetOperation(op, A, B) \cup {x} ELSE SetOperation(op, A, B)
      <4>1. x \notin A /\ x \notin B
        BY <2>3
      <4>2. CASE op = "UNION"
        BY ONLY <4>2 DEF SetOperation
      <4>3. CASE op = "INTERSECTION"
        BY ONLY <4>1, <4>3 DEF SetOperation
      <4>4. CASE op = "COMPLEMENT"
        BY ONLY <4>1, <4>4 DEF SetOperation
      <4> QED
        BY <4>2, <4>3, <4>4 DEF Operations
    <3>2. ToSet(out) = SetOperation(op, A, B)
      BY <1>4
    <3>3. r.out = IF op = "UNION" THEN Append(out, x) ELSE out
      BY <1>11, <2>1
    <3>4. CASE op = "UNION"
      BY ONLY <2>3, <3>1, <3>2, <3>3, <3>4
    <3>5. CASE ~(op = "UNION")
      BY ONLY <3>1, <3>2, <3>3, <3>5
    <3> QED
      BY ONLY <3>4, <3>5
  <2>6. i <= a => \A y \in B \cup {x} : y < s[i]
    BY <1>4, <1>11, <2>1
  <2>7. j + 1 <= b => \A y \in A : y < t[j + 1]
    BY <1>6, <1>7, <1>11, <2>1, <2>2
  <2> QED
    BY <1>1, <1>3, <1>11, <2>1, <2>4, <2>5, <2>6, <2>7 DEF Merged
<1>12. CASE /\ i <= a /\ j <= b /\ s[i] = t[j] /\ r.i = i + 1 /\ r.j = j + 1
            /\ r.out = IF op # "COMPLEMENT" THEN Append(out, s[i]) ELSE out
  <2>1. PICK x \in Nat : /\ x = s[i] /\ x = t[j]
                         /\ Before(s, i + 1) = A \cup {x} /\ Before(t, j + 1) = B \cup {x}
                         /\ (\A y \in A : y < x) /\ (\A y \in B : y < x)
    BY <1>5, <1>6, <1>12
  <2>3. /\ Append(out, x) \in Seq(Nat) /\ ToSet(Append(out, x)) = ToSet(out) \cup {x}
        /\ Ascending(Append(out, x)) /\ x \notin A /\ x \notin B
    BY <1>9, <2>1
  <2>4. r.out \in Seq(Nat) /\ Ascending(r.out)
    BY <1>4, <1>12, <2>1, <2>3
  <2>5. ToSet(r.out) = SetOperation(op, A \cup {x}, B \cup {x})
    <3>1. SetOperation(op, A \cup {x}, B \cup {x}) =
            IF op # "COMPLEMENT" THEN SetOperation(op, A, B) \cup {x} ELSE SetOperation(op, A, B)
      <4>1. x \notin A /\ x \notin B
        BY <2>3
      <4>2. CASE op = "UNION"
        BY ONLY <4>2 DEF SetOperation
      <4>3. CASE op = "INTERSECTION"
        BY ONLY <4>1, <4>3 DEF SetOperation
      <4>4. CASE op = "COMPLEMENT"
        BY ONLY <4>1, <4>4 DEF SetOperation
      <4> QED
        BY <4>2, <4>3, <4>4 DEF Operations
    <3>2. ToSet(out) = SetOperation(op, A, B)
      BY <1>4
    <3>3. r.out = IF op # "COMPLEMENT" THEN Append(out, x) ELSE out
      BY <1>12, <2>1
    <3>4. CASE op # "COMPLEMENT"
      BY ONLY <2>3, <3>1, <3>2, <3>3, <3>4
    <3>5. CASE ~(op # "COMPLEMENT")
      BY ONLY <3>1, <3>2, <3>3, <3>5
    <3> QED
      BY ONLY <3>4, <3>5
  <2>6. i + 1 <= a => \A y \in B \cup {x} : y < s[i + 1]
    BY <1>5, <1>7, <1>12, <2>1
  <2>7. j + 1 <= b => \A y \in A \cup {x} : y < t[j + 1]
    BY <1>6, <1>7, <1>12, <2>1
  <2> QED
    BY <1>1, <1>3, <1>12, <2>1, <2>4, <2>5, <2>6, <2>7 DEF Merged
<1>13. CASE r = m
  BY <1>13
<1> QED
  BY <1>1, <1>2, <1>10, <1>11, <1>12, <1>13 DEF Round

\* Merging sorted lists that repeat no item gives the sorted list of the items
\* set theory gives, for each of the three merges of probe_set_combine.
THEOREM MergeExact ==
  ASSUME NEW s \in Seq(Nat), NEW t \in Seq(Nat), NEW op \in Operations, Ascending(s), Ascending(t)
  PROVE  /\ Merge(op, s, t) \in Seq(Nat) /\ Ascending(Merge(op, s, t))
         /\ ToSet(Merge(op, s, t)) = SetOperation(op, ToSet(s), ToSet(t))
<1>1. PICK a \in Nat, b \in Nat, N \in Nat : a = Len(s) /\ b = Len(t) /\ N = a + b /\ N = Len(s) + Len(t)
  OBVIOUS
<1>2. PICK f : Merges(op, s, t, f, N)
  BY <1>1, MergeDef
<1>3. MergeOver(s, t, f[N])
  BY <1>1, <1>2, MergeEnds
<1> DEFINE Right(n) == Merged(op, s, t, f[n])
<1>4. Right(0)
  <2>1. f[0].i = 1 /\ f[0].j = 1 /\ f[0].out = <<>>
    BY <1>2 DEF Merges, MergeBegin
  <2>2. Before(s, 1) = {} /\ Before(t, 1) = {}
    BY BeforeAll
  <2>3. <<>> \in Seq(Nat) /\ DOMAIN << >> = {}
    OBVIOUS
  <2>4. ToSet(<< >>) = {} /\ Ascending(<< >>)
    BY <2>3 DEF ToSet, Ascending
  <2>5. SetOperation(op, {}, {}) = {}
    BY DEF SetOperation
  <2> QED
    BY ONLY <2>1, <2>2, <2>3, <2>4, <2>5 DEF Merged
<1>5. ASSUME NEW n \in 1 .. N, Right(n - 1)
      PROVE  Right(n)
  <2>1. n - 1 \in 0 .. N /\ n \in 0 .. N
    OBVIOUS
  <2>2. f[n - 1] \in MergeStates(s, t) /\ f[n] \in MergeStates(s, t) /\ f[n] = MergeRound(op, s, t, f[n - 1])
    BY <1>2, <2>1 DEF Merges
  <2>3. Round(op, s, t, f[n - 1], f[n])
    BY <2>2, MergeRoundCases
  <2> QED
    BY <1>5, <2>2, <2>3, MergedNext
<1>6. Right(N)
  <2> HIDE DEF Right
  <2>1. SUFFICES ASSUME ~Right(N)
                 PROVE  FALSE
    OBVIOUS
  <2>2. PICK T : T = {k \in 0 .. N : ~Right(k)}
    OBVIOUS
  <2>3. PICK k \in T : \A m \in T : k <= m
    <3>1. N \in T /\ T \in SUBSET Nat
      BY <2>1, <2>2
    <3> QED
      BY <3>1, LeastNatural
  <2>4. k \in 1 .. N /\ k - 1 \in 0 .. N /\ k - 1 \notin T
    BY <1>4, <2>2, <2>3
  <2> QED
    BY <1>5, <2>2, <2>3, <2>4
<1>7. Merge(op, s, t) = f[N].out
  BY <1>2 DEF Merges
<1>8. f[N].i = Len(s) + 1 /\ f[N].j = Len(t) + 1
  BY <1>3 DEF MergeOver
<1> QED
  BY <1>6, <1>7, <1>8, BeforeAll DEF Merged


-----------------------------------------------------------------------------
(***************************************************************************)
(* Filtered lists.                                                         *)
(***************************************************************************)
LEMMA Upward ==
  ASSUME NEW N \in Nat, NEW Q, 0 \in Q, \A n \in 1 .. N : n - 1 \in Q => n \in Q
  PROVE  \A n \in 0 .. N : n \in Q
<1>1. SUFFICES ASSUME NEW m \in 0 .. N, m \notin Q
               PROVE  FALSE
  OBVIOUS
<1>2. PICK T : T = {k \in 0 .. N : k \notin Q}
  OBVIOUS
<1>3. PICK k \in T : \A j \in T : k <= j
  <2>1. m \in T /\ T \in SUBSET Nat
    BY <1>1, <1>2
  <2> QED
    BY <2>1, LeastNatural
<1>4. k \in 1 .. N /\ k - 1 \in 0 .. N /\ k - 1 \notin T
  BY <1>2, <1>3
<1> QED
  BY <1>2, <1>3, <1>4

Restricts(f, s, kept) ==
  /\ f \in [0 .. Len(s) -> Seq(Nat)] /\ f[0] = <<>> /\ Restricted(s, kept) = f[Len(s)]
  /\ \A n \in 1 .. Len(s) : f[n] = IF s[n] \in kept THEN Append(f[n - 1], s[n]) ELSE f[n - 1]

LEMMA RestrictedDef ==
  ASSUME NEW s \in Seq(Nat), NEW kept
  PROVE  \E f : Restricts(f, s, kept)
<1>0. PICK S : S = Seq(Nat)
  OBVIOUS
<1>1. PICK N \in Nat : N = Len(s) /\ S = Seq(Nat)
  BY <1>0
<1> DEFINE Step(A, n) == IF s[n] \in kept THEN Append(A, s[n]) ELSE A
<1>2. \A n \in 1 .. N : \A A \in S : Step(A, n) \in S
  BY <1>1
<1>3. PICK z : z = <<>> /\ z \in S
  <2>1. <<>> \in Seq(Nat)
    OBVIOUS
  <2> QED
    BY <1>1, <2>1
<1>4. \E f : f = [n \in 0 .. N |-> IF n = 0 THEN z ELSE Step(f[n - 1], n)]
  <2> HIDE DEF Step
  <2>1. PICK G : G = [n \in 1 .. N |-> [A \in S |-> Step(A, n)]]
    OBVIOUS
  <2>2. G \in [1 .. N -> [S -> S]]
    BY <1>2, <2>1
  <2>3. PICK f \in [0 .. N -> S] : f[0] = z /\ \A n \in 1 .. N : f[n] = G[n][f[n - 1]]
    <3>1. \E f \in [0 .. N -> S] : Recurs(f, z, N, G)
      BY <1>1, <1>3, <2>2, NatRecursion
    <3> QED
      BY <3>1 DEF Recurs
  <2>4. ASSUME NEW n \in 0 .. N
        PROVE  f[n] = IF n = 0 THEN z ELSE Step(f[n - 1], n)
    <3>1. CASE n = 0
      BY <2>3, <3>1
    <3>2. CASE n # 0
      <4>1. n \in 1 .. N /\ n - 1 \in 0 .. N
        BY <1>1, <3>2
      <4>2. f[n - 1] \in S
        BY <2>3, <4>1
      <4> QED
        BY <2>1, <2>3, <3>2, <4>1, <4>2
    <3> QED
      BY <3>1, <3>2
  <2>5. f = [n \in 0 .. N |-> IF n = 0 THEN z ELSE Step(f[n - 1], n)]
    BY <2>3, <2>4
  <2> QED
    BY <2>5
<1>5. PICK d : d = CHOOSE f : f = [n \in 0 .. N |-> IF n = 0 THEN z ELSE Step(f[n - 1], n)]
  OBVIOUS
<1>6. Restricted(s, kept) = d[N]
  BY <1>1, <1>3, <1>5 DEF Restricted
<1> HIDE DEF Step
<1>7. d = [n \in 0 .. N |-> IF n = 0 THEN z ELSE Step(d[n - 1], n)]
  BY <1>4, <1>5
<1>8. d[0] = z /\ \A n \in 1 .. N : d[n] = Step(d[n - 1], n)
  BY <1>1, <1>7
<1>9. \A n \in 0 .. N : d[n] \in S
  <2>1. PICK Q : Q = {k \in 0 .. N : d[k] \in S}
    OBVIOUS
  <2>2. 0 \in Q
    BY ONLY N \in Nat, <1>3, <1>8, <2>1
  <2>3. \A n \in 1 .. N : n - 1 \in Q => n \in Q
    BY <1>2, <1>8, <2>1
  <2>4. \A n \in 0 .. N : n \in Q
    BY ONLY N \in Nat, <2>2, <2>3, Upward
  <2> QED
    BY <2>1, <2>4
<1>10. d \in [0 .. N -> S]
  BY <1>7, <1>9
<1>11. Restricts(d, s, kept)
  BY <1>1, <1>3, <1>6, <1>8, <1>10 DEF Step, Restricts
<1> QED
  BY <1>11

LEMMA RestrictedExact ==
  ASSUME NEW s \in Seq(Nat), NEW kept, Ascending(s)
  PROVE  /\ Restricted(s, kept) \in Seq(Nat) /\ Ascending(Restricted(s, kept))
         /\ ToSet(Restricted(s, kept)) = ToSet(s) \cap kept
<1>1. PICK N \in Nat : N = Len(s)
  OBVIOUS
<1>2. PICK f : Restricts(f, s, kept)
  BY RestrictedDef
<1> DEFINE Right(n) == /\ f[n] \in Seq(Nat) /\ Ascending(f[n]) /\ ToSet(f[n]) = Before(s, n + 1) \cap kept
<1>3. Right(0)
  <2>1. <<>> \in Seq(Nat) /\ DOMAIN << >> = {}
    OBVIOUS
  <2>2. ToSet(<< >>) = {} /\ Ascending(<< >>)
    BY <2>1 DEF ToSet, Ascending
  <2>3. Before(s, 0 + 1) = {}
    BY BeforeAll
  <2> QED
    BY <1>2, <2>1, <2>2, <2>3 DEF Restricts
<1>4. ASSUME NEW n \in 1 .. N, Right(n - 1)
      PROVE  Right(n)
  <2>0. PICK A, out, g : A = Before(s, n) /\ out = f[n - 1] /\ g = f[n]
    OBVIOUS
  <2>1. PICK x \in Nat : x = s[n] /\ A = Before(s, n) /\ out = f[n - 1] /\ g = f[n]
    BY <2>0, <1>1
  <2>2. out \in Seq(Nat) /\ Ascending(out) /\ ToSet(out) = A \cap kept
    BY <1>4, <2>1
  <2>3. Before(s, n + 1) = A \cup {x} /\ \A y \in A : y < x
    BY <1>1, <2>1, AscendingBefore, BeforeNext
  <2>4. g = IF x \in kept THEN Append(out, x) ELSE out
    BY <1>1, <1>2, <2>1 DEF Restricts
  <2>5. CASE x \in kept
    <3>1. g = Append(out, x)
      BY <2>4, <2>5
    <3>2. g \in Seq(Nat) /\ ToSet(g) = ToSet(out) \cup {x}
      BY <2>2, <3>1, AppendSet
    <3>3. \A y \in ToSet(out) : y < x
      BY <2>2, <2>3
    <3>4. Ascending(g)
      BY <2>2, <3>1, <3>3, AppendAscending
    <3> QED
      BY <2>1, <2>2, <2>3, <2>5, <3>2, <3>4
  <2>6. CASE x \notin kept
    BY <2>1, <2>2, <2>3, <2>4, <2>6
  <2> QED
    BY <2>5, <2>6
<1>5. Right(N)
  <2> HIDE DEF Right
  <2>1. PICK Q : Q = {k \in 0 .. N : Right(k)}
    OBVIOUS
  <2>2. 0 \in Q /\ \A n \in 1 .. N : n - 1 \in Q => n \in Q
    BY <1>3, <1>4, <2>1
  <2>3. \A n \in 0 .. N : n \in Q
    BY <2>2, Upward
  <2> QED
    BY <2>1, <2>3
<1> QED
  BY <1>1, <1>2, <1>5, BeforeAll DEF Restricts


-----------------------------------------------------------------------------
(***************************************************************************)
(* Binary search (oscap_bfind_i).                                          *)
(***************************************************************************)
Searches(L) == {r \in [s : 0 .. L, w : 0 .. L] : r.s + r.w <= L}

LEMMA Half ==
  ASSUME NEW w \in Nat, w # 0
  PROVE  w \div 2 \in Nat /\ w \div 2 < w
OBVIOUS

LEMMA SearchPlace ==
  ASSUME NEW s \in Nat, NEW w \in Nat, NEW h \in Nat, NEW L \in Nat, s + w <= L, h < w
  PROVE  /\ s + h + 1 \in s + 1 .. s + w /\ s + h + 1 \in 1 .. L
         /\ w - h - 1 = s + w - (s + h + 1) /\ h = (s + h + 1) - s - 1
OBVIOUS

LEMMA SearchBounds ==
  ASSUME NEW s \in Nat, NEW w \in Nat, NEW L \in Nat, s + w <= L, NEW k \in s + 1 .. s + w
  PROVE  /\ k \in Nat /\ s + w - k \in Nat /\ k + (s + w - k) <= L
         /\ k - s - 1 \in Nat /\ s + (k - s - 1) <= L
OBVIOUS

\* What one round of the search does.
Probed(block, key, r, q) ==
  \/ r.w = 0 /\ q = r
  \/ \E k \in r.s + 1 .. r.s + r.w : block[k] < key /\ q = [s |-> k, w |-> r.s + r.w - k]
  \/ \E k \in r.s + 1 .. r.s + r.w : key < block[k] /\ q = [s |-> r.s, w |-> k - r.s - 1]
  \/ \E k \in r.s + 1 .. r.s + r.w : key = block[k] /\ q = [s |-> 0, w |-> 0]

LEMMA BfindRoundCases ==
  ASSUME NEW block \in Seq(Nat), NEW key \in Nat, NEW r \in Searches(Len(block))
  PROVE  Probed(block, key, r, BfindRound(block, key, r))
<1>1. PICK L \in Nat : L = Len(block) /\ \A k \in 1 .. L : block[k] \in Nat
  OBVIOUS
<1>2. PICK s \in Nat, w \in Nat : s = r.s /\ w = r.w /\ s + w <= L
  <2>1. r.s \in 0 .. L /\ r.w \in 0 .. L /\ r.s + r.w <= L
    BY <1>1 DEF Searches
  <2>2. r.s \in Nat /\ r.w \in Nat
    BY <2>1
  <2> QED
    BY ONLY <2>1, <2>2
<1>3. CASE w = 0
  BY <1>2, <1>3 DEF BfindRound, Probed
<1>4. CASE w # 0
  <2>1. PICK h \in Nat : h = w \div 2 /\ h < w
    BY <1>4, Half
  <2>2. PICK k : k = s + h + 1 /\ k \in s + 1 .. s + w /\ k \in 1 .. L /\ w - h - 1 = s + w - k /\ h = k - s - 1
    <3>1. PICK k : k = s + h + 1
      OBVIOUS
    <3>2. k \in s + 1 .. s + w /\ k \in 1 .. L /\ w - h - 1 = s + w - k /\ h = k - s - 1
      <4>1. s + w <= L /\ h < w
        BY <1>2, <2>1
      <4>2. /\ s + h + 1 \in s + 1 .. s + w /\ s + h + 1 \in 1 .. L
            /\ w - h - 1 = s + w - (s + h + 1) /\ h = (s + h + 1) - s - 1
        BY ONLY <4>1, SearchPlace, L \in Nat, s \in Nat, w \in Nat, h \in Nat
      <4> QED
        BY ONLY <3>1, <4>2
    <3> QED
      BY ONLY <3>1, <3>2
  <2>3. block[k] \in Nat
    BY <1>1, <2>2
  <2>4. BfindRound(block, key, r) = IF key > block[k] THEN [s |-> k, w |-> s + w - k]
                                    ELSE IF key < block[k] THEN [s |-> s, w |-> k - s - 1]
                                    ELSE [s |-> 0, w |-> 0]
    BY ONLY <1>2, <1>4, <2>1, <2>2 DEF BfindRound
  <2>5. key > block[k] \/ key < block[k] \/ key = block[k]
    BY <2>3
  <2>6. (key > block[k] => block[k] < key) /\ (key < block[k] => ~(key > block[k]))
        /\ (key = block[k] => ~(key > block[k]) /\ ~(key < block[k]))
    BY <2>3
  <2> QED
    BY ONLY <1>2, <2>2, <2>4, <2>5, <2>6 DEF Probed
<1> QED
  BY <1>3, <1>4

LEMMA BfindRoundType ==
  ASSUME NEW block \in Seq(Nat), NEW key \in Nat, NEW r \in Searches(Len(block))
  PROVE  BfindRound(block, key, r) \in Searches(Len(block))
<1>1. PICK L \in Nat : L = Len(block)
  OBVIOUS
<1>2. PICK s \in Nat, w \in Nat : s = r.s /\ w = r.w /\ s + w <= L
  <2>1. r.s \in 0 .. L /\ r.w \in 0 .. L /\ r.s + r.w <= L
    BY <1>1 DEF Searches
  <2>2. r.s \in Nat /\ r.w \in Nat
    BY <2>1
  <2> QED
    BY ONLY <2>1, <2>2
<1>3. PICK q : q = BfindRound(block, key, r)
  OBVIOUS
<1>4. \/ q = r
      \/ \E k \in s + 1 .. s + w : q = [s |-> k, w |-> s + w - k] \/ q = [s |-> s, w |-> k - s - 1]
      \/ q = [s |-> 0, w |-> 0]
  <2>1. Probed(block, key, r, q)
    BY <1>3, BfindRoundCases
  <2> QED
    BY ONLY <1>2, <2>1 DEF Probed
<1>5. \A x \in Nat, y \in Nat : x + y <= L => [s |-> x, w |-> y] \in Searches(Len(block))
  BY <1>1 DEF Searches
<1>6. \A k \in s + 1 .. s + w : /\ k \in Nat /\ s + w - k \in Nat /\ k + (s + w - k) <= L
                                /\ k - s - 1 \in Nat /\ s + (k - s - 1) <= L
  BY ONLY <1>2, SearchBounds, L \in Nat
<1>7. 0 + 0 <= L
  OBVIOUS
<1> QED
  BY <1>3, <1>4, <1>5, <1>6, <1>7

Finds(f, block, key) ==
  LET L == Len(block)
  IN  /\ f \in [0 .. L -> Searches(L)] /\ f[0] = [s |-> 0, w |-> L] /\ BfindSave(block, key) = f[L].s
      /\ \A n \in 1 .. L : f[n] = BfindRound(block, key, f[n - 1])

LEMMA BfindDef ==
  ASSUME NEW block \in Seq(Nat), NEW key \in Nat
  PROVE  \E f : Finds(f, block, key)
<1>0. PICK S : S = Searches(Len(block))
  OBVIOUS
<1>1. PICK N \in Nat : N = Len(block) /\ S = Searches(N)
  BY <1>0
<1> DEFINE Step(A, n) == BfindRound(block, key, A)
<1>2. \A n \in 1 .. N : \A A \in S : Step(A, n) \in S
  BY <1>1, BfindRoundType
<1>3. PICK z : z = [s |-> 0, w |-> N] /\ z \in S
  <2>1. 0 \in 0 .. N /\ N \in 0 .. N /\ 0 + N <= N
    OBVIOUS
  <2>2. [s |-> 0, w |-> N] \in Searches(N)
    BY <2>1 DEF Searches
  <2> QED
    BY <1>1, <2>2
<1>4. \E f : f = [n \in 0 .. N |-> IF n = 0 THEN z ELSE Step(f[n - 1], n)]
  <2> HIDE DEF Step
  <2>1. PICK G : G = [n \in 1 .. N |-> [A \in S |-> Step(A, n)]]
    OBVIOUS
  <2>2. G \in [1 .. N -> [S -> S]]
    BY <1>2, <2>1
  <2>3. PICK f \in [0 .. N -> S] : f[0] = z /\ \A n \in 1 .. N : f[n] = G[n][f[n - 1]]
    <3>1. \E f \in [0 .. N -> S] : Recurs(f, z, N, G)
      BY <1>1, <1>3, <2>2, NatRecursion
    <3> QED
      BY <3>1 DEF Recurs
  <2>4. ASSUME NEW n \in 0 .. N
        PROVE  f[n] = IF n = 0 THEN z ELSE Step(f[n - 1], n)
    <3>1. CASE n = 0
      BY <2>3, <3>1
    <3>2. CASE n # 0
      <4>1. n \in 1 .. N /\ n - 1 \in 0 .. N
        BY <1>1, <3>2
      <4>2. f[n - 1] \in S
        BY <2>3, <4>1
      <4> QED
        BY <2>1, <2>3, <3>2, <4>1, <4>2
    <3> QED
      BY <3>1, <3>2
  <2>5. f = [n \in 0 .. N |-> IF n = 0 THEN z ELSE Step(f[n - 1], n)]
    BY <2>3, <2>4
  <2> QED
    BY <2>5
<1>5. PICK d : d = CHOOSE f : f = [n \in 0 .. N |-> IF n = 0 THEN z ELSE Step(f[n - 1], n)]
  OBVIOUS
<1>6. BfindSave(block, key) = d[N].s
  BY <1>1, <1>3, <1>5 DEF BfindSave
<1> HIDE DEF Step
<1>7. d = [n \in 0 .. N |-> IF n = 0 THEN z ELSE Step(d[n - 1], n)]
  BY <1>4, <1>5
<1>8. d[0] = z /\ \A n \in 1 .. N : d[n] = Step(d[n - 1], n)
  BY ONLY N \in Nat, <1>7
<1>9. \A n \in 0 .. N : d[n] \in S
  <2>1. PICK Q : Q = {k \in 0 .. N : d[k] \in S}
    OBVIOUS
  <2>2. 0 \in Q
    BY ONLY N \in Nat, <1>3, <1>8, <2>1
  <2>3. \A n \in 1 .. N : n - 1 \in Q => n \in Q
    BY <1>2, <1>8, <2>1
  <2>4. \A n \in 0 .. N : n \in Q
    BY ONLY N \in Nat, <2>2, <2>3, Upward
  <2> QED
    BY <2>1, <2>4
<1>10. d \in [0 .. N -> S]
  BY <1>7, <1>9
<1>11. Finds(d, block, key)
  BY <1>1, <1>3, <1>6, <1>8, <1>10 DEF Step, Finds
<1> QED
  BY <1>11

LEMMA BfindType ==
  ASSUME NEW block \in Seq(Nat), NEW key \in Nat
  PROVE  BfindSave(block, key) \in 0 .. Len(block)
<1>1. PICK f : Finds(f, block, key)
  BY BfindDef
<1>2. PICK L \in Nat : L = Len(block) /\ L \in 0 .. L
  OBVIOUS
<1> QED
  BY <1>1, <1>2 DEF Finds, Searches

\* What is known of a search for a key that is not in the block.
Searched(block, key, r) ==
  /\ \A k \in 1 .. r.s : block[k] < key
  /\ \A k \in r.s + r.w + 1 .. Len(block) : key < block[k]

\* The place found is the one where the key belongs.
LEMMA BfindPlace ==
  ASSUME NEW block \in Seq(Nat), NEW key \in Nat, Ascending(block), key \notin ToSet(block)
  PROVE  /\ \A k \in 1 .. BfindSave(block, key) : block[k] < key
         /\ \A k \in BfindSave(block, key) + 1 .. Len(block) : key < block[k]
<1>1. PICK f : Finds(f, block, key)
  BY BfindDef
<1>2. PICK L \in Nat : L = Len(block) /\ DOMAIN block = 1 .. L /\ \A k \in 1 .. L : block[k] \in Nat
  OBVIOUS
<1> DEFINE Right(n) == Searched(block, key, f[n]) /\ f[n].w <= L - n
<1>3. Right(0)
  <2>1. f[0].s = 0 /\ f[0].w = L
    BY <1>1, <1>2 DEF Finds
  <2>2. (\A k \in 1 .. 0 : block[k] < key) /\ (\A k \in 0 + L + 1 .. L : key < block[k]) /\ L <= L - 0
    OBVIOUS
  <2> QED
    BY <1>2, <2>1, <2>2 DEF Searched
<1>4. ASSUME NEW n \in 1 .. L, Right(n - 1)
      PROVE  Right(n)
  <2>1. n - 1 \in 0 .. L
    OBVIOUS
  <2>2. PICK r, q : r = f[n - 1] /\ q = f[n] /\ r \in Searches(L) /\ q = BfindRound(block, key, r)
    BY <1>1, <1>2, <2>1 DEF Finds
  <2>3. PICK s \in Nat, w \in Nat : s = r.s /\ w = r.w /\ s + w <= L
    <3>1. r.s \in 0 .. L /\ r.w \in 0 .. L /\ r.s + r.w <= L
      BY <2>2 DEF Searches
    <3>2. r.s \in Nat /\ r.w \in Nat
      BY <3>1
    <3> QED
      BY ONLY <3>1, <3>2
  <2>4. /\ \A k \in 1 .. s : block[k] < key
        /\ \A k \in s + w + 1 .. L : key < block[k]
        /\ w <= L - (n - 1)
    BY <1>2, <1>4, <2>2, <2>3 DEF Searched
  <2>5. \A k \in s + 1 .. s + w : k \in 1 .. L /\ key # block[k]
    <3>1. \A k \in s + 1 .. s + w : k \in 1 .. L
      BY <2>3
    <3>2. \A k \in 1 .. L : block[k] \in ToSet(block)
      BY <1>2 DEF ToSet
    <3> QED
      BY <3>1, <3>2
  <2>6. \/ w = 0 /\ q = r
        \/ \E k \in s + 1 .. s + w : block[k] < key /\ q = [s |-> k, w |-> s + w - k]
        \/ \E k \in s + 1 .. s + w : key < block[k] /\ q = [s |-> s, w |-> k - s - 1]
    <3>1. Probed(block, key, r, q)
      BY <1>2, <2>2, BfindRoundCases
    <3> QED
      BY ONLY <2>3, <2>5, <3>1 DEF Probed
  <2>7. CASE w = 0 /\ q = r
    <3>1. f[n] = f[n - 1] /\ f[n].w = 0
      BY <2>2, <2>3, <2>7
    <3>2. 0 <= L - n
      BY ONLY L \in Nat, n \in 1 .. L
    <3> QED
      BY <1>4, <3>1, <3>2
  <2>8. CASE \E k \in s + 1 .. s + w : block[k] < key /\ q = [s |-> k, w |-> s + w - k]
    <3>1. PICK k \in s + 1 .. s + w : block[k] < key /\ q = [s |-> k, w |-> s + w - k]
      BY <2>8
    <3> k \in 1 .. L /\ k \in Int /\ s + 1 <= k /\ k <= s + w
      BY <2>5, <3>1
    <3>2. \A x \in 1 .. k : x \in 1 .. L /\ (x = k \/ x < k)
      OBVIOUS
    <3>3. \A x \in 1 .. k : block[x] < key
      <4>1. \A x \in 1 .. k : x = k \/ block[x] < block[k]
        BY <1>2, <2>5, <3>2 DEF Ascending
      <4> QED
        BY <1>2, <2>5, <3>1, <3>2, <4>1
    <3>4. k + (s + w - k) = s + w /\ s + w - k <= L - n
      BY <2>3, <2>4
    <3> QED
      <4>1. f[n].s = k /\ f[n].w = s + w - k /\ f[n].s + f[n].w + 1 = s + w + 1
        BY <2>2, <3>1, <3>4
      <4> QED
        BY ONLY <1>2, <2>4, <3>3, <3>4, <4>1 DEF Searched
  <2>9. CASE \E k \in s + 1 .. s + w : key < block[k] /\ q = [s |-> s, w |-> k - s - 1]
    <3>1. PICK k \in s + 1 .. s + w : key < block[k] /\ q = [s |-> s, w |-> k - s - 1]
      BY <2>9
    <3> k \in 1 .. L /\ k \in Int /\ s + 1 <= k /\ k <= s + w
      BY <2>5, <3>1
    <3>2. \A x \in k .. L : x \in 1 .. L /\ (x = k \/ k < x)
      OBVIOUS
    <3>3. \A x \in k .. L : key < block[x]
      <4>1. \A x \in k .. L : x = k \/ block[k] < block[x]
        BY <1>2, <2>5, <3>2 DEF Ascending
      <4> QED
        BY <1>2, <2>5, <3>1, <3>2, <4>1
    <3>4. s + (k - s - 1) + 1 = k /\ k - s - 1 <= L - n
      <4>1. n \in Int /\ w <= L - (n - 1) /\ s + 1 <= k /\ k <= s + w /\ k \in Int
        BY <2>4
      <4> QED
        BY ONLY <4>1, s \in Nat, w \in Nat, L \in Nat
    <3> QED
      <4>1. f[n].s = s /\ f[n].w = k - s - 1 /\ f[n].s + f[n].w + 1 = k
        BY <2>2, <3>1, <3>4
      <4> QED
        BY ONLY <1>2, <2>4, <3>3, <3>4, <4>1 DEF Searched
  <2> QED
    BY <2>6, <2>7, <2>8, <2>9
<1>5. Right(L)
  <2> HIDE DEF Right
  <2>1. PICK Q : Q = {k \in 0 .. L : Right(k)}
    OBVIOUS
  <2>2. 0 \in Q /\ \A n \in 1 .. L : n - 1 \in Q => n \in Q
    BY <1>3, <1>4, <2>1
  <2>3. \A n \in 0 .. L : n \in Q
    BY <2>2, Upward
  <2> QED
    BY <2>1, <2>3
<1>6. L \in 0 .. L /\ f[L].s \in Nat /\ f[L].w \in Nat
  BY <1>1, <1>2 DEF Finds, Searches
<1>7. f[L].w = 0 /\ BfindSave(block, key) = f[L].s
  BY <1>1, <1>2, <1>5, <1>6 DEF Finds
<1>8. f[L].s + 0 + 1 = f[L].s + 1
  BY <1>6
<1> QED
  BY <1>2, <1>5, <1>7, <1>8 DEF Searched


-----------------------------------------------------------------------------
(***************************************************************************)
(* A list without repetitions can be sorted, and qsort sorts it.           *)
(***************************************************************************)
Sorting(b, A, k, g) ==
  /\ g \in [1 .. k -> A] /\ (\A x \in A : \E i \in 1 .. k : g[i] = x)
  /\ \A i, j \in 1 .. k : i < j => b[g[i]] < b[g[j]]
Low(b, A) == \A x \in A, y \in DOMAIN b \ A : b[x] < b[y]

LEMMA SortedOnce ==
  ASSUME NEW n \in Nat, NEW b \in [1 .. n -> Nat], NEW A \in SUBSET (1 .. n), NEW k \in Nat, NEW g,
         Sorting(b, A, k, g)
  PROVE  \A i, j \in 1 .. k : g[i] = g[j] => i = j
<1>1. SUFFICES ASSUME NEW i \in 1 .. k, NEW j \in 1 .. k, g[i] = g[j], i # j
               PROVE  FALSE
  OBVIOUS
<1>2. g[i] \in 1 .. n /\ b[g[i]] \in Nat
  BY DEF Sorting
<1>3. i < j \/ j < i
  BY <1>1
<1> QED
  BY <1>1, <1>2, <1>3 DEF Sorting

LEMMA SortingNext ==
  ASSUME NEW n \in Nat, NEW b \in [1 .. n -> Nat], IsInjective(b), NEW A \in SUBSET (1 .. n), A # 1 .. n,
         NEW k \in Nat, NEW g, Sorting(b, A, k, g), Low(b, A)
  PROVE  \E c \in (1 .. n) \ A : Low(b, A \cup {c}) /\ \E h : Sorting(b, A \cup {c}, k + 1, h)
<1>1. PICK T : T = {b[y] : y \in (1 .. n) \ A}
  OBVIOUS
<1>2. T \in SUBSET Nat /\ T # {}
  BY <1>1
<1>3. PICK least \in T : \A m \in T : least <= m
  BY <1>2, LeastNatural
<1>4. PICK c \in (1 .. n) \ A : b[c] = least
  BY <1>1, <1>3
<1>5. \A y \in (1 .. n) \ A : y # c => b[c] < b[y]
  <2>1. SUFFICES ASSUME NEW y \in (1 .. n) \ A, y # c
                 PROVE  b[c] < b[y]
    OBVIOUS
  <2>2. b[c] <= b[y]
    BY <1>1, <1>3, <1>4
  <2>3. b[c] # b[y]
    BY <2>1 DEF IsInjective
  <2>4. b[c] \in Nat /\ b[y] \in Nat
    OBVIOUS
  <2> QED
    BY <2>2, <2>3, <2>4
<1>6. Low(b, A \cup {c})
  BY <1>5 DEF Low
<1>7. \A x \in A : b[x] < b[c]
  BY <1>4 DEF Low
<1>8. PICK h : h = [i \in 1 .. k + 1 |-> IF i = k + 1 THEN c ELSE g[i]]
  OBVIOUS
<1>9. \A i : i \in 1 .. k + 1 <=> i \in 1 .. k \/ i = k + 1
  OBVIOUS
<1>10. \A i \in 1 .. k : i # k + 1 /\ g[i] \in A
  BY DEF Sorting
<1>11. h[k + 1] = c /\ k + 1 \in 1 .. k + 1 /\ \A i \in 1 .. k : h[i] = g[i]
  BY <1>8, <1>9, <1>10
<1>12. h \in [1 .. k + 1 -> A \cup {c}]
  BY <1>8, <1>9, <1>10
<1>13. \A x \in A \cup {c} : \E i \in 1 .. k + 1 : h[i] = x
  BY <1>9, <1>11 DEF Sorting
<1>14. ASSUME NEW i \in 1 .. k + 1, NEW j \in 1 .. k + 1, i < j
       PROVE  b[h[i]] < b[h[j]]
  <2>1. i \in 1 .. k
    BY <1>14
  <2>2. CASE j = k + 1
    BY <1>7, <1>10, <1>11, <2>1, <2>2
  <2>3. CASE j \in 1 .. k
    BY <1>11, <1>14, <2>1, <2>3 DEF Sorting
  <2> QED
    BY <1>9, <2>2, <2>3
<1>15. Sorting(b, A \cup {c}, k + 1, h)
  BY <1>12, <1>13, <1>14 DEF Sorting
<1> QED
  BY <1>4, <1>6, <1>15

LEMMA SortingExists ==
  ASSUME NEW n \in Nat, NEW b \in [1 .. n -> Nat], IsInjective(b)
  PROVE  \E g : Sorting(b, 1 .. n, n, g)
<1>1. PICK D : D = 1 .. n /\ IsFiniteSet(D) /\ Cardinality(D) = n
  BY FS_Interval
<1>2. PICK F : F = {A \in SUBSET D : Low(b, A) /\ \E g : Sorting(b, A, Cardinality(A), g)}
  OBVIOUS
<1>3. {} \in F
  <2>1. Cardinality({}) = 0
    BY FS_EmptySet
  <2>2. PICK g : g = [i \in 1 .. 0 |-> 0]
    OBVIOUS
  <2>3. g \in [1 .. 0 -> {}] /\ \A i : i \notin 1 .. 0
    BY <2>2
  <2>4. Sorting(b, {}, 0, g)
    BY <2>3 DEF Sorting
  <2>5. Low(b, {})
    BY DEF Low
  <2> QED
    BY <1>2, <2>1, <2>4, <2>5
<1>4. ASSUME NEW A \in F, A # D
      PROVE  \E c \in D \ A : A \cup {c} \in F
  <2>1. A \in SUBSET D /\ Low(b, A)
    BY <1>2
  <2>2. PICK g : Sorting(b, A, Cardinality(A), g)
    BY <1>2
  <2>3. PICK k \in Nat : k = Cardinality(A) /\ IsFiniteSet(A)
    <3>1. IsFiniteSet(A)
      BY <1>1, <2>1, FS_Subset
    <3> QED
      BY <3>1, FS_CardinalityType
  <2>4. PICK c \in (1 .. n) \ A : Low(b, A \cup {c}) /\ \E h : Sorting(b, A \cup {c}, k + 1, h)
    BY <1>1, <1>4, <2>1, <2>2, <2>3, SortingNext
  <2>5. Cardinality(A \cup {c}) = k + 1
    BY <2>3, FS_AddElement
  <2>6. A \cup {c} \in SUBSET D
    BY <1>1, <2>1
  <2> QED
    BY <1>1, <1>2, <2>4, <2>5, <2>6
<1>5. F \in SUBSET SUBSET D
  BY <1>2
<1>6. D \in F
  <2>1. IsFiniteSet(D)
    BY <1>1
  <2>2. \A A \in F : A # D => \E c \in D \ A : A \cup {c} \in F
    BY <1>4
  <2> QED
    BY ONLY <1>3, <1>5, <2>1, <2>2, FamilyExhausts
<1> QED
  BY <1>1, <1>2, <1>6

\* qsort: the same items in ascending order.
LEMMA QsortSorts ==
  ASSUME NEW n \in Nat, NEW b \in [1 .. n -> Nat], IsInjective(b)
  PROVE  /\ Qsort(b) \in [1 .. n -> Nat] /\ Ascending(Qsort(b))
         /\ \A i \in 1 .. n : \E j \in 1 .. n : Qsort(b)[i] = b[j]
         /\ \A j \in 1 .. n : \E i \in 1 .. n : Qsort(b)[i] = b[j]
<1> DEFINE Orders(f) == \A i, j \in DOMAIN b : i < j => b[f[i]] <= b[f[j]]
<1>1. PICK D : D = 1 .. n /\ DOMAIN b = D
  OBVIOUS
<1>2. \E f \in Bijection(D, D) : Orders(f)
  <2>1. PICK g : Sorting(b, 1 .. n, n, g)
    BY SortingExists
  <2>2. g \in [D -> D] /\ IsInjective(g)
    <3>1. g \in [1 .. n -> 1 .. n]
      BY <2>1 DEF Sorting
    <3>2. \A i, j \in 1 .. n : g[i] = g[j] => i = j
      BY <2>1, SortedOnce
    <3> QED
      BY <1>1, <3>1, <3>2 DEF IsInjective
  <2>3. g \in Bijection(D, D)
    BY <1>1, <2>1, <2>2 DEF Sorting, Bijection, Injection, Surjection
  <2>4. \A i, j \in D : i < j => b[g[i]] <= b[g[j]]
    <3>1. \A i \in D : b[g[i]] \in Nat
      BY <1>1, <2>2
    <3>2. \A i, j \in D : i < j => b[g[i]] < b[g[j]]
      BY <1>1, <2>1 DEF Sorting
    <3> QED
      BY <3>1, <3>2
  <2> QED
    BY <1>1, <2>3, <2>4
<1>3. PICK f : f = CHOOSE g \in Bijection(D, D) : Orders(g)
  OBVIOUS
<1>4. f \in Bijection(D, D) /\ Orders(f)
  BY <1>2, <1>3
<1>5. Qsort(b) = [i \in D |-> b[f[i]]]
  BY <1>1, <1>3 DEF Qsort
<1>6. f \in [1 .. n -> 1 .. n] /\ IsInjective(f) /\ \A x \in 1 .. n : \E i \in 1 .. n : f[i] = x
  BY <1>1, <1>4 DEF Bijection, Injection, Surjection
<1>7. \A i, j \in 1 .. n : i < j => b[f[i]] <= b[f[j]]
  BY <1>1, <1>4
<1>8. ASSUME NEW i \in 1 .. n, NEW j \in 1 .. n, i < j
      PROVE  b[f[i]] < b[f[j]]
  <2>1. f[i] \in 1 .. n /\ f[j] \in 1 .. n /\ f[i] # f[j]
    BY <1>6, <1>8 DEF IsInjective
  <2>2. b[f[i]] # b[f[j]] /\ b[f[i]] \in Nat /\ b[f[j]] \in Nat
    BY <2>1 DEF IsInjective
  <2> QED
    BY <1>7, <1>8, <2>2
<1>9. Qsort(b) \in [1 .. n -> Nat]
  BY <1>1, <1>5, <1>6
<1>10. \A i \in 1 .. n : Qsort(b)[i] = b[f[i]]
  BY <1>1, <1>5
<1>11. Ascending(Qsort(b))
  BY <1>8, <1>9, <1>10 DEF Ascending
<1>12. \A i \in 1 .. n : \E j \in 1 .. n : Qsort(b)[i] = b[j]
  BY ONLY <1>6, <1>10
<1>13. ASSUME NEW j \in 1 .. n
       PROVE  \E i \in 1 .. n : Qsort(b)[i] = b[j]
  <2>1. PICK i \in 1 .. n : f[i] = j
    BY <1>6
  <2> QED
    BY <1>10, <2>1
<1> QED
  BY <1>9, <1>11, <1>12, <1>13


-----------------------------------------------------------------------------
(***************************************************************************)
(* Blocks: every place is in one block.                                    *)
(***************************************************************************)
LEMMA MaxOf ==
  ASSUME NEW n \in Nat, NEW T \in SUBSET (1 .. n), T # {}
  PROVE  Max(T) \in T /\ \A x \in T : x <= Max(T)
<1>1. PICK y \in T : \A x \in T : x <= y
  BY GreatestPlace
<1>2. \A x \in T : y >= x
  <2>1. \A x \in T : x \in Int /\ y \in Int
    OBVIOUS
  <2> QED
    BY <1>1, <2>1
<1>3. Max(T) \in T /\ \A x \in T : Max(T) >= x
  BY <1>2 DEF Max
<1>4. \A x \in T : x \in Int
  OBVIOUS
<1> QED
  BY <1>3, <1>4

LEMMA MinOf ==
  ASSUME NEW T \in SUBSET Nat, T # {}
  PROVE  Min(T) \in T /\ \A x \in T : Min(T) <= x
<1>1. PICK y \in T : \A x \in T : y <= x
  BY LeastNatural
<1> QED
  BY <1>1 DEF Min

LEMMA FirstHead ==
  ASSUME NEW n \in Nat
  PROVE  Heads(n) \in SUBSET (1 .. n) /\ (n # 0 => 1 \in Heads(n))
<1>1. 2 ^ 1 = 2
  OBVIOUS
<1>2. n # 0 => 1 \in 1 .. n
  OBVIOUS
<1>3. 1 + 1 = 2
  OBVIOUS
<1> QED
  BY ONLY <1>1, <1>2, <1>3 DEF Heads

\* h .. e is the block of place p.
IsBlock(n, h, e) ==
  /\ h \in Heads(n) /\ h \in 1 .. n /\ e \in h .. n /\ e = EndOf(n, h)
  /\ \A k \in Heads(n) : k > h => k > e
  /\ \A q \in 1 .. n : HeadOf(n, q) = h <=> q \in h .. e

LEMMA BlockOf ==
  ASSUME NEW n \in Nat, NEW p \in 1 .. n
  PROVE  /\ HeadOf(n, p) \in Heads(n) /\ HeadOf(n, p) \in 1 .. p
         /\ \A k \in Heads(n) : k <= p => k <= HeadOf(n, p)
<1>1. PICK T : T = {h \in Heads(n) : h <= p}
  OBVIOUS
<1>2. T \in SUBSET (1 .. n) /\ 1 \in T
  BY <1>1, FirstHead
<1>3. Max(T) \in T /\ \A x \in T : x <= Max(T)
  BY <1>2, MaxOf
<1>4. HeadOf(n, p) = Max(T)
  BY <1>1 DEF HeadOf
<1>5. Max(T) \in 1 .. n /\ Max(T) <= p
  BY <1>1, <1>2, <1>3
<1> QED
  BY <1>1, <1>3, <1>4, <1>5

LEMMA HeadIsBlock ==
  ASSUME NEW n \in Nat, NEW h \in Heads(n)
  PROVE  IsBlock(n, h, EndOf(n, h))
<1>1. Heads(n) \in SUBSET (1 .. n) /\ h \in 1 .. n
  BY FirstHead
<1>2. PICK T : T = {k \in Heads(n) \cup {n + 1} : k > h}
  OBVIOUS
<1>3. T \in SUBSET Nat /\ n + 1 \in T
  BY <1>1, <1>2
<1>4. PICK m : m = Min(T) /\ m \in T /\ \A x \in T : m <= x
  BY <1>3, MinOf
<1>5. PICK e : e = m - 1 /\ e = EndOf(n, h)
  BY <1>2, <1>4 DEF EndOf
<1>6. m \in Nat /\ m > h /\ m <= n + 1
  BY <1>2, <1>3, <1>4
<1>7. e \in h .. n
  BY <1>1, <1>5, <1>6
<1>8. \A k \in Heads(n) : k > h => k > e
  <2>1. \A k \in Heads(n) : k > h => m <= k /\ k \in Nat
    BY <1>1, <1>2, <1>4
  <2> QED
    BY <1>5, <1>6, <2>1
<1>9. ASSUME NEW q \in 1 .. n
      PROVE  HeadOf(n, q) = h <=> q \in h .. e
  <2>1. PICK g : /\ g = HeadOf(n, q) /\ g \in Heads(n) /\ g \in 1 .. q
                 /\ \A k \in Heads(n) : k <= q => k <= g
    BY BlockOf
  <2>2. ASSUME q \in h .. e
        PROVE  g = h
    <3>1. h <= g
      BY <1>1, <2>1, <2>2
    <3>2. ~(g > h)
      BY <1>1, <1>7, <1>8, <2>1, <2>2
    <3> QED
      BY <1>1, <2>1, <3>1, <3>2
  <2>3. ASSUME g = h
        PROVE  q \in h .. e
    <3>1. h <= q
      BY <1>1, <2>1, <2>3
    <3>2. ASSUME q > e
          PROVE  FALSE
      <4>1. m <= q /\ m # n + 1
        BY <1>5, <1>6, <3>2
      <4>2. m \in Heads(n)
        BY <1>2, <1>4, <4>1
      <4>3. m <= h
        BY <2>1, <2>3, <4>1, <4>2
      <4> QED
        BY <1>1, <1>6, <4>3
    <3> QED
      BY <1>1, <1>7, <3>1, <3>2
  <2> QED
    BY <2>1, <2>2, <2>3
<1> QED
  BY <1>1, <1>5, <1>7, <1>8, <1>9 DEF IsBlock

LEMMA PlaceInBlock ==
  ASSUME NEW n \in Nat, NEW p \in 1 .. n
  PROVE  \E h, e : h = HeadOf(n, p) /\ IsBlock(n, h, e) /\ p \in h .. e
<1>1. HeadOf(n, p) \in Heads(n)
  BY BlockOf
<1>2. IsBlock(n, HeadOf(n, p), EndOf(n, HeadOf(n, p)))
  BY <1>1, HeadIsBlock
<1> QED
  BY <1>2 DEF IsBlock

-----------------------------------------------------------------------------
(***************************************************************************)
(* Every block is sorted.                                                  *)
(***************************************************************************)
Shuffled(n, s, t) ==
  /\ t \in [1 .. n -> Nat] /\ IsInjective(t)
  /\ (\A i \in 1 .. n : \E j \in 1 .. n : t[i] = s[j])
  /\ (\A j \in 1 .. n : \E i \in 1 .. n : t[i] = s[j])

\* Behind place p, every block is sorted.
BlocksSorted(n, t, p) ==
  \A i, j \in 1 .. n : p < i /\ i < j /\ HeadOf(n, i) = HeadOf(n, j) => t[i] < t[j]

LEMMA BlockList ==
  ASSUME NEW n \in Nat, NEW s \in [1 .. n -> Nat], NEW h \in 1 .. n + 1, NEW e \in 0 .. n, h <= e + 1
  PROVE  /\ SubSeq(s, h, e) \in Seq(Nat) /\ Len(SubSeq(s, h, e)) = e - h + 1
         /\ SubSeq(s, h, e) \in [1 .. e - h + 1 -> Nat]
         /\ \A k \in 1 .. e - h + 1 : SubSeq(s, h, e)[k] = s[h + k - 1] /\ h + k - 1 \in h .. e
         /\ \A q \in h .. e : q - h + 1 \in 1 .. e - h + 1 /\ SubSeq(s, h, e)[q - h + 1] = s[q]
         /\ IsInjective(s) => IsInjective(SubSeq(s, h, e))
<1>1. \A i \in h .. e : i \in 1 .. n /\ s[i] \in Nat
  OBVIOUS
<1>2. h \in Int /\ e \in Int
  OBVIOUS
<1>3. PICK b, L : b = SubSeq(s, h, e) /\ L = e - h + 1
  OBVIOUS
<1>4. /\ b \in Seq(Nat) /\ Len(b) = (IF h <= e THEN e - h + 1 ELSE 0)
      /\ \A i \in 1 .. e - h + 1 : b[i] = s[h + i - 1]
  <2>1. \A i \in h .. e : s[i] \in Nat
    BY <1>1
  <2>2. /\ SubSeq(s, h, e) \in Seq(Nat)
        /\ Len(SubSeq(s, h, e)) = (IF h <= e THEN e - h + 1 ELSE 0)
        /\ \A i \in 1 .. e - h + 1 : SubSeq(s, h, e)[i] = s[h + i - 1]
    BY ONLY <1>2, <2>1, SubSeqProperties
  <2> QED
    BY <1>3, <2>2
<1>5. L \in Nat /\ Len(b) = L
  BY <1>3, <1>4
<1>6. b \in [1 .. L -> Nat]
  BY <1>4, <1>5
<1>7. \A k \in 1 .. L : b[k] = s[h + k - 1] /\ h + k - 1 \in h .. e
  BY <1>3, <1>4
<1>8. ASSUME NEW q \in h .. e
      PROVE  q - h + 1 \in 1 .. L /\ b[q - h + 1] = s[q]
  <2>1. q - h + 1 \in 1 .. L /\ h + (q - h + 1) - 1 = q
    BY <1>3
  <2> QED
    BY <1>7, <2>1
<1>9. ASSUME IsInjective(s)
      PROVE  IsInjective(b)
  <2>1. SUFFICES ASSUME NEW k \in 1 .. L, NEW l \in 1 .. L, b[k] = b[l]
                 PROVE  k = l
    BY <1>6 DEF IsInjective
  <2>2. h + k - 1 \in 1 .. n /\ h + l - 1 \in 1 .. n /\ s[h + k - 1] = s[h + l - 1]
    BY <1>1, <1>7, <2>1
  <2>3. h + k - 1 = h + l - 1
    BY <1>9, <2>2 DEF IsInjective
  <2> QED
    BY <2>3
<1> QED
  BY <1>3, <1>4, <1>5, <1>6, <1>7, <1>8, <1>9

\* What sorting does to one block.
OneSorted(n, s, t, h, e) ==
  /\ \A q \in h .. e : q \in 1 .. n /\ t[q] \in Nat
  /\ \A q \in h .. e : \E x \in h .. e : t[q] = s[x]
  /\ \A x \in h .. e : \E q \in h .. e : t[q] = s[x]
  /\ \A q, r \in h .. e : q < r => t[q] < t[r]

LEMMA OneBlockSorted ==
  ASSUME NEW n \in Nat, NEW s \in [1 .. n -> Nat], IsInjective(s), NEW h, NEW e, IsBlock(n, h, e)
  PROVE  OneSorted(n, s, SortBlocks(s), h, e)
<1>1. h \in 1 .. n /\ e \in h .. n /\ e = EndOf(n, h) /\ \A q \in 1 .. n : HeadOf(n, q) = h <=> q \in h .. e
  BY DEF IsBlock
<1>2. PICK b, L : b = SubSeq(s, h, e) /\ L = e - h + 1 /\ L \in Nat
  <2>1. e - h + 1 \in Nat
    BY <1>1
  <2> QED
    BY <2>1
<1>3. /\ b \in [1 .. L -> Nat] /\ IsInjective(b)
      /\ \A k \in 1 .. L : b[k] = s[h + k - 1] /\ h + k - 1 \in h .. e
      /\ \A q \in h .. e : q - h + 1 \in 1 .. L /\ b[q - h + 1] = s[q]
  <2>1. h \in 1 .. n + 1 /\ e \in 0 .. n /\ h <= e + 1
    BY <1>1
  <2> QED
    BY <1>2, <2>1, BlockList
<1>4. PICK c : c = Qsort(b)
  OBVIOUS
<1>5. /\ c \in [1 .. L -> Nat] /\ Ascending(c)
      /\ \A i \in 1 .. L : \E j \in 1 .. L : c[i] = b[j]
      /\ \A j \in 1 .. L : \E i \in 1 .. L : c[i] = b[j]
  <2>1. L \in Nat
    BY <1>2
  <2> QED
    BY ONLY <1>3, <1>4, <2>1, QsortSorts
<1>6. Len(s) = n /\ DOMAIN s = 1 .. n
  BY LenProperties
<1>7. ASSUME NEW q \in h .. e
      PROVE  q \in 1 .. n /\ SortBlocks(s)[q] = c[q - h + 1] /\ q - h + 1 \in 1 .. L
  <2>1. q \in 1 .. n /\ HeadOf(n, q) = h
    BY <1>1
  <2> QED
    BY <1>1, <1>2, <1>3, <1>4, <1>6, <2>1 DEF SortBlocks
<1>8. ASSUME NEW q \in h .. e
      PROVE  \E x \in h .. e : SortBlocks(s)[q] = s[x]
  <2>1. PICK j \in 1 .. L : c[q - h + 1] = b[j]
    BY <1>5, <1>7
  <2>2. b[j] = s[h + j - 1] /\ h + j - 1 \in h .. e
    BY <1>3
  <2> QED
    BY <1>7, <2>1, <2>2
<1>9. ASSUME NEW x \in h .. e
      PROVE  \E q \in h .. e : SortBlocks(s)[q] = s[x]
  <2>1. PICK i \in 1 .. L : c[i] = b[x - h + 1]
    BY <1>3, <1>5
  <2>2. h + i - 1 \in h .. e /\ (h + i - 1) - h + 1 = i
    BY <1>1, <1>2
  <2>3. SortBlocks(s)[h + i - 1] = c[i]
    BY <1>7, <2>2
  <2> QED
    BY <1>3, <2>1, <2>2, <2>3
<1>10. ASSUME NEW q \in h .. e, NEW r \in h .. e, q < r
       PROVE  SortBlocks(s)[q] < SortBlocks(s)[r]
  <2>1. q - h + 1 < r - h + 1
    BY <1>1, <1>10
  <2>2. c[q - h + 1] < c[r - h + 1]
    BY <1>5, <1>7, <2>1 DEF Ascending
  <2> QED
    BY <1>7, <2>2
<1>11. \A q \in h .. e : q \in 1 .. n /\ SortBlocks(s)[q] \in Nat
  BY <1>5, <1>7
<1> QED
  BY <1>8, <1>9, <1>10, <1>11 DEF OneSorted

LEMMA SortBlocksSorts ==
  ASSUME NEW n \in Nat, NEW s \in [1 .. n -> Nat], IsInjective(s)
  PROVE  Shuffled(n, s, SortBlocks(s)) /\ BlocksSorted(n, SortBlocks(s), 0)
<1>1. PICK t : t = SortBlocks(s)
  OBVIOUS
<1>2. ASSUME NEW p \in 1 .. n
      PROVE  \E h, e : /\ h = HeadOf(n, p) /\ p \in h .. e
                       /\ \A q \in 1 .. n : HeadOf(n, q) = h <=> q \in h .. e
                       /\ OneSorted(n, s, t, h, e)
  <2>1. PICK h, e : h = HeadOf(n, p) /\ IsBlock(n, h, e) /\ p \in h .. e
    BY PlaceInBlock
  <2>2. \A q \in 1 .. n : HeadOf(n, q) = h <=> q \in h .. e
    BY <2>1 DEF IsBlock
  <2>3. OneSorted(n, s, t, h, e)
    BY <1>1, <2>1, OneBlockSorted
  <2> QED
    BY <2>1, <2>2, <2>3
<1>3. t \in [1 .. n -> Nat]
  <2>1. \A p \in 1 .. n : t[p] \in Nat
    BY <1>2 DEF OneSorted
  <2>2. DOMAIN s = 1 .. n
    OBVIOUS
  <2>3. DOMAIN t = 1 .. n /\ t = [p \in 1 .. n |-> t[p]]
    BY <1>1, <2>2 DEF SortBlocks
  <2> QED
    BY <2>1, <2>3
<1>4. ASSUME NEW i \in 1 .. n
      PROVE  \E x \in 1 .. n : t[i] = s[x] /\ HeadOf(n, x) = HeadOf(n, i)
  BY <1>2 DEF OneSorted
<1>5. ASSUME NEW j \in 1 .. n
      PROVE  \E i \in 1 .. n : t[i] = s[j]
  BY <1>2 DEF OneSorted
<1>6. ASSUME NEW i \in 1 .. n, NEW j \in 1 .. n, i < j, HeadOf(n, i) = HeadOf(n, j)
      PROVE  t[i] < t[j]
  BY <1>2, <1>6 DEF OneSorted
<1>7. ASSUME NEW i \in 1 .. n, NEW j \in 1 .. n, t[i] = t[j]
      PROVE  i = j
  <2>1. PICK x \in 1 .. n, y \in 1 .. n : /\ t[i] = s[x] /\ HeadOf(n, x) = HeadOf(n, i)
                                          /\ t[j] = s[y] /\ HeadOf(n, y) = HeadOf(n, j)
    BY <1>4
  <2>2. x = y
    BY <1>7, <2>1 DEF IsInjective
  <2>3. HeadOf(n, i) = HeadOf(n, j)
    BY <2>1, <2>2
  <2>4. t[i] \in Nat /\ t[j] \in Nat
    BY <1>3
  <2>5. ~(i < j) /\ ~(j < i)
    BY <1>6, <1>7, <2>3, <2>4
  <2> QED
    BY <2>5
<1>8. IsInjective(t)
  BY <1>3, <1>7 DEF IsInjective
<1>9. Shuffled(n, s, t)
  BY <1>3, <1>4, <1>5, <1>8 DEF Shuffled
<1>10. BlocksSorted(n, t, 0)
  BY <1>6 DEF BlocksSorted
<1> QED
  BY <1>1, <1>9, <1>10

-----------------------------------------------------------------------------
(***************************************************************************)
(* One step of merging the blocks.                                         *)
(***************************************************************************)
Smaller(n, t, p) == {h \in Heads(n) : h > p /\ t[h] < t[p]}
Inserted(n, t, p, m, d) ==
  [q \in 1 .. n |-> IF q = p THEN t[m]
                    ELSE IF q >= m /\ q < d THEN t[q + 1]
                    ELSE IF q = d THEN t[p] ELSE t[q]]

LEMMA LeastHead ==
  ASSUME NEW n \in Nat, NEW t \in [1 .. n -> Nat], NEW H \in SUBSET (1 .. n), H # {}
  PROVE  \E h \in H : \A k \in H : t[h] < t[k] \/ (t[h] = t[k] /\ h <= k)
<1>1. PICK T : T = {t[h] : h \in H}
  OBVIOUS
<1>2. T \in SUBSET Nat /\ T # {}
  BY <1>1
<1>3. PICK x \in T : \A y \in T : x <= y
  BY <1>2, LeastNatural
<1>4. PICK G : G = {h \in H : t[h] = x}
  OBVIOUS
<1>5. G \in SUBSET Nat /\ G # {}
  <2>1. \E h \in H : t[h] = x
    BY <1>1, <1>3
  <2>2. \A h \in H : h \in Nat
    OBVIOUS
  <2> QED
    BY ONLY <1>4, <2>1, <2>2
<1>6. PICK h \in G : \A k \in G : h <= k
  BY <1>5, LeastNatural
<1>7. h \in H /\ t[h] = x
  BY <1>4
<1>8. ASSUME NEW k \in H
      PROVE  t[h] < t[k] \/ (t[h] = t[k] /\ h <= k)
  <2>1. t[h] <= t[k] /\ t[h] \in Nat /\ t[k] \in Nat
    BY <1>1, <1>3, <1>7
  <2>2. CASE t[k] = x
    BY <1>4, <1>6, <1>7, <2>2
  <2>3. CASE t[k] # x
    BY <1>7, <2>1, <2>3
  <2> QED
    BY <2>2, <2>3
<1> QED
  BY <1>7, <1>8

LEMMA MergeStepCases ==
  ASSUME NEW n \in Nat, NEW t \in [1 .. n -> Nat], NEW p \in 1 .. n
  PROVE  \/ Smaller(n, t, p) = {} /\ MergeStep(t, p) = t
         \/ \E m \in Smaller(n, t, p) :
               /\ \A k \in Smaller(n, t, p) : t[m] <= t[k]
               /\ MergeStep(t, p) = Inserted(n, t, p, m, m + BfindSave(SubSeq(t, m + 1, EndOf(n, m)), t[p]))
<1>1. Len(t) = n /\ DOMAIN t = 1 .. n
  BY LenProperties
<1>2. CASE Smaller(n, t, p) = {}
  BY <1>1, <1>2 DEF MergeStep, Smaller
<1>3. CASE Smaller(n, t, p) # {}
  <2> DEFINE Least(h) == \A k \in Smaller(n, t, p) : t[h] < t[k] \/ (t[h] = t[k] /\ h <= k)
  <2>1. Smaller(n, t, p) \in SUBSET (1 .. n)
    BY FirstHead DEF Smaller
  <2>2. PICK m : m = CHOOSE h \in Smaller(n, t, p) : Least(h)
    OBVIOUS
  <2>3. m \in Smaller(n, t, p) /\ Least(m)
    BY <1>3, <2>1, <2>2, LeastHead
  <2>4. \A k \in Smaller(n, t, p) : t[m] <= t[k]
    <3>1. \A k \in Smaller(n, t, p) : t[k] \in Nat /\ t[m] \in Nat
      BY <2>1, <2>3
    <3> QED
      BY <2>3, <3>1
  <2>5. MergeStep(t, p) = Inserted(n, t, p, m, m + BfindSave(SubSeq(t, m + 1, EndOf(n, m)), t[p]))
    BY <1>1, <1>3, <2>2 DEF MergeStep, Smaller, Inserted
  <2> QED
    BY <2>3, <2>4, <2>5
<1> QED
  BY <1>2, <1>3

\* Where the old value of place p goes in the block it moves to.
LEMMA InsertPlace ==
  ASSUME NEW n \in Nat, NEW t \in [1 .. n -> Nat], NEW p \in 1 .. n, NEW m \in Smaller(n, t, p),
         NEW e, e = EndOf(n, m)
  PROVE  LET d == m + BfindSave(SubSeq(t, m + 1, e), t[p])
         IN  /\ m \in 1 .. n /\ p < m /\ IsBlock(n, m, e) /\ e \in m .. n /\ d \in m .. e
             /\ IsInjective(t) /\ BlocksSorted(n, t, p - 1) =>
                   /\ \A q \in m + 1 .. d : t[q] < t[p]
                   /\ \A q \in d + 1 .. e : t[p] < t[q]
<1>1. m \in Heads(n) /\ m \in 1 .. n /\ p < m /\ p \in Int /\ t[p] \in Nat
  <2>1. m \in Heads(n) /\ m > p
    BY DEF Smaller
  <2> QED
    BY <2>1, FirstHead
<1>2. IsBlock(n, m, e) /\ e \in m .. n
  BY <1>1, HeadIsBlock DEF IsBlock
<1>3. PICK b, w : b = SubSeq(t, m + 1, e) /\ w = BfindSave(b, t[p])
  OBVIOUS
<1>4. /\ b \in Seq(Nat) /\ Len(b) = e - (m + 1) + 1
      /\ \A k \in 1 .. e - (m + 1) + 1 : b[k] = t[m + 1 + k - 1] /\ m + 1 + k - 1 \in m + 1 .. e
  <2>1. m + 1 \in 1 .. n + 1 /\ e \in 0 .. n /\ m + 1 <= e + 1
    BY <1>1, <1>2
  <2> QED
    BY <1>3, <2>1, BlockList
<1>5. PICK L \in Nat : L = e - m /\ Len(b) = L /\ \A k \in 1 .. L : b[k] = t[m + k] /\ m + k \in m + 1 .. e
  <2>1. e - (m + 1) + 1 = e - m /\ e - m \in Nat
    BY <1>1, <1>2
  <2>2. \A k \in 1 .. e - m : m + 1 + k - 1 = m + k
    BY <1>1, <1>2
  <2>3. PICK L \in Nat : L = e - m
    BY <2>1
  <2>4. Len(b) = L
    BY <1>4, <2>1, <2>3
  <2>5. \A k \in 1 .. L : b[k] = t[m + 1 + k - 1] /\ m + 1 + k - 1 \in m + 1 .. e /\ m + 1 + k - 1 = m + k
    BY ONLY <1>4, <2>1, <2>2, <2>3
  <2>6. \A k \in 1 .. L : b[k] = t[m + k] /\ m + k \in m + 1 .. e
    BY ONLY <2>5
  <2> QED
    BY ONLY <2>3, <2>4, <2>6
<1>6. w \in 0 .. L
  BY <1>1, <1>3, <1>4, <1>5, BfindType
<1>7. m + w \in m .. e
  BY <1>1, <1>2, <1>5, <1>6
<1>8. ASSUME IsInjective(t), BlocksSorted(n, t, p - 1)
      PROVE  /\ \A q \in m + 1 .. m + w : t[q] < t[p]
             /\ \A q \in m + w + 1 .. e : t[p] < t[q]
  <2>1. DOMAIN b = 1 .. L
    BY <1>4, <1>5
  <2>2. Ascending(b)
    <3>1. SUFFICES ASSUME NEW i \in 1 .. L, NEW j \in 1 .. L, i < j
                   PROVE  b[i] < b[j]
      BY <2>1 DEF Ascending
    <3>2. m + i \in 1 .. n /\ m + j \in 1 .. n /\ p - 1 < m + i /\ m + i < m + j /\ m + i \in m .. e /\ m + j \in m .. e
      BY <1>1, <1>2, <1>5, <3>1
    <3>3. HeadOf(n, m + i) = m /\ HeadOf(n, m + j) = m
      BY <1>2, <3>2 DEF IsBlock
    <3>4. t[m + i] < t[m + j]
      BY <1>8, <3>2, <3>3 DEF BlocksSorted
    <3> QED
      BY <1>5, <3>4
  <2>3. t[p] \notin ToSet(b)
    <3>1. SUFFICES ASSUME NEW k \in 1 .. L, b[k] = t[p]
                   PROVE  FALSE
      BY <2>1 DEF ToSet
    <3>2. m + k \in 1 .. n /\ m + k # p /\ t[m + k] = t[p]
      BY <1>1, <1>2, <1>5, <3>1
    <3> QED
      BY <1>8, <3>2 DEF IsInjective
  <2>4. (\A k \in 1 .. w : b[k] < t[p]) /\ (\A k \in w + 1 .. L : t[p] < b[k])
    BY <1>1, <1>3, <1>4, <1>5, <2>2, <2>3, BfindPlace
  <2>5. ASSUME NEW q \in m + 1 .. m + w
        PROVE  t[q] < t[p]
    <3>1. q - m \in 1 .. w /\ q - m \in 1 .. L /\ m + (q - m) = q
      BY <1>1, <1>6
    <3> QED
      BY <1>5, <2>4, <3>1
  <2>6. ASSUME NEW q \in m + w + 1 .. e
        PROVE  t[p] < t[q]
    <3>1. q - m \in w + 1 .. L /\ q - m \in 1 .. L /\ m + (q - m) = q
      BY <1>1, <1>2, <1>5, <1>6
    <3> QED
      BY <1>5, <2>4, <3>1
  <2> QED
    BY <2>5, <2>6
<1> QED
  BY <1>1, <1>2, <1>3, <1>7, <1>8

\* The first p places are sorted, and smaller than what follows.
PrefixSorted(n, t, p) == \A i \in 1 .. p, j \in 1 .. n : i < j => t[i] < t[j]

\* The place from which the item at place q comes.
From(n, p, m, d) ==
  [q \in 1 .. n |-> IF q = p THEN m ELSE IF q >= m /\ q < d THEN q + 1 ELSE IF q = d THEN p ELSE q]

LEMMA FromCases ==
  ASSUME NEW n \in Nat, NEW p \in 1 .. n, NEW m \in 1 .. n, NEW d \in 1 .. n, p < m, m <= d, NEW q \in 1 .. n
  PROVE  /\ q = p => From(n, p, m, d)[q] = m
         /\ m <= q /\ q < d => From(n, p, m, d)[q] = q + 1 /\ q + 1 \in 1 .. n
         /\ q = d => From(n, p, m, d)[q] = p
         /\ q < m /\ q # p => From(n, p, m, d)[q] = q
         /\ q > d => From(n, p, m, d)[q] = q
         /\ q = p \/ (m <= q /\ q < d) \/ q = d \/ (q < m /\ q # p) \/ q > d
BY DEF From

Permutes(n, f) ==
  f \in [1 .. n -> 1 .. n] /\ IsInjective(f) /\ \A x \in 1 .. n : \E q \in 1 .. n : f[q] = x

LEMMA FromPermutes ==
  ASSUME NEW n \in Nat, NEW p \in 1 .. n, NEW m \in 1 .. n, NEW d \in 1 .. n, p < m, m <= d
  PROVE  Permutes(n, From(n, p, m, d))
<1>1. PICK f : f = From(n, p, m, d)
  OBVIOUS
<1>2. ASSUME NEW q \in 1 .. n
      PROVE  /\ q = p => f[q] = m
             /\ m <= q /\ q < d => f[q] = q + 1 /\ q + 1 \in 1 .. n
             /\ q = d => f[q] = p
             /\ q < m /\ q # p => f[q] = q
             /\ q > d => f[q] = q
             /\ q = p \/ (m <= q /\ q < d) \/ q = d \/ (q < m /\ q # p) \/ q > d
  BY <1>1, FromCases
<1>3. f \in [1 .. n -> 1 .. n]
  <2>1. \A q \in 1 .. n : f[q] \in 1 .. n
    BY <1>2
  <2>2. f = [q \in 1 .. n |-> f[q]]
    BY <1>1 DEF From
  <2> QED
    BY <2>1, <2>2
<1>4. ASSUME NEW q \in 1 .. n, NEW r \in 1 .. n, f[q] = f[r]
      PROVE  q = r
  BY <1>2, <1>4
<1>5. ASSUME NEW x \in 1 .. n
      PROVE  \E q \in 1 .. n : f[q] = x
  <2>1. CASE x = m
    BY <1>2, <2>1
  <2>2. CASE x = p
    BY <1>2, <2>2
  <2>3. CASE m < x /\ x <= d
    <3>1. x - 1 \in 1 .. n /\ m <= x - 1 /\ x - 1 < d /\ x - 1 + 1 = x
      BY <2>3
    <3> QED
      BY <1>2, <3>1
  <2>4. CASE x < m /\ x # p
    BY <1>2, <2>4
  <2>5. CASE x > d
    BY <1>2, <2>5
  <2>6. x = m \/ x = p \/ (m < x /\ x <= d) \/ (x < m /\ x # p) \/ x > d
    OBVIOUS
  <2> QED
    BY <2>1, <2>2, <2>3, <2>4, <2>5, <2>6
<1>6. IsInjective(f)
  BY <1>3, <1>4 DEF IsInjective
<1> QED
  BY <1>1, <1>3, <1>5, <1>6 DEF Permutes

\* Place p holds the least of what follows, as the head of its own block or
\* of another.
LEMMA LeastBehind ==
  ASSUME NEW n \in Nat, NEW t \in [1 .. n -> Nat], NEW p \in 1 .. n, IsInjective(t),
         BlocksSorted(n, t, p - 1), NEW x \in p .. n, x # p
  PROVE  t[p] < t[x] \/ \E h \in Smaller(n, t, p) : t[h] <= t[x]
<1>1. PICK h, e : h = HeadOf(n, x) /\ IsBlock(n, h, e) /\ x \in h .. e
  BY PlaceInBlock
<1>2. /\ h \in Heads(n) /\ h \in 1 .. n /\ e \in h .. n
      /\ \A q \in 1 .. n : HeadOf(n, q) = h <=> q \in h .. e
  BY <1>1 DEF IsBlock
<1>3. CASE h <= p
  <2>1. p \in h .. e /\ p < x
    BY <1>1, <1>2, <1>3
  <2>2. HeadOf(n, p) = HeadOf(n, x)
    BY <1>1, <1>2, <2>1
  <2>3. p - 1 < p
    OBVIOUS
  <2> QED
    BY <2>1, <2>2, <2>3 DEF BlocksSorted
<1>4. CASE h > p
  <2>1. t[h] <= t[x]
    <3>1. CASE h = x
      BY <1>2, <3>1
    <3>2. CASE h # x
      <4>1. h < x /\ p - 1 < h /\ h \in h .. e
        BY <1>1, <1>2, <1>4, <3>2
      <4>2. HeadOf(n, h) = HeadOf(n, x)
        BY <1>1, <1>2, <4>1
      <4>3. t[h] < t[x]
        BY <1>2, <4>1, <4>2 DEF BlocksSorted
      <4>4. t[h] \in Nat /\ t[x] \in Nat
        BY <1>2
      <4> QED
        BY <4>3, <4>4
    <3> QED
      BY <3>1, <3>2
  <2>2. CASE t[h] < t[p]
    BY <1>2, <1>4, <2>1, <2>2 DEF Smaller
  <2>3. CASE ~(t[h] < t[p])
    <3>1. t[h] # t[p]
      BY <1>2, <1>4 DEF IsInjective
    <3>2. t[h] \in Nat /\ t[p] \in Nat /\ t[x] \in Nat
      BY <1>2
    <3> QED
      BY <2>1, <2>3, <3>1, <3>2
  <2> QED
    BY <2>2, <2>3
<1> QED
  BY <1>2, <1>3, <1>4

LEMMA MergeStepType ==
  ASSUME NEW n \in Nat, NEW t \in [1 .. n -> Nat], NEW p \in 1 .. n
  PROVE  MergeStep(t, p) \in [1 .. n -> Nat]
<1>1. CASE MergeStep(t, p) = t
  BY <1>1
<1>2. CASE \E m \in Smaller(n, t, p) :
             MergeStep(t, p) = Inserted(n, t, p, m, m + BfindSave(SubSeq(t, m + 1, EndOf(n, m)), t[p]))
  <2>1. PICK m \in Smaller(n, t, p) :
             MergeStep(t, p) = Inserted(n, t, p, m, m + BfindSave(SubSeq(t, m + 1, EndOf(n, m)), t[p]))
    BY <1>2
  <2>2. PICK e, d : e = EndOf(n, m) /\ d = m + BfindSave(SubSeq(t, m + 1, e), t[p])
    OBVIOUS
  <2>3. m \in 1 .. n /\ e \in m .. n /\ d \in m .. e
    BY <2>2, InsertPlace
  <2>4. MergeStep(t, p) = Inserted(n, t, p, m, d)
    BY <2>1, <2>2
  <2>5. \A q \in 1 .. n : q >= m /\ q < d => q + 1 \in 1 .. n
    BY <2>3
  <2> QED
    BY <2>3, <2>4, <2>5 DEF Inserted
<1> QED
  BY <1>1, <1>2, MergeStepCases

LEMMA MergeStepSorts ==
  ASSUME NEW n \in Nat, NEW t \in [1 .. n -> Nat], NEW p \in 1 .. n, IsInjective(t),
         BlocksSorted(n, t, p - 1), PrefixSorted(n, t, p - 1)
  PROVE  /\ Shuffled(n, t, MergeStep(t, p))
         /\ BlocksSorted(n, MergeStep(t, p), p) /\ PrefixSorted(n, MergeStep(t, p), p)
<1>1. \A k : k \in 1 .. p <=> k \in 1 .. p - 1 \/ k = p
  OBVIOUS
<1>2. CASE Smaller(n, t, p) = {} /\ MergeStep(t, p) = t
  <2>1. Shuffled(n, t, t)
    BY DEF Shuffled
  <2>2. BlocksSorted(n, t, p)
    <3>1. \A i \in 1 .. n : p < i => p - 1 < i
      OBVIOUS
    <3> QED
      BY <3>1 DEF BlocksSorted
  <2>3. \A j \in 1 .. n : p < j => t[p] < t[j]
    <3>1. \A j \in 1 .. n : p < j => j \in p .. n /\ j # p
      OBVIOUS
    <3> QED
      BY <1>2, <3>1, LeastBehind
  <2>4. PrefixSorted(n, t, p)
    BY <1>1, <2>3 DEF PrefixSorted
  <2> QED
    BY <1>2, <2>1, <2>2, <2>4
<1>3. CASE \E m \in Smaller(n, t, p) :
             /\ \A k \in Smaller(n, t, p) : t[m] <= t[k]
             /\ MergeStep(t, p) = Inserted(n, t, p, m, m + BfindSave(SubSeq(t, m + 1, EndOf(n, m)), t[p]))
  <2>1. PICK m \in Smaller(n, t, p) :
             /\ \A k \in Smaller(n, t, p) : t[m] <= t[k]
             /\ MergeStep(t, p) = Inserted(n, t, p, m, m + BfindSave(SubSeq(t, m + 1, EndOf(n, m)), t[p]))
    BY <1>3
  <2>2. PICK e, d, r : e = EndOf(n, m) /\ d = m + BfindSave(SubSeq(t, m + 1, e), t[p]) /\ r = MergeStep(t, p)
    OBVIOUS
  <2>3. /\ m \in 1 .. n /\ p < m /\ IsBlock(n, m, e) /\ e \in m .. n /\ d \in m .. e
        /\ \A q \in m + 1 .. d : t[q] < t[p]
        /\ \A q \in d + 1 .. e : t[p] < t[q]
    BY <2>2, InsertPlace
  <2>4. d \in 1 .. n /\ m <= d /\ e \in 1 .. n /\ d <= e
    BY <2>3
  <2>5. PICK f : f = From(n, p, m, d)
    OBVIOUS
  <2>6. f \in [1 .. n -> 1 .. n] /\ IsInjective(f) /\ \A x \in 1 .. n : \E q \in 1 .. n : f[q] = x
    <3>1. m \in 1 .. n /\ p < m /\ d \in 1 .. n /\ m <= d
      BY <2>3, <2>4
    <3>2. Permutes(n, f)
      BY ONLY <2>5, <3>1, FromPermutes, n \in Nat, p \in 1 .. n
    <3> QED
      BY ONLY <3>2 DEF Permutes
  <2>7. \A q \in 1 .. n :
             /\ q = p => f[q] = m
             /\ m <= q /\ q < d => f[q] = q + 1 /\ q + 1 \in 1 .. n
             /\ q = d => f[q] = p
             /\ q < m /\ q # p => f[q] = q
             /\ q > d => f[q] = q
             /\ q = p \/ (m <= q /\ q < d) \/ q = d \/ (q < m /\ q # p) \/ q > d
    <3>1. m \in 1 .. n /\ p < m /\ d \in 1 .. n /\ m <= d
      BY <2>3, <2>4
    <3> QED
      BY ONLY <2>5, <3>1, FromCases, n \in Nat, p \in 1 .. n
  <2>8. r \in [1 .. n -> Nat] /\ \A q \in 1 .. n : r[q] = t[f[q]]
    <3>1. r = Inserted(n, t, p, m, d)
      BY <2>1, <2>2
    <3>2. r \in [1 .. n -> Nat]
      BY <2>2, MergeStepType
    <3>3. ASSUME NEW q \in 1 .. n
          PROVE  r[q] = t[f[q]]
      BY <2>5, <3>1 DEF Inserted, From
    <3> QED
      BY <3>2, <3>3
  <2>9. Shuffled(n, t, r)
    <3>1. ASSUME NEW i \in 1 .. n, NEW j \in 1 .. n, r[i] = r[j]
          PROVE  i = j
      <4>1. f[i] \in 1 .. n /\ f[j] \in 1 .. n /\ t[f[i]] = t[f[j]]
        BY <2>6, <2>8, <3>1
      <4>2. f[i] = f[j]
        BY <4>1 DEF IsInjective
      <4> QED
        BY <2>6, <4>2 DEF IsInjective
    <3>2. IsInjective(r)
      BY <2>8, <3>1 DEF IsInjective
    <3>3. \A i \in 1 .. n : \E j \in 1 .. n : r[i] = t[j]
      BY ONLY <2>6, <2>8
    <3>4. ASSUME NEW j \in 1 .. n
          PROVE  \E i \in 1 .. n : r[i] = t[j]
      <4>1. PICK i \in 1 .. n : f[i] = j
        BY <2>6
      <4> QED
        BY <2>8, <4>1
    <3> QED
      BY <2>8, <3>2, <3>3, <3>4 DEF Shuffled
  <2>10. t[m] < t[p] /\ t[m] \in Nat /\ t[p] \in Nat
    BY <2>3 DEF Smaller
  <2>11. ASSUME NEW x \in p .. n, x # m
         PROVE  t[m] < t[x]
    <3>1. x \in 1 .. n /\ t[x] \in Nat
      OBVIOUS
    <3>2. CASE x = p
      BY <2>10, <3>2
    <3>3. CASE x # p /\ t[p] < t[x]
      BY <2>10, <3>1, <3>3
    <3>4. CASE x # p /\ \E h \in Smaller(n, t, p) : t[h] <= t[x]
      <4>1. PICK h \in Smaller(n, t, p) : t[h] <= t[x]
        BY <3>4
      <4>2. t[m] <= t[h] /\ h \in 1 .. n /\ t[h] \in Nat
        BY <2>1, FirstHead DEF Smaller
      <4>3. t[m] # t[x]
        BY <2>3, <2>11, <3>1 DEF IsInjective
      <4> QED
        BY <2>10, <3>1, <4>1, <4>2, <4>3
    <3> QED
      BY <3>2, <3>3, <3>4, LeastBehind
  <2>12. \A j \in 1 .. n : p < j => f[j] \in p .. n /\ f[j] # m
    <3>1. SUFFICES ASSUME NEW j \in 1 .. n, p < j
                   PROVE  f[j] \in p .. n /\ f[j] # m
      OBVIOUS
    <3>2. j = p \/ (m <= j /\ j < d) \/ j = d \/ (j < m /\ j # p) \/ j > d
      BY <2>7
    <3>3. m \in Int /\ d \in Int /\ p < m /\ m <= d
      BY <2>3, <2>4
    <3>4. CASE m <= j /\ j < d
      BY <2>7, <3>1, <3>3, <3>4
    <3>5. CASE j = d
      BY <2>7, <3>1, <3>3, <3>5
    <3>6. CASE (j < m /\ j # p) \/ j > d
      BY <2>7, <3>1, <3>3, <3>6
    <3> QED
      BY <3>1, <3>2, <3>4, <3>5, <3>6
  <2>13. \A i \in 1 .. p - 1 : f[i] = i /\ i \in 1 .. n
    BY <2>3, <2>7
  <2>14. PrefixSorted(n, r, p)
    <3>1. SUFFICES ASSUME NEW i \in 1 .. p, NEW j \in 1 .. n, i < j
                   PROVE  r[i] < r[j]
      BY DEF PrefixSorted
    <3>2. CASE i = p
      BY <2>7, <2>8, <2>11, <2>12, <3>1, <3>2
    <3>3. CASE i \in 1 .. p - 1
      <4>1. f[j] \in 1 .. n /\ i < f[j]
        <5>1. CASE j \in 1 .. p - 1
          BY <2>13, <3>1, <5>1
        <5>2. CASE j = p
          BY <2>3, <2>7, <3>1, <5>2
        <5>3. CASE p < j
          BY <2>12, <3>3, <5>3
        <5> QED
          BY <5>1, <5>2, <5>3
      <4>2. t[i] < t[f[j]]
        BY <3>3, <4>1 DEF PrefixSorted
      <4> QED
        BY <2>8, <2>13, <3>3, <4>2
    <3> QED
      BY <1>1, <3>2, <3>3
  <2>15. BlocksSorted(n, r, p)
    <3>1. SUFFICES ASSUME NEW i \in 1 .. n, NEW j \in 1 .. n, p < i, i < j, HeadOf(n, i) = HeadOf(n, j)
                   PROVE  r[i] < r[j]
      BY DEF BlocksSorted
    <3>2. (i \in m .. e /\ j \in m .. e) \/ (i \notin m .. e /\ j \notin m .. e)
      BY <2>3, <3>1 DEF IsBlock
    <3>3. \A x \in m .. e : HeadOf(n, x) = m /\ x \in 1 .. n
      BY <2>3, <2>4 DEF IsBlock
    <3>4. \A x, y \in m .. e : x < y => t[x] < t[y]
      <4>1. \A x \in m .. e : p - 1 < x
        BY <2>3
      <4> QED
        BY <3>3, <4>1 DEF BlocksSorted
    <3>5. CASE i \notin m .. e /\ j \notin m .. e
      <4>1. f[i] = i /\ f[j] = j
        BY <2>3, <2>4, <2>7, <3>1, <3>5
      <4>2. t[i] < t[j]
        <5>1. p - 1 < i
          BY <3>1
        <5> QED
          BY <3>1, <5>1 DEF BlocksSorted
      <4> QED
        BY <2>8, <4>1, <4>2
    <3>6. CASE i \in m .. e /\ j \in m .. e
      <4>1. CASE j < d
        <5>1. f[i] = i + 1 /\ f[j] = j + 1 /\ i + 1 \in m .. e /\ j + 1 \in m .. e /\ i + 1 < j + 1
          BY <2>3, <2>4, <2>7, <3>1, <3>6, <4>1
        <5> QED
          BY <2>8, <3>4, <5>1
      <4>2. CASE j = d
        <5>1. f[i] = i + 1 /\ f[j] = p /\ i + 1 \in m + 1 .. d
          BY <2>3, <2>4, <2>7, <3>1, <3>6, <4>2
        <5> QED
          BY <2>3, <2>8, <5>1
      <4>3. CASE j > d /\ i < d
        <5>1. f[i] = i + 1 /\ f[j] = j /\ i + 1 \in m .. e /\ i + 1 < j
          BY <2>3, <2>4, <2>7, <3>1, <3>6, <4>3
        <5> QED
          BY <2>8, <3>4, <3>6, <5>1
      <4>4. CASE j > d /\ i = d
        <5>1. f[i] = p /\ f[j] = j /\ j \in d + 1 .. e
          BY <2>3, <2>4, <2>7, <3>1, <3>6, <4>4
        <5> QED
          BY <2>3, <2>8, <5>1
      <4>5. CASE j > d /\ i > d
        <5>1. f[i] = i /\ f[j] = j
          BY <2>3, <2>4, <2>7, <3>1, <3>6, <4>5
        <5> QED
          BY <2>8, <3>1, <3>4, <3>6, <5>1
      <4>6. j < d \/ j = d \/ (j > d /\ i < d) \/ (j > d /\ i = d) \/ (j > d /\ i > d)
        BY <2>4
      <4> QED
        BY <4>1, <4>2, <4>3, <4>4, <4>5, <4>6
    <3> QED
      BY <3>2, <3>5, <3>6
  <2> QED
    BY <2>2, <2>9, <2>14, <2>15
<1> QED
  BY <1>2, <1>3, MergeStepCases

-----------------------------------------------------------------------------
(***************************************************************************)
(* SEXP_list_sort.                                                         *)
(***************************************************************************)
Sorts(f, n, s) ==
  /\ f \in [0 .. n -> [1 .. n -> Nat]] /\ f[0] = SortBlocks(s) /\ ListSort(s) = f[n]
  /\ \A p \in 1 .. n : f[p] = MergeStep(f[p - 1], p)

LEMMA ListSortDef ==
  ASSUME NEW N \in Nat, NEW s \in [1 .. N -> Nat], IsInjective(s)
  PROVE  \E f : Sorts(f, N, s)
<1>1. PICK S : S = [1 .. N -> Nat]
  OBVIOUS
<1> DEFINE Step(A, p) == MergeStep(A, p)
<1>2. \A p \in 1 .. N : \A A \in S : Step(A, p) \in S
  BY <1>1, MergeStepType
<1>3. PICK z : z = SortBlocks(s) /\ z \in S
  BY <1>1, SortBlocksSorts DEF Shuffled
<1>4. \E f : f = [n \in 0 .. N |-> IF n = 0 THEN z ELSE Step(f[n - 1], n)]
  <2> HIDE DEF Step
  <2>1. PICK G : G = [n \in 1 .. N |-> [A \in S |-> Step(A, n)]]
    OBVIOUS
  <2>2. G \in [1 .. N -> [S -> S]]
    BY <1>2, <2>1
  <2>3. PICK f \in [0 .. N -> S] : f[0] = z /\ \A n \in 1 .. N : f[n] = G[n][f[n - 1]]
    <3>1. \E f \in [0 .. N -> S] : Recurs(f, z, N, G)
      BY <1>1, <1>3, <2>2, NatRecursion
    <3> QED
      BY <3>1 DEF Recurs
  <2>4. ASSUME NEW n \in 0 .. N
        PROVE  f[n] = IF n = 0 THEN z ELSE Step(f[n - 1], n)
    <3>1. CASE n = 0
      BY <2>3, <3>1
    <3>2. CASE n # 0
      <4>1. n \in 1 .. N /\ n - 1 \in 0 .. N
        BY <1>1, <3>2
      <4>2. f[n - 1] \in S
        BY <2>3, <4>1
      <4> QED
        BY <2>1, <2>3, <3>2, <4>1, <4>2
    <3> QED
      BY <3>1, <3>2
  <2>5. f = [n \in 0 .. N |-> IF n = 0 THEN z ELSE Step(f[n - 1], n)]
    BY <2>3, <2>4
  <2> QED
    BY <2>5
<1>5. PICK d : d = CHOOSE f : f = [n \in 0 .. N |-> IF n = 0 THEN z ELSE Step(f[n - 1], n)]
  OBVIOUS
<1>6. ListSort(s) = d[N]
  <2>1. Len(s) = N
    BY LenProperties
  <2> QED
    BY <1>1, <1>3, <1>5, <2>1 DEF ListSort
<1> HIDE DEF Step
<1>7. d = [n \in 0 .. N |-> IF n = 0 THEN z ELSE Step(d[n - 1], n)]
  BY <1>4, <1>5
<1>8. d[0] = z /\ \A n \in 1 .. N : d[n] = Step(d[n - 1], n)
  BY ONLY N \in Nat, <1>7
<1>9. \A n \in 0 .. N : d[n] \in S
  <2>1. PICK Q : Q = {k \in 0 .. N : d[k] \in S}
    OBVIOUS
  <2>2. 0 \in Q
    BY ONLY N \in Nat, <1>3, <1>8, <2>1
  <2>3. \A n \in 1 .. N : n - 1 \in Q => n \in Q
    BY <1>2, <1>8, <2>1
  <2>4. \A n \in 0 .. N : n \in Q
    BY ONLY N \in Nat, <2>2, <2>3, Upward
  <2> QED
    BY <2>1, <2>4
<1>10. d \in [0 .. N -> S]
  BY <1>7, <1>9
<1>11. Sorts(d, N, s)
  BY <1>1, <1>3, <1>6, <1>8, <1>10 DEF Step, Sorts
<1> QED
  BY <1>11

\* SEXP_list_sort, block by block, gives the items of a list that repeats none
\* in ascending order.
THEOREM ListSortSorts ==
  ASSUME NEW s \in Seq(Nat), IsInjective(s)
  PROVE  ListSort(s) \in Seq(Nat) /\ Ascending(ListSort(s)) /\ ToSet(ListSort(s)) = ToSet(s)
<1>1. PICK n \in Nat : n = Len(s) /\ s \in [1 .. n -> Nat] /\ DOMAIN s = 1 .. n
  OBVIOUS
<1>2. PICK f : Sorts(f, n, s)
  BY <1>1, ListSortDef
<1> DEFINE Right(p) == Shuffled(n, s, f[p]) /\ BlocksSorted(n, f[p], p) /\ PrefixSorted(n, f[p], p)
<1>3. Right(0)
  <2>1. Shuffled(n, s, f[0]) /\ BlocksSorted(n, f[0], 0)
    BY <1>1, <1>2, SortBlocksSorts DEF Sorts
  <2>2. PrefixSorted(n, f[0], 0)
    BY DEF PrefixSorted
  <2> QED
    BY <2>1, <2>2
<1>4. ASSUME NEW p \in 1 .. n, Right(p - 1)
      PROVE  Right(p)
  <2>1. PICK t, r : t = f[p - 1] /\ r = f[p] /\ r = MergeStep(t, p)
    BY <1>2 DEF Sorts
  <2>2. Shuffled(n, s, t) /\ BlocksSorted(n, t, p - 1) /\ PrefixSorted(n, t, p - 1)
    BY <1>4, <2>1
  <2>3. t \in [1 .. n -> Nat] /\ IsInjective(t)
    BY <2>2 DEF Shuffled
  <2>4. Shuffled(n, t, r) /\ BlocksSorted(n, r, p) /\ PrefixSorted(n, r, p)
    BY <2>1, <2>2, <2>3, MergeStepSorts
  <2>5. Shuffled(n, s, r)
    <3>1. r \in [1 .. n -> Nat] /\ IsInjective(r)
      BY <2>4 DEF Shuffled
    <3>2. ASSUME NEW i \in 1 .. n
          PROVE  \E j \in 1 .. n : r[i] = s[j]
      <4>1. PICK k \in 1 .. n : r[i] = t[k]
        BY <2>4 DEF Shuffled
      <4>2. PICK j \in 1 .. n : t[k] = s[j]
        BY <2>2 DEF Shuffled
      <4> QED
        BY <4>1, <4>2
    <3>3. ASSUME NEW j \in 1 .. n
          PROVE  \E i \in 1 .. n : r[i] = s[j]
      <4>1. PICK k \in 1 .. n : t[k] = s[j]
        BY <2>2 DEF Shuffled
      <4>2. PICK i \in 1 .. n : r[i] = t[k]
        BY <2>4 DEF Shuffled
      <4> QED
        BY <4>1, <4>2
    <3> QED
      BY <3>1, <3>2, <3>3 DEF Shuffled
  <2> QED
    BY <2>1, <2>4, <2>5
<1>5. Right(n)
  <2> HIDE DEF Right
  <2>1. PICK Q : Q = {k \in 0 .. n : Right(k)}
    OBVIOUS
  <2>2. 0 \in Q /\ \A p \in 1 .. n : p - 1 \in Q => p \in Q
    BY <1>3, <1>4, <2>1
  <2>3. \A p \in 0 .. n : p \in Q
    BY <2>2, Upward
  <2> QED
    BY <2>1, <2>3
<1>6. PICK r : r = ListSort(s) /\ r = f[n]
  BY <1>2 DEF Sorts
<1>7. r \in [1 .. n -> Nat] /\ DOMAIN r = 1 .. n
  BY <1>5, <1>6 DEF Shuffled
<1>8. r \in Seq(Nat)
  BY <1>7
<1>9. Ascending(r)
  BY <1>5, <1>6, <1>7 DEF PrefixSorted, Ascending
<1>10. ToSet(r) = ToSet(s)
  <2>1. /\ \A i \in 1 .. n : \E j \in 1 .. n : r[i] = s[j]
        /\ \A j \in 1 .. n : \E i \in 1 .. n : r[i] = s[j]
    BY <1>5, <1>6 DEF Shuffled
  <2>2. /\ \A x : x \in ToSet(r) <=> \E i \in 1 .. n : r[i] = x
        /\ \A x : x \in ToSet(s) <=> \E i \in 1 .. n : s[i] = x
    BY ONLY <1>1, <1>7 DEF ToSet
  <2>3. \A x : x \in ToSet(r) <=> x \in ToSet(s)
    BY ONLY <2>1, <2>2
  <2> QED
    BY ONLY <2>3
<1> QED
  BY <1>6, <1>8, <1>9, <1>10

=============================================================================
