------------------------------ MODULE ItemList ------------------------------
(***************************************************************************)
(* Lists of items: the merges of probe_set_combine                         *)
(* (OVAL/probes/probe/worker.c) and SEXP_list_sort                         *)
(* (OVAL/probes/SEAP/sexp-manip.c), which they rely on.                    *)
(*                                                                         *)
(* Items are numbers: their order is the order of their addresses          *)
(* (SEXP_refcmp).                                                          *)
(***************************************************************************)
EXTENDS Integers, SequencesExt

\* A sorted list without repetitions.
Ascending(s) == \A i, j \in DOMAIN s : i < j => s[i] < s[j]

\* One round of a merge: an item only the left list has is kept by UNION and
\* COMPLEMENT, one only the right list has by UNION, one at the head of both
\* by UNION and INTERSECTION.
MergeRound(op, s, t, m) ==
    LET inS == m.i <= Len(s)
        inT == m.j <= Len(t)
        Keep(k, x) == IF k THEN Append(m.out, x) ELSE m.out
    IN  IF inS /\ (inT => s[m.i] < t[m.j])
        THEN [i |-> m.i + 1, j |-> m.j, out |-> Keep(op # "INTERSECTION", s[m.i])]
        ELSE IF inT /\ (inS => s[m.i] > t[m.j])
        THEN [i |-> m.i, j |-> m.j + 1, out |-> Keep(op = "UNION", t[m.j])]
        ELSE IF inS /\ inT
        THEN [i |-> m.i + 1, j |-> m.j + 1, out |-> Keep(op # "COMPLEMENT", s[m.i])]
        ELSE m

\* The three merges of probe_set_combine.
Merge(op, s, t) ==
    LET m[n \in 0 .. Len(s) + Len(t)] ==
            IF n = 0 THEN [i |-> 1, j |-> 1, out |-> <<>>] ELSE MergeRound(op, s, t, m[n - 1])
    IN  m[Len(s) + Len(t)].out

\* The items of a list that are in a set, in their order.
Restricted(s, kept) ==
    LET f[n \in 0 .. Len(s)] ==
            IF n = 0 THEN <<>> ELSE IF s[n] \in kept THEN Append(f[n - 1], s[n]) ELSE f[n - 1]
    IN  f[Len(s)]

-----------------------------------------------------------------------------
(* Sorting *)

\* A list is a chain of blocks of 2, 4, ..., 2^15 members, then of 2^6 to 2^15
\* again and again (SEXP_rawval_lblk_add1): the places in a list of length n
\* where its blocks begin, the place where the block of a place begins, and the
\* one where the block that begins at h ends.
Heads(n) ==
    {p \in 1 .. n : \E k \in 1 .. 15 : \/ p + 1 = 2 ^ k
                                       \/ k >= 6 /\ (p + 1 - 2 ^ k) % (2 ^ 16 - 2 ^ 6) = 0}
HeadOf(n, p) == Max({h \in Heads(n) : h <= p})
EndOf(n, h) == Min({h2 \in Heads(n) \cup {n + 1} : h2 > h}) - 1

\* qsort
Qsort(b) ==
    LET order == CHOOSE f \in Bijection(DOMAIN b, DOMAIN b) :
                    \A i, j \in DOMAIN b : i < j => b[f[i]] <= b[f[j]]
    IN  [i \in DOMAIN b |-> b[order[i]]]

SortBlocks(s) ==
    [p \in DOMAIN s |-> LET h == HeadOf(Len(s), p)
                        IN  Qsort(SubSeq(s, h, EndOf(Len(s), h)))[p - h + 1]]

\* One round of oscap_bfind_i: w places after the first s are left.  When the
\* key is found the place is not saved and the caller's 0 stands.
BfindRound(block, key, r) ==
    LET h == r.w \div 2
        member == block[r.s + h + 1]
    IN  IF r.w = 0 THEN r
        ELSE IF key > member THEN [s |-> r.s + h + 1, w |-> r.w - h - 1]
        ELSE IF key < member THEN [s |-> r.s, w |-> h]
        ELSE [s |-> 0, w |-> 0]

\* oscap_bfind_i: the place of key in a sorted block.
BfindSave(block, key) ==
    LET r[n \in 0 .. Len(block)] ==
            IF n = 0 THEN [s |-> 0, w |-> Len(block)] ELSE BfindRound(block, key, r[n - 1])
    IN  r[Len(block)].s

\* Place p receives the least head of the later blocks if that is smaller, and
\* the old value moves into that block.
MergeStep(t, p) ==
    LET n == Len(t)
        smaller == {h \in Heads(n) : h > p /\ t[h] < t[p]}
        m == CHOOSE h \in smaller : \A k \in smaller : t[h] < t[k] \/ (t[h] = t[k] /\ h <= k)
        d == m + BfindSave(SubSeq(t, m + 1, EndOf(n, m)), t[p])
    IN  IF smaller = {} THEN t
        ELSE [q \in DOMAIN t |-> IF q = p THEN t[m]
                                 ELSE IF q >= m /\ q < d THEN t[q + 1]
                                 ELSE IF q = d THEN t[p] ELSE t[q]]

\* Faulty variant: every block is sorted and the blocks are not merged.
ListSortBlocks(s) == SortBlocks(s)

\* SEXP_list_sort: every block is sorted, then the blocks are merged.
ListSort(s) ==
    LET t[p \in 0 .. Len(s)] == IF p = 0 THEN SortBlocks(s) ELSE MergeStep(t[p - 1], p)
    IN  t[Len(s)]

=============================================================================
