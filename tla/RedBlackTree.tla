---------------------------- MODULE RedBlackTree ----------------------------
(***************************************************************************)
(* The red-black trees of OVAL/probes/SEAP/generic/rbt (rbt_i32.c, with    *)
(* rbt_i64.c and rbt_str.c its copies for other keys): top-down insertion  *)
(* and deletion with a history h of the last four nodes and a vector dvec  *)
(* of the last directions, one action per loop iteration.                  *)
(*                                                                         *)
(* A cell is named by the key it holds; Fake is the node on the stack of   *)
(* rbt_i32_add and rbt_i32_del whose right child is rbt->root: it is made  *)
(* from the root when an operation starts and copied back at every exit,   *)
(* so that the root is Fake's right child in every state.  The colour,     *)
(* which the code keeps in the lowest bit of _chld[0], is a field of its   *)
(* own: each raw assignment to a _chld[0] is followed by a                 *)
(* rbt_node_setcolor of the same cell.  Data pointers are left out.        *)
(***************************************************************************)
EXTENDS Integers, Sequences, FiniteSets

CONSTANTS
    Keys,   \* keys, ordered as integers
    Nil,    \* the NULL pointer
    Fake    \* the node above the root

SL == 0
SR == 1
Node == Keys \cup {Fake}
Side == {SL, SR}
Other(d) == 1 - d

VARIABLES
    tree,   \* [chld, red]: the cells in use and their colours
    size,   \* rbt->size
    pc,     \* "idle", "add" or "del": the loop the writer is in
    key,    \* u_key
    h,      \* node history, h[1] the current node (h[0] in the code)
    dvec,   \* direction history; its three low bits are the ones read
    save,   \* the cell that holds the key to delete
    ret     \* return code of the last operation

vars == <<tree, size, pc, key, h, dvec, save, ret>>

Dir(dv, i) == (dv \div (2 ^ i)) % 2
Push(hist, n) == <<n, hist[1], hist[2], hist[3]>>
Turn(dv, d) == (2 * dv + d) % 8

\* rbt_node_getcolor: a NULL pointer is black.
IsRed(t, n) == n # Nil /\ t.red[n]
Paint(t, n, r) == IF n = Nil THEN t ELSE [t EXCEPT !.red[n] = r]
Link(t, p, d, n) == [t EXCEPT !.chld[p][d] = n]

(***************************************************************************)
(* Rotations.  Rotate(t, o, d) lifts the child of o on side d above o      *)
(* (rbt_node_rotate_L for d = SR, rbt_node_rotate_R for d = SL), Rotate2   *)
(* lifts the inner grandchild (rotate_LR, rotate_RL).  Both return the     *)
(* tree and the new top n, black with red children o (and m).              *)
(***************************************************************************)
Rotate(t, o, d) ==
    LET n == t.chld[o][d]
    IN [top |-> n,
        t |-> [chld |-> [t.chld EXCEPT ![o][d] = t.chld[n][Other(d)],
                                       ![n][Other(d)] = o],
               red  |-> [t.red EXCEPT ![n] = FALSE, ![o] = TRUE]]]

\* Faulty variant: the subtrees of the lifted node go to the wrong sides.
Rotate2Crossed(t, o, d) ==
    LET m == t.chld[o][d]
        n == t.chld[m][Other(d)]
    IN [top |-> n,
        t |-> [chld |-> [t.chld EXCEPT ![m][Other(d)] = t.chld[n][Other(d)],
                                       ![o][d] = t.chld[n][d],
                                       ![n][d] = m,
                                       ![n][Other(d)] = o],
               red  |-> [t.red EXCEPT ![m] = TRUE, ![o] = TRUE, ![n] = FALSE]]]

Rotate2(t, o, d) ==
    LET m == t.chld[o][d]
        n == t.chld[m][Other(d)]
    IN [top |-> n,
        t |-> [chld |-> [t.chld EXCEPT ![m][Other(d)] = t.chld[n][d],
                                       ![o][d] = t.chld[n][Other(d)],
                                       ![n][d] = m,
                                       ![n][Other(d)] = o],
               red  |-> [t.red EXCEPT ![m] = TRUE, ![o] = TRUE, ![n] = FALSE]]]

\* rbt_redfix: rotate the grandparent h[3] and hang it below h[4].
RedFix(t, hist, dv) ==
    LET r == IF Dir(dv, 1) = Dir(dv, 0) THEN Rotate(t, hist[3], Dir(dv, 1))
                                        ELSE Rotate2(t, hist[3], Dir(dv, 1))
    IN Link(r.t, hist[4], Dir(dv, 2), r.top)

Root(t) == t.chld[Fake][SR]
BlackRoot(t) == Paint(t, Root(t), FALSE)

-----------------------------------------------------------------------------
(***************************************************************************)
(* rbt_i32_add.                                                            *)
(***************************************************************************)
AddBegin(k) ==
    /\ pc = "idle"
    /\ pc' = "add"
    /\ key' = k
    /\ h' = <<Root(tree), Fake, Nil, Nil>>
    /\ dvec' = SR
    /\ UNCHANGED <<tree, size, save, ret>>

\* Leaving an operation: the locals go, the return code stays.
Leave(code) ==
    /\ pc' = "idle"
    /\ ret' = code
    /\ h' = <<Nil, Nil, Nil, Nil>>
    /\ dvec' = 0
    /\ save' = Nil
    /\ key' = Nil

NewLeaf(t, k, p, d) ==
    Paint(Link([chld |-> [t.chld EXCEPT ![k] = [s \in Side |-> Nil]],
                red |-> t.red], p, d, k), k, TRUE)

\* The end of the path: a new red leaf, the red violation fixed.
AddLeaf ==
    /\ pc = "add"
    /\ h[1] = Nil
    /\ LET t == NewLeaf(tree, key, h[2], Dir(dvec, 0))
       IN tree' = BlackRoot(IF IsRed(t, h[2]) THEN RedFix(t, h, dvec) ELSE t)
    /\ size' = size + 1
    /\ Leave(0)

\* Faulty variant: a split leaves a red node below a red parent.
AddFixedLate ==
    LET n == h[1]
        split == Paint(Paint(Paint(tree, n, TRUE), tree.chld[n][SL], FALSE),
                       tree.chld[n][SR], FALSE)
    IN IF \A d \in Side : IsRed(tree, tree.chld[n][d]) THEN split
       ELSE IF IsRed(tree, n) /\ IsRed(tree, h[2]) THEN RedFix(tree, h, dvec) ELSE tree

\* On the way down: split a node with two red children, fix a red violation.
AddFixed ==
    LET n == h[1]
        split == Paint(Paint(Paint(tree, n, TRUE), tree.chld[n][SL], FALSE),
                       tree.chld[n][SR], FALSE)
        t == IF \A d \in Side : IsRed(tree, tree.chld[n][d]) THEN split ELSE tree
    IN IF IsRed(t, n) /\ IsRed(t, h[2]) THEN RedFix(t, h, dvec) ELSE t

AddDown ==
    /\ pc = "add"
    /\ h[1] # Nil
    /\ h[1] # key
    /\ LET t == AddFixed
           d == IF key < h[1] THEN SL ELSE SR
       IN /\ tree' = t
          /\ h' = Push(h, t.chld[h[1]][d])
          /\ dvec' = Turn(dvec, d)
    /\ UNCHANGED <<size, pc, key, save, ret>>

\* A collision: the tree keeps the fixes made on the way.
AddCollision ==
    /\ pc = "add"
    /\ h[1] = key
    /\ tree' = BlackRoot(AddFixed)
    /\ UNCHANGED size
    /\ Leave(1)

-----------------------------------------------------------------------------
(***************************************************************************)
(* rbt_i32_del.                                                            *)
(***************************************************************************)
DelBegin(k) ==
    /\ pc = "idle"
    /\ size > 0
    /\ pc' = "del"
    /\ key' = k
    /\ h' = <<Fake, Nil, Nil, Nil>>
    /\ dvec' = SR
    /\ UNCHANGED <<tree, size, save, ret>>

DelEmpty ==
    /\ pc = "idle"
    /\ size = 0
    /\ UNCHANGED <<tree, size>>
    /\ Leave(1)

\* Faulty variant: the history keeps the rotated node's old parent.
SiblingUpStale(t, hist, dv) ==
    LET r == Rotate(t, hist[1], Other(Dir(dv, 0)))
    IN [t |-> Link(r.t, hist[2], Dir(dv, 1), r.top), h |-> hist]

\* A red node is pushed down: the three ways to make h[1] or its next
\* child red.  hist is the history after the push, dv the directions.
SiblingUp(t, hist, dv) ==
    LET r == Rotate(t, hist[1], Other(Dir(dv, 0)))
    IN [t |-> Link(r.t, hist[2], Dir(dv, 1), r.top),
        h |-> [hist EXCEPT ![2] = r.top]]

ColourSwap(t, hist, s) ==
    [t |-> Paint(Paint(Paint(t, hist[1], TRUE), hist[2], FALSE), s, TRUE), h |-> hist]

BorrowFrom(t, hist, s, dv) ==
    LET p == Dir(dv, 1)
        d == IF t.chld[hist[3]][SR] = hist[2] THEN SR ELSE SL
        r == IF IsRed(t, t.chld[s][p]) THEN Rotate2(t, hist[2], Other(p))
                                       ELSE Rotate(t, hist[2], Other(p))
        u == Paint(Paint(Link(r.t, hist[3], d, r.top), hist[1], TRUE), r.top, TRUE)
    IN [t |-> Paint(Paint(u, u.chld[r.top][SL], FALSE), u.chld[r.top][SR], FALSE),
        h |-> hist]

DelFixed(t, hist, dv) ==
    LET n == hist[1]
        s == t.chld[hist[2]][Other(Dir(dv, 1))]
        keep == [t |-> t, h |-> hist]
    IN IF IsRed(t, n) \/ IsRed(t, t.chld[n][Dir(dv, 0)]) THEN keep
       ELSE IF IsRed(t, t.chld[n][Other(Dir(dv, 0))]) THEN SiblingUp(t, hist, dv)
       ELSE IF s = Nil THEN keep
       ELSE IF \A d \in Side : ~IsRed(t, t.chld[s][d]) THEN ColourSwap(t, hist, s)
       ELSE BorrowFrom(t, hist, s, dv)

DelNext == tree.chld[h[1]][Dir(dvec, 0)]

DelDown ==
    /\ pc = "del"
    /\ DelNext # Nil
    /\ LET n  == DelNext
           dv == Turn(dvec, IF key > n THEN SR ELSE SL)
           f  == DelFixed(tree, Push(h, n), dv)
       IN /\ tree' = f.t
          /\ h' = f.h
          /\ dvec' = dv
          /\ save' = IF n = key THEN n ELSE save
    /\ UNCHANGED <<size, pc, key, ret>>

DelMissing ==
    /\ pc = "del"
    /\ DelNext = Nil
    /\ save = Nil
    /\ tree' = BlackRoot(tree)
    /\ UNCHANGED size
    /\ Leave(1)

\* The last node takes the place of the deleted key.  Cells are named by
\* their keys, so the cell save goes on under the name of that node.
Unlink(t, last) ==
    LET up == h[2]
        d  == IF t.chld[up][SR] = last THEN SR ELSE SL
        c  == IF t.chld[last][SR] = Nil THEN t.chld[last][SL] ELSE t.chld[last][SR]
    IN Link(t, up, d, c)

Free(t, k) == [chld |-> [t.chld EXCEPT ![k] = [s \in Side |-> Nil]],
               red |-> [t.red EXCEPT ![k] = FALSE]]

Rename(t, old, new) ==
    LET ref(n) == IF n = old THEN new ELSE n
        moved == [chld |-> [t.chld EXCEPT ![new] = t.chld[old]],
                  red |-> [t.red EXCEPT ![new] = t.red[old]]]
        freed == Free(moved, old)
    IN [freed EXCEPT !.chld = [n \in Node |-> [d \in Side |-> ref(freed.chld[n][d])]]]

DelFound ==
    /\ pc = "del"
    /\ DelNext = Nil
    /\ save # Nil
    /\ LET last == h[1]
           bad  == Root(tree) # last /\ ~IsRed(tree, last)
           t    == Unlink(tree, last)
       IN IF bad
          THEN UNCHANGED <<tree, size>> /\ Leave(-1)
          ELSE /\ tree' = BlackRoot(IF last = save THEN Free(t, last) ELSE Rename(t, save, last))
               /\ size' = size - 1
               /\ Leave(0)

-----------------------------------------------------------------------------
Init ==
    /\ tree = [chld |-> [n \in Node |-> [d \in Side |-> Nil]], red |-> [n \in Node |-> FALSE]]
    /\ size = 0
    /\ pc = "idle"
    /\ key = Nil
    /\ h = <<Nil, Nil, Nil, Nil>>
    /\ dvec = 0
    /\ save = Nil
    /\ ret = 0

AddStep == AddLeaf \/ AddDown \/ AddCollision
DelStep == DelDown \/ DelMissing \/ DelFound

Next == \/ \E k \in Keys : AddBegin(k) \/ DelBegin(k)
        \/ DelEmpty
        \/ AddStep
        \/ DelStep

Spec == Init /\ [][Next]_vars

-----------------------------------------------------------------------------
(***************************************************************************)
(* Readers: rbt_i32_get, and the in-order walk with its explicit stack     *)
(* (rbt_walk_inorder, rbt_free).                                           *)
(***************************************************************************)
RECURSIVE FindFrom(_, _, _)
FindFrom(t, n, k) ==
    IF n = Nil THEN FALSE
    ELSE IF k = n THEN TRUE
    ELSE FindFrom(t, t.chld[n][IF k < n THEN SL ELSE SR], k)

Get(k) == FindFrom(tree, Root(tree), k)

\* [out, deep]: the keys visited from a stack (its top last) and the greatest
\* depth of the stack; down says whether the top's left child comes next.
RECURSIVE WalkFrom(_, _, _, _, _)
WalkFrom(t, stack, down, out, deep) ==
    IF stack = <<>> THEN [out |-> out, deep |-> deep]
    ELSE LET top   == stack[Len(stack)]
             below == SubSeq(stack, 1, Len(stack) - 1)
             left  == t.chld[top][SL]
             right == t.chld[top][SR]
             most  == IF Len(stack) > deep THEN Len(stack) ELSE deep
         IN IF down /\ left # Nil THEN WalkFrom(t, Append(stack, left), TRUE, out, most)
            ELSE IF right # Nil THEN WalkFrom(t, Append(below, right), TRUE, Append(out, top), most)
            ELSE WalkFrom(t, below, FALSE, Append(out, top), most)

Walk == WalkFrom(tree, IF Root(tree) = Nil THEN <<>> ELSE <<Root(tree)>>, TRUE, <<>>, 0)

\* The keys in the tree, by the pointers from the root.
RECURSIVE Below(_, _)
Below(t, n) == IF n = Nil THEN {} ELSE {n} \cup Below(t, t.chld[n][SL]) \cup Below(t, t.chld[n][SR])

Content == Below(tree, Root(tree))

\* Black height of a subtree, -1 when two paths differ.
RECURSIVE BlackHeight(_, _)
BlackHeight(t, n) ==
    IF n = Nil THEN 1
    ELSE LET l == BlackHeight(t, t.chld[n][SL])
             r == BlackHeight(t, t.chld[n][SR])
         IN IF l # r \/ l = -1 THEN -1 ELSE IF t.red[n] THEN l ELSE l + 1

-----------------------------------------------------------------------------
(***************************************************************************)
(* Properties.                                                             *)
(***************************************************************************)

\* Between operations the tree is a red-black tree: black root, no red node
\* with a red child, as many black nodes on every path.  Insertion and
\* deletion restructure on the way down with a history that they do not
\* renew after a rotation.
RedBlack ==
    pc = "idle" =>
        /\ ~IsRed(tree, Root(tree))
        /\ \A k \in Content, d \in Side : tree.red[k] => ~IsRed(tree, tree.chld[k][d])
        /\ BlackHeight(tree, Root(tree)) # -1

\* Readers see the same tree: the in-order walk that frees or prints a tree
\* visits every key once and in order, rbt->size is their number, and
\* rbt_i32_get, which searches by comparison, finds exactly these keys.  The
\* walk's stack holds at most 2 log2(size + 1) nodes; by that law its 48 slots
\* last for 2^24 - 2 keys.
ReadersAgree ==
    pc = "idle" =>
        LET out == Walk.out
        IN /\ \A i, j \in DOMAIN out : i < j => out[i] < out[j]
           /\ {out[i] : i \in DOMAIN out} = Content
           /\ size = Len(out)
           /\ \A k \in Keys : Get(k) = (k \in Content)
           /\ 2 ^ (Walk.deep \div 2) <= size + 1

\* The tree is the set of RbtSet: an operation changes the keys below the
\* root only in its last step, and returns what the set would return; the
\* check rbt_i32_del makes before it unlinks a node (the last node is red
\* or the root), which would return -1 with the lock held, never fails.
Abstract == INSTANCE RbtSet WITH set <- Content
ImplementsSet == Abstract!Spec
=============================================================================
