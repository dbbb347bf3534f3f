--------------------------- MODULE MCRedBlackTree ---------------------------
(***************************************************************************)
(* The red-black tree on nine keys: enough for black height three, where  *)
(* every rotation of a deletion has a grandparent below the root.          *)
(***************************************************************************)
EXTENDS RedBlackTree

MCKeys == 1 .. 9
=============================================================================
