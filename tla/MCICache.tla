------------------------------ MODULE MCICache ------------------------------
(***************************************************************************)
(* Small instance of the item cache: two probe threads, three items of     *)
(* which the second repeats the content of the first and the third only    *)
(* collides with it under the hash, and a ring of two slots, so that a     *)
(* full queue, a wrap-around, a cache hit, a collision and a refused item  *)
(* all occur.                                                              *)
(***************************************************************************)
EXTENDS ICache

CONSTANTS p1, p2, i1, i2, i3

MCContent(i) == IF i = i3 THEN "b" ELSE "a"
MCID(i) == 1
==============================================================================
