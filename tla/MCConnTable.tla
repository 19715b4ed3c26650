---------------------------- MODULE MCConnTable ----------------------------
(***************************************************************************)
(* Four connections, three of which collide, two buckets and vectors that  *)
(* start with room for one block, so that growing twice, colliding,        *)
(* swapping and failing allocations all happen.                            *)
(***************************************************************************)
EXTENDS ConnTable, TLC

CONSTANTS c1, c2, c3, c4

MCID     == {c1, c2, c3, c4}
MCHashOf == [id \in MCID |-> IF id = c4 THEN 1 ELSE 0]
MCListening == {c1, c2}
MCGarbage == {0}
MCGarbageFlags == {{}}
=============================================================================
