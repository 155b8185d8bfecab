---------------------------- MODULE PageAllocMC ----------------------------
(* Normal and high memory of a few pages, and an empty movable zone; the      *)
(* high zone ends inside a block of the largest order.                        *)
EXTENDS PageAlloc

MCZonePages == [z \in 0 .. 2 |-> IF z = 0 THEN 0 .. 3 ELSE IF z = 1 THEN 4 .. 8 ELSE {}]
=============================================================================
