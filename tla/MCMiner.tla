------------------------------ MODULE MCMiner ------------------------------
(***************************************************************************)
(* One worker, two callers of Start and Stop, two blocks of peers and two  *)
(* of our own, and bits that change at height 2.                           *)
(***************************************************************************)
EXTENDS Miner

MCBits == [h \in 1..(MaxBlocks + MaxFound + 1) |-> IF h = 1 THEN 1 ELSE 2]
=============================================================================
