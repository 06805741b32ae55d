---------------------------- MODULE MCCheckpoint ----------------------------
(* The checkpoints of the node, with heights and periods scaled down: the  *)
(* states keep one snapshot in two blocks, the pool one in each.           *)
EXTENDS Checkpoint

MCPoints == <<"cr", "dpos", "txPool">>
MCStart == [p \in {"dpos", "cr", "txPool"} |->
    CASE p = "dpos" -> 2 [] p = "cr" -> 3 [] p = "txPool" -> 1]
MCPeriod == [p \in {"dpos", "cr", "txPool"} |-> IF p = "txPool" THEN 1 ELSE 2]
=============================================================================
