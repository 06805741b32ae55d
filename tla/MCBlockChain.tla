---------------------------- MODULE MCBlockChain ----------------------------
(* Small trees of blocks.                                                  *)
EXTENDS BlockChain

(* Two branches that can overtake each other: 1 <- 2 <- 6 and 3 <- 4 <- 5. *)
Forks == 1..6
ForkParent == <<0, 1, 0, 3, 4, 2>>
ForkHeight == (0 :> 1) @@ <<2, 3, 2, 3, 4, 4>>

(* A block with two children.                                              *)
Siblings == 1..3
SiblingParent == <<0, 1, 1>>
SiblingHeight == (0 :> 1) @@ <<2, 3, 3>>

OneView == [b \in Blocks |-> 0]
LaterView == [b \in Blocks |-> IF b = 2 THEN 1 ELSE 0]
=============================================================================
