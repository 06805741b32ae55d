--------------------------- MODULE MCDposArbiter ---------------------------
(* Four arbiters (a majority is three, a minority two) and the blocks of   *)
(* the first heights.                                                      *)
EXTENDS DposArbiter

Block(h, id, parent) == [h |-> h, id |-> id, parent |-> parent]
TwoHeights == {Block(1, 1, 0), Block(2, 1, 1)}
Competing == {Block(1, 1, 0), Block(1, 2, 0)}
=============================================================================
