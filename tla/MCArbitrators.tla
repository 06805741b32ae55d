--------------------------- MODULE MCArbitrators ----------------------------
(* Two CRC arbiters and two producers for one seat.                        *)
EXTENDS Arbitrators

MCNames == [p \in Payloads |-> IF p = "x" THEN {1} ELSE {2}]
=============================================================================
