---------------------------- MODULE MCProducers -----------------------------
(* One producer, with the waiting times scaled down.                       *)
EXTENDS Producers

CONSTANTS owner, crc
MCArbiterSets == {{crc}, {crc, owner}}
=============================================================================
