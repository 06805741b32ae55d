------------------------------ MODULE MCHistory ------------------------------
(* Small instances of History: one assigned field, one counter.            *)
EXTENDS History
=============================================================================
