---------------------------- MODULE MCDposVoting ----------------------------
(* Four arbiters, one of them faulty.                                      *)
EXTENDS DposVoting
=============================================================================
