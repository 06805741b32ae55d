----------------------------- MODULE VoteLedger -----------------------------
(***************************************************************************)
(* What the producer states promise about votes, without an undo log: the  *)
(* tally of a producer is the sum over the votes and their withdrawals in  *)
(* the chain, whatever blocks were connected and taken off before.  The    *)
(* tallies rank the producers, and the ranking elects the arbiters, so two *)
(* nodes with one chain must have the same.                                *)
(***************************************************************************)
EXTENDS Integers, Sequences, SequencesExt

CONSTANTS
    Candidates,
    Gains,      \* what one block may add to a tally
    Depth       \* blocks that may be taken off

VARIABLES
    gains,      \* what each of the last blocks added to the tallies
    tally

Init == gains = <<>> /\ tally = [p \in Candidates |-> 0]

Connect(g) ==
    /\ gains' = Append(IF Len(gains) >= Depth THEN Tail(gains) ELSE gains, g)
    /\ tally' = [p \in Candidates |-> tally[p] + g[p]]

Disconnect ==
    /\ gains # <<>>
    /\ gains' = Front(gains)
    /\ tally' = [p \in Candidates |-> tally[p] - Last(gains)[p]]

Next == (\E g \in [Candidates -> Gains] : Connect(g)) \/ Disconnect

Spec == Init /\ [][Next]_<<gains, tally>>
=============================================================================
