------------------------------ MODULE MCTxPool ------------------------------
(* Updates, a cancellation and votes of one producer, a transaction that   *)
(* spends the output of another, two pow transactions of one side chain    *)
(* and two proposals; they compete for three outputs and a small pool.  An *)
(* activation spends nothing.                                              *)
EXTENDS TxPool

T(kind, ins, outs, keys, subject, budget, size, rate) ==
    [kind |-> kind, ins |-> ins, outs |-> outs, keys |-> keys, subject |-> subject,
     budget |-> budget, size |-> size, rate |-> rate]

All ==
    [u1 |-> T("update", {"i1"}, {"o"}, {"owner"}, "p", 0, 1, 2),
     u2 |-> T("update", {"i2"}, {}, {"owner"}, "p", 0, 1, 1),
     u3 |-> T("update", {"i3"}, {}, {"owner"}, "p", 0, 1, 1),
     c  |-> T("cancel", {"i3"}, {}, {"owner"}, "p", 0, 1, 2),
     v  |-> T("vote", {"i1", "i2"}, {}, {}, "p", 0, 2, 1),
     d  |-> T("transfer", {"o"}, {}, {}, "", 0, 1, 3),
     a  |-> T("activate", {}, {}, {"node"}, "p", 0, 1, 0),
     w1 |-> T("pow", {}, {}, {}, "g", 0, 1, 0),
     w2 |-> T("pow", {"i3"}, {}, {}, "g", 0, 2, 0),
     q1 |-> T("proposal", {"i2"}, {}, {"draft1"}, "", 2, 1, 2),
     q2 |-> T("proposal", {"i3"}, {}, {"draft2"}, "", 2, 1, 2)]

Field(f) == [t \in Txs |-> All[t][f]]
MCKind == Field("kind")
MCInputs == Field("ins")
MCOutputs == Field("outs")
MCSlotKeys == Field("keys")
MCSubject == Field("subject")
MCBudget == Field("budget")
MCSize == Field("size")
MCFeeRate == Field("rate")
MCBlocks == {b \in SUBSET Txs : Cardinality(b) \in 1..2
    /\ \A t, u \in b : t # u => MCInputs[t] \cap MCInputs[u] = {}
                              /\ MCSlotKeys[t] \cap MCSlotKeys[u] = {}}
=============================================================================
