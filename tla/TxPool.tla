------------------------------- MODULE TxPool -------------------------------
(***************************************************************************)
(* mempool/txpool.go with its conflict slots (conflictmanager.go,          *)
(* conflictslot.go), its list ordered by fee rate (txfeeorderedlist.go)    *)
(* and its checkpoint (txpoolcheckpoint.go), and the events of the chain   *)
(* that netsync hands to it.                                               *)
(*                                                                         *)
(* Each call holds the pool's lock, so calls do not interleave; but the    *)
(* chain is written before the pool is cleaned, and the states that the    *)
(* context check reads are updated after it.  Transactions arrive at any   *)
(* of these points.  A conflict slot and a key of it are one slot key      *)
(* here; the keys of slotTxInputsReferKeys are the inputs.                 *)
(***************************************************************************)
EXTENDS Integers, Sequences, FiniteSets, SequencesExt, FiniteSetsExt

CONSTANTS
    Txs,
    Kind,           \* "transfer", "pow", "version", "activate", "vote", "update",
                    \* "cancel", "proposal"
    Inputs,         \* outputs a transaction spends
    Outputs,        \* outputs a transaction creates
    SlotKeys,       \* its keys in the slots other than the inputs
    Subject,        \* producer or candidate it names, genesis hash of a pow
    Budget,         \* amount a proposal asks for
    Size,
    FeeRate,
    Funds,          \* CRCCurrentStageAmount
    MaxSize,        \* pact.MaxTxPoolSize
    Blocks,         \* sets of transactions that other nodes put in blocks
    MaxHeight,      \* bound: blocks
    MaxDisconnects, \* bound: blocks taken off
    MaxRestarts     \* bound: restarts of the process

CONSTANT None

AllInputs == UNION {Inputs[t] : t \in Txs}
AllKeys == AllInputs \cup UNION {SlotKeys[t] : t \in Txs}

ASSUME NoneAssumption == None \notin Txs
ASSUME TxsAssumption ==
    IsFiniteSet(Txs) /\ Budget \in [Txs -> Nat] /\ FeeRate \in [Txs -> Nat]
ASSUME KeysAssumption == \A t \in Txs : SlotKeys[t] \cap AllInputs = {}
(* "no cost transactions must has no input" (checkTransactionInput).       *)
ASSUME VersionAssumption == \A t \in Txs : Kind[t] = "version" => Inputs[t] = {}
ASSUME BlocksAssumption ==
    \A b \in Blocks : b \subseteq Txs /\ \A t, u \in b : t # u => Inputs[t] \cap Inputs[u] = {}

VARIABLES
    mp,         \* the pool: txnList, slots, txFees, proposalsUsedAmount
    chain,      \* blocks in the chain database, as sets of transactions
    seen,       \* blocks the producer and CR states have processed
    pc,         \* what the thread that writes the chain does next
    reinsert,   \* transactions of a disconnected block still to be reinserted
    refused,    \* the one among them that was refused just now, if any
    saved,      \* txFees as the checkpoint file holds it
    disconnects, restarts

vars == <<mp, chain, seen, pc, reinsert, refused, saved, disconnects, restarts>>

Keys(t) == Inputs[t] \cup SlotKeys[t]
TxsOf(bs) == UNION Range(bs)

(* What the proposals among some transactions ask for.                     *)
AnyOf(S) == CHOOSE t \in S : TRUE
SumOf[S \in SUBSET Txs] == IF S = {} THEN 0 ELSE Budget[AnyOf(S)] + SumOf[S \ {AnyOf(S)}]

-----------------------------------------------------------------------------
(* txFeeOrderedList.  Search is sort.Search: the first item of a smaller   *)
(* rate, or the end.                                                       *)
Search(list, rate) ==
    Min({i \in DOMAIN list : FeeRate[list[i]] < rate} \cup {Len(list) + 1})

CompareAndInsert(list, t) == InsertAt(list, Search(list, FeeRate[t]), t)

Located_Before(list, t) ==
    {i \in DOMAIN list : i < Search(list, FeeRate[t]) - 1 /\ list[i] = t}

Located(list, t) ==
    {i \in DOMAIN list : i <= Min({Search(list, FeeRate[t]), Len(list)}) /\ list[i] = t}

RemoveFee(list, t) ==
    IF Located(list, t) = {} THEN list ELSE RemoveAt(list, Max(Located(list, t)))

RemoveFees(list, S) ==
    LET left[T \in SUBSET S] ==
            IF T = {} THEN list ELSE RemoveFee(left[T \ {AnyOf(T)}], AnyOf(T))
    IN  left[S]

TotalSize(list) == FoldLeft(LAMBDA n, t : n + Size[t], 0, list)
OverSize(list, size) == TotalSize(list) + size > MaxSize

-----------------------------------------------------------------------------
(* The conflict manager.                                                   *)
VerifyTx_Types(m, t) == \A k \in SlotKeys[t] : m.slots[k] = None

VerifyTx(m, t) == \A k \in Keys(t) : m.slots[k] = None
AppendSlots(slots, t) == [k \in AllKeys |-> IF k \in Keys(t) THEN t ELSE slots[k]]

(* removeTx deletes the keys of a transaction, whoever holds them.         *)
RemoveKeys(slots, S) == [k \in AllKeys |-> IF \E t \in S : k \in Keys(t) THEN None ELSE slots[k]]

(* doAddTransaction and doRemoveTransaction; the latter for the pooled     *)
(* transactions among S, in any order.                                     *)
DoAdd(m, t) ==
    [txnList |-> m.txnList \cup {t},
     slots   |-> AppendSlots(m.slots, t),
     txFees  |-> CompareAndInsert(m.txFees, t),
     used    |-> m.used + Budget[t]]

DoRemove_KeepAmount(m, S) ==
    LET T == S \cap m.txnList
    IN  [m EXCEPT !.txnList = @ \ T,
                  !.slots = RemoveKeys(@, T),
                  !.txFees = RemoveFees(@, T)]

DoRemove_KeepKeys(m, S) ==
    LET T == S \cap m.txnList
    IN  [m EXCEPT !.txnList = @ \ T,
                  !.txFees = RemoveFees(@, T),
                  !.used = @ - SumOf[T]]

DoRemove(m, S) ==
    LET T == S \cap m.txnList
    IN  [txnList |-> m.txnList \ T,
         slots   |-> RemoveKeys(m.slots, T),
         txFees  |-> RemoveFees(m.txFees, T),
         used    |-> m.used - SumOf[T]]

-----------------------------------------------------------------------------
(* What CheckTransactionContext asks of the chain database, of the states  *)
(* of producers and CR, and of the amount that proposals in the pool use.  *)
OnChain == TxsOf(chain)
Seen == TxsOf(SubSeq(chain, 1, seen))
Spent == UNION {Inputs[t] : t \in OnChain}
Exists(i) == \A t \in Txs : i \in Outputs[t] => t \in OnChain
Canceled == {Subject[t] : t \in {u \in Seen : Kind[u] = "cancel"}}

ContextOK(t) ==
    /\ t \notin OnChain
    /\ \A i \in Inputs[t] : Exists(i) /\ i \notin Spent
    /\ Kind[t] \in {"vote", "update", "cancel"} => Subject[t] \notin Canceled
    /\ Kind[t] = "proposal" => Budget[t] <= Funds - SumOf[Seen] - mp.used

(* replaceDuplicateSideChainPowTx: done before the slots are asked, and    *)
(* not undone when they refuse.                                            *)
Replaced(t) ==
    {u \in mp.txnList : Kind[t] = "pow" /\ Kind[u] = "pow" /\ Subject[u] = Subject[t]}

Accepts(t) ==
    LET m == DoRemove(mp, Replaced(t))
    IN  t \notin mp.txnList /\ ContextOK(t) /\ VerifyTx(m, t) /\ ~OverSize(m.txFees, Size[t])

AppendToTxPool(t) ==
    IF t \in mp.txnList \/ ~ContextOK(t) THEN mp
    ELSE LET m == DoRemove(mp, Replaced(t))
         IN  IF Accepts(t) THEN DoAdd(m, t) ELSE m

(* RemoveTransaction: what spends an output of t.                          *)
Spending(m, outs) == {m.slots[i] : i \in outs \cap AllInputs} \ {None}
RemoveTransaction(t) == DoRemove(mp, Spending(mp, Outputs[t]))

-----------------------------------------------------------------------------
(* CleanSubmittedTransactions.                                             *)
ByHash(t) == (Kind[t] = "pow" /\ Inputs[t] = {}) \/ Kind[t] = "version"

CleanTransactions_Same(m, b) == DoRemove(m, b)
CleanTransactions(m, b) ==
    LET byInput == {t \in b : ~ByHash(t)}
        doubled == Spending(m, UNION {Inputs[t] : t \in byInput})
        m1 == DoRemove(m, {t \in b : ByHash(t)} \cup doubled)
    IN  [m1 EXCEPT !.slots = RemoveKeys(@, byInput)]

(* cleanCanceledProducerAndCR: votes for and updates of the cancelled one. *)
CleanCanceled(m, b) ==
    DoRemove(m, {t \in m.txnList : Kind[t] \in {"vote", "update"}
                    /\ \E c \in b : Kind[c] = "cancel" /\ Subject[c] = Subject[t]})

(* cleanSideChainPowTx removes those the arbiter on duty did not sign.     *)
PowTxs(m) == {t \in m.txnList : Kind[t] = "pow"}

-----------------------------------------------------------------------------
EmptyPool == [txnList |-> {}, slots |-> [k \in AllKeys |-> None], txFees |-> <<>>, used |-> 0]

Init ==
    /\ mp = EmptyPool
    /\ chain = <<>> /\ seen = 0 /\ pc = "idle" /\ reinsert = {} /\ refused = {} /\ saved = <<>>
    /\ disconnects = 0 /\ restarts = 0

(* A transaction comes from a peer or a client.                            *)
Receive(t) ==
    /\ mp' = AppendToTxPool(t)
    /\ UNCHANGED <<chain, seen, pc, reinsert, refused, saved, disconnects, restarts>>

(* connectBlock writes a block that was checked and then raises            *)
(* ETBlockConnected.                                                       *)
SaveBlock(b) ==
    /\ pc = "idle" /\ Len(chain) < MaxHeight
    /\ \A t \in b : t \notin OnChain /\ \A i \in Inputs[t] : Exists(i) /\ i \notin Spent
    /\ \A t \in b : Kind[t] \in {"vote", "update", "cancel"} => Subject[t] \notin Canceled
    /\ SumOf[b] <= Funds - SumOf[Seen]
    /\ chain' = Append(chain, b) /\ pc' = "connected"
    /\ UNCHANGED <<mp, seen, reinsert, refused, saved, disconnects, restarts>>

CleanSubmitted(stale) ==
    LET m == CleanTransactions(mp, Last(chain))
    IN  /\ pc = "connected" /\ pc' = "cleaned"
        /\ stale \subseteq PowTxs(m)
        /\ mp' = CleanCanceled(DoRemove(m, stale), Last(chain))
        /\ UNCHANGED <<chain, seen, reinsert, refused, saved, disconnects, restarts>>

(* The checkpoint manager has the states process the block and saves the   *)
(* pool.  Snapshot deserializes into the live pool, which has all of its   *)
(* transactions already: the file has the list of fees and nothing else.   *)
UpdateStates(save) ==
    /\ pc = "cleaned" /\ pc' = "idle"
    /\ seen' = Len(chain)
    /\ saved' = IF save THEN mp.txFees ELSE saved
    /\ UNCHANGED <<mp, chain, reinsert, refused, disconnects, restarts>>

(* disconnectBlock rolls the states and the database back and raises       *)
(* ETBlockDisconnected.                                                    *)
Disconnect ==
    /\ pc = "idle" /\ chain # <<>> /\ disconnects < MaxDisconnects
    /\ chain' = Front(chain) /\ seen' = Len(chain) - 1
    /\ reinsert' = Last(chain) /\ pc' = "disconnected"
    /\ disconnects' = disconnects + 1
    /\ UNCHANGED <<mp, refused, saved, restarts>>

(* MaybeAcceptTransaction for each; RemoveTransaction for the refused.     *)
Reinsert(t) ==
    /\ pc = "disconnected" /\ refused = {} /\ t \in reinsert
    /\ mp' = AppendToTxPool(t)
    /\ reinsert' = reinsert \ {t}
    /\ refused' = IF Accepts(t) THEN {} ELSE {t}
    /\ UNCHANGED <<chain, seen, pc, saved, disconnects, restarts>>

RemoveRefused(t) ==
    /\ t \in refused /\ refused' = {}
    /\ mp' = RemoveTransaction(t)
    /\ UNCHANGED <<chain, seen, pc, reinsert, saved, disconnects, restarts>>

Reinserted ==
    /\ pc = "disconnected" /\ reinsert \cup refused = {} /\ pc' = "idle"
    /\ UNCHANGED <<mp, chain, seen, reinsert, refused, saved, disconnects, restarts>>

(* The process starts again: Restore loads the file, InitCheckpoint has    *)
(* the states process the chain.                                           *)
Restart ==
    /\ restarts < MaxRestarts /\ restarts' = restarts + 1
    /\ mp' = [EmptyPool EXCEPT !.txFees = saved]
    /\ seen' = Len(chain) /\ pc' = "idle" /\ reinsert' = {} /\ refused' = {}
    /\ UNCHANGED <<chain, saved, disconnects>>

Next ==
    \/ \E t \in Txs : Receive(t) \/ Reinsert(t) \/ RemoveRefused(t)
    \/ \E b \in Blocks : SaveBlock(b)
    \/ \E stale \in SUBSET PowTxs(mp) : CleanSubmitted(stale)
    \/ \E save \in BOOLEAN : UpdateStates(save)
    \/ Disconnect \/ Reinserted \/ Restart

Spec == Init /\ [][Next]_vars

-----------------------------------------------------------------------------
\* Every pooled transaction holds the slot keys of its inputs: what the
\* cleaning by inputs (getInputUTXOList) rests on.
InputsHeld == \A t \in mp.txnList : \A i \in Inputs[t] : mp.slots[i] = t

\* No two pooled transactions spend one output, however blocks, reorgani-
\* zations and transactions interleave (VerifyTx, cleanTransactions).
NoDoubleSpend ==
    \A t, u \in mp.txnList : t # u => Inputs[t] \cap Inputs[u] = {}

\* Once a block has been cleaned for, the pool holds nothing the chain has
\* spent, transactions accepted while it was being connected included.
NothingSpent ==
    pc # "connected" => \A t \in mp.txnList : Inputs[t] \cap Spent = {}

\* A slot key is held by a pooled transaction: none is left behind to refuse
\* transactions for ever (removeTx in every path that removes).
NoKeyLeaked ==
    \A k \in AllKeys : mp.slots[k] # None =>
        mp.slots[k] \in mp.txnList /\ k \in Keys(mp.slots[k])

\* proposalsUsedAmount, which the context check subtracts from the funds, is
\* the sum over the pooled proposals.
UsedAmountExact == mp.used = SumOf[mp.txnList]

\* Until a restart the list of fees holds each pooled transaction once and
\* nothing else, highest rate first: RemoveTx finds what AddTx inserted.
FeesMatchPool ==
    restarts = 0 =>
        /\ Range(mp.txFees) = mp.txnList /\ Len(mp.txFees) = Cardinality(mp.txnList)
        /\ \A i, j \in DOMAIN mp.txFees : i < j => FeeRate[mp.txFees[i]] >= FeeRate[mp.txFees[j]]

\* "clean the transaction Pool with committed block": what the chain has is no
\* longer in the pool.
NothingConfirmed == pc # "connected" => mp.txnList \cap OnChain = {}

\* No two pooled transactions share a key of any slot.
NoConflicts == \A t, u \in mp.txnList : t # u => Keys(t) \cap Keys(u) = {}
=============================================================================
