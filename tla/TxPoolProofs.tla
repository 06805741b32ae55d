---------------------------- MODULE TxPoolProofs ----------------------------
(***************************************************************************)
(* The transaction pool never holds two transactions that spend one        *)
(* output, nor one that spends what the chain has spent, nor a slot key of *)
(* a transaction that is gone: for every set of transactions, every slot   *)
(* key they may share, every block and every bound.  Its books, the amount *)
(* of its proposals and its list of fees, agree with what it holds.        *)
(*                                                                         *)
(* The cleaning after a block finds the transactions to remove through the *)
(* slot keys of their inputs.  The invariant is therefore that every       *)
(* pooled transaction holds these keys (InputsHeld), although removeTx     *)
(* deletes a key whoever holds it.                                         *)
(***************************************************************************)
EXTENDS TxPool, SequenceTheorems, WellFoundedInduction, NaturalsInduction, FiniteSetTheorems, TLAPS

PoolType(m) == m.txnList \subseteq Txs /\ m.slots \in [AllKeys -> Txs \cup {None}]
Held(m) == \A t \in m.txnList : \A i \in Inputs[t] : m.slots[i] = t
Tight(m) ==
    \A k \in AllKeys : m.slots[k] # None => m.slots[k] \in m.txnList /\ k \in Keys(m.slots[k])
PoolOK(m) == PoolType(m) /\ Held(m) /\ Tight(m)

(* An input is a slot key of the transactions that spend it and of no      *)
(* other.                                                                  *)
LEMMA InputKeys ==
    ASSUME NEW t \in Txs, NEW i \in Inputs[t]
    PROVE  /\ i \in AllInputs /\ i \in AllKeys /\ i \in Keys(t)
           /\ \A u \in Txs : i \in Keys(u) => i \in Inputs[u]
BY KeysAssumption DEF AllInputs, AllKeys, Keys

(* doRemoveTransaction keeps the keys of the transactions that stay.       *)
LEMMA RemoveOK ==
    ASSUME NEW m, PoolOK(m), NEW S
    PROVE  PoolOK(DoRemove(m, S)) /\ DoRemove(m, S).txnList = m.txnList \ S
<1> DEFINE n == DoRemove(m, S)
           T == S \cap m.txnList
<1>1. n.txnList = m.txnList \ T /\ n.slots = RemoveKeys(m.slots, T)
    BY DEF DoRemove
<1>2. n.txnList = m.txnList \ S /\ T \subseteq Txs /\ m.txnList \subseteq Txs
    BY <1>1 DEF PoolOK, PoolType
<1>3. \A k \in AllKeys : n.slots[k] = IF \E t \in T : k \in Keys(t) THEN None ELSE m.slots[k]
    BY <1>1 DEF RemoveKeys
<1> HIDE DEF n
<1>4. PoolType(n)
    BY <1>1, <1>2 DEF PoolOK, PoolType, RemoveKeys
<1>5. Held(n)
    <2> SUFFICES ASSUME NEW u \in n.txnList, NEW i \in Inputs[u] PROVE n.slots[i] = u
        BY DEF Held
    <2>1. u \in m.txnList /\ u \in Txs /\ u \notin T /\ m.slots[i] = u /\ i \in AllKeys
        BY <1>1, <1>2, InputKeys DEF PoolOK, Held
    <2>2. ASSUME NEW t \in T, i \in Keys(t) PROVE FALSE
        <3>1. t \in Txs /\ t \in m.txnList
            BY <1>2
        <3>2. i \in Inputs[t]
            BY <2>1, <2>2, <3>1, InputKeys
        <3>3. m.slots[i] = t
            BY <3>1, <3>2 DEF PoolOK, Held
        <3> QED
            BY <2>1, <3>3
    <2> QED
        BY <1>3, <2>1, <2>2
<1>6. Tight(n)
    <2> SUFFICES ASSUME NEW k \in AllKeys, n.slots[k] # None
                 PROVE  n.slots[k] \in n.txnList /\ k \in Keys(n.slots[k])
        BY DEF Tight
    <2>1. n.slots[k] = m.slots[k] /\ \A t \in T : k \notin Keys(t)
        BY <1>3
    <2>2. m.slots[k] \in m.txnList /\ k \in Keys(m.slots[k])
        BY <2>1 DEF PoolOK, Tight
    <2> QED
        BY <1>1, <2>1, <2>2
<1> QED
    BY <1>2, <1>4, <1>5, <1>6 DEF PoolOK, n

(* doAddTransaction takes keys that VerifyTx found free.                   *)
LEMMA AddOK ==
    ASSUME NEW m, PoolOK(m), NEW t \in Txs, VerifyTx(m, t)
    PROVE  PoolOK(DoAdd(m, t)) /\ DoAdd(m, t).txnList = m.txnList \cup {t}
<1> DEFINE n == DoAdd(m, t)
<1>1. n.txnList = m.txnList \cup {t} /\ n.slots = AppendSlots(m.slots, t)
    BY DEF DoAdd
<1>2. m.txnList \subseteq Txs /\ m.slots \in [AllKeys -> Txs \cup {None}]
    BY DEF PoolOK, PoolType
<1>3. \A k \in AllKeys : n.slots[k] = IF k \in Keys(t) THEN t ELSE m.slots[k]
    BY <1>1 DEF AppendSlots
<1> HIDE DEF n
<1>4. PoolType(n)
    BY <1>1, <1>2 DEF PoolType, AppendSlots
<1>5. Held(n)
    <2> SUFFICES ASSUME NEW u \in n.txnList, NEW i \in Inputs[u] PROVE n.slots[i] = u
        BY DEF Held
    <2>1. u \in Txs /\ i \in AllKeys /\ i \in Keys(u)
        BY <1>1, <1>2, InputKeys
    <2>2. CASE u = t
        BY <1>3, <2>1, <2>2
    <2>3. CASE u # t
        <3>1. m.slots[i] = u
            BY <1>1, <2>3 DEF PoolOK, Held
        <3>2. i \notin Keys(t)
            BY <2>1, <3>1, NoneAssumption DEF VerifyTx
        <3> QED
            BY <1>3, <2>1, <3>1, <3>2
    <2> QED
        BY <2>2, <2>3
<1>6. Tight(n)
    BY <1>1, <1>3 DEF PoolOK, Tight
<1> QED
    BY <1>1, <1>4, <1>5, <1>6 DEF PoolOK, n

(* cleanTransactions leaves nothing that spends an input of the block, and *)
(* the keys it deletes besides are those of no transaction that stays.     *)
LEMMA CleanOK ==
    ASSUME NEW m, PoolOK(m), NEW b \in SUBSET Txs
    PROVE  LET n == CleanTransactions(m, b)
           IN  /\ PoolOK(n) /\ n.txnList \subseteq m.txnList
               /\ \A u \in n.txnList : \A t \in b : Inputs[u] \cap Inputs[t] = {}
<1> DEFINE byInput == {t \in b : ~ByHash(t)}
           spent == UNION {Inputs[t] : t \in byInput}
           doubled == Spending(m, spent)
           m1 == DoRemove(m, {t \in b : ByHash(t)} \cup doubled)
           n == CleanTransactions(m, b)
<1>1. n.txnList = m1.txnList /\ n.slots = RemoveKeys(m1.slots, byInput)
    BY DEF CleanTransactions, DoRemove
<1>2. PoolOK(m1) /\ m1.txnList = m.txnList \ ({t \in b : ByHash(t)} \cup doubled)
    BY RemoveOK
<1>3. byInput \subseteq Txs /\ m.txnList \subseteq Txs /\ m1.txnList \subseteq m.txnList
    BY <1>2 DEF PoolOK, PoolType
<1>4. \A t \in byInput : \A i \in Inputs[t] : i \in spent
    OBVIOUS
<1>5. \A i \in spent \cap AllInputs : m.slots[i] # None => m.slots[i] \in doubled
    BY DEF Spending
<1> HIDE DEF m1, n, byInput, spent, doubled
<1>6. ASSUME NEW u \in m1.txnList, NEW t \in byInput PROVE Inputs[u] \cap Inputs[t] = {}
    <2> SUFFICES ASSUME NEW i \in Inputs[u], i \in Inputs[t] PROVE FALSE
        OBVIOUS
    <2>1. u \in Txs /\ u \in m.txnList /\ u \notin doubled
        BY <1>2, <1>3
    <2>2. m.slots[i] = u /\ u # None
        BY <2>1, NoneAssumption DEF PoolOK, Held
    <2>3. i \in AllInputs /\ i \in spent
        BY <1>4, <2>1, InputKeys
    <2> QED
        BY <1>5, <2>1, <2>2, <2>3
<1>7. ASSUME NEW u \in n.txnList, NEW t \in b PROVE Inputs[u] \cap Inputs[t] = {}
    <2>1. CASE ByHash(t)
        BY <2>1, VersionAssumption DEF ByHash
    <2>2. CASE ~ByHash(t)
        BY <1>1, <1>6, <2>2 DEF byInput
    <2> QED
        BY <2>1, <2>2
<1>8. \A k \in AllKeys :
        n.slots[k] = IF \E t \in byInput : k \in Keys(t) THEN None ELSE m1.slots[k]
    BY <1>1 DEF RemoveKeys
<1>9. PoolType(n)
    BY <1>1, <1>2 DEF PoolOK, PoolType, RemoveKeys
<1>10. Held(n)
    <2> SUFFICES ASSUME NEW u \in n.txnList, NEW i \in Inputs[u] PROVE n.slots[i] = u
        BY DEF Held
    <2>1. u \in m1.txnList /\ u \in Txs /\ m1.slots[i] = u /\ i \in AllKeys
        BY <1>1, <1>2, <1>3, InputKeys DEF PoolOK, Held
    <2>2. ASSUME NEW t \in byInput, i \in Keys(t) PROVE FALSE
        BY <1>3, <1>6, <2>1, <2>2, InputKeys
    <2> QED
        BY <1>8, <2>1, <2>2
<1>11. Tight(n)
    BY <1>1, <1>2, <1>8 DEF PoolOK, Tight
<1> QED
    BY <1>1, <1>3, <1>7, <1>9, <1>10, <1>11 DEF PoolOK, n

-----------------------------------------------------------------------------
(* While a block is being connected, only what it spends may be in the     *)
(* pool and spent.                                                         *)
Pending == IF pc = "connected" THEN UNION {Inputs[t] : t \in Last(chain)} ELSE {}

SpentPending == \A t \in mp.txnList : Inputs[t] \cap Spent \subseteq Pending

ChainType == /\ chain \in Seq(SUBSET Txs) /\ (pc = "connected" => chain # <<>>)
             /\ reinsert \subseteq Txs /\ refused \subseteq Txs

PoolInv == ChainType /\ PoolOK(mp) /\ SpentPending

(* The transactions of a chain with one block more.                        *)
LEMMA AppendTxs ==
    ASSUME NEW c \in Seq(SUBSET Txs), NEW b \in SUBSET Txs
    PROVE  /\ Append(c, b) \in Seq(SUBSET Txs) /\ Append(c, b) # <<>>
           /\ Last(Append(c, b)) = b /\ TxsOf(Append(c, b)) = TxsOf(c) \cup b
<1>1. /\ Append(c, b) \in Seq(SUBSET Txs) /\ Len(Append(c, b)) = Len(c) + 1
      /\ Append(c, b)[Len(c) + 1] = b
      /\ \A i \in 1..Len(c) : Append(c, b)[i] = c[i]
    BY AppendProperties
<1>2. DOMAIN c = 1..Len(c) /\ Len(c) \in Nat /\ DOMAIN Append(c, b) = 1..(Len(c) + 1)
    BY <1>1, LenProperties
<1>3. Range(Append(c, b)) = Range(c) \cup {b}
    BY <1>1, <1>2 DEF Range
<1> QED
    BY <1>1, <1>2, <1>3, EmptySeq DEF Last, TxsOf

(* The transactions of a chain with one block less.                        *)
LEMMA FrontTxs ==
    ASSUME NEW c \in Seq(SUBSET Txs), c # <<>>
    PROVE  /\ Front(c) \in Seq(SUBSET Txs) /\ Last(c) \in SUBSET Txs
           /\ TxsOf(Front(c)) \subseteq TxsOf(c)
<1>1. Len(c) \in Nat \ {0} /\ DOMAIN c = 1..Len(c)
    BY EmptySeq, LenProperties
<1>2. \A i \in 1..Len(c) : c[i] \in SUBSET Txs
    BY <1>1, ElementOfSeq
<1>3. Front(c) = [i \in 1..(Len(c) - 1) |-> c[i]]
    BY <1>1 DEF Front
<1>4. Front(c) \in Seq(SUBSET Txs)
    BY <1>1, <1>2, <1>3, IsASeq
<1>5. Range(Front(c)) \subseteq Range(c)
    BY <1>1, <1>3 DEF Range
<1> QED
    BY <1>1, <1>2, <1>4, <1>5 DEF Last, TxsOf

(* A transaction that enters the pool was checked against the chain.       *)
LEMMA AppendToPoolOK ==
    ASSUME PoolInv, NEW t \in Txs
    PROVE  LET n == AppendToTxPool(t)
           IN  PoolOK(n) /\ \A u \in n.txnList : Inputs[u] \cap Spent \subseteq Pending
<1> DEFINE m == DoRemove(mp, Replaced(t))
<1>1. PoolOK(m) /\ m.txnList \subseteq mp.txnList
    BY RemoveOK DEF PoolInv
<1> HIDE DEF m
<1>2. CASE t \in mp.txnList \/ ~ContextOK(t)
    BY <1>2 DEF AppendToTxPool, PoolInv, SpentPending
<1>3. CASE ~(t \in mp.txnList \/ ~ContextOK(t)) /\ ~Accepts(t)
    BY <1>1, <1>3 DEF AppendToTxPool, PoolInv, SpentPending, m
<1>4. CASE ~(t \in mp.txnList \/ ~ContextOK(t)) /\ Accepts(t)
    <2>1. VerifyTx(m, t) /\ AppendToTxPool(t) = DoAdd(m, t)
        BY <1>4 DEF Accepts, AppendToTxPool, m
    <2>2. PoolOK(DoAdd(m, t)) /\ DoAdd(m, t).txnList = m.txnList \cup {t}
        BY <1>1, <2>1, AddOK
    <2>3. Inputs[t] \cap Spent = {}
        BY <1>4 DEF ContextOK
    <2> QED
        BY <1>1, <2>1, <2>2, <2>3 DEF PoolInv, SpentPending
<1> QED
    BY <1>2, <1>3, <1>4

(* What the cleaning after a block does, with the removals that follow it. *)
LEMMA CleanSubmittedOK ==
    ASSUME PoolInv, NEW stale, CleanSubmitted(stale)
    PROVE  PoolInv'
<1> DEFINE b == Last(chain)
           m == CleanTransactions(mp, b)
           n == CleanCanceled(DoRemove(m, stale), b)
<1>1. /\ pc = "connected" /\ pc' = "cleaned" /\ mp' = n
      /\ UNCHANGED <<chain, reinsert, refused>>
    BY DEF CleanSubmitted
<1>2. b \in SUBSET Txs
    BY <1>1, FrontTxs DEF PoolInv, ChainType
<1>3. /\ PoolOK(m) /\ m.txnList \subseteq mp.txnList
      /\ \A u \in m.txnList : \A t \in b : Inputs[u] \cap Inputs[t] = {}
    <2> HIDE DEF b
    <2> QED
        BY <1>2, CleanOK DEF PoolInv
<1>4. Pending = UNION {Inputs[t] : t \in b} /\ Pending' = {} /\ Spent' = Spent
    BY <1>1 DEF Pending, Spent, OnChain
<1> HIDE DEF b, m
<1>5. PoolOK(DoRemove(m, stale)) /\ DoRemove(m, stale).txnList \subseteq m.txnList
    BY <1>3, RemoveOK
<1>6. PoolOK(n) /\ n.txnList \subseteq m.txnList
    <2> DEFINE k == DoRemove(m, stale)
               S == {t \in k.txnList : Kind[t] \in {"vote", "update"}
                       /\ \E c \in b : Kind[c] = "cancel" /\ Subject[c] = Subject[t]}
    <2>1. n = DoRemove(k, S)
        BY DEF CleanCanceled
    <2> HIDE DEF k, S, n
    <2>2. PoolOK(k) /\ k.txnList \subseteq m.txnList
        BY <1>5 DEF k
    <2> QED
        BY <2>1, <2>2, RemoveOK
<1> HIDE DEF n
<1>7. ASSUME NEW u \in n.txnList PROVE Inputs[u] \cap Spent = {}
    <2>1. Inputs[u] \cap Spent \subseteq Pending
        BY <1>3, <1>6 DEF PoolInv, SpentPending
    <2>2. \A t \in b : Inputs[u] \cap Inputs[t] = {}
        BY <1>3, <1>6
    <2> QED
        BY <1>4, <2>1, <2>2
<1> QED
    BY <1>1, <1>4, <1>6, <1>7 DEF PoolInv, ChainType, SpentPending

(* Every step keeps the invariant.                                         *)
LEMMA StepPreserves == PoolInv /\ [Next]_vars => PoolInv'
<1> SUFFICES ASSUME PoolInv, [Next]_vars PROVE PoolInv'
    OBVIOUS
<1>0. /\ chain \in Seq(SUBSET Txs) /\ (pc = "connected" => chain # <<>>)
      /\ reinsert \subseteq Txs /\ refused \subseteq Txs
    BY DEF PoolInv, ChainType
<1>1. ASSUME NEW t \in Txs, Receive(t) PROVE PoolInv'
    <2>1. mp' = AppendToTxPool(t) /\ UNCHANGED <<chain, pc, reinsert, refused>>
        BY <1>1 DEF Receive
    <2>2. Spent' = Spent /\ Pending' = Pending
        BY <2>1 DEF Spent, OnChain, Pending
    <2> QED
        BY <1>0, <2>1, <2>2, AppendToPoolOK DEF PoolInv, ChainType, SpentPending
<1>2. ASSUME NEW t \in Txs, Reinsert(t) PROVE PoolInv'
    <2>1. /\ mp' = AppendToTxPool(t) /\ reinsert' \subseteq Txs /\ refused' \subseteq Txs
          /\ UNCHANGED <<chain, pc>>
        BY <1>0, <1>2 DEF Reinsert
    <2>2. Spent' = Spent /\ Pending' = Pending
        BY <2>1 DEF Spent, OnChain, Pending
    <2> QED
        BY <1>0, <2>1, <2>2, AppendToPoolOK DEF PoolInv, ChainType, SpentPending
<1>3. ASSUME NEW t \in Txs, RemoveRefused(t) PROVE PoolInv'
    <2>1. /\ mp' = DoRemove(mp, Spending(mp, Outputs[t])) /\ refused' = {}
          /\ UNCHANGED <<chain, pc, reinsert>>
        BY <1>3 DEF RemoveRefused, RemoveTransaction
    <2>2. PoolOK(mp') /\ mp'.txnList \subseteq mp.txnList
        BY <2>1, RemoveOK DEF PoolInv
    <2>3. Spent' = Spent /\ Pending' = Pending
        BY <2>1 DEF Spent, OnChain, Pending
    <2> QED
        BY <1>0, <2>1, <2>2, <2>3 DEF PoolInv, ChainType, SpentPending
<1>4. ASSUME NEW b \in Blocks, SaveBlock(b) PROVE PoolInv'
    <2>1. /\ pc = "idle" /\ pc' = "connected" /\ chain' = Append(chain, b)
          /\ UNCHANGED <<mp, reinsert, refused>>
        BY <1>4 DEF SaveBlock
    <2>2. b \in SUBSET Txs
        BY BlocksAssumption
    <2>3. /\ chain' \in Seq(SUBSET Txs) /\ chain' # <<>> /\ Last(chain') = b
          /\ TxsOf(chain') = TxsOf(chain) \cup b
        BY <1>0, <2>1, <2>2, AppendTxs
    <2>4. Spent' = Spent \cup UNION {Inputs[t] : t \in b} /\ Pending = {}
        BY <2>1, <2>3 DEF Spent, OnChain, Pending
    <2>5. Pending' = UNION {Inputs[t] : t \in b}
        BY <2>1, <2>3 DEF Pending
    <2>6. SpentPending'
        BY <2>1, <2>4, <2>5 DEF PoolInv, SpentPending
    <2> QED
        BY <1>0, <2>1, <2>3, <2>6 DEF PoolInv, ChainType
<1>5. ASSUME NEW stale \in SUBSET PowTxs(mp), CleanSubmitted(stale) PROVE PoolInv'
    BY <1>5, CleanSubmittedOK
<1>6. ASSUME NEW save \in BOOLEAN, UpdateStates(save) PROVE PoolInv'
    <2>1. /\ pc = "cleaned" /\ pc' = "idle" /\ UNCHANGED <<mp, chain, reinsert, refused>>
        BY <1>6 DEF UpdateStates
    <2>2. Spent' = Spent /\ Pending' = {} /\ Pending = {}
        BY <2>1 DEF Spent, OnChain, Pending
    <2> QED
        BY <1>0, <2>1, <2>2 DEF PoolInv, ChainType, SpentPending
<1>7. CASE Disconnect
    <2>1. /\ pc = "idle" /\ chain # <<>> /\ chain' = Front(chain) /\ reinsert' = Last(chain)
          /\ pc' = "disconnected" /\ UNCHANGED <<mp, refused>>
        BY <1>7 DEF Disconnect
    <2>2. /\ chain' \in Seq(SUBSET Txs) /\ reinsert' \subseteq Txs
          /\ TxsOf(chain') \subseteq TxsOf(chain)
        BY <1>0, <2>1, FrontTxs
    <2>3. Spent' \subseteq Spent /\ Pending = {} /\ Pending' = {}
        BY <2>1, <2>2 DEF Spent, OnChain, Pending
    <2> QED
        BY <1>0, <2>1, <2>2, <2>3 DEF PoolInv, ChainType, SpentPending
<1>8. CASE Reinserted
    <2>1. /\ pc = "disconnected" /\ pc' = "idle" /\ UNCHANGED <<mp, chain, reinsert, refused>>
        BY <1>8 DEF Reinserted
    <2>2. Spent' = Spent /\ Pending' = {} /\ Pending = {}
        BY <2>1 DEF Spent, OnChain, Pending
    <2> QED
        BY <1>0, <2>1, <2>2 DEF PoolInv, ChainType, SpentPending
<1>9. CASE Restart
    <2>1. /\ mp'.txnList = {} /\ mp'.slots = [k \in AllKeys |-> None] /\ pc' = "idle"
          /\ reinsert' = {} /\ refused' = {} /\ chain' = chain
        BY <1>9 DEF Restart, EmptyPool
    <2> QED
        BY <1>0, <2>1
        DEF PoolInv, ChainType, SpentPending, PoolOK, PoolType, Held, Tight
<1>10. CASE UNCHANGED vars
    <2>1. UNCHANGED <<mp, chain, pc, reinsert, refused>>
        BY <1>10 DEF vars
    <2>2. Spent' = Spent /\ Pending' = Pending
        BY <2>1 DEF Spent, OnChain, Pending
    <2> QED
        BY <1>0, <2>1, <2>2 DEF PoolInv, ChainType, SpentPending
<1> QED
    BY <1>1, <1>2, <1>3, <1>4, <1>5, <1>6, <1>7, <1>8, <1>9, <1>10 DEF Next

LEMMA PoolCorrect == Spec => []PoolInv
<1>1. Init => PoolInv
    <2> SUFFICES ASSUME Init PROVE PoolInv
        OBVIOUS
    <2>1. /\ mp.txnList = {} /\ mp.slots = [k \in AllKeys |-> None] /\ chain = <<>>
          /\ pc = "idle" /\ reinsert = {} /\ refused = {}
        BY DEF Init, EmptyPool
    <2>2. chain \in Seq(SUBSET Txs)
        BY <2>1, EmptySeq
    <2> QED
        BY <2>1, <2>2 DEF PoolInv, ChainType, SpentPending, PoolOK, PoolType, Held, Tight
<1> QED
    BY <1>1, StepPreserves, PTL DEF Spec

(* VerifyTx and the cleaning by inputs keep the pool free of double        *)
(* spending, whatever arrives between a block and its cleaning.            *)
THEOREM PoolNoDoubleSpend == Spec => []NoDoubleSpend
<1>1. PoolInv => NoDoubleSpend
    <2> SUFFICES ASSUME PoolInv, NEW t \in mp.txnList, NEW u \in mp.txnList, t # u,
                        NEW i \in Inputs[t], i \in Inputs[u]
                 PROVE  FALSE
        BY DEF NoDoubleSpend
    <2> QED
        BY DEF PoolInv, PoolOK, Held
<1> QED
    BY <1>1, PoolCorrect, PTL

(* cleanTransactions, appendToTxPool and the reinsertion after a           *)
(* reorganization leave nothing in the pool that the chain has spent.      *)
THEOREM PoolNothingSpent == Spec => []NothingSpent
<1>1. PoolInv => NothingSpent
    BY DEF PoolInv, SpentPending, Pending, NothingSpent
<1> QED
    BY <1>1, PoolCorrect, PTL

(* Every path that removes a transaction frees its slot keys (removeTx).   *)
THEOREM PoolNoKeyLeaked == Spec => []NoKeyLeaked
<1>1. PoolInv => NoKeyLeaked
    BY DEF PoolInv, PoolOK, Tight, NoKeyLeaked
<1> QED
    BY <1>1, PoolCorrect, PTL

-----------------------------------------------------------------------------
(* A function of the subsets of a finite set is defined by what it does    *)
(* with one element, whichever is taken first.                             *)
Upto(S, n) == {T \in SUBSET S : Cardinality(T) <= n}
Solves(f, D, base, step) ==
    \A T \in D : f[T] = IF T = {} THEN base ELSE step[T][f[T \ {AnyOf(T)}]]

LEMMA AnyOfIn ==
    ASSUME NEW T, T # {}
    PROVE  AnyOf(T) \in T
BY DEF AnyOf

(* A non-empty set of naturals has a least element.                        *)
LEMMA LeastOf ==
    ASSUME NEW N \in SUBSET Nat, N # {}
    PROVE  \E n \in N : \A k \in N : n <= k
<1>1. PICK n \in N : \A k \in N : ~(<<k, n>> \in OpToRel(<, Nat))
    <2> DEFINE R == OpToRel(<, Nat)
    <2>1. IsWellFoundedOn(R, Nat)
        BY NatLessThanWellFounded
    <2> HIDE DEF R
    <2>2. \E n \in N : \A k \in N : ~(<<k, n>> \in R)
        BY <2>1, WFMin
    <2> QED
        BY <2>2 DEF R
<1>2. \A k \in N : n <= k
    <2> SUFFICES ASSUME NEW k \in N PROVE n <= k
        OBVIOUS
    <2>1. ~(k < n)
        BY <1>1 DEF OpToRel
    <2> QED
        BY <2>1
<1> QED
    BY <1>2

LEMMA SetRecursion ==
    ASSUME NEW S, IsFiniteSet(S), NEW V, NEW base \in V,
           NEW step \in [(SUBSET S) \ {{}} -> [V -> V]]
    PROVE  \E f \in [SUBSET S -> V] : Solves(f, SUBSET S, base, step)
<1> DEFINE Good(n) == \E f \in [Upto(S, n) -> V] : Solves(f, Upto(S, n), base, step)
           bad == {n \in Nat : ~Good(n)}
<1>1. \A T \in SUBSET S : IsFiniteSet(T) /\ Cardinality(T) \in Nat
    BY FS_Subset, FS_CardinalityType
<1>2. Good(0)
    <2> DEFINE f == [T \in Upto(S, 0) |-> base]
    <2>1. \A T \in Upto(S, 0) : T = {}
        <3> SUFFICES ASSUME NEW T \in Upto(S, 0) PROVE T = {}
            OBVIOUS
        <3>1. T \in SUBSET S /\ Cardinality(T) <= 0
            BY DEF Upto
        <3>2. IsFiniteSet(T) /\ Cardinality(T) = 0
            BY <1>1, <3>1
        <3> QED
            BY <3>2, FS_EmptySet
    <2>2. f \in [Upto(S, 0) -> V] /\ Solves(f, Upto(S, 0), base, step)
        BY <2>1 DEF Solves
    <2> QED
        BY <2>2
<1>3. ASSUME NEW n \in Nat, n # 0, Good(n - 1) PROVE Good(n)
    <2>1. PICK f \in [Upto(S, n - 1) -> V] : Solves(f, Upto(S, n - 1), base, step)
        BY <1>3
    <2> DEFINE g == [T \in Upto(S, n) |-> IF T = {} THEN base ELSE step[T][f[T \ {AnyOf(T)}]]]
    <2>2. \A T \in Upto(S, n) : T # {} => T \ {AnyOf(T)} \in Upto(S, n - 1)
        <3> SUFFICES ASSUME NEW T \in Upto(S, n), T # {}
                     PROVE  T \ {AnyOf(T)} \in Upto(S, n - 1)
            OBVIOUS
        <3>1. T \in SUBSET S /\ IsFiniteSet(T) /\ Cardinality(T) \in Nat /\ Cardinality(T) <= n
            BY <1>1 DEF Upto
        <3>2. PICK t \in T : t = AnyOf(T)
            BY AnyOfIn
        <3>3. Cardinality(T \ {t}) = Cardinality(T) - 1
            BY <3>1, <3>2, FS_RemoveElement
        <3> QED
            BY <3>1, <3>2, <3>3 DEF Upto
    <2>3. \A T \in Upto(S, n - 1) : T \in Upto(S, n)
        BY <1>1 DEF Upto
    <2>4. g \in [Upto(S, n) -> V]
        <3> SUFFICES ASSUME NEW T \in Upto(S, n), T # {}
                     PROVE  step[T][f[T \ {AnyOf(T)}]] \in V
            OBVIOUS
        <3>1. f[T \ {AnyOf(T)}] \in V /\ T \in (SUBSET S) \ {{}}
            BY <2>1, <2>2 DEF Upto
        <3> QED
            BY <3>1
    <2>5. \A T \in Upto(S, n - 1) : g[T] = f[T]
        BY <2>1, <2>3 DEF Solves
    <2>6. Solves(g, Upto(S, n), base, step)
        <3> SUFFICES ASSUME NEW T \in Upto(S, n)
                     PROVE  g[T] = IF T = {} THEN base ELSE step[T][g[T \ {AnyOf(T)}]]
            BY DEF Solves
        <3>1. CASE T = {}
            BY <3>1
        <3>2. CASE T # {}
            <4>1. g[T \ {AnyOf(T)}] = f[T \ {AnyOf(T)}]
                BY <2>2, <2>5, <3>2
            <4>2. g[T] = step[T][f[T \ {AnyOf(T)}]]
                BY <3>2
            <4> HIDE DEF g
            <4> QED
                BY <3>2, <4>1, <4>2
        <3> QED
            BY <3>1, <3>2
    <2> HIDE DEF g
    <2> QED
        BY <2>4, <2>6
<1> HIDE DEF Good
<1>4. bad = {}
    <2> SUFFICES ASSUME bad # {} PROVE FALSE
        OBVIOUS
    <2>0. bad \in SUBSET Nat
        OBVIOUS
    <2>1. PICK n \in bad : \A k \in bad : n <= k
        <3> HIDE DEF bad
        <3> QED
            BY <2>0, LeastOf
    <2>2. n \in Nat /\ ~Good(n) /\ n # 0
        BY <1>2, <2>1
    <2>3. n - 1 \in Nat /\ ~(n <= n - 1)
        BY <2>2
    <2>4. n - 1 \notin bad
        BY <2>1, <2>3
    <2>5. Good(n - 1)
        BY <2>3, <2>4
    <2> QED
        BY <1>3, <2>2, <2>5
<1>5. Cardinality(S) \in Nat /\ Upto(S, Cardinality(S)) = SUBSET S
    BY <1>1, FS_Subset DEF Upto
<1>6. Good(Cardinality(S))
    BY <1>4, <1>5
<1> QED
    BY <1>5, <1>6 DEF Good

(* Induction over the subsets of a finite set.                             *)
LEMMA SetInduction ==
    ASSUME NEW S, IsFiniteSet(S), NEW good, {} \in good,
           \A T \in SUBSET S : T # {} /\ (\A t \in T : T \ {t} \in good) => T \in good
    PROVE  \A T \in SUBSET S : T \in good
<1> DEFINE bad == {T \in SUBSET S : T \notin good}
           sizes == {Cardinality(T) : T \in bad}
<1> SUFFICES ASSUME bad # {} PROVE FALSE
    OBVIOUS
<1>1. \A T \in SUBSET S : IsFiniteSet(T) /\ Cardinality(T) \in Nat
    BY FS_Subset, FS_CardinalityType
<1>2. sizes \in SUBSET Nat /\ sizes # {}
    BY <1>1
<1>3. PICK n \in sizes : \A k \in sizes : n <= k
    <2> HIDE DEF sizes
    <2> QED
        BY <1>2, LeastOf
<1>4. PICK T \in bad : n = Cardinality(T)
    BY <1>3
<1>5. T \in SUBSET S /\ T # {} /\ IsFiniteSet(T) /\ Cardinality(T) \in Nat
    BY <1>1, <1>4
<1>6. ASSUME NEW t \in T PROVE T \ {t} \in good
    <2>1. Cardinality(T \ {t}) = n - 1 /\ T \ {t} \in SUBSET S
        BY <1>4, <1>5, FS_RemoveElement
    <2>2. ~(n <= n - 1)
        BY <1>4, <1>5
    <2>3. n - 1 \notin sizes
        BY <1>3, <2>2
    <2>4. T \ {t} \notin bad
        BY <2>1, <2>3
    <2> QED
        BY <2>1, <2>4
<1> QED
    BY <1>4, <1>5, <1>6

-----------------------------------------------------------------------------
(* The amount that proposals use is a sum.                                 *)
LEMMA SumDef ==
    /\ SumOf = [T \in SUBSET Txs |-> SumOf[T]]
    /\ \A T \in SUBSET Txs : SumOf[T] \in Nat
    /\ \A T \in SUBSET Txs :
         SumOf[T] = IF T = {} THEN 0 ELSE Budget[AnyOf(T)] + SumOf[T \ {AnyOf(T)}]
<1> DEFINE step == [T \in (SUBSET Txs) \ {{}} |-> [n \in Nat |-> Budget[AnyOf(T)] + n]]
<1>1. \A T \in SUBSET Txs : T # {} => AnyOf(T) \in T /\ Budget[AnyOf(T)] \in Nat
    BY AnyOfIn, TxsAssumption
<1>2. step \in [(SUBSET Txs) \ {{}} -> [Nat -> Nat]]
    BY <1>1
<1>3. \A T \in SUBSET Txs, n \in Nat : T # {} => step[T][n] = Budget[AnyOf(T)] + n
    OBVIOUS
<1> HIDE DEF step
<1>4. PICK f \in [SUBSET Txs -> Nat] : Solves(f, SUBSET Txs, 0, step)
    BY <1>2, TxsAssumption, SetRecursion
<1>5. \A T \in SUBSET Txs : f[T] = IF T = {} THEN 0 ELSE Budget[AnyOf(T)] + f[T \ {AnyOf(T)}]
    <2> SUFFICES ASSUME NEW T \in SUBSET Txs
                 PROVE  f[T] = IF T = {} THEN 0 ELSE Budget[AnyOf(T)] + f[T \ {AnyOf(T)}]
        OBVIOUS
    <2>1. f[T \ {AnyOf(T)}] \in Nat
        BY <1>4
    <2> QED
        BY <1>3, <1>4, <2>1 DEF Solves
<1>6. f = [T \in SUBSET Txs |-> IF T = {} THEN 0 ELSE Budget[AnyOf(T)] + f[T \ {AnyOf(T)}]]
    BY <1>5
<1>7. SumOf = [T \in SUBSET Txs |-> IF T = {} THEN 0 ELSE Budget[AnyOf(T)] + SumOf[T \ {AnyOf(T)}]]
    BY <1>6 DEF SumOf
<1>8. \A T \in SUBSET Txs : SumOf[T] = IF T = {} THEN 0 ELSE Budget[AnyOf(T)] + SumOf[T \ {AnyOf(T)}]
    BY <1>7
<1> DEFINE good == {T \in SUBSET Txs : SumOf[T] \in Nat}
<1>9. {} \in good
    BY <1>8
<1>10. ASSUME NEW T \in SUBSET Txs, T # {}, \A t \in T : T \ {t} \in good PROVE T \in good
    <2>1. SumOf[T \ {AnyOf(T)}] \in Nat
        BY <1>1, <1>10
    <2> QED
        BY <1>1, <1>8, <1>10, <2>1
<1> HIDE DEF good
<1>11. \A T \in SUBSET Txs : T \in good
    BY <1>9, <1>10, TxsAssumption, SetInduction
<1> QED
    BY <1>7, <1>8, <1>11 DEF good

LEMMA SumAdd ==
    ASSUME NEW T \in SUBSET Txs, NEW x \in Txs \ T
    PROVE  SumOf[T \cup {x}] = SumOf[T] + Budget[x]
<1> DEFINE good == {U \in SUBSET Txs : \A y \in Txs \ U : SumOf[U \cup {y}] = SumOf[U] + Budget[y]}
<1>0. \A y \in Txs : Budget[y] \in Nat
    BY TxsAssumption
<1>1. {} \in good
    <2> SUFFICES ASSUME NEW y \in Txs PROVE SumOf[{y}] = SumOf[{}] + Budget[y]
        OBVIOUS
    <2>1. AnyOf({y}) = y /\ {y} \ {y} = {}
        BY AnyOfIn
    <2>2. SumOf[{y}] = Budget[y] + SumOf[{}] /\ SumOf[{}] \in Nat
        BY <2>1, SumDef
    <2> QED
        BY <1>0, <2>2
<1>2. ASSUME NEW U \in SUBSET Txs, U # {}, \A t \in U : U \ {t} \in good PROVE U \in good
    <2> SUFFICES ASSUME NEW y \in Txs \ U PROVE SumOf[U \cup {y}] = SumOf[U] + Budget[y]
        OBVIOUS
    <2>1. PICK c : c = AnyOf(U \cup {y})
        OBVIOUS
    <2>2. c \in U \cup {y}
        BY <2>1, AnyOfIn
    <2>3. SumOf[U \cup {y}] = Budget[c] + SumOf[(U \cup {y}) \ {c}]
        BY <2>1, SumDef
    <2>4. CASE c = y
        <3>1. (U \cup {y}) \ {c} = U
            BY <2>4
        <3>2. SumOf[U] \in Nat /\ Budget[y] \in Nat
            BY <1>0, SumDef
        <3>3. SumOf[U \cup {y}] = Budget[y] + SumOf[U]
            BY <2>3, <2>4, <3>1
        <3> QED
            BY <3>2, <3>3
    <2>5. CASE c # y
        <3> DEFINE W == U \ {c}
        <3>1. c \in U /\ W \in good /\ W \in SUBSET Txs /\ c \in Txs \ W /\ y \in Txs \ W
            BY <1>2, <2>2, <2>5
        <3>2. (U \cup {y}) \ {c} = W \cup {y} /\ U = W \cup {c}
            BY <2>5, <3>1
        <3> HIDE DEF W
        <3>3. SumOf[W \cup {y}] = SumOf[W] + Budget[y] /\ SumOf[W \cup {c}] = SumOf[W] + Budget[c]
            BY <3>1
        <3>4. SumOf[W] \in Nat /\ Budget[y] \in Nat /\ Budget[c] \in Nat
            BY <1>0, <3>1, SumDef
        <3>5. SumOf[U \cup {y}] = Budget[c] + (SumOf[W] + Budget[y])
            BY <2>3, <3>2, <3>3
        <3>6. SumOf[U] = SumOf[W] + Budget[c]
            BY <3>2, <3>3
        <3> QED
            BY <3>4, <3>5, <3>6
    <2> QED
        BY <2>4, <2>5
<1> HIDE DEF good
<1>3. T \in good
    BY <1>1, <1>2, TxsAssumption, SetInduction
<1> QED
    BY <1>3 DEF good

LEMMA SumRemove ==
    ASSUME NEW L \in SUBSET Txs, NEW T \in SUBSET L
    PROVE  SumOf[L \ T] = SumOf[L] - SumOf[T]
<1> DEFINE good == {U \in SUBSET L : SumOf[L \ U] = SumOf[L] - SumOf[U]}
<1>0. IsFiniteSet(L) /\ \A y \in Txs : Budget[y] \in Nat
    BY TxsAssumption, FS_Subset
<1>1. {} \in good
    <2>1. L \ {} = L /\ SumOf[{}] = 0 /\ SumOf[L] \in Nat
        BY SumDef
    <2> QED
        BY <2>1
<1>2. ASSUME NEW U \in SUBSET L, U # {}, \A t \in U : U \ {t} \in good PROVE U \in good
    <2>1. PICK t \in U : TRUE
        BY <1>2
    <2> DEFINE W == U \ {t}
    <2>2. W \in good /\ W \in SUBSET Txs /\ t \in Txs \ W /\ U = W \cup {t}
        BY <1>2
    <2>3. L \ W = (L \ U) \cup {t} /\ L \ U \in SUBSET Txs /\ t \in Txs \ (L \ U)
        OBVIOUS
    <2> HIDE DEF W
    <2>4. SumOf[L \ W] = SumOf[L] - SumOf[W]
        BY <2>2
    <2>5. SumOf[(L \ U) \cup {t}] = SumOf[L \ U] + Budget[t]
        BY <2>3, SumAdd
    <2>6. SumOf[W \cup {t}] = SumOf[W] + Budget[t]
        BY <2>2, SumAdd
    <2>7. SumOf[L \ U] \in Nat /\ SumOf[W] \in Nat /\ SumOf[L] \in Nat /\ Budget[t] \in Nat
        BY <1>0, <2>2, <2>3, SumDef
    <2>8. SumOf[L \ U] = SumOf[L] - SumOf[U]
        <3>1. SumOf[L] - SumOf[W] = SumOf[L \ U] + Budget[t]
            BY <2>3, <2>4, <2>5
        <3>2. SumOf[U] = SumOf[W] + Budget[t]
            BY <2>2, <2>6
        <3> QED
            BY <2>7, <3>1, <3>2
    <2> QED
        BY <2>8
<1> HIDE DEF good
<1>3. T \in good
    BY <1>0, <1>1, <1>2, SetInduction
<1> QED
    BY <1>3 DEF good

-----------------------------------------------------------------------------
(* The list of fees holds the transactions S once each, highest rate first. *)
Listed(l, S) ==
    /\ l \in Seq(Txs)
    /\ \A i \in 1..Len(l) : l[i] \in S
    /\ \A t \in S : \E i \in 1..Len(l) : l[i] = t
    /\ \A i, j \in 1..Len(l) : l[i] = l[j] => i = j
    /\ \A i, j \in 1..Len(l) : i < j => FeeRate[l[i]] >= FeeRate[l[j]]

(* Elements of a list with one inserted, and with one removed.             *)
LEMMA InsertElements ==
    ASSUME NEW S, NEW l \in Seq(S), NEW k \in 1..(Len(l) + 1), NEW t \in S
    PROVE  /\ InsertAt(l, k, t) \in Seq(S) /\ Len(InsertAt(l, k, t)) = Len(l) + 1
           /\ \A i \in 1..(Len(l) + 1) :
                InsertAt(l, k, t)[i] = IF i < k THEN l[i] ELSE IF i = k THEN t ELSE l[i - 1]
<1> DEFINE n == Len(l)
           a == SubSeq(l, 1, k - 1)
           b == SubSeq(l, k, n)
           ab == a \o <<t>>
<1>1. n \in Nat /\ k \in Nat /\ k >= 1 /\ k <= n + 1 /\ \A i \in 1..n : l[i] \in S
    BY LenProperties, ElementOfSeq
<1>2. a \in Seq(S) /\ Len(a) = k - 1 /\ \A i \in 1..(k - 1) : a[i] = l[i]
    <2>1. 1 \in Int /\ k - 1 \in Int /\ \A i \in 1..(k - 1) : l[i] \in S
        BY <1>1
    <2>2. /\ a \in Seq(S) /\ Len(a) = IF 1 <= k - 1 THEN k - 1 - 1 + 1 ELSE 0
          /\ \A i \in 1..(k - 1 - 1 + 1) : a[i] = l[1 + i - 1]
        BY <2>1, SubSeqProperties
    <2> QED
        BY <1>1, <2>2
<1>3. b \in Seq(S) /\ Len(b) = n - k + 1 /\ \A i \in 1..(n - k + 1) : b[i] = l[k + i - 1]
    <2>1. k \in Int /\ n \in Int /\ \A i \in k..n : l[i] \in S
        BY <1>1
    <2>2. /\ b \in Seq(S) /\ Len(b) = IF k <= n THEN n - k + 1 ELSE 0
          /\ \A i \in 1..(n - k + 1) : b[i] = l[k + i - 1]
        BY <2>1, SubSeqProperties
    <2> QED
        BY <1>1, <2>2
<1> HIDE DEF a, b
<1>4. ab \in Seq(S) /\ Len(ab) = k /\ ab[k] = t /\ \A i \in 1..(k - 1) : ab[i] = l[i]
    <2>1. <<t>> \in Seq(S) /\ Len(<<t>>) = 1 /\ <<t>>[1] = t
        OBVIOUS
    <2>2. /\ ab \in Seq(S) /\ Len(ab) = Len(a) + 1
          /\ \A i \in 1..(Len(a) + 1) : ab[i] = IF i <= Len(a) THEN a[i] ELSE <<t>>[i - Len(a)]
        BY <1>2, <2>1, ConcatProperties
    <2> HIDE DEF ab
    <2>3. ab[k] = <<t>>[1]
        BY <1>1, <1>2, <2>2
    <2>4. \A i \in 1..(k - 1) : ab[i] = l[i]
        BY <1>1, <1>2, <2>2
    <2> QED
        BY <1>1, <1>2, <2>1, <2>2, <2>3, <2>4
<1> HIDE DEF ab
<1>5. /\ ab \o b \in Seq(S) /\ Len(ab \o b) = Len(ab) + Len(b)
      /\ \A i \in 1..(Len(ab) + Len(b)) : (ab \o b)[i] = IF i <= Len(ab) THEN ab[i] ELSE b[i - Len(ab)]
    BY <1>3, <1>4, ConcatProperties
<1>6. InsertAt(l, k, t) = ab \o b
    BY DEF InsertAt, ab, a, b
<1> DEFINE r == ab \o b
<1>7. r \in Seq(S) /\ Len(r) = n + 1
    BY <1>1, <1>3, <1>4, <1>5
<1>8. \A i \in 1..(n + 1) : r[i] = IF i <= k THEN ab[i] ELSE b[i - k]
    BY <1>1, <1>3, <1>4, <1>5
<1> HIDE DEF r
<1>9. ASSUME NEW i \in 1..(n + 1)
      PROVE  r[i] = IF i < k THEN l[i] ELSE IF i = k THEN t ELSE l[i - 1]
    <2>1. CASE i < k
        BY <1>1, <1>4, <1>8, <2>1
    <2>2. CASE i = k
        BY <1>1, <1>4, <1>8, <2>2
    <2>3. CASE i > k
        <3>1. i - k \in 1..(n - k + 1) /\ k + (i - k) - 1 = i - 1
            BY <1>1, <2>3
        <3>2. b[i - k] = l[i - 1]
            BY <1>3, <3>1
        <3> QED
            BY <1>1, <1>8, <2>3, <3>2
    <2> QED
        BY <1>1, <2>1, <2>2, <2>3
<1> QED
    BY <1>6, <1>7, <1>9 DEF r

LEMMA RemoveElements ==
    ASSUME NEW S, NEW l \in Seq(S), NEW k \in 1..Len(l)
    PROVE  /\ RemoveAt(l, k) \in Seq(S) /\ Len(RemoveAt(l, k)) = Len(l) - 1
           /\ \A i \in 1..(Len(l) - 1) : RemoveAt(l, k)[i] = IF i < k THEN l[i] ELSE l[i + 1]
<1> DEFINE n == Len(l)
           a == SubSeq(l, 1, k - 1)
           b == SubSeq(l, k + 1, n)
<1>1. n \in Nat /\ k \in Nat /\ k >= 1 /\ k <= n /\ \A i \in 1..n : l[i] \in S
    BY LenProperties, ElementOfSeq
<1>2. a \in Seq(S) /\ Len(a) = k - 1 /\ \A i \in 1..(k - 1) : a[i] = l[i]
    <2>1. 1 \in Int /\ k - 1 \in Int /\ \A i \in 1..(k - 1) : l[i] \in S
        BY <1>1
    <2>2. /\ a \in Seq(S) /\ Len(a) = IF 1 <= k - 1 THEN k - 1 - 1 + 1 ELSE 0
          /\ \A i \in 1..(k - 1 - 1 + 1) : a[i] = l[1 + i - 1]
        BY <2>1, SubSeqProperties
    <2> QED
        BY <1>1, <2>2
<1>3. b \in Seq(S) /\ Len(b) = n - k /\ \A i \in 1..(n - k) : b[i] = l[k + i]
    <2>1. k + 1 \in Int /\ n \in Int /\ \A i \in (k + 1)..n : l[i] \in S
        BY <1>1
    <2>2. /\ b \in Seq(S) /\ Len(b) = IF k + 1 <= n THEN n - (k + 1) + 1 ELSE 0
          /\ \A i \in 1..(n - (k + 1) + 1) : b[i] = l[(k + 1) + i - 1]
        BY <2>1, SubSeqProperties
    <2> QED
        BY <1>1, <2>2
<1> HIDE DEF a, b
<1>4. /\ a \o b \in Seq(S) /\ Len(a \o b) = Len(a) + Len(b)
      /\ \A i \in 1..(Len(a) + Len(b)) : (a \o b)[i] = IF i <= Len(a) THEN a[i] ELSE b[i - Len(a)]
    BY <1>2, <1>3, ConcatProperties
<1>5. RemoveAt(l, k) = a \o b
    BY DEF RemoveAt, a, b
<1> DEFINE r == a \o b
<1>6. /\ r \in Seq(S) /\ Len(r) = n - 1
      /\ \A i \in 1..(n - 1) : r[i] = IF i <= k - 1 THEN a[i] ELSE b[i - (k - 1)]
    BY <1>1, <1>2, <1>3, <1>4
<1> HIDE DEF r
<1>7. ASSUME NEW i \in 1..(n - 1) PROVE r[i] = IF i < k THEN l[i] ELSE l[i + 1]
    <2>1. CASE i < k
        BY <1>1, <1>2, <1>6, <2>1
    <2>2. CASE ~(i < k)
        <3>1. i - (k - 1) \in 1..(n - k) /\ k + (i - (k - 1)) = i + 1
            BY <1>1, <2>2
        <3>2. b[i - (k - 1)] = l[i + 1]
            BY <1>3, <3>1
        <3> QED
            BY <1>1, <1>6, <2>2, <3>2
    <2> QED
        BY <2>1, <2>2
<1> QED
    BY <1>5, <1>6, <1>7 DEF r

LEMMA MinOf ==
    ASSUME NEW N \in SUBSET Nat, N # {}
    PROVE  Min(N) \in N /\ \A k \in N : Min(N) <= k
BY LeastOf DEF Min

(* sort.Search finds where the smaller rates begin.                        *)
LEMMA SearchFinds ==
    ASSUME NEW l \in Seq(Txs), NEW rate \in Nat
    PROVE  /\ Search(l, rate) \in 1..(Len(l) + 1)
           /\ \A i \in 1..Len(l) : i < Search(l, rate) => FeeRate[l[i]] >= rate
           /\ Search(l, rate) <= Len(l) => FeeRate[l[Search(l, rate)]] < rate
<1> DEFINE N == {i \in DOMAIN l : FeeRate[l[i]] < rate} \cup {Len(l) + 1}
<1>1. Len(l) \in Nat /\ DOMAIN l = 1..Len(l) /\ \A i \in 1..Len(l) : FeeRate[l[i]] \in Nat
    BY LenProperties, ElementOfSeq, TxsAssumption
<1>2. N \in SUBSET Nat /\ N # {}
    BY <1>1
<1>3. PICK k : k = Min(N)
    OBVIOUS
<1>4. k \in N /\ \A i \in N : k <= i
    <2> HIDE DEF N
    <2> QED
        BY <1>2, <1>3, MinOf
<1>5. Search(l, rate) = k
    BY <1>3 DEF Search
<1>6. k \in 1..(Len(l) + 1) /\ (k <= Len(l) => FeeRate[l[k]] < rate)
    BY <1>1, <1>4
<1>7. ASSUME NEW i \in 1..Len(l), i < k PROVE FeeRate[l[i]] >= rate
    <2>1. i \notin N
        BY <1>1, <1>4, <1>6, <1>7
    <2> QED
        BY <1>1, <2>1
<1> QED
    BY <1>5, <1>6, <1>7

LEMMA InsertListed ==
    ASSUME NEW S, NEW l, Listed(l, S), NEW t \in Txs \ S
    PROVE  Listed(CompareAndInsert(l, t), S \cup {t})
<1>1. PICK k : k = Search(l, FeeRate[t])
    OBVIOUS
<1>2. PICK r : r = CompareAndInsert(l, t)
    OBVIOUS
<1>3. /\ l \in Seq(Txs) /\ Len(l) \in Nat /\ FeeRate[t] \in Nat
      /\ \A i \in 1..Len(l) : l[i] \in S /\ FeeRate[l[i]] \in Nat
    BY LenProperties, ElementOfSeq, TxsAssumption DEF Listed
<1>4. /\ k \in 1..(Len(l) + 1) /\ \A i \in 1..Len(l) : i < k => FeeRate[l[i]] >= FeeRate[t]
      /\ k <= Len(l) => FeeRate[l[k]] < FeeRate[t]
    BY <1>1, <1>3, SearchFinds
<1>5. /\ r \in Seq(Txs) /\ Len(r) = Len(l) + 1
      /\ \A i \in 1..Len(r) : r[i] = IF i < k THEN l[i] ELSE IF i = k THEN t ELSE l[i - 1]
    <2>1. r = InsertAt(l, k, t)
        BY <1>1, <1>2 DEF CompareAndInsert
    <2>2. PICK x \in Txs : x = t
        OBVIOUS
    <2>3. /\ InsertAt(l, k, x) \in Seq(Txs) /\ Len(InsertAt(l, k, x)) = Len(l) + 1
          /\ \A i \in 1..(Len(l) + 1) :
               InsertAt(l, k, x)[i] = IF i < k THEN l[i] ELSE IF i = k THEN x ELSE l[i - 1]
        BY <1>3, <1>4, InsertElements
    <2> QED
        BY <2>1, <2>2, <2>3
<1> DEFINE old(i) == IF i < k THEN i ELSE i - 1
<1>6. \A i \in 1..Len(r) : i # k => old(i) \in 1..Len(l) /\ r[i] = l[old(i)]
    BY <1>3, <1>4, <1>5
<1>7. \A i, j \in 1..Len(r) : i # k /\ j # k /\ i < j => old(i) < old(j)
    BY <1>3, <1>4, <1>5
<1>8. r[k] = t /\ k \in 1..Len(r)
    BY <1>3, <1>4, <1>5
<1>9. \A i \in 1..Len(l) : \E j \in 1..Len(r) : j # k /\ r[j] = l[i]
    <2> SUFFICES ASSUME NEW i \in 1..Len(l) PROVE \E j \in 1..Len(r) : j # k /\ r[j] = l[i]
        OBVIOUS
    <2>1. CASE i < k
        <3>1. i \in 1..Len(r) /\ i # k /\ r[i] = l[i]
            BY <1>3, <1>4, <1>5, <2>1
        <3> QED
            BY <3>1
    <2>2. CASE ~(i < k)
        <3>1. i + 1 \in 1..Len(r) /\ i + 1 # k /\ ~(i + 1 < k) /\ (i + 1) - 1 = i
            BY <1>3, <1>4, <1>5, <2>2
        <3>2. r[i + 1] = l[i]
            BY <1>5, <3>1
        <3> QED
            BY <3>1, <3>2
    <2> QED
        BY <2>1, <2>2
<1> HIDE DEF old
<1>10. \A i \in 1..Len(r) : r[i] \in S \cup {t}
    BY <1>3, <1>6, <1>8
<1>11. \A u \in S \cup {t} : \E i \in 1..Len(r) : r[i] = u
    <2> SUFFICES ASSUME NEW u \in S PROVE \E i \in 1..Len(r) : r[i] = u
        BY <1>8
    <2>1. PICK i \in 1..Len(l) : l[i] = u
        BY DEF Listed
    <2> QED
        BY <1>9, <2>1
<1>12. \A i, j \in 1..Len(r) : r[i] = r[j] => i = j
    <2> SUFFICES ASSUME NEW i \in 1..Len(r), NEW j \in 1..Len(r), r[i] = r[j], i < j PROVE FALSE
        BY <1>3, <1>5
    <2>1. CASE i = k \/ j = k
        BY <1>3, <1>6, <1>8, <2>1
    <2>2. CASE i # k /\ j # k
        <3>1. old(i) \in 1..Len(l) /\ old(j) \in 1..Len(l) /\ l[old(i)] = l[old(j)] /\ old(i) < old(j)
            BY <1>6, <1>7, <2>2
        <3>2. old(i) = old(j)
            BY <3>1 DEF Listed
        <3> QED
            BY <3>1, <3>2
    <2> QED
        BY <2>1, <2>2
<1>13. ASSUME NEW i \in 1..Len(r), NEW j \in 1..Len(r), i < j
       PROVE  FeeRate[r[i]] >= FeeRate[r[j]]
    <2>1. CASE i # k /\ j # k
        <3>1. old(i) \in 1..Len(l) /\ old(j) \in 1..Len(l) /\ old(i) < old(j)
            BY <1>6, <1>7, <1>13, <2>1
        <3>2. FeeRate[l[old(i)]] >= FeeRate[l[old(j)]]
            BY <3>1 DEF Listed
        <3> QED
            BY <1>6, <2>1, <3>2
    <2>2. CASE j = k
        <3>1. i < k /\ i \in 1..Len(l)
            BY <1>3, <1>4, <1>13, <2>2
        <3>2. r[i] = l[i]
            BY <1>5, <3>1
        <3> QED
            BY <1>4, <1>8, <2>2, <3>1, <3>2
    <2>3. CASE i = k
        <3>1. j - 1 \in 1..Len(l) /\ k \in 1..Len(l) /\ k <= j - 1 /\ ~(j < k) /\ j # k
            BY <1>3, <1>4, <1>5, <1>13, <2>3
        <3>2. r[j] = l[j - 1]
            BY <1>5, <3>1
        <3>3. FeeRate[l[k]] >= FeeRate[l[j - 1]]
            <4>1. CASE k = j - 1
                BY <1>3, <3>1, <4>1
            <4>2. CASE k < j - 1
                BY <3>1, <4>2 DEF Listed
            <4> QED
                BY <3>1, <4>1, <4>2
        <3>4. FeeRate[l[k]] < FeeRate[t]
            BY <1>4, <3>1
        <3>5. FeeRate[l[k]] \in Nat /\ FeeRate[l[j - 1]] \in Nat
            BY <1>3, <3>1
        <3>6. FeeRate[t] >= FeeRate[l[j - 1]]
            BY <1>3, <3>3, <3>4, <3>5
        <3> QED
            BY <1>8, <2>3, <3>2, <3>6
    <2> QED
        BY <2>1, <2>2, <2>3
<1>14. Listed(r, S \cup {t})
    BY <1>5, <1>10, <1>11, <1>12, <1>13 DEF Listed
<1> QED
    BY <1>2, <1>14

(* RemoveTx finds what AddTx inserted.                                     *)
LEMMA RemoveListed ==
    ASSUME NEW S, NEW l, Listed(l, S), NEW t \in S
    PROVE  Listed(RemoveFee(l, t), S \ {t})
<1>1. PICK k \in 1..Len(l) : l[k] = t
    BY DEF Listed
<1>2. /\ l \in Seq(Txs) /\ Len(l) \in Nat /\ DOMAIN l = 1..Len(l)
      /\ \A i \in 1..Len(l) : l[i] \in S /\ FeeRate[l[i]] \in Nat
    BY LenProperties, ElementOfSeq, TxsAssumption DEF Listed
<1>3. PICK s : s = Search(l, FeeRate[t])
    OBVIOUS
<1>4. s \in 1..(Len(l) + 1) /\ (s <= Len(l) => FeeRate[l[s]] < FeeRate[t])
    <2>1. FeeRate[t] \in Nat
        BY <1>1, <1>2
    <2> QED
        BY <1>2, <1>3, <2>1, SearchFinds
<1>5. k < s
    <2> SUFFICES ASSUME ~(k < s) PROVE FALSE
        OBVIOUS
    <2>1. s \in 1..Len(l) /\ s <= k
        BY <1>2, <1>4
    <2>2. FeeRate[l[s]] < FeeRate[l[k]]
        BY <1>1, <1>4, <2>1
    <2>3. CASE s = k
        BY <1>2, <2>2, <2>3
    <2>4. CASE s < k
        <3>1. FeeRate[l[s]] >= FeeRate[l[k]]
            BY <2>1, <2>4 DEF Listed
        <3>2. FeeRate[l[s]] \in Nat /\ FeeRate[l[k]] \in Nat
            BY <1>2, <2>1
        <3> QED
            BY <2>2, <3>1, <3>2
    <2> QED
        BY <2>1, <2>3, <2>4
<1>6. k <= Min({s, Len(l)})
    <2>1. {s, Len(l)} \in SUBSET Nat /\ {s, Len(l)} # {}
        BY <1>2, <1>4
    <2>2. Min({s, Len(l)}) \in {s, Len(l)}
        BY <2>1, MinOf
    <2> QED
        BY <1>2, <1>4, <1>5, <2>2
<1>7. Located(l, t) = {k}
    <2>1. Located(l, t) = {i \in DOMAIN l : i <= Min({s, Len(l)}) /\ l[i] = t}
        BY <1>3 DEF Located
    <2>2. \A i \in 1..Len(l) : l[i] = t => i = k
        BY <1>1 DEF Listed
    <2> QED
        BY <1>1, <1>2, <1>6, <2>1, <2>2
<1>8. Max({k}) = k
    BY <1>2 DEF Max
<1>9. PICK r : r = RemoveFee(l, t)
    OBVIOUS
<1>10. /\ r \in Seq(Txs) /\ Len(r) = Len(l) - 1
       /\ \A i \in 1..Len(r) : r[i] = IF i < k THEN l[i] ELSE l[i + 1]
    <2>1. r = RemoveAt(l, k)
        BY <1>7, <1>8, <1>9 DEF RemoveFee
    <2> QED
        BY <1>2, <2>1, RemoveElements
<1> DEFINE old(i) == IF i < k THEN i ELSE i + 1
<1>11. \A i \in 1..Len(r) : old(i) \in 1..Len(l) /\ old(i) # k /\ r[i] = l[old(i)]
    BY <1>2, <1>10
<1>12. \A i, j \in 1..Len(r) : i < j => old(i) < old(j)
    BY <1>2, <1>10
<1> HIDE DEF old
<1>13. \A i \in 1..Len(r) : r[i] \in S \ {t}
    <2> SUFFICES ASSUME NEW i \in 1..Len(r) PROVE r[i] \in S \ {t}
        OBVIOUS
    <2>1. l[old(i)] # l[k]
        BY <1>1, <1>11 DEF Listed
    <2> QED
        BY <1>1, <1>2, <1>11, <2>1
<1>14. \A u \in S \ {t} : \E i \in 1..Len(r) : r[i] = u
    <2> SUFFICES ASSUME NEW u \in S \ {t} PROVE \E i \in 1..Len(r) : r[i] = u
        OBVIOUS
    <2>1. PICK j \in 1..Len(l) : l[j] = u
        BY DEF Listed
    <2>2. j # k
        BY <1>1, <2>1
    <2>3. CASE j < k
        <3>1. j \in 1..Len(r)
            BY <1>2, <1>10, <2>3
        <3> QED
            BY <1>10, <2>1, <2>3, <3>1
    <2>4. CASE j > k
        <3>1. j - 1 \in 1..Len(r) /\ ~(j - 1 < k) /\ (j - 1) + 1 = j
            BY <1>2, <1>10, <2>4
        <3>2. r[j - 1] = l[j]
            BY <1>10, <3>1
        <3> QED
            BY <2>1, <3>1, <3>2
    <2> QED
        BY <1>2, <2>2, <2>3, <2>4
<1>15. \A i, j \in 1..Len(r) : r[i] = r[j] => i = j
    <2> SUFFICES ASSUME NEW i \in 1..Len(r), NEW j \in 1..Len(r), r[i] = r[j], i < j PROVE FALSE
        BY <1>2, <1>10
    <2>1. old(i) \in 1..Len(l) /\ old(j) \in 1..Len(l) /\ l[old(i)] = l[old(j)] /\ old(i) < old(j)
        BY <1>11, <1>12
    <2>2. old(i) = old(j)
        BY <2>1 DEF Listed
    <2> QED
        BY <2>1, <2>2
<1>16. ASSUME NEW i \in 1..Len(r), NEW j \in 1..Len(r), i < j
       PROVE  FeeRate[r[i]] >= FeeRate[r[j]]
    <2>1. old(i) \in 1..Len(l) /\ old(j) \in 1..Len(l) /\ old(i) < old(j)
        BY <1>11, <1>12, <1>16
    <2>2. FeeRate[l[old(i)]] >= FeeRate[l[old(j)]]
        BY <2>1 DEF Listed
    <2> QED
        BY <1>11, <2>2
<1>17. Listed(r, S \ {t})
    BY <1>10, <1>13, <1>14, <1>15, <1>16 DEF Listed
<1> QED
    BY <1>9, <1>17

LEMMA MaxOf ==
    ASSUME NEW n \in Nat, NEW N \in SUBSET (1..n), N # {}
    PROVE  Max(N) \in N
<1> DEFINE D == {n - i : i \in N}
<1>1. D \in SUBSET Nat /\ D # {}
    <2>1. \A i \in N : n - i \in Nat
        OBVIOUS
    <2>2. PICK i \in N : TRUE
        OBVIOUS
    <2>3. n - i \in D
        OBVIOUS
    <2> QED
        BY <2>1, <2>3
<1>2. PICK d \in D : \A e \in D : d <= e
    <2> HIDE DEF D
    <2> QED
        BY <1>1, LeastOf
<1>3. PICK k \in N : d = n - k
    BY <1>2
<1>4. \A i \in N : k >= i
    <2> SUFFICES ASSUME NEW i \in N PROVE k >= i
        OBVIOUS
    <2>1. n - k <= n - i /\ k \in Nat /\ i \in Nat
        BY <1>2, <1>3
    <2> QED
        BY <2>1
<1> QED
    BY <1>4 DEF Max

LEMMA RemoveFeeType ==
    ASSUME NEW l \in Seq(Txs), NEW t
    PROVE  RemoveFee(l, t) \in Seq(Txs)
<1>1. CASE Located(l, t) = {}
    BY <1>1 DEF RemoveFee
<1>2. CASE Located(l, t) # {}
    <2>1. Len(l) \in Nat /\ DOMAIN l = 1..Len(l)
        BY LenProperties
    <2>2. Located(l, t) \in SUBSET (1..Len(l))
        BY <2>1 DEF Located
    <2>3. PICK k \in 1..Len(l) : k = Max(Located(l, t))
        BY <1>2, <2>1, <2>2, MaxOf
    <2>4. RemoveFee(l, t) = RemoveAt(l, k)
        BY <1>2, <2>3 DEF RemoveFee
    <2> QED
        BY <2>3, <2>4, RemoveElements
<1> QED
    BY <1>1, <1>2

(* Removing several transactions, in whichever order.                      *)
LEMMA RemoveFeesListed ==
    ASSUME NEW S \in SUBSET Txs, NEW l, Listed(l, S), NEW T \in SUBSET S
    PROVE  Listed(RemoveFees(l, T), S \ T)
<1> DEFINE step == [U \in (SUBSET T) \ {{}} |-> [x \in Seq(Txs) |-> RemoveFee(x, AnyOf(U))]]
<1>1. IsFiniteSet(T) /\ l \in Seq(Txs)
    BY TxsAssumption, FS_Subset DEF Listed
<1>2. step \in [(SUBSET T) \ {{}} -> [Seq(Txs) -> Seq(Txs)]]
    BY RemoveFeeType
<1>3. \A U \in SUBSET T, x \in Seq(Txs) : U # {} => step[U][x] = RemoveFee(x, AnyOf(U))
    OBVIOUS
<1> HIDE DEF step
<1>4. PICK f \in [SUBSET T -> Seq(Txs)] : Solves(f, SUBSET T, l, step)
    BY <1>1, <1>2, SetRecursion
<1>5. \A U \in SUBSET T : f[U] = IF U = {} THEN l ELSE RemoveFee(f[U \ {AnyOf(U)}], AnyOf(U))
    <2> SUFFICES ASSUME NEW U \in SUBSET T
                 PROVE  f[U] = IF U = {} THEN l ELSE RemoveFee(f[U \ {AnyOf(U)}], AnyOf(U))
        OBVIOUS
    <2>1. f[U \ {AnyOf(U)}] \in Seq(Txs)
        BY <1>4
    <2> QED
        BY <1>3, <1>4, <2>1 DEF Solves
<1>6. f = [U \in SUBSET T |-> IF U = {} THEN l ELSE RemoveFee(f[U \ {AnyOf(U)}], AnyOf(U))]
    BY <1>5
<1> DEFINE left == CHOOSE g : g = [U \in SUBSET T |-> IF U = {} THEN l ELSE RemoveFee(g[U \ {AnyOf(U)}], AnyOf(U))]
<1>7. left = [U \in SUBSET T |-> IF U = {} THEN l ELSE RemoveFee(left[U \ {AnyOf(U)}], AnyOf(U))]
    BY <1>6
<1>8. RemoveFees(l, T) = left[T]
    BY DEF RemoveFees
<1> HIDE DEF left
<1>9. \A U \in SUBSET T : left[U] = IF U = {} THEN l ELSE RemoveFee(left[U \ {AnyOf(U)}], AnyOf(U))
    BY <1>7
<1> DEFINE good == {U \in SUBSET T : Listed(left[U], S \ U)}
<1>10. {} \in good
    <2>1. left[{}] = l /\ S \ {} = S
        BY <1>9
    <2> QED
        BY <2>1
<1>11. ASSUME NEW U \in SUBSET T, U # {}, \A u \in U : U \ {u} \in good PROVE U \in good
    <2>1. PICK t \in U : t = AnyOf(U)
        BY <1>11, AnyOfIn
    <2>2. left[U] = RemoveFee(left[U \ {t}], t)
        BY <1>9, <1>11, <2>1
    <2>3. Listed(left[U \ {t}], S \ (U \ {t})) /\ t \in S \ (U \ {t})
        BY <1>11
    <2>4. (S \ (U \ {t})) \ {t} = S \ U
        BY <2>1
    <2>5. Listed(RemoveFee(left[U \ {t}], t), (S \ (U \ {t})) \ {t})
        BY <2>3, RemoveListed
    <2> QED
        BY <2>2, <2>4, <2>5
<1> HIDE DEF good
<1>12. T \in good
    BY <1>1, <1>10, <1>11, SetInduction
<1> QED
    BY <1>8, <1>12 DEF good

(* A list that holds each transaction once is as long as their set.        *)
LEMMA ListedLength ==
    ASSUME NEW S, NEW l, Listed(l, S)
    PROVE  Range(l) = S /\ Len(l) = Cardinality(S)
<1>1. Len(l) \in Nat /\ DOMAIN l = 1..Len(l) /\ l \in [1..Len(l) -> Txs]
    BY LenProperties DEF Listed
<1>2. Range(l) = S
    BY <1>1 DEF Range, Listed
<1>3. l \in [1..Len(l) -> S]
    BY <1>1 DEF Listed
<1>4. l \in Bijection(1..Len(l), S)
    <2>1. l \in Injection(1..Len(l), S)
        BY <1>1, <1>3 DEF Injection, IsInjective, Listed
    <2>2. l \in Surjection(1..Len(l), S)
        BY <1>3 DEF Surjection, Listed
    <2> QED
        BY <2>1, <2>2 DEF Bijection
<1>5. ExistsBijection(1..Len(l), S)
    BY <1>4 DEF ExistsBijection
<1> QED
    BY <1>1, <1>2, <1>5, FS_CountingElements

-----------------------------------------------------------------------------
(* The books of the pool: the amount its proposals use, and, as long as    *)
(* the file of an earlier run has not been loaded (n restarts), its list   *)
(* of fees.                                                                *)
Booked(m, n) ==
    /\ m.txnList \subseteq Txs
    /\ m.used = SumOf[m.txnList]
    /\ n = 0 => Listed(m.txFees, m.txnList)

LEMMA RemoveBooked ==
    ASSUME NEW m, NEW n, Booked(m, n), NEW S
    PROVE  Booked(DoRemove(m, S), n) /\ DoRemove(m, S).txnList = m.txnList \ S
<1> DEFINE r == DoRemove(m, S)
           T == S \cap m.txnList
<1>1. /\ r.txnList = m.txnList \ T /\ r.used = m.used - SumOf[T]
      /\ r.txFees = RemoveFees(m.txFees, T) /\ m.txnList \ T = m.txnList \ S
    BY DEF DoRemove
<1>2. m.txnList \in SUBSET Txs /\ T \in SUBSET m.txnList
    BY DEF Booked
<1> HIDE DEF r, T
<1>3. r.used = SumOf[r.txnList]
    BY <1>1, <1>2, SumRemove DEF Booked
<1>4. n = 0 => Listed(r.txFees, r.txnList)
    <2> SUFFICES ASSUME n = 0 PROVE Listed(r.txFees, r.txnList)
        OBVIOUS
    <2>1. Listed(m.txFees, m.txnList)
        BY DEF Booked
    <2>2. Listed(RemoveFees(m.txFees, T), m.txnList \ T)
        BY <1>2, <2>1, RemoveFeesListed
    <2> QED
        BY <1>1, <2>2
<1>5. r.txnList \subseteq Txs
    BY <1>1, <1>2
<1> QED
    BY <1>1, <1>3, <1>4, <1>5 DEF Booked, r

LEMMA AddBooked ==
    ASSUME NEW m, NEW n, Booked(m, n), NEW t \in Txs \ m.txnList
    PROVE  Booked(DoAdd(m, t), n)
<1> DEFINE r == DoAdd(m, t)
<1>1. /\ r.txnList = m.txnList \cup {t} /\ r.used = m.used + Budget[t]
      /\ r.txFees = CompareAndInsert(m.txFees, t)
    BY DEF DoAdd
<1> HIDE DEF r
<1>2. m.txnList \in SUBSET Txs /\ m.used = SumOf[m.txnList]
    BY DEF Booked
<1>3. r.used = SumOf[r.txnList]
    BY <1>1, <1>2, SumAdd
<1>4. n = 0 => Listed(r.txFees, r.txnList)
    BY <1>1, InsertListed DEF Booked
<1> QED
    BY <1>1, <1>2, <1>3, <1>4 DEF Booked, r

LEMMA AppendToPoolBooked ==
    ASSUME NEW n, Booked(mp, n), NEW t \in Txs
    PROVE  Booked(AppendToTxPool(t), n)
<1> DEFINE m == DoRemove(mp, Replaced(t))
<1>1. Booked(m, n) /\ m.txnList \subseteq mp.txnList
    BY RemoveBooked
<1> HIDE DEF m
<1>2. CASE t \in mp.txnList \/ ~ContextOK(t)
    BY <1>2 DEF AppendToTxPool
<1>3. CASE ~(t \in mp.txnList \/ ~ContextOK(t)) /\ ~Accepts(t)
    BY <1>1, <1>3 DEF AppendToTxPool, m
<1>4. CASE ~(t \in mp.txnList \/ ~ContextOK(t)) /\ Accepts(t)
    <2>1. AppendToTxPool(t) = DoAdd(m, t)
        BY <1>4 DEF AppendToTxPool, m
    <2>2. t \in Txs \ m.txnList
        BY <1>1, <1>4
    <2> QED
        BY <1>1, <2>1, <2>2, AddBooked
<1> QED
    BY <1>2, <1>3, <1>4

LEMMA CleanBooked ==
    ASSUME NEW m, NEW n, Booked(m, n), NEW b, NEW stale
    PROVE  Booked(CleanCanceled(DoRemove(CleanTransactions(m, b), stale), b), n)
<1>1. PICK S : LET x == DoRemove(m, S)
               IN  /\ CleanTransactions(m, b).txnList = x.txnList
                   /\ CleanTransactions(m, b).used = x.used
                   /\ CleanTransactions(m, b).txFees = x.txFees
    <2> DEFINE byInput == {t \in b : ~ByHash(t)}
               doubled == Spending(m, UNION {Inputs[t] : t \in byInput})
               S == {t \in b : ByHash(t)} \cup doubled
    <2>1. CleanTransactions(m, b) = [DoRemove(m, S) EXCEPT !.slots = RemoveKeys(@, byInput)]
        BY DEF CleanTransactions
    <2> HIDE DEF S, byInput
    <2> QED
        BY <2>1 DEF DoRemove
<1>2. PICK c : c = CleanTransactions(m, b)
    OBVIOUS
<1>3. Booked(c, n)
    <2>1. Booked(DoRemove(m, S), n)
        BY RemoveBooked
    <2> QED
        BY <1>1, <1>2, <2>1 DEF Booked
<1>4. PICK d : d = DoRemove(c, stale)
    OBVIOUS
<1>5. Booked(d, n)
    BY <1>3, <1>4, RemoveBooked
<1>6. \E R : CleanCanceled(d, b) = DoRemove(d, R)
    BY DEF CleanCanceled
<1> QED
    BY <1>2, <1>4, <1>5, <1>6, RemoveBooked

BookInv == Booked(mp, restarts) /\ restarts \in Nat

LEMMA StepBooked == BookInv /\ [Next]_vars => BookInv'
<1> SUFFICES ASSUME BookInv, [Next]_vars PROVE BookInv'
    OBVIOUS
<1>1. ASSUME NEW t \in Txs, Receive(t) \/ Reinsert(t) PROVE BookInv'
    <2>1. mp' = AppendToTxPool(t) /\ restarts' = restarts
        BY <1>1 DEF Receive, Reinsert
    <2> QED
        BY <2>1, AppendToPoolBooked DEF BookInv
<1>2. ASSUME NEW t \in Txs, RemoveRefused(t) PROVE BookInv'
    <2>1. mp' = DoRemove(mp, Spending(mp, Outputs[t])) /\ restarts' = restarts
        BY <1>2 DEF RemoveRefused, RemoveTransaction
    <2> QED
        BY <2>1, RemoveBooked DEF BookInv
<1>3. ASSUME NEW stale \in SUBSET PowTxs(mp), CleanSubmitted(stale) PROVE BookInv'
    <2>1. /\ mp' = CleanCanceled(DoRemove(CleanTransactions(mp, Last(chain)), stale), Last(chain))
          /\ restarts' = restarts
        BY <1>3 DEF CleanSubmitted
    <2> QED
        BY <2>1, CleanBooked DEF BookInv
<1>4. CASE UNCHANGED <<mp, restarts>>
    BY <1>4 DEF BookInv
<1>5. CASE Restart
    <2>1. mp'.txnList = {} /\ mp'.used = 0 /\ restarts' = restarts + 1
        BY <1>5 DEF Restart, EmptyPool
    <2>2. SumOf[{}] = 0
        BY SumDef
    <2>3. restarts' \in Nat /\ restarts' # 0
        BY <2>1 DEF BookInv
    <2> QED
        BY <2>1, <2>2, <2>3 DEF BookInv, Booked
<1>6. ASSUME NEW b \in Blocks, SaveBlock(b) PROVE BookInv'
    BY <1>4, <1>6 DEF SaveBlock
<1>7. ASSUME NEW save \in BOOLEAN, UpdateStates(save) PROVE BookInv'
    BY <1>4, <1>7 DEF UpdateStates
<1>8. CASE Disconnect \/ Reinserted \/ UNCHANGED vars
    BY <1>4, <1>8 DEF Disconnect, Reinserted, vars
<1> QED
    BY <1>1, <1>2, <1>3, <1>5, <1>6, <1>7, <1>8 DEF Next

LEMMA BooksCorrect == Spec => []BookInv
<1>1. Init => BookInv
    <2> SUFFICES ASSUME Init PROVE BookInv
        OBVIOUS
    <2>1. /\ mp.txnList = {} /\ mp.used = 0 /\ mp.txFees = <<>>
          /\ restarts = 0
        BY DEF Init, EmptyPool
    <2>2. SumOf[{}] = 0
        BY SumDef
    <2>3. Listed(<<>>, {})
        BY EmptySeq DEF Listed
    <2> QED
        BY <2>1, <2>2, <2>3 DEF BookInv, Booked
<1> QED
    BY <1>1, StepBooked, PTL DEF Spec

(* doAddTransaction and doRemoveTransaction keep proposalsUsedAmount in    *)
(* step with the pool.                                                     *)
THEOREM PoolUsedAmountExact == Spec => []UsedAmountExact
<1>1. BookInv => UsedAmountExact
    BY DEF BookInv, Booked, UsedAmountExact
<1> QED
    BY <1>1, BooksCorrect, PTL

(* Until a restart RemoveTx finds every transaction that AddTx inserted by *)
(* its rate, among others of the same rate: the list and the pool agree.   *)
THEOREM PoolFeesMatch == Spec => []FeesMatchPool
<1>1. BookInv => FeesMatchPool
    <2> SUFFICES ASSUME BookInv, restarts = 0
                 PROVE  /\ Range(mp.txFees) = mp.txnList /\ Len(mp.txFees) = Cardinality(mp.txnList)
                        /\ \A i, j \in DOMAIN mp.txFees :
                             i < j => FeeRate[mp.txFees[i]] >= FeeRate[mp.txFees[j]]
        BY DEF FeesMatchPool
    <2>1. Listed(mp.txFees, mp.txnList)
        BY DEF BookInv, Booked
    <2>2. DOMAIN mp.txFees = 1..Len(mp.txFees)
        BY <2>1, LenProperties DEF Listed
    <2> QED
        BY <2>1, <2>2, ListedLength DEF Listed
<1> QED
    BY <1>1, BooksCorrect, PTL
=============================================================================
