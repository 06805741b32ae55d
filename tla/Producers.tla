----------------------------- MODULE Producers ------------------------------
(***************************************************************************)
(* dpos/state/state.go: the producers by state, kept in tables beside an   *)
(* undo log (utils/history.go).  A block is processed by appending changes *)
(* that were decided from the tables as they were before the block, and    *)
(* executing them one after the other at Commit; a rollback reverts the    *)
(* changes of a block in that same order.                                  *)
(*                                                                         *)
(* A change is a record with what its closures captured.  The arbiters and *)
(* the sponsor of a block come from the arbiter set and are inputs here.   *)
(***************************************************************************)
EXTENDS Integers, Sequences, FiniteSets, SequencesExt, FiniteSetsExt

CONSTANTS
    Candidates,         \* owner keys that may register
    ActivateDuration,   \* blocks from registration or request to activation
    MaxInactiveRounds,
    LockupBlocks,       \* CRDepositLockupBlocks
    Capacity,           \* maxHistoryCapacity
    ArbiterSets,        \* what getArbiters may return
    TxTypes,            \* kinds of transactions that blocks hold
    MaxTxs,             \* bound: transactions in a block
    MaxRollback,        \* bound: blocks a reorganization takes off
    MaxHeight,          \* bound: height
    MaxForks            \* bound: reorganizations

AllTxTypes == {"register", "cancel", "request", "illegal", "emergency", "return", "vote", "unvote"}

ASSUME CandidatesAssumption == IsFiniteSet(Candidates)
ASSUME TxTypesAssumption == TxTypes \subseteq AllTxTypes
ASSUME ParametersAssumption ==
    /\ ActivateDuration \in Nat \ {0} /\ Capacity \in Nat \ {0}
    /\ MaxInactiveRounds \in Nat /\ LockupBlocks \in Nat /\ MaxTxs \in Nat /\ MaxHeight \in Nat

Never == MaxHeight + ActivateDuration + 1   \* math.MaxUint32

VARIABLES
    st,         \* the tables and the fields of the producers
    log,        \* History.changes
    height,     \* History.height
    highest,    \* greatest height there was
    forks,      \* reorganizations so far
    past,       \* the states that the blocks of the chain give, without any
                \* rollback, for the last heights
    gains,      \* what those blocks added to the tallies
    rough       \* a case happened that the tables are known not to survive

vars == <<st, log, height, highest, forks, past, gains, rough>>

(* A producer: the tables it is in and its fields.                         *)
Unregistered == [tables |-> {}, state |-> "none", reg |-> 0, req |-> Never, cancelled |-> 0,
                 counting |-> 0, penalty |-> 0, votes |-> 0]

(* A checkpoint with some producers, active for long.                      *)
InitState(known) ==
    [of  |-> [p \in Candidates |->
                IF p \in known
                THEN [Unregistered EXCEPT !.tables = {"activity"}, !.state = "active"]
                ELSE Unregistered],
     pre |-> {}]

-----------------------------------------------------------------------------
(* What the closures do to their producer r.                               *)
Move_Keep(r, from, to, state) == [r EXCEPT !.tables = @ \cup to, !.state = state]

Move(r, from, to, state) == [r EXCEPT !.tables = (@ \ from) \cup to, !.state = state]

SetInactive_Drop(r, penalty) ==
    [Move(r, {"activity"}, {}, "inactive") EXCEPT !.req = Never, !.penalty = @ + penalty]

SetInactive(r, penalty) ==
    [Move(r, {"activity"}, {"inactive"}, "inactive") EXCEPT !.req = Never, !.penalty = @ + penalty]

RevertInactive(r, penalty) ==
    [Move(r, {"inactive"}, {"activity"}, "active") EXCEPT
        !.req = Never, !.penalty = Max({0, @ - penalty})]

(* tryUpdateInactivity and tryRevertInactivity.                            *)
UpdateInactivity(r, c) ==
    LET counting == IF r.counting = 0 THEN c.height ELSE r.counting
    IN  IF c.reset THEN [r EXCEPT !.counting = 0]
        ELSE IF c.height - counting >= MaxInactiveRounds
        THEN [SetInactive(r, 1) EXCEPT !.counting = 0]
        ELSE [r EXCEPT !.counting = counting]

RevertInactivity_Forget(r, c) ==
    IF c.reset THEN [r EXCEPT !.counting = c.counting]
    ELSE IF r.state = "inactive" THEN RevertInactive(r, 1)
    ELSE [r EXCEPT !.counting = IF @ = c.height THEN 0 ELSE @]

RevertInactivity(r, c) ==
    LET counting == IF r.counting = c.height THEN 0 ELSE r.counting
    IN  IF c.reset THEN [r EXCEPT !.counting = c.counting]
        ELSE IF r.state = "inactive"
        THEN [RevertInactive(r, 1) EXCEPT !.counting = c.counting]
        ELSE [r EXCEPT !.counting = counting]

StateOf(table) ==
    CASE table = "pending" -> "pending" [] table = "activity" -> "active"
      [] table = "inactive" -> "inactive" [] table = "illegal" -> "illegal"
      [] table = "canceled" -> "canceled"

(* A producer cancelled while pending is kept apart as well.               *)
CanceledIn(c) == {"canceled"} \cup (IF c.from = "pending" THEN {"pendingCanceled"} ELSE {})

Execute(r, c) ==
    CASE c.type = "register" ->
           [Unregistered EXCEPT !.tables = r.tables \cup {"pending"}, !.state = "pending",
                                !.reg = c.height]
      [] c.type = "cancel" ->
           [Move(r, {c.from}, CanceledIn(c), "canceled") EXCEPT !.cancelled = c.height]
      [] c.type = "request" -> [r EXCEPT !.req = c.height]
      [] c.type = "activate" -> Move(r, {c.from}, {"activity"}, "active")
      [] c.type = "illegal" ->
           [Move(r, {c.from}, {"illegal"}, "illegal") EXCEPT
               !.req = IF c.from = "activity" THEN Never ELSE @]
      [] c.type = "emergency" -> SetInactive(r, c.amount)
      [] c.type = "inactivity" -> UpdateInactivity(r, c)
      [] c.type = "return" -> [r EXCEPT !.state = "returned"]
      [] c.type = "vote" -> [r EXCEPT !.votes = @ + c.amount]
      [] c.type = "nothing" -> r

Revert(r, c) ==
    CASE c.type = "register" -> [Unregistered EXCEPT !.tables = r.tables \ {"pending"}]
      [] c.type = "cancel" ->
           [Move(r, CanceledIn(c), {c.from}, StateOf(c.from)) EXCEPT !.cancelled = 0]
      [] c.type = "request" -> [r EXCEPT !.req = Never]
      [] c.type = "activate" -> Move(r, {"activity"}, {c.from}, StateOf(c.from))
      [] c.type = "illegal" ->
           [Move(r, {"illegal"}, {c.from}, StateOf(c.from)) EXCEPT
               !.req = IF c.from = "activity" THEN Never ELSE @]
      [] c.type = "emergency" -> RevertInactive(r, c.amount)
      [] c.type = "inactivity" -> RevertInactivity(r, c)
      [] c.type = "return" -> [r EXCEPT !.state = "canceled"]
      [] c.type = "vote" -> [r EXCEPT !.votes = @ - c.amount]
      [] c.type = "nothing" -> r

-----------------------------------------------------------------------------
(* processTransaction: the change a transaction appends.  An emergency     *)
(* that finds its producer in two tables appends the same change twice,    *)
(* here one of twice the penalty.                                          *)
Change(type, p, h) == [type |-> type, p |-> p, height |-> h,
                       from |-> "none", reset |-> FALSE, counting |-> 0, amount |-> 0]

TxChange_Active(s, tx, h) ==
    CASE tx.type = "vote" -> [Change("vote", tx.p, h) EXCEPT !.amount = 1]
      [] tx.type = "unvote" /\ "activity" \in s.of[tx.p].tables ->
           [Change("vote", tx.p, h) EXCEPT !.amount = -1]
      [] tx.type = "emergency" /\ "activity" \in s.of[tx.p].tables ->
           [Change("emergency", tx.p, h) EXCEPT !.amount = 2]
      [] OTHER -> Change("nothing", tx.p, h)

TxChange(s, tx, h) ==
    LET c == Change(tx.type, tx.p, h)
        nothing == Change("nothing", tx.p, h)
        found(tables) == s.of[tx.p].tables \cap tables
    IN  CASE tx.type = "cancel" ->
               [c EXCEPT !.from = IF s.of[tx.p].state = "pending" THEN "pending" ELSE "activity"]
          [] tx.type = "illegal" ->
               IF found({"activity"}) # {} THEN [c EXCEPT !.from = "activity"]
               ELSE IF found({"canceled"}) # {} THEN [c EXCEPT !.from = "canceled"] ELSE nothing
          [] tx.type = "emergency" ->
               IF found({"activity", "inactive"}) = {} THEN nothing
               ELSE [c EXCEPT !.amount = IF found({"activity"}) # {} /\ found({"inactive"}) # {}
                                         THEN 4 ELSE 2]
          [] tx.type = "vote" -> [c EXCEPT !.amount = 1]
          [] tx.type = "unvote" -> [Change("vote", tx.p, h) EXCEPT !.amount = -1]
          [] OTHER -> c

(* processTransactions then activates what has waited long enough.         *)
Waited(since, h) == h > since /\ h - since + 1 >= ActivateDuration

Activations(s, table, h) ==
    LET due == {p \in Candidates : table \in s.of[p].tables /\
                  IF table = "pending" THEN h - s.of[p].reg + 1 >= ActivateDuration
                  ELSE Waited(s.of[p].req, h)}
    IN  [i \in 1..Cardinality(due) |->
            [Change("activate", SetToSeq(due)[i], h) EXCEPT !.from = table]]

(* countArbitratorsInactivity, for a block with a confirm.                 *)
Inactivity(s, b, h) ==
    LET counted == {p \in s.pre \cup {b.sponsor} : p \in Candidates /\ "activity" \in s.of[p].tables}
        change(p) == [Change("inactivity", p, h) EXCEPT
                         !.reset = (p = b.sponsor \/ p \notin b.arbiters),
                         !.counting = s.of[p].counting]
    IN  [i \in 1..Cardinality(counted) |-> change(SetToSeq(counted)[i])]

Changes(s, b, h) ==
    [i \in 1..Len(b.txs) |-> TxChange(s, b.txs[i], h)]
    \o Activations(s, "pending", h) \o Activations(s, "inactive", h)
    \o Activations(s, "illegal", h) \o Inactivity(s, b, h)

(* The changes of a block are executed, and reverted, first to last.       *)
ExecuteAll(of, cs) ==
    LET run[i \in 0..Len(cs)] ==
            IF i = 0 THEN of ELSE [run[i - 1] EXCEPT ![cs[i].p] = Execute(@, cs[i])]
    IN  run[Len(cs)]

RevertAll(of, cs) ==
    LET run[i \in 0..Len(cs)] ==
            IF i = 0 THEN of ELSE [run[i - 1] EXCEPT ![cs[i].p] = Revert(@, cs[i])]
    IN  run[Len(cs)]

(* ProcessBlock.  The arbiters of the block are kept outside the log.      *)
ProcessBlock(s, b, h) == [of |-> ExecuteAll(s.of, Changes(s, b, h)), pre |-> b.arbiters]

-----------------------------------------------------------------------------
(* The blocks there may be: transactions pass the context checks of        *)
(* blockchain/txvalidator.go against the tables before the block.          *)
ContextOK(tx, h) ==
    LET r == st.of[tx.p]
    IN  CASE tx.type = "register" -> r.tables = {}
          [] tx.type = "cancel"   -> r.tables # {} /\ r.state \notin {"illegal", "canceled"}
          [] tx.type = "request"  -> /\ r.state \in {"inactive", "illegal"}
                                     /\ ~(h > r.req /\ h - r.req <= ActivateDuration)
          [] tx.type = "illegal"  -> r.tables # {}
          [] tx.type = "emergency" -> r.tables \cap {"activity", "inactive", "illegal"} # {}
          [] tx.type = "return"   -> r.state = "canceled" /\ h - r.cancelled >= LockupBlocks
          [] tx.type = "vote"     -> "activity" \in r.tables
          [] tx.type = "unvote"   -> Last(past).of[tx.p].votes > 0

Txs == [type : TxTypes, p : Candidates]

(* Lists without a duplicate: checkDuplicateTx, and the hashes of evidence *)
(* that SpecialTxExists knows.                                             *)
TxLists(h) ==
    {txs \in UNION {[1..n -> Txs] : n \in 0..MaxTxs} :
        /\ \A j \in DOMAIN txs : ContextOK(txs[j], h)
        /\ \A i, j \in DOMAIN txs : i < j => txs[i] # txs[j]}

(* Cases that the tables do not survive: a block changes the state of one  *)
(* producer twice; an inactive producer or one whose deposit is returned   *)
(* is cancelled; an emergency names an inactive one; evidence names a      *)
(* cancelled one.                                                          *)
Moves(c) == c.type \in {"cancel", "activate", "illegal", "emergency"}
            \/ (c.type = "inactivity" /\ ~c.reset)
RoughBlock(b, h) ==
    LET cs == Changes(st, b, h)
    IN  \/ \E i, j \in DOMAIN cs : i < j /\ cs[i].p = cs[j].p /\ Moves(cs[i]) /\ Moves(cs[j])
        \/ \E i \in DOMAIN cs :
              \/ cs[i].type = "cancel" /\ st.of[cs[i].p].state \in {"inactive", "returned"}
              \/ cs[i].type = "emergency" /\ "inactive" \in st.of[cs[i].p].tables
              \/ cs[i].type = "illegal" /\ cs[i].from = "canceled"

(* And for a rollback: the arbiters before the block were others; or one   *)
(* punished in the block had been activated on request, which is forgotten.*)
RoughRollback(cs, before) ==
    \/ before.pre # st.pre
    \/ \E i \in DOMAIN cs : /\ cs[i].type \in {"illegal", "emergency", "inactivity"}
                            /\ before.of[cs[i].p].req # Never

-----------------------------------------------------------------------------
Init ==
    /\ \E known \in SUBSET Candidates : st = InitState(known) /\ past = <<InitState(known)>>
    /\ log = <<>> /\ height = 0 /\ highest = 0 /\ forks = 0 /\ gains = <<>> /\ rough = FALSE

Push(seq, e, n) == Append(IF Len(seq) >= n THEN Tail(seq) ELSE seq, e)

Gain(b) == [p \in Candidates |->
    Cardinality({i \in DOMAIN b.txs : b.txs[i] = [type |-> "vote", p |-> p]})
    - Cardinality({i \in DOMAIN b.txs : b.txs[i] = [type |-> "unvote", p |-> p]})]

Connect(b) ==
    LET h == height + 1
    IN  /\ h <= MaxHeight
        /\ st' = ProcessBlock(st, b, h)
        /\ log' = Push(log, Changes(st, b, h), Capacity)
        /\ height' = h
        /\ highest' = Max({highest, h})
        /\ past' = Push(past, ProcessBlock(Last(past), b, h), Capacity + 1)
        /\ gains' = Push(gains, Gain(b), Capacity)
        /\ rough' = (rough \/ RoughBlock(b, h))
        /\ UNCHANGED forks

(* RollbackTo the height below the last block, as reorganizeChain asks,    *)
(* which takes off fewer blocks than the log holds.                        *)
Disconnect ==
    /\ log # <<>> /\ highest - height < MaxRollback
    /\ highest = height => forks < MaxForks
    /\ forks' = IF highest = height THEN forks + 1 ELSE forks
    /\ st' = [st EXCEPT !.of = RevertAll(@, Last(log))]
    /\ log' = Front(log) /\ past' = Front(past) /\ gains' = Front(gains)
    /\ height' = height - 1
    /\ rough' = (rough \/ RoughRollback(Last(log), past[Len(past) - 1]))
    /\ UNCHANGED highest

Next ==
    \/ \E txs \in TxLists(height + 1), as \in ArbiterSets :
           \E sponsor \in as : Connect([txs |-> txs, arbiters |-> as, sponsor |-> sponsor])
    \/ Disconnect

Spec == Init /\ [][Next]_vars

-----------------------------------------------------------------------------
\* After any rollbacks the tables are those that the blocks of the chain give
\* (RollbackTo "restores the database state to the given height"), unless a
\* rough case happened on the way.
RollbackExact == ~rough => st = Last(past)

\* A producer is in the one table that belongs to its state, rough cases
\* aside: the closures of ten kinds of changes keep the two together.
TablesDisjoint ==
    ~rough => \A p \in Candidates :
        st.of[p].tables = CASE st.of[p].state = "none" -> {}
                         [] st.of[p].state = "pending" -> {"pending"}
                         [] st.of[p].state = "active" -> {"activity"}
                         [] st.of[p].state = "inactive" -> {"inactive"}
                         [] st.of[p].state = "illegal" -> {"illegal"}
                         [] OTHER -> {"canceled"} \cup (st.of[p].tables \cap {"pendingCanceled"})

\* In every case a producer registered in the chain is in some table that
\* getProducer searches: cancelProducer and updateProducer use its result
\* without a check for nil.
NoneLost ==
    \A p \in Candidates :
        Last(past).of[p].state # "none" => st.of[p].tables \ {"pendingCanceled"} # {}

(* The tallies implement VoteLedger.                                       *)
Ledger == INSTANCE VoteLedger WITH
    Gains <- {-1, 0, 1}, Depth <- Capacity, tally <- [p \in Candidates |-> st.of[p].votes]

\* In every case blocks add and rollbacks subtract exactly the votes of the
\* blocks (processVoteOutput, processVoteCancel): two nodes with one chain
\* rank the producers alike.
VotesFollowChain == Ledger!Spec

\* RollbackTo "restores the database state to the given height".
RollbackExactAlways == st = Last(past)

\* A canceled or illegal producer is not among those GetProducers returns.
CanceledStaysOut ==
    \A p \in Candidates :
        \/ st.of[p].tables \cap {"pending", "activity"} = {}
        \/ st.of[p].state \notin {"canceled", "illegal"} /\ st.of[p].tables \cap {"canceled", "illegal"} = {}
=============================================================================
