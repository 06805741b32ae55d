------------------------------ MODULE History ------------------------------
(***************************************************************************)
(* utils/history.go: the undo log that the DPoS state, the arbiters, the   *)
(* CR committee and the proposal manager keep beside their tables, so that *)
(* a block can be taken back without replaying the chain.                  *)
(*                                                                         *)
(* A change is a pair of closures.  Its callers write only two shapes: an  *)
(* assignment whose rollback restores the value captured when the change   *)
(* was appended (dpos/state/state.go:899), and an increment whose rollback *)
(* subtracts (dpos/state/state.go:914).  Both are kept: an assignment is   *)
(* idempotent and an increment is not.                                     *)
(***************************************************************************)
EXTENDS Integers, Sequences, FiniteSetsExt

CONSTANTS
    Fields,         \* state assigned by the closures
    Counters,       \* state incremented by the closures
    Values,         \* values assigned or added
    Capacity,       \* History.capacity
    PerHeight,      \* Commit calls the client makes for one block
    MaxRollback,    \* blocks a reorganization may take back
    TempKeys,       \* state that temporary changes touch
    SpecialTxs,     \* temporary changes pending at once
    Disciplined,    \* TRUE: the client follows the order the code relies on
    MaxChanges,     \* bound: changes in one block
    MaxHeight       \* bound: chain height explored

ASSUME CapacityAssumption == Capacity \in Nat \ {0}
ASSUME HeightAssumption == MaxHeight \in Nat
ASSUME ValueAssumption ==
    /\ Values \subseteq Int
    /\ Fields \cap Counters = {}
    /\ TempKeys \subseteq Fields \cup Counters

VARIABLES
    st,             \* the client's tables, what the closures act on
    height,         \* History.height
    seekHeight,     \* History.seekHeight
    changes,        \* History.changes
    cached,         \* History.cachedChanges, as a sequence of 0 or 1 entries
    temp,           \* History.tempChanges
    panicked,       \* a Go run-time panic (index out of range) happened
    chain,          \* client: height of the last block it committed
    commits,        \* client: Commit calls already made for that block
    highest,        \* client: greatest height the chain has had
    ref,            \* ghost: the state each height should have
    lastOp          \* ghost: the last operation completed

hist == <<height, seekHeight, changes, cached, temp, panicked>>
client == <<chain, commits, highest, ref, lastOp>>
vars == <<st, hist, client>>

Keys == Fields \cup Counters
Change == [key : Keys, val : Values, ori : Int]
Entry == [height : Nat, changes : Seq(Change)]

-----------------------------------------------------------------------------
(* What the closures of one change do.                                     *)
Execute(s, c) == [s EXCEPT ![c.key] = IF c.key \in Counters THEN @ + c.val ELSE c.val]
Revert(s, c)  == [s EXCEPT ![c.key] = IF c.key \in Counters THEN @ - c.val ELSE c.ori]

(* HeightChanges.commit and rollback, both in the order of appending.      *)
ExecuteAll(s, cs) ==
    LET run[i \in 0..Len(cs)] == IF i = 0 THEN s ELSE Execute(run[i - 1], cs[i])
    IN  run[Len(cs)]
RevertAll(s, cs) ==
    LET run[i \in 0..Len(cs)] == IF i = 0 THEN s ELSE Revert(run[i - 1], cs[i])
    IN  run[Len(cs)]

(* The last m entries of the log executed again, and undone from the end.  *)
CommitLast(s, m) ==
    LET run[i \in 0..m] ==
            IF i = 0 THEN s ELSE ExecuteAll(run[i - 1], changes[Len(changes) - m + i].changes)
    IN  run[m]
RollbackLast(s, m) ==
    LET run[i \in 0..m] ==
            IF i = 0 THEN s ELSE RevertAll(run[i - 1], changes[Len(changes) - i + 1].changes)
    IN  run[m]

CachedChanges == IF cached = <<>> THEN <<>> ELSE cached[1].changes

-----------------------------------------------------------------------------
(* The client.  A block's changes are appended and committed under one     *)
(* lock, so no other operation comes between: Idle.                        *)
Idle == cached = <<>> /\ ~panicked
AtBest == seekHeight >= height
NextHeight == IF commits < PerHeight THEN chain ELSE chain + 1

Init ==
    /\ st = [k \in Keys |-> 0]
    /\ height = 0 /\ seekHeight = 0
    /\ changes = <<>> /\ cached = <<>> /\ temp = <<>>
    /\ panicked = FALSE
    /\ chain = 0 /\ commits = PerHeight /\ highest = 0
    /\ ref = [h \in 0..MaxHeight |-> st]
    /\ lastOp = "init"

(* A change as its caller builds it: the value to restore is read before   *)
(* Append is called.                                                       *)
NewChange(k, v) == [key |-> k, val |-> v, ori |-> st[k]]

(* Temporary changes are undone in the order of appending.                 *)
UndoTemp == RevertAll(st, temp)

(* Append with the height of the block: temporary changes are undone, then *)
(* the change goes to the cache, created when there is none.  The panics   *)
(* of the code guard an order of heights that NextHeight always respects.  *)
AppendChange(k, v) ==
    /\ ~panicked /\ NextHeight <= MaxHeight
    /\ Len(CachedChanges) < MaxChanges
    /\ Disciplined => AtBest \/ k \in Counters
    /\ st' = UndoTemp
    /\ temp' = <<>>
    /\ cached' = <<[height |-> NextHeight, changes |-> Append(CachedChanges, NewChange(k, v))]>>
    /\ UNCHANGED <<height, seekHeight, changes, panicked, client>>

(* How many entries Commit executes again when the state was sought back.  *)
(* The distance is an unsigned difference: when seekHeight is the larger   *)
(* one (RollbackTo does not reset it) it wraps to more than any length and *)
(* the loop does not run.                                                  *)
Redo_Nothing == 0
Redo == IF height - seekHeight \in 0..Len(changes) THEN height - seekHeight ELSE 0

(* The log, without its oldest entry when it is full.                      *)
WithinCapacity_OffByOne == IF Len(changes) > Capacity THEN Tail(changes) ELSE changes
WithinCapacity == IF Len(changes) >= Capacity THEN Tail(changes) ELSE changes

(* Commit(h) when no temporary change is pending.                          *)
CommitEntry(h) ==
    LET entry == [height |-> h, changes |-> CachedChanges]
    IN  /\ st' = ExecuteAll(CommitLast(st, Redo), entry.changes)
        /\ changes' = Append(WithinCapacity, entry)
        /\ height' = h /\ seekHeight' = h
        /\ cached' = <<>>
        /\ UNCHANGED <<temp, panicked>>

(* Commit(h): pending temporary changes are executed, once more for those  *)
(* an earlier Commit executed, and nothing else happens.                   *)
Commit(h) ==
    \/ /\ temp # <<>>
       /\ st' = ExecuteAll(st, temp)
       /\ UNCHANGED hist
    \/ temp = <<>> /\ CommitEntry(h)

(* The client commits a block (State.ProcessBlock, or one of the two       *)
(* Commit calls of arbitrators.IncreaseChainHeight).                       *)
CommitBlock ==
    /\ ~panicked /\ NextHeight <= MaxHeight
    /\ Disciplined => temp = <<>>
    /\ Commit(NextHeight)
    /\ ref' = [ref EXCEPT ![NextHeight] =
                   ExecuteAll(ref[chain], CachedChanges)]
    /\ commits' = IF commits < PerHeight THEN commits + 1 ELSE 1
    /\ chain' = NextHeight
    /\ highest' = IF highest > NextHeight THEN highest ELSE NextHeight
    /\ lastOp' = "block"

(* State.ProcessSpecialTxPayload: Append with height 0, then Commit.       *)
SpecialTx(k, v) ==
    /\ Idle /\ chain > 0 /\ Len(temp) < SpecialTxs
    /\ Disciplined => AtBest
    /\ temp' = Append(temp, NewChange(k, v))
    /\ st' = ExecuteAll(st, temp')
    /\ lastOp' = "special"
    /\ UNCHANGED <<height, seekHeight, changes, cached, panicked, chain, commits, highest, ref>>

(* SeekTo(h): the number of entries to undo or redo is the distance from   *)
(* seekHeight, but they are always counted from the end of the log.        *)
Distance_FromBest(h) == height - h
Distance(h) == seekHeight - h

Seek(h) ==
    LET n == Len(changes)
        seek == Distance(h)
    IN  IF seek >= 0
        THEN IF seek > n
             THEN /\ panicked' = TRUE
                  /\ st' = RollbackLast(st, n)
                  /\ UNCHANGED seekHeight
             ELSE /\ st' = RollbackLast(st, seek)
                  /\ seekHeight' = h
                  /\ UNCHANGED panicked
        ELSE /\ st' = CommitLast(st, IF n + seek < 0 THEN 0 ELSE -seek)
             /\ seekHeight' = h
             /\ UNCHANGED panicked

SeekTo(h) ==
    /\ Idle /\ temp = <<>>
    /\ h <= height                                             \* a historical height
    /\ Len(changes) <= height /\ h >= height - Len(changes)    \* else an error
    /\ Disciplined => seekHeight = height \/ (seekHeight < height /\ h = height)
    /\ Seek(h)
    /\ lastOp' = "seek"
    /\ UNCHANGED <<height, changes, cached, temp, chain, commits, highest, ref>>

(* RollbackTo(h): temporary changes are undone, then every entry above h,  *)
(* from the last; the log is cut at the first of them.                     *)
Above_OrAt(h) == {i \in DOMAIN changes : changes[i].height >= h}
Above(h) == {i \in DOMAIN changes : changes[i].height > h}

RollbackTo(h) ==
    LET above == Above(h)
        cut == IF above = {} THEN Len(changes) ELSE Min(above) - 1
    IN  /\ st' = RollbackLast(UndoTemp, Len(changes) - cut)
        /\ changes' = SubSeq(changes, 1, cut)
        /\ height' = h
        /\ temp' = <<>>
        /\ UNCHANGED <<seekHeight, cached, panicked>>

(* The client takes blocks back, as deep as a reorganization may go        *)
(* (irreversibleHeight).  With h >= height RollbackTo returns at once.     *)
Rollback(h) ==
    /\ Idle /\ h < chain /\ h >= highest - MaxRollback
    /\ commits = PerHeight
    /\ Disciplined => AtBest
    /\ IF h >= height THEN UNCHANGED <<st, hist>> ELSE RollbackTo(h)
    /\ chain' = h
    /\ lastOp' = "rollback"
    /\ UNCHANGED <<commits, highest, ref>>

Next ==
    \/ \E k \in Keys, v \in Values : AppendChange(k, v)
    \/ CommitBlock
    \/ \E k \in TempKeys, v \in Values : SpecialTx(k, v)
    \/ \E h \in 0..MaxHeight : SeekTo(h)
    \/ \E h \in 0..MaxHeight : Rollback(h)

Spec == Init /\ [][Next]_vars

-----------------------------------------------------------------------------
\* The log is well formed whatever its client does: entries in the order of
\* their heights, none above History.height, no more than the capacity, a
\* log that is never ahead of the chain it is kept for, and a cache that is
\* for the next block only, with no temporary change beside it.  So neither
\* panic of Append fires.
LogOrdered ==
    /\ Len(changes) <= Capacity
    /\ \A i, j \in DOMAIN changes : i <= j => changes[i].height <= changes[j].height
    /\ \A i \in DOMAIN changes : changes[i].height <= height
    /\ height <= chain
    /\ cached # <<>> => temp = <<>> /\ cached[1].height = NextHeight

\* Once a block is committed the client's state is the one the chain defines
\* and no temporary change is left in it (history.go:64: "The changes will be
\* rollback when next block comes").
BlockStateExact == lastOp = "block" /\ Idle => st = ref[chain] /\ height = chain

\* After RollbackTo(h), which reports no error, the state is the one height h
\* had (history.go:183: "restores state to height ... If no enough histories
\* to rollback return error").
RollbackExact == lastOp = "rollback" /\ Idle => st = ref[chain]

\* After SeekTo(h) succeeds the state is the one of height h (history.go:157:
\* "changes state to a historical height in range of history capacity").
SeekExact == lastOp = "seek" /\ Idle => st = ref[seekHeight]

=============================================================================
