----------------------------- MODULE Checkpoint -----------------------------
(***************************************************************************)
(* core/checkpoint: the manager that hands every saved block to the states *)
(* derived from the chain (producers and arbiters, CR committee), takes    *)
(* snapshots of them and of the transaction pool, and keeps the files with *)
(* one goroutine per checkpoint; and how a node that starts again comes    *)
(* back to its state (InitCheckpoint of blockchain/blockchain.go).         *)
(*                                                                         *)
(* A block is its height and the number of the fork it belongs to.  A      *)
(* derived state is the sequence of the blocks it was made from, since it  *)
(* is a function of them.  The process may end between any two steps; the  *)
(* chain and the files stay.  EnableHistory is FALSE, as configured.       *)
(***************************************************************************)
EXTENDS Integers, Sequences, SequencesExt, FiniteSetsExt

CONSTANTS
    Points,         \* the checkpoints, as a sequence in the order of Priority()
    Start,          \* StartHeight() of each
    Period,         \* SavePeriod() of each
    Effective,      \* EffectivePeriod() of each
    Derived,        \* those whose state is made from blocks ("dpos", "cr")
    Skipped,        \* those Restore does not load ("dpos", "cr")
    VoteStart,      \* VoteStartHeight: below it nothing is rolled back
    Settled,        \* height the chain has at first, which no fork goes below
    MaxRollback,    \* bound: blocks one reorganization detaches
    MaxHeight,      \* bound: height of the chain
    MaxForks,       \* bound: reorganizations
    MaxCrashes      \* bound: ends of the process

Keys == Range(Points)
Heights == 0..MaxHeight

ASSUME PeriodAssumption ==
    /\ Points \in Seq(Keys) /\ IsInjective(Points)
    /\ {Start, Period, Effective} \subseteq [Keys -> Nat \ {0}]
ASSUME SettledAssumption ==
    /\ {VoteStart, Settled, MaxHeight} \subseteq Nat
    /\ VoteStart < Settled /\ Settled <= MaxHeight
(* The pool is the only checkpoint that Restore loads.                     *)
ASSUME RestoreAssumption ==
    /\ \A p, q \in Keys \ Skipped : p = q
    /\ Derived \subseteq Skipped /\ Skipped \subseteq Keys

None == [height |-> 0, blocks |-> <<>>, complete |-> FALSE]
Torn == [None EXCEPT !.height = 1]
Snapshot(h, bs) == [height |-> h, blocks |-> bs, complete |-> TRUE]

VARIABLES
    chain,      \* the chain database: the fork of the block at each height
    applied,    \* blocks each derived state was made from, in the order processed
    height,     \* GetHeight() of each checkpoint
    needSave,   \* Config.NeedSave
    todo,       \* onBlockSaved: checkpoints still to be handed the best block
    sends,      \* onBlockSaved: file messages of the current one not handed over
    loop,       \* what the goroutine of each checkpoint is doing
    files,      \* snapshot files, by height
    default,    \* the default file of each checkpoint
    up,         \* the process runs and InitCheckpoint is done
    forks, crashes, highest     \* counts, and the greatest height there was

memory == <<applied, height, needSave, todo, sends, loop, up>>
disk == <<files, default>>
vars == <<chain, memory, disk, forks, crashes, highest>>

Best == Len(chain)
Block(h) == [height |-> h, fork |-> chain[h]]
BlocksFrom(lo) == [i \in 1..(Best - lo + 1) |-> Block(lo + i - 1)]
Idle == [op |-> "idle"]
Ready == up /\ todo = <<>> /\ sends = <<>>

-----------------------------------------------------------------------------
(* OnBlockSaved of a checkpoint: the states ignore a block that is not     *)
(* above the height of their last snapshot, the pool ignores all.          *)
OnBlockSaved(p, bs, b) ==
    IF p \notin Derived \/ b.height < Start[p] \/ b.height <= height[p] THEN bs
    ELSE Append(bs, b)

Init ==
    /\ chain = [h \in 1..Settled |-> 0]
    /\ applied = [p \in Keys |-> <<>>] /\ height = [p \in Keys |-> 0]
    /\ needSave = FALSE /\ todo = <<>> /\ sends = <<>> /\ up = FALSE
    /\ loop = [p \in Keys |-> Idle]
    /\ files = [p \in Keys |-> [h \in Heights |-> None]]
    /\ default = [p \in Keys |-> None]
    /\ forks = 0 /\ crashes = 0 /\ highest = Settled

(* A block is in the chain database, and the manager's lock is taken.      *)
Connect ==
    /\ Ready /\ Best < MaxHeight
    /\ chain' = Append(chain, forks)
    /\ todo' = Points
    /\ highest' = Max({highest, Best + 1})
    /\ UNCHANGED <<applied, height, needSave, sends, loop, up, disk, forks, crashes>>

(* One turn of the loop of onBlockSaved.                                   *)
ReplaceDue(p) == height[p] > 0 /\ Best = height[p] + Effective[p]
SaveDue(p) == Best >= height[p] + Period[p]

Messages_Newest(p, bs) ==
    (IF SaveDue(p) THEN <<[op |-> "create", point |-> p, height |-> Best, blocks |-> bs]>> ELSE <<>>)
    \o
    (IF ReplaceDue(p) THEN <<[op |-> "replace", point |-> p, height |-> Best]>> ELSE <<>>)

Messages(p, bs) ==
    (IF ReplaceDue(p) THEN <<[op |-> "replace", point |-> p, height |-> height[p]]>> ELSE <<>>)
    \o
    (IF SaveDue(p) THEN <<[op |-> "create", point |-> p, height |-> Best, blocks |-> bs]>> ELSE <<>>)

ProcessPoint ==
    LET p == Head(todo)
        bs == OnBlockSaved(p, applied[p], Block(Best))
        live == needSave /\ Best >= Start[p]
    IN  /\ up /\ todo # <<>> /\ sends = <<>>
        /\ applied' = [applied EXCEPT ![p] = bs]
        /\ sends' = IF live THEN Messages(p, bs) ELSE <<>>
        /\ height' = IF live /\ SaveDue(p) THEN [height EXCEPT ![p] = Best] ELSE height
        /\ todo' = Tail(todo)
        /\ UNCHANGED <<chain, needSave, loop, up, disk, forks, crashes, highest>>

(* The channels have no buffer: the manager waits for the goroutine.       *)
HandOver ==
    LET m == Head(sends)
    IN  /\ up /\ sends # <<>> /\ loop[m.point] = Idle
        /\ loop' = [loop EXCEPT ![m.point] = m]
        /\ sends' = Tail(sends)
        /\ UNCHANGED <<chain, applied, height, needSave, todo, up, disk, forks, crashes, highest>>

-----------------------------------------------------------------------------
(* messageLoop of checkpoint p: saveCheckpoint opens (and truncates) the   *)
(* file, writes it and cleans; replaceCheckpoints removes the default file *)
(* and renames another.  The process may end between these.                *)
Goto(p, op) == loop' = [loop EXCEPT ![p] = [@ EXCEPT !.op = op]]

(* replyMsg: the reply channel has room for the one reply, so nobody need  *)
(* read it.                                                                *)
Reply_Unbuffered(p) == Goto(p, "replying")
Reply(p) == loop' = [loop EXCEPT ![p] = Idle]

Create(p) ==
    /\ loop[p].op = "create" /\ Goto(p, "write")
    /\ files' = [files EXCEPT ![p][loop[p].height] = Torn]
    /\ UNCHANGED default

Write(p) ==
    /\ loop[p].op = "write" /\ Goto(p, "clean")
    /\ files' = [files EXCEPT ![p][loop[p].height] = Snapshot(loop[p].height, loop[p].blocks)]
    /\ UNCHANGED default

(* The name of the previous file wraps around when the height is less than *)
(* the period, and then names no file.                                     *)
Kept_Previous(p, h) == {h - Period[p]}
Kept(p, h) == {h, h - Period[p]}

CleanCheckpoints(p) ==
    /\ loop[p].op = "clean" /\ Reply(p)
    /\ files' = [files EXCEPT ![p] = [h \in Heights |-> IF h \in Kept(p, loop[p].height) THEN @[h] ELSE None]]
    /\ UNCHANGED default

SourceExists(p) == files[p][loop[p].height] # None

NoSource(p) ==
    /\ loop[p].op = "replace" /\ ~SourceExists(p) /\ Reply(p)
    /\ UNCHANGED disk

RemoveDefault(p) ==
    /\ loop[p].op = "replace" /\ SourceExists(p) /\ Goto(p, "rename")
    /\ default' = [default EXCEPT ![p] = None]
    /\ UNCHANGED files

Rename_Copy(p) ==
    \/ /\ loop[p].op = "rename" /\ Goto(p, "copy")
       /\ default' = [default EXCEPT ![p] = Torn] /\ UNCHANGED files
    \/ /\ loop[p].op = "copy" /\ Reply(p)
       /\ default' = [default EXCEPT ![p] = files[p][loop[p].height]]
       /\ UNCHANGED files

Rename(p) ==
    /\ loop[p].op = "rename" /\ Reply(p)
    /\ default' = [default EXCEPT ![p] = files[p][loop[p].height]]
    /\ files' = [files EXCEPT ![p][loop[p].height] = None]

MessageLoop(p) ==
    /\ up
    /\ Create(p) \/ Write(p) \/ CleanCheckpoints(p) \/ NoSource(p) \/ RemoveDefault(p) \/ Rename(p)
    /\ UNCHANGED <<chain, applied, height, needSave, todo, sends, up, forks, crashes, highest>>

-----------------------------------------------------------------------------
(* main waits until the node has caught up with its peers.                 *)
SetNeedSave ==
    /\ Ready /\ ~needSave /\ needSave' = TRUE
    /\ UNCHANGED <<chain, applied, height, todo, sends, loop, up, disk, forks, crashes, highest>>

(* reorganizeChain and disconnectBlock take the last block off: Manager.   *)
(* OnRollbackTo.  The states follow; no height is lowered.                 *)
(* A rollback cuts the undo log at the first block above the height.       *)
CutAt(bs, above) == IF above = {} THEN bs ELSE SubSeq(bs, 1, Min(above) - 1)

OnRollbackTo_Above(p, h) == CutAt(applied[p], {i \in DOMAIN applied[p] : applied[p][i].height > h + 1})

OnRollbackTo(p, h) == CutAt(applied[p], {i \in DOMAIN applied[p] : applied[p][i].height > h})

Detach ==
    /\ Ready /\ forks > 0 /\ chain[Best] < forks
    /\ Best > Settled /\ highest - Best < MaxRollback
    /\ applied' = IF Best - 1 >= VoteStart THEN [p \in Keys |-> OnRollbackTo(p, Best - 1)] ELSE applied
    /\ chain' = Front(chain)
    /\ UNCHANGED <<height, needSave, todo, sends, loop, up, disk, forks, crashes, highest>>

(* A heavier branch is there: what follows belongs to it.                  *)
Fork ==
    /\ Ready /\ forks < MaxForks /\ forks' = forks + 1
    /\ UNCHANGED <<chain, memory, disk, crashes, highest>>

-----------------------------------------------------------------------------
Crash ==
    /\ up /\ crashes < MaxCrashes /\ crashes' = crashes + 1
    /\ up' = FALSE /\ needSave' = FALSE
    /\ applied' = [p \in Keys |-> <<>>] /\ height' = [p \in Keys |-> 0]
    /\ todo' = <<>> /\ sends' = <<>> /\ loop' = [p \in Keys |-> Idle]
    /\ UNCHANGED <<chain, disk, forks, highest>>

(* Restore: the first file that cannot be read ends it.                    *)
Loadable(p) == default[p].complete
Restored ==
    {p \in Keys \ Skipped : \A i \in DOMAIN Points : \A j \in 1..i :
        Points[i] = p => Points[j] \in Skipped \/ Loadable(Points[j])}
HeightAfterRestore(p) == IF p \in Restored THEN default[p].height ELSE 0

SafeHeight == Min({Max({HeightAfterRestore(p), Start[p]}) : p \in Keys})
(* InitCheckpoint: the chain from the safe height on is processed again.   *)
Rescanned(p) ==
    LET first == Max({SafeHeight + 1, HeightAfterRestore(p) + 1, Start[p]})
    IN  (IF p \in Restored THEN default[p].blocks ELSE <<>>)
        \o (IF p \in Derived THEN BlocksFrom(first) ELSE <<>>)

InitCheckpoint ==
    /\ ~up /\ up' = TRUE
    /\ height' = [p \in Keys |-> HeightAfterRestore(p)]
    /\ applied' = [p \in Keys |-> Rescanned(p)]
    /\ UNCHANGED <<chain, needSave, todo, sends, loop, disk, forks, crashes, highest>>

Next ==
    \/ Connect \/ ProcessPoint \/ HandOver
    \/ \E p \in Keys : MessageLoop(p)
    \/ SetNeedSave \/ Detach \/ Fork \/ Crash \/ InitCheckpoint

(* Goroutines that can run are run; the lock's holder is one of them.      *)
Fairness ==
    /\ WF_vars(ProcessPoint) /\ WF_vars(HandOver)
    /\ \A p \in Keys : WF_vars(MessageLoop(p))

Spec == Init /\ [][Next]_vars /\ Fairness

-----------------------------------------------------------------------------
\* Whenever the process ends, a default file that is there is whole: it is
\* never one that was being written (saveCheckpoint writes in place, and
\* replaceCheckpoints renames a file the same goroutine has written).
DefaultComplete == \A p \in Keys : default[p] # None => default[p].complete

\* The snapshot that a restart would load is at least EffectivePeriod blocks
\* below the greatest height there was: a rollback within the period never
\* goes below it.
DefaultSettled ==
    \A p \in Keys : default[p] # None => default[p].height + Effective[p] <= highest

\* A snapshot is still on disk when it is due to become the default:
\* cleanCheckpoints, which runs in between, keeps it.  (After a crash in the
\* middle of a reorganization it may be the default already.)
ReplaceFindsSource ==
    \A p \in Keys : loop[p].op = "replace" =>
        SourceExists(p) \/ (default[p].complete /\ default[p].height = loop[p].height)

\* A derived state holds blocks of the chain only, each once and in order,
\* and all those above its last snapshot and its start height: after any
\* number of rollbacks, crashes and rescans.
AppliedSinceSnapshot ==
    Ready => \A p \in Derived :
        /\ Range(applied[p]) \subseteq {Block(h) : h \in 1..Best}
        /\ \A i, j \in DOMAIN applied[p] : i < j => applied[p][i].height < applied[p][j].height
        /\ \A h \in 1..Best : h > height[p] /\ h > Start[p] => Block(h) \in Range(applied[p])

\* The stronger claim: a derived state is made from all blocks of the chain
\* from its start height on.
StateFollowsChain == Ready => \A p \in Derived : applied[p] = BlocksFrom(Start[p])

\* The caller of OnBlockSaved, which holds the lock of the block pool, is
\* never kept waiting for ever by the goroutines that write the files.
SavingEnds == todo # <<>> ~> Ready \/ ~up
=============================================================================
