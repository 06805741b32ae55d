----------------------------- MODULE BlockChain -----------------------------
(***************************************************************************)
(* mempool/blockpool.go and blockchain/blockchain.go: how blocks and their *)
(* confirms become the best chain.  Blocks above CRCOnlyDPOSHeight enter   *)
(* through the block pool, whose lock is held over the whole of a call; a  *)
(* call may connect the block, reorganize the chain and accept orphans one *)
(* after the other, and each of these is a step here, since it can fail    *)
(* and leave what the steps before it did.                                 *)
(*                                                                         *)
(* A block is a name.  Its header gives Parent, Height and WorkSum, its    *)
(* confirm gives View.  Bad blocks pass the checks that need no context    *)
(* and fail CheckBlockContext or ConfirmContextCheck.  Pruning of the      *)
(* index (20160 nodes) and database errors are left out.                   *)
(***************************************************************************)
EXTENDS Integers, Sequences, FiniteSets, SequencesExt

CONSTANTS
    Blocks,         \* blocks that exist above the genesis
    Genesis,        \* the block below CRCOnlyDPOSHeight, on which they stand
    Parent, Height, WorkSum,
    View,           \* view offset of the confirm of each block
    Bad,            \* blocks that fail the checks made when they are connected
    Irreversible,   \* irreversibleHeight
    MaxOrphans,     \* maxOrphanBlocks
    CachedCount     \* cachedCount of the block pool

ASSUME BlockAssumption ==
    /\ Genesis \notin Blocks /\ Bad \subseteq Blocks
    /\ Parent \in [Blocks -> Blocks \cup {Genesis}]
    /\ Height \in [Blocks \cup {Genesis} -> Nat]
    /\ \A b \in Blocks : Height[b] = Height[Parent[b]] + 1
    /\ WorkSum \in [Blocks \cup {Genesis} -> Nat]
    /\ \A b \in Blocks : WorkSum[b] > WorkSum[Parent[b]]
ASSUME BoundAssumption == Irreversible \in Nat /\ CachedCount \in Nat /\ MaxOrphans \in Nat \ {0}

VARIABLES
    main,           \* Nodes and BestChain: the best chain above the genesis
    index,          \* index: every block with a node
    cache,          \* blockCache and confirmCache: the side chain blocks
    orphans,        \* orphans and prevOrphans, in the order of arrival
    orphanConfirms, \* orphanConfirms
    pool, confirms, \* BlockPool.blocks and BlockPool.confirms
    cleans,         \* goroutines of CleanFinalConfirmedBlock not yet run
    call,           \* the block the pool's lock is held for
    inMain,         \* what maybeAcceptBlock returned for it
    target,         \* the block the chain is being reorganized to
    work,           \* processHashes of ProcessOrphans
    heard,          \* blocks the last call announced as confirmed
    failed,         \* ghost: a block failed to be connected
    highest         \* ghost: greatest height of the best chain so far

chainVars == <<main, index, cache, cleans, highest>>
orphanVars == <<orphans, orphanConfirms>>
poolVars == <<pool, confirms>>
callVars == <<call, inMain, target, work, heard, failed>>
vars == <<chainVars, orphanVars, poolVars, callVars>>

NoBlock == Genesis          \* the genesis block is never handled
Idle == call = NoBlock

Tip == IF main = <<>> THEN Genesis ELSE Last(main)
BlockExists(b) == b \in index \cup {Genesis}

(* The block and all its ancestors.                                        *)
Branch[b \in Blocks \cup {Genesis}] ==
    IF b = Genesis THEN {Genesis} ELSE {b} \cup Branch[Parent[b]]

Init ==
    /\ main = <<>> /\ index = {} /\ cache = {}
    /\ orphans = <<>> /\ orphanConfirms = {}
    /\ pool = {} /\ confirms = {} /\ cleans = {}
    /\ call = NoBlock /\ inMain = FALSE /\ target = NoBlock /\ work = <<>>
    /\ heard = {} /\ failed = FALSE /\ highest = Height[Genesis]

-----------------------------------------------------------------------------
(* connectBlock and disconnectBlock, with the event the pool cleans up on. *)
ConnectBlock(b) ==
    /\ main' = Append(main, b)
    /\ cleans' = cleans \cup {Height[b]}
    /\ highest' = IF Height[b] > highest THEN Height[b] ELSE highest

DisconnectTip ==
    /\ main' = SubSeq(main, 1, Len(main) - 1)
    /\ cache' = cache \cup {Tip}
    /\ UNCHANGED <<index, cleans, highest>>

RemoveOrphan_Keep(b) == orphans
RemoveOrphan(b) ==
    IF b \in Range(orphans)
    THEN RemoveAt(orphans, CHOOSE i \in DOMAIN orphans : orphans[i] = b)
    ELSE orphans

Accepted_ChildrenOnly(b, c, connected) ==
    /\ call' = c /\ target' = NoBlock
    /\ inMain' = IF b = c THEN connected ELSE inMain
    /\ work' = IF b = c THEN Append(work, b) ELSE work
    /\ orphans' = RemoveOrphan(b) /\ orphanConfirms' = orphanConfirms \ {b}
    /\ heard' = {} /\ UNCHANGED failed

(* maybeAcceptBlock has accepted b on behalf of the call for block c: the  *)
(* orphans that wait for b are next.                                       *)
Accepted(b, c, connected) ==
    /\ call' = c /\ target' = NoBlock
    /\ inMain' = IF b = c THEN connected ELSE inMain
    /\ work' = Append(work, b)
    /\ orphans' = RemoveOrphan(b) /\ orphanConfirms' = orphanConfirms \ {b}
    /\ heard' = {} /\ UNCHANGED failed

(* An error ends the call at once, whatever was done before it.            *)
Fail ==
    /\ call' = NoBlock /\ target' = NoBlock /\ inMain' = FALSE /\ work' = <<>>
    /\ heard' = {} /\ failed' = TRUE
    /\ UNCHANGED orphanVars

(* connectBestChain.  A side chain with more work than the best chain      *)
(* becomes the best chain, unless too many blocks had to be detached.      *)
DetachCount(b) == Cardinality({i \in DOMAIN main : main[i] \notin Branch[b]})
MoreWork_AnyDepth(b) == WorkSum[b] > WorkSum[Tip]
MoreWork_ByDepth(b) == WorkSum[b] > WorkSum[Tip] /\ DetachCount(b) < Irreversible
MoreWork(b) == WorkSum[b] > WorkSum[Tip] /\ DetachCount(b) <= Irreversible

Accept(b, c) ==
    \/ /\ Parent[b] = Tip /\ b \notin Bad
       /\ ConnectBlock(b) /\ index' = index \cup {b} /\ UNCHANGED cache
       /\ Accepted(b, c, TRUE)
    \/ /\ Parent[b] = Tip /\ b \in Bad
       /\ Fail /\ UNCHANGED chainVars
    \/ /\ Parent[b] # Tip
       /\ index' = index \cup {b} /\ cache' = cache \cup {b}
       /\ UNCHANGED <<main, cleans, highest>>
       /\ IF MoreWork(b)
          THEN /\ call' = c /\ target' = b
               /\ heard' = {} /\ UNCHANGED <<inMain, work, failed, orphanVars>>
          ELSE Accepted(b, c, FALSE)

(* reorganizeChain: the blocks that are not below the new tip are taken    *)
(* off, then the side chain is connected from the fork point on, out of    *)
(* the side chain cache.                                                   *)
Detach ==
    /\ target # NoBlock /\ main # <<>> /\ Tip \notin Branch[target]
    /\ DisconnectTip
    /\ UNCHANGED <<orphanVars, poolVars, callVars>>

Attach(b) ==
    /\ target # NoBlock /\ b \in cache \cap Branch[target] /\ Parent[b] = Tip
    /\ UNCHANGED poolVars
    /\ IF b \in Bad
       THEN Fail /\ UNCHANGED chainVars
       ELSE /\ ConnectBlock(b) /\ cache' = cache \ {b} /\ UNCHANGED index
            /\ IF b = target THEN Accepted(b, call, TRUE)
               ELSE UNCHANGED <<orphanVars, callVars>>

(* ProcessOrphans: the first orphan that waits for a block just accepted.  *)
Waiting == {i \in DOMAIN orphans : Parent[orphans[i]] = Head(work)}

ProcessOrphan_KeepHead ==
    /\ ~Idle /\ target = NoBlock /\ work # <<>>
    /\ UNCHANGED poolVars
    /\ IF Waiting = {}
       THEN UNCHANGED <<chainVars, orphanVars, callVars>>
       ELSE \E i \in Waiting :
                /\ \A j \in Waiting : i <= j
                /\ Accept(orphans[i], call)

ProcessOrphan ==
    /\ ~Idle /\ target = NoBlock /\ work # <<>>
    /\ UNCHANGED poolVars
    /\ IF Waiting = {}
       THEN /\ work' = Tail(work)
            /\ UNCHANGED <<chainVars, orphanVars, call, inMain, target, heard, failed>>
       ELSE \E i \in Waiting :
                /\ \A j \in Waiting : i <= j
                /\ Accept(orphans[i], call)

-----------------------------------------------------------------------------
(* AddOrphanBlock and, by the pool, AddOrphanConfirm.  The first k orphans *)
(* have expired; the oldest one makes room when there are too many.        *)
AddOrphan(b) ==
    \E k \in 0..Len(orphans) :
        LET fresh == SubSeq(orphans, k + 1, Len(orphans))
            kept == IF Len(fresh) + 1 > MaxOrphans THEN Tail(fresh) ELSE fresh
        IN  /\ orphans' = Append(kept, b)
            /\ orphanConfirms' = (orphanConfirms \cap Range(kept)) \cup {b}

(* BlockPool.confirmBlock and BlockChain.processBlock for a block of which *)
(* pool has both parts, up to the acceptance of the block itself.          *)
ProcessBlock(b) ==
    \/ /\ b \in index
       /\ heard' = {}
       /\ UNCHANGED <<chainVars, orphanVars, call, inMain, target, work, failed>>
    \/ /\ b \notin index /\ (b \in Range(orphans) \/ ~BlockExists(Parent[b]))
       /\ IF b \in Range(orphans)
          THEN orphanConfirms' = orphanConfirms \cup {b} /\ UNCHANGED orphans
          ELSE AddOrphan(b)
       /\ heard' = {}
       /\ UNCHANGED <<chainVars, call, inMain, target, work, failed>>
    \/ /\ b \notin index \cup Range(orphans) /\ BlockExists(Parent[b])
       /\ Accept(b, b)

NoProcessing == heard' = {} /\ UNCHANGED <<chainVars, orphanVars, call, inMain, target, work, failed>>

(* The three ways into the pool.                                           *)
AppendBlock(b) ==
    /\ Idle /\ b \notin pool
    /\ Height[b] = Height[Tip] + 1 => BlockExists(Parent[b]) /\ b \notin Bad
    /\ pool' = pool \cup {b} /\ UNCHANGED confirms
    /\ IF b \in confirms THEN ProcessBlock(b) ELSE NoProcessing

AppendConfirm(b) ==
    /\ Idle
    /\ confirms' = confirms \cup {b} /\ UNCHANGED pool
    /\ IF b \in pool THEN ProcessBlock(b) ELSE NoProcessing

AppendBlockAndConfirm(b) ==
    /\ Idle
    /\ pool' = pool \cup {b} /\ confirms' = confirms \cup {b}
    /\ ProcessBlock(b)

Finish_Unchecked ==
    /\ ~Idle /\ target = NoBlock /\ work = <<>>
    /\ call' = NoBlock /\ inMain' = FALSE
    /\ heard' = {call}
    /\ UNCHANGED <<chainVars, orphanVars, poolVars, target, work, failed>>

(* The call returns.  A block that is in the best chain is announced; one  *)
(* that was put on a side chain goes to CheckConfirmedBlockOnFork, which   *)
(* may report the two blocks: its call of ReorganizeChain stands behind a  *)
(* comparison of hashes that were found different before.                  *)
Finish ==
    /\ ~Idle /\ target = NoBlock /\ work = <<>>
    /\ call' = NoBlock /\ inMain' = FALSE
    /\ heard' = IF inMain THEN {call} ELSE {}
    /\ UNCHANGED <<chainVars, orphanVars, poolVars, target, work, failed>>

(* CleanFinalConfirmedBlock, in a goroutine of every connected block.  The *)
(* bound is an unsigned difference: below CachedCount it wraps around to a *)
(* number that is greater than every height, and nothing is kept.          *)
Kept_NoMargin(h) == {b \in pool : Height[b] >= h}
Kept(h) == {b \in pool : h >= CachedCount /\ Height[b] >= h - CachedCount}

CleanFinalConfirmedBlock(h) ==
    /\ Idle /\ h \in cleans
    /\ cleans' = cleans \ {h}
    /\ pool' = Kept(h) /\ confirms' = confirms \ (pool \ Kept(h))
    /\ UNCHANGED <<main, index, cache, highest, orphanVars, callVars>>

Continue == Detach \/ (\E b \in Blocks : Attach(b)) \/ ProcessOrphan \/ Finish

Next ==
    \/ \E b \in Blocks : AppendBlock(b) \/ AppendConfirm(b) \/ AppendBlockAndConfirm(b)
    \/ Detach \/ (\E b \in Blocks : Attach(b)) \/ ProcessOrphan \/ Finish
    \/ \E h \in cleans : CleanFinalConfirmedBlock(h)

Spec == Init /\ [][Next]_vars

(* A goroutine that holds the lock goes on.                                *)
FairSpec == Spec /\ WF_vars(Continue)

-----------------------------------------------------------------------------
TypeOK ==
    /\ main \in Seq(Blocks)
    /\ index \subseteq Blocks /\ cache \subseteq Blocks
    /\ orphans \in Seq(Blocks) /\ orphanConfirms \subseteq Blocks
    /\ pool \subseteq Blocks /\ confirms \subseteq Blocks
    /\ cleans \subseteq Nat /\ highest \in Nat
    /\ call \in Blocks \cup {NoBlock} /\ target \in Blocks \cup {NoBlock}
    /\ work \in Seq(Blocks) /\ heard \subseteq Blocks
    /\ inMain \in BOOLEAN /\ failed \in BOOLEAN

\* The best chain is a chain: every block is connected to the one before it
\* (connectBlock, also in a reorganization that has failed half way).
MainIsChain ==
    \A i \in 1..Len(main) : Parent[main[i]] = IF i = 1 THEN Genesis ELSE main[i - 1]

\* The side chain cache holds exactly the blocks of the index that are not in
\* the best chain, so that reorganizeChain never misses one.
CacheExact == cache = index \ Range(main) /\ Range(main) \subseteq index

\* Every orphan has its confirm: ProcessOrphans hands the confirm it finds to
\* checkBlockWithConfirmation, which does not expect to be given none.
OrphansConfirmed == Range(orphans) \subseteq orphanConfirms

\* What these rest on.  No block of the index lacks its parent, and no orphan
\* that ProcessOrphans still comes to is in the index already, so that none
\* is accepted twice: only the block the chain is being reorganized to may be.
Bookkeeping ==
    /\ \A i \in DOMAIN main : Height[main[i]] = Height[Genesis] + i
    /\ \A i, j \in DOMAIN orphans : orphans[i] = orphans[j] => i = j
    /\ \A b \in index : Parent[b] \in index \cup {Genesis}
    /\ Idle => target = NoBlock
    /\ target # NoBlock => \A b \in index : Parent[b] # target
    /\ Range(work) \subseteq index
    /\ \A b \in index \cap Range(orphans) : b = target \/ Parent[b] \notin Range(work)

\* What holds of chain, index, cache and orphans at every moment, also between
\* the steps of a reorganization and after one that has failed: the chain is
\* connected, the side chain cache is exact, orphans have their confirms, and
\* no block is accepted twice.
ChainInv == TypeOK /\ MainIsChain /\ CacheExact /\ OrphansConfirmed /\ Bookkeeping

\* Of the chains of valid blocks that do not fork off too deep, the best chain
\* is one with the most work (maybeAcceptBlock: "respecting proper chain
\* selection according to the chain with the most proof of work").
MostWorkAlways ==
    Idle => \A b \in index :
        Branch[b] \cap Bad = {} /\ DetachCount(b) <= Irreversible
            => WorkSum[b] <= WorkSum[Tip]

\* The same, as long as every block could be connected, on trees in which more
\* work is never had by fewer blocks (blocks of one difficulty period).
MostWork == ~failed => MostWorkAlways

\* No valid orphan is left behind whose parent is known (processBlock: "Accept
\* any orphan blocks that depend on this block ... until there are no more").
OrphansAcceptedAlways ==
    Idle => \A b \in Range(orphans) \ Bad : ~BlockExists(Parent[b])

\* The same, as long as every block could be connected.
OrphansAccepted == ~failed => OrphansAcceptedAlways

\* A block is announced to the consensus as confirmed only when it is in the
\* best chain (appendConfirm, appendBlockAndConfirm).
HeardInMain == heard \subseteq Range(main)

\* As long as every block could be connected, the chain is never cut further
\* back than irreversibleHeight below its highest point: what the checkpoints
\* are prepared to undo.  Like MostWork, for blocks of one difficulty period.
RollbackBounded == ~failed => Height[Tip] >= highest - Irreversible

\* CleanFinalConfirmedBlock drops only blocks that no reorganization reaches.
CleanedAreFinal == [][\A b \in pool \ pool' : Height[b] < highest - Irreversible]_vars

\* The lock of the block pool is released: a reorganization and the chain of
\* orphans it frees come to an end.
CallsEnd == ~Idle ~> Idle

\* Of two confirmed blocks of a height the one of the lower view is in the
\* best chain (blockevidence.go: "reorganize chain if view offset of block on
\* chain is more than current block").
LowerViewWins ==
    Idle => \A b \in cache :
        Height[b] <= Height[Tip] /\ DetachCount(b) <= Irreversible
            => View[b] >= View[main[Height[b] - Height[Genesis]]]
=============================================================================
