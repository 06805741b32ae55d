---------------------------- MODULE DposArbiter ----------------------------
(***************************************************************************)
(* One arbiter (module Arbiter) with its block pool and ledger, and the    *)
(* peers it works with.  The peers are not modelled in detail: they sign   *)
(* what correct arbiters may sign.  Guarantees that this arbiter is shown  *)
(* to give (one proposal per view, and only on duty) are what the peers    *)
(* are assumed to give, so the argument holds for all of them together.    *)
(*                                                                         *)
(* Messages may be delayed, reordered, lost and repeated: a proposal or a  *)
(* vote that exists may be delivered at any time, or never.  A block or a  *)
(* confirm reaches the manager as an event that a goroutine of its own     *)
(* posts (dpos/arbitrator.go:230), so events may overtake each other;      *)
(* OrderedEvents keeps them in the order in which they were raised.        *)
(***************************************************************************)
EXTENDS Arbiter

CONSTANTS
    Self,           \* the arbiter modelled
    Faulty,         \* peers that may propose several blocks in a view of theirs
    OrderedEvents,  \* TRUE: ledger events are handled in the order raised
    OtherHeights,   \* TRUE: proposals for heights this ledger is not at come
    PeerVotes,      \* subset of BOOLEAN: the votes peers cast
    StatusVoters,   \* peers whose votes a status may hold; {}: no peer answers
    MaxRestarts,    \* bound: restarts of the arbiter's process
    MaxView,        \* bound: greatest view offset explored
    MaxPending      \* bound: votes kept for unknown proposals

ASSUME SelfAssumption ==
    /\ Self \in Arbiters /\ PeerVotes \subseteq BOOLEAN
    /\ StatusVoters \cup Faulty \subseteq Arbiters \ {Self}

VARIABLES
    node,       \* state of the arbiter
    sent,       \* proposals signed by anyone, this arbiter included
    restarts,   \* restarts so far
    connecting, \* arbitrator.recover still waits for enough peers
    signed,     \* ghost: every vote this arbiter signed
    issued      \* ghost: every confirm this arbiter built

vars == <<node, sent, restarts, connecting, signed, issued>>
Peers == Arbiters \ {Self}

-----------------------------------------------------------------------------
IsVote(m) == "signer" \in DOMAIN m

(* A handler has left state s: what it signed is out, its results are      *)
(* forgotten.                                                              *)
Step(s) ==
    /\ node' = [s EXCEPT !.out = {}, !.finished = FALSE, !.handled = TRUE]
    /\ sent' = sent \cup {m \in s.out : ~IsVote(m)}
    /\ signed' = signed \cup {m \in s.out : IsVote(m)}
    /\ issued' = issued \cup s.todo

(* Not a step of the process life cycle.                                   *)
Stay == UNCHANGED <<restarts, connecting>>

Raise(s, e) == [s EXCEPT !.events = Append(@, e)]

Init ==
    /\ node = InitArbiter(Self)
    /\ sent = {} /\ signed = {} /\ issued = {}
    /\ restarts = 0 /\ connecting = TRUE

-----------------------------------------------------------------------------
(* mempool/blockpool.go.                                                   *)
Tip(s) == IF s.chain = <<>> THEN None ELSE Last(s.chain)
ExtendsTip(s, b) == b.h = Height(s) + 1 /\ b.parent = Tip(s).id

(* appendBlock: a mined block reaches the pool.  The consensus hears of it *)
(* only when it is the next one of the ledger.                             *)
BlockArrives(b) ==
    LET s == [node EXCEPT !.pool = @ \cup {b}]
    IN  /\ b \notin node.pool
        /\ b.h = Height(s) + 1 => ExtendsTip(s, b)
        /\ Step(IF ExtendsTip(s, b) THEN Raise(s, [b |-> b, type |-> "block"]) ELSE s) /\ Stay

(* ConfirmSanityCheck and the count of ConfirmContextCheck.                *)
ConfirmSane(c) == \A v \in c.votes : v.accept /\ v.proposal = c.proposal
ConfirmComplete(c) == HasMajority(Cardinality({v.signer : v \in c.votes}))

(* The goroutine of AppendConfirm runs appendConfirm.  A confirm that      *)
(* fails a check, or whose block does not extend the tip, is dropped.      *)
AppendConfirm(c) ==
    LET s == [node EXCEPT !.todo = @ \ {c}]
        b == c.proposal.block
        ok == ConfirmSane(c) /\ ConfirmComplete(c) /\ b \in s.pool /\ ExtendsTip(s, b)
    IN  /\ Step(IF ok THEN Raise([s EXCEPT !.chain = Append(@, b)],
                                 [b |-> b, type |-> "confirm"])
                ELSE s)
        /\ Stay

(* appendBlockAndConfirm: a block with its confirm comes from a peer and   *)
(* both events are raised.                                                 *)
SyncBlock(b) ==
    /\ ExtendsTip(node, b)
    /\ Step(Raise(Raise([node EXCEPT !.pool = @ \cup {b}, !.chain = Append(@, b)],
                        [b |-> b, type |-> "confirm"]),
                  [b |-> b, type |-> "confirmed"])) /\ Stay

(* The network loop takes an event.                                        *)
HandleEvent(i) ==
    LET e == node.events[i]
        s == [node EXCEPT !.events = RemoveAt(@, i)]
    IN  /\ OrderedEvents => i = 1
        /\ Step(CASE e.type = "block"     -> OnBlockReceived(s, e.b, FALSE)
                  [] e.type = "confirmed" -> OnBlockReceived(s, e.b, TRUE)
                  [] e.type = "confirm"   -> OnConfirmReceived(s, e.b)) /\ Stay

-----------------------------------------------------------------------------
(* The peers.                                                              *)
(* The one on duty proposes; a correct one proposes one block in a view.   *)
OnDutyFor(b, v) == OnDutyArbiter(b.h - 1, v)

PeerProposes(p, b, v) ==
    /\ p = OnDutyFor(b, v)
    /\ p \in Faulty \/ \A d \in sent : d.block.h = b.h => d.view # v
    /\ sent' = sent \cup {[sponsor |-> p, block |-> b, view |-> v]}
    /\ UNCHANGED <<node, signed, issued>> /\ Stay

(* A proposal comes from its sponsor, or from a peer that was asked for    *)
(* the one it is processing.                                               *)
Deliver(d, from, late) ==
    /\ OtherHeights \/ d.block.h = Height(node) + 1
    /\ late => node.running /\ ~node.onDuty /\ node.view < MaxView
    /\ Step(OnProposalReceived(node, from, d, late)) /\ Stay

(* A vote of a peer: it goes with the votes of that peer that are held.    *)
SlotOf(d) == <<d.block.h, d.view>>
Consistent(v, w) == IF v.proposal = w.proposal THEN v.accept = w.accept
                    ELSE SlotOf(v.proposal) # SlotOf(w.proposal)

DeliverVote(v) ==
    /\ \A w \in node.acceptVotes \cup node.rejectedVotes \cup node.pendingVotes :
           w.signer = v.signer => Consistent(v, w)
    /\ Cardinality(node.pendingVotes) < MaxPending \/ node.processingProposal # NoProposal
    /\ Step(IF v.accept THEN OnVoteAccepted(node, v) ELSE OnVoteRejected(node, v)) /\ Stay

(* changeViewLoop: the tolerance of k views has passed (OnChangeView).     *)
Timer(k) ==
    /\ node.running /\ node.view + k <= MaxView
    /\ Step(ChangeView(node, k)) /\ Stay

(* The process ends and starts again: the ledger is on disk, all that the  *)
(* manager and the block pool held is gone.                                *)
Restart ==
    /\ restarts < MaxRestarts
    /\ restarts' = restarts + 1 /\ connecting' = TRUE
    /\ Step(ChangeOnDuty([InitArbiter(Self) EXCEPT !.chain = node.chain]))

(* arbitrator.recover runs once after a start, when there are peers enough *)
(* to answer; then the 2 seconds pass without or with the status of one.   *)
StartRecovery ==
    /\ connecting /\ StatusVoters # {}
    /\ connecting' = FALSE /\ UNCHANGED restarts
    /\ Step(OnRecover(node))

RecoverTimeout == node.recoverStarted /\ Step(OnRecoverTimeout(node)) /\ Stay

(* The status of a peer that waits for the block of proposal d, or that    *)
(* has taken it up and counted some votes.                                 *)
PeerStatus(d) ==
    [running : {TRUE}, view : {d.view}, pendingProposals : {{d}}, acceptVotes : {{}}]
    \cup
    [running : {TRUE}, view : {d.view}, pendingProposals : {{}},
     acceptVotes : {{[proposal |-> d, signer |-> p, accept |-> TRUE] : p \in q}
                        : q \in SUBSET StatusVoters}]
Ready == [running |-> FALSE, view |-> 0, pendingProposals |-> {}, acceptVotes |-> {}]

Recover(status, offset) ==
    /\ node.recoverStarted /\ node.isAbnormal /\ StatusVoters # {}
    /\ status.view + offset <= MaxView
    /\ Step(DoRecover(node, status, offset)) /\ Stay

Next ==
    \/ \E b \in Blocks : BlockArrives(b) \/ SyncBlock(b)
    \/ \E c \in node.todo : AppendConfirm(c)
    \/ \E i \in DOMAIN node.events : HandleEvent(i)
    \/ \E p \in Peers, b \in Blocks, v \in 0..MaxView : PeerProposes(p, b, v)
    \/ \E d \in sent, p \in Peers, late \in BOOLEAN : Deliver(d, p, late)
    \/ \E v \in [proposal : sent, signer : Peers, accept : PeerVotes] : DeliverVote(v)
    \/ \E k \in 1..MaxView : Timer(k)
    \/ Restart \/ StartRecovery \/ RecoverTimeout
    \/ \E status \in (UNION {PeerStatus(d) : d \in sent}) \cup {Ready}, k \in 0..MaxView :
           Recover(status, k)

Spec == Init /\ [][Next]_vars

-----------------------------------------------------------------------------
\* An arbiter never signs accept votes for two blocks in one view of one
\* height, whatever a faulty sponsor proposes (proposalProcessFinished and
\* processingBlock of ProposalDispatcher.ProcessProposal).
VotesOncePerView ==
    \A v, w \in signed :
        v.accept /\ w.accept /\ SlotOf(v.proposal) = SlotOf(w.proposal)
            => v.proposal.block = w.proposal.block

\* Every confirm the dispatcher builds (ProposalDispatcher.AppendConfirm)
\* passes ConfirmSanityCheck and has the majority ConfirmContextCheck asks
\* for: otherwise the height is finished and no block appended.
ConfirmsValid == \A c \in issued : ConfirmSane(c) /\ ConfirmComplete(c)

Own == {d \in sent : d.sponsor = Self}

\* What an arbiter proposes for a height its ledger has not reached it
\* proposes on duty (StartProposal, called by the on-duty handler SwitchTo
\* selected).  Between a block's arrival by synchronisation and the event of
\* its confirm the view may change and the old height's block be proposed by
\* the duty of the new height; an arbiter still at the old height rejects it.
ProposesOnDuty == \A d \in Own : Height(node) < d.block.h => OnDutyFor(d.block, d.view) = Self

\* An arbiter proposes one block in one view of one height: what comes first
\* in the block cache while the height is worked on (ConsensusBlockCache,
\* FirstArrivedBlockHash) and nothing once it is finished.
ProposesOnce == \A d, e \in Own : SlotOf(d) = SlotOf(e) => d = e

\* An arbiter that was told of the next block of its ledger, and neither has
\* an event to handle nor a confirm on its way, runs the consensus: a height
\* is not finished (FinishConsensus) before its block is appended.
NeverStalls ==
    node.events = <<>> /\ node.todo = {} /\ (\E b \in node.blocks : ExtendsTip(node, b))
        => node.running

\* The evidence an arbiter broadcasts (ProcessIllegalProposal and
\* ProcessIllegalVote) names arbiters that did propose twice.
OnlyFaultyAccused == node.evidence \subseteq Faulty
=============================================================================
