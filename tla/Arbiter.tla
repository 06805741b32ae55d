------------------------------ MODULE Arbiter ------------------------------
(***************************************************************************)
(* dpos/manager: what one arbiter does with one event.  The network loop   *)
(* (dpos/network.go) hands every message, timer tick and ledger event to   *)
(* one goroutine, so a handler is a function from the state of the arbiter *)
(* to its next state: each operator below takes a state s and returns the  *)
(* state its Go counterpart leaves, with the proposals and votes it signed *)
(* in s.out and the confirms it handed to another goroutine in s.todo.     *)
(*                                                                         *)
(* Hashes are the values themselves; signature checks always succeed; the  *)
(* set of arbiters is fixed.  View tolerance is a timer that may fire at   *)
(* any moment (TryChangeView): a handler that calls ChangeView before the  *)
(* timer has expired adds an offset of zero, which does nothing.           *)
(***************************************************************************)
EXTENDS Integers, Sequences, FiniteSets, FiniteSetsExt, SequencesExt

CONSTANTS
    N,          \* number of arbiters; they are 0..N-1 in the order of duty
    Blocks      \* records [h, id, parent]: the blocks miners may produce

ASSUME NAssumption == N \in Nat \ {0}
ASSUME BlocksAssumption == \A b \in Blocks : b.h \in Nat \ {0}

Arbiters == 0..(N - 1)
None == [h |-> 0, id |-> 0, parent |-> 0]        \* no block
NoProposal == [sponsor |-> -1, block |-> None, view |-> 0]

-----------------------------------------------------------------------------
(* dpos/state/arbitrators.go: the quorum sizes and the duty order.         *)
MajorityCount == (N * 2) \div 3
HasMajority(num) == num > MajorityCount
HasMinority(num) == num >= N - MajorityCount
OnDutyArbiter(height, offset) == (height + offset) % N

Height(s) == Len(s.chain)
InLedger(s, b) == b \in Range(s.chain)

InitArbiter(n) ==
    [ self |-> n,
      running |-> FALSE, view |-> 0,                   \* Consensus
      onDuty |-> OnDutyArbiter(0, 0) = n,              \* DPOSHandlerSwitch
      finishedHeight |-> 0, finishedBlock |-> None,    \* ProposalDispatcher
      processingBlock |-> None, processingProposal |-> NoProposal,
      acceptVotes |-> {}, rejectedVotes |-> {}, pendingVotes |-> {},
      pendingProposals |-> {}, precociousProposals |-> {},
      processFinished |-> FALSE,
      cachedProposals |-> {},                          \* IllegalBehaviorMonitor
      blocks |-> {}, list |-> <<>>,                    \* ConsensusBlockCache
      notHandled |-> {}, recoverStarted |-> FALSE,     \* DPOSManager
      isAbnormal |-> FALSE,                            \* DPOSHandlerSwitch
      evidence |-> {},                                 \* evidence broadcast
      pool |-> {}, chain |-> <<>>,                     \* block pool and ledger
      events |-> <<>>, todo |-> {}, out |-> {},
      finished |-> FALSE, handled |-> TRUE ]           \* results of the last call

Send(s, m) == [s EXCEPT !.out = @ \cup {m}]

(* The caller goes on unless what it called has finished the proposal.     *)
UnlessFinished(s, Continue(_)) == IF s.finished THEN s ELSE Continue(s)

(* Process is called for each element of S in turn.  The order is that of  *)
(* a Go map; SetToSeq fixes one.                                           *)
InTurn(S, s, Process(_, _)) ==
    LET run[i \in 0..Cardinality(S)] ==
            IF i = 0 THEN s ELSE Process(run[i - 1], SetToSeq(S)[i])
    IN  run[Cardinality(S)]

-----------------------------------------------------------------------------
(* IllegalBehaviorMonitor: what counts as a double proposal or vote.       *)
ProposalsIllegal_AnyView(s, d, e) ==
    /\ d # NoProposal /\ e # NoProposal
    /\ d.block # e.block /\ {d.block, e.block} \subseteq s.blocks
    /\ d.block.h = e.block.h

ProposalsIllegal(s, d, e) ==
    /\ d # NoProposal /\ e # NoProposal
    /\ d.block # e.block /\ d.sponsor = e.sponsor /\ d.view = e.view
    /\ {d.block, e.block} \subseteq s.blocks
    /\ d.block.h = e.block.h

IsLegalProposal(s, d) ==
    \A e \in {s.processingProposal} \cup s.pendingProposals \cup s.precociousProposals :
        ~ProposalsIllegal(s, d, e)

VotesIllegal(s, v, w) ==
    /\ v.signer = w.signer
    /\ IF v.proposal = w.proposal THEN v # w
       ELSE /\ {v.proposal, w.proposal} \subseteq s.cachedProposals
            /\ ProposalsIllegal(s, v.proposal, w.proposal)

IsLegalVote(s, v) ==
    \A w \in s.acceptVotes \cup s.rejectedVotes : ~VotesIllegal(s, v, w)

(* The evidence is broadcast: who it accuses.  For a vote the proposals it *)
(* rests on must be known.                                                 *)
ProcessIllegalProposal(s, d) == [s EXCEPT !.evidence = @ \cup {d.sponsor}]
ProcessIllegalVote(s, v) ==
    IF v.proposal \in s.cachedProposals THEN [s EXCEPT !.evidence = @ \cup {v.signer}] ELSE s

AddProposal(s, d) == [s EXCEPT !.cachedProposals = @ \cup {d}]

(* Of the proposals known, a new view keeps those still to be processed.   *)
ResetMonitor(s, changeView) ==
    [s EXCEPT !.cachedProposals =
        IF changeView THEN s.pendingProposals \cup s.precociousProposals ELSE {}]

-----------------------------------------------------------------------------
(* Consensus: a height begins and ends in view 0.                          *)
SetRunning(s) == [s EXCEPT !.running = TRUE, !.view = 0]
SetReady(s) == [s EXCEPT !.running = FALSE, !.view = 0]

(* Switching the handler, finishing a height.                              *)
SwitchTo(s, onDuty) == [s EXCEPT !.onDuty = onDuty]

ChangeOnDuty_NextHeight(s) == SwitchTo(s, OnDutyArbiter(Height(s) + 1, 0) = s.self)
ChangeOnDuty(s) == SwitchTo(s, OnDutyArbiter(Height(s), 0) = s.self)

CleanProposals_KeepVotes(s, changeView) ==
    [s EXCEPT !.processingBlock = None, !.processingProposal = NoProposal,
              !.processFinished = FALSE]

CleanProposals(s, changeView) ==
    LET kept(ds) == IF changeView THEN {d \in ds : d.view >= s.view} ELSE {}
    IN  [ResetMonitor(s, changeView) EXCEPT
            !.processingBlock = None, !.processingProposal = NoProposal,
            !.acceptVotes = {}, !.rejectedVotes = {}, !.pendingVotes = {},
            !.processFinished = FALSE,
            !.pendingProposals = kept(@), !.precociousProposals = kept(@)]

FinishConsensus(s, height, b) ==
    IF ~s.running THEN s
    ELSE LET s1 == [s EXCEPT !.finishedHeight = height, !.finishedBlock = b]
         IN  CleanProposals(SetReady(ChangeOnDuty(s1)), FALSE)

(* The confirm is built from the processing proposal and all accept votes, *)
(* and handed to another goroutine; the height is finished at once.        *)
AppendConfirmLater(s) ==
    [s EXCEPT !.todo = @ \cup {[proposal |-> s.processingProposal, votes |-> s.acceptVotes]}]

FinishProposal(s) ==
    IF s.processingBlock = None THEN [s EXCEPT !.finished = FALSE]
    ELSE [FinishConsensus(AppendConfirmLater(s), s.processingBlock.h, s.processingBlock)
             EXCEPT !.finished = TRUE]

CountAcceptedVote_AtLeast(s, v) ==
    LET s1 == [s EXCEPT !.acceptVotes = @ \cup {v}]
    IN  IF Cardinality(s1.acceptVotes) >= MajorityCount THEN FinishProposal(s1)
        ELSE [s1 EXCEPT !.finished = FALSE]

CountAcceptedVote(s, v) ==
    LET s1 == [s EXCEPT !.acceptVotes = @ \cup {v}]
    IN  IF HasMajority(Cardinality(s1.acceptVotes)) THEN FinishProposal(s1)
        ELSE [s1 EXCEPT !.finished = FALSE]

CountRejectedVote_KeepVotes(s, v) ==
    LET s1 == [s EXCEPT !.rejectedVotes = @ \cup {v}]
    IN  IF HasMinority(Cardinality(s1.rejectedVotes))
        THEN [s1 EXCEPT !.processingBlock = None, !.processingProposal = NoProposal,
                        !.processFinished = FALSE, !.rejectedVotes = {}, !.finished = TRUE]
        ELSE [s1 EXCEPT !.finished = FALSE]

CountRejectedVote(s, v) ==
    LET s1 == [s EXCEPT !.rejectedVotes = @ \cup {v}]
    IN  IF HasMinority(Cardinality(s1.rejectedVotes))
        THEN [CleanProposals(s1, TRUE) EXCEPT !.finished = TRUE]
        ELSE [s1 EXCEPT !.finished = FALSE]

AlreadyExistVote(s, v) == v \in s.acceptVotes \cup s.rejectedVotes

ProcessVote(s, v) ==
    IF AlreadyExistVote(s, v) THEN [s EXCEPT !.finished = FALSE]
    ELSE IF ~IsLegalVote(s, v) THEN [ProcessIllegalVote(s, v) EXCEPT !.finished = FALSE]
    ELSE IF v.accept THEN CountAcceptedVote(s, v) ELSE CountRejectedVote(s, v)

AddPendingVote(s, v) == [s EXCEPT !.pendingVotes = @ \cup {v}]

-----------------------------------------------------------------------------
(* Taking a position on a proposal.  Pending votes are replayed until one  *)
(* finishes; their order makes no difference to votes of distinct signers  *)
(* for one side.                                                           *)
Replay(a, v) == IF a.finished THEN a ELSE ProcessVote(a, v)

SetProcessingProposal(s, d) ==
    LET forget(a) == [a EXCEPT !.pendingVotes = {}]
    IN  UnlessFinished(InTurn({v \in s.pendingVotes : v.proposal = d},
                              [s EXCEPT !.processingProposal = d, !.finished = FALSE], Replay),
                       forget)

AcceptProposal(s, d) ==
    LET vote == [proposal |-> d, signer |-> s.self, accept |-> TRUE]
        accept(a) == Send([ProcessVote(a, vote) EXCEPT !.processFinished = TRUE], vote)
    IN  UnlessFinished(SetProcessingProposal(s, d), accept)

RejectProposal(s, d) ==
    LET vote == [proposal |-> d, signer |-> s.self, accept |-> FALSE]
        reject(a) == IF d.block \in a.blocks THEN Send(ProcessVote(a, vote), vote) ELSE a
    IN  UnlessFinished(SetProcessingProposal(s, d), reject)

StartProposal(s, b) ==
    LET d == [sponsor |-> s.self, block |-> b, view |-> s.view]
    IN  IF s.processingBlock # None THEN s
        ELSE AcceptProposal(Send([s EXCEPT !.processingBlock = b], d), d)

TryStartSpeculatingProposal(s, b) ==
    IF s.processingBlock # None THEN s ELSE [s EXCEPT !.processingBlock = b]

(* ProposalDispatcher.ProcessProposal.  fromSponsor: the peer that sent it *)
(* is its sponsor; force: it comes out of the pending proposals.           *)
ProcessProposal(s, d, force, fromSponsor) ==
    LET Result(a, handled) == [a EXCEPT !.handled = handled]
        early == IF d.view > s.view
                 THEN [s EXCEPT !.precociousProposals = @ \cup {d}] ELSE s
        spec == TryStartSpeculatingProposal(s, d.block)
    IN  IF s.processingProposal = d \/ InLedger(s, d.block) \/ d.block = s.finishedBlock
        THEN Result(s, TRUE)
        ELSE IF d.view # s.view THEN Result(early, ~fromSponsor)
        ELSE IF ~force /\ d \in s.pendingProposals THEN Result(s, TRUE)
        ELSE IF ~IsLegalProposal(s, d) THEN Result(ProcessIllegalProposal(s, d), TRUE)
        ELSE IF OnDutyArbiter(Height(s), s.view) # d.sponsor
        THEN Result(RejectProposal(s, d), ~fromSponsor)
        ELSE IF d.block \notin s.blocks \/ ~s.running
        THEN Result([s EXCEPT !.pendingProposals = @ \cup {d}], TRUE)
        ELSE IF spec.processingBlock # d.block THEN Result(spec, ~fromSponsor)
        ELSE IF spec.processFinished THEN Result(spec, TRUE)
        ELSE Result(AcceptProposal(spec, d), TRUE)

(* A proposal that was processed is recorded by the illegal monitor.       *)
ProcessAndRecord(s, d, force, fromSponsor) ==
    AddProposal(ProcessProposal(s, d, force, fromSponsor), d)

(* Pending proposals for a block that has just arrived, and precocious     *)
(* ones for the view just entered, are processed now and dropped.          *)
ProcessPending(a, d) ==
    IF ~a.running THEN a
    ELSE [ProcessAndRecord(a, d, TRUE, FALSE) EXCEPT !.pendingProposals = @ \ {d}]
ProcessPrecocious(a, d) ==
    IF ~a.running \/ d.view # a.view THEN a
    ELSE [ProcessAndRecord(a, d, TRUE, FALSE) EXCEPT !.precociousProposals = @ \ {d}]

OnBlockAdded(s, b) == InTurn({d \in s.pendingProposals : d.block = b}, s, ProcessPending)
UpdatePrecociousProposals(s) == InTurn(s.precociousProposals, s, ProcessPrecocious)

-----------------------------------------------------------------------------
(* ConsensusBlockCache.  Reset keeps the blocks that are not below the new *)
(* height; the list it keeps for them is the old list with one of them     *)
(* appended once more (line 38), so a dropped block may stay first.  Which *)
(* one is appended does not matter: only the first entry is ever read.     *)
AddValue(s, b) == OnBlockAdded([s EXCEPT !.blocks = @ \cup {b}, !.list = Append(@, b)], b)

ResetCache(s, b) ==
    LET kept == {c \in s.blocks : c.h >= b.h}
    IN  [s EXCEPT !.blocks = kept,
                  !.list = IF kept = {} THEN <<>> ELSE Append(@, CHOOSE c \in kept : TRUE)]

-----------------------------------------------------------------------------
(* DPOSOnDutyHandler and DPOSNormalHandler: what depends on the duty.      *)
StartConsensus(s, b) == AddValue(SetRunning(ResetCache(s, b)), b)

OnDutyTryStart(s, b) == IF s.running THEN AddValue(s, b) ELSE StartProposal(StartConsensus(s, b), b)
NormalTryStart(s, b) == IF s.running THEN AddValue(s, b) ELSE StartConsensus(s, b)

(* A vote is counted only for the proposal being processed; an arbiter off *)
(* duty that knows no proposal keeps it and asks the sender for its own    *)
(* (which may come at any time, see DposArbiter!Deliver).                  *)
OnDutyProcessVote(s, v) ==
    IF s.running /\ s.processingProposal = v.proposal THEN ProcessVote(s, v) ELSE s
NormalProcessVote(s, v) ==
    IF ~s.running THEN s
    ELSE IF s.processingProposal = NoProposal THEN AddPendingVote(s, v)
    ELSE IF s.processingProposal = v.proposal THEN ProcessVote(s, v)
    ELSE s

OnDutyProcessProposal(s) == [s EXCEPT !.handled = FALSE]
NormalProcessProposal(s, from, d) == ProcessAndRecord(s, d, FALSE, from = d.sponsor)

OnDutyChangeView(s, b) == StartProposal(CleanProposals(s, TRUE), b)
NormalChangeView(s) == CleanProposals(s, TRUE)

-----------------------------------------------------------------------------
(* DPOSHandlerSwitch and DPOSManager.                                      *)
TryStartNewConsensus(s, b) ==
    IF b \in s.blocks THEN s
    ELSE IF s.onDuty THEN OnDutyTryStart(s, b) ELSE NormalTryStart(s, b)

(* A consensus that was started forgets the proposals not handled.         *)
ProcessHigherBlock(s, b) ==
    [TryStartNewConsensus(s, b) EXCEPT
        !.notHandled = IF ~s.running /\ b \notin s.blocks THEN {} ELSE @]

ConfirmBlock(s, b) == [FinishConsensus(s, b.h, b) EXCEPT !.notHandled = {}]

OnBlockReceived(s, b, confirmed) ==
    IF confirmed THEN ChangeOnDuty(ConfirmBlock(s, b))
    ELSE IF b.h > Height(s) /\ b.h > s.finishedHeight THEN ProcessHigherBlock(s, b)
    ELSE s

OnConfirmReceived(s, b) == ChangeOnDuty(ConfirmBlock(s, b))

ProcessPeerVote(s, v) == IF s.onDuty THEN OnDutyProcessVote(s, v) ELSE NormalProcessVote(s, v)
IfFinishedChangeDuty(s) == IF s.finished THEN ChangeOnDuty(s) ELSE s
OnVoteAccepted(s, v) == IfFinishedChangeDuty(ProcessPeerVote(s, v))
OnVoteRejected(s, v) == ProcessPeerVote(s, v)

(* A new view: the arbiter on duty proposes the block that came first, if  *)
(* it is still of use; else it keeps what it had.                          *)
OnViewChanged_LastBlock(s) ==
    IF s.onDuty /\ s.list = <<>> THEN s
    ELSE UpdatePrecociousProposals(
             IF s.onDuty THEN OnDutyChangeView(s, Last(s.list)) ELSE NormalChangeView(s))

OnViewChanged(s) ==
    LET usable == s.list # <<>> /\ s.list[1] \in s.blocks /\ s.list[1].h > s.finishedHeight
    IN  IF s.onDuty /\ ~usable THEN s
        ELSE UpdatePrecociousProposals(
                 IF s.onDuty THEN OnDutyChangeView(s, s.list[1]) ELSE NormalChangeView(s))

(* view.ChangeView with an offset of k > 0.                                *)
ChangeView_SameView(s, k) ==
    OnViewChanged(SwitchTo(s, OnDutyArbiter(Height(s), s.view) = s.self))

ChangeView_KeepHandler(s, k) == OnViewChanged([s EXCEPT !.view = @ + k])

ChangeView(s, k) ==
    LET s1 == [s EXCEPT !.view = @ + k]
    IN  OnViewChanged(SwitchTo(s1, OnDutyArbiter(Height(s), s1.view) = s.self))

(* Consensus status asked of the peers; the answers are awaited 2 seconds. *)
RecoverAbnormalState(s) == [s EXCEPT !.recoverStarted = TRUE, !.isAbnormal = TRUE]

OnRecover(s) == RecoverAbnormalState(ChangeOnDuty(s))

(* Enough peers whose proposal was not handled start the recovery.         *)
CountNotHandled(s, from) ==
    LET s1 == [s EXCEPT !.notHandled = @ \cup {from}]
    IN  IF s.handled THEN s
        ELSE IF HasMinority(Cardinality(s1.notHandled)) THEN RecoverAbnormalState(s1)
        ELSE s1

(* OnProposalReceived: an arbiter off duty first tries to change the view  *)
(* (late: the timer had expired).                                          *)
OnProposalReceived(s, from, d, late) ==
    CountNotHandled(
        IF s.onDuty THEN OnDutyProcessProposal(s)
        ELSE NormalProcessProposal(IF late THEN ChangeView(s, 1) ELSE s, from, d),
        from)

(* OnRecoverTimeout without an answer, and with one: DoRecover picks the   *)
(* status of one peer and adds to its view the time gone by since.  The    *)
(* votes of that status are taken over; the proposal they are for is not   *)
(* part of it, and neither the handler nor the processing block change.    *)
OnRecoverTimeout(s) == [s EXCEPT !.recoverStarted = FALSE]

RecoverDispatcher(s, status) ==
    [s EXCEPT !.acceptVotes = status.acceptVotes, !.rejectedVotes = {},
              !.pendingProposals = status.pendingProposals, !.pendingVotes = {}]
RecoverConsensus(s, status, view) == [s EXCEPT !.running = status.running, !.view = view]

RecoverAbnormal(s, status, view) ==
    IF ~s.isAbnormal THEN s
    ELSE [RecoverConsensus(RecoverDispatcher(s, status), status, view) EXCEPT !.isAbnormal = FALSE]

DoRecover(s, status, offset) ==
    LET s1 == [s EXCEPT !.notHandled = {}]
    IN  OnRecoverTimeout(IF status.running THEN RecoverAbnormal(s1, status, status.view + offset)
                         ELSE s1)
=============================================================================
