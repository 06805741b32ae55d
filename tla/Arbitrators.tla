---------------------------- MODULE Arbitrators -----------------------------
(***************************************************************************)
(* dpos/state/arbitrators.go and degradation.go: the arbiters of a round,  *)
(* those of the next one, the duty index, the rewards of the round, and    *)
(* the degradation to CRC arbiters only.                                   *)
(*                                                                         *)
(* A round ends when the last arbiter was on duty.  A payload that reports *)
(* inactive arbiters forces a new election: when a node receives it, which *)
(* may be before the block that holds it, or when that block comes.  All   *)
(* but the degradation is in an undo log, with two entries for each block  *)
(* and one for each forced change.                                         *)
(*                                                                         *)
(* The model is above PublicDPOSHeight and CRVotingStartHeight.  Producers *)
(* are ranked by their numbers.  The table of active producers is that of  *)
(* module Producers; blocks change it as they like.                        *)
(***************************************************************************)
EXTENDS Integers, Sequences, FiniteSets, SequencesExt, FiniteSetsExt

CONSTANTS
    CRC,                \* CRC arbiters
    Producers,          \* numbers, the one with most votes first
    Voted,              \* those with any votes
    GeneralArbiters,
    CandidateArbiters,
    Payloads,           \* reports of inactive arbiters
    Names,              \* the producers a report names
    MaxInactiveChanges, \* MaxNormalInactiveChangesCount
    Capacity,           \* maxHistoryCapacity
    Rewards,            \* what a block may bring
    MaxRollback,        \* bound: blocks a reorganization takes off
    MaxHeight,          \* bound: height
    MaxForks,           \* bound: reorganizations
    MaxRestarts         \* bound: restarts of the process

ASSUME CRCAssumption == IsFiniteSet(CRC) /\ Cardinality(CRC) > 1 /\ CRC \cap Producers = {}
ASSUME ProducersAssumption == IsFiniteSet(Producers) /\ GeneralArbiters \in Nat
ASSUME PayloadsAssumption ==
    IsFiniteSet(Payloads) /\ \A p \in Payloads : Names[p] \subseteq Producers
ASSUME CapacityAssumption == Capacity \in Nat \ {0} /\ MaxRollback \in Nat
ASSUME RewardsAssumption == Rewards \subseteq Nat /\ \E m \in Rewards : \A r \in Rewards : r <= m

VARIABLES
    n,          \* the fields of the node; last, paid, total and forces are
                \* the last block's reward, what coinbases paid, what blocks
                \* brought, and the forced changes so far
    log,        \* History.changes: the fields before each entry, with its height
    height,
    lost,       \* greatest height of an entry that fell out of the log
    highest,    \* greatest height there was
    past,       \* for the last heights, what the chain gives to a node that
                \* learns from blocks only and never rolls back
    early,      \* payloads processed since the last block
    undone,     \* payloads whose forced change was rolled back
    forks, restarts,
    rough       \* cases that set nodes apart and happened

vars == <<n, log, lost, height, highest, past, early, undone, forks, restarts, rough>>

Top(S, k) == {p \in S : Cardinality({q \in S : q <= p}) <= k}

-----------------------------------------------------------------------------
(* The degradation: InactiveModeSwitch, TryLeaveUnderStaffed and           *)
(* TrySetUnderstaffed.  The branch of the first that leaves the inactive   *)
(* mode asks for it in the normal mode, so it is never taken.              *)
Switched(s, version) ==
    IF s.mode = "normal" /\ Cardinality(s.reported) >= MaxInactiveChanges
    THEN [s EXCEPT !.mode = "inactive", !.since = version] ELSE s

Left_Understaffed(s, active) ==
    IF s.mode = "understaffed" /\ Cardinality(active) >= GeneralArbiters
    THEN [s EXCEPT !.mode = "normal", !.since = 0] ELSE s

Left(s, active) ==
    IF Cardinality(active) >= GeneralArbiters
    THEN [s EXCEPT !.mode = "normal", !.since = 0] ELSE s

Understaffed(s, version) == [s EXCEPT !.mode = "understaffed", !.since = version]

(* updateNextArbitrators.                                                  *)
Update(s, version) ==
    LET active == s.active \ s.temp
        voted == active \cap Voted
        t == Left(Switched(s, version), active)
        crcOnly == [t EXCEPT !.next = CRC, !.nextCandidates = {}]
    IN  IF t.mode # "normal" THEN crcOnly
        ELSE IF Cardinality(voted) < GeneralArbiters THEN Understaffed(crcOnly, version)
        ELSE [t EXCEPT !.next = CRC \cup Top(voted, GeneralArbiters),
                       !.nextCandidates = Top(voted, GeneralArbiters + CandidateArbiters)
                                          \ Top(voted, GeneralArbiters)]

(* changeCurrentArbitrators.                                               *)
ChangeCurrent_KeepDuty(s) ==
    [s EXCEPT !.current = s.next, !.candidates = s.nextCandidates]

ChangeCurrent(s) ==
    [s EXCEPT !.current = s.next, !.candidates = s.nextCandidates, !.duty = 0]

(* clearingDPOSReward: what was gathered becomes the reward of the round,  *)
(* which the coinbase of the next block pays.                              *)
Clear_Accumulated(s, h, reward, smooth) ==
    IF h = s.cleared THEN s
    ELSE [s EXCEPT !.round = s.gathered, !.gathered = IF smooth THEN 0 ELSE reward, !.cleared = h]

Clear(s, h, reward, smooth) ==
    IF h = s.cleared THEN s
    ELSE [s EXCEPT !.round = s.gathered + (IF smooth THEN reward ELSE 0),
                   !.gathered = IF smooth THEN 0 ELSE reward,
                   !.cleared = h]

(* accumulateReward.                                                       *)
Accumulate(s, reward) ==
    [s EXCEPT !.gathered = @ + (IF s.forced THEN 0 ELSE reward),
              !.round = 0, !.forced = FALSE, !.duty = @ + 1]

(* ProcessSpecialTxPayload: the state of the producers changes for now,    *)
(* and ForceChange elects and changes at once.                             *)
ForceChange(s, h) ==
    [ChangeCurrent(Update(Clear(s, h, s.last, FALSE), h + 1))
        EXCEPT !.forced = TRUE, !.forces = @ + 1]

Process(s, p, h) ==
    ForceChange([s EXCEPT !.reported = @ \cup {p}, !.temp = @ \cup Names[p]], h)

(* State.ProcessBlock, then IncreaseChainHeight.                           *)
Increase(s, b, h) ==
    LET t == [s EXCEPT !.temp = {}, !.active = b.active, !.last = b.reward,
                       !.paid = @ + s.round, !.total = @ + b.reward]
    IN  IF s.duty = Cardinality(s.current) - 1
        THEN Update(ChangeCurrent(Clear(t, h, b.reward, TRUE)), h + 1)
        ELSE Accumulate(t, b.reward)

-----------------------------------------------------------------------------
Fresh ==
    Update([current |-> CRC, candidates |-> {}, next |-> CRC, nextCandidates |-> {},
            duty |-> 0, gathered |-> 0, round |-> 0, cleared |-> 0, forced |-> FALSE,
            active |-> Producers, temp |-> {}, last |-> 0,
            paid |-> 0, total |-> 0, forces |-> 0,
            mode |-> "normal", since |-> 0, reported |-> {}], 1)

Init ==
    /\ n = Fresh
    /\ log = <<>> /\ lost = 0 /\ height = 0 /\ highest = 0 /\ past = <<n>>
    /\ early = {} /\ undone = {} /\ forks = 0 /\ restarts = 0 /\ rough = {}

(* Entries go to the end of the log; the oldest fall out.                  *)
Entry(s, h) == [fields |-> s, height |-> h]
Trim(l) == SubSeq(l, Max({1, Len(l) - Capacity + 1}), Len(l))
Dropped(l) == Max({lost} \cup {l[i].height : i \in 1..(Len(l) - Capacity)})

Case(happened, name) == IF happened THEN {name} ELSE {}

(* Payloads in turn: each forced change is an entry of the next height.    *)
Forced_SameHeight(s, l, ps, h) ==
    LET run[i \in 0..Len(ps)] ==
            IF i = 0 THEN <<s, l>>
            ELSE IF ps[i] \in run[i - 1][1].reported THEN run[i - 1]
            ELSE <<Process(run[i - 1][1], ps[i], h), Append(run[i - 1][2], Entry(run[i - 1][1], h))>>
    IN  run[Len(ps)]

Forced(s, l, ps, h) ==
    LET run[i \in 0..Len(ps)] ==
            IF i = 0 THEN <<s, l>>
            ELSE IF ps[i] \in run[i - 1][1].reported THEN run[i - 1]
            ELSE <<Process(run[i - 1][1], ps[i], h), Append(run[i - 1][2], Entry(run[i - 1][1], h + 1))>>
    IN  run[Len(ps)]

(* A payload arrives in a message, or in a block that is refused later.    *)
Receive(p) ==
    LET x == Forced(n, log, <<p>>, height)
    IN  /\ height < MaxHeight
        /\ n' = x[1] /\ log' = Trim(x[2]) /\ lost' = Dropped(x[2])
        /\ early' = early \cup {p}
        /\ rough' = rough \cup Case(p \in undone, "again")
        /\ UNCHANGED <<height, highest, past, undone, forks, restarts>>

(* connectBlock: PreProcessSpecialTx, then the arbiters process the block. *)
Connect(b) ==
    LET h == height + 1
        x == Forced(n, log, b.special, height)
        l == x[2] \o <<Entry(x[1], h), Entry(n', h)>>
    IN  /\ h <= MaxHeight
        /\ n' = Increase(x[1], b, h)
        /\ log' = Trim(l) /\ lost' = Dropped(l)
        /\ height' = h /\ highest' = Max({highest, h})
        /\ past' = Append(IF Len(past) > MaxRollback THEN Tail(past) ELSE past,
                          Increase(Forced(Last(past), <<>>, b.special, height)[1], b, h))
        /\ early' = {}
        /\ rough' = rough \cup Case(~(early \subseteq Range(b.special)), "late")
                         \cup Case(Range(b.special) \cap undone # {}, "again")
        /\ UNCHANGED <<undone, forks, restarts>>

(* RollbackTo: the entries above the height, then the degradation.         *)
RollbackMode(s, h) == IF h < s.since THEN [s EXCEPT !.mode = "normal", !.since = 0] ELSE s

Disconnect ==
    LET h == height - 1
        above == {i \in DOMAIN log : log[i].height > h}
        fields == IF above = {} THEN n ELSE log[Min(above)].fields
    IN  /\ Len(past) > 1 /\ highest - height < MaxRollback
        /\ highest = height => forks < MaxForks
        /\ forks' = IF highest = height THEN forks + 1 ELSE forks
        /\ n' = RollbackMode([fields EXCEPT !.mode = n.mode, !.since = n.since,
                                            !.reported = n.reported, !.temp = {}], h)
        /\ log' = IF above = {} THEN log ELSE SubSeq(log, 1, Min(above) - 1)
        /\ height' = h /\ past' = Front(past)
        /\ undone' = n.reported \ Last(past').reported
        /\ rough' = rough \cup Case(height <= lost, "short") /\ early' = {}
        /\ UNCHANGED <<highest, lost, restarts>>

(* recoverFromCheckPoints, of a checkpoint of this height: the mode, the   *)
(* payloads and the log are gone.  The checkpoint is that of a node which  *)
(* is where its chain puts it: none of the rough cases is saved in it.     *)
Restart ==
    /\ restarts < MaxRestarts /\ restarts' = restarts + 1
    /\ rough = {}
    /\ n' = [Last(past) EXCEPT !.mode = "normal", !.since = 0, !.reported = {}, !.forced = FALSE]
    /\ log' = <<>> /\ lost' = height /\ early' = {} /\ undone' = {}
    /\ UNCHANGED <<height, highest, past, forks, rough>>

(* A report comes once: checkInactiveArbitratorsTransaction refuses one    *)
(* that the chain has.  Those it names leave the active producers; a block *)
(* without a report brings or takes one producer at most.                  *)
Block(special, flip, reward) ==
    [special |-> special, reward |-> reward,
     active |-> SymDiff(Last(past).active, flip) \ UNION {Names[p] : p \in Range(special)}]

Blocks ==
    {Block(special, {}, r) :
        special \in UNION {SetToSeqs(ps) : ps \in SUBSET (Payloads \ Last(past).reported)},
        r \in Rewards}
    \cup {Block(<<>>, {p}, r) : p \in Producers, r \in Rewards}

Next ==
    \/ \E p \in Payloads \ Last(past).reported : Receive(p)
    \/ \E b \in Blocks : Connect(b)
    \/ Disconnect \/ Restart

Spec == Init /\ [][Next]_vars

-----------------------------------------------------------------------------
(* What of a node decides which blocks and confirms it accepts.            *)
View(s) == [current |-> s.current, candidates |-> s.candidates, next |-> s.next,
            duty |-> s.duty, round |-> s.round, gathered |-> s.gathered]

\* Nodes with one chain have the same arbiters, on duty at the same heights,
\* and expect the same rewards, whenever they learnt of the inactive ones and
\* whatever they rolled back or restarted: unless a payload taken early was
\* not in the next block, or comes back after a rollback (inactiveTxs), or the
\* log was too short.
FollowsChain == rough = {} /\ early = {} => View(n) = View(Last(past))

\* The same, when payloads come back after a rollback: it resets "inactive
\* related state" if it goes "to the height before abnormal mode was set".
FollowsChainAgain == rough \subseteq {"again"} /\ early = {} => View(n) = View(Last(past))

\* The duty index stays within the round: getChangeType ends it by an equality
\* that a greater index would miss for ever.
DutyInRound == n.duty < Cardinality(n.current)

\* The mode of degradation never decides an election, so that a restart or a
\* rollback that loses it is harmless: who is elected depends on the active
\* producers alone.
ModeIrrelevant ==
    Update(n, height).next = Update([n EXCEPT !.mode = "normal", !.reported = {}], height).next

\* The shares of the blocks are paid exactly once, in the round they belong
\* to; a forced change, which takes the share of the last block for that of
\* the next, misplaces one block's share at most.
RewardsConserved ==
    LET kept == n.paid + n.round + n.gathered
        due == n.total + (IF n.forced THEN n.last ELSE 0)
        most == Max(Rewards)
    IN  rough = {} => kept - due \in -(n.forces * most) .. n.forces * (most - Min(Rewards))
=============================================================================
