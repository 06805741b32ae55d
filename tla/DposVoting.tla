----------------------------- MODULE DposVoting -----------------------------
(***************************************************************************)
(* What the consensus of the arbiters promises, without how: arbiters sign *)
(* accept votes, a ledger takes a block with a confirm, and a confirm is a *)
(* set of votes for one proposal that ConfirmSanityCheck and               *)
(* ConfirmContextCheck (blockchain/confirmvalidator.go) let through.       *)
(*                                                                         *)
(* A slot is a view of a height.  Correct arbiters accept one block in a   *)
(* slot: that is what VotesOncePerView of module DposArbiter checks of the *)
(* manager's code.  The others sign anything.                              *)
(***************************************************************************)
EXTENDS Integers, FiniteSets

CONSTANTS
    Arbiters,   \* the current arbiters
    Faulty,     \* those that may accept any block
    Slots,      \* views of heights
    Blocks

ASSUME ArbitersAssumption == IsFiniteSet(Arbiters) /\ Faulty \subseteq Arbiters
ASSUME FaultyAssumption == 3 * Cardinality(Faulty) < Cardinality(Arbiters)

VARIABLES
    votes,      \* accept votes signed: [signer, slot, block]
    confirms    \* confirms accepted by a ledger: [slot, block, signers]

vars == <<votes, confirms>>

Vote == [signer : Arbiters, slot : Slots, block : Blocks]
Confirm == [slot : Slots, block : Blocks, signers : SUBSET Arbiters]

-----------------------------------------------------------------------------
(* dpos/state/arbitrators.go.                                              *)
GetArbitersMajorityCount == (Cardinality(Arbiters) * 2) \div 3
HasArbitersMajorityCount_AtLeast(num) == num >= GetArbitersMajorityCount
HasArbitersMajorityCount(num) == num > GetArbitersMajorityCount

Signers(slot, block) == {a \in Arbiters : [signer |-> a, slot |-> slot, block |-> block] \in votes}

Init == votes = {} /\ confirms = {}

(* acceptProposal of the arbiter a.                                        *)
AcceptProposal_Again(a, slot, block) ==
    /\ votes' = votes \cup {[signer |-> a, slot |-> slot, block |-> block]}
    /\ UNCHANGED confirms

AcceptProposal(a, slot, block) ==
    /\ a \in Faulty \/ \A b \in Blocks : a \in Signers(slot, b) => b = block
    /\ votes' = votes \cup {[signer |-> a, slot |-> slot, block |-> block]}
    /\ UNCHANGED confirms

(* A ledger checks a confirm: every vote is for its proposal, and there is *)
(* a majority of distinct signers.                                         *)
AcceptConfirm(slot, block, signers) ==
    /\ signers \subseteq Signers(slot, block)
    /\ HasArbitersMajorityCount(Cardinality(signers))
    /\ confirms' = confirms \cup {[slot |-> slot, block |-> block, signers |-> signers]}
    /\ UNCHANGED votes

Next ==
    \E slot \in Slots, block \in Blocks :
        \/ \E a \in Arbiters : AcceptProposal(a, slot, block)
        \/ \E signers \in SUBSET Arbiters : AcceptConfirm(slot, block, signers)

Spec == Init /\ [][Next]_vars

-----------------------------------------------------------------------------
TypeOK == votes \subseteq Vote /\ confirms \subseteq Confirm

\* A correct arbiter has accepted at most one block in a slot.
CorrectVoteOnce ==
    \A v, w \in votes :
        v.signer = w.signer /\ v.slot = w.slot /\ v.signer \notin Faulty => v.block = w.block

\* The signers of a confirm are a majority and did sign.
ConfirmsSigned ==
    \A c \in confirms :
        /\ c.signers \subseteq Signers(c.slot, c.block)
        /\ HasArbitersMajorityCount(Cardinality(c.signers))

Inv == TypeOK /\ CorrectVoteOnce /\ ConfirmsSigned

\* Two ledgers never accept confirms for different blocks in one view of one
\* height: the count ConfirmContextCheck compares with the majority is enough.
OneBlockPerView ==
    \A c, d \in confirms : c.slot = d.slot => c.block = d.block
=============================================================================
