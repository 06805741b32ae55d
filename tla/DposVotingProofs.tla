-------------------------- MODULE DposVotingProofs --------------------------
(***************************************************************************)
(* Safety of the vote, for every number of arbiters of which fewer than a  *)
(* third is faulty.                                                        *)
(***************************************************************************)
EXTENDS DposVoting, FiniteSetTheorems, TLAPS

(* Sets of arbiters are finite and no larger than the whole.               *)
LEMMA ArbiterSets ==
    ASSUME NEW S \in SUBSET Arbiters
    PROVE  /\ IsFiniteSet(S)
           /\ Cardinality(S) \in Nat
           /\ Cardinality(S) <= Cardinality(Arbiters)
<1>1. IsFiniteSet(S)
    BY ArbitersAssumption, FS_Subset
<1>2. Cardinality(S) \in Nat
    BY <1>1, FS_CardinalityType
<1>3. Cardinality(S) <= Cardinality(Arbiters)
    BY ArbitersAssumption, FS_Subset
<1> QED
    BY <1>1, <1>2, <1>3

(* The arithmetic of two majorities: with n arbiters, p and q in them, u   *)
(* in their union and i in both, more than a third of n is in both.        *)
LEMMA MajorityArithmetic ==
    ASSUME NEW n \in Nat, NEW p \in Nat, NEW q \in Nat, NEW u \in Nat, NEW i \in Nat,
           u <= n, u = p + q - i,
           p > (n * 2) \div 3, q > (n * 2) \div 3
    PROVE  3 * i > n
<1> DEFINE m == (n * 2) \div 3
<1>1. m \in Int /\ 3 * m + 3 > n * 2
    OBVIOUS
<1>2. p >= m + 1 /\ q >= m + 1
    BY <1>1
<1> HIDE DEF m
<1>3. 3 * i >= 6 * m + 6 - 3 * n
    BY <1>1, <1>2
<1> QED
    BY <1>1, <1>3

(* Two majorities have a correct arbiter in common.                        *)
LEMMA MajoritiesMeet ==
    ASSUME NEW P \in SUBSET Arbiters, NEW Q \in SUBSET Arbiters,
           HasArbitersMajorityCount(Cardinality(P)),
           HasArbitersMajorityCount(Cardinality(Q))
    PROVE  \E a \in P \cap Q : a \notin Faulty
<1> DEFINE n == Cardinality(Arbiters)
           U == P \cup Q
           I == P \cap Q
<1>1. /\ IsFiniteSet(P) /\ IsFiniteSet(Q)
      /\ Cardinality(P) \in Nat /\ Cardinality(Q) \in Nat
      /\ Cardinality(U) \in Nat /\ Cardinality(U) <= n
      /\ Cardinality(I) \in Nat
    <2>1. U \in SUBSET Arbiters /\ I \in SUBSET Arbiters
        OBVIOUS
    <2> QED
        BY <2>1, ArbiterSets
<1>2. n \in Nat
    BY ArbitersAssumption, FS_CardinalityType
<1>3. Cardinality(U) = Cardinality(P) + Cardinality(Q) - Cardinality(I)
    BY <1>1, FS_Union
<1>4. Cardinality(P) > (n * 2) \div 3 /\ Cardinality(Q) > (n * 2) \div 3
    BY DEF HasArbitersMajorityCount, GetArbitersMajorityCount
<1>5. 3 * Cardinality(I) > n
    <2> HIDE DEF n, U, I
    <2> QED
        BY <1>1, <1>2, <1>3, <1>4, MajorityArithmetic
<1>6. CASE I \subseteq Faulty
    <2>1. IsFiniteSet(Faulty) /\ Cardinality(Faulty) \in Nat
        BY ArbitersAssumption, ArbiterSets
    <2>2. Cardinality(I) <= Cardinality(Faulty)
        BY <1>6, <2>1, FS_Subset
    <2>3. 3 * Cardinality(Faulty) < n
        BY FaultyAssumption
    <2> HIDE DEF I, n
    <2> QED
        BY <1>1, <1>2, <1>5, <2>1, <2>2, <2>3
<1> QED
    BY <1>6

-----------------------------------------------------------------------------
(* Votes are never withdrawn, so a confirm stays signed.                   *)
LEMMA InvInit == Init => Inv
BY DEF Init, Inv, TypeOK, CorrectVoteOnce, ConfirmsSigned

LEMMA AcceptProposalKeepsInv ==
    ASSUME Inv, NEW a \in Arbiters, NEW slot \in Slots, NEW block \in Blocks,
           AcceptProposal(a, slot, block)
    PROVE  Inv'
<1> DEFINE vote == [signer |-> a, slot |-> slot, block |-> block]
<1>1. votes' = votes \cup {vote} /\ confirms' = confirms
    BY DEF AcceptProposal
<1>2. TypeOK'
    BY <1>1 DEF Inv, TypeOK, Vote
<1>3. CorrectVoteOnce'
    <2> SUFFICES ASSUME NEW v \in votes', NEW w \in votes',
                        v.signer = w.signer, v.slot = w.slot, v.signer \notin Faulty
                 PROVE  v.block = w.block
        BY DEF CorrectVoteOnce
    <2>1. \A x \in votes : /\ x = [signer |-> x.signer, slot |-> x.slot, block |-> x.block]
                           /\ x.signer \in Arbiters /\ x.block \in Blocks
        BY DEF Inv, TypeOK, Vote
    <2>2. ASSUME NEW x \in votes, x.signer = a, x.slot = slot, a \notin Faulty
          PROVE  x.block = block
        <3>1. a \in Signers(slot, x.block)
            BY <2>1, <2>2 DEF Signers
        <3> QED
            BY <2>1, <2>2, <3>1 DEF AcceptProposal
    <2>3. CASE v \in votes /\ w \in votes
        BY <2>3 DEF Inv, CorrectVoteOnce
    <2>4. CASE v = vote /\ w \in votes
        BY <2>2, <2>4
    <2>5. CASE v \in votes /\ w = vote
        BY <2>2, <2>5
    <2>6. CASE v = vote /\ w = vote
        BY <2>6
    <2> QED
        BY <1>1, <2>3, <2>4, <2>5, <2>6
<1>4. ConfirmsSigned'
    <2>1. \A s, b : Signers(s, b) \subseteq Signers(s, b)'
        BY <1>1 DEF Signers
    <2> QED
        BY <1>1, <2>1 DEF Inv, ConfirmsSigned, HasArbitersMajorityCount,
                         GetArbitersMajorityCount
<1> QED
    BY <1>2, <1>3, <1>4 DEF Inv

LEMMA AcceptConfirmKeepsInv ==
    ASSUME Inv, NEW slot \in Slots, NEW block \in Blocks, NEW signers \in SUBSET Arbiters,
           AcceptConfirm(slot, block, signers)
    PROVE  Inv'
<1>1. votes' = votes
    BY DEF AcceptConfirm
<1>2. TypeOK'
    BY <1>1 DEF Inv, TypeOK, AcceptConfirm, Confirm
<1>3. CorrectVoteOnce'
    BY <1>1 DEF Inv, CorrectVoteOnce
<1>4. ConfirmsSigned'
    BY <1>1 DEF Inv, ConfirmsSigned, AcceptConfirm, Signers, HasArbitersMajorityCount,
                GetArbitersMajorityCount
<1> QED
    BY <1>2, <1>3, <1>4 DEF Inv

\* The invariant behind the safety of the vote: votes and confirms have their
\* types, correct arbiters accept one block in a slot (acceptProposal), and
\* the signers of a confirm are a majority that did sign (the two checks of
\* confirmvalidator.go).
THEOREM VotingInv == Spec => []Inv
<1>1. Init => Inv
    BY InvInit
<1>2. Inv /\ [Next]_vars => Inv'
    <2> SUFFICES ASSUME Inv, [Next]_vars PROVE Inv'
        OBVIOUS
    <2>1. CASE Next
        BY <2>1, AcceptProposalKeepsInv, AcceptConfirmKeepsInv DEF Next
    <2>2. CASE UNCHANGED vars
        BY <2>2 DEF vars, Inv, TypeOK, CorrectVoteOnce, ConfirmsSigned, Signers,
                    HasArbitersMajorityCount, GetArbitersMajorityCount
    <2> QED
        BY <2>1, <2>2
<1> QED
    BY <1>1, <1>2, PTL DEF Spec

(* A correct arbiter in both majorities accepted both blocks.              *)
LEMMA InvImpliesOneBlock == Inv => OneBlockPerView
<1> SUFFICES ASSUME Inv, NEW c \in confirms, NEW d \in confirms, c.slot = d.slot
             PROVE  c.block = d.block
    BY DEF OneBlockPerView
<1>1. /\ c.signers \in SUBSET Arbiters /\ d.signers \in SUBSET Arbiters
      /\ HasArbitersMajorityCount(Cardinality(c.signers))
      /\ HasArbitersMajorityCount(Cardinality(d.signers))
    BY DEF Inv, TypeOK, Confirm, ConfirmsSigned
<1>2. PICK a \in c.signers \cap d.signers : a \notin Faulty
    BY <1>1, MajoritiesMeet
<1>3. /\ [signer |-> a, slot |-> c.slot, block |-> c.block] \in votes
      /\ [signer |-> a, slot |-> d.slot, block |-> d.block] \in votes
    BY <1>2 DEF Inv, ConfirmsSigned, Signers
<1> QED
    BY <1>2, <1>3 DEF Inv, CorrectVoteOnce

\* For any number of arbiters, with fewer than a third of them faulty, no two
\* ledgers accept confirms for different blocks in one view of one height.
THEOREM VotingSafe == Spec => []OneBlockPerView
BY VotingInv, InvImpliesOneBlock, PTL
=============================================================================
