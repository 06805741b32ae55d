------------------------- MODULE DposArbiterProofs -------------------------
(***************************************************************************)
(* What one arbiter may sign, for every number of arbiters, every set of   *)
(* blocks and every bound.                                                 *)
(***************************************************************************)
EXTENDS DposArbiter, FiniteSetTheorems, SequenceTheorems, WellFoundedInduction, TLAPS

(* The parts of an arbiter's state.                                        *)
Fields ==
    {"self", "running", "view", "onDuty", "finishedHeight", "finishedBlock", "processingBlock",
     "processingProposal", "acceptVotes", "rejectedVotes", "pendingVotes", "pendingProposals",
     "precociousProposals", "processFinished", "cachedProposals", "blocks", "list", "notHandled",
     "recoverStarted", "isAbnormal", "evidence", "pool", "chain", "events", "todo", "out",
     "finished", "handled"}

-----------------------------------------------------------------------------
(* Loops over sets.                                                        *)

(* Induction up to a bound.                                                *)
LEMMA UpTo ==
    ASSUME NEW n \in Nat, NEW T, 0 \in T, \A i \in 1..n : i - 1 \in T => i \in T
    PROVE  \A i \in 0..n : i \in T
<1> DEFINE Out == {i \in 0..n : i \notin T}
<1> SUFFICES ASSUME Out # {} PROVE FALSE
    OBVIOUS
<1>1. PICK m \in Out : \A y \in Out : ~(<<y, m>> \in OpToRel(<, Nat))
    <2>1. Out \subseteq Nat
        OBVIOUS
    <2> HIDE DEF Out
    <2> QED
        BY <2>1, NatLessThanWellFounded, WFMin
<1>2. m \in 1..n /\ m - 1 \in 0..n /\ m - 1 < m
    OBVIOUS
<1>3. m - 1 \notin Out
    <2>1. m - 1 \in Nat /\ m \in Nat
        BY <1>2
    <2>2. <<m - 1, m>> \in OpToRel(<, Nat)
        BY <1>2, <2>1 DEF OpToRel
    <2> HIDE DEF Out
    <2> QED
        BY <1>1, <2>2
<1> QED
    BY <1>2, <1>3

(* SetToSeq lists the elements of a finite set.                            *)
LEMMA Listed ==
    ASSUME NEW S, IsFiniteSet(S)
    PROVE  Cardinality(S) \in Nat /\ \A i \in 1..Cardinality(S) : SetToSeq(S)[i] \in S
<1>2. Cardinality(S) \in Nat /\ ExistsBijection(1..Cardinality(S), S)
    BY FS_CardinalityType
<1>3. PICK f \in [1..Cardinality(S) -> S] : \A i, j \in 1..Cardinality(S) : f[i] = f[j] => i = j
    BY <1>2 DEF ExistsBijection, Bijection, Injection, IsInjective
<1>4. IsInjective(f)
    BY <1>3 DEF IsInjective
<1>5. SetToSeq(S) \in [1..Cardinality(S) -> S] /\ IsInjective(SetToSeq(S))
    BY <1>3, <1>4 DEF SetToSeq
<1> QED
    BY <1>2, <1>5

(* What is left of a sequence when one element is taken out.               *)
LEMMA RemoveElements ==
    ASSUME NEW S, NEW l \in Seq(S), NEW k \in 1..Len(l)
    PROVE  /\ RemoveAt(l, k) \in Seq(S) /\ Len(RemoveAt(l, k)) = Len(l) - 1
           /\ \A i \in 1..(Len(l) - 1) : RemoveAt(l, k)[i] = IF i < k THEN l[i] ELSE l[i + 1]
<1> DEFINE n == Len(l)
           a == SubSeq(l, 1, k - 1)
           b == SubSeq(l, k + 1, n)
<1>1. n \in Nat /\ k \in Nat /\ k >= 1 /\ k <= n /\ \A i \in 1..n : l[i] \in S
    BY LenProperties, ElementOfSeq
<1>2. a \in Seq(S) /\ Len(a) = k - 1 /\ \A i \in 1..(k - 1) : a[i] = l[i]
    <2>1. 1 \in Int /\ k - 1 \in Int /\ \A i \in 1..(k - 1) : l[i] \in S
        BY <1>1
    <2>2. /\ a \in Seq(S) /\ Len(a) = IF 1 <= k - 1 THEN k - 1 - 1 + 1 ELSE 0
          /\ \A i \in 1..(k - 1 - 1 + 1) : a[i] = l[1 + i - 1]
        BY <2>1, SubSeqProperties
    <2> QED
        BY <1>1, <2>2
<1>3. b \in Seq(S) /\ Len(b) = n - k /\ \A i \in 1..(n - k) : b[i] = l[k + i]
    <2>1. k + 1 \in Int /\ n \in Int /\ \A i \in (k + 1)..n : l[i] \in S
        BY <1>1
    <2>2. /\ b \in Seq(S) /\ Len(b) = IF k + 1 <= n THEN n - (k + 1) + 1 ELSE 0
          /\ \A i \in 1..(n - (k + 1) + 1) : b[i] = l[(k + 1) + i - 1]
        BY <2>1, SubSeqProperties
    <2> QED
        BY <1>1, <2>2
<1> HIDE DEF a, b
<1>4. /\ a \o b \in Seq(S) /\ Len(a \o b) = Len(a) + Len(b)
      /\ \A i \in 1..(Len(a) + Len(b)) : (a \o b)[i] = IF i <= Len(a) THEN a[i] ELSE b[i - Len(a)]
    BY <1>2, <1>3, ConcatProperties
<1>5. RemoveAt(l, k) = a \o b
    BY DEF RemoveAt, a, b
<1> DEFINE r == a \o b
<1>6. /\ r \in Seq(S) /\ Len(r) = n - 1
      /\ \A i \in 1..(n - 1) : r[i] = IF i <= k - 1 THEN a[i] ELSE b[i - (k - 1)]
    BY <1>1, <1>2, <1>3, <1>4
<1> HIDE DEF r
<1>7. ASSUME NEW i \in 1..(n - 1) PROVE r[i] = IF i < k THEN l[i] ELSE l[i + 1]
    <2>1. CASE i < k
        BY <1>1, <1>2, <1>6, <2>1
    <2>2. CASE ~(i < k)
        <3>1. i - (k - 1) \in 1..(n - k) /\ k + (i - (k - 1)) = i + 1
            BY <1>1, <2>2
        <3>2. b[i - (k - 1)] = l[i + 1]
            BY <1>3, <3>1
        <3> QED
            BY <1>1, <1>6, <2>2, <3>2
    <2> QED
        BY <2>1, <2>2
<1> QED
    BY <1>5, <1>6, <1>7 DEF r

-----------------------------------------------------------------------------
(* The parts that only the ledger and the start of a height change.        *)
Held(s, t) ==
    /\ DOMAIN t = Fields
    /\ t.self = s.self /\ t.chain = s.chain /\ t.blocks = s.blocks /\ t.list = s.list
    /\ t.events = s.events /\ t.pool = s.pool

(* The height is worked on in the same view.                               *)
Going(s, t) ==
    /\ t.running = s.running /\ t.view = s.view /\ t.onDuty = s.onDuty
    /\ t.finishedHeight = s.finishedHeight

Stayed(s, t) ==
    /\ Held(s, t) /\ Going(s, t)
    /\ t.processingBlock = s.processingBlock /\ t.processFinished = s.processFinished

(* A minority rejected the proposal: the arbiter may take another one.     *)
Dropped(s, t) ==
    /\ Held(s, t) /\ Going(s, t)
    /\ t.processingBlock = None /\ t.processFinished = FALSE
    /\ t.acceptVotes = {} /\ t.pendingVotes = {}

(* The height is finished.                                                 *)
Ended(s, t) ==
    /\ Held(s, t) /\ s.running /\ t.running = FALSE /\ t.view = 0
    /\ t.onDuty = (OnDutyArbiter(Height(s), 0) = s.self)
    /\ t.processingBlock = None /\ t.acceptVotes = {} /\ t.pendingVotes = {}

(* Nothing new is kept for later.                                          *)
Fewer(s, t) ==
    /\ t.pendingVotes \subseteq s.pendingVotes
    /\ t.pendingProposals \subseteq s.pendingProposals
    /\ t.precociousProposals \subseteq s.precociousProposals

(* What a vote v that is counted does to the state.                        *)
Counts(s, v, t) ==
    /\ Fewer(s, t) /\ t.out = s.out
    /\ \/ /\ Stayed(s, t) /\ t.pendingVotes = s.pendingVotes
          /\ t.acceptVotes \subseteq s.acceptVotes \cup (IF v.accept THEN {v} ELSE {})
       \/ ~v.accept /\ Dropped(s, t) /\ t.finished
       \/ /\ v.accept /\ Ended(s, t) /\ t.finished
          /\ s.processingBlock # None /\ t.finishedHeight = s.processingBlock.h
          /\ s.acceptVotes = {} => N = 1

LEMMA CleanCounts ==
    ASSUME NEW s, DOMAIN s = Fields, NEW c
    PROVE  /\ Fewer(s, CleanProposals(s, c)) /\ CleanProposals(s, c).out = s.out
           /\ Dropped(s, CleanProposals(s, c))
BY DEF Fields, CleanProposals, ResetMonitor, Fewer, Dropped, Held, Going

LEMMA FinishCounts ==
    ASSUME NEW s, DOMAIN s = Fields, NEW h, NEW b
    PROVE  LET t == FinishConsensus(s, h, b)
           IN  /\ s.running => Fewer(s, t) /\ Ended(s, t) /\ t.finishedHeight = h /\ t.out = s.out
               /\ ~s.running => t = s
BY DEF Fields, FinishConsensus, CleanProposals, ResetMonitor, SetReady, ChangeOnDuty, SwitchTo, Height,
       Fewer, Ended, Held, Going

LEMMA ProposalCounts ==
    ASSUME NEW s, DOMAIN s = Fields, NEW t, t = FinishProposal(s)
    PROVE  /\ Fewer(s, t) /\ t.out = s.out
           /\ \/ Stayed(s, t) /\ t.pendingVotes = s.pendingVotes /\ t.acceptVotes = s.acceptVotes
              \/ /\ Ended(s, t) /\ t.finished
                 /\ s.processingBlock # None /\ t.finishedHeight = s.processingBlock.h
<1> DEFINE a == AppendConfirmLater(s)
           c == FinishConsensus(a, s.processingBlock.h, s.processingBlock)
<1>1. CASE s.processingBlock = None
    BY <1>1 DEF FinishProposal, Fields, Fewer, Stayed, Held, Going
<1>2. CASE s.processingBlock # None
    <2>1. t = [c EXCEPT !.finished = TRUE]
        BY <1>2 DEF FinishProposal
    <2>2. /\ DOMAIN a = Fields /\ Stayed(s, a) /\ a.out = s.out /\ a.acceptVotes = s.acceptVotes
          /\ a.pendingVotes = s.pendingVotes /\ a.pendingProposals = s.pendingProposals
          /\ a.precociousProposals = s.precociousProposals
        BY DEF AppendConfirmLater, Fields, Stayed, Held, Going
    <2> HIDE DEF a
    <2>3. /\ a.running => Fewer(a, c) /\ Ended(a, c) /\ c.finishedHeight = s.processingBlock.h /\ c.out = a.out
          /\ ~a.running => c = a
        BY <2>2, FinishCounts
    <2> HIDE DEF c
    <2>4. CASE a.running
        <3>1. Ended(a, c) /\ Fewer(a, c) /\ c.finishedHeight = s.processingBlock.h /\ c.out = a.out
            BY <2>3, <2>4
        <3>2. Ended(a, t) /\ Fewer(a, t) /\ t.finishedHeight = s.processingBlock.h /\ t.out = a.out /\ t.finished
            BY <2>1, <3>1 DEF Fields, Fewer, Ended, Held
        <3>3. Ended(s, t)
            BY <2>2, <3>2 DEF Ended, Stayed, Held, Going, Height
        <3> QED
            BY <1>2, <2>2, <3>2, <3>3 DEF Fewer
    <2>5. CASE ~a.running
        BY <1>2, <2>1, <2>2, <2>3, <2>5 DEF Fields, Fewer, Stayed, Ended, Held, Going
    <2> QED
        BY <2>4, <2>5
<1> QED
    BY <1>1, <1>2

LEMMA VoteCounts ==
    ASSUME NEW s, DOMAIN s = Fields, NEW v, NEW t, t = ProcessVote(s, v)
    PROVE  Counts(s, v, t)
<1>1. CASE AlreadyExistVote(s, v)
    BY <1>1 DEF ProcessVote, Counts, Fields, Fewer, Stayed, Held, Going
<1>2. CASE ~AlreadyExistVote(s, v) /\ ~IsLegalVote(s, v)
    BY <1>2 DEF ProcessVote, ProcessIllegalVote, Counts, Fields, Fewer, Stayed, Held, Going
<1>3. CASE ~AlreadyExistVote(s, v) /\ IsLegalVote(s, v) /\ v.accept
    <2> DEFINE a == [s EXCEPT !.acceptVotes = @ \cup {v}]
    <2>1. t = IF HasMajority(Cardinality(a.acceptVotes)) THEN FinishProposal(a)
              ELSE [a EXCEPT !.finished = FALSE]
        BY <1>3 DEF ProcessVote, CountAcceptedVote
    <2>2. /\ DOMAIN a = Fields /\ Stayed(s, a) /\ a.out = s.out
          /\ a.acceptVotes = s.acceptVotes \cup {v}
          /\ a.pendingVotes = s.pendingVotes /\ a.pendingProposals = s.pendingProposals
          /\ a.precociousProposals = s.precociousProposals
        BY DEF Fields, Stayed, Held, Going
    <2> HIDE DEF a
    <2>3. CASE HasMajority(Cardinality(a.acceptVotes))
        <3>1. s.acceptVotes = {} => N = 1
            <4> SUFFICES ASSUME s.acceptVotes = {} PROVE N = 1
                OBVIOUS
            <4>1. a.acceptVotes = {v}
                BY <2>2
            <4>2. Cardinality(a.acceptVotes) = 1
                BY <4>1, FS_Singleton
            <4>3. 1 > (N * 2) \div 3
                BY <2>3, <4>2 DEF HasMajority, MajorityCount
            <4> QED
                BY <4>3, NAssumption
        <3>2. t = FinishProposal(a)
            BY <2>1, <2>3
        <3>3. /\ Fewer(a, t) /\ t.out = a.out
              /\ \/ Stayed(a, t) /\ t.pendingVotes = a.pendingVotes /\ t.acceptVotes = a.acceptVotes
                 \/ /\ Ended(a, t) /\ t.finished
                    /\ a.processingBlock # None /\ t.finishedHeight = a.processingBlock.h
            BY <2>2, <3>2, ProposalCounts
        <3> QED
            BY <1>3, <2>2, <3>1, <3>3 DEF Counts, Fewer, Stayed, Ended, Held, Going, Height
    <2>4. CASE ~HasMajority(Cardinality(a.acceptVotes))
        BY <1>3, <2>1, <2>2, <2>4 DEF Counts, Fields, Fewer, Stayed, Held, Going
    <2> QED
        BY <2>3, <2>4
<1>4. CASE ~AlreadyExistVote(s, v) /\ IsLegalVote(s, v) /\ ~v.accept
    <2> DEFINE a == [s EXCEPT !.rejectedVotes = @ \cup {v}]
               c == CleanProposals(a, TRUE)
    <2>1. t = IF HasMinority(Cardinality(a.rejectedVotes)) THEN [c EXCEPT !.finished = TRUE]
              ELSE [a EXCEPT !.finished = FALSE]
        BY <1>4 DEF ProcessVote, CountRejectedVote
    <2>2. /\ DOMAIN a = Fields /\ Stayed(s, a) /\ a.out = s.out
          /\ a.acceptVotes = s.acceptVotes
          /\ a.pendingVotes = s.pendingVotes /\ a.pendingProposals = s.pendingProposals
          /\ a.precociousProposals = s.precociousProposals
        BY DEF Fields, Stayed, Held, Going
    <2> HIDE DEF a
    <2>3. Fewer(a, c) /\ c.out = a.out /\ Dropped(a, c)
        BY <2>2, CleanCounts
    <2> HIDE DEF c
    <2>4. CASE HasMinority(Cardinality(a.rejectedVotes))
        BY <1>4, <2>1, <2>2, <2>3, <2>4 DEF Counts, Fields, Fewer, Stayed, Dropped, Held, Going
    <2>5. CASE ~HasMinority(Cardinality(a.rejectedVotes))
        BY <1>4, <2>1, <2>2, <2>5 DEF Counts, Fields, Fewer, Stayed, Held, Going
    <2> QED
        BY <2>4, <2>5
<1> QED
    BY <1>1, <1>2, <1>3, <1>4

(* The replay of pending votes is a run.                                   *)
ReplayAll(S, s) == InTurn(S, s, Replay)

LEMMA ReplayRuns ==
    ASSUME NEW S, IsFiniteSet(S), NEW s, NEW t, t = ReplayAll(S, s)
    PROVE  \E g : /\ g[0] = s /\ t = g[Cardinality(S)]
                  /\ \A i \in 1..Cardinality(S) : g[i] = Replay(g[i - 1], SetToSeq(S)[i])
<1> DEFINE n == Cardinality(S)
           Good(m, g) == g = [i \in 0..m |-> IF i = 0 THEN s ELSE Replay(g[i - 1], SetToSeq(S)[i])]
           T == {m \in 0..n : \E g : Good(m, g)}
           run == CHOOSE g : Good(n, g)
<1>1. n \in Nat
    BY Listed
<1>2. t = run[n]
    BY DEF ReplayAll, InTurn
<1> HIDE DEF n
<1>3. 0 \in T
    <2> DEFINE f == [i \in 0..0 |-> s]
    <2>1. Good(0, f) /\ 0 \in 0..n
        BY <1>1
    <2> HIDE DEF f, Good
    <2> QED
        BY <2>1
<1>4. ASSUME NEW m \in 1..n, m - 1 \in T PROVE m \in T
    <2>1. PICK g : Good(m - 1, g)
        BY <1>4
    <2> DEFINE f == [i \in 0..m |-> IF i = m THEN Replay(g[m - 1], SetToSeq(S)[m]) ELSE g[i]]
    <2>2. \A i \in 0..(m - 1) : f[i] = g[i]
        BY <1>1
    <2>3. f[m] = Replay(g[m - 1], SetToSeq(S)[m]) /\ DOMAIN f = 0..m /\ m # 0 /\ m - 1 \in 0..(m - 1)
        BY <1>1
    <2>4. f = [i \in 0..m |-> f[i]]
        OBVIOUS
    <2> HIDE DEF f
    <2>5. ASSUME NEW i \in 0..m
          PROVE  f[i] = IF i = 0 THEN s ELSE Replay(f[i - 1], SetToSeq(S)[i])
        <3>1. CASE i = m
            BY <2>2, <2>3, <3>1
        <3>2. CASE i # m
            <4>1. i \in 0..(m - 1) /\ (i # 0 => i - 1 \in 0..(m - 1))
                BY <1>1, <3>2
            <4>2. g[i] = IF i = 0 THEN s ELSE Replay(g[i - 1], SetToSeq(S)[i])
                BY <2>1, <4>1
            <4> QED
                BY <2>2, <4>1, <4>2
        <3> QED
            BY <3>1, <3>2
    <2>6. Good(m, f) /\ m \in 0..n
        <3>1. [i \in 0..m |-> f[i]]
              = [i \in 0..m |-> IF i = 0 THEN s ELSE Replay(f[i - 1], SetToSeq(S)[i])]
            BY <2>5
        <3>2. m \in 0..n
            BY <1>1
        <3> QED
            BY <2>4, <3>1, <3>2
    <2> HIDE DEF Good
    <2> QED
        BY <2>6
<1>5. Good(n, run)
    <2> HIDE DEF T
    <2>1. \A i \in 0..n : i \in T
        BY <1>1, <1>3, <1>4, UpTo, Zenon
    <2>2. n \in T
        BY <1>1, <2>1
    <2> HIDE DEF Good
    <2> QED
        BY <2>2 DEF T
<1> HIDE DEF run
<1>6. run[0] = s
    BY <1>1, <1>5
<1>7. ASSUME NEW i \in 1..n PROVE run[i] = Replay(run[i - 1], SetToSeq(S)[i])
    <2>1. i \in 0..n /\ i # 0
        BY <1>1
    <2> QED
        BY <1>5, <2>1
<1> QED
    BY <1>2, <1>6, <1>7 DEF n

(* What taking up a proposal does: the pending votes are counted.          *)
TakesUp(s, t) ==
    /\ Fewer(s, t) /\ t.out = s.out
    /\ \/ Stayed(s, t)
       \/ Dropped(s, t) /\ t.finished /\ \E v \in s.pendingVotes : ~v.accept
       \/ /\ Ended(s, t) /\ t.finished
          /\ s.processingBlock # None /\ t.finishedHeight = s.processingBlock.h

LEMMA ReplayTakesUp ==
    ASSUME NEW s, NEW a, TakesUp(s, a), a.finished \/ Stayed(s, a), NEW v \in s.pendingVotes,
           NEW t, t = Replay(a, v)
    PROVE  TakesUp(s, t) /\ (t.finished \/ Stayed(s, t))
<1>1. CASE a.finished
    BY <1>1 DEF Replay
<1>2. CASE ~a.finished
    <2>1. t = ProcessVote(a, v) /\ Stayed(s, a) /\ DOMAIN a = Fields
        BY <1>2 DEF Replay, Stayed, Held
    <2>2. Counts(a, v, t)
        BY <2>1, VoteCounts
    <2>3. CASE Stayed(a, t)
        BY <2>1, <2>2, <2>3 DEF TakesUp, Counts, Stayed, Held, Going, Fewer
    <2>4. CASE ~v.accept /\ Dropped(a, t) /\ t.finished
        BY <2>1, <2>2, <2>4 DEF TakesUp, Counts, Stayed, Dropped, Held, Going, Fewer
    <2>5. CASE /\ Ended(a, t) /\ t.finished
               /\ a.processingBlock # None /\ t.finishedHeight = a.processingBlock.h
        <3>1. Ended(s, t)
            BY <2>1, <2>5 DEF Stayed, Ended, Held, Going, Height
        <3> QED
            BY <2>1, <2>2, <2>5, <3>1 DEF TakesUp, Counts, Stayed, Fewer
    <2> QED
        BY <2>2, <2>3, <2>4, <2>5 DEF Counts
<1> QED
    BY <1>1, <1>2

LEMMA SetTakesUp ==
    ASSUME NEW s, DOMAIN s = Fields, IsFiniteSet(s.pendingVotes), NEW d,
           NEW t, t = SetProcessingProposal(s, d)
    PROVE  /\ TakesUp(s, t) /\ (t.finished \/ Stayed(s, t))
           /\ s.pendingVotes = {} =>
                 ~t.finished /\ t.pendingVotes = {} /\ t.acceptVotes = s.acceptVotes
<1> DEFINE S == {v \in s.pendingVotes : v.proposal = d}
           a == [s EXCEPT !.processingProposal = d, !.finished = FALSE]
           r == ReplayAll(S, a)
           n == Cardinality(S)
<1>1. t = IF r.finished THEN r ELSE [r EXCEPT !.pendingVotes = {}]
    BY DEF SetProcessingProposal, UnlessFinished, ReplayAll
<1>2. IsFiniteSet(S)
    BY FS_Subset
<1>3. n \in Nat /\ \A i \in 1..n : SetToSeq(S)[i] \in s.pendingVotes
    <2>1. \A v \in S : v \in s.pendingVotes
        OBVIOUS
    <2> HIDE DEF S
    <2> QED
        BY <1>2, <2>1, Listed
<1>4. /\ TakesUp(s, a) /\ Stayed(s, a) /\ ~a.finished
      /\ a.pendingVotes = s.pendingVotes /\ a.acceptVotes = s.acceptVotes
    BY DEF TakesUp, Fewer, Stayed, Held, Going, Fields
<1> HIDE DEF a
<1>5. PICK g : /\ g[0] = a /\ r = g[n]
               /\ \A i \in 1..n : g[i] = Replay(g[i - 1], SetToSeq(S)[i])
    <2> HIDE DEF S
    <2> QED
        BY <1>2, ReplayRuns
<1> HIDE DEF r
<1> DEFINE T == {i \in 0..n : TakesUp(s, g[i]) /\ (g[i].finished \/ Stayed(s, g[i]))}
<1>6. \A i \in 0..n : i \in T
    <2> HIDE DEF n, S
    <2>1. 0 \in T
        BY <1>3, <1>4, <1>5
    <2>2. ASSUME NEW i \in 1..n, i - 1 \in T PROVE i \in T
        <3>1. /\ TakesUp(s, g[i - 1]) /\ (g[i - 1].finished \/ Stayed(s, g[i - 1]))
              /\ g[i] = Replay(g[i - 1], SetToSeq(S)[i]) /\ SetToSeq(S)[i] \in s.pendingVotes
              /\ i \in 0..n
            BY <1>3, <1>5, <2>2
        <3> QED
            BY <3>1, ReplayTakesUp
    <2> HIDE DEF T
    <2> QED
        BY <1>3, <2>1, <2>2, UpTo, Zenon
<1>7. TakesUp(s, r) /\ (r.finished \/ Stayed(s, r))
    <2> HIDE DEF n
    <2> QED
        BY <1>3, <1>5, <1>6
<1>8. TakesUp(s, t) /\ (t.finished \/ Stayed(s, t))
    <2>1. CASE r.finished
        BY <1>1, <1>7, <2>1
    <2>2. CASE ~r.finished
        BY <1>1, <1>7, <2>2 DEF TakesUp, Fewer, Stayed, Held, Going, Fields
    <2> QED
        BY <2>1, <2>2
<1>9. ASSUME s.pendingVotes = {}
      PROVE  ~t.finished /\ t.pendingVotes = {} /\ t.acceptVotes = s.acceptVotes
    <2>1. S = {}
        BY <1>9
    <2>2. n = 0
        BY <2>1, FS_EmptySet
    <2> HIDE DEF n, S
    <2>3. r = a
        BY <1>5, <2>2
    <2> QED
        BY <1>1, <1>4, <1>9, <2>3 DEF Stayed, Held, Fields
<1> QED
    BY <1>8, <1>9

Signed(s, d, yes) == [proposal |-> d, signer |-> s.self, accept |-> yes]

(* What accepting a proposal does: unless the pending votes end the matter *)
(* the arbiter votes, and will not vote again in this view.                *)
Accepts(s, d, t) ==
    /\ Fewer(s, t)
    /\ \/ TakesUp(s, t) /\ s.pendingVotes # {}
       \/ /\ t.out = s.out \cup {Signed(s, d, TRUE)} /\ t.processFinished = TRUE
          /\ \/ Held(s, t) /\ Going(s, t) /\ t.processingBlock = s.processingBlock
             \/ /\ Ended(s, t) /\ s.processingBlock # None
                /\ t.finishedHeight = s.processingBlock.h
                /\ s.pendingVotes = {} /\ s.acceptVotes = {} => N = 1
    /\ s.pendingVotes = {} => t.pendingVotes = {}

LEMMA AcceptAccepts ==
    ASSUME NEW s, DOMAIN s = Fields, IsFiniteSet(s.pendingVotes), NEW d,
           NEW t, t = AcceptProposal(s, d)
    PROVE  Accepts(s, d, t)
<1> DEFINE v == Signed(s, d, TRUE)
           a == SetProcessingProposal(s, d)
           c == ProcessVote(a, v)
<1>1. t = IF a.finished THEN a ELSE Send([c EXCEPT !.processFinished = TRUE], v)
    BY DEF AcceptProposal, UnlessFinished, Signed
<1>2. /\ TakesUp(s, a) /\ (a.finished \/ Stayed(s, a))
      /\ s.pendingVotes = {} => ~a.finished /\ a.pendingVotes = {} /\ a.acceptVotes = s.acceptVotes
    BY SetTakesUp
<1>3. v.accept
    BY DEF Signed
<1> HIDE DEF a, v
<1>4. CASE a.finished
    BY <1>1, <1>2, <1>4 DEF Accepts, TakesUp
<1>5. CASE ~a.finished
    <2>1. Stayed(s, a) /\ DOMAIN a = Fields /\ Fewer(s, a) /\ a.out = s.out
        BY <1>2, <1>5 DEF Stayed, Held, TakesUp
    <2>2. Counts(a, v, c)
        BY <2>1, VoteCounts
    <2> HIDE DEF c
    <2>3. /\ Fewer(s, c) /\ c.out = s.out /\ DOMAIN c = Fields
          /\ s.pendingVotes = {} => c.pendingVotes = {}
          /\ \/ Stayed(s, c)
             \/ /\ Ended(s, c) /\ s.processingBlock # None
                /\ c.finishedHeight = s.processingBlock.h
                /\ s.pendingVotes = {} /\ s.acceptVotes = {} => N = 1
        <3>1. CASE Stayed(a, c) /\ c.pendingVotes = a.pendingVotes
            BY <1>2, <2>1, <2>2, <3>1 DEF Counts, Fewer, Stayed, Held, Going
        <3>2. CASE /\ Ended(a, c) /\ a.processingBlock # None
                   /\ c.finishedHeight = a.processingBlock.h
                   /\ a.acceptVotes = {} => N = 1
            <4>1. Ended(s, c)
                BY <2>1, <3>2 DEF Stayed, Ended, Held, Going, Height
            <4>2. Fewer(s, c) /\ c.out = s.out /\ DOMAIN c = Fields /\ c.pendingVotes = {}
                BY <2>1, <2>2, <3>2 DEF Counts, Fewer, Ended, Held
            <4> QED
                BY <1>2, <2>1, <3>2, <4>1, <4>2 DEF Stayed
        <3> QED
            BY <1>3, <2>2, <3>1, <3>2 DEF Counts
    <2>4. t = [c EXCEPT !.processFinished = TRUE, !.out = s.out \cup {v}]
        BY <1>1, <1>5, <2>3 DEF Send, Fields
    <2>5. /\ DOMAIN t = Fields /\ Fewer(s, t) /\ t.out = s.out \cup {v} /\ t.processFinished = TRUE
          /\ s.pendingVotes = {} => t.pendingVotes = {}
        BY <2>3, <2>4 DEF Fewer, Fields
    <2>6. CASE Stayed(s, c)
        <3>1. Held(s, t) /\ Going(s, t) /\ t.processingBlock = s.processingBlock
            BY <2>4, <2>6 DEF Stayed, Held, Going, Fields
        <3> QED
            BY <2>5, <3>1 DEF Accepts, v
    <2>7. CASE /\ Ended(s, c) /\ s.processingBlock # None
               /\ c.finishedHeight = s.processingBlock.h
               /\ s.pendingVotes = {} /\ s.acceptVotes = {} => N = 1
        <3>1. Ended(s, t) /\ t.finishedHeight = s.processingBlock.h
            BY <2>4, <2>7 DEF Ended, Held, Fields
        <3> QED
            BY <2>5, <2>7, <3>1 DEF Accepts, v
    <2> QED
        BY <2>3, <2>6, <2>7
<1> QED
    BY <1>4, <1>5

(* What rejecting one does.                                                *)
Rejects(s, d, t) ==
    /\ Fewer(s, t) /\ (t.out = s.out \/ t.out = s.out \cup {Signed(s, d, FALSE)})
    /\ \/ Stayed(s, t) /\ (s.pendingVotes = {} => t.acceptVotes \subseteq s.acceptVotes)
       \/ Dropped(s, t)
       \/ /\ Ended(s, t) /\ s.pendingVotes # {}
          /\ s.processingBlock # None /\ t.finishedHeight = s.processingBlock.h

LEMMA RejectRejects ==
    ASSUME NEW s, DOMAIN s = Fields, IsFiniteSet(s.pendingVotes), NEW d,
           NEW t, t = RejectProposal(s, d)
    PROVE  Rejects(s, d, t)
<1> DEFINE v == Signed(s, d, FALSE)
           a == SetProcessingProposal(s, d)
           c == ProcessVote(a, v)
<1>1. t = IF a.finished \/ d.block \notin a.blocks THEN a ELSE Send(c, v)
    BY DEF RejectProposal, UnlessFinished, Signed
<1>2. /\ TakesUp(s, a) /\ (a.finished \/ Stayed(s, a))
      /\ s.pendingVotes = {} => ~a.finished /\ a.pendingVotes = {} /\ a.acceptVotes = s.acceptVotes
    BY SetTakesUp
<1>3. ~v.accept
    BY DEF Signed
<1> HIDE DEF a, v
<1>4. CASE a.finished \/ d.block \notin a.blocks
    BY <1>1, <1>2, <1>4 DEF Rejects, TakesUp
<1>5. CASE ~(a.finished \/ d.block \notin a.blocks)
    <2>1. Stayed(s, a) /\ DOMAIN a = Fields /\ Fewer(s, a) /\ a.out = s.out
        BY <1>2, <1>5 DEF Stayed, Held, TakesUp
    <2>2. Counts(a, v, c)
        BY <2>1, VoteCounts
    <2> HIDE DEF c
    <2>3. /\ Fewer(s, c) /\ c.out = s.out /\ DOMAIN c = Fields
          /\ \/ Stayed(s, c) /\ (s.pendingVotes = {} => c.acceptVotes \subseteq s.acceptVotes)
             \/ Dropped(s, c)
        <3>1. CASE /\ Stayed(a, c) /\ c.pendingVotes = a.pendingVotes
                   /\ c.acceptVotes \subseteq a.acceptVotes \cup (IF v.accept THEN {v} ELSE {})
            BY <1>2, <1>3, <2>1, <2>2, <3>1 DEF Counts, Fewer, Stayed, Held, Going
        <3>2. CASE Dropped(a, c)
            BY <2>1, <2>2, <3>2 DEF Counts, Fewer, Dropped, Stayed, Held, Going
        <3> QED
            BY <1>3, <2>2, <3>1, <3>2 DEF Counts
    <2>4. t = [c EXCEPT !.out = s.out \cup {v}]
        BY <1>1, <1>5, <2>3 DEF Send, Fields
    <2>5. Fewer(s, t) /\ t.out = s.out \cup {v}
        BY <2>3, <2>4 DEF Fewer, Fields
    <2>6. \/ Stayed(s, t) /\ (s.pendingVotes = {} => t.acceptVotes \subseteq s.acceptVotes)
          \/ Dropped(s, t)
        BY <2>3, <2>4 DEF Stayed, Dropped, Held, Going, Fields
    <2> QED
        BY <2>5, <2>6 DEF Rejects, v
<1> QED
    BY <1>4, <1>5

(* What is kept after a proposal d was looked at.                          *)
Offers(s, d, t) ==
    /\ DOMAIN t = Fields
    /\ t.pendingVotes \subseteq s.pendingVotes
    /\ t.pendingProposals \subseteq s.pendingProposals \cup {d}
    /\ t.precociousProposals \subseteq s.precociousProposals \cup {d}

(* No position is taken on d; its block may be taken up.                   *)
Passes(s, d, t) ==
    /\ Held(s, t) /\ Going(s, t) /\ t.out = s.out
    /\ t.acceptVotes = s.acceptVotes /\ t.processFinished = s.processFinished
    /\ \/ t.processingBlock = s.processingBlock
       \/ /\ s.processingBlock = None /\ t.processingBlock = d.block
          /\ d.block \in s.blocks /\ s.running

(* The position that is taken depends on who is on duty in the view.       *)
Refuses(s, d, t) ==
    /\ d.view = s.view /\ OnDutyArbiter(Height(s), s.view) # d.sponsor
    /\ Rejects(s, d, t)

Speculates(s, d, r) ==
    /\ Held(s, r) /\ Going(s, r) /\ Fewer(s, r) /\ r.out = s.out
    /\ r.acceptVotes = s.acceptVotes /\ r.pendingVotes = s.pendingVotes
    /\ r.processingBlock = d.block

Agrees(s, d, t) ==
    /\ d.view = s.view /\ OnDutyArbiter(Height(s), s.view) = d.sponsor
    /\ d.block \in s.blocks /\ s.running /\ ~s.processFinished
    /\ \E r : Speculates(s, d, r) /\ Accepts(r, d, t)

Positions(s, d, t) ==
    Offers(s, d, t) /\ (Passes(s, d, t) \/ Refuses(s, d, t) \/ Agrees(s, d, t))

(* The bookkeeping that no later step of the argument depends on.          *)
Alike(a, t) ==
    /\ Held(a, t) /\ Going(a, t) /\ t.out = a.out
    /\ t.processingBlock = a.processingBlock /\ t.processFinished = a.processFinished
    /\ t.acceptVotes = a.acceptVotes /\ t.pendingVotes = a.pendingVotes
    /\ t.pendingProposals \subseteq a.pendingProposals
    /\ t.precociousProposals \subseteq a.precociousProposals
    /\ t.finished = a.finished

LEMMA AlikePositions ==
    ASSUME NEW s, NEW d, NEW a, Positions(s, d, a), NEW t, Alike(a, t)
    PROVE  Positions(s, d, t)
<1>1. Offers(s, d, t)
    BY DEF Positions, Offers, Alike, Held
<1>2. ASSUME NEW r, Stayed(r, a) PROVE Stayed(r, t)
    BY <1>2 DEF Stayed, Alike, Held, Going
<1>3. ASSUME NEW r, Dropped(r, a) PROVE Dropped(r, t)
    BY <1>3 DEF Dropped, Alike, Held, Going
<1>4. ASSUME NEW r, Ended(r, a) PROVE Ended(r, t)
    BY <1>4 DEF Ended, Alike, Held, Going
<1>5. ASSUME NEW r, Fewer(r, a) PROVE Fewer(r, t)
    BY <1>5 DEF Fewer, Alike
<1>6. CASE Passes(s, d, a)
    <2>1. Passes(s, d, t)
        BY <1>6 DEF Passes, Alike, Held, Going
    <2> QED
        BY <1>1, <2>1 DEF Positions
<1>7. CASE Refuses(s, d, a)
    <2>1. Rejects(s, d, t)
        BY <1>2, <1>3, <1>4, <1>5, <1>7 DEF Refuses, Rejects, Alike, Going
    <2> QED
        BY <1>1, <1>7, <2>1 DEF Positions, Refuses
<1>8. CASE Agrees(s, d, a)
    <2>1. PICK r : Speculates(s, d, r) /\ Accepts(r, d, a)
        BY <1>8 DEF Agrees
    <2>2. TakesUp(r, a) => TakesUp(r, t)
        BY <1>2, <1>3, <1>4, <1>5 DEF TakesUp, Alike, Going
    <2>3. Held(r, a) /\ Going(r, a) => Held(r, t) /\ Going(r, t)
        BY DEF Alike, Held, Going
    <2>4. Accepts(r, d, t)
        BY <1>4, <1>5, <2>1, <2>2, <2>3 DEF Accepts, Alike, Going
    <2> QED
        BY <1>1, <1>8, <2>1, <2>4 DEF Positions, Agrees
<1> QED
    BY <1>6, <1>7, <1>8 DEF Positions

LEMMA ProcessPositions ==
    ASSUME NEW s, DOMAIN s = Fields, IsFiniteSet(s.pendingVotes), NEW d, NEW force, NEW from,
           NEW t, t = ProcessAndRecord(s, d, force, from)
    PROVE  Positions(s, d, t)
<1> DEFINE p == ProcessProposal(s, d, force, from)
           e == [s EXCEPT !.processingBlock = d.block]
           spec == TryStartSpeculatingProposal(s, d.block)
           Done(a, z) == p = [a EXCEPT !.handled = z] /\ Positions(s, d, a)
<1>1. SUFFICES \E a, z : Done(a, z)
    <2>1. ASSUME NEW a, NEW z, Done(a, z) PROVE Positions(s, d, t)
        <3>1. t = AddProposal([a EXCEPT !.handled = z], d) /\ Positions(s, d, a) /\ DOMAIN a = Fields
            BY <2>1 DEF ProcessAndRecord, Positions, Offers
        <3>2. Alike(a, t)
            BY <3>1 DEF AddProposal, Alike, Held, Going, Fields
        <3> QED
            BY <3>1, <3>2, AlikePositions
    <2> HIDE DEF Done
    <2> QED
        BY <2>1
<1>2. Held(s, s) /\ Going(s, s) /\ Offers(s, d, s)
    BY DEF Held, Going, Offers
<1>3. spec = IF s.processingBlock # None THEN s ELSE e
    BY DEF TryStartSpeculatingProposal
<1>5. CASE s.processingProposal = d \/ InLedger(s, d.block) \/ d.block = s.finishedBlock
    <2>1. Passes(s, d, s)
        BY <1>2 DEF Passes
    <2>2. p = [s EXCEPT !.handled = TRUE]
        BY <1>5 DEF ProcessProposal
    <2> QED
        BY <1>2, <2>1, <2>2 DEF Positions
<1>6. CASE /\ ~(s.processingProposal = d \/ InLedger(s, d.block) \/ d.block = s.finishedBlock)
           /\ d.view # s.view
    <2> DEFINE a == IF d.view > s.view THEN [s EXCEPT !.precociousProposals = @ \cup {d}] ELSE s
    <2>1. Passes(s, d, a) /\ Offers(s, d, a)
        BY DEF Passes, Offers, Held, Going, Fields
    <2>2. p = [a EXCEPT !.handled = ~from]
        BY <1>6 DEF ProcessProposal
    <2> HIDE DEF a
    <2> QED
        BY <2>1, <2>2 DEF Positions
<1>7. CASE /\ ~(s.processingProposal = d \/ InLedger(s, d.block) \/ d.block = s.finishedBlock)
           /\ d.view = s.view
    <2>1. CASE ~force /\ d \in s.pendingProposals
        <3>1. Passes(s, d, s)
            BY <1>2 DEF Passes
        <3>2. p = [s EXCEPT !.handled = TRUE]
            BY <1>7, <2>1 DEF ProcessProposal
        <3> QED
            BY <1>2, <3>1, <3>2 DEF Positions
    <2>2. CASE ~(~force /\ d \in s.pendingProposals) /\ ~IsLegalProposal(s, d)
        <3> DEFINE a == ProcessIllegalProposal(s, d)
        <3>1. Passes(s, d, a) /\ Offers(s, d, a)
            BY DEF Passes, Offers, Held, Going, Fields, ProcessIllegalProposal
        <3>2. p = [a EXCEPT !.handled = TRUE]
            BY <1>7, <2>2 DEF ProcessProposal
        <3> HIDE DEF a
        <3> QED
            BY <3>1, <3>2 DEF Positions
    <2>3. CASE /\ ~(~force /\ d \in s.pendingProposals) /\ IsLegalProposal(s, d)
               /\ OnDutyArbiter(Height(s), s.view) # d.sponsor
        <3> DEFINE a == RejectProposal(s, d)
        <3>1. Rejects(s, d, a)
            BY RejectRejects
        <3>2. p = [a EXCEPT !.handled = ~from]
            BY <1>7, <2>3 DEF ProcessProposal
        <3> HIDE DEF a, p
        <3>3. Offers(s, d, a)
            BY <3>1 DEF Rejects, Offers, Fewer, Stayed, Dropped, Ended, Held
        <3>4. Positions(s, d, a)
            BY <1>7, <2>3, <3>1, <3>3 DEF Positions, Refuses
        <3> QED
            BY <3>2, <3>4
    <2>4. CASE /\ ~(~force /\ d \in s.pendingProposals) /\ IsLegalProposal(s, d)
               /\ OnDutyArbiter(Height(s), s.view) = d.sponsor
               /\ (d.block \notin s.blocks \/ ~s.running)
        <3> DEFINE a == [s EXCEPT !.pendingProposals = @ \cup {d}]
        <3>1. Passes(s, d, a) /\ Offers(s, d, a)
            BY DEF Passes, Offers, Held, Going, Fields
        <3>2. p = [a EXCEPT !.handled = TRUE]
            BY <1>7, <2>4 DEF ProcessProposal
        <3> HIDE DEF a
        <3> QED
            BY <3>1, <3>2 DEF Positions
    <2>5. CASE /\ ~(~force /\ d \in s.pendingProposals) /\ IsLegalProposal(s, d)
               /\ OnDutyArbiter(Height(s), s.view) = d.sponsor
               /\ ~(d.block \notin s.blocks \/ ~s.running)
               /\ (spec.processingBlock # d.block \/ spec.processFinished)
        <3>1. Passes(s, d, spec) /\ Offers(s, d, spec)
            BY <1>3, <2>5 DEF Passes, Offers, Held, Going, Fields
        <3>2. \E z : p = [spec EXCEPT !.handled = z]
            BY <1>7, <2>5 DEF ProcessProposal
        <3> HIDE DEF spec, p
        <3> QED
            BY <3>1, <3>2 DEF Positions
    <2>6. CASE /\ ~(~force /\ d \in s.pendingProposals) /\ IsLegalProposal(s, d)
               /\ OnDutyArbiter(Height(s), s.view) = d.sponsor
               /\ ~(d.block \notin s.blocks \/ ~s.running)
               /\ ~(spec.processingBlock # d.block \/ spec.processFinished)
        <3> DEFINE a == AcceptProposal(spec, d)
        <3>1. /\ Speculates(s, d, spec) /\ ~s.processFinished
              /\ DOMAIN spec = Fields /\ IsFiniteSet(spec.pendingVotes)
            BY <1>3, <2>6 DEF Speculates, Held, Going, Fewer, Fields
        <3>2. p = [a EXCEPT !.handled = TRUE]
            BY <1>7, <2>6 DEF ProcessProposal
        <3> HIDE DEF spec, p
        <3>3. Accepts(spec, d, a)
            BY <3>1, AcceptAccepts
        <3> HIDE DEF a
        <3>4. DOMAIN a = Fields
            BY <3>3 DEF Accepts, TakesUp, Stayed, Dropped, Ended, Held
        <3>5. Offers(s, d, a)
            BY <3>1, <3>3, <3>4 DEF Accepts, Offers, Fewer, Speculates
        <3>6. Agrees(s, d, a)
            BY <1>7, <2>6, <3>1, <3>3 DEF Agrees
        <3> QED
            BY <3>2, <3>5, <3>6 DEF Positions
    <2> HIDE DEF Done
    <2> QED
        BY <2>1, <2>2, <2>3, <2>4, <2>5, <2>6
<1> HIDE DEF Done
<1> QED
    BY <1>5, <1>6, <1>7

(* So is the processing of pending proposals,                              *)
PendingAll(S, s) == InTurn(S, s, ProcessPending)

LEMMA PendingRuns ==
    ASSUME NEW S, IsFiniteSet(S), NEW s, NEW t, t = PendingAll(S, s)
    PROVE  \E g : /\ g[0] = s /\ t = g[Cardinality(S)]
                  /\ \A i \in 1..Cardinality(S) : g[i] = ProcessPending(g[i - 1], SetToSeq(S)[i])
<1> DEFINE n == Cardinality(S)
           Good(m, g) == g = [i \in 0..m |-> IF i = 0 THEN s ELSE ProcessPending(g[i - 1], SetToSeq(S)[i])]
           T == {m \in 0..n : \E g : Good(m, g)}
           run == CHOOSE g : Good(n, g)
<1>1. n \in Nat
    BY Listed
<1>2. t = run[n]
    BY DEF PendingAll, InTurn
<1> HIDE DEF n
<1>3. 0 \in T
    <2> DEFINE f == [i \in 0..0 |-> s]
    <2>1. Good(0, f) /\ 0 \in 0..n
        BY <1>1
    <2> HIDE DEF f, Good
    <2> QED
        BY <2>1
<1>4. ASSUME NEW m \in 1..n, m - 1 \in T PROVE m \in T
    <2>1. PICK g : Good(m - 1, g)
        BY <1>4
    <2> DEFINE f == [i \in 0..m |-> IF i = m THEN ProcessPending(g[m - 1], SetToSeq(S)[m]) ELSE g[i]]
    <2>2. \A i \in 0..(m - 1) : f[i] = g[i]
        BY <1>1
    <2>3. f[m] = ProcessPending(g[m - 1], SetToSeq(S)[m]) /\ DOMAIN f = 0..m /\ m # 0 /\ m - 1 \in 0..(m - 1)
        BY <1>1
    <2>4. f = [i \in 0..m |-> f[i]]
        OBVIOUS
    <2> HIDE DEF f
    <2>5. ASSUME NEW i \in 0..m
          PROVE  f[i] = IF i = 0 THEN s ELSE ProcessPending(f[i - 1], SetToSeq(S)[i])
        <3>1. CASE i = m
            BY <2>2, <2>3, <3>1
        <3>2. CASE i # m
            <4>1. i \in 0..(m - 1) /\ (i # 0 => i - 1 \in 0..(m - 1))
                BY <1>1, <3>2
            <4>2. g[i] = IF i = 0 THEN s ELSE ProcessPending(g[i - 1], SetToSeq(S)[i])
                BY <2>1, <4>1
            <4> QED
                BY <2>2, <4>1, <4>2
        <3> QED
            BY <3>1, <3>2
    <2>6. Good(m, f) /\ m \in 0..n
        <3>1. [i \in 0..m |-> f[i]]
              = [i \in 0..m |-> IF i = 0 THEN s ELSE ProcessPending(f[i - 1], SetToSeq(S)[i])]
            BY <2>5
        <3>2. m \in 0..n
            BY <1>1
        <3> QED
            BY <2>4, <3>1, <3>2
    <2> HIDE DEF Good
    <2> QED
        BY <2>6
<1>5. Good(n, run)
    <2> HIDE DEF T
    <2>1. \A i \in 0..n : i \in T
        BY <1>1, <1>3, <1>4, UpTo, Zenon
    <2>2. n \in T
        BY <1>1, <2>1
    <2> HIDE DEF Good
    <2> QED
        BY <2>2 DEF T
<1> HIDE DEF run
<1>6. run[0] = s
    BY <1>1, <1>5
<1>7. ASSUME NEW i \in 1..n PROVE run[i] = ProcessPending(run[i - 1], SetToSeq(S)[i])
    <2>1. i \in 0..n /\ i # 0
        BY <1>1
    <2> QED
        BY <1>5, <2>1
<1> QED
    BY <1>2, <1>6, <1>7 DEF n

(* and that of precocious ones.                                            *)
PrecociousAll(S, s) == InTurn(S, s, ProcessPrecocious)

LEMMA PrecociousRuns ==
    ASSUME NEW S, IsFiniteSet(S), NEW s, NEW t, t = PrecociousAll(S, s)
    PROVE  \E g : /\ g[0] = s /\ t = g[Cardinality(S)]
                  /\ \A i \in 1..Cardinality(S) : g[i] = ProcessPrecocious(g[i - 1], SetToSeq(S)[i])
<1> DEFINE n == Cardinality(S)
           Good(m, g) == g = [i \in 0..m |-> IF i = 0 THEN s ELSE ProcessPrecocious(g[i - 1], SetToSeq(S)[i])]
           T == {m \in 0..n : \E g : Good(m, g)}
           run == CHOOSE g : Good(n, g)
<1>1. n \in Nat
    BY Listed
<1>2. t = run[n]
    BY DEF PrecociousAll, InTurn
<1> HIDE DEF n
<1>3. 0 \in T
    <2> DEFINE f == [i \in 0..0 |-> s]
    <2>1. Good(0, f) /\ 0 \in 0..n
        BY <1>1
    <2> HIDE DEF f, Good
    <2> QED
        BY <2>1
<1>4. ASSUME NEW m \in 1..n, m - 1 \in T PROVE m \in T
    <2>1. PICK g : Good(m - 1, g)
        BY <1>4
    <2> DEFINE f == [i \in 0..m |-> IF i = m THEN ProcessPrecocious(g[m - 1], SetToSeq(S)[m]) ELSE g[i]]
    <2>2. \A i \in 0..(m - 1) : f[i] = g[i]
        BY <1>1
    <2>3. f[m] = ProcessPrecocious(g[m - 1], SetToSeq(S)[m]) /\ DOMAIN f = 0..m /\ m # 0 /\ m - 1 \in 0..(m - 1)
        BY <1>1
    <2>4. f = [i \in 0..m |-> f[i]]
        OBVIOUS
    <2> HIDE DEF f
    <2>5. ASSUME NEW i \in 0..m
          PROVE  f[i] = IF i = 0 THEN s ELSE ProcessPrecocious(f[i - 1], SetToSeq(S)[i])
        <3>1. CASE i = m
            BY <2>2, <2>3, <3>1
        <3>2. CASE i # m
            <4>1. i \in 0..(m - 1) /\ (i # 0 => i - 1 \in 0..(m - 1))
                BY <1>1, <3>2
            <4>2. g[i] = IF i = 0 THEN s ELSE ProcessPrecocious(g[i - 1], SetToSeq(S)[i])
                BY <2>1, <4>1
            <4> QED
                BY <2>2, <4>1, <4>2
        <3> QED
            BY <3>1, <3>2
    <2>6. Good(m, f) /\ m \in 0..n
        <3>1. [i \in 0..m |-> f[i]]
              = [i \in 0..m |-> IF i = 0 THEN s ELSE ProcessPrecocious(f[i - 1], SetToSeq(S)[i])]
            BY <2>5
        <3>2. m \in 0..n
            BY <1>1
        <3> QED
            BY <2>4, <3>1, <3>2
    <2> HIDE DEF Good
    <2> QED
        BY <2>6
<1>5. Good(n, run)
    <2> HIDE DEF T
    <2>1. \A i \in 0..n : i \in T
        BY <1>1, <1>3, <1>4, UpTo, Zenon
    <2>2. n \in T
        BY <1>1, <2>1
    <2> HIDE DEF Good
    <2> QED
        BY <2>2 DEF T
<1> HIDE DEF run
<1>6. run[0] = s
    BY <1>1, <1>5
<1>7. ASSUME NEW i \in 1..n PROVE run[i] = ProcessPrecocious(run[i - 1], SetToSeq(S)[i])
    <2>1. i \in 0..n /\ i # 0
        BY <1>1
    <2> QED
        BY <1>5, <2>1
<1> QED
    BY <1>2, <1>6, <1>7 DEF n

-----------------------------------------------------------------------------
(* Proposals are processed one after the other.                            *)
Tidy(s) ==
    /\ DOMAIN s = Fields /\ IsFiniteSet(s.pendingVotes)
    /\ IsFiniteSet(s.pendingProposals) /\ IsFiniteSet(s.precociousProposals)

Settles(g, n, S, s, t) ==
    /\ n \in Nat /\ g[0] = s /\ t = g[n]
    /\ \A i \in 0..n : Tidy(g[i])
    /\ \A i \in 1..n : \/ g[i] = g[i - 1]
                       \/ g[i - 1].running /\ \E d \in S : Positions(g[i - 1], d, g[i])

LEMMA PositionsTidy ==
    ASSUME NEW s, Tidy(s), NEW d, NEW t, Positions(s, d, t)
    PROVE  Tidy(t)
<1>1. IsFiniteSet(s.pendingProposals \cup {d}) /\ IsFiniteSet(s.precociousProposals \cup {d})
    BY FS_AddElement DEF Tidy
<1> QED
    BY <1>1, FS_Subset DEF Tidy, Positions, Offers

LEMMA PendingPositions ==
    ASSUME NEW a, Tidy(a), NEW d, NEW t, t = ProcessPending(a, d)
    PROVE  t = a \/ (a.running /\ Positions(a, d, t))
<1> DEFINE p == ProcessAndRecord(a, d, TRUE, FALSE)
<1> SUFFICES ASSUME a.running PROVE Positions(a, d, t)
    BY DEF ProcessPending
<1>1. t = [p EXCEPT !.pendingProposals = p.pendingProposals \ {d}]
    BY DEF ProcessPending
<1>2. Positions(a, d, p)
    BY ProcessPositions DEF Tidy
<1> HIDE DEF p
<1>3. Alike(p, t)
    BY <1>1, <1>2 DEF Positions, Offers, Alike, Held, Going, Fields
<1> QED
    BY <1>2, <1>3, AlikePositions

LEMMA PrecociousPositions ==
    ASSUME NEW a, Tidy(a), NEW d, NEW t, t = ProcessPrecocious(a, d)
    PROVE  t = a \/ (a.running /\ Positions(a, d, t))
<1> DEFINE p == ProcessAndRecord(a, d, TRUE, FALSE)
<1> SUFFICES ASSUME a.running, d.view = a.view PROVE Positions(a, d, t)
    BY DEF ProcessPrecocious
<1>1. t = [p EXCEPT !.precociousProposals = p.precociousProposals \ {d}]
    BY DEF ProcessPrecocious
<1>2. Positions(a, d, p)
    BY ProcessPositions DEF Tidy
<1> HIDE DEF p
<1>3. Alike(p, t)
    BY <1>1, <1>2 DEF Positions, Offers, Alike, Held, Going, Fields
<1> QED
    BY <1>2, <1>3, AlikePositions

LEMMA StepsSettle ==
    ASSUME NEW s, Tidy(s), NEW S, IsFiniteSet(S), NEW g, NEW t,
           g[0] = s, t = g[Cardinality(S)],
           \A i \in 1..Cardinality(S), d \in S : d = SetToSeq(S)[i] /\ Tidy(g[i - 1]) =>
               g[i] = g[i - 1] \/ (g[i - 1].running /\ Positions(g[i - 1], d, g[i]))
    PROVE  Settles(g, Cardinality(S), S, s, t)
<1> DEFINE n == Cardinality(S)
           T == {i \in 0..n : Tidy(g[i])}
<1>1. n \in Nat /\ \A i \in 1..n : SetToSeq(S)[i] \in S
    BY Listed
<1> HIDE DEF n
<1>2. 0 \in T
    BY <1>1
<1>3. ASSUME NEW i \in 1..n, Tidy(g[i - 1])
      PROVE  /\ \/ g[i] = g[i - 1]
                \/ g[i - 1].running /\ \E d \in S : Positions(g[i - 1], d, g[i])
             /\ Tidy(g[i])
    <2> DEFINE d == SetToSeq(S)[i]
    <2>1. d \in S
        BY <1>1
    <2> HIDE DEF d
    <2>2. g[i] = g[i - 1] \/ (g[i - 1].running /\ Positions(g[i - 1], d, g[i]))
        BY <1>3, <2>1 DEF d, n
    <2> QED
        BY <1>3, <2>1, <2>2, PositionsTidy
<1>4. ASSUME NEW i \in 1..n, i - 1 \in T PROVE i \in T
    BY <1>1, <1>3, <1>4
<1>5. \A i \in 0..n : i \in T
    <2> HIDE DEF T
    <2> QED
        BY <1>1, <1>2, <1>4, UpTo, Zenon
<1>6. \A i \in 1..n : \/ g[i] = g[i - 1]
                      \/ g[i - 1].running /\ \E d \in S : Positions(g[i - 1], d, g[i])
    <2> SUFFICES ASSUME NEW i \in 1..n
                 PROVE  \/ g[i] = g[i - 1]
                        \/ g[i - 1].running /\ \E d \in S : Positions(g[i - 1], d, g[i])
        OBVIOUS
    <2>1. i - 1 \in 0..n
        BY <1>1
    <2>2. Tidy(g[i - 1])
        BY <1>5, <2>1
    <2> QED
        BY <1>3, <2>2
<1> QED
    BY <1>1, <1>5, <1>6 DEF Settles, n

LEMMA BlockSettles ==
    ASSUME NEW s, Tidy(s), NEW b, NEW t, t = OnBlockAdded(s, b)
    PROVE  \E g, n : Settles(g, n, {d \in s.pendingProposals : d.block = b}, s, t)
<1> DEFINE S == {d \in s.pendingProposals : d.block = b}
<1>1. IsFiniteSet(S)
    BY FS_Subset DEF Tidy
<1>2. t = PendingAll(S, s)
    BY DEF OnBlockAdded, PendingAll
<1> HIDE DEF S
<1>3. PICK g : /\ g[0] = s /\ t = g[Cardinality(S)]
               /\ \A i \in 1..Cardinality(S) : g[i] = ProcessPending(g[i - 1], SetToSeq(S)[i])
    BY <1>1, <1>2, PendingRuns
<1>4. ASSUME NEW i \in 1..Cardinality(S), NEW d \in S, d = SetToSeq(S)[i], Tidy(g[i - 1])
      PROVE  g[i] = g[i - 1] \/ (g[i - 1].running /\ Positions(g[i - 1], d, g[i]))
    BY <1>3, <1>4, PendingPositions
<1>5. Settles(g, Cardinality(S), S, s, t)
    BY <1>1, <1>3, <1>4, StepsSettle
<1> QED
    BY <1>5 DEF S

LEMMA ViewSettles ==
    ASSUME NEW s, Tidy(s), NEW t, t = UpdatePrecociousProposals(s)
    PROVE  \E g, n : Settles(g, n, s.precociousProposals, s, t)
<1> DEFINE S == s.precociousProposals
<1>1. IsFiniteSet(S)
    BY DEF Tidy
<1>2. t = PrecociousAll(S, s)
    BY DEF UpdatePrecociousProposals, PrecociousAll
<1> HIDE DEF S
<1>3. PICK g : /\ g[0] = s /\ t = g[Cardinality(S)]
               /\ \A i \in 1..Cardinality(S) : g[i] = ProcessPrecocious(g[i - 1], SetToSeq(S)[i])
    BY <1>1, <1>2, PrecociousRuns
<1>4. ASSUME NEW i \in 1..Cardinality(S), NEW d \in S, d = SetToSeq(S)[i], Tidy(g[i - 1])
      PROVE  g[i] = g[i - 1] \/ (g[i - 1].running /\ Positions(g[i - 1], d, g[i]))
    BY <1>3, <1>4, PrecociousPositions
<1>5. Settles(g, Cardinality(S), S, s, t)
    BY <1>1, <1>3, <1>4, StepsSettle
<1> QED
    BY <1>5 DEF S

-----------------------------------------------------------------------------
(* What a handler may do that starts no height, changes no view and makes  *)
(* no proposal: it votes, and it may finish the height.                    *)
Finishes(s, t) ==
    /\ s.running /\ t.running = FALSE /\ t.view = 0
    /\ t.onDuty = (OnDutyArbiter(Height(s), 0) = s.self)

Speaks(s, t) ==
    /\ s.out \subseteq t.out
    /\ \A m \in t.out \ s.out : \E d, yes : m = Signed(s, d, yes)

(* The block a running height works on is a block it knows; nothing is     *)
(* left of a height that is over.                                          *)
Steady(s) ==
    /\ s.running => s.processingBlock \in s.blocks \cup {None}
    /\ ~s.running => s.processingBlock = None /\ s.acceptVotes = {} /\ s.pendingVotes = {}

Kept(s, S, t) ==
    t.pendingProposals \cup t.precociousProposals
        \subseteq s.pendingProposals \cup s.precociousProposals \cup S

Moves(s, S, t) ==
    /\ Tidy(t) /\ Held(s, t) /\ Speaks(s, t) /\ Kept(s, S, t)
    /\ t.pendingVotes \subseteq s.pendingVotes
    /\ Going(s, t) \/ Finishes(s, t)
    /\ Steady(s) => /\ Steady(t)
                    /\ Going(s, t) \/ \E b \in s.blocks : t.finishedHeight = b.h

LEMMA MovesNot ==
    ASSUME NEW s, Tidy(s), NEW S
    PROVE  Moves(s, S, s)
BY DEF Moves, Tidy, Held, Speaks, Kept, Going

LEMMA MovesTwice ==
    ASSUME NEW r, NEW s, NEW t, NEW S, Moves(r, S, s), Moves(s, S, t)
    PROVE  Moves(r, S, t)
<1>1. Tidy(t) /\ Held(r, t) /\ Kept(r, S, t) /\ t.pendingVotes \subseteq r.pendingVotes
    BY DEF Moves, Held, Kept
<1>2. Speaks(r, t)
    <2> SUFFICES ASSUME NEW m \in t.out \ r.out PROVE \E d, yes : m = Signed(r, d, yes)
        BY DEF Moves, Speaks
    <2>1. CASE m \in s.out
        BY <2>1 DEF Moves, Speaks
    <2>2. CASE m \notin s.out
        <3>1. PICK d, yes : m = Signed(s, d, yes)
            BY <2>2 DEF Moves, Speaks
        <3>2. Signed(s, d, yes) = Signed(r, d, yes)
            BY DEF Moves, Held, Signed
        <3> QED
            BY <3>1, <3>2
    <2> QED
        BY <2>1, <2>2
<1>3. CASE Going(r, s) /\ Going(s, t)
    <2>1. Going(r, t)
        BY <1>3 DEF Going
    <2> QED
        BY <1>1, <1>2, <2>1 DEF Moves
<1>4. CASE Going(r, s) /\ ~Going(s, t)
    <2>1. Finishes(s, t) /\ s.blocks = r.blocks
        BY <1>4 DEF Moves, Held
    <2>2. Finishes(r, t)
        BY <1>4, <2>1 DEF Moves, Held, Going, Finishes, Height
    <2> QED
        BY <1>1, <1>2, <1>4, <2>1, <2>2 DEF Moves
<1>5. CASE ~Going(r, s)
    <2>1. Finishes(r, s) /\ s.blocks = r.blocks
        BY <1>5 DEF Moves, Held
    <2>2. Going(s, t)
        BY <2>1 DEF Moves, Finishes
    <2>3. Finishes(r, t) /\ t.finishedHeight = s.finishedHeight
        BY <2>1, <2>2 DEF Going, Finishes
    <2> QED
        BY <1>1, <1>2, <1>5, <2>1, <2>3 DEF Moves
<1> QED
    BY <1>3, <1>4, <1>5

LEMMA PositionsMoves ==
    ASSUME NEW s, Tidy(s), NEW S, NEW d \in S, NEW t, Positions(s, d, t)
    PROVE  Moves(s, S, t)
<1>1. Tidy(t)
    BY PositionsTidy
<1>2. Kept(s, S, t) /\ t.pendingVotes \subseteq s.pendingVotes
    BY DEF Positions, Offers, Kept
<1>3. CASE Passes(s, d, t)
    <2>1. Held(s, t) /\ Speaks(s, t) /\ Going(s, t)
        BY <1>3 DEF Passes, Speaks
    <2>2. Steady(s) => Steady(t)
        BY <1>2, <1>3 DEF Passes, Steady, Held, Going
    <2> QED
        BY <1>1, <1>2, <2>1, <2>2 DEF Moves
<1>4. CASE Refuses(s, d, t)
    <2>1. Rejects(s, d, t)
        BY <1>4 DEF Refuses
    <2>2. Held(s, t)
        BY <2>1 DEF Rejects, Stayed, Dropped, Ended
    <2>3. Speaks(s, t)
        <3>1. t.out = s.out \/ t.out = s.out \cup {Signed(s, d, FALSE)}
            BY <2>1 DEF Rejects
        <3> QED
            BY <3>1 DEF Speaks
    <2>4. CASE Stayed(s, t) /\ (s.pendingVotes = {} => t.acceptVotes \subseteq s.acceptVotes)
        <3>1. Going(s, t) /\ (Steady(s) => Steady(t))
            BY <1>2, <2>4 DEF Stayed, Steady, Held, Going
        <3> QED
            BY <1>1, <1>2, <2>2, <2>3, <3>1 DEF Moves
    <2>5. CASE Dropped(s, t)
        <3>1. Going(s, t) /\ (Steady(s) => Steady(t))
            BY <2>5 DEF Dropped, Steady, Held, Going
        <3> QED
            BY <1>1, <1>2, <2>2, <2>3, <3>1 DEF Moves
    <2>6. CASE /\ Ended(s, t) /\ s.processingBlock # None
               /\ t.finishedHeight = s.processingBlock.h
        <3>1. Finishes(s, t)
            BY <2>6 DEF Ended, Finishes
        <3>2. Steady(s) => Steady(t) /\ \E b \in s.blocks : t.finishedHeight = b.h
            BY <2>6 DEF Ended, Steady, Held
        <3> QED
            BY <1>1, <1>2, <2>2, <2>3, <3>1, <3>2 DEF Moves
    <2> QED
        BY <2>1, <2>4, <2>5, <2>6 DEF Rejects
<1>5. CASE Agrees(s, d, t)
    <2>1. PICK r : Speculates(s, d, r) /\ Accepts(r, d, t)
        BY <1>5 DEF Agrees
    <2>2. d.block \in s.blocks /\ s.running
        BY <1>5 DEF Agrees
    <2>3. Held(r, t)
        BY <2>1 DEF Accepts, TakesUp, Stayed, Dropped, Ended
    <2>4. Held(s, t)
        BY <2>1, <2>3 DEF Speculates, Held
    <2>5. Signed(r, d, TRUE) = Signed(s, d, TRUE)
        BY <2>1 DEF Speculates, Signed, Held
    <2>6. Speaks(s, t)
        <3>1. t.out = s.out \/ t.out = s.out \cup {Signed(s, d, TRUE)}
            BY <2>1, <2>5 DEF Speculates, Accepts, TakesUp
        <3> QED
            BY <3>1 DEF Speaks
    <2>7. CASE Going(r, t) /\ t.processingBlock \in {r.processingBlock, None}
        <3>1. Going(s, t)
            BY <2>1, <2>7 DEF Speculates, Going
        <3>2. Steady(t)
            BY <2>1, <2>2, <2>4, <2>7, <3>1 DEF Speculates, Going, Held, Steady
        <3> QED
            BY <1>1, <1>2, <2>4, <2>6, <3>1, <3>2 DEF Moves
    <2>8. CASE /\ Ended(r, t) /\ t.finishedHeight = r.processingBlock.h
        <3>1. Finishes(s, t)
            BY <2>1, <2>8 DEF Speculates, Held, Going, Ended, Finishes, Height
        <3>2. Steady(t) /\ \E b \in s.blocks : t.finishedHeight = b.h
            BY <2>1, <2>2, <2>8 DEF Ended, Steady, Held, Speculates
        <3> QED
            BY <1>1, <1>2, <2>4, <2>6, <3>1, <3>2 DEF Moves
    <2> QED
        BY <2>1, <2>7, <2>8 DEF Accepts, TakesUp, Stayed, Dropped
<1> QED
    BY <1>3, <1>4, <1>5 DEF Positions

LEMMA SettlesMoves ==
    ASSUME NEW g, NEW n, NEW S, NEW s, NEW t, Settles(g, n, S, s, t)
    PROVE  Moves(s, S, t)
<1> DEFINE T == {i \in 0..n : Moves(s, S, g[i])}
<1>1. n \in Nat /\ g[0] = s /\ t = g[n]
    BY DEF Settles
<1>2. 0 \in T
    <2>1. Tidy(g[0]) /\ 0 \in 0..n
        BY <1>1 DEF Settles
    <2> QED
        BY <1>1, <2>1, MovesNot
<1>3. ASSUME NEW i \in 1..n, i - 1 \in T PROVE i \in T
    <2>1. Moves(s, S, g[i - 1]) /\ i \in 0..n /\ i - 1 \in 0..n
        BY <1>1, <1>3
    <2>2. Tidy(g[i - 1])
        BY <2>1 DEF Settles
    <2>3. CASE g[i] = g[i - 1]
        BY <2>1, <2>3
    <2>4. CASE \E d \in S : Positions(g[i - 1], d, g[i])
        <3>1. Moves(g[i - 1], S, g[i])
            BY <2>2, <2>4, PositionsMoves
        <3>2. Moves(s, S, g[i])
            BY <2>1, <3>1, MovesTwice
        <3> QED
            BY <2>1, <3>2
    <2> QED
        BY <2>3, <2>4 DEF Settles
<1>4. \A i \in 0..n : i \in T
    <2> HIDE DEF T
    <2> QED
        BY <1>1, <1>2, <1>3, UpTo, Zenon
<1> QED
    BY <1>1, <1>4

(* From a fresh start the proposals that wait do not finish the height.    *)
Quiet(s) == s.running /\ s.pendingVotes = {} /\ (s.acceptVotes = {} \/ s.processFinished = TRUE)

LEMMA PositionsQuiet ==
    ASSUME N > 1, NEW s, Quiet(s), NEW d, NEW t, Positions(s, d, t)
    PROVE  Quiet(t) /\ Going(s, t)
<1>1. t.pendingVotes = {}
    BY DEF Quiet, Positions, Offers
<1>2. CASE Passes(s, d, t)
    BY <1>1, <1>2 DEF Quiet, Passes, Going
<1>3. CASE Refuses(s, d, t)
    BY <1>1, <1>3 DEF Quiet, Refuses, Rejects, Stayed, Dropped, Going
<1>4. CASE Agrees(s, d, t)
    <2>1. PICK r : Speculates(s, d, r) /\ Accepts(r, d, t)
        BY <1>4 DEF Agrees
    <2>2. r.pendingVotes = {} /\ r.acceptVotes = {}
        BY <1>4, <2>1 DEF Agrees, Speculates, Quiet
    <2>3. t.processFinished = TRUE /\ Going(r, t)
        BY <2>1, <2>2, NAssumption DEF Accepts
    <2> QED
        BY <1>1, <2>1, <2>3 DEF Speculates, Going, Quiet
<1> QED
    BY <1>2, <1>3, <1>4 DEF Positions

LEMMA SettlesQuiet ==
    ASSUME NEW g, NEW n, NEW S, NEW s, NEW t, Settles(g, n, S, s, t), Quiet(s), N > 1 \/ S = {}
    PROVE  Quiet(t) /\ Going(s, t)
<1> DEFINE T == {i \in 0..n : Quiet(g[i]) /\ Going(s, g[i])}
<1>1. n \in Nat /\ g[0] = s /\ t = g[n]
    BY DEF Settles
<1>2. 0 \in T
    BY <1>1 DEF Going
<1>3. ASSUME NEW i \in 1..n, i - 1 \in T PROVE i \in T
    <2>1. Quiet(g[i - 1]) /\ Going(s, g[i - 1]) /\ i \in 0..n
        BY <1>1, <1>3
    <2>2. CASE g[i] = g[i - 1]
        BY <2>1, <2>2
    <2>3. CASE \E d \in S : Positions(g[i - 1], d, g[i])
        <3>1. Quiet(g[i]) /\ Going(g[i - 1], g[i])
            BY <2>1, <2>3, PositionsQuiet
        <3> QED
            BY <2>1, <3>1 DEF Going
    <2> QED
        BY <2>2, <2>3 DEF Settles
<1>4. \A i \in 0..n : i \in T
    <2> HIDE DEF T
    <2> QED
        BY <1>1, <1>2, <1>3, UpTo, Zenon
<1> QED
    BY <1>1, <1>4

-----------------------------------------------------------------------------
(* Making a proposal.                                                      *)
Proposal(s, b) == [sponsor |-> s.self, block |-> b, view |-> s.view]

Offered(s, b, e) ==
    /\ Tidy(e) /\ Held(s, e) /\ Going(s, e) /\ Fewer(s, e) /\ e.out = s.out \cup {Proposal(s, b)}
    /\ e.acceptVotes = s.acceptVotes /\ e.pendingVotes = s.pendingVotes
    /\ e.processingBlock = b

Starts(s, b, t) ==
    \/ t = s /\ s.processingBlock # None
    \/ s.processingBlock = None /\ \E e : Offered(s, b, e) /\ Accepts(e, Proposal(s, b), t)

LEMMA StartStarts ==
    ASSUME NEW s, Tidy(s), NEW b, NEW t, t = StartProposal(s, b)
    PROVE  Starts(s, b, t)
<1> DEFINE d == Proposal(s, b)
           e == Send([s EXCEPT !.processingBlock = b], d)
<1>1. CASE s.processingBlock # None
    BY <1>1 DEF StartProposal, Starts
<1>2. CASE s.processingBlock = None
    <2>1. t = AcceptProposal(e, d)
        BY <1>2 DEF StartProposal, Proposal
    <2>2. Offered(s, b, e)
        BY DEF Send, Offered, Tidy, Held, Going, Fewer, Fields
    <2> HIDE DEF e, d
    <2>3. Accepts(e, d, t)
        BY <2>1, <2>2, AcceptAccepts DEF Offered, Tidy
    <2> QED
        BY <1>2, <2>2, <2>3 DEF Starts, d
<1> QED
    BY <1>1, <1>2

LEMMA AcceptsMoves ==
    ASSUME NEW s, Tidy(s), NEW d, NEW t, Accepts(s, d, t)
    PROVE  s.processingBlock \in s.blocks /\ s.running => Moves(s, {}, t)
<1> SUFFICES ASSUME s.processingBlock \in s.blocks, s.running PROVE Moves(s, {}, t)
    OBVIOUS
<1>1. Held(s, t)
    BY DEF Accepts, TakesUp, Stayed, Dropped, Ended
<1>2. Tidy(t) /\ Kept(s, {}, t) /\ t.pendingVotes \subseteq s.pendingVotes
    BY <1>1, FS_Subset DEF Accepts, Fewer, Tidy, Held, Kept
<1>3. Speaks(s, t)
    <2>1. t.out = s.out \/ t.out = s.out \cup {Signed(s, d, TRUE)}
        BY DEF Accepts, TakesUp
    <2> QED
        BY <2>1 DEF Speaks
<1>4. CASE Going(s, t) /\ t.processingBlock \in {s.processingBlock, None}
    <2>1. Steady(t)
        BY <1>1, <1>4 DEF Going, Held, Steady
    <2> QED
        BY <1>1, <1>2, <1>3, <1>4, <2>1 DEF Moves
<1>5. CASE Ended(s, t) /\ t.finishedHeight = s.processingBlock.h
    <2>1. Finishes(s, t)
        BY <1>5 DEF Ended, Finishes
    <2>2. Steady(t) /\ \E b \in s.blocks : t.finishedHeight = b.h
        BY <1>5 DEF Ended, Steady, Held
    <2> QED
        BY <1>1, <1>2, <1>3, <2>1, <2>2 DEF Moves
<1> QED
    BY <1>4, <1>5 DEF Accepts, TakesUp, Stayed, Dropped

-----------------------------------------------------------------------------
(* A change of view by k.                                                  *)
Turned(s, k, c) ==
    /\ Tidy(c) /\ Held(s, c) /\ Fewer(s, c) /\ c.out = s.out
    /\ c.running = s.running /\ c.finishedHeight = s.finishedHeight
    /\ c.view = s.view + k /\ c.onDuty = (OnDutyArbiter(Height(s), c.view) = s.self)
    /\ \/ /\ c.processingBlock = s.processingBlock /\ c.acceptVotes = s.acceptVotes
          /\ c.pendingVotes = s.pendingVotes
       \/ c.processingBlock = None /\ c.pendingVotes = {} /\ c.processFinished = FALSE

Usable(s) == s.list # <<>> /\ s.list[1] \in s.blocks /\ s.list[1].h > s.finishedHeight

Changed(s, k, t) ==
    \/ Turned(s, k, t)
    \/ \E c, a, g, n :
          /\ Turned(s, k, c) /\ c.processingBlock = None
          /\ \/ a = c
             \/ c.onDuty /\ Usable(c) /\ Starts(c, c.list[1], a)
          /\ Tidy(a) => Settles(g, n, a.precociousProposals, a, t)

LEMMA ChangeViewChanged ==
    ASSUME NEW s, Tidy(s), NEW k, NEW t, t = ChangeView(s, k)
    PROVE  Changed(s, k, t)
<1> DEFINE v == s.view + k
           x == [s EXCEPT !.view = v, !.onDuty = (OnDutyArbiter(Height(s), v) = s.self)]
           c == CleanProposals(x, TRUE)
           a == IF x.onDuty THEN StartProposal(c, x.list[1]) ELSE c
<1>1. t = OnViewChanged(x)
    BY DEF ChangeView, SwitchTo, Tidy, Fields
<1>2. Turned(s, k, x)
    BY DEF Turned, Tidy, Held, Fewer, Fields
<1> HIDE DEF x
<1>3. t = IF x.onDuty /\ ~Usable(x) THEN x ELSE UpdatePrecociousProposals(a)
    BY <1>1 DEF OnViewChanged, Usable, OnDutyChangeView, NormalChangeView
<1>4. CASE x.onDuty /\ ~Usable(x)
    BY <1>2, <1>3, <1>4 DEF Changed
<1>5. CASE ~(x.onDuty /\ ~Usable(x))
    <2>1. Fewer(x, c) /\ c.out = x.out /\ Dropped(x, c)
        BY <1>2, CleanCounts DEF Turned, Tidy
    <2> HIDE DEF c
    <2>2. Tidy(c)
        BY <1>2, <2>1, FS_Subset DEF Turned, Tidy, Fewer, Dropped, Held
    <2>3. Turned(s, k, c) /\ c.processingBlock = None
        BY <1>2, <2>1, <2>2 DEF Turned, Fewer, Dropped, Held, Going, Height
    <2>4. c.list = x.list /\ c.blocks = x.blocks /\ c.finishedHeight = x.finishedHeight /\ c.onDuty = x.onDuty
        BY <2>1 DEF Dropped, Held, Going
    <2>5. a = c \/ (c.onDuty /\ Usable(c) /\ Starts(c, c.list[1], a))
        <3>1. CASE x.onDuty
            <4>1. a = StartProposal(c, c.list[1]) /\ Usable(c)
                BY <1>5, <2>4, <3>1 DEF Usable
            <4> QED
                BY <2>2, <2>4, <3>1, <4>1, StartStarts
        <3>2. CASE ~x.onDuty
            BY <3>2
        <3> QED
            BY <3>1, <3>2
    <2>6. t = UpdatePrecociousProposals(a)
        BY <1>3, <1>5
    <2> HIDE DEF a
    <2>7. PICK g, n : Tidy(a) => Settles(g, n, a.precociousProposals, a, t)
        BY <2>6, ViewSettles
    <2> QED
        BY <2>3, <2>5, <2>7 DEF Changed
<1> QED
    BY <1>4, <1>5

-----------------------------------------------------------------------------
(* What the handlers do, as far as the theorems depend on it.              *)
Duty0(s) == OnDutyArbiter(Height(s), 0) = s.self

Says(s, D, t) ==
    /\ s.out \subseteq t.out
    /\ \A m \in t.out \ s.out : m \in D \/ \E d, yes : m = Signed(s, d, yes)

Goes(s, t) ==
    /\ t.running = s.running /\ t.view = s.view /\ t.finishedHeight = s.finishedHeight
    /\ t.onDuty = s.onDuty \/ t.onDuty = Duty0(s)

(* A height that was worked on is over, with a block the arbiter knew.     *)
Closes(s, t) == Finishes(s, t) /\ (Steady(s) => \E b \in s.blocks : t.finishedHeight = b.h)

(* A message or a vote is handled in the view the arbiter is in.           *)
Works(s, S, t) ==
    /\ Tidy(t) /\ Held(s, t) /\ Says(s, {}, t) /\ Kept(s, S, t)
    /\ Goes(s, t) \/ Closes(s, t)
    /\ Steady(s) => Steady(t)

LEMMA MovesWorks ==
    ASSUME NEW s, NEW S, NEW t, Moves(s, S, t)
    PROVE  Works(s, S, t)
<1>1. Tidy(t) /\ Held(s, t) /\ Says(s, {}, t) /\ Kept(s, S, t) /\ (Steady(s) => Steady(t))
    BY DEF Moves, Says, Speaks
<1>2. CASE Going(s, t)
    BY <1>1, <1>2 DEF Works, Goes, Going
<1>3. CASE ~Going(s, t)
    BY <1>1, <1>3 DEF Works, Closes, Moves
<1> QED
    BY <1>2, <1>3

(* The bookkeeping of the recovery.                                        *)
Same(a, t) ==
    /\ Held(a, t) /\ t.out = a.out /\ t.running = a.running /\ t.view = a.view
    /\ t.finishedHeight = a.finishedHeight /\ t.processingBlock = a.processingBlock
    /\ t.processFinished = a.processFinished
    /\ t.acceptVotes = a.acceptVotes /\ t.pendingVotes = a.pendingVotes
    /\ t.pendingProposals = a.pendingProposals
    /\ t.precociousProposals = a.precociousProposals
    /\ t.onDuty = a.onDuty \/ t.onDuty = Duty0(a)

LEMMA SameWorks ==
    ASSUME NEW s, NEW S, NEW a, Works(s, S, a), NEW t, Same(a, t)
    PROVE  Works(s, S, t)
<1>1. Tidy(t) /\ Held(s, t) /\ Says(s, {}, t) /\ Kept(s, S, t)
    BY DEF Works, Same, Tidy, Held, Says, Kept
<1>2. Steady(a) => Steady(t)
    BY DEF Same, Steady, Held
<1>3. Duty0(a) = Duty0(s)
    BY DEF Works, Held, Duty0, Height
<1>4. CASE Goes(s, a)
    <2>1. Goes(s, t)
        BY <1>3, <1>4 DEF Same, Goes
    <2> QED
        BY <1>1, <1>2, <2>1 DEF Works
<1>5. CASE Closes(s, a)
    <2>1. Finishes(s, t)
        BY <1>3, <1>5 DEF Same, Closes, Finishes, Duty0
    <2>2. Closes(s, t)
        BY <1>5, <2>1 DEF Same, Closes
    <2> QED
        BY <1>1, <1>2, <2>2 DEF Works
<1> QED
    BY <1>4, <1>5 DEF Works

(* A vote of a peer.                                                       *)
LEMMA PeerVoteWorks ==
    ASSUME NEW s, Tidy(s), NEW v, NEW t, t = ProcessPeerVote(s, v)
    PROVE  Works(s, {}, t)
<1>1. Works(s, {}, s)
    BY MovesNot, MovesWorks
<1>2. CASE t = s
    BY <1>1, <1>2
<1>3. CASE s.running /\ t = AddPendingVote(s, v)
    <2>1. Tidy(t)
        BY <1>3, FS_AddElement DEF AddPendingVote, Tidy, Fields
    <2>2. Held(s, t) /\ Going(s, t)
        BY <1>3 DEF AddPendingVote, Tidy, Held, Going, Fields
    <2>3. /\ t.out = s.out /\ t.processingBlock = s.processingBlock
          /\ t.pendingProposals = s.pendingProposals
          /\ t.precociousProposals = s.precociousProposals
        BY <1>3 DEF AddPendingVote, Tidy, Fields
    <2>4. Says(s, {}, t) /\ Kept(s, {}, t)
        BY <2>3 DEF Says, Kept
    <2>5. Goes(s, t)
        BY <2>2 DEF Going, Goes
    <2>6. Steady(s) => Steady(t)
        BY <1>3, <2>2, <2>3 DEF Going, Held, Steady
    <2> QED
        BY <2>1, <2>2, <2>4, <2>5, <2>6 DEF Works
<1>4. CASE s.running /\ t = ProcessVote(s, v)
    <2>1. Counts(s, v, t)
        BY <1>4, VoteCounts DEF Tidy
    <2>2. Held(s, t)
        BY <2>1 DEF Counts, Stayed, Dropped, Ended
    <2>3. Tidy(t) /\ Kept(s, {}, t) /\ Says(s, {}, t)
        BY <2>1, <2>2, FS_Subset DEF Counts, Fewer, Tidy, Held, Kept, Says
    <2>4. CASE Stayed(s, t) \/ Dropped(s, t)
        BY <1>4, <2>2, <2>3, <2>4 DEF Works, Goes, Stayed, Dropped, Going, Held, Steady
    <2>5. CASE Ended(s, t) /\ s.processingBlock # None /\ t.finishedHeight = s.processingBlock.h
        <3>1. Closes(s, t)
            BY <2>5 DEF Closes, Finishes, Ended, Steady
        <3>2. Steady(t)
            BY <2>5 DEF Ended, Steady
        <3> QED
            BY <2>2, <2>3, <3>1, <3>2 DEF Works
    <2> QED
        BY <2>1, <2>4, <2>5 DEF Counts
<1> QED
    BY <1>2, <1>3, <1>4 DEF ProcessPeerVote, OnDutyProcessVote, NormalProcessVote

LEMMA DutySame ==
    ASSUME NEW s, Tidy(s), NEW t, t = ChangeOnDuty(s)
    PROVE  Same(s, t) /\ t.onDuty = Duty0(s)
BY DEF ChangeOnDuty, SwitchTo, Same, Tidy, Held, Duty0, Fields

(* The fields of the recovery are of no concern.                           *)
LEMMA BookSame ==
    ASSUME NEW s, Tidy(s), NEW x
    PROVE  /\ Same(s, [s EXCEPT !.notHandled = x])
           /\ Same(s, [s EXCEPT !.recoverStarted = x])
           /\ Same(s, [s EXCEPT !.isAbnormal = x])
<1>1. Same(s, [s EXCEPT !.notHandled = x])
    BY DEF Same, Tidy, Held, Fields
<1>2. Same(s, [s EXCEPT !.recoverStarted = x])
    BY DEF Same, Tidy, Held, Fields
<1>3. Same(s, [s EXCEPT !.isAbnormal = x])
    BY DEF Same, Tidy, Held, Fields
<1> QED
    BY <1>1, <1>2, <1>3

LEMMA SameTwice ==
    ASSUME NEW r, Tidy(r), NEW s, Same(r, s), NEW t, Same(s, t)
    PROVE  Same(r, t) /\ Tidy(s) /\ Tidy(t)
<1>1. Tidy(s) /\ Tidy(t)
    BY DEF Tidy, Same, Held
<1>2. Duty0(s) = Duty0(r)
    BY DEF Same, Held, Duty0, Height
<1>3. Same(r, t)
    BY <1>2 DEF Same, Held
<1> QED
    BY <1>1, <1>3

LEMMA RecoverySame ==
    ASSUME NEW s, Tidy(s), NEW t, t = OnRecover(s) \/ t = OnRecoverTimeout(s)
    PROVE  Same(s, t)
<1>1. CASE t = OnRecoverTimeout(s)
    BY <1>1, BookSame DEF OnRecoverTimeout
<1>2. CASE t = OnRecover(s)
    <2> DEFINE a == ChangeOnDuty(s)
               b == [a EXCEPT !.recoverStarted = TRUE]
    <2>1. Same(s, a)
        BY DutySame
    <2>2. t = [b EXCEPT !.isAbnormal = TRUE]
        BY <1>2 DEF OnRecover, RecoverAbnormalState
    <2> HIDE DEF a
    <2>3. Tidy(a)
        BY <2>1 DEF Tidy, Same, Held
    <2>4. Same(a, b)
        BY <2>3, BookSame
    <2> HIDE DEF b
    <2>5. Same(s, b) /\ Tidy(b)
        BY <2>1, <2>4, SameTwice
    <2>6. Same(b, t)
        BY <2>2, <2>5, BookSame
    <2> QED
        BY <2>5, <2>6, SameTwice
<1> QED
    BY <1>1, <1>2

LEMMA VoteWorks ==
    ASSUME NEW s, Tidy(s), NEW v, NEW t, t = OnVoteAccepted(s, v) \/ t = OnVoteRejected(s, v)
    PROVE  Works(s, {}, t)
<1> DEFINE a == ProcessPeerVote(s, v)
<1>1. Works(s, {}, a)
    BY PeerVoteWorks
<1>2. t = a \/ t = ChangeOnDuty(a)
    BY DEF OnVoteAccepted, OnVoteRejected, IfFinishedChangeDuty
<1> HIDE DEF a
<1>3. Tidy(a)
    BY <1>1 DEF Works
<1> QED
    BY <1>1, <1>2, <1>3, DutySame, SameWorks

(* A proposal that an arbiter off duty looks at.                           *)
LEMMA ProposalWorks ==
    ASSUME NEW s, Tidy(s), NEW d, NEW from, NEW t, t = NormalProcessProposal(s, from, d)
    PROVE  Works(s, {d}, t)
<1>1. Positions(s, d, t)
    BY ProcessPositions DEF NormalProcessProposal, Tidy
<1> QED
    BY <1>1, PositionsMoves, MovesWorks

LEMMA NotHandledSame ==
    ASSUME NEW s, Tidy(s), NEW from, NEW t, t = CountNotHandled(s, from)
    PROVE  Same(s, t)
BY DEF CountNotHandled, RecoverAbnormalState, Same, Tidy, Held, Fields

-----------------------------------------------------------------------------
(* A change of view while a height is worked on: the arbiter on duty in    *)
(* the new view proposes the first block of its list.                      *)
Offer(s, b, v) == [sponsor |-> s.self, block |-> b, view |-> v]

Views(s, k, t) ==
    /\ Tidy(t) /\ Held(s, t) /\ Kept(s, {}, t)
    /\ \/ Says(s, {}, t)
       \/ /\ Says(s, {Offer(s, s.list[1], s.view + k)}, t)
          /\ OnDutyArbiter(Height(s), s.view + k) = s.self /\ Usable(s)
    /\ \/ t.running /\ t.finishedHeight = s.finishedHeight /\ t.view = s.view + k
       \/ Closes(s, t)
    /\ Steady(s) => Steady(t)

LEMMA MovesWider ==
    ASSUME NEW s, NEW S, NEW T, S \subseteq T, NEW t, Moves(s, S, t)
    PROVE  Moves(s, T, t)
<1>1. Kept(s, T, t)
    BY DEF Moves, Kept
<1> QED
    BY <1>1 DEF Moves

LEMMA TurnedViews ==
    ASSUME NEW s, s.running, NEW k, NEW c, Turned(s, k, c)
    PROVE  Views(s, k, c)
<1>1. Tidy(c) /\ Held(s, c) /\ Kept(s, {}, c) /\ Says(s, {}, c)
    BY DEF Turned, Kept, Fewer, Says
<1>2. Steady(s) => Steady(c)
    BY DEF Turned, Steady, Held
<1> QED
    BY <1>1, <1>2 DEF Views, Turned

LEMMA MovesViews ==
    ASSUME NEW s, s.running, NEW k, NEW c, Turned(s, k, c), c.processingBlock = None,
           NEW e, Held(c, e), Going(c, e), Fewer(c, e),
           \/ e.out = c.out
           \/ /\ e.out = c.out \cup {Offer(s, s.list[1], s.view + k)}
              /\ OnDutyArbiter(Height(s), s.view + k) = s.self /\ Usable(s),
           Steady(e),
           NEW S, S \subseteq e.pendingProposals \cup e.precociousProposals,
           NEW t, Moves(e, S, t)
    PROVE  Views(s, k, t)
<1>1. Tidy(t) /\ Held(s, t)
    BY DEF Moves, Turned, Held
<1>2. Kept(s, {}, t)
    BY DEF Moves, Turned, Kept, Fewer
<1>3. e.self = s.self /\ c.out = s.out /\ e.blocks = s.blocks /\ e.chain = s.chain
    BY DEF Turned, Held
<1>4. \A d, yes : Signed(e, d, yes) = Signed(s, d, yes)
    BY <1>3 DEF Signed
<1>5. \/ Says(s, {}, t)
      \/ /\ Says(s, {Offer(s, s.list[1], s.view + k)}, t)
         /\ OnDutyArbiter(Height(s), s.view + k) = s.self /\ Usable(s)
    <2>1. e.out \subseteq t.out /\ \A m \in t.out \ e.out : \E d, yes : m = Signed(s, d, yes)
        BY <1>4 DEF Moves, Speaks
    <2>2. CASE e.out = c.out
        BY <1>3, <2>1, <2>2 DEF Says
    <2>3. CASE e.out # c.out
        <3> DEFINE o == Offer(s, s.list[1], s.view + k)
        <3>1. /\ e.out = s.out \cup {o}
              /\ OnDutyArbiter(Height(s), s.view + k) = s.self /\ Usable(s)
            BY <1>3, <2>3
        <3> HIDE DEF o
        <3>2. Says(s, {o}, t)
            BY <2>1, <3>1 DEF Says
        <3> QED
            BY <3>1, <3>2 DEF o
    <2> QED
        BY <2>2, <2>3
<1>6. Steady(t)
    BY DEF Moves
<1>7. CASE Going(e, t)
    <2>1. t.running /\ t.finishedHeight = s.finishedHeight /\ t.view = s.view + k
        BY <1>7 DEF Turned, Going
    <2> QED
        BY <1>1, <1>2, <1>5, <1>6, <2>1 DEF Views
<1>8. CASE ~Going(e, t)
    <2>1. Finishes(e, t) /\ \E b \in s.blocks : t.finishedHeight = b.h
        BY <1>3, <1>8 DEF Moves
    <2>2. Finishes(s, t)
        BY <1>3, <2>1 DEF Finishes, Height
    <2> QED
        BY <1>1, <1>2, <1>5, <1>6, <2>1, <2>2 DEF Views, Closes
<1> QED
    BY <1>7, <1>8

LEMMA ChangeViewViews ==
    ASSUME NEW s, Tidy(s), s.running, NEW k, NEW t, t = ChangeView(s, k)
    PROVE  Views(s, k, t)
<1>1. Changed(s, k, t)
    BY ChangeViewChanged
<1>2. CASE Turned(s, k, t)
    BY <1>2, TurnedViews
<1>3. CASE ~Turned(s, k, t)
    <2>1. PICK c, a, g, n :
             /\ Turned(s, k, c) /\ c.processingBlock = None
             /\ \/ a = c
                \/ c.onDuty /\ Usable(c) /\ Starts(c, c.list[1], a)
             /\ Tidy(a) => Settles(g, n, a.precociousProposals, a, t)
        BY <1>1, <1>3 DEF Changed
    <2>2. c.running /\ Steady(c) /\ Tidy(c)
        BY <2>1 DEF Turned, Steady
    <2>3. CASE a = c
        <3>1. Moves(c, c.precociousProposals, t)
            BY <2>1, <2>2, <2>3, SettlesMoves
        <3>2. Held(c, c) /\ Going(c, c) /\ Fewer(c, c)
            BY <2>2 DEF Held, Going, Fewer, Tidy
        <3> QED
            BY <2>1, <2>2, <3>1, <3>2, MovesViews
    <2>4. CASE a # c
        <3>1. c.onDuty /\ Usable(c) /\ Starts(c, c.list[1], a)
            BY <2>1, <2>4
        <3> DEFINE b == c.list[1]
        <3>2. PICK e : Offered(c, b, e) /\ Accepts(e, Proposal(c, b), a)
            BY <2>1, <3>1 DEF Starts
        <3>3. Tidy(e) /\ e.processingBlock \in e.blocks /\ e.running
            BY <2>2, <3>1, <3>2 DEF Offered, Usable, Held, Going
        <3>4. Moves(e, {}, a)
            BY <3>2, <3>3, AcceptsMoves
        <3> DEFINE S == a.precociousProposals
        <3>5. Tidy(a) /\ S \subseteq e.pendingProposals \cup e.precociousProposals
            BY <3>4 DEF Moves, Kept
        <3>6. Moves(a, S, t)
            BY <2>1, <3>5, SettlesMoves
        <3> HIDE DEF S
        <3>7. Moves(e, S, t)
            BY <3>4, <3>6, MovesWider, MovesTwice
        <3>8. Held(c, e) /\ Going(c, e) /\ Fewer(c, e) /\ Steady(e)
            BY <3>2, <3>3 DEF Offered, Steady
        <3>9. Proposal(c, b) = Offer(s, s.list[1], s.view + k)
            BY <2>1 DEF Turned, Held, Proposal, Offer
        <3>10. OnDutyArbiter(Height(s), s.view + k) = s.self /\ Usable(s)
            BY <2>1, <3>1 DEF Turned, Held, Usable
        <3>11. e.out = c.out \cup {Offer(s, s.list[1], s.view + k)}
            BY <3>2, <3>9 DEF Offered
        <3> QED
            BY <2>1, <3>5, <3>7, <3>8, <3>10, <3>11, MovesViews
    <2> QED
        BY <2>3, <2>4
<1> QED
    BY <1>2, <1>3

-----------------------------------------------------------------------------
(* A block arrives while a height is worked on,                            *)
Extended(s, b, x) ==
    /\ Tidy(x) /\ x.blocks = s.blocks \cup {b} /\ x.list = Append(s.list, b)
    /\ x.self = s.self /\ x.chain = s.chain /\ x.events = s.events /\ x.pool = s.pool
    /\ x.out = s.out /\ Going(s, x) /\ x.processingBlock = s.processingBlock
    /\ x.processFinished = s.processFinished
    /\ x.acceptVotes = s.acceptVotes /\ x.pendingVotes = s.pendingVotes
    /\ x.pendingProposals = s.pendingProposals /\ x.precociousProposals = s.precociousProposals

LEMMA AddExtends ==
    ASSUME NEW s, Tidy(s), NEW b, NEW t, t = AddValue(s, b)
    PROVE  \E x : Extended(s, b, x) /\ \E S : /\ S \subseteq x.pendingProposals
                                              /\ \E g, n : Settles(g, n, S, x, t)
<1> DEFINE x == [s EXCEPT !.blocks = @ \cup {b}, !.list = Append(@, b)]
           S == {d \in x.pendingProposals : d.block = b}
<1>1. t = OnBlockAdded(x, b)
    BY DEF AddValue
<1>2. Extended(s, b, x)
    BY DEF Extended, Tidy, Going, Fields
<1> HIDE DEF x
<1>3. \E g, n : Settles(g, n, S, x, t)
    BY <1>1, <1>2, BlockSettles DEF Extended
<1> QED
    BY <1>2, <1>3

Adds(s, b, t) == \E x : Extended(s, b, x) /\ Works(x, {}, t)

LEMMA AddAdds ==
    ASSUME NEW s, Tidy(s), NEW b, NEW t, t = AddValue(s, b)
    PROVE  Adds(s, b, t)
<1>1. PICK x : Extended(s, b, x) /\ \E S : /\ S \subseteq x.pendingProposals
                                           /\ \E g, n : Settles(g, n, S, x, t)
    BY AddExtends
<1>2. PICK S : S \subseteq x.pendingProposals /\ \E g, n : Settles(g, n, S, x, t)
    BY <1>1
<1>3. Works(x, S, t)
    BY <1>2, SettlesMoves, MovesWorks
<1>4. Kept(x, {}, t)
    BY <1>2, <1>3 DEF Works, Kept
<1> QED
    BY <1>1, <1>3, <1>4 DEF Adds, Works

(* or while none is: the height is opened, and the arbiter on duty makes   *)
(* the first proposal.                                                     *)
Kept0(s, b) == {c \in s.blocks : c.h >= b.h}
List0(s, b) == Append(IF Kept0(s, b) = {} THEN <<>>
                      ELSE Append(s.list, CHOOSE c \in Kept0(s, b) : TRUE), b)

Opened(s, b, x) ==
    /\ Tidy(x) /\ x.blocks = Kept0(s, b) \cup {b} /\ x.list = List0(s, b)
    /\ x.self = s.self /\ x.chain = s.chain /\ x.events = s.events /\ x.pool = s.pool
    /\ x.out = s.out /\ x.running = TRUE /\ x.view = 0 /\ x.onDuty = s.onDuty
    /\ x.finishedHeight = s.finishedHeight /\ x.processingBlock = s.processingBlock
    /\ x.acceptVotes = s.acceptVotes /\ x.pendingVotes = s.pendingVotes
    /\ x.pendingProposals = s.pendingProposals /\ x.precociousProposals = s.precociousProposals

(* The proposals that wait can finish the height only if votes wait too,   *)
(* or the arbiter is alone.                                                *)
Fresh(s) == Steady(s) /\ (N > 1 \/ s.pendingProposals \cup s.precociousProposals = {})

Opens(s, b, t) ==
    /\ Tidy(t) /\ t.blocks = Kept0(s, b) \cup {b} /\ t.list = List0(s, b)
    /\ t.self = s.self /\ t.chain = s.chain /\ t.events = s.events /\ t.pool = s.pool
    /\ Kept(s, {}, t)
    /\ Says(s, {}, t) \/ (s.onDuty /\ Says(s, {Offer(s, b, 0)}, t))
    /\ t.view = 0 /\ (t.onDuty = s.onDuty \/ t.onDuty = Duty0(s))
    /\ Fresh(s) => /\ Steady(t)
                   /\ \/ t.running = TRUE /\ t.finishedHeight = s.finishedHeight
                      \/ t.running = FALSE /\ \E c \in t.blocks : t.finishedHeight = c.h

LEMMA ConsensusOpened ==
    ASSUME NEW s, Tidy(s), NEW b, NEW t, t = StartConsensus(s, b)
    PROVE  \E x : Opened(s, b, x) /\ \E S : /\ S \subseteq x.pendingProposals
                                            /\ \E g, n : Settles(g, n, S, x, t)
<1> DEFINE y == SetRunning(ResetCache(s, b))
<1>1. t = AddValue(y, b)
    BY DEF StartConsensus
<1>2. /\ y.blocks = Kept0(s, b)
      /\ y.list = IF Kept0(s, b) = {} THEN <<>> ELSE Append(s.list, CHOOSE c \in Kept0(s, b) : TRUE)
      /\ y.self = s.self /\ y.chain = s.chain /\ y.events = s.events /\ y.pool = s.pool
      /\ y.out = s.out /\ y.running = TRUE /\ y.view = 0 /\ y.onDuty = s.onDuty
      /\ y.finishedHeight = s.finishedHeight /\ y.processingBlock = s.processingBlock
      /\ y.acceptVotes = s.acceptVotes /\ y.pendingVotes = s.pendingVotes
      /\ y.pendingProposals = s.pendingProposals /\ y.precociousProposals = s.precociousProposals
      /\ DOMAIN y = Fields
    BY DEF SetRunning, ResetCache, Kept0, Tidy, Fields
<1> HIDE DEF y
<1>3. Tidy(y)
    BY <1>2 DEF Tidy
<1>4. PICK x : Extended(y, b, x) /\ \E S : /\ S \subseteq x.pendingProposals
                                           /\ \E g, n : Settles(g, n, S, x, t)
    BY <1>1, <1>3, AddExtends
<1>5. Opened(s, b, x)
    BY <1>2, <1>4 DEF Opened, Extended, Going, List0
<1> QED
    BY <1>4, <1>5

LEMMA AcceptsPlain ==
    ASSUME NEW s, Tidy(s), NEW d, NEW t, Accepts(s, d, t)
    PROVE  /\ Tidy(t) /\ Held(s, t) /\ Kept(s, {}, t) /\ Speaks(s, t)
           /\ Going(s, t) \/ Finishes(s, t)
<1>1. Held(s, t)
    BY DEF Accepts, TakesUp, Stayed, Dropped, Ended
<1>2. Tidy(t) /\ Kept(s, {}, t)
    BY <1>1, FS_Subset DEF Accepts, Fewer, Tidy, Held, Kept
<1>3. Speaks(s, t)
    <2>1. t.out = s.out \/ t.out = s.out \cup {Signed(s, d, TRUE)}
        BY DEF Accepts, TakesUp
    <2> QED
        BY <2>1 DEF Speaks
<1>4. Going(s, t) \/ Finishes(s, t)
    BY DEF Accepts, TakesUp, Stayed, Dropped, Ended, Finishes
<1> QED
    BY <1>1, <1>2, <1>3, <1>4

LEMMA ConsensusOpens ==
    ASSUME NEW s, Tidy(s), ~s.running, NEW b, NEW t, t = StartConsensus(s, b)
    PROVE  /\ Opens(s, b, t) /\ Says(s, {}, t)
           /\ Fresh(s) => t.running = TRUE /\ t.finishedHeight = s.finishedHeight
<1>1. PICK x : Opened(s, b, x) /\ \E S : /\ S \subseteq x.pendingProposals
                                         /\ \E g, n : Settles(g, n, S, x, t)
    BY ConsensusOpened
<1>2. PICK S, g, n : S \subseteq x.pendingProposals /\ Settles(g, n, S, x, t)
    BY <1>1
<1>3. Moves(x, S, t)
    BY <1>2, SettlesMoves
<1>4. /\ Tidy(t) /\ t.blocks = Kept0(s, b) \cup {b} /\ t.list = List0(s, b)
      /\ t.self = s.self /\ t.chain = s.chain /\ t.events = s.events /\ t.pool = s.pool
    BY <1>1, <1>3 DEF Moves, Opened, Held
<1>5. Kept(s, {}, t)
    BY <1>1, <1>2, <1>3 DEF Moves, Opened, Kept
<1>6. Says(s, {}, t)
    <2>1. \A d, yes : Signed(x, d, yes) = Signed(s, d, yes)
        BY <1>1 DEF Opened, Signed
    <2> QED
        BY <1>1, <1>3, <2>1 DEF Moves, Speaks, Says, Opened
<1>7. t.view = 0 /\ (t.onDuty = s.onDuty \/ t.onDuty = Duty0(s))
    <2>1. Going(x, t) \/ Finishes(x, t)
        BY <1>3 DEF Moves
    <2> QED
        BY <1>1, <2>1 DEF Going, Finishes, Opened, Duty0, Height
<1>8. ASSUME Fresh(s)
      PROVE  Steady(t) /\ t.running = TRUE /\ t.finishedHeight = s.finishedHeight
    <2>1. Quiet(x) /\ Steady(x)
        BY <1>1, <1>8 DEF Fresh, Steady, Quiet, Opened
    <2>2. N > 1 \/ S = {}
        BY <1>1, <1>2, <1>8 DEF Fresh, Opened
    <2>3. Going(x, t)
        BY <1>2, <2>1, <2>2, SettlesQuiet
    <2> QED
        BY <1>1, <1>3, <2>1, <2>3 DEF Moves, Going, Opened
<1> QED
    BY <1>4, <1>5, <1>6, <1>7, <1>8 DEF Opens

LEMMA OfferOpens ==
    ASSUME NEW s, Tidy(s), ~s.running, s.onDuty, NEW b,
           NEW t, t = StartProposal(StartConsensus(s, b), b)
    PROVE  Opens(s, b, t)
<1> DEFINE a == StartConsensus(s, b)
<1>1. /\ Opens(s, b, a) /\ Says(s, {}, a)
      /\ Fresh(s) => a.running = TRUE /\ a.finishedHeight = s.finishedHeight
    BY ConsensusOpens
<1> HIDE DEF a
<1>2. Starts(a, b, t)
    BY <1>1, StartStarts DEF a, Opens
<1>3. CASE t = a
    BY <1>1, <1>3
<1>4. CASE t # a
    <2>1. PICK e : Offered(a, b, e) /\ Accepts(e, Proposal(a, b), t)
        BY <1>2, <1>4 DEF Starts
    <2>2. /\ Tidy(t) /\ Held(e, t) /\ Kept(e, {}, t) /\ Speaks(e, t)
          /\ Going(e, t) \/ Finishes(e, t)
        BY <2>1, AcceptsPlain DEF Offered
    <2>3. /\ t.blocks = Kept0(s, b) \cup {b} /\ t.list = List0(s, b)
          /\ t.self = s.self /\ t.chain = s.chain /\ t.events = s.events /\ t.pool = s.pool
        BY <1>1, <2>1, <2>2 DEF Opens, Offered, Held
    <2>4. Kept(s, {}, t)
        BY <1>1, <2>1, <2>2 DEF Opens, Offered, Kept, Fewer
    <2>5. Says(s, {Offer(s, b, 0)}, t)
        <3>1. Proposal(a, b) = Offer(s, b, 0)
            BY <1>1 DEF Opens, Proposal, Offer
        <3>2. e.out = a.out \cup {Offer(s, b, 0)}
            BY <2>1, <3>1 DEF Offered
        <3>3. \A d, yes : Signed(e, d, yes) = Signed(s, d, yes)
            BY <1>1, <2>1 DEF Opens, Offered, Held, Signed
        <3>4. \A m \in t.out \ e.out : \E d, yes : m = Signed(s, d, yes)
            BY <2>2, <3>3 DEF Speaks
        <3> HIDE DEF Offer
        <3> QED
            BY <1>1, <2>2, <3>2, <3>4 DEF Speaks, Says
    <2>6. t.view = 0 /\ (t.onDuty = s.onDuty \/ t.onDuty = Duty0(s))
        <3>1. e.view = 0 /\ (e.onDuty = s.onDuty \/ e.onDuty = Duty0(s))
              /\ e.chain = s.chain /\ e.self = s.self
            BY <1>1, <2>1 DEF Opens, Offered, Going, Held
        <3> QED
            BY <2>2, <3>1 DEF Going, Finishes, Duty0, Height
    <2>7. ASSUME Fresh(s)
          PROVE  /\ Steady(t)
                 /\ \/ t.running = TRUE /\ t.finishedHeight = s.finishedHeight
                    \/ t.running = FALSE /\ \E c \in t.blocks : t.finishedHeight = c.h
        <3>1. a.running = TRUE /\ a.finishedHeight = s.finishedHeight
            BY <1>1, <2>7
        <3>2. /\ e.running = TRUE /\ e.finishedHeight = s.finishedHeight
              /\ e.processingBlock = b /\ b \in e.blocks /\ e.blocks = t.blocks
            BY <1>1, <2>1, <2>2, <3>1 DEF Opens, Offered, Going, Held
        <3>3. Moves(e, {}, t)
            BY <2>1, <3>2, AcceptsMoves DEF Offered
        <3>4. Steady(e)
            BY <3>2 DEF Steady
        <3> QED
            BY <2>2, <3>2, <3>3, <3>4 DEF Moves, Going, Finishes
    <2> QED
        BY <2>2, <2>3, <2>4, <2>5, <2>6, <2>7 DEF Opens
<1> QED
    BY <1>3, <1>4

(* A block for a height not finished.                                      *)
Hears(s, b, t) ==
    \/ Same(s, t)
    \/ b \notin s.blocks /\ s.running /\ \E a : Adds(s, b, a) /\ Same(a, t)
    \/ b \notin s.blocks /\ ~s.running /\ \E a : Opens(s, b, a) /\ Same(a, t)

LEMMA HigherHears ==
    ASSUME NEW s, Tidy(s), NEW b, NEW t, t = ProcessHigherBlock(s, b)
    PROVE  Hears(s, b, t)
<1> DEFINE a == TryStartNewConsensus(s, b)
<1>1. ASSUME Tidy(a) PROVE Same(a, t)
    BY <1>1 DEF ProcessHigherBlock, Same, Tidy, Held, Fields
<1>2. CASE b \in s.blocks
    <2>1. a = s
        BY <1>2 DEF TryStartNewConsensus
    <2> QED
        BY <1>1, <2>1 DEF Hears
<1>3. CASE b \notin s.blocks /\ s.running
    <2>1. a = AddValue(s, b)
        BY <1>3 DEF TryStartNewConsensus, OnDutyTryStart, NormalTryStart
    <2> HIDE DEF a
    <2>2. Adds(s, b, a)
        BY <2>1, AddAdds
    <2>3. Tidy(a)
        BY <2>2 DEF Adds, Works
    <2> QED
        BY <1>1, <1>3, <2>2, <2>3 DEF Hears
<1>4. CASE b \notin s.blocks /\ ~s.running
    <2>1. a = IF s.onDuty THEN StartProposal(StartConsensus(s, b), b) ELSE StartConsensus(s, b)
        BY <1>4 DEF TryStartNewConsensus, OnDutyTryStart, NormalTryStart
    <2> HIDE DEF a
    <2>2. Opens(s, b, a)
        <3>1. CASE s.onDuty
            BY <1>4, <2>1, <3>1, OfferOpens
        <3>2. CASE ~s.onDuty
            BY <1>4, <2>1, <3>2, ConsensusOpens
        <3> QED
            BY <3>1, <3>2
    <2>3. Tidy(a)
        BY <2>2 DEF Opens
    <2> QED
        BY <1>1, <1>4, <2>2, <2>3 DEF Hears
<1> QED
    BY <1>2, <1>3, <1>4

(* The height of a confirmed block is over.                                *)
Confirms(s, b, t) ==
    /\ Tidy(t) /\ Held(s, t) /\ t.out = s.out /\ Kept(s, {}, t)
    /\ t.onDuty = Duty0(s)
    /\ \/ ~s.running /\ t.running = s.running /\ t.view = s.view /\ t.finishedHeight = s.finishedHeight
       \/ s.running /\ t.running = FALSE /\ t.view = 0 /\ t.finishedHeight = b.h
    /\ Steady(s) => Steady(t)

LEMMA ConfirmConfirms ==
    ASSUME NEW s, Tidy(s), NEW b, NEW t, t = ChangeOnDuty(ConfirmBlock(s, b))
    PROVE  Confirms(s, b, t)
<1> DEFINE f == FinishConsensus(s, b.h, b)
           c == ConfirmBlock(s, b)
<1>1. /\ s.running => Fewer(s, f) /\ Ended(s, f) /\ f.finishedHeight = b.h /\ f.out = s.out
      /\ ~s.running => f = s
    BY FinishCounts DEF Tidy
<1>2. c = [f EXCEPT !.notHandled = {}]
    BY DEF ConfirmBlock
<1> HIDE DEF f
<1>3. Tidy(f)
    BY <1>1, FS_Subset DEF Tidy, Fewer, Ended, Held
<1>4. Tidy(c) /\ Same(f, c)
    BY <1>2, <1>3 DEF Tidy, Same, Held, Fields
<1> HIDE DEF c
<1>5. Same(c, t) /\ t.onDuty = Duty0(c)
    BY <1>4, DutySame DEF c
<1>6. Same(f, t)
    BY <1>4, <1>5 DEF Same, Held, Duty0, Height
<1>7. Held(s, f) /\ f.out = s.out /\ Kept(s, {}, f) /\ (Steady(s) => Steady(f))
    BY <1>1 DEF Tidy, Held, Kept, Fewer, Ended, Steady
<1>8. Tidy(t) /\ Held(s, t) /\ t.out = s.out /\ Kept(s, {}, t)
    BY <1>3, <1>6, <1>7 DEF Tidy, Same, Held, Kept
<1>9. Steady(s) => Steady(t)
    BY <1>6, <1>7 DEF Same, Held, Steady
<1>10. t.onDuty = Duty0(s)
    BY <1>4, <1>5, <1>7 DEF Same, Held, Duty0, Height
<1>11. CASE s.running
    BY <1>1, <1>6, <1>8, <1>9, <1>10, <1>11 DEF Confirms, Ended, Same
<1>12. CASE ~s.running
    BY <1>1, <1>6, <1>8, <1>9, <1>10, <1>12 DEF Confirms, Same
<1> QED
    BY <1>11, <1>12

-----------------------------------------------------------------------------
(* The state an arbiter and its ledger are in between two events.          *)
OneHeight == \A b \in Blocks : b.h = 1

Proposals == [sponsor : Arbiters, block : Blocks, view : Int]
Proposed(s, P) == P \cup {m \in s.out : ~IsVote(m)}

(* Block events come before the confirm of their height, confirms before   *)
(* the blocks of the next one.                                             *)
Events == [b : Blocks, type : {"block", "confirm", "confirmed"}]
Level(e) == IF e.type = "block" THEN 2 * e.b.h - 1 ELSE 2 * e.b.h

Queued(q, m) ==
    /\ q \in Seq(Events) /\ \A i \in 1..Len(q) : Level(q[i]) <= m
    /\ OrderedEvents => \A i, j \in 1..Len(q) : i <= j => Level(q[i]) <= Level(q[j])

Queue(s) == Queued(s.events, 2 * Height(s) + 1)

(* The confirm of the ledger's last block is still to be handled.          *)
Awaited(s) ==
    \E i \in 1..Len(s.events) : s.events[i].type # "block" /\ s.events[i].b.h = Height(s)

Ledger(s) ==
    /\ s.self = Self /\ s.view \in Int
    /\ s.chain \in Seq(Blocks) /\ s.pool \subseteq Blocks /\ s.list \in Seq(Blocks)
    /\ \A b \in s.blocks : b \in Blocks /\ b.h <= Height(s) + 1

OnDutyOnly(s, P) ==
    \A d \in Proposed(s, P) :
        d.sponsor = Self /\ Height(s) < d.block.h => OnDutyFor(d.block, d.view) = Self

Base(s, P) ==
    Tidy(s) /\ Ledger(s) /\ Queue(s) /\ Proposed(s, P) \subseteq Proposals /\ OnDutyOnly(s, P)

(* Off work, the handler is the one for view 0 of the height to come, once *)
(* the confirm of the last block was handled.                              *)
Switched(s) == ~s.running /\ ~Awaited(s) => s.onDuty = Duty0(s)

LEMMA VotesAreVotes ==
    ASSUME NEW s, NEW d, NEW yes
    PROVE  IsVote(Signed(s, d, yes))
BY DEF IsVote, Signed

LEMMA SaysProposes ==
    ASSUME NEW s, NEW D, NEW t, Says(s, D, t), NEW P
    PROVE  Proposed(t, P) \subseteq Proposed(s, P) \cup D
<1> SUFFICES ASSUME NEW m \in t.out, ~IsVote(m), m \notin s.out PROVE m \in D
    BY DEF Proposed
<1>1. m \in D \/ \E d, yes : m = Signed(s, d, yes)
    BY DEF Says
<1> QED
    BY <1>1, VotesAreVotes

LEMMA BlockHeights ==
    ASSUME NEW s, Ledger(s)
    PROVE  Height(s) \in Nat /\ \A b \in Blocks : b.h \in Nat /\ b.h > 0
BY BlocksAssumption DEF Ledger, Height

LEMMA LedgerHeld ==
    ASSUME NEW s, Ledger(s), NEW t, Held(s, t), t.view \in Int
    PROVE  Ledger(t) /\ Height(t) = Height(s)
BY DEF Ledger, Held, Height

LEMMA QueueHeld ==
    ASSUME NEW s, NEW t, t.events = s.events, t.chain = s.chain
    PROVE  (Queue(s) => Queue(t)) /\ (Awaited(t) = Awaited(s))
BY DEF Queue, Awaited, Height

LEMMA BaseHeld ==
    ASSUME NEW s, NEW P, Base(s, P), NEW t, Tidy(t), Held(s, t), t.view \in Int, Says(s, {}, t)
    PROVE  Base(t, P)
<1>1. Ledger(t) /\ Height(t) = Height(s) /\ Queue(t)
    BY LedgerHeld, QueueHeld DEF Base, Held
<1>2. Proposed(t, P) \subseteq Proposed(s, P)
    BY SaysProposes
<1> QED
    BY <1>1, <1>2 DEF Base, OnDutyOnly

LEMMA BaseSame ==
    ASSUME NEW s, NEW P, Base(s, P), NEW t, Same(s, t)
    PROVE  Base(t, P) /\ (Switched(s) => Switched(t))
<1>1. Tidy(t) /\ Held(s, t) /\ Says(s, {}, t) /\ t.view \in Int
    BY DEF Base, Same, Tidy, Held, Says, Ledger
<1>2. Base(t, P)
    BY <1>1, BaseHeld
<1>3. Awaited(t) = Awaited(s) /\ Duty0(t) = Duty0(s)
    BY <1>1, QueueHeld DEF Held, Duty0, Height
<1>4. t.running = s.running /\ (t.onDuty = s.onDuty \/ t.onDuty = Duty0(s))
    BY DEF Same
<1> QED
    BY <1>2, <1>3, <1>4 DEF Switched

LEMMA BaseWorks ==
    ASSUME NEW s, NEW P, Base(s, P), Switched(s), NEW S, NEW t, Works(s, S, t)
    PROVE  Base(t, P) /\ Switched(t)
<1>1. Tidy(t) /\ Held(s, t) /\ Says(s, {}, t)
    BY DEF Works
<1>2. t.view \in Int
    BY DEF Works, Goes, Closes, Finishes, Base, Ledger
<1>3. Base(t, P)
    BY <1>1, <1>2, BaseHeld
<1>4. Awaited(t) = Awaited(s) /\ Duty0(t) = Duty0(s)
    BY <1>1, QueueHeld DEF Held, Duty0, Height
<1>5. Switched(t)
    <2>1. CASE Goes(s, t)
        BY <1>4, <2>1 DEF Goes, Switched
    <2>2. CASE Closes(s, t)
        <3>1. t.onDuty = Duty0(s)
            BY <2>2 DEF Closes, Finishes, Duty0
        <3> QED
            BY <1>4, <3>1 DEF Switched
    <2> QED
        BY <2>1, <2>2 DEF Works
<1> QED
    BY <1>3, <1>5

(* A proposal of the arbiter is for the next height, or for one that the   *)
(* ledger has reached.                                                     *)
LEMMA OfferOnDuty ==
    ASSUME NEW s, NEW P, Base(s, P), NEW b \in Blocks, b.h <= Height(s) + 1, NEW v \in Int,
           OnDutyArbiter(Height(s), v) = s.self,
           NEW t, t.chain = s.chain, Says(s, {Offer(s, b, v)}, t)
    PROVE  Proposed(t, P) \subseteq Proposals /\ OnDutyOnly(t, P)
<1> DEFINE o == Offer(s, b, v)
<1>1. o \in Proposals /\ o.block = b /\ o.view = v
    BY SelfAssumption DEF Base, Ledger, Offer, Proposals
<1>2. Height(t) = Height(s) /\ Height(s) \in Nat /\ b.h \in Nat
    BY BlockHeights DEF Base, Height
<1>3. Height(s) < b.h => OnDutyFor(b, v) = Self
    <2>1. Height(s) < b.h => b.h - 1 = Height(s)
        BY <1>2
    <2> QED
        BY <2>1 DEF OnDutyFor, Base, Ledger
<1>4. Proposed(t, P) \subseteq Proposed(s, P) \cup {o}
    BY SaysProposes
<1> HIDE DEF o
<1> QED
    BY <1>1, <1>2, <1>3, <1>4 DEF Base, OnDutyOnly

LEMMA BaseViews ==
    ASSUME NEW s, NEW P, Base(s, P), s.running, NEW k \in Int, NEW t, Views(s, k, t)
    PROVE  Base(t, P) /\ Switched(t)
<1>1. Tidy(t) /\ Held(s, t)
    BY DEF Views
<1>2. t.view \in Int /\ s.view + k \in Int
    BY DEF Views, Closes, Finishes, Base, Ledger
<1>3. Ledger(t) /\ Height(t) = Height(s) /\ Queue(t) /\ Awaited(t) = Awaited(s)
    BY <1>1, <1>2, LedgerHeld, QueueHeld DEF Base, Held
<1>4. Proposed(t, P) \subseteq Proposals /\ OnDutyOnly(t, P)
    <2>1. CASE Says(s, {}, t)
        BY <1>1, <1>2, <2>1, BaseHeld DEF Base
    <2>2. CASE /\ Says(s, {Offer(s, s.list[1], s.view + k)}, t)
               /\ OnDutyArbiter(Height(s), s.view + k) = s.self /\ Usable(s)
        <3>1. s.list[1] \in Blocks /\ s.list[1].h <= Height(s) + 1
            BY <2>2 DEF Usable, Base, Ledger
        <3>2. t.chain = s.chain
            BY <1>1 DEF Held
        <3> QED
            BY <1>2, <2>2, <3>1, <3>2, OfferOnDuty
    <2> QED
        BY <2>1, <2>2 DEF Views
<1>5. Switched(t)
    <2>1. t.running \/ t.onDuty = Duty0(s)
        BY DEF Views, Closes, Finishes, Duty0
    <2>2. Duty0(s) = Duty0(t)
        BY <1>1 DEF Held, Duty0, Height
    <2> QED
        BY <2>1, <2>2 DEF Switched
<1> QED
    BY <1>1, <1>3, <1>4, <1>5 DEF Base

LEMMA BaseConfirms ==
    ASSUME NEW s, NEW P, Base(s, P), NEW b, NEW t, Confirms(s, b, t)
    PROVE  Base(t, P) /\ Switched(t)
<1>1. Tidy(t) /\ Held(s, t) /\ Says(s, {}, t) /\ t.view \in Int
    BY DEF Confirms, Says, Base, Ledger
<1>2. Base(t, P)
    BY <1>1, BaseHeld
<1>3. t.onDuty = Duty0(t)
    BY <1>1 DEF Confirms, Held, Duty0, Height
<1> QED
    BY <1>2, <1>3 DEF Switched

-----------------------------------------------------------------------------
(* A block or a confirm arrives.                                           *)
LEMMA LevelType ==
    ASSUME NEW e \in Events
    PROVE  Level(e) \in Int /\ e.b \in Blocks /\ e.b.h \in Nat /\ e.b.h > 0
BY BlocksAssumption DEF Events, Level

LEMMA QueuedEmpty ==
    ASSUME NEW m
    PROVE  Queued(<<>>, m) /\ \A S : <<>> \in Seq(S)
BY DEF Queued

LEMMA QueueWider ==
    ASSUME NEW m \in Int, NEW n \in Int, m <= n, NEW q, Queued(q, m)
    PROVE  Queued(q, n)
<1>1. \A i \in 1..Len(q) : Level(q[i]) \in Int /\ Level(q[i]) <= m
    BY ElementOfSeq, LevelType DEF Queued
<1>2. \A i \in 1..Len(q) : Level(q[i]) <= n
    BY <1>1
<1> QED
    BY <1>2 DEF Queued

LEMMA QueueAppend ==
    ASSUME NEW m \in Int, NEW q, Queued(q, m), NEW e \in Events, m <= Level(e)
    PROVE  /\ Queued(Append(q, e), Level(e))
           /\ \A i \in 1..Len(q) : i \in 1..Len(Append(q, e)) /\ Append(q, e)[i] = q[i]
           /\ Len(q) + 1 \in 1..Len(Append(q, e)) /\ Append(q, e)[Len(q) + 1] = e
<1> DEFINE r == Append(q, e)
<1>1. q \in Seq(Events) /\ Len(q) \in Nat /\ \A i \in 1..Len(q) : q[i] \in Events
    BY LenProperties, ElementOfSeq DEF Queued
<1>2. /\ r \in Seq(Events) /\ Len(r) = Len(q) + 1
      /\ \A i \in 1..Len(q) : r[i] = q[i]
      /\ r[Len(q) + 1] = e
    BY <1>1, AppendProperties
<1> HIDE DEF r
<1>3. \A i \in 1..Len(q) : Level(q[i]) \in Int /\ Level(q[i]) <= m
    BY <1>1, LevelType DEF Queued
<1>4. Level(e) \in Int
    BY LevelType
<1>5. \A i \in 1..Len(r) : i \in 1..Len(q) \/ i = Len(q) + 1
    BY <1>1, <1>2
<1>6. \A i \in 1..Len(r) : Level(r[i]) \in Int /\ Level(r[i]) <= Level(e)
    BY <1>2, <1>3, <1>4, <1>5
<1>7. ASSUME OrderedEvents, NEW i \in 1..Len(r), NEW j \in 1..Len(r), i <= j
      PROVE  Level(r[i]) <= Level(r[j])
    <2>1. CASE j = Len(q) + 1
        BY <1>2, <1>6, <2>1
    <2>2. CASE j \in 1..Len(q)
        <3>1. i \in 1..Len(q)
            BY <1>1, <1>7, <2>2
        <3> QED
            BY <1>2, <1>7, <2>2, <3>1 DEF Queued
    <2> QED
        BY <1>5, <2>1, <2>2
<1>8. \A i \in 1..Len(q) : i \in 1..Len(r)
    BY <1>1, <1>2
<1>9. Len(q) + 1 \in 1..Len(r)
    BY <1>1, <1>2
<1> QED
    BY <1>2, <1>6, <1>7, <1>8, <1>9 DEF Queued, r

Without(q, k, r) ==
    /\ \A i \in 1..Len(r) : \E j \in 1..Len(q) : r[i] = q[j] /\ (k = 1 => j > k)
    /\ \A j \in 1..Len(q) : j # k => \E i \in 1..Len(r) : r[i] = q[j]

LEMMA QueueRemove ==
    ASSUME NEW m, NEW q, Queued(q, m), NEW k \in 1..Len(q), NEW r, r = RemoveAt(q, k)
    PROVE  Queued(r, m) /\ Without(q, k, r)
<1>1. q \in Seq(Events) /\ Len(q) \in Nat
    BY LenProperties DEF Queued
<1>2. /\ r \in Seq(Events) /\ Len(r) = Len(q) - 1
      /\ \A i \in 1..(Len(q) - 1) : r[i] = IF i < k THEN q[i] ELSE q[i + 1]
    BY <1>1, RemoveElements
<1> DEFINE At(i) == IF i < k THEN i ELSE i + 1
<1>3. \A i \in 1..Len(r) : At(i) \in 1..Len(q) /\ r[i] = q[At(i)]
    BY <1>1, <1>2
<1>4. \A i, j \in 1..Len(r) : i <= j => At(i) <= At(j)
    BY <1>1, <1>2
<1>5. \A i \in 1..Len(r) : k = 1 => At(i) > k
    BY <1>1, <1>2
<1>6. Queued(r, m)
    <2> HIDE DEF At
    <2> QED
        BY <1>2, <1>3, <1>4 DEF Queued
<1>7. ASSUME NEW j \in 1..Len(q), j # k PROVE \E i \in 1..Len(r) : r[i] = q[j]
    <2>1. CASE j < k
        <3>1. j \in 1..Len(r) /\ r[j] = q[j]
            BY <1>1, <1>2, <2>1
        <3> QED
            BY <3>1
    <2>2. CASE j > k
        <3>1. j - 1 \in 1..Len(r) /\ r[j - 1] = q[j]
            BY <1>1, <1>2, <2>2
        <3> QED
            BY <3>1
    <2> QED
        BY <1>7, <2>1, <2>2
<1> QED
    BY <1>3, <1>5, <1>6, <1>7 DEF Without

(* Only the pool, the ledger and the queue of events change.               *)
Fed(s, t) ==
    /\ Tidy(t) /\ t.self = s.self /\ t.blocks = s.blocks /\ t.list = s.list
    /\ t.out = s.out /\ t.running = s.running /\ t.view = s.view /\ t.onDuty = s.onDuty
    /\ t.finishedHeight = s.finishedHeight /\ t.processingBlock = s.processingBlock
    /\ t.acceptVotes = s.acceptVotes /\ t.pendingVotes = s.pendingVotes
    /\ t.pendingProposals = s.pendingProposals /\ t.precociousProposals = s.precociousProposals
    /\ t.processFinished = s.processFinished /\ t.pool \subseteq Blocks

(* Either the ledger stays and at most a block event is raised for a block *)
(* that would be the next one, or it grows and the confirm is raised.      *)
Raises(s, t) ==
    \/ t.chain = s.chain /\ t.events = s.events
    \/ /\ t.chain = s.chain
       /\ \E e \in Events : e.type = "block" /\ e.b.h = Height(s) + 1 /\ t.events = Append(s.events, e)
    \/ \E e \in Events :
          /\ e.type # "block" /\ e.b.h = Height(s) + 1 /\ t.chain = Append(s.chain, e.b)
          /\ \/ t.events = Append(s.events, e)
             \/ \E f \in Events : /\ f.type # "block" /\ f.b = e.b
                                  /\ t.events = Append(Append(s.events, e), f)

LEMMA BaseRaises ==
    ASSUME NEW s, NEW P, Base(s, P), Switched(s), NEW t, Fed(s, t), Raises(s, t)
    PROVE  Base(t, P) /\ Switched(t)
<1> DEFINE H == Height(s)
           m == 2 * H + 1
<1>1. H \in Nat /\ m \in Int /\ Queued(s.events, m) /\ s.chain \in Seq(Blocks)
      /\ \A b \in Blocks : b.h \in Nat /\ b.h > 0
    BY BlockHeights DEF Base, Queue, Ledger
<1>2. /\ t.chain \in Seq(Blocks)
      /\ t.chain = s.chain \/ (Height(t) = H + 1 /\ Awaited(t) /\ t.chain # s.chain)
      /\ Queue(t)
      /\ t.chain = s.chain /\ ~Awaited(t) => ~Awaited(s)
    <2>1. CASE t.chain = s.chain /\ t.events = s.events
        BY <1>1, <2>1, QueueHeld DEF Base
    <2>2. CASE /\ t.chain = s.chain
               /\ \E e \in Events :
                     e.type = "block" /\ e.b.h = H + 1 /\ t.events = Append(s.events, e)
        <3>1. PICK e \in Events :
                  e.type = "block" /\ e.b.h = H + 1 /\ t.events = Append(s.events, e)
            BY <2>2
        <3>2. Level(e) = m
            BY <1>1, <3>1 DEF Level
        <3>3. Height(t) = H
            BY <2>2 DEF Height
        <3>4. /\ Queued(t.events, m)
              /\ \A i \in 1..Len(s.events) : i \in 1..Len(t.events) /\ t.events[i] = s.events[i]
            <4> HIDE DEF m
            <4> QED
                BY <1>1, <3>1, <3>2, QueueAppend
        <3>5. Queue(t)
            BY <3>3, <3>4 DEF Queue
        <3>6. Awaited(s) => Awaited(t)
            BY <3>3, <3>4 DEF Awaited
        <3> QED
            BY <1>1, <2>2, <3>5, <3>6
    <2>3. ASSUME NEW e \in Events, e.type # "block", e.b.h = H + 1, t.chain = Append(s.chain, e.b),
                 \/ t.events = Append(s.events, e)
                 \/ \E f \in Events : /\ f.type # "block" /\ f.b = e.b
                                      /\ t.events = Append(Append(s.events, e), f)
          PROVE  Height(t) = H + 1 /\ Awaited(t) /\ t.chain # s.chain /\ t.chain \in Seq(Blocks) /\ Queue(t)
        <3> DEFINE q == Append(s.events, e)
                   n == Len(s.events) + 1
        <3>1. Level(e) = 2 * (H + 1) /\ e.b \in Blocks
            BY <1>1, <2>3, LevelType DEF Level
        <3>2. t.chain \in Seq(Blocks) /\ Height(t) = H + 1 /\ t.chain # s.chain
            BY <1>1, <2>3, <3>1, AppendProperties DEF Height
        <3>3. m <= Level(e) /\ Level(e) \in Int
            BY <1>1, <3>1
        <3>4. Queued(q, Level(e)) /\ n \in 1..Len(q) /\ q[n] = e
            <4> HIDE DEF m
            <4> QED
                BY <1>1, <3>3, QueueAppend
        <3> HIDE DEF q, n
        <3>7. 2 * (H + 1) \in Int /\ 2 * (H + 1) + 1 \in Int /\ 2 * (H + 1) <= 2 * (H + 1) + 1
            BY <1>1
        <3>5. CASE t.events = q
            <4>1. Queued(t.events, 2 * (H + 1) + 1)
                BY <3>1, <3>4, <3>5, <3>7, QueueWider
            <4>2. Awaited(t)
                BY <2>3, <3>2, <3>4, <3>5 DEF Awaited
            <4> QED
                BY <3>2, <4>1, <4>2 DEF Queue
        <3>6. CASE \E f \in Events : /\ f.type # "block" /\ f.b = e.b /\ t.events = Append(q, f)
            <4>1. PICK f \in Events : f.type # "block" /\ f.b = e.b /\ t.events = Append(q, f)
                BY <3>6
            <4>2. Level(f) = Level(e)
                BY <2>3, <4>1 DEF Level
            <4>3. /\ Queued(t.events, Level(e))
                  /\ \A i \in 1..Len(q) : i \in 1..Len(t.events) /\ t.events[i] = q[i]
                BY <3>3, <3>4, <4>1, <4>2, QueueAppend
            <4>4. Queued(t.events, 2 * (H + 1) + 1)
                BY <3>1, <3>7, <4>3, QueueWider
            <4>5. Awaited(t)
                BY <2>3, <3>2, <3>4, <4>3 DEF Awaited
            <4> QED
                BY <3>2, <4>4, <4>5 DEF Queue
        <3> QED
            BY <2>3, <3>5, <3>6 DEF q
    <2> QED
        BY <2>1, <2>2, <2>3 DEF Raises
<1>3. Height(t) \in Nat /\ H <= Height(t)
    BY <1>1, <1>2 DEF Height
<1>4. Proposed(t, P) = Proposed(s, P)
    BY DEF Fed, Proposed
<1>5. OnDutyOnly(t, P)
    <2> SUFFICES ASSUME NEW d \in Proposed(s, P), d.sponsor = Self, Height(t) < d.block.h
                 PROVE  OnDutyFor(d.block, d.view) = Self
        BY <1>4 DEF OnDutyOnly
    <2>1. d.block.h \in Nat
        BY <1>1 DEF Base, Proposals
    <2>2. H < d.block.h
        BY <1>1, <1>3, <2>1
    <2> QED
        BY <2>2 DEF Base, OnDutyOnly
<1>6. Ledger(t)
    <2>1. \A b \in s.blocks : b \in Blocks /\ b.h <= Height(t) + 1
        BY <1>1, <1>3 DEF Base, Ledger
    <2> QED
        BY <1>2, <2>1 DEF Base, Ledger, Fed
<1>7. Switched(t)
    <2>1. t.chain = s.chain => Duty0(t) = Duty0(s)
        BY DEF Fed, Duty0, Height
    <2> QED
        BY <1>2, <2>1 DEF Fed, Switched
<1> QED
    BY <1>2, <1>4, <1>5, <1>6, <1>7 DEF Base, Fed

-----------------------------------------------------------------------------
(* The steps.                                                              *)
LEMMA BaseExtended ==
    ASSUME NEW s, NEW P, Base(s, P), NEW b \in Blocks, b.h <= Height(s) + 1,
           NEW x, Extended(s, b, x)
    PROVE  Base(x, P) /\ (Switched(s) => Switched(x))
<1>2. x.chain = s.chain /\ x.events = s.events /\ x.self = s.self /\ x.out = s.out
    BY DEF Extended
<1>3. Height(x) = Height(s) /\ Duty0(x) = Duty0(s) /\ Proposed(x, P) = Proposed(s, P)
    BY <1>2 DEF Height, Duty0, Proposed
<1>4. Queue(x) /\ Awaited(x) = Awaited(s)
    BY <1>2, QueueHeld DEF Base
<1>5. Ledger(x)
    <2>1. Append(s.list, b) \in Seq(Blocks)
        BY AppendProperties DEF Base, Ledger
    <2> QED
        BY <1>3, <2>1 DEF Extended, Base, Ledger, Going
<1>6. Base(x, P)
    BY <1>3, <1>4, <1>5 DEF Base, Extended, OnDutyOnly
<1>7. Switched(s) => Switched(x)
    BY <1>3, <1>4 DEF Extended, Going, Switched
<1> QED
    BY <1>6, <1>7

LEMMA BaseAdds ==
    ASSUME NEW s, NEW P, Base(s, P), Switched(s), NEW b \in Blocks, b.h <= Height(s) + 1,
           NEW t, Adds(s, b, t)
    PROVE  Base(t, P) /\ Switched(t)
<1>1. PICK x : Extended(s, b, x) /\ Works(x, {}, t)
    BY DEF Adds
<1> QED
    BY <1>1, BaseExtended, BaseWorks

LEMMA BaseOpens ==
    ASSUME NEW s, NEW P, Base(s, P), Switched(s), NEW b \in Blocks, b.h <= Height(s) + 1,
           ~s.running, ~Awaited(s), NEW t, Opens(s, b, t)
    PROVE  Base(t, P) /\ Switched(t)
<1>1. t.chain = s.chain /\ t.events = s.events /\ t.self = s.self /\ s.onDuty = Duty0(s)
    BY DEF Opens, Switched
<1>2. Height(t) = Height(s) /\ Duty0(t) = Duty0(s)
    BY <1>1 DEF Height, Duty0
<1>3. Queue(t)
    BY <1>1, QueueHeld DEF Base
<1>4. t.onDuty = Duty0(t)
    BY <1>1, <1>2 DEF Opens
<1>5. Proposed(t, P) \subseteq Proposals /\ OnDutyOnly(t, P)
    <2>1. CASE Says(s, {}, t)
        BY <1>2, <2>1, SaysProposes DEF Base, OnDutyOnly
    <2>2. CASE s.onDuty /\ Says(s, {Offer(s, b, 0)}, t)
        <3>1. OnDutyArbiter(Height(s), 0) = s.self
            BY <1>1, <2>2 DEF Duty0
        <3>2. 0 \in Int /\ t.chain = s.chain /\ Says(s, {Offer(s, b, 0)}, t)
            BY <1>1, <2>2
        <3> QED
            BY <3>1, <3>2, OfferOnDuty
    <2> QED
        BY <2>1, <2>2 DEF Opens
<1>6. Ledger(t)
    <2> DEFINE K == Kept0(s, b)
    <2>1. K \subseteq s.blocks
        BY DEF Kept0
    <2>2. \A c \in K : c \in Blocks
        BY <2>1 DEF Base, Ledger
    <2>3. K # {} => (CHOOSE c \in K : TRUE) \in Blocks
        BY <2>2
    <2>4. (IF K = {} THEN <<>> ELSE Append(s.list, CHOOSE c \in K : TRUE)) \in Seq(Blocks)
        BY <2>3, AppendProperties, EmptySeq DEF Base, Ledger
    <2>5. List0(s, b) \in Seq(Blocks)
        BY <2>4, AppendProperties DEF List0
    <2>6. \A c \in K \cup {b} : c \in Blocks /\ c.h <= Height(t) + 1
        BY <1>2, <2>1 DEF Base, Ledger
    <2> QED
        BY <1>1, <2>5, <2>6 DEF Base, Ledger, Opens
<1> QED
    BY <1>3, <1>4, <1>5, <1>6 DEF Base, Switched, Opens

LEMMA BaseHears ==
    ASSUME NEW s, NEW P, Base(s, P), Switched(s), NEW b \in Blocks, b.h <= Height(s) + 1,
           ~Awaited(s), NEW t, Hears(s, b, t)
    PROVE  Base(t, P) /\ Switched(t)
<1>1. CASE Same(s, t)
    BY <1>1, BaseSame
<1>2. ASSUME NEW a, Adds(s, b, a), Same(a, t) PROVE Base(t, P) /\ Switched(t)
    BY <1>2, BaseAdds, BaseSame
<1>3. ASSUME ~s.running, NEW a, Opens(s, b, a), Same(a, t) PROVE Base(t, P) /\ Switched(t)
    BY <1>3, BaseOpens, BaseSame
<1> QED
    BY <1>1, <1>2, <1>3 DEF Hears

LEMMA StepBase ==
    ASSUME NEW s, Base(s, sent), Switched(s), Step(s)
    PROVE  Base(node', sent') /\ Switched(node')
<1> DEFINE t == node'
<1>1. /\ Tidy(t) /\ Held(s, t) /\ t.out = {} /\ t.running = s.running /\ t.view = s.view
      /\ t.onDuty = s.onDuty
    BY DEF Step, Base, Tidy, Held, Fields
<1>2. Proposed(t, sent') = Proposed(s, sent)
    BY <1>1 DEF Step, Proposed
<1> HIDE DEF t
<1>3. t.view \in Int
    BY <1>1 DEF Base, Ledger
<1>4. Ledger(t) /\ Height(t) = Height(s) /\ Queue(t) /\ Awaited(t) = Awaited(s)
    BY <1>1, <1>3, LedgerHeld, QueueHeld DEF Base, Held
<1>5. Duty0(t) = Duty0(s)
    BY <1>1, <1>4 DEF Held, Duty0
<1>6. Base(t, sent')
    BY <1>1, <1>2, <1>4 DEF Base, OnDutyOnly
<1>7. Switched(t)
    BY <1>1, <1>4, <1>5 DEF Switched
<1> QED
    BY <1>6, <1>7 DEF t

DutyInv == Base(node, sent) /\ Switched(node)

(* Blocks and confirms of the ledger.                                      *)
LEMMA ArrivesFeeds ==
    ASSUME Base(node, sent), NEW b \in Blocks, BlockArrives(b)
    PROVE  \E t : Step(t) /\ Fed(node, t) /\ Raises(node, t)
<1> DEFINE s == [node EXCEPT !.pool = @ \cup {b}]
           e == [b |-> b, type |-> "block"]
           t == IF ExtendsTip(s, b) THEN Raise(s, e) ELSE s
<1>1. Step(t)
    BY DEF BlockArrives
<1>2. s.chain = node.chain /\ s.events = node.events /\ Fed(node, s)
    BY DEF Base, Ledger, Tidy, Fed, Fields
<1> HIDE DEF s
<1>3. CASE ExtendsTip(s, b)
    <2>1. t = Raise(s, e)
        BY <1>3
    <2>2. Fed(s, t) /\ t.chain = s.chain /\ t.events = Append(s.events, e)
        BY <1>2, <2>1 DEF Raise, Fed, Tidy, Fields
    <2> HIDE DEF t
    <2>3. Fed(node, t)
        BY <1>2, <2>2 DEF Fed
    <2>4. e \in Events /\ e.type = "block" /\ e.b.h = Height(node) + 1
        BY <1>2, <1>3 DEF Events, ExtendsTip, Height
    <2> HIDE DEF e
    <2>5. Raises(node, t)
        BY <1>2, <2>2, <2>4 DEF Raises
    <2> QED
        BY <1>1, <2>3, <2>5
<1>4. CASE ~ExtendsTip(s, b)
    BY <1>1, <1>2, <1>4 DEF Raises
<1> QED
    BY <1>3, <1>4

LEMMA SyncFeeds ==
    ASSUME Base(node, sent), NEW b \in Blocks, SyncBlock(b)
    PROVE  \E t : Step(t) /\ Fed(node, t) /\ Raises(node, t)
<1> DEFINE s == [node EXCEPT !.pool = @ \cup {b}, !.chain = Append(@, b)]
           e == [b |-> b, type |-> "confirm"]
           f == [b |-> b, type |-> "confirmed"]
           t == Raise(Raise(s, e), f)
<1>1. Step(t)
    BY DEF SyncBlock
<1>2. s.chain = Append(node.chain, b) /\ s.events = node.events /\ Fed(node, s)
    BY DEF Base, Ledger, Tidy, Fed, Fields
<1> HIDE DEF s
<1>3. Fed(s, t) /\ t.chain = s.chain /\ t.events = Append(Append(s.events, e), f)
    BY <1>2 DEF Raise, Fed, Tidy, Fields
<1> HIDE DEF t
<1>4. Fed(node, t)
    BY <1>2, <1>3 DEF Fed
<1>5. /\ e \in Events /\ e.type # "block" /\ e.b = b /\ b.h = Height(node) + 1
      /\ f \in Events /\ f.type # "block" /\ f.b = b
    BY DEF Events, SyncBlock, ExtendsTip
<1> HIDE DEF e, f
<1>6. Raises(node, t)
    BY <1>2, <1>3, <1>5 DEF Raises
<1> QED
    BY <1>1, <1>4, <1>6

LEMMA ConfirmFeeds ==
    ASSUME Base(node, sent), NEW c, AppendConfirm(c)
    PROVE  \E t : Step(t) /\ Fed(node, t) /\ Raises(node, t)
<1> DEFINE s == [node EXCEPT !.todo = @ \ {c}]
           b == c.proposal.block
           e == [b |-> b, type |-> "confirm"]
           ok == ConfirmSane(c) /\ ConfirmComplete(c) /\ b \in s.pool /\ ExtendsTip(s, b)
           t == IF ok THEN Raise([s EXCEPT !.chain = Append(@, b)], e) ELSE s
<1>1. Step(t)
    BY DEF AppendConfirm
<1>2. /\ s.chain = node.chain /\ s.events = node.events /\ s.pool = node.pool /\ Fed(node, s)
    BY DEF Base, Ledger, Tidy, Fed, Fields
<1> HIDE DEF s
<1>3. CASE ok
    <2>1. t = Raise([s EXCEPT !.chain = Append(@, b)], e)
        BY <1>3
    <2>2. Fed(s, t) /\ t.chain = Append(s.chain, b) /\ t.events = Append(s.events, e)
        BY <1>2, <2>1 DEF Raise, Fed, Tidy, Fields
    <2> HIDE DEF t
    <2>3. Fed(node, t)
        BY <1>2, <2>2 DEF Fed
    <2>4. e \in Events /\ e.type # "block" /\ e.b = b /\ b.h = Height(node) + 1
        BY <1>2, <1>3 DEF Events, ExtendsTip, Height, Base, Ledger
    <2> HIDE DEF e, b
    <2>5. Raises(node, t)
        BY <1>2, <2>2, <2>4 DEF Raises
    <2> QED
        BY <1>1, <2>3, <2>5
<1>4. CASE ~ok
    <2>1. t = s
        BY <1>4
    <2> HIDE DEF t
    <2> QED
        BY <1>1, <1>2, <2>1 DEF Raises
<1> QED
    BY <1>3, <1>4

(* An event is taken from the queue and handled.                           *)
Takes(s, i, t) == Fed(s, t) /\ t.chain = s.chain /\ t.events = RemoveAt(s.events, i)

LEMMA EventHandled ==
    ASSUME Base(node, sent), NEW i \in DOMAIN node.events, HandleEvent(i)
    PROVE  \E s, t : LET e == node.events[i]
                     IN  /\ Takes(node, i, s) /\ Step(t)
                         /\ \/ /\ e.type = "block"
                               /\ \/ Same(s, t)
                                  \/ /\ e.b.h > Height(s) /\ e.b.h > s.finishedHeight
                                     /\ Hears(s, e.b, t) /\ t = ProcessHigherBlock(s, e.b)
                            \/ e.type # "block" /\ Confirms(s, e.b, t)
<1> DEFINE e == node.events[i]
           s == [node EXCEPT !.events = RemoveAt(@, i)]
           t == CASE e.type = "block"     -> OnBlockReceived(s, e.b, FALSE)
                  [] e.type = "confirmed" -> OnBlockReceived(s, e.b, TRUE)
                  [] e.type = "confirm"   -> OnConfirmReceived(s, e.b)
<1>1. Step(t)
    BY DEF HandleEvent
<1>2. Takes(node, i, s) /\ Same(s, s)
    BY DEF Takes, Fed, Same, Held, Base, Ledger, Tidy, Fields
<1>3. Tidy(s)
    BY <1>2 DEF Takes, Fed
<1> HIDE DEF s
<1>4. e \in Events
    BY ElementOfSeq DEF Base, Queue, Queued
<1> HIDE DEF e
<1>5. CASE e.type = "block"
    <2>1. t = IF e.b.h > Height(s) /\ e.b.h > s.finishedHeight THEN ProcessHigherBlock(s, e.b) ELSE s
        BY <1>5 DEF OnBlockReceived
    <2> HIDE DEF t
    <2>2. CASE e.b.h > Height(s) /\ e.b.h > s.finishedHeight
        <3>1. Hears(s, e.b, t)
            BY <1>3, <2>1, <2>2, HigherHears
        <3> QED
            BY <1>1, <1>2, <1>5, <2>1, <2>2, <3>1 DEF e
    <2>3. CASE ~(e.b.h > Height(s) /\ e.b.h > s.finishedHeight)
        BY <1>1, <1>2, <1>5, <2>1, <2>3 DEF e
    <2> QED
        BY <2>2, <2>3
<1>6. CASE e.type # "block"
    <2>1. e.type = "confirm" \/ e.type = "confirmed"
        BY <1>4, <1>6 DEF Events
    <2>2. t = ChangeOnDuty(ConfirmBlock(s, e.b))
        BY <1>6, <2>1 DEF OnBlockReceived, OnConfirmReceived
    <2> HIDE DEF t
    <2>3. Confirms(s, e.b, t)
        BY <1>3, <2>2, ConfirmConfirms
    <2> QED
        BY <1>1, <1>2, <1>6, <2>3 DEF e
<1> QED
    BY <1>5, <1>6

LEMMA BaseTakes ==
    ASSUME NEW s, NEW P, Base(s, P), NEW i \in DOMAIN s.events, NEW t, Takes(s, i, t)
    PROVE  /\ Base(t, P) /\ Height(t) = Height(s)
           /\ s.events[i] \in Events /\ s.events[i].b.h \in Nat
           /\ s.events[i].type = "block" => s.events[i].b.h <= Height(s) + 1
           /\ s.events[i].type = "block" /\ Switched(s) => Switched(t)
           /\ Without(s.events, i, t.events)
<1> DEFINE m == 2 * Height(s) + 1
           e == s.events[i]
<1>1. Queued(s.events, m) /\ i \in 1..Len(s.events)
    BY LenProperties DEF Base, Queue, Queued
<1>2. Height(t) = Height(s) /\ Height(s) \in Nat
    BY BlockHeights DEF Takes, Height, Base
<1>3. e \in Events /\ Level(e) <= m
    BY <1>1, ElementOfSeq DEF Queued
<1>4. e.b \in Blocks /\ e.b.h \in Nat /\ e.b.h > 0
    BY <1>3, LevelType
<1>5. e.type = "block" => e.b.h <= Height(s) + 1
    BY <1>2, <1>3, <1>4 DEF Level
<1>6. Queued(t.events, m) /\ Without(s.events, i, t.events)
    <2>1. t.events = RemoveAt(s.events, i)
        BY DEF Takes
    <2> HIDE DEF m
    <2> QED
        BY <1>1, <2>1, QueueRemove
<1>7. Proposed(t, P) = Proposed(s, P) /\ Duty0(t) = Duty0(s)
    BY <1>2 DEF Takes, Fed, Proposed, Duty0
<1>8. Base(t, P)
    <2>1. Queue(t)
        BY <1>2, <1>6 DEF Queue
    <2>2. Ledger(t)
        BY <1>2 DEF Base, Ledger, Takes, Fed
    <2> QED
        BY <1>2, <1>7, <2>1, <2>2 DEF Base, OnDutyOnly, Takes, Fed
<1>9. e.type = "block" /\ Switched(s) => Switched(t)
    <2> SUFFICES ASSUME e.type = "block", Switched(s), ~t.running, ~Awaited(t)
                 PROVE  t.onDuty = Duty0(t)
        BY DEF Switched
    <2>1. ~Awaited(s)
        <3> SUFFICES ASSUME NEW k \in 1..Len(s.events), s.events[k].type # "block",
                            s.events[k].b.h = Height(s)
                     PROVE  FALSE
            BY DEF Awaited
        <3>1. k # i
            OBVIOUS
        <3>2. PICK j \in 1..Len(t.events) : t.events[j] = s.events[k]
            BY <1>6, <3>1 DEF Without
        <3> QED
            BY <1>2, <3>2 DEF Awaited
    <2> QED
        BY <1>7, <2>1 DEF Switched, Takes, Fed
<1> QED
    BY <1>2, <1>3, <1>4, <1>5, <1>6, <1>8, <1>9

(* A block for the next height is handled after the confirm of the last.   *)
LEMMA ConfirmsFirst ==
    ASSUME OrderedEvents \/ OneHeight,
           NEW s, NEW P, Base(s, P), NEW i \in DOMAIN s.events, OrderedEvents => i = 1,
           s.events[i].type = "block", s.events[i].b.h > Height(s), NEW t, Takes(s, i, t)
    PROVE  /\ ~Awaited(t)
           /\ \A j \in 1..Len(t.events) :
                 t.events[j].type # "block" => t.events[j].b.h >= s.events[i].b.h
<1> DEFINE e == s.events[i]
<1>1. /\ Height(t) = Height(s) /\ e \in Events /\ e.b.h \in Nat
      /\ Without(s.events, i, t.events)
    BY BaseTakes
<1>2. Height(s) \in Nat /\ i \in 1..Len(s.events) /\ Len(s.events) \in Nat
    BY BlockHeights, LenProperties DEF Base, Queue, Queued
<1>3. ASSUME NEW j \in 1..Len(t.events), t.events[j].type # "block"
      PROVE  t.events[j].b.h >= e.b.h /\ t.events[j].b.h # Height(s)
    <2>1. PICK k \in 1..Len(s.events) : t.events[j] = s.events[k] /\ (i = 1 => k > i)
        BY <1>1 DEF Without
    <2> DEFINE f == s.events[k]
    <2>2. f \in Events
        BY ElementOfSeq DEF Base, Queue, Queued
    <2>3. f.b \in Blocks /\ f.b.h \in Nat /\ e.b \in Blocks
        BY <1>1, <2>2, LevelType
    <2>4. CASE OneHeight
        BY <1>2, <2>1, <2>3, <2>4 DEF OneHeight
    <2>5. CASE OrderedEvents
        <3>1. i <= k
            BY <1>2, <2>1, <2>5
        <3>2. Level(e) <= Level(f)
            BY <1>2, <2>5, <3>1 DEF Base, Queue, Queued
        <3>3. Level(e) = 2 * e.b.h - 1 /\ Level(f) = 2 * f.b.h
            BY <1>3, <2>1 DEF Level
        <3>4. f.b.h >= e.b.h
            <4> DEFINE x == e.b.h
                       y == f.b.h
            <4>1. x \in Nat /\ y \in Nat /\ 2 * x - 1 <= 2 * y
                BY <1>1, <2>3, <3>2, <3>3
            <4> HIDE DEF x, y
            <4>2. y >= x
                BY <4>1
            <4> QED
                BY <4>2 DEF x, y
        <3> QED
            BY <1>1, <1>2, <2>1, <2>3, <3>4
    <2> QED
        BY <2>4, <2>5
<1> QED
    BY <1>1, <1>3 DEF Awaited

(* What is delivered, and the timer.                                       *)
Delivers(s, d, t) ==
    \/ Same(s, t)
    \/ \E a : Works(s, {d}, a) /\ Same(a, t)
    \/ s.running /\ \E r, a : Views(s, 1, r) /\ Works(r, {d}, a) /\ Same(a, t)

LEMMA DeliverDelivers ==
    ASSUME Tidy(node), NEW d, NEW from, NEW late \in BOOLEAN, Deliver(d, from, late)
    PROVE  \E t : Step(t) /\ Delivers(node, d, t)
<1> DEFINE r == IF late THEN ChangeView(node, 1) ELSE node
           a == IF node.onDuty THEN OnDutyProcessProposal(node) ELSE NormalProcessProposal(r, from, d)
           t == CountNotHandled(a, from)
<1>1. Step(t) /\ (late => node.running /\ ~node.onDuty)
    BY DEF Deliver, OnProposalReceived
<1>2. CASE node.onDuty
    <2>1. a = [node EXCEPT !.handled = FALSE]
        BY <1>2 DEF OnDutyProcessProposal
    <2>2. Tidy(a) /\ Same(node, a)
        BY <2>1 DEF Tidy, Same, Held, Fields
    <2> HIDE DEF a
    <2>3. Same(a, t)
        BY <2>2, NotHandledSame
    <2> HIDE DEF t
    <2>4. Same(node, t)
        BY <2>2, <2>3 DEF Same, Held, Duty0, Height
    <2> QED
        BY <1>1, <2>4 DEF Delivers
<1>3. CASE ~node.onDuty /\ ~late
    <2>1. a = NormalProcessProposal(node, from, d)
        BY <1>3
    <2> HIDE DEF a
    <2>2. Works(node, {d}, a)
        BY <2>1, ProposalWorks
    <2>3. Same(a, t)
        BY <2>2, NotHandledSame DEF Works
    <2> HIDE DEF t
    <2> QED
        BY <1>1, <2>2, <2>3 DEF Delivers
<1>4. CASE ~node.onDuty /\ late
    <2>1. a = NormalProcessProposal(r, from, d) /\ r = ChangeView(node, 1)
        BY <1>4
    <2> HIDE DEF a, r
    <2>2. Views(node, 1, r)
        BY <1>1, <1>4, <2>1, ChangeViewViews
    <2>3. Works(r, {d}, a)
        BY <2>1, <2>2, ProposalWorks DEF Views
    <2>4. Same(a, t)
        BY <2>3, NotHandledSame DEF Works
    <2> HIDE DEF t
    <2> QED
        BY <1>1, <1>4, <2>2, <2>3, <2>4 DEF Delivers
<1> QED
    BY <1>2, <1>3, <1>4

LEMMA BaseDelivers ==
    ASSUME NEW s, NEW P, Base(s, P), Switched(s), NEW d, NEW t, Delivers(s, d, t)
    PROVE  Base(t, P) /\ Switched(t)
<1>1. CASE Same(s, t)
    BY <1>1, BaseSame
<1>2. ASSUME NEW a, Works(s, {d}, a), Same(a, t) PROVE Base(t, P) /\ Switched(t)
    BY <1>2, BaseWorks, BaseSame
<1>3. ASSUME s.running, NEW r, NEW a, Views(s, 1, r), Works(r, {d}, a), Same(a, t)
      PROVE  Base(t, P) /\ Switched(t)
    <2>1. Base(r, P) /\ Switched(r)
        BY <1>3, BaseViews
    <2> QED
        BY <1>3, <2>1, BaseWorks, BaseSame
<1> QED
    BY <1>1, <1>2, <1>3 DEF Delivers

(* The recovery.                                                           *)
Recovers(s, P, t) ==
    /\ Tidy(t) /\ Held(s, t) /\ t.out = s.out
    /\ t.running = TRUE /\ t.view \in Int /\ t.finishedHeight = s.finishedHeight
    /\ t.processingBlock = s.processingBlock /\ t.precociousProposals = s.precociousProposals
    /\ t.pendingProposals \subseteq P

LEMMA RecoverRecovers ==
    ASSUME Tidy(node), sent \subseteq Proposals,
           NEW status \in (UNION {PeerStatus(d) : d \in sent}) \cup {Ready}, NEW k \in 0..MaxView,
           Recover(status, k)
    PROVE  \E t : Step(t) /\ (Same(node, t) \/ Recovers(node, sent, t))
<1> DEFINE s == [node EXCEPT !.notHandled = {}]
           a == RecoverAbnormal(s, status, status.view + k)
           t == OnRecoverTimeout(IF status.running THEN a ELSE s)
<1>1. Step(t)
    BY DEF Recover, DoRecover
<1>4. Same(node, [s EXCEPT !.recoverStarted = FALSE])
    <2>1. Same(node, s)
        BY BookSame
    <2> HIDE DEF s
    <2>2. Tidy(s)
        BY <2>1 DEF Tidy, Same, Held
    <2>3. Same(s, [s EXCEPT !.recoverStarted = FALSE])
        BY <2>2, BookSame
    <2> QED
        BY <2>1, <2>3, SameTwice
<1>2. CASE ~status.running
    <2>1. t = [s EXCEPT !.recoverStarted = FALSE]
        BY <1>2 DEF OnRecoverTimeout
    <2>2. Same(node, t)
        BY <1>4, <2>1
    <2> QED
        BY <1>1, <2>2
<1>3. CASE status.running
    <2>1. PICK d \in sent : status \in PeerStatus(d)
        <3>1. status # Ready
            BY <1>3 DEF Ready
        <3> QED
            BY <3>1
    <2>2. status.view \in Int /\ status.running = TRUE /\ status.pendingProposals \in {{}, {d}}
        BY <2>1 DEF PeerStatus, Proposals
    <2>3. t = OnRecoverTimeout(a)
        BY <1>3
    <2>4. CASE ~s.isAbnormal
        <3>1. t = [s EXCEPT !.recoverStarted = FALSE]
            BY <2>3, <2>4 DEF OnRecoverTimeout, RecoverAbnormal
        <3>2. Same(node, t)
            BY <1>4, <3>1
        <3> QED
            BY <1>1, <3>2
    <2>5. CASE s.isAbnormal
        <3> DEFINE w == status.view + k
                   f == [node EXCEPT !.notHandled = {}, !.acceptVotes = status.acceptVotes,
                           !.rejectedVotes = {}, !.pendingProposals = status.pendingProposals,
                           !.pendingVotes = {}, !.running = status.running, !.view = w,
                           !.isAbnormal = FALSE, !.recoverStarted = FALSE]
        <3>1. t = f
            BY <2>3, <2>5 DEF OnRecoverTimeout, RecoverAbnormal, RecoverConsensus, RecoverDispatcher,
                              Tidy, Fields
        <3>2. w \in Int
            BY <2>2
        <3>3. IsFiniteSet(status.pendingProposals) /\ IsFiniteSet({})
            <4>1. IsFiniteSet({}) /\ IsFiniteSet({d})
                BY FS_EmptySet, FS_Singleton
            <4> QED
                BY <2>2, <4>1
        <3>4. status.pendingProposals \subseteq sent
            BY <2>1, <2>2
        <3> HIDE DEF w
        <3>5. Recovers(node, sent, f)
            BY <2>2, <3>2, <3>3, <3>4 DEF Recovers, Tidy, Held, Fields
        <3> QED
            BY <1>1, <3>1, <3>5
    <2> QED
        BY <2>4, <2>5
<1> QED
    BY <1>2, <1>3

LEMMA BaseRecovers ==
    ASSUME NEW s, NEW P, Base(s, P), NEW Q, NEW t, Recovers(s, Q, t)
    PROVE  Base(t, P) /\ Switched(t)
<1>1. Tidy(t) /\ Held(s, t) /\ Says(s, {}, t) /\ t.view \in Int
    BY DEF Recovers, Says
<1>2. Base(t, P)
    BY <1>1, BaseHeld
<1> QED
    BY <1>2 DEF Recovers, Switched

LEMMA RestartBase ==
    ASSUME Base(node, sent), NEW t, t = ChangeOnDuty([InitArbiter(Self) EXCEPT !.chain = node.chain])
    PROVE  Base(t, sent) /\ Switched(t)
<1>1. /\ DOMAIN t = Fields /\ t.self = Self /\ t.chain = node.chain /\ t.events = <<>>
      /\ t.blocks = {} /\ t.list = <<>> /\ t.pool = {} /\ t.out = {} /\ t.view = 0
      /\ t.pendingVotes = {} /\ t.pendingProposals = {} /\ t.precociousProposals = {}
      /\ t.onDuty = (OnDutyArbiter(Len(node.chain), 0) = Self)
    BY DEF InitArbiter, ChangeOnDuty, SwitchTo, Height, Fields
<1>2. Tidy(t)
    BY <1>1, FS_EmptySet DEF Tidy
<1>3. Height(t) = Height(node)
    BY <1>1 DEF Height
<1>4. Queue(t) /\ t.list \in Seq(Blocks)
    BY <1>1, QueuedEmpty DEF Queue
<1>5. Proposed(t, sent) \subseteq Proposed(node, sent)
    BY <1>1 DEF Proposed
<1>6. Base(t, sent)
    BY <1>1, <1>2, <1>3, <1>4, <1>5 DEF Base, Ledger, OnDutyOnly
<1>7. Switched(t)
    BY <1>1 DEF Switched, Duty0, Height
<1> QED
    BY <1>6, <1>7

LEMMA DutyInitially ==
    ASSUME Init
    PROVE  DutyInv
<1> DEFINE t == InitArbiter(Self)
<1>1. node = t /\ sent = {}
    BY DEF Init
<1>2. /\ DOMAIN t = Fields /\ t.self = Self /\ t.chain = <<>> /\ t.events = <<>>
      /\ t.blocks = {} /\ t.list = <<>> /\ t.pool = {} /\ t.out = {} /\ t.view = 0
      /\ t.pendingVotes = {} /\ t.pendingProposals = {} /\ t.precociousProposals = {}
      /\ t.onDuty = (OnDutyArbiter(0, 0) = Self)
    BY DEF InitArbiter, Fields
<1> HIDE DEF t
<1>3. Tidy(t) /\ Proposed(t, sent) = {}
    BY <1>1, <1>2, FS_EmptySet DEF Tidy, Proposed
<1>4. Queue(t) /\ Ledger(t)
    BY <1>2 DEF Queue, Queued, Ledger, Height
<1>5. Switched(t)
    BY <1>2 DEF Switched, Duty0, Height
<1> QED
    BY <1>1, <1>3, <1>4, <1>5 DEF DutyInv, Base, OnDutyOnly

LEMMA DutyNext ==
    ASSUME OrderedEvents \/ OneHeight, DutyInv, [Next]_vars
    PROVE  DutyInv'
<1> USE DEF DutyInv
<1>1. ASSUME NEW t, Step(t), Base(t, sent), Switched(t) PROVE DutyInv'
    BY <1>1, StepBase
<1>2. ASSUME NEW t, Step(t), Fed(node, t), Raises(node, t) PROVE DutyInv'
    BY <1>1, <1>2, BaseRaises
<1>3. Tidy(node)
    BY DEF Base
<1>4. ASSUME NEW b \in Blocks, BlockArrives(b) PROVE DutyInv'
    BY <1>2, <1>4, ArrivesFeeds
<1>5. ASSUME NEW b \in Blocks, SyncBlock(b) PROVE DutyInv'
    BY <1>2, <1>5, SyncFeeds
<1>6. ASSUME NEW c, AppendConfirm(c) PROVE DutyInv'
    BY <1>2, <1>6, ConfirmFeeds
<1>7. ASSUME NEW i \in DOMAIN node.events, HandleEvent(i) PROVE DutyInv'
    <2> DEFINE e == node.events[i]
    <2>1. PICK s, t : /\ Takes(node, i, s) /\ Step(t)
                      /\ \/ /\ e.type = "block"
                            /\ \/ Same(s, t)
                               \/ e.b.h > Height(s) /\ e.b.h > s.finishedHeight /\ Hears(s, e.b, t)
                         \/ e.type # "block" /\ Confirms(s, e.b, t)
        BY <1>7, EventHandled
    <2>2. /\ Base(s, sent) /\ Height(s) = Height(node) /\ e \in Events
          /\ e.type = "block" => e.b.h <= Height(s) + 1 /\ Switched(s)
        BY <2>1, BaseTakes
    <2>3. CASE e.type = "block" /\ Same(s, t)
        BY <1>1, <2>1, <2>2, <2>3, BaseSame
    <2>4. CASE e.type = "block" /\ e.b.h > Height(s) /\ Hears(s, e.b, t)
        <3>1. OrderedEvents => i = 1
            BY <1>7 DEF HandleEvent
        <3>2. ~Awaited(s)
            BY <2>1, <2>2, <2>4, <3>1, ConfirmsFirst
        <3>3. e.b \in Blocks
            BY <2>2 DEF Events
        <3>4. Base(t, sent) /\ Switched(t)
            BY <2>2, <2>4, <3>2, <3>3, BaseHears
        <3> QED
            BY <1>1, <2>1, <3>4
    <2>5. CASE Confirms(s, e.b, t)
        <3>1. Base(t, sent) /\ Switched(t)
            BY <2>2, <2>5, BaseConfirms
        <3> QED
            BY <1>1, <2>1, <3>1
    <2> QED
        BY <2>1, <2>3, <2>4, <2>5
<1>8. ASSUME NEW p \in Peers, NEW b \in Blocks, NEW v \in 0..MaxView, PeerProposes(p, b, v)
      PROVE  DutyInv'
    <2> DEFINE d == [sponsor |-> p, block |-> b, view |-> v]
    <2>1. node' = node /\ sent' = sent \cup {d}
        BY <1>8 DEF PeerProposes
    <2>2. d \in Proposals /\ d.sponsor # Self
        BY <1>8 DEF Proposals, Peers
    <2> HIDE DEF d
    <2>3. Proposed(node, sent \cup {d}) = Proposed(node, sent) \cup {d}
        BY DEF Proposed
    <2>4. Base(node, sent \cup {d})
        BY <2>2, <2>3 DEF Base, OnDutyOnly
    <2> QED
        BY <2>1, <2>4
<1>9. ASSUME NEW d, NEW p, NEW late \in BOOLEAN, Deliver(d, p, late) PROVE DutyInv'
    <2>1. PICK t : Step(t) /\ Delivers(node, d, t)
        BY <1>3, <1>9, DeliverDelivers
    <2> QED
        BY <1>1, <2>1, BaseDelivers
<1>10. ASSUME NEW v, DeliverVote(v) PROVE DutyInv'
    <2>1. PICK t : Step(t) /\ (t = OnVoteAccepted(node, v) \/ t = OnVoteRejected(node, v))
        BY <1>10 DEF DeliverVote
    <2>2. Works(node, {}, t)
        BY <1>3, <2>1, VoteWorks
    <2> QED
        BY <1>1, <2>1, <2>2, BaseWorks
<1>11. ASSUME NEW k \in 1..MaxView, Timer(k) PROVE DutyInv'
    <2>1. PICK t : Step(t) /\ t = ChangeView(node, k)
        BY <1>11 DEF Timer
    <2>2. node.running /\ k \in Int
        BY <1>11 DEF Timer
    <2>3. Views(node, k, t)
        BY <1>3, <2>1, <2>2, ChangeViewViews
    <2> QED
        BY <1>1, <2>1, <2>2, <2>3, BaseViews
<1>12. ASSUME Restart PROVE DutyInv'
    <2>1. PICK t : Step(t) /\ t = ChangeOnDuty([InitArbiter(Self) EXCEPT !.chain = node.chain])
        BY <1>12 DEF Restart
    <2> QED
        BY <1>1, <2>1, RestartBase
<1>13. ASSUME StartRecovery \/ RecoverTimeout PROVE DutyInv'
    <2>1. PICK t : Step(t) /\ (t = OnRecover(node) \/ t = OnRecoverTimeout(node))
        BY <1>13 DEF StartRecovery, RecoverTimeout
    <2>2. Same(node, t)
        BY <1>3, <2>1, RecoverySame
    <2> QED
        BY <1>1, <2>1, <2>2, BaseSame
<1>14. ASSUME NEW status \in (UNION {PeerStatus(d) : d \in sent}) \cup {Ready}, NEW k \in 0..MaxView,
              Recover(status, k)
       PROVE  DutyInv'
    <2>1. sent \subseteq Proposals
        BY DEF Base, Proposed
    <2>2. PICK t : Step(t) /\ (Same(node, t) \/ Recovers(node, sent, t))
        BY <1>3, <1>14, <2>1, RecoverRecovers
    <2> QED
        BY <1>1, <2>2, BaseSame, BaseRecovers
<1>15. CASE UNCHANGED vars
    BY <1>15 DEF vars
<1> QED
    BY <1>4, <1>5, <1>6, <1>7, <1>8, <1>9, <1>10, <1>11, <1>12, <1>13, <1>14, <1>15 DEF Next

LEMMA DutyProposes ==
    ASSUME DutyInv
    PROVE  ProposesOnDuty
<1>1. sent \subseteq Proposed(node, sent)
    BY DEF Proposed
<1> QED
    BY <1>1 DEF DutyInv, Base, OnDutyOnly, ProposesOnDuty, Own

(* For every number of arbiters, all blocks, votes, faulty peers, restarts *)
(* and recoveries: what an arbiter proposes for a height its ledger has    *)
(* not reached it proposes on duty, if ledger events are handled in the    *)
(* order in which they were raised, or only one height is worked on        *)
(* (StartProposal behind the handler that SwitchTo selects).               *)
THEOREM OnDutyWhenProposing ==
    ASSUME OrderedEvents \/ OneHeight
    PROVE  Spec => []ProposesOnDuty
<1>1. Init => DutyInv
    BY DutyInitially
<1>2. DutyInv /\ [Next]_vars => DutyInv'
    BY DutyNext
<1>3. DutyInv => ProposesOnDuty
    BY DutyProposes
<1> QED
    BY <1>1, <1>2, <1>3, PTL DEF Spec

-----------------------------------------------------------------------------
(* One proposal in a view.  M are the proposals the arbiter made.          *)
Mine(W) == {d \in W : d.sponsor = Self}

(* The blocks in the cache are of one height, that of the first in the     *)
(* list, while the height is worked on.                                    *)
Cached(s) ==
    /\ s.list = <<>> => s.blocks = {}
    /\ (s.running \/ OneHeight) /\ s.list # <<>> =>
           s.list[1] \in s.blocks /\ \A c \in s.blocks : c.h = s.list[1].h

(* Then the confirms to come are not for lower heights, and when the       *)
(* ledger has outgrown the height its confirm is on its way.               *)
Coming(s) ==
    s.running =>
        /\ \A i \in 1..Len(s.events) :
              s.list # <<>> /\ s.events[i].type # "block" => s.events[i].b.h >= s.list[1].h
        /\ OneHeight \/ (s.list # <<>> /\ (s.list[1].h <= Height(s) => Awaited(s)))

(* What was proposed for the height worked on was its first block.         *)
FirstOnly(s, M) ==
    s.running \/ OneHeight =>
        \A d \in M : s.list # <<>> /\ (d.block.h < s.list[1].h \/ d.block = s.list[1])

(* Off work, all blocks known and all proposals made are of heights that   *)
(* are finished.                                                           *)
Done(s, M) ==
    ~s.running =>
        /\ \A c \in s.blocks : c.h <= s.finishedHeight \/ c.h <= Height(s)
        /\ \A d \in M : d.block.h <= s.finishedHeight \/ d.block.h <= Height(s)

Unique(M) == \A d, e \in M : SlotOf(d) = SlotOf(e) => d = e

Once(s, M) ==
    /\ Steady(s) /\ s.finishedHeight \in Int
    /\ N = 1 => s.pendingProposals \cup s.precociousProposals = {}
    /\ Cached(s) /\ Coming(s) /\ FirstOnly(s, M) /\ Done(s, M) /\ Unique(M)

LEMMA Together ==
    ASSUME NEW M, M \subseteq Mine(Proposals), Unique(M), NEW o \in Mine(Proposals),
           \A d \in M : d.block.h = o.block.h => d.block = o.block
    PROVE  Unique(M \cup {o})
<1>1. ASSUME NEW d \in M, SlotOf(d) = SlotOf(o) PROVE d = o
    <2>1. d.block.h = o.block.h /\ d.view = o.view
        BY <1>1 DEF SlotOf
    <2>2. d.sponsor = o.sponsor /\ d.block = o.block
        BY <2>1 DEF Mine
    <2> QED
        BY <2>1, <2>2 DEF Mine, Proposals
<1> QED
    BY <1>1 DEF Unique

(* A step that keeps the cache, and at most proposes its first block.      *)
Keeps(s, t) ==
    /\ t.blocks = s.blocks /\ t.list = s.list /\ t.chain = s.chain
    /\ t.running => t.events = s.events
    /\ t.pendingProposals \cup t.precociousProposals
          \subseteq s.pendingProposals \cup s.precociousProposals \/ N # 1
    /\ t.finishedHeight \in Int
    /\ \/ t.running = s.running /\ t.finishedHeight = s.finishedHeight
       \/ /\ s.running /\ t.running = FALSE
          /\ s.list # <<>> => t.finishedHeight >= s.list[1].h
       \/ OneHeight /\ t.running = TRUE

LEMMA OnceKeeps ==
    ASSUME NEW s, NEW P, Base(s, P), NEW M, M \subseteq Mine(Proposals), Once(s, M),
           NEW t, Keeps(s, t), Steady(t),
           NEW L, \/ L \subseteq M
                  \/ /\ s.running /\ s.list # <<>>
                     /\ \E o \in Mine(Proposals) : o.block = s.list[1] /\ L \subseteq M \cup {o}
    PROVE  Once(t, L)
<1>1. Height(t) = Height(s) /\ Height(s) \in Nat /\ \A b \in Blocks : b.h \in Nat /\ b.h > 0
    BY BlockHeights DEF Keeps, Height, Base
<1>2. s.list # <<>> => s.list[1] \in Blocks
    BY DEF Base, Ledger
<1>3. \A c \in s.blocks : c \in Blocks
    BY DEF Base, Ledger
<1>4. \A d \in M : d.block \in Blocks
    BY DEF Mine, Proposals
<1>5. t.running => s.running \/ OneHeight
    BY DEF Keeps
<1>6. Cached(t)
    <2>1. t.running \/ OneHeight => s.running \/ OneHeight
        BY <1>5
    <2> QED
        BY <2>1 DEF Once, Cached, Keeps
<1>7. Coming(t)
    <2> SUFFICES ASSUME t.running PROVE Coming(t)
        BY DEF Coming
    <2>1. t.events = s.events /\ t.list = s.list /\ t.chain = s.chain
        BY DEF Keeps
    <2>2. Awaited(t) = Awaited(s)
        BY <2>1, QueueHeld
    <2>3. CASE OneHeight
        <3>1. ASSUME NEW i \in 1..Len(s.events), s.list # <<>> PROVE s.events[i].b.h >= s.list[1].h
            <4>1. s.events[i] \in Events
                BY ElementOfSeq DEF Base, Queue, Queued
            <4>2. s.events[i].b \in Blocks
                BY <4>1 DEF Events
            <4>3. s.events[i].b.h = 1 /\ s.list[1].h = 1
                BY <1>2, <2>3, <3>1, <4>2 DEF OneHeight
            <4> QED
                BY <4>3
        <3> QED
            BY <2>1, <2>3, <3>1 DEF Coming
    <2>4. CASE ~OneHeight
        <3>1. s.running
            BY <1>5, <2>4
        <3> QED
            BY <1>1, <2>1, <2>2, <2>4, <3>1 DEF Once, Coming
    <2> QED
        BY <2>3, <2>4
<1>8. FirstOnly(t, L)
    <2> SUFFICES ASSUME t.running \/ OneHeight, NEW d \in L
                 PROVE  s.list # <<>> /\ (d.block.h < s.list[1].h \/ d.block = s.list[1])
        BY DEF FirstOnly, Keeps
    <2>1. s.running \/ OneHeight
        BY <1>5
    <2>2. CASE d \in M
        BY <2>1, <2>2 DEF Once, FirstOnly
    <2>3. CASE d \notin M
        BY <2>3
    <2> QED
        BY <2>2, <2>3
<1>9. Done(t, L)
    <2> SUFFICES ASSUME ~t.running
                 PROVE  /\ \A c \in t.blocks : c.h <= t.finishedHeight \/ c.h <= Height(t)
                        /\ \A d \in L : d.block.h <= t.finishedHeight \/ d.block.h <= Height(t)
        BY DEF Done
    <2>1. t.blocks = s.blocks
        BY DEF Keeps
    <2>2. CASE ~s.running
        <3>1. t.finishedHeight = s.finishedHeight /\ L \subseteq M
            BY <2>2 DEF Keeps
        <3> QED
            BY <1>1, <2>1, <2>2, <3>1 DEF Once, Done
    <2>3. CASE s.running
        <3>1. s.list # <<>> => t.finishedHeight >= s.list[1].h /\ t.finishedHeight \in Int
            BY <2>3 DEF Keeps
        <3>2. ASSUME NEW c \in s.blocks PROVE c.h <= t.finishedHeight
            <4>1. s.list # <<>> /\ c.h = s.list[1].h /\ c.h \in Nat
                BY <1>1, <1>3, <2>3 DEF Once, Cached
            <4> QED
                BY <3>1, <4>1
        <3>3. ASSUME NEW d \in L PROVE d.block.h <= t.finishedHeight
            <4>1. CASE d \in M
                <5>1. s.list # <<>> /\ (d.block.h < s.list[1].h \/ d.block = s.list[1])
                    BY <2>3, <4>1 DEF Once, FirstOnly
                <5>2. d.block.h \in Nat /\ s.list[1].h \in Nat
                    BY <1>1, <1>2, <1>4, <4>1, <5>1
                <5> QED
                    BY <3>1, <5>1, <5>2
            <4>2. CASE d \notin M
                <5>1. s.list # <<>> /\ d.block = s.list[1]
                    BY <3>3, <4>2
                <5>2. s.list[1].h \in Nat
                    BY <1>1, <1>2, <5>1
                <5> QED
                    BY <3>1, <5>1, <5>2
            <4> QED
                BY <4>1, <4>2
        <3> QED
            BY <2>1, <3>2, <3>3
    <2> QED
        BY <2>2, <2>3
<1>10. Unique(L)
    <2>1. CASE L \subseteq M
        BY <2>1 DEF Once, Unique
    <2>2. CASE ~(L \subseteq M)
        <3>1. s.running /\ s.list # <<>>
            BY <2>2
        <3>2. PICK o \in Mine(Proposals) : o.block = s.list[1] /\ L \subseteq M \cup {o}
            BY <2>2
        <3>3. ASSUME NEW d \in M, d.block.h = o.block.h PROVE d.block = o.block
            <4>1. d.block.h < s.list[1].h \/ d.block = s.list[1]
                BY <3>1 DEF Once, FirstOnly
            <4>2. d.block.h \in Nat
                BY <1>1, <1>4
            <4> QED
                BY <3>2, <3>3, <4>1, <4>2
        <3>4. Unique(M \cup {o})
            BY <3>3, Together DEF Once
        <3> QED
            BY <3>2, <3>4 DEF Unique
    <2> QED
        BY <2>1, <2>2
<1> QED
    BY <1>6, <1>7, <1>8, <1>9, <1>10 DEF Once, Keeps

(* How the proposals made so far grow.                                     *)
Own2(s, P) == Mine(Proposed(s, P))

LEMMA OwnTyped ==
    ASSUME NEW s, NEW P, Base(s, P)
    PROVE  Own2(s, P) \subseteq Mine(Proposals)
BY DEF Base, Own2, Mine

LEMMA OwnSays ==
    ASSUME NEW s, NEW P, NEW D, NEW t, Says(s, D, t)
    PROVE  Own2(t, P) \subseteq Own2(s, P) \cup D
BY SaysProposes DEF Own2, Mine

LEMMA OnceSame ==
    ASSUME NEW s, NEW P, Base(s, P), Once(s, Own2(s, P)), NEW t, Same(s, t)
    PROVE  Once(t, Own2(t, P))
<1>1. Own2(t, P) = Own2(s, P)
    BY DEF Same, Own2, Proposed
<1>2. Steady(t)
    BY DEF Once, Same, Held, Steady
<1>3. Keeps(s, t)
    BY DEF Same, Held, Keeps, Once
<1> QED
    BY <1>1, <1>2, <1>3, OnceKeeps, OwnTyped

(* The block that finished a height was of the height of the first one.    *)
LEMMA ClosesKeeps ==
    ASSUME NEW s, NEW P, Base(s, P), NEW M, Once(s, M), NEW t, Held(s, t), Closes(s, t),
           t.pendingProposals \cup t.precociousProposals
              \subseteq s.pendingProposals \cup s.precociousProposals \/ N # 1
    PROVE  Keeps(s, t)
<1>1. PICK b \in s.blocks : t.finishedHeight = b.h
    BY DEF Closes, Once
<1>2. b.h \in Nat
    BY BlockHeights DEF Base, Ledger
<1>3. s.running /\ t.running = FALSE
    BY DEF Closes, Finishes
<1>4. s.list # <<>> => b.h = s.list[1].h
    BY <1>3 DEF Once, Cached
<1>5. t.finishedHeight \in Int /\ (s.list # <<>> => t.finishedHeight >= s.list[1].h)
    BY <1>1, <1>2, <1>4
<1>6. t.running => t.events = s.events
    BY <1>3
<1> QED
    BY <1>3, <1>5, <1>6 DEF Keeps, Held

LEMMA OnceWorks ==
    ASSUME NEW s, NEW P, Base(s, P), Once(s, Own2(s, P)), NEW S, S = {} \/ N # 1,
           NEW t, Works(s, S, t)
    PROVE  Once(t, Own2(t, P))
<1>1. Own2(t, P) \subseteq Own2(s, P)
    BY OwnSays DEF Works
<1>2. Steady(t)
    BY DEF Once, Works
<1>3. t.pendingProposals \cup t.precociousProposals
         \subseteq s.pendingProposals \cup s.precociousProposals \/ N # 1
    BY DEF Works, Kept
<1>4. Keeps(s, t)
    <2>1. CASE Goes(s, t)
        BY <1>3, <2>1 DEF Works, Held, Goes, Keeps, Once
    <2>2. CASE Closes(s, t)
        BY <1>3, <2>2, ClosesKeeps DEF Works
    <2> QED
        BY <2>1, <2>2 DEF Works
<1> QED
    BY <1>1, <1>2, <1>4, OnceKeeps, OwnTyped

LEMMA OnceViews ==
    ASSUME NEW s, NEW P, Base(s, P), Once(s, Own2(s, P)), s.running, NEW k \in Int,
           NEW t, Views(s, k, t)
    PROVE  Once(t, Own2(t, P))
<1>1. Steady(t) /\ Held(s, t)
    BY DEF Once, Views
<1>2. t.pendingProposals \cup t.precociousProposals
         \subseteq s.pendingProposals \cup s.precociousProposals
    BY DEF Views, Kept
<1>3. Keeps(s, t)
    <2>1. CASE t.running /\ t.finishedHeight = s.finishedHeight
        <3>1. t.running = s.running \/ Closes(s, t)
            BY <2>1 DEF Views, Closes, Finishes
        <3> QED
            BY <1>1, <1>2, <2>1, <3>1, ClosesKeeps DEF Held, Keeps, Once
    <2>2. CASE Closes(s, t)
        BY <1>1, <1>2, <2>2, ClosesKeeps
    <2> QED
        BY <2>1, <2>2 DEF Views
<1>4. CASE Says(s, {}, t)
    <2>1. Own2(t, P) \subseteq Own2(s, P)
        BY <1>4, OwnSays
    <2> QED
        BY <1>1, <1>3, <2>1, OnceKeeps, OwnTyped
<1>5. CASE Says(s, {Offer(s, s.list[1], s.view + k)}, t) /\ Usable(s)
    <2> DEFINE o == Offer(s, s.list[1], s.view + k)
    <2>1. s.list # <<>> /\ s.list[1] \in Blocks
        BY <1>5 DEF Usable, Base, Ledger
    <2>2. o \in Mine(Proposals) /\ o.block = s.list[1]
        BY <2>1, SelfAssumption DEF Offer, Mine, Proposals, Base, Ledger
    <2>3. Own2(t, P) \subseteq Own2(s, P) \cup {o}
        BY <1>5, OwnSays
    <2> HIDE DEF o
    <2> QED
        BY <1>1, <1>3, <2>1, <2>2, <2>3, OnceKeeps, OwnTyped
<1> QED
    BY <1>4, <1>5 DEF Views

LEMMA OnceRecovers ==
    ASSUME OneHeight, N # 1, NEW s, NEW P, Base(s, P), Once(s, Own2(s, P)),
           NEW Q, NEW t, Recovers(s, Q, t)
    PROVE  Once(t, Own2(t, P))
<1>1. Own2(t, P) = Own2(s, P)
    BY DEF Recovers, Own2, Proposed
<1>2. Steady(t)
    BY DEF Once, Recovers, Held, Steady
<1>3. Keeps(s, t)
    BY DEF Recovers, Held, Keeps, Once
<1> QED
    BY <1>1, <1>2, <1>3, OnceKeeps, OwnTyped

(* The confirm of a block is handled.                                      *)
LEMMA OnceConfirms ==
    ASSUME NEW s, NEW P, Base(s, P), Once(s, Own2(s, P)), NEW i \in DOMAIN s.events,
           s.events[i].type # "block", NEW r, Takes(s, i, r), NEW t, Confirms(r, s.events[i].b, t)
    PROVE  Once(t, Own2(t, P))
<1> DEFINE e == s.events[i]
<1>1. i \in 1..Len(s.events) /\ e \in Events
    BY LenProperties, ElementOfSeq DEF Base, Queue, Queued
<1>2. e.b.h \in Nat
    BY <1>1, LevelType
<1>3. Own2(t, P) = Own2(s, P)
    BY DEF Takes, Fed, Confirms, Own2, Proposed
<1>4. Steady(t)
    <2>1. Steady(r)
        BY DEF Once, Takes, Fed, Steady
    <2> QED
        BY <2>1 DEF Confirms
<1>5. s.running /\ s.list # <<>> => e.b.h >= s.list[1].h
    BY <1>1 DEF Once, Coming
<1>6. /\ t.blocks = s.blocks /\ t.list = s.list /\ t.chain = s.chain
      /\ t.pendingProposals \cup t.precociousProposals
            \subseteq s.pendingProposals \cup s.precociousProposals
      /\ \/ ~s.running /\ t.running = s.running /\ t.finishedHeight = s.finishedHeight
         \/ s.running /\ t.running = FALSE /\ t.finishedHeight = e.b.h
    BY DEF Takes, Fed, Confirms, Held, Kept
<1>7. Keeps(s, t)
    BY <1>2, <1>5, <1>6 DEF Keeps, Once
<1> QED
    BY <1>3, <1>4, <1>7, OnceKeeps, OwnTyped

LEMMA OnceTakes ==
    ASSUME NEW s, NEW P, Base(s, P), Once(s, Own2(s, P)), NEW i \in DOMAIN s.events,
           s.events[i].type = "block", NEW t, Takes(s, i, t)
    PROVE  Once(t, Own2(t, P))
<1>1. Own2(t, P) = Own2(s, P)
    BY DEF Takes, Fed, Own2, Proposed
<1>2. Height(t) = Height(s) /\ Without(s.events, i, t.events)
    BY BaseTakes
<1>3. /\ t.blocks = s.blocks /\ t.list = s.list /\ t.running = s.running
      /\ t.finishedHeight = s.finishedHeight /\ t.processingBlock = s.processingBlock
      /\ t.acceptVotes = s.acceptVotes /\ t.pendingVotes = s.pendingVotes
      /\ t.pendingProposals = s.pendingProposals /\ t.precociousProposals = s.precociousProposals
    BY DEF Takes, Fed
<1>4. Awaited(s) => Awaited(t)
    BY <1>2 DEF Awaited, Without
<1>5. Coming(t)
    <2> SUFFICES ASSUME t.running PROVE Coming(t)
        BY DEF Coming
    <2>1. ASSUME NEW j \in 1..Len(t.events), s.list # <<>>, t.events[j].type # "block"
          PROVE  t.events[j].b.h >= s.list[1].h
        <3>1. PICK k \in 1..Len(s.events) : t.events[j] = s.events[k]
            BY <1>2 DEF Without
        <3> QED
            BY <1>3, <2>1, <3>1 DEF Once, Coming
    <2> QED
        BY <1>2, <1>3, <1>4, <2>1 DEF Once, Coming
<1>6. Steady(t) /\ Cached(t)
    BY <1>3 DEF Once, Steady, Cached
<1>7. FirstOnly(t, Own2(s, P)) /\ Done(t, Own2(s, P))
    BY <1>2, <1>3 DEF Once, FirstOnly, Done
<1> QED
    BY <1>1, <1>3, <1>5, <1>6, <1>7 DEF Once

(* A block arrives for the height that is worked on,                       *)
LEMMA OnceExtended ==
    ASSUME NEW s, NEW P, Base(s, P), Once(s, Own2(s, P)), s.running, ~Awaited(s),
           NEW b \in Blocks, b.h = Height(s) + 1, NEW t, Extended(s, b, t)
    PROVE  Once(t, Own2(t, P))
<1> DEFINE M == Own2(s, P)
<1>1. Own2(t, P) = M
    BY DEF Extended, Own2, Proposed
<1>2. /\ t.blocks = s.blocks \cup {b} /\ t.list = Append(s.list, b) /\ t.running = s.running
      /\ t.finishedHeight = s.finishedHeight /\ t.processingBlock = s.processingBlock
      /\ t.events = s.events /\ t.chain = s.chain
      /\ t.pendingProposals = s.pendingProposals /\ t.precociousProposals = s.precociousProposals
    BY DEF Extended, Going
<1>3. Height(t) = Height(s) /\ Height(s) \in Nat /\ Awaited(t) = Awaited(s)
    BY <1>2, BlockHeights, QueueHeld DEF Height, Base
<1>4. Steady(t)
    BY <1>2 DEF Once, Steady
<1>5. \A i \in 1..Len(s.events) : s.events[i].b \in Blocks
    <2>1. \A i \in 1..Len(s.events) : s.events[i] \in Events
        BY ElementOfSeq DEF Base, Queue, Queued
    <2> QED
        BY <2>1 DEF Events
<1>6. CASE s.list = <<>>
    <2>1. OneHeight /\ s.blocks = {} /\ M = {}
        BY <1>6 DEF Once, Coming, Cached, FirstOnly
    <2>2. t.list # <<>> /\ t.list[1] = b
        BY <1>2, <1>6
    <2>3. b.h = 1 /\ \A i \in 1..Len(s.events) : s.events[i].b.h = 1
        BY <1>5, <2>1 DEF OneHeight
    <2>4. Cached(t)
        BY <1>2, <2>1, <2>2 DEF Cached
    <2>5. Coming(t)
        BY <1>2, <2>1, <2>2, <2>3 DEF Coming
    <2>6. FirstOnly(t, M) /\ Done(t, M) /\ Unique(M)
        BY <1>2, <2>1 DEF FirstOnly, Done, Unique
    <2> QED
        BY <1>1, <1>2, <1>4, <2>4, <2>5, <2>6 DEF Once
<1>7. CASE s.list # <<>>
    <2> DEFINE f == s.list[1]
    <2>1. t.list # <<>> /\ t.list[1] = f /\ f \in Blocks
        <3>1. s.list \in Seq(Blocks) /\ Len(s.list) \in Nat /\ Len(s.list) # 0
            BY <1>7, LenProperties, EmptySeq DEF Base, Ledger
        <3>2. 1 \in 1..Len(s.list)
            BY <3>1
        <3>3. t.list \in Seq(Blocks) /\ Len(t.list) = Len(s.list) + 1 /\ t.list[1] = f
            BY <1>2, <3>1, <3>2, AppendProperties
        <3> QED
            BY <3>1, <3>2, <3>3, ElementOfSeq, LenProperties
    <2>2. f \in s.blocks /\ \A c \in s.blocks : c.h = f.h
        BY <1>7 DEF Once, Cached
    <2>3. f.h \in Nat /\ f.h <= Height(s) + 1
        BY <2>1, <2>2, BlockHeights DEF Base, Ledger
    <2>4. b.h = f.h
        <3>1. CASE OneHeight
            BY <2>1, <3>1 DEF OneHeight
        <3>2. CASE ~OneHeight
            <4>1. ~(f.h <= Height(s))
                BY <3>2 DEF Once, Coming
            <4> QED
                BY <1>3, <2>3, <4>1
        <3> QED
            BY <3>1, <3>2
    <2> HIDE DEF f
    <2>5. Cached(t)
        BY <1>2, <2>1, <2>2, <2>4 DEF Cached
    <2>6. Coming(t)
        BY <1>2, <1>3, <1>7, <2>1 DEF Once, Coming, f
    <2>7. FirstOnly(t, M) /\ Done(t, M)
        BY <1>2, <1>7, <2>1 DEF Once, FirstOnly, Done, f
    <2> QED
        BY <1>1, <1>2, <1>4, <2>5, <2>6, <2>7 DEF Once
<1> QED
    BY <1>6, <1>7

(* or opens the next one.                                                  *)
LEMMA OnceOpens ==
    ASSUME NEW s, NEW P, Base(s, P), Once(s, Own2(s, P)), ~s.running,
           NEW b \in Blocks, b.h = Height(s) + 1, b.h > s.finishedHeight,
           \A j \in 1..Len(s.events) : s.events[j].type # "block" => s.events[j].b.h >= b.h,
           NEW t, Opens(s, b, t)
    PROVE  Once(t, Own2(t, P))
<1> DEFINE M == Own2(s, P)
           L == Own2(t, P)
           o == Offer(s, b, 0)
<1>1. /\ Height(s) \in Nat /\ b.h \in Nat /\ s.finishedHeight \in Int
      /\ \A c \in Blocks : c.h \in Nat
    BY BlockHeights DEF Base, Once
<1>2. \A c \in s.blocks : c.h < b.h
    <2> SUFFICES ASSUME NEW c \in s.blocks PROVE c.h < b.h
        OBVIOUS
    <2>1. c.h \in Nat /\ (c.h <= s.finishedHeight \/ c.h <= Height(s))
        BY <1>1 DEF Base, Ledger, Once, Done
    <2> QED
        BY <1>1, <2>1
<1>3. \A d \in M : d.block.h \in Nat /\ d.block.h < b.h
    <2> SUFFICES ASSUME NEW d \in M PROVE d.block.h \in Nat /\ d.block.h < b.h
        OBVIOUS
    <2>1. d.block.h \in Nat
        BY <1>1, OwnTyped DEF Mine, Proposals
    <2>2. d.block.h <= s.finishedHeight \/ d.block.h <= Height(s)
        BY DEF Once, Done
    <2> QED
        BY <1>1, <2>1, <2>2
<1>4. Kept0(s, b) = {}
    <2> SUFFICES ASSUME NEW c \in s.blocks, c.h >= b.h PROVE FALSE
        BY DEF Kept0
    <2>1. c.h \in Nat /\ c.h < b.h
        BY <1>1, <1>2 DEF Base, Ledger
    <2> QED
        BY <1>1, <2>1
<1>5. t.blocks = {b} /\ t.list # <<>> /\ t.list[1] = b
    BY <1>4 DEF Opens, List0
<1>6. Fresh(s)
    BY NAssumption DEF Once, Fresh
<1>7. /\ Steady(t) /\ t.events = s.events /\ t.chain = s.chain
      /\ \/ t.running = TRUE /\ t.finishedHeight = s.finishedHeight
         \/ t.running = FALSE /\ t.finishedHeight = b.h
    BY <1>5, <1>6 DEF Opens
<1>8. L \subseteq M \cup {o}
    BY OwnSays DEF Opens
<1>9. o \in Mine(Proposals) /\ o.block = b
    BY SelfAssumption DEF Offer, Mine, Proposals, Base, Ledger
<1>10. N = 1 => t.pendingProposals \cup t.precociousProposals = {}
    BY DEF Opens, Kept, Once
<1> HIDE DEF L, M, o
<1>11. Cached(t)
    BY <1>5 DEF Cached
<1>12. Coming(t)
    <2>1. Height(t) = Height(s)
        BY <1>7 DEF Height
    <2> QED
        BY <1>1, <1>5, <1>7, <2>1 DEF Coming
<1>13. FirstOnly(t, L)
    BY <1>3, <1>5, <1>8, <1>9 DEF FirstOnly
<1>14. Done(t, L)
    <2>1. \A d \in L : d.block.h \in Nat /\ d.block.h <= b.h
        BY <1>1, <1>3, <1>8, <1>9
    <2> QED
        BY <1>1, <1>5, <1>7, <2>1 DEF Done
<1>15. Unique(L)
    <2>1. \A d \in M : d.block.h = o.block.h => d.block = o.block
        BY <1>1, <1>3, <1>9
    <2>2. M \subseteq Mine(Proposals) /\ Unique(M)
        BY OwnTyped DEF M, Once
    <2>3. Unique(M \cup {o})
        BY <1>9, <2>1, <2>2, Together
    <2> QED
        BY <1>8, <2>3 DEF Unique
<1> QED
    BY <1>1, <1>7, <1>10, <1>11, <1>12, <1>13, <1>14, <1>15 DEF Once, L

LEMMA OnceHears ==
    ASSUME NEW s, NEW P, Base(s, P), Switched(s), Once(s, Own2(s, P)), ~Awaited(s),
           NEW b \in Blocks, b.h = Height(s) + 1, b.h > s.finishedHeight,
           \A j \in 1..Len(s.events) : s.events[j].type # "block" => s.events[j].b.h >= b.h,
           NEW t, Hears(s, b, t)
    PROVE  Once(t, Own2(t, P))
<1>1. CASE Same(s, t)
    BY <1>1, OnceSame
<1>2. b.h <= Height(s) + 1
    BY BlockHeights DEF Base
<1>3. ASSUME s.running, NEW a, Adds(s, b, a), Same(a, t) PROVE Once(t, Own2(t, P))
    <2>1. PICK x : Extended(s, b, x) /\ Works(x, {}, a)
        BY <1>3 DEF Adds
    <2>2. Once(x, Own2(x, P))
        BY <1>3, <2>1, OnceExtended
    <2>3. Base(x, P) /\ Base(a, P)
        <3>1. Base(a, P)
            BY <1>2, <1>3, BaseAdds
        <3>2. Base(x, P)
            BY <1>2, <2>1, BaseExtended
        <3> QED
            BY <3>1, <3>2
    <2>4. Once(a, Own2(a, P))
        BY <2>1, <2>2, <2>3, OnceWorks
    <2> QED
        BY <1>3, <2>3, <2>4, OnceSame
<1>4. ASSUME ~s.running, NEW a, Opens(s, b, a), Same(a, t) PROVE Once(t, Own2(t, P))
    <2>1. Once(a, Own2(a, P))
        BY <1>4, OnceOpens
    <2>2. Base(a, P)
        BY <1>2, <1>4, BaseOpens
    <2> QED
        BY <1>4, <2>1, <2>2, OnceSame
<1> QED
    BY <1>1, <1>3, <1>4 DEF Hears

(* The ledger grows.                                                       *)
Grown(q, h, r) ==
    /\ \A j \in 1..Len(r) : (\E i \in 1..Len(q) : r[j] = q[i]) \/ r[j].b.h = h
    /\ \A i \in 1..Len(q) : \E j \in 1..Len(r) : r[j] = q[i]

Lists(q, e) == \E j \in 1..Len(q) : q[j] = e

LEMMA AppendGrown ==
    ASSUME NEW q \in Seq(Events), NEW e \in Events, NEW r, r = Append(q, e)
    PROVE  r \in Seq(Events) /\ Grown(q, e.b.h, r) /\ Lists(r, e)
<1>1. Len(q) \in Nat
    BY LenProperties
<1>2. /\ r \in Seq(Events) /\ Len(r) = Len(q) + 1 /\ r[Len(q) + 1] = e
      /\ \A i \in 1..Len(q) : r[i] = q[i]
    BY AppendProperties
<1>3. \A j \in 1..Len(r) : j \in 1..Len(q) \/ j = Len(q) + 1
    BY <1>1, <1>2
<1>4. \A j \in 1..Len(q) : j \in 1..Len(r)
    BY <1>1, <1>2
<1>5. Len(q) + 1 \in 1..Len(r)
    BY <1>1, <1>2
<1> QED
    BY <1>2, <1>3, <1>4, <1>5 DEF Grown, Lists

LEMMA GrownTwice ==
    ASSUME NEW q, NEW r, NEW u, NEW h, Grown(q, h, r), Grown(r, h, u)
    PROVE  Grown(q, h, u)
<1>1. ASSUME NEW j \in 1..Len(u) PROVE (\E i \in 1..Len(q) : u[j] = q[i]) \/ u[j].b.h = h
    <2>1. CASE u[j].b.h = h
        BY <2>1
    <2>2. ASSUME NEW k \in 1..Len(r), u[j] = r[k]
          PROVE  (\E i \in 1..Len(q) : u[j] = q[i]) \/ u[j].b.h = h
        <3>1. (\E i \in 1..Len(q) : r[k] = q[i]) \/ r[k].b.h = h
            BY Zenon DEF Grown
        <3> QED
            BY <2>2, <3>1, Zenon
    <2> QED
        BY <2>1, <2>2, Zenon DEF Grown
<1>2. ASSUME NEW i \in 1..Len(q) PROVE \E j \in 1..Len(u) : u[j] = q[i]
    <2>1. PICK k \in 1..Len(r) : r[k] = q[i]
        BY Zenon DEF Grown
    <2>2. PICK j \in 1..Len(u) : u[j] = r[k]
        BY Zenon DEF Grown
    <2> QED
        BY <2>1, <2>2, Zenon
<1> QED
    BY <1>1, <1>2, Zenon DEF Grown

LEMMA RaisesGrows ==
    ASSUME NEW s, NEW P, Base(s, P), NEW t, Raises(s, t)
    PROVE  /\ Grown(s.events, Height(s) + 1, t.events)
           /\ t.chain = s.chain \/ (Height(t) = Height(s) + 1 /\ Awaited(t))
<1> DEFINE h == Height(s) + 1
<1>1. s.events \in Seq(Events) /\ s.chain \in Seq(Blocks)
    BY DEF Base, Queue, Queued, Ledger
<1>2. CASE t.chain = s.chain /\ t.events = s.events
    BY <1>2 DEF Grown
<1>3. CASE /\ t.chain = s.chain
           /\ \E e \in Events : e.b.h = h /\ t.events = Append(s.events, e)
    BY <1>1, <1>3, AppendGrown
<1>4. ASSUME NEW e \in Events, e.type # "block", e.b.h = h, t.chain = Append(s.chain, e.b),
             \/ t.events = Append(s.events, e)
             \/ \E f \in Events : f.b = e.b /\ t.events = Append(Append(s.events, e), f)
      PROVE  Grown(s.events, h, t.events) /\ Height(t) = h /\ Awaited(t)
    <2> DEFINE q == Append(s.events, e)
    <2>1. Height(t) = h
        BY <1>1, <1>4, AppendProperties DEF Height, Events
    <2>2. q = Append(s.events, e) /\ e.b.h = h
        BY <1>4
    <2> HIDE DEF q, h
    <2>3. q \in Seq(Events) /\ Grown(s.events, h, q) /\ \E j \in 1..Len(q) : q[j] = e
        <3>1. s.events \in Seq(Events) /\ e \in Events /\ q = Append(s.events, e)
            BY <1>1, <2>2
        <3>2. q \in Seq(Events) /\ Grown(s.events, e.b.h, q) /\ Lists(q, e)
            BY <3>1, AppendGrown
        <3> QED
            BY <2>2, <3>2 DEF Lists
    <2>4. CASE t.events = q
        <3>1. Awaited(t)
            BY <1>4, <2>1, <2>3, <2>4 DEF Awaited
        <3> QED
            BY <2>1, <2>3, <2>4, <3>1
    <2>5. ASSUME NEW f \in Events, f.b = e.b, t.events = Append(q, f)
          PROVE  Grown(s.events, h, t.events) /\ Awaited(t)
        <3>1. Grown(q, h, t.events)
            BY <1>4, <2>3, <2>5, AppendGrown
        <3>2. Grown(s.events, h, t.events)
            BY <2>3, <3>1, GrownTwice
        <3>3. \E j \in 1..Len(t.events) : t.events[j] = e
            BY <2>3, <3>1 DEF Grown
        <3>4. Awaited(t)
            BY <1>4, <2>1, <3>3 DEF Awaited
        <3> QED
            BY <3>2, <3>4
    <2> QED
        BY <1>4, <2>1, <2>4, <2>5 DEF q
<1> QED
    BY <1>2, <1>3, <1>4 DEF Raises

LEMMA OnceRaises ==
    ASSUME NEW s, NEW P, Base(s, P), Once(s, Own2(s, P)), NEW t, Fed(s, t), Raises(s, t)
    PROVE  Once(t, Own2(t, P))
<1> DEFINE M == Own2(s, P)
           H == Height(s)
<1>1. H \in Nat /\ \A b \in Blocks : b.h \in Nat /\ b.h > 0
    BY BlockHeights DEF Base
<1>2. Own2(t, P) = M
    BY DEF Fed, Own2, Proposed
<1>3. /\ t.blocks = s.blocks /\ t.list = s.list /\ t.running = s.running
      /\ t.finishedHeight = s.finishedHeight /\ t.processingBlock = s.processingBlock
      /\ t.acceptVotes = s.acceptVotes /\ t.pendingVotes = s.pendingVotes
      /\ t.pendingProposals = s.pendingProposals /\ t.precociousProposals = s.precociousProposals
    BY DEF Fed
<1>4. /\ Grown(s.events, H + 1, t.events)
      /\ t.chain = s.chain \/ (Height(t) = H + 1 /\ Awaited(t))
    BY RaisesGrows
<1>5. t.chain = s.chain => Height(t) = H /\ (Awaited(s) => Awaited(t))
    BY <1>4 DEF Height, Awaited, Grown
<1>6. Height(t) \in Nat /\ H <= Height(t)
    BY <1>1, <1>4, <1>5
<1>7. Steady(t) /\ Cached(t) /\ FirstOnly(t, M)
    BY <1>3 DEF Once, Steady, Cached, FirstOnly
<1>8. Done(t, M)
    <2>1. \A c \in s.blocks : c.h \in Nat
        BY <1>1 DEF Base, Ledger
    <2>2. \A d \in M : d.block.h \in Nat
        BY <1>1, OwnTyped DEF Mine, Proposals
    <2> HIDE DEF M
    <2>3. Done(s, M)
        BY DEF Once, M
    <2> QED
        BY <1>1, <1>3, <1>6, <2>1, <2>2, <2>3 DEF Done
<1>9. Coming(t)
    <2> SUFFICES ASSUME t.running PROVE Coming(t)
        BY DEF Coming
    <2>1. s.list # <<>> => s.list[1].h \in Nat /\ s.list[1].h <= H + 1
        BY <1>1, <1>3 DEF Once, Cached, Base, Ledger
    <2>2. ASSUME NEW j \in 1..Len(t.events), s.list # <<>>, t.events[j].type # "block"
          PROVE  t.events[j].b.h >= s.list[1].h
        <3>1. CASE t.events[j].b.h = H + 1
            BY <1>1, <2>1, <2>2, <3>1
        <3>2. CASE \E i \in 1..Len(s.events) : t.events[j] = s.events[i]
            BY <1>3, <2>2, <3>2 DEF Once, Coming
        <3> QED
            BY <1>4, <3>1, <3>2 DEF Grown
    <2>3. OneHeight \/ (s.list # <<>> /\ (s.list[1].h <= Height(t) => Awaited(t)))
        BY <1>3, <1>4, <1>5 DEF Once, Coming
    <2> QED
        BY <1>3, <2>2, <2>3 DEF Coming
<1> QED
    BY <1>2, <1>3, <1>7, <1>8, <1>9 DEF Once

LEMMA StepOnce ==
    ASSUME NEW s, Base(s, sent), Once(s, Own2(s, sent)), Step(s)
    PROVE  Once(node', Own2(node', sent'))
<1> DEFINE t == node'
<1>1. /\ t.blocks = s.blocks /\ t.list = s.list /\ t.running = s.running /\ t.chain = s.chain
      /\ t.finishedHeight = s.finishedHeight /\ t.processingBlock = s.processingBlock
      /\ t.acceptVotes = s.acceptVotes /\ t.pendingVotes = s.pendingVotes
      /\ t.pendingProposals = s.pendingProposals /\ t.precociousProposals = s.precociousProposals
      /\ t.events = s.events /\ t.out = {}
    BY DEF Step, Base, Tidy, Fields
<1>2. Proposed(t, sent') = Proposed(s, sent)
    BY <1>1 DEF Step, Proposed
<1>3. Own2(t, sent') = Own2(s, sent)
    BY <1>2 DEF Own2
<1> HIDE DEF t
<1>4. Keeps(s, t) /\ Steady(t)
    BY <1>1 DEF Keeps, Once, Steady
<1>5. Once(t, Own2(s, sent))
    BY <1>4, OnceKeeps, OwnTyped
<1> QED
    BY <1>3, <1>5 DEF t

OnceInv == DutyInv /\ Once(node, Own2(node, sent)) /\ restarts \in Nat

LEMMA OnceInitially ==
    ASSUME Init
    PROVE  OnceInv
<1> DEFINE t == InitArbiter(Self)
<1>1. node = t /\ sent = {} /\ restarts = 0
    BY DEF Init
<1>2. /\ t.running = FALSE /\ t.blocks = {} /\ t.list = <<>> /\ t.out = {} /\ t.finishedHeight = 0
      /\ t.processingBlock = None /\ t.acceptVotes = {} /\ t.pendingVotes = {}
      /\ t.pendingProposals = {} /\ t.precociousProposals = {}
    BY DEF InitArbiter
<1> HIDE DEF t
<1>3. Own2(t, sent) = {}
    BY <1>1, <1>2 DEF Own2, Mine, Proposed
<1>4. Once(t, {})
    BY <1>2 DEF Once, Steady, Cached, Coming, FirstOnly, Done, Unique
<1> QED
    BY <1>1, <1>3, <1>4, DutyInitially DEF OnceInv

LEMMA OnceDelivers ==
    ASSUME NEW s, NEW P, Base(s, P), Switched(s), Once(s, Own2(s, P)), N # 1, NEW d,
           NEW t, Delivers(s, d, t)
    PROVE  Once(t, Own2(t, P))
<1>1. CASE Same(s, t)
    BY <1>1, OnceSame
<1>2. ASSUME NEW r, Base(r, P), Switched(r), Once(r, Own2(r, P)),
             NEW a, Works(r, {d}, a), Same(a, t)
      PROVE  Once(t, Own2(t, P))
    <2>1. Base(a, P) /\ Once(a, Own2(a, P))
        BY <1>2, BaseWorks, OnceWorks
    <2> QED
        BY <1>2, <2>1, OnceSame
<1>3. ASSUME s.running, NEW r, NEW a, Views(s, 1, r), Works(r, {d}, a), Same(a, t)
      PROVE  Once(t, Own2(t, P))
    <2>1. Base(r, P) /\ Switched(r) /\ Once(r, Own2(r, P))
        BY <1>3, BaseViews, OnceViews
    <2> QED
        BY <1>2, <1>3, <2>1
<1> QED
    BY <1>1, <1>2, <1>3 DEF Delivers

LEMMA OnceNext ==
    ASSUME MaxRestarts = 0, OneHeight \/ (OrderedEvents /\ StatusVoters = {}), OnceInv, [Next]_vars
    PROVE  OnceInv'
<1> DEFINE Good == Once(node', Own2(node', sent'))
<1>0. DutyInv /\ Base(node, sent) /\ Switched(node) /\ Once(node, Own2(node, sent)) /\ Tidy(node)
    BY DEF OnceInv, DutyInv, Base
<1> HIDE DEF Good
<1>1. ASSUME NEW t, Step(t), Base(t, sent), Once(t, Own2(t, sent)) PROVE Good
    BY <1>1, StepOnce DEF Good
<1>2. ASSUME NEW t, Step(t), Fed(node, t), Raises(node, t) PROVE Good
    BY <1>0, <1>1, <1>2, BaseRaises, OnceRaises
<1>3. ASSUME Peers # {} \/ StatusVoters # {} PROVE N # 1
    <2>1. PICK p \in Arbiters : p # Self
        BY <1>3, SelfAssumption DEF Peers
    <2> QED
        BY <2>1, SelfAssumption DEF Arbiters
<1>4. ASSUME NEW b \in Blocks, BlockArrives(b) PROVE Good
    BY <1>0, <1>2, <1>4, ArrivesFeeds
<1>5. ASSUME NEW b \in Blocks, SyncBlock(b) PROVE Good
    BY <1>0, <1>2, <1>5, SyncFeeds
<1>6. ASSUME NEW c, AppendConfirm(c) PROVE Good
    BY <1>0, <1>2, <1>6, ConfirmFeeds
<1>7. ASSUME NEW i \in DOMAIN node.events, HandleEvent(i) PROVE Good
    <2> DEFINE e == node.events[i]
    <2>1. PICK s, t : /\ Takes(node, i, s) /\ Step(t)
                      /\ \/ /\ e.type = "block"
                            /\ \/ Same(s, t)
                               \/ e.b.h > Height(s) /\ e.b.h > s.finishedHeight /\ Hears(s, e.b, t)
                         \/ e.type # "block" /\ Confirms(s, e.b, t)
        BY <1>0, <1>7, EventHandled
    <2>2. /\ Base(s, sent) /\ Height(s) = Height(node) /\ e \in Events /\ e.b.h \in Nat
          /\ e.type = "block" => e.b.h <= Height(s) + 1 /\ Switched(s)
        BY <1>0, <2>1, BaseTakes
    <2>3. e.type = "block" => Once(s, Own2(s, sent))
        BY <1>0, <2>1, OnceTakes
    <2>4. CASE e.type = "block" /\ Same(s, t)
        BY <1>1, <2>1, <2>2, <2>3, <2>4, BaseSame, OnceSame
    <2>5. CASE e.type = "block" /\ e.b.h > Height(s) /\ e.b.h > s.finishedHeight /\ Hears(s, e.b, t)
        <3>1. OrderedEvents => i = 1
            BY <1>7 DEF HandleEvent
        <3>2. /\ ~Awaited(s)
              /\ \A j \in 1..Len(s.events) :
                    s.events[j].type # "block" => s.events[j].b.h >= e.b.h
            BY <1>0, <2>1, <2>2, <2>5, <3>1, ConfirmsFirst
        <3>3. e.b \in Blocks
            BY <2>2 DEF Events
        <3>4. e.b.h = Height(s) + 1
            BY <2>2, <2>5, BlockHeights DEF Base
        <3>5. Base(t, sent)
            BY <2>2, <2>5, <3>2, <3>3, BaseHears
        <3> DEFINE b == e.b
        <3>6. /\ b \in Blocks /\ b.h = Height(s) + 1 /\ b.h > s.finishedHeight /\ Hears(s, b, t)
              /\ \A j \in 1..Len(s.events) : s.events[j].type # "block" => s.events[j].b.h >= b.h
            BY <2>5, <3>2, <3>3, <3>4
        <3> HIDE DEF b
        <3>7. Base(s, sent) /\ Switched(s) /\ Once(s, Own2(s, sent))
            BY <2>2, <2>3, <2>5
        <3>8. Once(t, Own2(t, sent))
            BY <3>2, <3>6, <3>7, OnceHears
        <3> QED
            BY <1>1, <2>1, <3>5, <3>8
    <2>6. CASE e.type # "block" /\ Confirms(s, e.b, t)
        <3>1. Base(t, sent)
            BY <2>2, <2>6, BaseConfirms
        <3>2. Once(t, Own2(t, sent))
            BY <1>0, <2>1, <2>6, OnceConfirms
        <3> QED
            BY <1>1, <2>1, <3>1, <3>2
    <2> QED
        BY <2>1, <2>4, <2>5, <2>6
<1>8. ASSUME NEW p \in Peers, NEW b \in Blocks, NEW v \in 0..MaxView, PeerProposes(p, b, v)
      PROVE  Good
    <2> DEFINE d == [sponsor |-> p, block |-> b, view |-> v]
    <2>1. node' = node /\ sent' = sent \cup {d}
        BY <1>8 DEF PeerProposes
    <2>2. d.sponsor # Self
        BY <1>8 DEF Peers
    <2> HIDE DEF d
    <2>3. Own2(node, sent \cup {d}) = Own2(node, sent)
        BY <2>2 DEF Own2, Mine, Proposed
    <2> QED
        BY <1>0, <2>1, <2>3 DEF Good
<1>9. ASSUME NEW d, NEW p \in Peers, NEW late \in BOOLEAN, Deliver(d, p, late) PROVE Good
    <2>1. PICK t : Step(t) /\ Delivers(node, d, t)
        BY <1>0, <1>9, DeliverDelivers
    <2>2. Base(t, sent) /\ Once(t, Own2(t, sent))
        BY <1>0, <1>3, <1>9, <2>1, BaseDelivers, OnceDelivers
    <2> QED
        BY <1>1, <2>1, <2>2
<1>10. ASSUME NEW v, DeliverVote(v) PROVE Good
    <2>1. PICK t : Step(t) /\ (t = OnVoteAccepted(node, v) \/ t = OnVoteRejected(node, v))
        BY <1>10 DEF DeliverVote
    <2>2. Works(node, {}, t)
        BY <1>0, <2>1, VoteWorks
    <2>3. Base(t, sent) /\ Once(t, Own2(t, sent))
        BY <1>0, <2>2, BaseWorks, OnceWorks
    <2> QED
        BY <1>1, <2>1, <2>3
<1>11. ASSUME NEW k \in 1..MaxView, Timer(k) PROVE Good
    <2>1. PICK t : Step(t) /\ t = ChangeView(node, k)
        BY <1>11 DEF Timer
    <2>2. node.running /\ k \in Int
        BY <1>11 DEF Timer
    <2>3. Views(node, k, t)
        BY <1>0, <2>1, <2>2, ChangeViewViews
    <2>4. Base(t, sent) /\ Once(t, Own2(t, sent))
        BY <1>0, <2>2, <2>3, BaseViews, OnceViews
    <2> QED
        BY <1>1, <2>1, <2>4
<1>12. ~Restart
    BY DEF OnceInv, Restart
<1>13. ASSUME StartRecovery \/ RecoverTimeout PROVE Good
    <2>1. PICK t : Step(t) /\ (t = OnRecover(node) \/ t = OnRecoverTimeout(node))
        BY <1>13 DEF StartRecovery, RecoverTimeout
    <2>2. Same(node, t)
        BY <1>0, <2>1, RecoverySame
    <2> QED
        BY <1>0, <1>1, <2>1, <2>2, BaseSame, OnceSame
<1>14. ASSUME NEW status \in (UNION {PeerStatus(d) : d \in sent}) \cup {Ready}, NEW k \in 0..MaxView,
              Recover(status, k)
       PROVE  Good
    <2>1. sent \subseteq Proposals
        BY <1>0 DEF Base, Proposed
    <2>2. PICK t : Step(t) /\ (Same(node, t) \/ Recovers(node, sent, t))
        BY <1>0, <1>14, <2>1, RecoverRecovers
    <2>3. StatusVoters # {}
        BY <1>14 DEF Recover
    <2>4. CASE Same(node, t)
        BY <1>0, <1>1, <2>2, <2>4, BaseSame, OnceSame
    <2>5. CASE Recovers(node, sent, t)
        BY <1>0, <1>1, <1>3, <2>2, <2>3, <2>5, BaseRecovers, OnceRecovers
    <2> QED
        BY <2>2, <2>4, <2>5
<1>15. ASSUME UNCHANGED vars PROVE Good
    BY <1>0, <1>15 DEF vars, Good
<1>16. Good
    BY <1>4, <1>5, <1>6, <1>7, <1>8, <1>9, <1>10, <1>11, <1>12, <1>13, <1>14, <1>15 DEF Next
<1>17. restarts' \in Nat
    BY <1>12 DEF OnceInv, Next, vars, Stay, BlockArrives, SyncBlock, AppendConfirm, HandleEvent,
           PeerProposes, Deliver, DeliverVote, Timer, StartRecovery, RecoverTimeout, Recover
<1>18. DutyInv'
    BY <1>0, DutyNext
<1> QED
    BY <1>16, <1>17, <1>18 DEF OnceInv, Good

LEMMA OnceProposes ==
    ASSUME OnceInv
    PROVE  ProposesOnce
<1>1. Own \subseteq Own2(node, sent)
    BY DEF Own, Own2, Mine, Proposed
<1> QED
    BY <1>1 DEF OnceInv, Once, Unique, ProposesOnce

(* An arbiter that does not restart proposes one block in one view of one  *)
(* height, for every number of arbiters, all blocks, votes and faulty      *)
(* peers: with ledger events in order and no status taken over, or, with   *)
(* statuses of peers taken over at any time and events in any order, as    *)
(* long as one height is worked on (ConsensusBlockCache gives the first    *)
(* block that arrived, TryStartNewConsensus opens no height that           *)
(* FinishConsensus closed).                                                *)
THEOREM OneProposalPerView ==
    ASSUME MaxRestarts = 0, OneHeight \/ (OrderedEvents /\ StatusVoters = {})
    PROVE  Spec => []ProposesOnce
<1>1. Init => OnceInv
    BY OnceInitially
<1>2. OnceInv /\ [Next]_vars => OnceInv'
    BY OnceNext
<1>3. OnceInv => ProposesOnce
    BY OnceProposes
<1> QED
    BY <1>1, <1>2, <1>3, PTL DEF Spec

-----------------------------------------------------------------------------
(* One vote in a view.  Q are the votes the arbiter signed before; its     *)
(* ballots are those that accept.                                          *)
Ballots(s, Q) == {v \in Q \cup s.out : IsVote(v) /\ v.accept}

Elects(v, s) == v.proposal.view = s.view
NoneYet(s, Q) == \A v \in Ballots(s, Q) : ~Elects(v, s)

(* The proposals that are known come from the sponsor on duty, unless the  *)
(* arbiter made one after its ledger had got the block of the height; its  *)
(* own ones are for the first block that came.                             *)
Sponsored(s, W) ==
    \A d \in W : /\ d.sponsor = OnDutyArbiter(0, d.view) \/ (d.sponsor = Self /\ Height(s) = 1)
                 /\ d.sponsor = Self => s.list # <<>> /\ d.block = s.list[1]

Waits(s) == s.pendingProposals \cup s.precociousProposals
Favourable(s) == \A v \in s.pendingVotes : v.accept

Known(s, W) ==
    /\ s.self = Self /\ s.view \in Int /\ Height(s) \in {0, 1} /\ s.list \in Seq(Blocks)
    /\ Favourable(s) /\ W \subseteq Proposals /\ Sponsored(s, W) /\ Waits(s) \subseteq W
    /\ N = 1 => Waits(s) = {}
    /\ s.list = <<>> => s.blocks = {}

(* A ballot of the view the arbiter is in binds it.                        *)
Bound(s, v) ==
    Height(s) = 0 => s.processFinished = TRUE /\ s.processingBlock = v.proposal.block

InView(s, W, B) ==
    s.running =>
        /\ \A d \in Mine(W) : d.view <= s.view
        /\ \A v \in B : /\ v.proposal.view <= s.view
                        /\ Elects(v, s) => Bound(s, v)
                        /\ Elects(v, s) => \A d \in Mine(W) :
                                               d.view = s.view => d.block = v.proposal.block

OnePerView(B) ==
    \A v, w \in B : v.proposal.view = w.proposal.view => v.proposal.block = w.proposal.block

Cast(s, B) == \A v \in B : v.proposal \in Proposals /\ s.list # <<>>

Voted(s, P, Q) ==
    /\ Known(s, Proposed(s, P)) /\ Cast(s, Ballots(s, Q)) /\ OnePerView(Ballots(s, Q))
    /\ InView(s, Proposed(s, P), Ballots(s, Q))

(* What a handler says, and what becomes of the proposals and ballots.     *)
Mute(s, P, Q, t) == Proposed(t, P) = Proposed(s, P) /\ Ballots(t, Q) = Ballots(s, Q)

LEMMA SilentMute ==
    ASSUME NEW s, NEW t, NEW P, NEW Q, NEW d,
           t.out = s.out \/ t.out = s.out \cup {Signed(s, d, FALSE)}
    PROVE  Mute(s, P, Q, t)
<1>1. IsVote(Signed(s, d, FALSE))
    BY VotesAreVotes
<1>2. ~Signed(s, d, FALSE).accept
    BY DEF Signed
<1>3. ASSUME t.out = s.out PROVE Mute(s, P, Q, t)
    BY <1>3 DEF Mute, Proposed, Ballots
<1>4. ASSUME t.out = s.out \cup {Signed(s, d, FALSE)} PROVE Mute(s, P, Q, t)
    <2> DEFINE v == Signed(s, d, FALSE)
    <2> HIDE DEF v
    <2>1. IsVote(v) /\ ~v.accept /\ t.out = s.out \cup {v}
        BY <1>1, <1>2, <1>4 DEF v
    <2> QED
        BY <2>1, Zenon DEF Mute, Proposed, Ballots
<1> QED
    BY <1>3, <1>4

LEMMA OfferBallots ==
    ASSUME NEW s, NEW t, NEW P, NEW Q, NEW b, t.out = s.out \cup {Proposal(s, b)}
    PROVE  /\ Proposed(t, P) = Proposed(s, P) \cup {Proposal(s, b)}
           /\ Ballots(t, Q) = Ballots(s, Q)
<1> DEFINE o == Proposal(s, b)
<1>1. ~IsVote(o)
    BY DEF IsVote, o, Proposal
<1> HIDE DEF o
<1>2. t.out = s.out \cup {o}
    BY DEF o
<1>3. Proposed(t, P) = Proposed(s, P) \cup {o} /\ Ballots(t, Q) = Ballots(s, Q)
    BY <1>1, <1>2, Zenon DEF Proposed, Ballots
<1> QED
    BY <1>3 DEF o

(* In the view it is in, what binds the arbiter stays.                     *)
Binds(s, t) ==
    /\ t.processFinished = s.processFinished
    /\ t.processingBlock = s.processingBlock \/ s.processingBlock = None

Persists(s, Q, t) ==
    \/ ~t.running
    \/ /\ t.running = s.running /\ t.view = s.view
       /\ Height(s) = 1 \/ Binds(s, t) \/ NoneYet(s, Q)

LEMMA VotedKept ==
    ASSUME OneHeight, NEW s, NEW P, NEW Q, Voted(s, P, Q), NEW t, Mute(s, P, Q, t),
           t.self = s.self, t.chain = s.chain, t.list = s.list, t.blocks = s.blocks,
           t.view \in Int, Favourable(t),
           Waits(t) \subseteq Waits(s) \/ (N # 1 /\ Waits(t) \subseteq Proposed(s, P)),
           Persists(s, Q, t)
    PROVE  Voted(t, P, Q)
<1> DEFINE W == Proposed(s, P)
           B == Ballots(s, Q)
<1>1. Proposed(t, P) = W /\ Ballots(t, Q) = B
    BY DEF Mute
<1>2. Height(t) = Height(s) /\ Height(s) \in {0, 1}
    BY DEF Height, Voted, Known
<1>3. Known(s, W) /\ Cast(s, B) /\ OnePerView(B) /\ InView(s, W, B) /\ (NoneYet(s, Q) <=> \A v \in B : ~Elects(v, s))
    BY DEF Voted, NoneYet
<1> HIDE DEF W, B
<1>4. Known(t, W)
    <2>1. Sponsored(t, W)
        BY <1>2, <1>3 DEF Known, Sponsored
    <2>2. Waits(t) \subseteq W /\ (N = 1 => Waits(t) = {})
        BY <1>3 DEF Known, W
    <2> QED
        BY <1>2, <1>3, <2>1, <2>2 DEF Known
<1>5. Cast(t, B)
    BY <1>3 DEF Cast
<1>6. InView(t, W, B)
    <2> SUFFICES ASSUME t.running PROVE InView(t, W, B)
        BY DEF InView
    <2>1. s.running /\ t.view = s.view /\ (Height(s) = 1 \/ Binds(s, t) \/ NoneYet(s, Q))
        BY DEF Persists
    <2>2. \A d \in Mine(W) : d.view <= t.view
        BY <1>3, <2>1 DEF InView
    <2>3. ASSUME NEW v \in B
          PROVE  /\ v.proposal.view <= t.view
                 /\ Elects(v, t) => \A d \in Mine(W) : d.view = t.view => d.block = v.proposal.block
        BY <1>3, <2>1 DEF InView, Elects
    <2>4. ASSUME NEW v \in B, Elects(v, t), Height(t) = 0
          PROVE  t.processFinished = TRUE /\ t.processingBlock = v.proposal.block
        <3>1. Elects(v, s) /\ Binds(s, t)
            BY <1>2, <1>3, <2>1, <2>4 DEF Elects
        <3>2. s.processFinished = TRUE /\ s.processingBlock = v.proposal.block
            BY <1>2, <1>3, <2>1, <2>4, <3>1 DEF InView, Bound
        <3>3. v.proposal.block # None
            BY <1>3 DEF Cast, Proposals, OneHeight, None
        <3> QED
            BY <3>1, <3>2, <3>3 DEF Binds
    <2> QED
        BY <2>2, <2>3, <2>4 DEF InView, Bound
<1> QED
    BY <1>1, <1>3, <1>4, <1>5, <1>6 DEF Voted

LEMMA VotedSame ==
    ASSUME OneHeight, NEW s, NEW P, NEW Q, Voted(s, P, Q), NEW t, Same(s, t)
    PROVE  Voted(t, P, Q) /\ Proposed(t, P) = Proposed(s, P)
<1>1. Mute(s, P, Q, t)
    BY SilentMute DEF Same
<1>2. /\ t.self = s.self /\ t.chain = s.chain /\ t.list = s.list /\ t.blocks = s.blocks
      /\ t.view = s.view /\ t.running = s.running /\ Waits(t) = Waits(s)
      /\ t.pendingVotes = s.pendingVotes /\ Binds(s, t)
    BY DEF Same, Held, Waits, Binds
<1>3. s.view \in Int /\ Favourable(s)
    BY DEF Voted, Known
<1>4. t.view \in Int /\ Favourable(t) /\ Persists(s, Q, t)
    BY <1>2, <1>3 DEF Favourable, Persists
<1> QED
    BY <1>1, <1>2, <1>4, VotedKept DEF Mute

(* The arbiter accepts d, for which nothing it did in this view stands in  *)
(* the way.                                                                *)
Free(s, W, B, d) ==
    /\ \A v \in B : Elects(v, s) => v.proposal.block = d.block /\ Height(s) = 1
    /\ \A e \in Mine(W) : e.view = s.view => e.block = d.block

LEMMA VotedAccepts ==
    ASSUME OneHeight, NEW s, NEW P, NEW Q, Voted(s, P, Q), NEW d \in Proposals,
           d.view = s.view, d.block = s.processingBlock, s.list # <<>>,
           Free(s, Proposed(s, P), Ballots(s, Q), d), NEW t, Accepts(s, d, t)
    PROVE  Voted(t, P, Q) /\ Proposed(t, P) = Proposed(s, P)
<1> DEFINE W == Proposed(s, P)
           B == Ballots(s, Q)
           v0 == Signed(s, d, TRUE)
<1>1. s.view \in Int /\ Height(s) \in {0, 1} /\ Favourable(s)
    BY DEF Voted, Known
<1>2. Fewer(s, t) /\ Waits(t) \subseteq Waits(s) /\ Favourable(t)
    <2>1. Fewer(s, t)
        BY DEF Accepts
    <2> QED
        BY <1>1, <2>1 DEF Fewer, Waits, Favourable
<1>3. ASSUME TakesUp(s, t) PROVE Voted(t, P, Q) /\ Proposed(t, P) = Proposed(s, P)
    <2>1. Mute(s, P, Q, t)
        BY <1>3, SilentMute DEF TakesUp
    <2>2. Stayed(s, t) \/ Ended(s, t)
        BY <1>1, <1>3 DEF TakesUp, Favourable
    <2>3. /\ t.self = s.self /\ t.chain = s.chain /\ t.list = s.list /\ t.blocks = s.blocks
          /\ t.view \in Int /\ Persists(s, Q, t)
        BY <1>1, <2>2 DEF Stayed, Ended, Held, Going, Persists, Binds
    <2> QED
        BY <1>2, <2>1, <2>3, VotedKept DEF Mute
<1>4. ASSUME t.out = s.out \cup {v0}, t.processFinished = TRUE,
             \/ Held(s, t) /\ Going(s, t) /\ t.processingBlock = s.processingBlock
             \/ Ended(s, t)
      PROVE  Voted(t, P, Q) /\ Proposed(t, P) = Proposed(s, P)
    <2>1. IsVote(v0) /\ v0.accept /\ v0.proposal = d
        BY VotesAreVotes DEF Signed
    <2> HIDE DEF v0
    <2>2. Proposed(t, P) = W /\ Ballots(t, Q) = B \cup {v0}
        <3>1. t.out = s.out \cup {v0}
            BY <1>4
        <3> QED
            BY <2>1, <3>1, Zenon DEF Proposed, Ballots
    <2>3. Known(s, W) /\ Cast(s, B) /\ OnePerView(B) /\ InView(s, W, B) /\ Free(s, W, B, d)
        BY DEF Voted
    <2> HIDE DEF W, B
    <2>4. /\ t.self = s.self /\ t.chain = s.chain /\ t.list = s.list /\ t.blocks = s.blocks
          /\ t.view \in Int /\ Height(t) = Height(s)
          /\ t.running => /\ t.view = s.view /\ s.running /\ t.processingBlock = d.block
        BY <1>1, <1>4 DEF Held, Going, Ended, Height
    <2>5. Known(t, W)
        <3>1. Sponsored(t, W)
            BY <2>3, <2>4 DEF Known, Sponsored
        <3>2. Waits(t) \subseteq W /\ (N = 1 => Waits(t) = {})
            BY <1>2, <2>3 DEF Known
        <3> QED
            BY <1>2, <2>3, <2>4, <3>1, <3>2 DEF Known
    <2>6. Cast(t, B \cup {v0})
        BY <2>1, <2>3, <2>4 DEF Cast
    <2>7. OnePerView(B \cup {v0})
        <3>1. ASSUME NEW v \in B, v.proposal.view = d.view PROVE v.proposal.block = d.block
            BY <2>3, <3>1 DEF Free, Elects
        <3> QED
            BY <2>1, <2>3, <3>1 DEF OnePerView
    <2>8. InView(t, W, B \cup {v0})
        <3> SUFFICES ASSUME t.running PROVE InView(t, W, B \cup {v0})
            BY DEF InView
        <3>1. t.view = s.view /\ s.running /\ t.processingBlock = d.block
            BY <2>4
        <3>2. \A e \in Mine(W) : e.view <= t.view
            BY <2>3, <3>1 DEF InView
        <3>3. ASSUME NEW v \in B
              PROVE  /\ v.proposal.view <= t.view
                     /\ Elects(v, t) => Bound(t, v)
                     /\ Elects(v, t) =>
                           \A e \in Mine(W) : e.view = t.view => e.block = v.proposal.block
            <4>1. v.proposal.view <= t.view
                BY <2>3, <3>1 DEF InView
            <4>2. Elects(v, t) => Height(t) = 1
                BY <2>3, <2>4, <3>1 DEF Free, Elects
            <4>3. Elects(v, t) => \A e \in Mine(W) : e.view = t.view => e.block = v.proposal.block
                BY <2>3, <3>1 DEF InView, Elects
            <4> QED
                BY <4>1, <4>2, <4>3 DEF Bound
        <3>4. /\ v0.proposal.view <= t.view /\ Bound(t, v0)
              /\ \A e \in Mine(W) : e.view = t.view => e.block = v0.proposal.block
            BY <1>1, <1>4, <2>1, <2>3, <3>1 DEF Free, Bound
        <3> QED
            BY <3>2, <3>3, <3>4 DEF InView
    <2> QED
        BY <2>2, <2>5, <2>6, <2>7, <2>8 DEF Voted, W
<1> QED
    BY <1>3, <1>4 DEF Accepts

LEMMA Shifted ==
    ASSUME N # 1, NEW w \in Int
    PROVE  OnDutyArbiter(1, w) # OnDutyArbiter(0, w)
<1>1. N \in Nat /\ N > 1
    BY NAssumption
<1> DEFINE p == w \div N
           q == (1 + w) \div N
<1>2. p \in Int /\ w % N \in Int /\ w = N * p + (w % N)
    BY <1>1
<1>3. q \in Int /\ (1 + w) % N \in Int /\ 1 + w = N * q + ((1 + w) % N)
    BY <1>1
<1> HIDE DEF p, q
<1> SUFFICES ASSUME (1 + w) % N = w % N PROVE FALSE
    BY DEF OnDutyArbiter
<1>4. N * (q - p) = 1
    <2>1. N * q - N * p = 1
        BY <1>1, <1>2, <1>3
    <2> QED
        BY <1>1, <1>2, <1>3, <2>1
<1>5. ASSUME q - p >= 1 PROVE FALSE
    <2>1. N * (q - p) >= N
        BY <1>1, <1>2, <1>3, <1>5
    <2> QED
        BY <1>1, <1>4, <2>1
<1>6. ASSUME q - p <= 0 PROVE FALSE
    <2>1. N * (q - p) <= 0
        BY <1>1, <1>2, <1>3, <1>6
    <2> QED
        BY <1>4, <2>1
<1> QED
    BY <1>2, <1>3, <1>5, <1>6

LEMMA VotedPositions ==
    ASSUME OneHeight, N # 1, NEW s, NEW P, NEW Q, Voted(s, P, Q), NEW d \in Proposed(s, P),
           NEW t, Positions(s, d, t)
    PROVE  Voted(t, P, Q) /\ Proposed(t, P) = Proposed(s, P)
<1> DEFINE W == Proposed(s, P)
           B == Ballots(s, Q)
<1>1. Known(s, W) /\ Cast(s, B) /\ InView(s, W, B) /\ d \in W
    BY DEF Voted
<1>2. s.view \in Int /\ Height(s) \in {0, 1} /\ Favourable(s) /\ Waits(s) \subseteq W
    BY <1>1 DEF Known
<1>3. d \in Proposals /\ d.view \in Int
    BY <1>1 DEF Known, Proposals
<1>4. Waits(t) \subseteq Proposed(s, P) /\ Favourable(t)
    <2>1. Offers(s, d, t)
        BY DEF Positions
    <2> QED
        BY <1>2, <2>1 DEF Offers, Waits, Favourable
<1>5. ASSUME Passes(s, d, t) PROVE Voted(t, P, Q) /\ Proposed(t, P) = Proposed(s, P)
    <2>1. Mute(s, P, Q, t)
        BY <1>5, SilentMute DEF Passes
    <2>2. /\ t.self = s.self /\ t.chain = s.chain /\ t.list = s.list /\ t.blocks = s.blocks
          /\ t.view \in Int /\ Persists(s, Q, t)
        BY <1>2, <1>5 DEF Passes, Held, Going, Persists, Binds
    <2> QED
        BY <1>4, <2>1, <2>2, VotedKept DEF Mute
<1>6. ASSUME Refuses(s, d, t) PROVE Voted(t, P, Q) /\ Proposed(t, P) = Proposed(s, P)
    <2>1. Height(s) = 1
        <3>1. d.sponsor = OnDutyArbiter(0, d.view) \/ Height(s) = 1
            BY <1>1 DEF Known, Sponsored
        <3>2. d.view = s.view /\ OnDutyArbiter(Height(s), s.view) # d.sponsor
            BY <1>6 DEF Refuses
        <3> QED
            BY <1>2, <3>1, <3>2
    <2>2. Mute(s, P, Q, t)
        <3>1. t.out = s.out \/ t.out = s.out \cup {Signed(s, d, FALSE)}
            BY <1>6 DEF Refuses, Rejects
        <3> QED
            BY <3>1, SilentMute
    <2>3. Stayed(s, t) \/ Dropped(s, t) \/ Ended(s, t)
        BY <1>6 DEF Refuses, Rejects
    <2>4. /\ t.self = s.self /\ t.chain = s.chain /\ t.list = s.list /\ t.blocks = s.blocks
          /\ t.view \in Int /\ Persists(s, Q, t)
        <3>1. Held(s, t) /\ (Going(s, t) \/ (t.running = FALSE /\ t.view = 0))
            BY <2>3 DEF Stayed, Dropped, Ended
        <3>2. t.view \in Int
            <4>1. t.view = s.view \/ t.view = 0
                BY <3>1, Zenon DEF Going
            <4> QED
                BY <1>2, <4>1
        <3>3. ASSUME Going(s, t) PROVE Persists(s, Q, t)
            BY <2>1, <3>3, Zenon DEF Going, Persists
        <3>4. ASSUME t.running = FALSE PROVE Persists(s, Q, t)
            BY <3>4, Zenon DEF Persists
        <3> QED
            BY <3>1, <3>2, <3>3, <3>4 DEF Held
    <2> QED
        BY <1>4, <2>2, <2>4, VotedKept DEF Mute
<1>7. ASSUME Agrees(s, d, t) PROVE Voted(t, P, Q) /\ Proposed(t, P) = Proposed(s, P)
    <2>1. PICK r : Speculates(s, d, r) /\ Accepts(r, d, t)
        BY <1>7 DEF Agrees
    <2>2. /\ d.view = s.view /\ d.sponsor = OnDutyArbiter(Height(s), s.view)
          /\ d.block \in s.blocks /\ ~s.processFinished /\ s.running
        BY <1>7 DEF Agrees
    <2>3. Height(s) = 1 \/ NoneYet(s, Q)
        BY <1>1, <1>2, <2>2 DEF InView, Bound, NoneYet
    <2>4. d.sponsor = Self \/ Height(s) = 0
        BY <1>1, <1>2, <1>3, <2>2, Shifted DEF Known, Sponsored
    <2>5. Free(s, W, B, d)
        <3>1. ASSUME NEW v \in B, Elects(v, s) PROVE v.proposal.block = d.block /\ Height(s) = 1
            <4>1. Height(s) = 1
                BY <2>3, <3>1 DEF NoneYet
            <4>2. d \in Mine(W)
                BY <1>1, <2>4, <4>1 DEF Mine
            <4> QED
                BY <1>1, <2>2, <3>1, <4>1, <4>2 DEF InView
        <3>2. ASSUME NEW e \in Mine(W), e.view = s.view PROVE e.block = d.block
            <4>1. e \in W /\ e.sponsor = Self
                BY DEF Mine
            <4>2. d.sponsor = Self
                <5>1. ASSUME Height(s) = 0 PROVE d.sponsor = Self
                    BY <1>1, <2>2, <3>2, <4>1, <5>1 DEF Known, Sponsored
                <5> QED
                    BY <2>4, <5>1
            <4> QED
                BY <1>1, <4>1, <4>2 DEF Known, Sponsored
        <3> QED
            BY <3>1, <3>2 DEF Free
    <2>6. s.list # <<>>
        BY <1>1, <2>2 DEF Known
    <2>7. Mute(s, P, Q, r)
        BY <2>1, SilentMute DEF Speculates
    <2>8. /\ r.self = s.self /\ r.chain = s.chain /\ r.list = s.list /\ r.blocks = s.blocks
          /\ r.view = s.view /\ r.running = s.running /\ r.processingBlock = d.block
          /\ Height(r) = Height(s) /\ Waits(r) \subseteq Waits(s) /\ Favourable(r)
        BY <1>2, <2>1 DEF Speculates, Held, Going, Fewer, Waits, Height, Favourable
    <2>9. Voted(r, P, Q)
        <3>1. Persists(s, Q, r) /\ r.view \in Int
            BY <1>2, <2>3, <2>8 DEF Persists
        <3> QED
            BY <2>7, <2>8, <3>1, VotedKept
    <2>10. Free(r, Proposed(r, P), Ballots(r, Q), d)
        BY <2>5, <2>7, <2>8 DEF Free, Mute, Elects
    <2>11. Voted(t, P, Q) /\ Proposed(t, P) = Proposed(r, P)
        BY <1>3, <2>1, <2>2, <2>6, <2>8, <2>9, <2>10, VotedAccepts
    <2> QED
        BY <2>7, <2>11 DEF Mute
<1> QED
    BY <1>5, <1>6, <1>7 DEF Positions

LEMMA VotedSettles ==
    ASSUME OneHeight, NEW s, NEW P, NEW Q, Voted(s, P, Q), NEW S, S \subseteq Proposed(s, P),
           N # 1 \/ S = {}, NEW g, NEW n, NEW t, Settles(g, n, S, s, t)
    PROVE  Voted(t, P, Q) /\ Proposed(t, P) = Proposed(s, P)
<1> DEFINE T == {i \in 0..n : Voted(g[i], P, Q) /\ Proposed(g[i], P) = Proposed(s, P)}
<1>1. n \in Nat /\ g[0] = s /\ t = g[n]
    BY DEF Settles
<1>2. 0 \in T
    BY <1>1
<1>3. ASSUME NEW i \in 1..n, i - 1 \in T PROVE i \in T
    <2>1. Voted(g[i - 1], P, Q) /\ Proposed(g[i - 1], P) = Proposed(s, P)
        BY <1>3
    <2>2. \/ g[i] = g[i - 1]
          \/ g[i - 1].running /\ \E d \in S : Positions(g[i - 1], d, g[i])
        BY DEF Settles
    <2>3. ASSUME g[i - 1].running, NEW d \in S, Positions(g[i - 1], d, g[i])
          PROVE  Voted(g[i], P, Q) /\ Proposed(g[i], P) = Proposed(s, P)
        <3>1. N # 1 /\ d \in Proposed(g[i - 1], P)
            BY <2>1
        <3> QED
            BY <2>1, <2>3, <3>1, VotedPositions
    <2>4. Voted(g[i], P, Q) /\ Proposed(g[i], P) = Proposed(s, P)
        BY <2>1, <2>2, <2>3
    <2> QED
        BY <2>4
<1> HIDE DEF T
<1>4. \A i \in 0..n : i \in T
    BY <1>1, <1>2, <1>3, UpTo, Zenon
<1>5. n \in T
    BY <1>1, <1>4
<1> QED
    BY <1>1, <1>5 DEF T

(* A new view is one in which the arbiter has not voted.                   *)
LEMMA VotedTurned ==
    ASSUME OneHeight, NEW s, NEW P, NEW Q, Voted(s, P, Q), s.running, NEW k \in Nat, k > 0,
           NEW c, Turned(s, k, c)
    PROVE  Voted(c, P, Q) /\ NoneYet(c, Q)
<1> DEFINE W == Proposed(s, P)
           B == Ballots(s, Q)
<1>1. Known(s, W) /\ Cast(s, B) /\ OnePerView(B) /\ InView(s, W, B)
    BY DEF Voted
<1>2. Mute(s, P, Q, c)
    BY SilentMute DEF Turned
<1>3. Proposed(c, P) = W /\ Ballots(c, Q) = B
    BY <1>2 DEF Mute
<1>4. s.view \in Int /\ Favourable(s)
    BY <1>1 DEF Known
<1> HIDE DEF W, B
<1>5. /\ c.self = s.self /\ c.chain = s.chain /\ c.list = s.list /\ c.blocks = s.blocks
      /\ c.view = s.view + k /\ Height(c) = Height(s) /\ Waits(c) \subseteq Waits(s) /\ Favourable(c)
    BY <1>4 DEF Turned, Held, Fewer, Waits, Height, Favourable
<1>6. c.view \in Int /\ c.view > s.view
    BY <1>4, <1>5
<1>7. Known(c, W)
    <2>1. Sponsored(c, W)
        BY <1>1, <1>5 DEF Known, Sponsored
    <2>2. Waits(c) \subseteq W /\ (N = 1 => Waits(c) = {})
        BY <1>1, <1>5 DEF Known
    <2> QED
        BY <1>1, <1>5, <1>6, <2>1, <2>2 DEF Known
<1>8. ASSUME NEW v \in B PROVE v.proposal.view < c.view /\ v.proposal.view \in Int
    <2>1. v.proposal.view <= s.view /\ v.proposal.view \in Int
        BY <1>1 DEF InView, Cast, Proposals
    <2> QED
        BY <1>4, <1>6, <2>1
<1>9. \A v \in B : ~Elects(v, c)
    BY <1>6, <1>8 DEF Elects
<1>10. ASSUME NEW d \in Mine(W) PROVE d.view <= c.view
    <2>1. d.view <= s.view /\ d.view \in Int
        BY <1>1 DEF InView, Mine, Known, Proposals
    <2> QED
        BY <1>4, <1>6, <2>1
<1>11. InView(c, W, B)
    BY <1>6, <1>8, <1>9, <1>10 DEF InView
<1>12. Cast(c, B)
    BY <1>1, <1>5 DEF Cast
<1> QED
    BY <1>1, <1>3, <1>7, <1>9, <1>11, <1>12 DEF Voted, NoneYet

(* On duty it proposes the first block, and accepts its proposal.          *)
LEMMA VotedOffered ==
    ASSUME OneHeight, NEW s, NEW P, NEW Q, Voted(s, P, Q), NoneYet(s, Q), s.list # <<>>,
           OnDutyArbiter(Height(s), s.view) = Self, NEW e, Offered(s, s.list[1], e)
    PROVE  Voted(e, P, Q) /\ NoneYet(e, Q)
<1> DEFINE W == Proposed(s, P)
           B == Ballots(s, Q)
           o == Proposal(s, s.list[1])
<1>1. Known(s, W) /\ Cast(s, B) /\ OnePerView(B) /\ InView(s, W, B)
    BY DEF Voted
<1>2. Proposed(e, P) = W \cup {o} /\ Ballots(e, Q) = B
    <2>1. e.out = s.out \cup {Proposal(s, s.list[1])}
        BY DEF Offered
    <2> QED
        BY <2>1, OfferBallots
<1>3. s.view \in Int /\ s.self = Self /\ s.list \in Seq(Blocks) /\ Favourable(s)
    BY <1>1 DEF Known
<1>4. o.sponsor = Self /\ o.block = s.list[1] /\ o.view = s.view /\ o \in Proposals
    <2>1. s.list[1] \in Blocks /\ Self \in Arbiters
        BY <1>3, SelfAssumption, EmptySeq, LenProperties
    <2> QED
        BY <1>3, <2>1 DEF Proposal, Proposals
<1> HIDE DEF W, B, o
<1>5. /\ e.self = s.self /\ e.chain = s.chain /\ e.list = s.list /\ e.blocks = s.blocks
      /\ e.view = s.view /\ e.running = s.running /\ Height(e) = Height(s)
      /\ Waits(e) \subseteq Waits(s) /\ Favourable(e)
    BY <1>3 DEF Offered, Held, Going, Fewer, Waits, Height, Favourable
<1>6. \A v \in B : ~Elects(v, s) /\ ~Elects(v, e)
    BY <1>5 DEF NoneYet, Elects, B
<1>7. Known(e, W \cup {o})
    <2>1. Sponsored(e, W \cup {o})
        <3>1. Height(s) = 0 => o.sponsor = OnDutyArbiter(0, o.view)
            BY <1>4
        <3> QED
            BY <1>1, <1>4, <1>5, <3>1 DEF Known, Sponsored
    <2>2. Waits(e) \subseteq W \cup {o} /\ (N = 1 => Waits(e) = {})
        BY <1>1, <1>5 DEF Known
    <2>3. W \cup {o} \subseteq Proposals
        BY <1>1, <1>4 DEF Known
    <2> QED
        BY <1>1, <1>5, <2>1, <2>2, <2>3 DEF Known
<1>8. InView(e, W \cup {o}, B)
    <2> SUFFICES ASSUME e.running PROVE InView(e, W \cup {o}, B)
        BY DEF InView
    <2>1. \A d \in Mine(W) : d.view <= e.view
        BY <1>1, <1>5 DEF InView
    <2>2. \A d \in Mine(W \cup {o}) : d.view <= e.view
        BY <1>3, <1>4, <1>5, <2>1 DEF Mine
    <2>3. \A v \in B : v.proposal.view <= e.view
        BY <1>1, <1>5 DEF InView
    <2> QED
        BY <1>6, <2>2, <2>3 DEF InView
<1>9. Cast(e, B)
    BY <1>1, <1>5 DEF Cast
<1> QED
    BY <1>1, <1>2, <1>6, <1>7, <1>8, <1>9 DEF Voted, NoneYet

LEMMA VotedStarts ==
    ASSUME OneHeight, NEW s, NEW P, NEW Q, Tidy(s), Voted(s, P, Q),
           s.processingBlock = None => NoneYet(s, Q), s.list # <<>>,
           OnDutyArbiter(Height(s), s.view) = Self, NEW t, Starts(s, s.list[1], t)
    PROVE  Voted(t, P, Q) /\ Tidy(t)
<1> DEFINE o == Proposal(s, s.list[1])
<1>1. CASE t = s
    BY <1>1
<1>2. CASE s.processingBlock = None /\ \E e : Offered(s, s.list[1], e) /\ Accepts(e, o, t)
    <2>1. PICK e : Offered(s, s.list[1], e) /\ Accepts(e, o, t)
        BY <1>2
    <2>2. Voted(e, P, Q) /\ NoneYet(e, Q)
        BY <1>2, <2>1, VotedOffered
    <2>3. /\ e.self = s.self /\ e.list = s.list /\ e.view = s.view /\ Tidy(e)
          /\ e.processingBlock = s.list[1]
        BY <2>1 DEF Offered, Held, Going
    <2>4. e.self = Self /\ e.view \in Int /\ e.list \in Seq(Blocks)
        BY <2>2 DEF Voted, Known
    <2>5. o.view = e.view /\ o.block = e.processingBlock /\ o \in Proposals
        <3>1. s.list[1] \in Blocks /\ Self \in Arbiters
            BY <2>3, <2>4, SelfAssumption, EmptySeq, LenProperties
        <3> QED
            BY <2>3, <2>4, <3>1 DEF Proposal, Proposals
    <2>6. Free(e, Proposed(e, P), Ballots(e, Q), o)
        <3>1. \A v \in Ballots(e, Q) : ~Elects(v, e)
            BY <2>2 DEF NoneYet
        <3>2. \A d \in Mine(Proposed(e, P)) : d.block = e.list[1]
            BY <2>2 DEF Voted, Known, Sponsored, Mine
        <3> QED
            BY <2>3, <2>5, <3>1, <3>2 DEF Free
    <2> HIDE DEF o
    <2>7. Voted(t, P, Q)
        BY <2>1, <2>2, <2>3, <2>5, <2>6, VotedAccepts
    <2>8. Tidy(t)
        BY <2>1, <2>3, AcceptsPlain
    <2> QED
        BY <2>7, <2>8
<1> QED
    BY <1>1, <1>2 DEF Starts

LEMMA VotedChanged ==
    ASSUME OneHeight, NEW s, NEW P, NEW Q, Voted(s, P, Q), s.running, NEW k \in Nat, k > 0,
           NEW t, Changed(s, k, t)
    PROVE  Voted(t, P, Q)
<1>1. CASE Turned(s, k, t)
    BY <1>1, VotedTurned
<1>2. ASSUME NEW c, NEW a, NEW g, NEW n, Turned(s, k, c),
             a = c \/ (c.onDuty /\ Usable(c) /\ Starts(c, c.list[1], a)),
             Tidy(a) => Settles(g, n, a.precociousProposals, a, t)
      PROVE  Voted(t, P, Q)
    <2>1. Voted(c, P, Q) /\ NoneYet(c, Q)
        BY <1>2, VotedTurned
    <2>2. Tidy(c) /\ Height(c) = Height(s) /\ c.self = s.self
          /\ c.onDuty = (OnDutyArbiter(Height(s), c.view) = s.self)
        BY <1>2 DEF Turned, Held, Height
    <2>3. c.self = Self
        BY <2>1 DEF Voted, Known
    <2>4. Voted(a, P, Q) /\ Tidy(a)
        <3>1. CASE a = c
            BY <2>1, <2>2, <3>1
        <3>2. CASE c.onDuty /\ Usable(c) /\ Starts(c, c.list[1], a)
            <4>1. OnDutyArbiter(Height(c), c.view) = Self /\ c.list # <<>>
                BY <2>2, <2>3, <3>2 DEF Usable
            <4> QED
                BY <2>1, <2>2, <3>2, <4>1, VotedStarts
        <3> QED
            BY <1>2, <3>1, <3>2
    <2>5. a.precociousProposals \subseteq Proposed(a, P) /\ (N # 1 \/ a.precociousProposals = {})
        BY <2>4 DEF Voted, Known, Waits
    <2> QED
        BY <1>2, <2>4, <2>5, VotedSettles
<1> QED
    BY <1>1, <1>2 DEF Changed

(* The ledger, and events taken from the queue.                            *)
LEMMA VotedRaises ==
    ASSUME OneHeight, NEW s, NEW P, NEW Q, Base(s, P), Voted(s, P, Q),
           NEW t, Fed(s, t), Raises(s, t)
    PROVE  Voted(t, P, Q)
<1> DEFINE W == Proposed(s, P)
           B == Ballots(s, Q)
<1>1. Known(s, W) /\ Cast(s, B) /\ OnePerView(B) /\ InView(s, W, B)
    BY DEF Voted
<1>2. Mute(s, P, Q, t)
    BY SilentMute DEF Fed
<1>3. Proposed(t, P) = W /\ Ballots(t, Q) = B
    BY <1>2 DEF Mute
<1> HIDE DEF W, B
<1>4. /\ t.self = s.self /\ t.list = s.list /\ t.blocks = s.blocks /\ t.view = s.view
      /\ t.running = s.running /\ t.processFinished = s.processFinished
      /\ t.processingBlock = s.processingBlock /\ t.pendingVotes = s.pendingVotes
      /\ Waits(t) = Waits(s)
    BY DEF Fed, Waits
<1>5. Height(t) = Height(s) \/ (Height(s) = 0 /\ Height(t) = 1)
    <2>1. CASE t.chain = s.chain
        BY <2>1 DEF Height
    <2>2. ASSUME NEW e \in Events, e.b.h = Height(s) + 1, t.chain = Append(s.chain, e.b)
          PROVE  Height(s) = 0 /\ Height(t) = 1
        <3>1. e.b \in Blocks /\ e.b.h = 1 /\ s.chain \in Seq(Blocks) /\ Height(s) \in {0, 1}
            BY <1>1 DEF Events, OneHeight, Base, Ledger, Known
        <3>2. Len(t.chain) = Len(s.chain) + 1
            BY <2>2, <3>1, AppendProperties
        <3> QED
            BY <2>2, <3>1, <3>2 DEF Height
    <2> QED
        BY <2>1, <2>2 DEF Raises
<1>6. Known(t, W)
    <2>1. Sponsored(t, W)
        BY <1>1, <1>4, <1>5 DEF Known, Sponsored
    <2> QED
        BY <1>1, <1>4, <1>5, <2>1 DEF Known, Favourable
<1>7. InView(t, W, B)
    BY <1>1, <1>4, <1>5 DEF InView, Elects, Bound
<1>8. Cast(t, B)
    BY <1>1, <1>4 DEF Cast
<1> QED
    BY <1>1, <1>3, <1>6, <1>7, <1>8 DEF Voted

LEMMA VotedTakes ==
    ASSUME OneHeight, NEW s, NEW P, NEW Q, Voted(s, P, Q), NEW i, NEW t, Takes(s, i, t)
    PROVE  Voted(t, P, Q)
<1>1. Mute(s, P, Q, t)
    BY SilentMute DEF Takes, Fed
<1>2. /\ t.self = s.self /\ t.chain = s.chain /\ t.list = s.list /\ t.blocks = s.blocks
      /\ t.view = s.view /\ t.running = s.running /\ Waits(t) = Waits(s)
      /\ t.pendingVotes = s.pendingVotes /\ Binds(s, t)
    BY DEF Takes, Fed, Waits, Binds
<1>3. s.view \in Int /\ Favourable(s)
    BY DEF Voted, Known
<1>4. t.view \in Int /\ Favourable(t) /\ Persists(s, Q, t)
    BY <1>2, <1>3 DEF Favourable, Persists
<1> QED
    BY <1>1, <1>2, <1>4, VotedKept

LEMMA VotedConfirms ==
    ASSUME OneHeight, NEW s, NEW P, NEW Q, Steady(s), Voted(s, P, Q), NEW b,
           NEW t, Confirms(s, b, t)
    PROVE  Voted(t, P, Q)
<1>1. Mute(s, P, Q, t)
    BY SilentMute DEF Confirms
<1>2. ~t.running
    BY DEF Confirms
<1>3. t.pendingVotes = {}
    BY <1>2 DEF Confirms, Steady
<1>4. t.view \in Int
    <2>1. s.view \in Int
        BY DEF Voted, Known
    <2>2. t.view = s.view \/ t.view = 0
        BY Zenon DEF Confirms
    <2> QED
        BY <2>1, <2>2
<1>5. /\ t.self = s.self /\ t.chain = s.chain /\ t.list = s.list /\ t.blocks = s.blocks
      /\ Waits(t) \subseteq Waits(s)
    BY DEF Confirms, Held, Kept, Waits
<1>6. Favourable(t) /\ Persists(s, Q, t)
    BY <1>2, <1>3 DEF Favourable, Persists
<1> QED
    BY <1>1, <1>4, <1>5, <1>6, VotedKept

(* A block comes while the height is worked on, or opens it.               *)
LEMMA VotedExtended ==
    ASSUME OneHeight, NEW s, NEW P, NEW Q, Voted(s, P, Q), NEW b \in Blocks, NEW x, Extended(s, b, x)
    PROVE  Voted(x, P, Q)
<1> DEFINE W == Proposed(s, P)
           B == Ballots(s, Q)
<1>1. Known(s, W) /\ Cast(s, B) /\ OnePerView(B) /\ InView(s, W, B)
    BY DEF Voted
<1>2. Mute(s, P, Q, x)
    BY SilentMute DEF Extended
<1>3. Proposed(x, P) = W /\ Ballots(x, Q) = B
    BY <1>2 DEF Mute
<1> HIDE DEF W, B
<1>4. /\ x.self = s.self /\ Height(x) = Height(s) /\ x.view = s.view
      /\ x.running = s.running /\ x.processFinished = s.processFinished
      /\ x.processingBlock = s.processingBlock /\ x.pendingVotes = s.pendingVotes
      /\ Waits(x) = Waits(s)
    BY DEF Extended, Going, Waits, Height
<1>5. x.list \in Seq(Blocks) /\ x.list # <<>> /\ (s.list # <<>> => x.list[1] = s.list[1])
    <2>1. s.list \in Seq(Blocks) /\ x.list = Append(s.list, b)
        BY <1>1 DEF Known, Extended
    <2>2. s.list # <<>> => 1 \in 1..Len(s.list)
        BY <2>1, LenProperties, EmptySeq
    <2> QED
        BY <2>1, <2>2, AppendProperties
<1>6. Known(x, W)
    <2>1. Sponsored(x, W)
        BY <1>1, <1>4, <1>5 DEF Known, Sponsored
    <2> QED
        BY <1>1, <1>4, <1>5, <2>1 DEF Known, Favourable
<1>7. InView(x, W, B)
    BY <1>1, <1>4 DEF InView, Elects, Bound
<1>8. Cast(x, B)
    BY <1>1, <1>5 DEF Cast
<1> QED
    BY <1>1, <1>3, <1>6, <1>7, <1>8 DEF Voted

LEMMA VotedOpened ==
    ASSUME OneHeight, NEW s, NEW P, NEW Q, Voted(s, P, Q), s.list = <<>>,
           NEW b \in Blocks, NEW x, Opened(s, b, x)
    PROVE  Voted(x, P, Q) /\ x.list = <<b>>
<1> DEFINE W == Proposed(s, P)
           B == Ballots(s, Q)
<1>1. Known(s, W) /\ Cast(s, B) /\ OnePerView(B)
    BY DEF Voted
<1>2. Mute(s, P, Q, x)
    BY SilentMute DEF Opened
<1>3. Proposed(x, P) = W /\ Ballots(x, Q) = B
    BY <1>2 DEF Mute
<1> HIDE DEF W, B
<1>4. /\ x.self = s.self /\ Height(x) = Height(s) /\ x.view = 0
      /\ x.pendingVotes = s.pendingVotes /\ Waits(x) = Waits(s)
    BY DEF Opened, Waits, Height
<1>5. x.list = <<b>>
    <2>1. s.blocks = {}
        BY <1>1 DEF Known
    <2>2. Kept0(s, b) = {}
        BY <2>1 DEF Kept0
    <2> QED
        BY <2>2 DEF Opened, List0
<1>6. x.list \in Seq(Blocks) /\ x.list # <<>>
    BY <1>5
<1>7. B = {} /\ Mine(W) = {}
    BY <1>1 DEF Cast, Known, Sponsored, Mine
<1>8. Known(x, W)
    <2>1. \A d \in W : d.sponsor # Self
        BY <1>7 DEF Mine
    <2>2. Sponsored(x, W)
        BY <1>1, <2>1 DEF Known, Sponsored
    <2> QED
        BY <1>1, <1>4, <1>6, <2>2 DEF Known, Favourable
<1>9. InView(x, W, B)
    BY <1>7 DEF InView
<1>10. Cast(x, B)
    BY <1>7 DEF Cast
<1> QED
    BY <1>1, <1>3, <1>5, <1>8, <1>9, <1>10 DEF Voted

LEMMA VotedHigher ==
    ASSUME OneHeight, NEW s, NEW P, NEW Q, Tidy(s), Switched(s), ~Awaited(s),
           Once(s, Own2(s, P)), Voted(s, P, Q),
           NEW b \in Blocks, b.h > Height(s), b.h > s.finishedHeight,
           NEW t, t = ProcessHigherBlock(s, b)
    PROVE  Voted(t, P, Q)
<1> DEFINE a == TryStartNewConsensus(s, b)
<1>1. ASSUME Tidy(a), Voted(a, P, Q) PROVE Voted(t, P, Q)
    <2>1. Same(a, t)
        BY <1>1 DEF ProcessHigherBlock, Same, Tidy, Held, Fields
    <2> HIDE DEF a
    <2> QED
        BY <1>1, <2>1, VotedSame
<1>2. CASE b \in s.blocks
    BY <1>1, <1>2 DEF TryStartNewConsensus
<1>3. CASE b \notin s.blocks /\ s.running
    <2>1. a = AddValue(s, b)
        BY <1>3 DEF TryStartNewConsensus, OnDutyTryStart, NormalTryStart
    <2> HIDE DEF a
    <2>2. PICK x : Extended(s, b, x) /\ \E S : /\ S \subseteq x.pendingProposals
                                               /\ \E g, n : Settles(g, n, S, x, a)
        BY <2>1, AddExtends
    <2>3. PICK S, g, n : S \subseteq x.pendingProposals /\ Settles(g, n, S, x, a)
        BY <2>2
    <2>4. Voted(x, P, Q)
        BY <2>2, VotedExtended
    <2>5. S \subseteq Proposed(x, P) /\ (N # 1 \/ S = {})
        BY <2>3, <2>4 DEF Voted, Known, Waits
    <2>6. Tidy(a)
        BY <2>3, SettlesMoves DEF Moves
    <2> QED
        BY <1>1, <2>3, <2>4, <2>5, <2>6, VotedSettles
<1>4. CASE b \notin s.blocks /\ ~s.running
    <2> DEFINE c == StartConsensus(s, b)
    <2>1. a = IF s.onDuty THEN StartProposal(c, b) ELSE c
        BY <1>4 DEF TryStartNewConsensus, OnDutyTryStart, NormalTryStart
    <2> HIDE DEF a
    <2>2. PICK x : Opened(s, b, x) /\ \E S : /\ S \subseteq x.pendingProposals
                                             /\ \E g, n : Settles(g, n, S, x, c)
        BY ConsensusOpened
    <2>3. PICK S, g, n : S \subseteq x.pendingProposals /\ Settles(g, n, S, x, c)
        BY <2>2
    <2> HIDE DEF c
    <2>4. s.list = <<>> /\ Height(s) = 0
        <3>1. Height(s) \in {0, 1} /\ b.h = 1
            BY DEF Voted, Known, OneHeight
        <3>2. Height(s) = 0 /\ s.finishedHeight \in Int
            BY <3>1 DEF Once
        <3>3. s.list # <<>> => s.list[1] \in s.blocks /\ \A q \in s.blocks : q.h = s.list[1].h
            BY DEF Once, Cached
        <3>4. \A q \in s.blocks : q.h <= s.finishedHeight \/ q.h <= Height(s)
            BY <1>4 DEF Once, Done
        <3>5. s.list # <<>> => s.list[1] \in Blocks
            <4>1. s.list \in Seq(Blocks)
                BY DEF Voted, Known
            <4> QED
                BY <4>1, EmptySeq, LenProperties
        <3> QED
            BY <3>1, <3>2, <3>3, <3>4, <3>5 DEF OneHeight
    <2>5. Voted(x, P, Q) /\ x.list = <<b>>
        BY <2>2, <2>4, VotedOpened
    <2>6. S \subseteq Proposed(x, P) /\ (N # 1 \/ S = {})
        BY <2>3, <2>5 DEF Voted, Known, Waits
    <2>7. Voted(c, P, Q)
        BY <2>3, <2>5, <2>6, VotedSettles
    <2>8. Quiet(x)
        <3>1. s.pendingVotes = {} /\ s.acceptVotes = {}
            BY <1>4 DEF Once, Steady
        <3> QED
            BY <2>2, <3>1 DEF Opened, Quiet
    <2>9. N > 1 \/ S = {}
        BY <2>6, NAssumption
    <2>10. Quiet(c) /\ Going(x, c)
        BY <2>3, <2>8, <2>9, SettlesQuiet
    <2>11. Tidy(c) /\ Held(x, c)
        BY <2>3, SettlesMoves DEF Moves
    <2>12. CASE ~s.onDuty
        BY <1>1, <2>1, <2>7, <2>11, <2>12
    <2>13. CASE s.onDuty
        <3>1. a = StartProposal(c, b)
            BY <2>1, <2>13
        <3>2. c.view = 0 /\ c.list = <<b>> /\ c.running /\ Height(c) = 0 /\ c.self = Self
            <4>1. x.view = 0 /\ Height(x) = 0
                BY <2>2, <2>4 DEF Opened, Height
            <4>2. c.view = 0 /\ c.list = <<b>> /\ Height(c) = 0
                BY <2>5, <2>10, <2>11, <4>1 DEF Going, Held, Height
            <4>3. c.running /\ c.self = Self
                BY <2>7, <2>10 DEF Quiet, Voted, Known
            <4> QED
                BY <4>2, <4>3
        <3>3. OnDutyArbiter(Height(c), c.view) = Self
            <4>1. s.onDuty = Duty0(s) /\ s.self = Self
                BY <1>4 DEF Switched, Voted, Known
            <4> QED
                BY <2>4, <2>13, <3>2, <4>1 DEF Duty0
        <3>4. ASSUME c.processingBlock = None PROVE NoneYet(c, Q)
            <4> SUFFICES ASSUME NEW v \in Ballots(c, Q), Elects(v, c) PROVE FALSE
                BY DEF NoneYet
            <4>1. c.processingBlock = v.proposal.block /\ v.proposal.block \in Blocks
                BY <2>7, <3>2 DEF Voted, InView, Bound, Cast, Proposals
            <4> QED
                BY <3>4, <4>1 DEF OneHeight, None
        <3>5. c.list # <<>> /\ c.list[1] = b
            BY <3>2
        <3>6. Starts(c, c.list[1], a)
            BY <2>11, <3>1, <3>5, StartStarts
        <3>7. Voted(a, P, Q) /\ Tidy(a)
            BY <2>7, <2>11, <3>3, <3>4, <3>5, <3>6, VotedStarts
        <3> QED
            BY <1>1, <3>7
    <2> QED
        BY <2>12, <2>13
<1> QED
    BY <1>2, <1>3, <1>4

(* A vote of a peer.                                                       *)
LEMMA VotedPeerVote ==
    ASSUME OneHeight, NEW s, NEW P, NEW Q, Tidy(s), Voted(s, P, Q), NEW v, v.accept,
           NEW t, t = OnVoteAccepted(s, v) \/ t = OnVoteRejected(s, v)
    PROVE  Voted(t, P, Q)
<1> DEFINE a == ProcessPeerVote(s, v)
<1>1. Tidy(a)
    BY PeerVoteWorks DEF Works
<1>2. t = a \/ t = ChangeOnDuty(a)
    BY DEF OnVoteAccepted, OnVoteRejected, IfFinishedChangeDuty
<1>3. a = s \/ a = AddPendingVote(s, v) \/ a = ProcessVote(s, v)
    BY DEF ProcessPeerVote, OnDutyProcessVote, NormalProcessVote
<1> HIDE DEF a
<1>4. s.view \in Int /\ Favourable(s)
    BY DEF Voted, Known
<1>5. Voted(a, P, Q)
    <2>1. CASE a = s
        BY <2>1
    <2>2. CASE a = AddPendingVote(s, v)
        <3>1. /\ a.out = s.out /\ a.self = s.self /\ a.chain = s.chain /\ a.list = s.list
              /\ a.blocks = s.blocks /\ a.view = s.view /\ a.running = s.running
              /\ Waits(a) = Waits(s) /\ a.pendingVotes = s.pendingVotes \cup {v} /\ Binds(s, a)
            BY <2>2 DEF AddPendingVote, Tidy, Fields, Waits, Binds
        <3>2. Mute(s, P, Q, a)
            BY <3>1, SilentMute
        <3>3. Favourable(a) /\ a.view \in Int /\ Persists(s, Q, a)
            BY <1>4, <3>1 DEF Favourable, Persists
        <3> QED
            BY <3>1, <3>2, <3>3, VotedKept
    <2>3. CASE a = ProcessVote(s, v)
        <3>1. Counts(s, v, a)
            BY <2>3, VoteCounts DEF Tidy
        <3>2. Stayed(s, a) \/ Ended(s, a)
            BY <3>1 DEF Counts
        <3>3. Mute(s, P, Q, a)
            BY <3>1, SilentMute DEF Counts
        <3>4. Waits(a) \subseteq Waits(s) /\ Favourable(a)
            BY <1>4, <3>1 DEF Counts, Fewer, Waits, Favourable
        <3>5. /\ a.self = s.self /\ a.chain = s.chain /\ a.list = s.list /\ a.blocks = s.blocks
              /\ a.view \in Int /\ Persists(s, Q, a)
            BY <1>4, <3>2 DEF Stayed, Ended, Held, Going, Persists, Binds
        <3> QED
            BY <3>3, <3>4, <3>5, VotedKept
    <2> QED
        BY <1>3, <2>1, <2>2, <2>3
<1> QED
    BY <1>1, <1>2, <1>5, DutySame, VotedSame

(* A proposal that is delivered.                                           *)
LEMMA VotedProposal ==
    ASSUME OneHeight, N # 1, NEW s, NEW P, NEW Q, Tidy(s), Voted(s, P, Q), NEW d \in P, NEW from,
           NEW t, t = NormalProcessProposal(s, from, d)
    PROVE  Voted(t, P, Q) /\ Tidy(t)
<1>1. Positions(s, d, t)
    BY ProcessPositions DEF NormalProcessProposal, Tidy
<1>2. Tidy(t)
    BY <1>1, PositionsTidy
<1>3. d \in Proposed(s, P)
    BY DEF Proposed
<1> QED
    BY <1>1, <1>2, <1>3, VotedPositions

LEMMA StepVoted ==
    ASSUME NEW s, Tidy(s), Voted(s, sent, signed), Step(s)
    PROVE  Voted(node', sent', signed')
<1> DEFINE t == node'
           W == Proposed(s, sent)
           B == Ballots(s, signed)
<1>1. /\ t.self = s.self /\ t.view = s.view /\ t.chain = s.chain /\ t.list = s.list
      /\ t.blocks = s.blocks /\ t.running = s.running /\ t.pendingVotes = s.pendingVotes
      /\ t.pendingProposals = s.pendingProposals /\ t.precociousProposals = s.precociousProposals
      /\ t.processFinished = s.processFinished /\ t.processingBlock = s.processingBlock
      /\ t.out = {}
    BY DEF Step, Tidy, Fields
<1>2. Proposed(t, sent') = W
    BY <1>1 DEF Step, Proposed
<1>3. Ballots(t, signed') = B
    <2>1. signed' = signed \cup {m \in s.out : IsVote(m)}
        BY DEF Step
    <2> HIDE DEF t
    <2> QED
        BY <1>1, <2>1, Zenon DEF Ballots
<1>4. Known(s, W) /\ Cast(s, B) /\ OnePerView(B) /\ InView(s, W, B)
    BY DEF Voted
<1> HIDE DEF t, W, B
<1>5. Known(t, W)
    BY <1>1, <1>4 DEF Known, Sponsored, Favourable, Waits, Height
<1>6. Cast(t, B) /\ InView(t, W, B)
    BY <1>1, <1>4 DEF Cast, InView, Elects, Bound, Height
<1>7. Voted(t, sent', signed')
    BY <1>2, <1>3, <1>4, <1>5, <1>6 DEF Voted
<1> QED
    BY <1>7 DEF t

VotesInv == OnceInv /\ Voted(node, sent, signed) /\ \A v \in signed : IsVote(v)

LEMMA VotesInitially ==
    ASSUME Init
    PROVE  VotesInv
<1>1. OnceInv
    BY OnceInitially
<1>2. /\ node.self = Self /\ node.view = 0 /\ node.chain = <<>> /\ node.list = <<>>
      /\ node.blocks = {} /\ node.pendingVotes = {} /\ node.pendingProposals = {}
      /\ node.precociousProposals = {} /\ node.running = FALSE /\ node.out = {}
      /\ sent = {} /\ signed = {}
    BY DEF Init, InitArbiter
<1>3. Proposed(node, sent) = {} /\ Ballots(node, signed) = {}
    BY <1>2 DEF Proposed, Ballots
<1>4. Height(node) = 0 /\ node.list \in Seq(Blocks)
    BY <1>2 DEF Height
<1>5. Known(node, {})
    BY <1>2, <1>4 DEF Known, Sponsored, Favourable, Waits
<1>6. Cast(node, {}) /\ OnePerView({}) /\ InView(node, {}, {})
    BY <1>2 DEF Cast, OnePerView, InView
<1>7. Voted(node, sent, signed)
    BY <1>3, <1>5, <1>6 DEF Voted
<1> QED
    BY <1>1, <1>2, <1>7 DEF VotesInv

LEMMA VotesNext ==
    ASSUME MaxRestarts = 0, OneHeight, StatusVoters = {}, PeerVotes \subseteq {TRUE},
           VotesInv, [Next]_vars
    PROVE  VotesInv'
<1> DEFINE Good == Voted(node', sent', signed') /\ \A v \in signed' : IsVote(v)
<1>0. /\ OnceInv /\ DutyInv /\ Base(node, sent) /\ Switched(node) /\ Tidy(node)
      /\ Once(node, Own2(node, sent)) /\ Voted(node, sent, signed)
    BY DEF VotesInv, OnceInv, DutyInv, Base
<1>1. ASSUME NEW t, Step(t), Tidy(t), Voted(t, sent, signed) PROVE Good
    <2>1. Voted(node', sent', signed')
        BY <1>1, StepVoted
    <2>2. \A v \in signed' : IsVote(v)
        BY <1>1 DEF VotesInv, Step
    <2> QED
        BY <2>1, <2>2
<1> HIDE DEF Good
<1>2. ASSUME NEW t, Step(t), Fed(node, t), Raises(node, t) PROVE Good
    BY <1>0, <1>1, <1>2, VotedRaises DEF Fed
<1>3. ASSUME Peers # {} PROVE N # 1
    <2>1. PICK p \in Arbiters : p # Self
        BY <1>3 DEF Peers
    <2> QED
        BY <2>1, SelfAssumption DEF Arbiters
<1>4. ASSUME NEW b \in Blocks, BlockArrives(b) PROVE Good
    BY <1>0, <1>2, <1>4, ArrivesFeeds
<1>5. ASSUME NEW b \in Blocks, SyncBlock(b) PROVE Good
    BY <1>0, <1>2, <1>5, SyncFeeds
<1>6. ASSUME NEW c, AppendConfirm(c) PROVE Good
    BY <1>0, <1>2, <1>6, ConfirmFeeds
<1>7. ASSUME NEW i \in DOMAIN node.events, HandleEvent(i) PROVE Good
    <2> DEFINE e == node.events[i]
    <2>1. PICK s, t : /\ Takes(node, i, s) /\ Step(t)
                      /\ \/ /\ e.type = "block"
                            /\ \/ Same(s, t)
                               \/ /\ e.b.h > Height(s) /\ e.b.h > s.finishedHeight
                                  /\ Hears(s, e.b, t) /\ t = ProcessHigherBlock(s, e.b)
                         \/ e.type # "block" /\ Confirms(s, e.b, t)
        BY <1>0, <1>7, EventHandled
    <2>2. /\ Base(s, sent) /\ Height(s) = Height(node) /\ e \in Events
          /\ e.type = "block" => Switched(s)
        BY <1>0, <2>1, BaseTakes
    <2>3. Voted(s, sent, signed) /\ Tidy(s)
        BY <1>0, <2>1, VotedTakes DEF Takes, Fed
    <2>4. CASE e.type = "block" /\ Same(s, t)
        <3>1. Base(t, sent)
            BY <2>2, <2>4, BaseSame
        <3> QED
            BY <1>1, <2>1, <2>3, <2>4, <3>1, VotedSame DEF Base
    <2>5. CASE /\ e.type = "block" /\ e.b.h > Height(s) /\ e.b.h > s.finishedHeight
               /\ Hears(s, e.b, t) /\ t = ProcessHigherBlock(s, e.b)
        <3>1. OrderedEvents => i = 1
            BY <1>7 DEF HandleEvent
        <3>2. ~Awaited(s)
            BY <1>0, <2>1, <2>2, <2>5, <3>1, ConfirmsFirst
        <3>3. Once(s, Own2(s, sent))
            BY <1>0, <2>1, <2>5, OnceTakes
        <3> DEFINE b == e.b
        <3>4. b \in Blocks /\ b.h > Height(s) /\ b.h > s.finishedHeight /\ t = ProcessHigherBlock(s, b)
            BY <2>2, <2>5 DEF Events
        <3>5. Tidy(t)
            BY <2>3, <2>5 DEF Hears, Same, Held, Adds, Works, Opens, Tidy
        <3> HIDE DEF b
        <3>6. Voted(t, sent, signed)
            BY <2>2, <2>3, <2>5, <3>2, <3>3, <3>4, VotedHigher
        <3> QED
            BY <1>1, <2>1, <3>5, <3>6
    <2>6. CASE e.type # "block" /\ Confirms(s, e.b, t)
        <3>1. Steady(s)
            <4>1. Steady(node)
                BY <1>0 DEF Once
            <4> QED
                BY <2>1, <4>1 DEF Takes, Fed, Steady
        <3>2. Voted(t, sent, signed) /\ Tidy(t)
            BY <2>3, <2>6, <3>1, VotedConfirms DEF Confirms
        <3> QED
            BY <1>1, <2>1, <3>2
    <2> QED
        BY <2>1, <2>4, <2>5, <2>6
<1>8. ASSUME NEW p \in Peers, NEW b \in Blocks, NEW v \in 0..MaxView, PeerProposes(p, b, v)
      PROVE  Good
    <2> DEFINE d == [sponsor |-> p, block |-> b, view |-> v]
               W == Proposed(node, sent)
               B == Ballots(node, signed)
    <2>1. /\ node' = node /\ sent' = sent \cup {d} /\ signed' = signed
          /\ p = OnDutyFor(b, v) /\ p # Self /\ p \in Arbiters
        BY <1>8 DEF PeerProposes, Peers
    <2>2. /\ d.sponsor # Self /\ d.sponsor = OnDutyArbiter(0, d.view) /\ d \in Proposals
        BY <2>1 DEF OnDutyFor, OneHeight, Proposals
    <2>3. Known(node, W) /\ Cast(node, B) /\ OnePerView(B) /\ InView(node, W, B)
        BY <1>0 DEF Voted
    <2> HIDE DEF d
    <2>4. Proposed(node, sent \cup {d}) = W \cup {d} /\ Mine(W \cup {d}) = Mine(W)
        BY <2>2 DEF Mine, Proposed
    <2> HIDE DEF W, B
    <2>5. Known(node, W \cup {d}) /\ InView(node, W \cup {d}, B)
        BY <2>2, <2>3, <2>4 DEF Known, Sponsored, InView
    <2>6. Voted(node, sent \cup {d}, signed)
        BY <2>3, <2>4, <2>5 DEF Voted, B
    <2> QED
        BY <2>1, <2>6 DEF Good, VotesInv
<1>9. ASSUME NEW d \in sent, NEW p \in Peers, NEW late \in BOOLEAN, Deliver(d, p, late) PROVE Good
    <2> DEFINE r == IF late THEN ChangeView(node, 1) ELSE node
               a == IF node.onDuty THEN OnDutyProcessProposal(node) ELSE NormalProcessProposal(r, p, d)
               t == CountNotHandled(a, p)
    <2>1. Step(t) /\ (late => node.running /\ ~node.onDuty)
        BY <1>9 DEF Deliver, OnProposalReceived
    <2>2. Voted(a, sent, signed) /\ Tidy(a)
        <3>1. CASE node.onDuty
            <4>1. a = [node EXCEPT !.handled = FALSE]
                BY <3>1 DEF OnDutyProcessProposal
            <4>2. Tidy(a) /\ Same(node, a)
                BY <1>0, <4>1 DEF Tidy, Same, Held, Fields
            <4> HIDE DEF a
            <4> QED
                BY <1>0, <4>2, VotedSame
        <3>2. CASE ~node.onDuty
            <4>1. a = NormalProcessProposal(r, p, d)
                BY <3>2
            <4>2. Voted(r, sent, signed) /\ Tidy(r)
                <5>1. CASE ~late
                    BY <1>0, <5>1
                <5>2. CASE late
                    <6>1. r = ChangeView(node, 1) /\ node.running
                        BY <2>1, <5>2
                    <6> HIDE DEF r
                    <6>2. Changed(node, 1, r) /\ Views(node, 1, r)
                        BY <1>0, <6>1, ChangeViewChanged, ChangeViewViews
                    <6> QED
                        BY <1>0, <6>1, <6>2, VotedChanged DEF Views
                <5> QED
                    BY <5>1, <5>2
            <4> HIDE DEF a, r
            <4> QED
                BY <1>3, <1>9, <4>1, <4>2, VotedProposal
        <3> QED
            BY <3>1, <3>2
    <2> HIDE DEF a
    <2>3. Same(a, t)
        BY <2>2, NotHandledSame
    <2> HIDE DEF t
    <2>4. Tidy(t)
        BY <2>2, <2>3 DEF Same, Held, Tidy
    <2> QED
        BY <1>1, <2>1, <2>2, <2>3, <2>4, VotedSame
<1>10. ASSUME NEW v \in [proposal : sent, signer : Peers, accept : PeerVotes], DeliverVote(v)
       PROVE  Good
    <2>1. PICK t : Step(t) /\ (t = OnVoteAccepted(node, v) \/ t = OnVoteRejected(node, v))
        BY <1>10 DEF DeliverVote
    <2>2. v.accept
        <3>1. v.accept \in PeerVotes
            BY <1>10
        <3> QED
            BY <3>1, Zenon
    <2>3. Voted(t, sent, signed)
        BY <1>0, <2>1, <2>2, VotedPeerVote
    <2>4. Tidy(t)
        BY <1>0, <2>1, VoteWorks DEF Works
    <2> QED
        BY <1>1, <2>1, <2>3, <2>4
<1>11. ASSUME NEW k \in 1..MaxView, Timer(k) PROVE Good
    <2>1. PICK t : Step(t) /\ t = ChangeView(node, k)
        BY <1>11 DEF Timer
    <2>2. node.running /\ k \in Nat /\ k > 0
        BY <1>11 DEF Timer
    <2>3. Changed(node, k, t) /\ Views(node, k, t)
        BY <1>0, <2>1, <2>2, ChangeViewChanged, ChangeViewViews
    <2>4. Voted(t, sent, signed) /\ Tidy(t)
        BY <1>0, <2>2, <2>3, VotedChanged DEF Views
    <2> QED
        BY <1>1, <2>1, <2>4
<1>12. ~Restart /\ ~StartRecovery /\ \A status, k : ~Recover(status, k)
    BY <1>0 DEF OnceInv, Restart, StartRecovery, Recover
<1>13. ASSUME RecoverTimeout PROVE Good
    <2>1. PICK t : Step(t) /\ t = OnRecoverTimeout(node)
        BY <1>13 DEF RecoverTimeout
    <2>2. Same(node, t)
        BY <1>0, <2>1, RecoverySame
    <2>3. Tidy(t)
        BY <1>0, <2>2 DEF Same, Held, Tidy
    <2> QED
        BY <1>0, <1>1, <2>1, <2>2, <2>3, VotedSame
<1>14. ASSUME UNCHANGED vars PROVE Good
    BY <1>0, <1>14 DEF vars, Good, VotesInv
<1>15. Good
    BY <1>4, <1>5, <1>6, <1>7, <1>8, <1>9, <1>10, <1>11, <1>12, <1>13, <1>14 DEF Next
<1>16. OnceInv'
    BY <1>0, OnceNext
<1> QED
    BY <1>15, <1>16 DEF VotesInv, Good

LEMMA VotesAgree ==
    ASSUME VotesInv
    PROVE  VotesOncePerView
<1> SUFFICES ASSUME NEW v \in signed, NEW w \in signed, v.accept, w.accept,
                    SlotOf(v.proposal) = SlotOf(w.proposal)
             PROVE  v.proposal.block = w.proposal.block
    BY DEF VotesOncePerView
<1>1. v \in Ballots(node, signed) /\ w \in Ballots(node, signed)
    BY Zenon DEF VotesInv, Ballots
<1>2. v.proposal.view = w.proposal.view
    BY DEF SlotOf
<1> QED
    BY <1>1, <1>2 DEF VotesInv, Voted, OnePerView

(* An arbiter that does not restart and takes over no status never signs   *)
(* accept votes for two blocks in one view of the height, for every number *)
(* of arbiters and of competing blocks, whatever faulty sponsors propose,  *)
(* in whatever order blocks, proposals and ledger events come and however  *)
(* often the view changes, as long as no peer rejects a proposal           *)
(* (proposalProcessFinished and processingBlock in ProcessProposal).       *)
THEOREM OneVotePerView ==
    ASSUME MaxRestarts = 0, OneHeight, StatusVoters = {}, PeerVotes \subseteq {TRUE}
    PROVE  Spec => []VotesOncePerView
<1>1. Init => VotesInv
    BY VotesInitially
<1>2. VotesInv /\ [Next]_vars => VotesInv'
    BY VotesNext
<1>3. VotesInv => VotesOncePerView
    BY VotesAgree
<1> QED
    BY <1>1, <1>2, <1>3, PTL DEF Spec
=============================================================================
