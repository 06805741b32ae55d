------------------------- MODULE ArbitratorsProofs --------------------------
(***************************************************************************)
(* The arbiters of a node are those its chain gives, whatever the node     *)
(* received, rolled back or restarted; its duty index is within the round; *)
(* the mode of the degradation elects nobody; and rewards are paid once.   *)
(* For every number of producers and seats, every choice of active ones,   *)
(* every capacity of the undo log and every bound of the model.            *)
(*                                                                         *)
(* A forced change makes the fields a function of the fields of the last   *)
(* block, the payloads processed since and nothing else (After), so that   *)
(* payloads may come in any order, from messages or from the block.  The   *)
(* first entry of each height in the log holds the fields that the chain   *)
(* gives for the height below (LogFollows), so that a rollback finds them. *)
(***************************************************************************)
EXTENDS Arbitrators, FiniteSetsExt, FiniteSetTheorems, WellFoundedInduction, TLAPS

-----------------------------------------------------------------------------
(* Loops: induction up to a bound, and that a loop whose steps are total   *)
(* runs to its end.  The models write a loop as a function run with run[i] *)
(* the state after i rounds.                                               *)

(* A non-empty set of naturals has the minimum FiniteSetsExt chooses.      *)
LEMMA MinProperties ==
    ASSUME NEW T \in SUBSET Nat, T # {}
    PROVE  Min(T) \in T /\ \A y \in T : Min(T) <= y
<1>1. PICK x \in T : \A y \in T : ~(<<y, x>> \in OpToRel(<, Nat))
    BY NatLessThanWellFounded, WFMin
<1>2. \A y \in T : x <= y
    <2> SUFFICES ASSUME NEW y \in T PROVE x <= y
        OBVIOUS
    <2>1. ~(y < x)
        BY <1>1 DEF OpToRel
    <2> QED
        BY <2>1
<1> QED
    BY <1>2 DEF Min

(* So has a bounded one its maximum.                                       *)
LEMMA MaxProperties ==
    ASSUME NEW T \in SUBSET Nat, T # {}, NEW m \in Nat, \A y \in T : y <= m
    PROVE  Max(T) \in T /\ \A y \in T : y <= Max(T)
<1> DEFINE U == {x \in Nat : \A y \in T : y <= x}
<1>1. PICK x \in U : \A y \in U : x <= y
    <2>1. U \in SUBSET Nat /\ U # {}
        OBVIOUS
    <2> HIDE DEF U
    <2> QED
        BY <2>1, MinProperties
<1>2. x \in T
    <2> SUFFICES ASSUME x \notin T PROVE FALSE
        OBVIOUS
    <2>1. x # 0
        <3>1. PICK y \in T : y <= x /\ y # x
            BY <1>1
        <3> QED
            BY <3>1
    <2>2. x - 1 \in Nat /\ \A y \in T : y <= x - 1
        BY <1>1, <2>1
    <2> QED
        BY <1>1, <2>2
<1>3. \A y \in T : x >= y
    BY <1>1
<1> QED
    BY <1>2, <1>3 DEF Max

(* The greater of two integers.                                            *)
LEMMA MaxOfTwo ==
    ASSUME NEW a \in Int, NEW b \in Int
    PROVE  Max({a, b}) = IF a >= b THEN a ELSE b
BY DEF Max

(* Induction up to a bound.                                                *)
LEMMA UpTo ==
    ASSUME NEW k \in Nat, NEW T, 0 \in T, \A i \in 1..k : i - 1 \in T => i \in T
    PROVE  \A i \in 0..k : i \in T
<1> DEFINE Out == {i \in 0..k : i \notin T}
<1> SUFFICES ASSUME Out # {} PROVE FALSE
    OBVIOUS
<1>1. Min(Out) \in Out /\ \A y \in Out : Min(Out) <= y
    BY MinProperties
<1>2. PICK m \in 0..k : m = Min(Out) /\ m \notin T /\ \A y \in Out : m <= y
    BY <1>1
<1>3. m \in 1..k /\ m - 1 \in 0..k /\ m - 1 \notin Out
    BY <1>2
<1> QED
    BY <1>2, <1>3

(* A step for each index leads somewhere from every start.                 *)
Path(g, S, k, s, F) ==
    g \in [0..k -> S] /\ g[0] = s /\ \A i \in 1..k : g[i] = F[i][g[i - 1]]

LEMMA Iterate ==
    ASSUME NEW S, NEW k \in Nat, NEW s \in S, NEW F \in [1..k -> [S -> S]]
    PROVE  \E g : Path(g, S, k, s, F)
<1> DEFINE Good(m, g) == g[0] = s /\ \A i \in 1..m : g[i] = F[i][g[i - 1]]
           T == {m \in 0..k : \E g \in [0..m -> S] : Good(m, g)}
<1>1. 0 \in T
    <2> DEFINE f == [i \in 0..0 |-> s]
    <2>1. f \in [0..0 -> S] /\ Good(0, f) /\ 0 \in 0..k
        OBVIOUS
    <2> HIDE DEF f, Good
    <2> QED
        BY <2>1
<1>2. ASSUME NEW m \in 1..k, m - 1 \in T PROVE m \in T
    <2>1. PICK g \in [0..(m - 1) -> S] : Good(m - 1, g)
        BY <1>2
    <2> DEFINE f == [i \in 0..m |-> IF i = m THEN F[m][g[m - 1]] ELSE g[i]]
    <2>2. m - 1 \in 0..(m - 1) /\ g[m - 1] \in S /\ F[m][g[m - 1]] \in S
        OBVIOUS
    <2>3. f \in [0..m -> S]
        BY <2>2
    <2>4. f[0] = s
        BY <2>1
    <2>5. ASSUME NEW i \in 1..m PROVE f[i] = F[i][f[i - 1]]
        <3>1. i - 1 \in 0..(m - 1) /\ f[i - 1] = g[i - 1]
            OBVIOUS
        <3>2. CASE i = m
            BY <3>1, <3>2
        <3>3. CASE i # m
            BY <2>1, <3>1, <3>3
        <3> QED
            BY <3>2, <3>3
    <2> HIDE DEF f
    <2>6. Good(m, f) /\ m \in 0..k
        BY <2>4, <2>5
    <2> HIDE DEF Good
    <2> QED
        BY <2>3, <2>6
<1>3. k \in T
    <2> HIDE DEF T
    <2>1. \A i \in 1..k : i - 1 \in T => i \in T
        BY <1>2
    <2>2. \A i \in 0..k : i \in T
        BY <1>1, <2>1, UpTo, Zenon
    <2> QED
        BY <2>2
<1> QED
    BY <1>3 DEF Path

-----------------------------------------------------------------------------
(* What updateNextArbitrators elects, said without a mode.                 *)
VotedOf(active, temp) == (active \ temp) \cap Voted

Elected(active, temp) ==
    IF Cardinality(VotedOf(active, temp)) < GeneralArbiters THEN CRC
    ELSE CRC \cup Top(VotedOf(active, temp), GeneralArbiters)

Standby(active, temp) ==
    IF Cardinality(VotedOf(active, temp)) < GeneralArbiters THEN {}
    ELSE Top(VotedOf(active, temp), GeneralArbiters + CandidateArbiters)
         \ Top(VotedOf(active, temp), GeneralArbiters)

Sets == SUBSET (CRC \cup Producers)
Nodes ==
    [current : Sets, candidates : Sets, next : Sets, nextCandidates : Sets, duty : Nat,
     gathered : Nat, round : Nat, cleared : Nat, forced : BOOLEAN,
     active : SUBSET Producers, temp : SUBSET Producers, last : Nat,
     paid : Nat, total : Nat, forces : Nat,
     mode : {"normal", "inactive", "understaffed"}, since : Nat, reported : SUBSET Payloads]

(* Two nodes agree on the books, and on all but the degradation.           *)
SameBooks(s, t) ==
    /\ t.gathered = s.gathered /\ t.round = s.round /\ t.cleared = s.cleared
    /\ t.last = s.last /\ t.paid = s.paid /\ t.total = s.total

Same(s, t) ==
    /\ t.current = s.current /\ t.candidates = s.candidates
    /\ t.next = s.next /\ t.nextCandidates = s.nextCandidates
    /\ t.duty = s.duty /\ t.forced = s.forced /\ t.active = s.active
    /\ t.temp = s.temp /\ t.forces = s.forces /\ SameBooks(s, t)

-----------------------------------------------------------------------------
(* Elections.                                                              *)

(* There are no more voted producers than active ones.                     *)
LEMMA VotedFewer ==
    ASSUME NEW S \in SUBSET Producers
    PROVE  /\ Cardinality(S \cap Voted) <= Cardinality(S)
           /\ Cardinality(S \cap Voted) \in Nat /\ Cardinality(S) \in Nat
<1>1. IsFiniteSet(S)
    BY ProducersAssumption, FS_Subset
<1>2. IsFiniteSet(S \cap Voted) /\ Cardinality(S \cap Voted) <= Cardinality(S)
    BY <1>1, FS_Subset
<1> QED
    BY <1>1, <1>2, FS_CardinalityType

LEMMA ElectedTyped ==
    ASSUME NEW A \in SUBSET Producers, NEW B
    PROVE  Elected(A, B) \in Sets /\ CRC \subseteq Elected(A, B) /\ Standby(A, B) \in Sets
<1>1. VotedOf(A, B) \subseteq Producers
    BY DEF VotedOf
<1>2. \A k : Top(VotedOf(A, B), k) \subseteq Producers
    BY <1>1 DEF Top
<1> QED
    BY <1>2 DEF Elected, Standby, Sets

(* A round has more than one arbiter.                                      *)
LEMMA RoundSize ==
    ASSUME NEW S \in Sets, CRC \subseteq S
    PROVE  Cardinality(S) \in Nat /\ Cardinality(S) > 1
<1>1. IsFiniteSet(CRC \cup Producers)
    BY CRCAssumption, ProducersAssumption, FS_Union
<1>2. IsFiniteSet(S)
    BY <1>1, FS_Subset DEF Sets
<1>3. Cardinality(CRC) <= Cardinality(S)
    BY <1>2, FS_Subset
<1> QED
    BY <1>2, <1>3, CRCAssumption, FS_CardinalityType

(* The degradation changes the mode only, and is normal with enough active *)
(* producers.                                                              *)
LEMMA DegradationEffect ==
    ASSUME NEW s \in Nodes, NEW version \in Nat, NEW A \in SUBSET Producers
    PROVE  LET t == Left(Switched(s, version), A)
           IN  /\ t \in Nodes /\ Same(s, t) /\ t.reported = s.reported
               /\ Cardinality(A) >= GeneralArbiters => t.mode = "normal"
<1> DEFINE u == Switched(s, version)
           t == Left(u, A)
<1>1. u \in Nodes /\ Same(s, u) /\ u.reported = s.reported
    BY DEF Switched, Nodes, Same, SameBooks
<1> HIDE DEF u
<1>2. t \in Nodes /\ Same(u, t) /\ t.reported = u.reported
    BY <1>1 DEF Left, Nodes, Same, SameBooks
<1>3. Cardinality(A) >= GeneralArbiters => t.mode = "normal"
    BY <1>1 DEF Left, Nodes
<1>4. Same(s, t)
    <2> HIDE DEF t
    <2> QED
        BY <1>1, <1>2 DEF Same, SameBooks
<1> QED
    BY <1>1, <1>2, <1>3, <1>4 DEF u

(* Two nodes agree on all but the next arbiters and the degradation.       *)
SameRound(s, t) ==
    /\ t.current = s.current /\ t.candidates = s.candidates
    /\ t.duty = s.duty /\ t.forced = s.forced /\ t.active = s.active
    /\ t.temp = s.temp /\ t.forces = s.forces /\ SameBooks(s, t)
    /\ t.reported = s.reported

(* updateNextArbitrators elects the same in every mode.                    *)
LEMMA UpdateEffect ==
    ASSUME NEW s \in Nodes, NEW version \in Nat
    PROVE  LET t == Update(s, version)
           IN  /\ t \in Nodes /\ SameRound(s, t)
               /\ t.next = Elected(s.active, s.temp)
               /\ t.nextCandidates = Standby(s.active, s.temp)
<1> DEFINE A == s.active \ s.temp
           voted == A \cap Voted
           u == Left(Switched(s, version), A)
           crcOnly == [u EXCEPT !.next = CRC, !.nextCandidates = {}]
           full == [u EXCEPT !.next = CRC \cup Top(voted, GeneralArbiters),
                             !.nextCandidates = Top(voted, GeneralArbiters + CandidateArbiters)
                                                \ Top(voted, GeneralArbiters)]
           t == Update(s, version)
<1>1. A \in SUBSET Producers /\ s.active \in SUBSET Producers
    BY DEF Nodes
<1>2. Cardinality(voted) <= Cardinality(A) /\ Cardinality(voted) \in Nat /\ Cardinality(A) \in Nat
    <2> HIDE DEF A
    <2> QED
        BY <1>1, VotedFewer
<1>3. u \in Nodes /\ Same(s, u) /\ u.reported = s.reported
      /\ (Cardinality(A) >= GeneralArbiters => u.mode = "normal")
    <2> HIDE DEF A
    <2> QED
        BY <1>1, DegradationEffect
<1>4. t = IF u.mode # "normal" THEN crcOnly
          ELSE IF Cardinality(voted) < GeneralArbiters THEN Understaffed(crcOnly, version)
          ELSE full
    BY DEF Update
<1>5. /\ Elected(s.active, s.temp) = IF Cardinality(voted) < GeneralArbiters THEN CRC
                                     ELSE CRC \cup Top(voted, GeneralArbiters)
      /\ Standby(s.active, s.temp) = IF Cardinality(voted) < GeneralArbiters THEN {}
             ELSE Top(voted, GeneralArbiters + CandidateArbiters) \ Top(voted, GeneralArbiters)
    BY DEF Elected, Standby, VotedOf
<1>6. Elected(s.active, s.temp) \in Sets /\ Standby(s.active, s.temp) \in Sets
    BY <1>1, ElectedTyped
<1> HIDE DEF u, A, voted, t
<1>7. CASE Cardinality(voted) < GeneralArbiters
    <2>0. CRC \in Sets /\ {} \in Sets
        BY DEF Sets
    <2> DEFINE short == Understaffed(crcOnly, version)
    <2>1. /\ crcOnly \in Nodes /\ SameRound(u, crcOnly)
          /\ crcOnly.next = CRC /\ crcOnly.nextCandidates = {}
        BY <1>3, <2>0 DEF Nodes, SameRound, SameBooks
    <2> HIDE DEF crcOnly
    <2>2. /\ short \in Nodes /\ SameRound(crcOnly, short)
          /\ short.next = crcOnly.next /\ short.nextCandidates = crcOnly.nextCandidates
        BY <2>1 DEF Understaffed, Nodes, SameRound, SameBooks
    <2> HIDE DEF short
    <2>3. t = crcOnly \/ t = short
        BY <1>4, <1>7 DEF short
    <2>4. SameRound(s, crcOnly) /\ SameRound(s, short)
        BY <1>3, <2>1, <2>2 DEF SameRound, SameBooks, Same
    <2> QED
        BY <1>5, <1>7, <2>1, <2>2, <2>3, <2>4 DEF t
<1>8. CASE ~(Cardinality(voted) < GeneralArbiters)
    <2>1. Cardinality(A) >= GeneralArbiters
        BY <1>2, <1>8, ProducersAssumption
    <2>2. t = full
        BY <1>3, <1>4, <1>8, <2>1
    <2>3. /\ full.next = Elected(s.active, s.temp)
          /\ full.nextCandidates = Standby(s.active, s.temp)
          /\ SameRound(u, full)
        BY <1>3, <1>5, <1>8 DEF Nodes, SameRound, SameBooks
    <2>4. full \in Nodes
        BY <1>3, <1>5, <1>6, <1>8 DEF Nodes
    <2>5. SameRound(s, full)
        <3> HIDE DEF full
        <3> QED
            BY <1>3, <2>3 DEF SameRound, SameBooks, Same
    <2> QED
        BY <2>2, <2>3, <2>4, <2>5 DEF t
<1> QED
    BY <1>7, <1>8

-----------------------------------------------------------------------------
(* Forced changes.                                                         *)

(* A node's arbiters hold the CRC, and its duty index is within the round. *)
NodeOK(s) ==
    /\ s \in Nodes /\ CRC \subseteq s.current /\ CRC \subseteq s.next
    /\ s.duty < Cardinality(s.current)

(* What of s decides t after k forced changes at height h that name E.     *)
Changed(s, t, E, k, h) ==
    /\ t.temp = s.temp \cup E
    /\ t.next = Elected(s.active, t.temp) /\ t.current = t.next
    /\ t.nextCandidates = Standby(s.active, t.temp) /\ t.candidates = t.nextCandidates
    /\ t.duty = 0 /\ t.forced = TRUE /\ t.cleared = h
    /\ t.round = (IF s.cleared = h THEN s.round ELSE s.gathered)
    /\ t.gathered = (IF s.cleared = h THEN s.gathered ELSE s.last)
    /\ t.active = s.active /\ t.last = s.last /\ t.paid = s.paid /\ t.total = s.total
    /\ t.forces = s.forces + k

LEMMA ProcessEffect ==
    ASSUME NEW s \in Nodes, NEW p \in Payloads, NEW h \in Nat
    PROVE  LET t == Process(s, p, h)
           IN  NodeOK(t) /\ Changed(s, t, Names[p], 1, h) /\ t.reported = s.reported \cup {p}
<1> DEFINE a == [s EXCEPT !.reported = @ \cup {p}, !.temp = @ \cup Names[p]]
           c == Clear(a, h, a.last, FALSE)
           u == Update(c, h + 1)
           w == ChangeCurrent(u)
           t == [w EXCEPT !.forced = TRUE, !.forces = @ + 1]
<1>0. Process(s, p, h) = t
    BY DEF Process, ForceChange
<1>1. /\ a \in Nodes /\ a.temp = s.temp \cup Names[p] /\ a.reported = s.reported \cup {p}
      /\ a.active = s.active /\ a.forces = s.forces /\ SameBooks(s, a)
    BY PayloadsAssumption DEF Nodes, SameBooks
<1> HIDE DEF a
<1>2. /\ c \in Nodes /\ c.temp = a.temp /\ c.reported = a.reported
      /\ c.active = a.active /\ c.forces = a.forces
      /\ c.last = a.last /\ c.paid = a.paid /\ c.total = a.total /\ c.cleared = h
      /\ c.round = (IF a.cleared = h THEN a.round ELSE a.gathered)
      /\ c.gathered = (IF a.cleared = h THEN a.gathered ELSE a.last)
    <2>1. CASE a.cleared = h
        BY <1>1, <2>1 DEF Clear
    <2>2. CASE a.cleared # h
        <3>1. a.gathered + 0 = a.gathered /\ a.gathered \in Nat /\ a.last \in Nat
            BY <1>1 DEF Nodes
        <3>2. c = [a EXCEPT !.round = a.gathered, !.gathered = a.last, !.cleared = h]
            BY <2>2, <3>1 DEF Clear
        <3> QED
            BY <1>1, <2>2, <3>1, <3>2, ZenonT(40) DEF Nodes
    <2> QED
        BY <2>1, <2>2
<1> HIDE DEF c
<1>3. /\ u \in Nodes /\ SameRound(c, u)
      /\ u.next = Elected(c.active, c.temp) /\ u.nextCandidates = Standby(c.active, c.temp)
    BY <1>2, UpdateEffect
<1> HIDE DEF u
<1>4. /\ w \in Nodes /\ w.current = u.next /\ w.candidates = u.nextCandidates
      /\ w.next = u.next /\ w.nextCandidates = u.nextCandidates /\ w.duty = 0
      /\ w.temp = u.temp /\ w.active = u.active /\ w.forces = u.forces
      /\ w.reported = u.reported /\ SameBooks(u, w)
    BY <1>3 DEF ChangeCurrent, Nodes, SameBooks
<1> HIDE DEF w
<1>5. /\ t \in Nodes /\ t.forced = TRUE /\ t.forces = w.forces + 1
      /\ t.current = w.current /\ t.candidates = w.candidates /\ t.next = w.next
      /\ t.nextCandidates = w.nextCandidates /\ t.duty = w.duty
      /\ t.temp = w.temp /\ t.active = w.active /\ t.reported = w.reported /\ SameBooks(w, t)
    <2>1. PICK k \in Nat : k = w.forces + 1
        BY <1>4 DEF Nodes
    <2>2. t = [w EXCEPT !.forced = TRUE, !.forces = k]
        BY <2>1
    <2> QED
        BY <1>4, <2>1, <2>2 DEF Nodes, SameBooks
<1> HIDE DEF t
<1>6. t.temp = s.temp \cup Names[p] /\ t.active = s.active /\ t.reported = s.reported \cup {p}
      /\ c.active = s.active /\ c.temp = t.temp /\ t.forces = s.forces + 1
    BY <1>1, <1>2, <1>3, <1>4, <1>5 DEF SameRound
<1>7. /\ t.next = Elected(s.active, t.temp) /\ t.current = t.next
      /\ t.nextCandidates = Standby(s.active, t.temp) /\ t.candidates = t.nextCandidates
      /\ t.duty = 0
    BY <1>3, <1>4, <1>5, <1>6
<1>8. /\ t.cleared = h
      /\ t.round = (IF s.cleared = h THEN s.round ELSE s.gathered)
      /\ t.gathered = (IF s.cleared = h THEN s.gathered ELSE s.last)
      /\ t.last = s.last /\ t.paid = s.paid /\ t.total = s.total
    BY <1>1, <1>2, <1>3, <1>4, <1>5 DEF SameRound, SameBooks
<1>9. Changed(s, t, Names[p], 1, h)
    BY <1>5, <1>6, <1>7, <1>8 DEF Changed
<1>10. CRC \subseteq t.next /\ t.next \in Sets
    BY <1>5, <1>7, ElectedTyped DEF Nodes
<1>11. NodeOK(t)
    BY <1>5, <1>7, <1>10, RoundSize DEF NodeOK
<1> QED
    BY <1>0, <1>6, <1>9, <1>11

(* After the payloads of Q, whatever the order.                            *)
NamesOf(Q) == UNION {Names[p] : p \in Q}
After(s, t, Q, h) ==
    IF Q = {} THEN Same(s, t) ELSE Changed(s, t, NamesOf(Q), Cardinality(Q), h)

LEMMA AfterProcess ==
    ASSUME NEW s \in Nodes, NEW t \in Nodes, NEW Q \in SUBSET Payloads, NEW h \in Nat,
           NEW p \in Payloads, p \notin Q, After(s, t, Q, h)
    PROVE  After(s, Process(t, p, h), Q \cup {p}, h)
<1> DEFINE u == Process(t, p, h)
<1>1. Changed(t, u, Names[p], 1, h)
    BY ProcessEffect
<1> HIDE DEF u
<1>2. IsFiniteSet(Q) /\ Cardinality(Q) \in Nat
    BY PayloadsAssumption, FS_Subset, FS_CardinalityType
<1>3. Cardinality(Q \cup {p}) = Cardinality(Q) + 1
    BY <1>2, FS_AddElement
<1>4. NamesOf(Q \cup {p}) = NamesOf(Q) \cup Names[p]
    BY DEF NamesOf
<1>5. s.forces \in Nat
    BY DEF Nodes
<1>6. Changed(s, u, NamesOf(Q \cup {p}), Cardinality(Q \cup {p}), h)
    <2>1. CASE Q = {}
        <3>1. Same(s, t)
            BY <2>1 DEF After
        <3>2. NamesOf(Q \cup {p}) = Names[p] /\ Cardinality(Q \cup {p}) = 1
            BY <1>3, <1>4, <2>1, FS_EmptySet DEF NamesOf
        <3> QED
            BY <1>1, <3>1, <3>2 DEF Changed, Same, SameBooks
    <2>2. CASE Q # {}
        <3>1. Changed(s, t, NamesOf(Q), Cardinality(Q), h)
            BY <2>2 DEF After
        <3>2. t.temp \cup Names[p] = s.temp \cup NamesOf(Q \cup {p})
            BY <1>4, <3>1 DEF Changed
        <3>3. u.forces = s.forces + Cardinality(Q \cup {p})
            BY <1>1, <1>2, <1>3, <1>5, <3>1 DEF Changed
        <3>4. t.cleared = h /\ t.active = s.active
            BY <3>1 DEF Changed
        <3> QED
            BY <1>1, <3>1, <3>2, <3>3, <3>4 DEF Changed
    <2> QED
        BY <2>1, <2>2
<1>7. Q \cup {p} # {}
    OBVIOUS
<1> QED
    BY <1>6, <1>7 DEF After, u

(* What the last block and the payloads since give is unique.              *)
LEMMA AfterUnique ==
    ASSUME NEW s, NEW t, NEW u, NEW Q, NEW h, After(s, t, Q, h), After(s, u, Q, h)
    PROVE  Same(t, u)
<1>1. CASE Q = {}
    BY <1>1 DEF After, Same, SameBooks
<1>2. CASE Q # {}
    BY <1>2 DEF After, Changed, Same, SameBooks
<1> QED
    BY <1>1, <1>2

-----------------------------------------------------------------------------
(* Blocks.                                                                 *)

(* What of s decides t after block b of height h.                          *)
TurnOver(s, t, b, h) ==
    /\ t.current = s.next /\ t.candidates = s.nextCandidates
    /\ t.next = Elected(b.active, {}) /\ t.nextCandidates = Standby(b.active, {})
    /\ t.duty = 0 /\ t.forced = s.forced /\ t.cleared = h
    /\ t.round = (IF s.cleared = h THEN s.round ELSE s.gathered + b.reward)
    /\ t.gathered = (IF s.cleared = h THEN s.gathered ELSE 0)

GoOn(s, t, b) ==
    /\ t.current = s.current /\ t.candidates = s.candidates
    /\ t.next = s.next /\ t.nextCandidates = s.nextCandidates
    /\ t.duty = s.duty + 1 /\ t.forced = FALSE /\ t.cleared = s.cleared
    /\ t.round = 0
    /\ t.gathered = s.gathered + (IF s.forced THEN 0 ELSE b.reward)

LastOnDuty(s) == s.duty = Cardinality(s.current) - 1

Grown(s, t, b, h) ==
    /\ t.active = b.active /\ t.temp = {} /\ t.last = b.reward /\ t.forces = s.forces
    /\ t.paid = s.paid + s.round /\ t.total = s.total + b.reward
    /\ IF LastOnDuty(s) THEN TurnOver(s, t, b, h) ELSE GoOn(s, t, b)

LEMMA IncreaseEffect ==
    ASSUME NEW s, NodeOK(s), NEW b, b.active \in SUBSET Producers, b.reward \in Nat, NEW h \in Nat
    PROVE  LET t == Increase(s, b, h)
           IN  NodeOK(t) /\ Grown(s, t, b, h) /\ t.reported = s.reported
<1> DEFINE a == [s EXCEPT !.temp = {}, !.active = b.active, !.last = b.reward,
                          !.paid = @ + s.round, !.total = @ + b.reward]
<1>1. /\ a \in Nodes /\ a.temp = {} /\ a.active = b.active /\ a.last = b.reward
      /\ a.paid = s.paid + s.round /\ a.total = s.total + b.reward
      /\ a.current = s.current /\ a.candidates = s.candidates
      /\ a.next = s.next /\ a.nextCandidates = s.nextCandidates
      /\ a.duty = s.duty /\ a.forced = s.forced /\ a.forces = s.forces
      /\ a.gathered = s.gathered /\ a.round = s.round /\ a.cleared = s.cleared
      /\ a.reported = s.reported
    <2>1. PICK x \in Nat, y \in Nat : x = s.paid + s.round /\ y = s.total + b.reward
        BY DEF NodeOK, Nodes
    <2>2. a = [s EXCEPT !.temp = {}, !.active = b.active, !.last = b.reward,
                        !.paid = x, !.total = y]
        BY <2>1
    <2> HIDE DEF a
    <2> QED
        BY <2>1, <2>2 DEF NodeOK, Nodes
<1>2. CASE LastOnDuty(s)
    <2> DEFINE c == Clear(a, h, b.reward, TRUE)
               w == ChangeCurrent(c)
               t == Update(w, h + 1)
    <2>0. Increase(s, b, h) = t
        BY <1>2 DEF Increase, LastOnDuty
    <2> HIDE DEF a
    <2>1. /\ c \in Nodes /\ c.temp = a.temp /\ c.active = a.active /\ c.last = a.last
          /\ c.paid = a.paid /\ c.total = a.total /\ c.forces = a.forces
          /\ c.next = a.next /\ c.nextCandidates = a.nextCandidates
          /\ c.forced = a.forced /\ c.reported = a.reported /\ c.cleared = h
          /\ c.round = (IF a.cleared = h THEN a.round ELSE a.gathered + b.reward)
          /\ c.gathered = (IF a.cleared = h THEN a.gathered ELSE 0)
        <3>1. CASE a.cleared = h
            BY <1>1, <3>1 DEF Clear
        <3>2. CASE a.cleared # h
            <4>1. PICK x \in Nat : x = a.gathered + b.reward
                BY <1>1 DEF Nodes
            <4>2. c = [a EXCEPT !.round = x, !.gathered = 0, !.cleared = h]
                BY <3>2, <4>1 DEF Clear
            <4> HIDE DEF c
            <4> QED
                BY <1>1, <3>2, <4>1, <4>2 DEF Nodes
        <3> QED
            BY <3>1, <3>2
    <2> HIDE DEF c
    <2>2. /\ w \in Nodes /\ w.current = c.next /\ w.candidates = c.nextCandidates /\ w.duty = 0
          /\ w.temp = c.temp /\ w.active = c.active /\ w.forces = c.forces
          /\ w.forced = c.forced /\ w.reported = c.reported /\ SameBooks(c, w)
        BY <2>1 DEF ChangeCurrent, Nodes, SameBooks
    <2> HIDE DEF w
    <2>3. /\ t \in Nodes /\ SameRound(w, t)
          /\ t.next = Elected(w.active, w.temp) /\ t.nextCandidates = Standby(w.active, w.temp)
        BY <2>2, UpdateEffect
    <2> HIDE DEF t
    <2>4. /\ t.active = b.active /\ t.temp = {} /\ t.last = b.reward /\ t.forces = s.forces
          /\ t.paid = s.paid + s.round /\ t.total = s.total + b.reward /\ t.reported = s.reported
        BY <1>1, <2>1, <2>2, <2>3 DEF SameRound, SameBooks
    <2>5. /\ t.current = s.next /\ t.candidates = s.nextCandidates
          /\ t.next = Elected(b.active, {}) /\ t.nextCandidates = Standby(b.active, {})
          /\ t.duty = 0 /\ t.forced = s.forced /\ t.cleared = h
        BY <1>1, <2>1, <2>2, <2>3 DEF SameRound, SameBooks
    <2>6. /\ t.round = (IF s.cleared = h THEN s.round ELSE s.gathered + b.reward)
          /\ t.gathered = (IF s.cleared = h THEN s.gathered ELSE 0)
        BY <1>1, <2>1, <2>2, <2>3 DEF SameRound, SameBooks
    <2>7. Grown(s, t, b, h)
        BY <1>2, <2>4, <2>5, <2>6 DEF Grown, TurnOver
    <2>8. CRC \subseteq t.current /\ CRC \subseteq t.next /\ t.current \in Sets
        BY <2>3, <2>5, ElectedTyped DEF NodeOK, Nodes
    <2>9. NodeOK(t)
        BY <2>3, <2>5, <2>8, RoundSize DEF NodeOK
    <2> QED
        BY <2>0, <2>4, <2>7, <2>9
<1>3. CASE ~LastOnDuty(s)
    <2> DEFINE t == Accumulate(a, b.reward)
    <2>0. Increase(s, b, h) = t
        BY <1>3 DEF Increase, LastOnDuty
    <2> HIDE DEF a
    <2>1. /\ t \in Nodes /\ t.temp = a.temp /\ t.active = a.active /\ t.last = a.last
          /\ t.paid = a.paid /\ t.total = a.total /\ t.forces = a.forces
          /\ t.current = a.current /\ t.candidates = a.candidates
          /\ t.next = a.next /\ t.nextCandidates = a.nextCandidates
          /\ t.reported = a.reported /\ t.cleared = a.cleared
          /\ t.duty = a.duty + 1 /\ t.forced = FALSE /\ t.round = 0
          /\ t.gathered = a.gathered + (IF a.forced THEN 0 ELSE b.reward)
        <3>1. PICK x \in Nat, y \in Nat : /\ x = a.gathered + (IF a.forced THEN 0 ELSE b.reward)
                                          /\ y = a.duty + 1
            BY <1>1 DEF Nodes
        <3>2. t = [a EXCEPT !.gathered = x, !.round = 0, !.forced = FALSE, !.duty = y]
            BY <3>1 DEF Accumulate
        <3> HIDE DEF t
        <3> QED
            BY <1>1, <3>1, <3>2 DEF Nodes
    <2> HIDE DEF t
    <2>2. Grown(s, t, b, h)
        BY <1>1, <1>3, <2>1 DEF Grown, GoOn
    <2>3. t.duty < Cardinality(t.current)
        <3>1. Cardinality(s.current) \in Nat /\ s.duty \in Nat /\ s.duty < Cardinality(s.current)
            BY RoundSize DEF NodeOK, Nodes
        <3>2. s.duty # Cardinality(s.current) - 1
            BY <1>3 DEF LastOnDuty
        <3>3. s.duty + 1 < Cardinality(s.current)
            BY <3>1, <3>2
        <3> QED
            BY <1>1, <2>1, <3>3
    <2>4. NodeOK(t)
        BY <1>1, <2>1, <2>3 DEF NodeOK
    <2> QED
        BY <1>1, <2>0, <2>1, <2>2, <2>4
<1> QED
    BY <1>2, <1>3

(* Nodes that agree on all but the degradation agree after a block.        *)
LEMMA GrownUnique ==
    ASSUME NEW s, NEW t, Same(s, t), NEW b, NEW h,
           NEW u, NEW w, Grown(s, u, b, h), Grown(t, w, b, h)
    PROVE  Same(u, w)
<1>1. LastOnDuty(s) = LastOnDuty(t)
    BY DEF Same, LastOnDuty
<1>2. CASE LastOnDuty(s)
    BY <1>1, <1>2 DEF Grown, TurnOver, Same, SameBooks
<1>3. CASE ~LastOnDuty(s)
    BY <1>1, <1>3 DEF Grown, GoOn, Same, SameBooks
<1> QED
    BY <1>2, <1>3

-----------------------------------------------------------------------------
(* Rewards.                                                                *)
Least == Min(Rewards)
Most == Max(Rewards)
Within(d, k) == d \in -(k * Most) .. k * (Most - Least)

LEMMA RewardBounds ==
    /\ Least \in Nat /\ Most \in Nat /\ Least <= Most
    /\ \A r \in Rewards : r \in Nat /\ Least <= r /\ r <= Most
<1>1. Rewards \in SUBSET Nat /\ Rewards # {}
    BY RewardsAssumption
<1>2. Least \in Rewards /\ \A r \in Rewards : Least <= r
    BY <1>1, MinProperties DEF Least
<1>3. PICK m \in Rewards : \A r \in Rewards : m >= r
    BY RewardsAssumption
<1>4. Most \in Rewards /\ \A r \in Rewards : Most >= r
    BY <1>3 DEF Most, Max
<1> QED
    BY <1>1, <1>2, <1>4

(* Forced changes make room for one misplaced share.                       *)
LEMMA WithinMore ==
    ASSUME NEW d \in Int, NEW k \in Nat, Within(d, k), NEW j \in Nat \ {0},
           NEW e \in Int, -Most <= e, e <= Most - Least
    PROVE  Within(d + e, k + j)
<1>1. PICK M \in Nat, D \in Nat : M = Most /\ D = Most - Least
    BY RewardBounds
<1>2. -(k * M) <= d /\ d <= k * D
    BY <1>1 DEF Within
<1>3. (k + j) * M = k * M + j * M /\ (k + j) * D = k * D + j * D
    OBVIOUS
<1>4. j * M >= M /\ j * D >= D
    <2>1. PICK i \in Nat : j = i + 1
        <3>1. j - 1 \in Nat /\ j = (j - 1) + 1
            OBVIOUS
        <3> QED
            BY <3>1
    <2>2. j * M = i * M + M /\ j * D = i * D + D /\ i * M \in Nat /\ i * D \in Nat
        BY <2>1
    <2> QED
        BY <2>2
<1>5. -M <= e /\ e <= D
    BY <1>1
<1>6. k * M \in Nat /\ k * D \in Nat /\ j * M \in Nat /\ j * D \in Nat
    OBVIOUS
<1>7. -((k + j) * M) <= d + e /\ d + e <= (k + j) * D
    <2> DEFINE kM == k * M
               kD == k * D
               jM == j * M
               jD == j * D
    <2>1. kM \in Nat /\ kD \in Nat /\ jM \in Nat /\ jD \in Nat /\ jM >= M /\ jD >= D
          /\ -kM <= d /\ d <= kD
        BY <1>2, <1>4, <1>6
    <2>2. (k + j) * M = kM + jM /\ (k + j) * D = kD + jD
        BY <1>3
    <2> HIDE DEF kM, kD, jM, jD
    <2>3. -(kM + jM) <= d + e /\ d + e <= kD + jD
        BY <1>5, <2>1
    <2> QED
        BY <2>2, <2>3
<1>8. -((k + j) * M) \in Int /\ (k + j) * D \in Int
    OBVIOUS
<1> QED
    BY <1>1, <1>7, <1>8 DEF Within

(* More is paid or kept than the blocks brought by this much.              *)
Drift(s) == (s.paid + s.round + s.gathered) - s.total

(* Between blocks: what the chain gives at height h.                       *)
Between(s, h) ==
    /\ NodeOK(s) /\ s.temp = {} /\ s.forced = FALSE
    /\ s.cleared <= h /\ (s.round # 0 => s.cleared = h)
    /\ (s.last \in Rewards \/ (s.last = 0 /\ s.cleared = h))
    /\ Within(Drift(s), s.forces)

LEMMA DriftTyped ==
    ASSUME NEW s \in Nodes
    PROVE  /\ Drift(s) \in Int /\ s.forces \in Nat /\ s.gathered \in Nat /\ s.round \in Nat
           /\ s.paid \in Nat /\ s.total \in Nat /\ s.last \in Nat /\ s.cleared \in Nat
    BY DEF Drift, Nodes

(* A forced change between two blocks: the round that ended is due, and    *)
(* the share of the last block stands for that of the next.                *)
LEMMA ForcedDrift ==
    ASSUME NEW h \in Nat, NEW s, Between(s, h), NEW t, t \in Nodes, NEW E, NEW j \in Nat \ {0},
           Changed(s, t, E, j, h)
    PROVE  /\ t.forces = s.forces + j /\ Drift(t) - t.last \in Int
           /\ \E e \in Int : /\ -Most <= e /\ e <= 0 /\ Drift(t) - t.last = Drift(s) + e
                             /\ (e # 0 => e = -s.last /\ s.cleared = h)
<1>1. /\ s.forces \in Nat /\ s.gathered \in Nat /\ s.round \in Nat
      /\ s.paid \in Nat /\ s.total \in Nat /\ s.last \in Nat /\ s.cleared \in Nat
    BY DriftTyped DEF Between, NodeOK
<1>2. s.last <= Most /\ Most \in Nat
    BY <1>1, RewardBounds DEF Between
<1>3. t.forces = s.forces + j /\ t.last = s.last /\ t.paid = s.paid /\ t.total = s.total
    BY DEF Changed
<1>4. CASE s.cleared = h
    <2>1. t.round = s.round /\ t.gathered = s.gathered
        BY <1>4 DEF Changed
    <2>2. Drift(t) - t.last = Drift(s) + (-s.last)
        BY <1>1, <1>3, <2>1 DEF Drift
    <2>3. -Most <= -s.last /\ -s.last <= 0 /\ -s.last \in Int /\ Drift(t) - t.last \in Int
        BY <1>1, <1>2, <1>3, <2>1 DEF Drift
    <2> QED
        BY <1>3, <1>4, <2>2, <2>3
<1>5. CASE s.cleared # h
    <2>1. t.round = s.gathered /\ t.gathered = s.last /\ s.round = 0
        BY <1>5 DEF Changed, Between
    <2>2. Drift(t) - t.last = Drift(s) + 0 /\ Drift(t) - t.last \in Int
        BY <1>1, <1>3, <2>1 DEF Drift
    <2>3. -Most <= 0 /\ 0 <= 0 /\ 0 \in Int
        BY <1>2
    <2> QED
        BY <1>3, <2>2, <2>3
<1> QED
    BY <1>4, <1>5

LEMMA CardinalityPositive ==
    ASSUME NEW Q \in SUBSET Payloads, Q # {}
    PROVE  Cardinality(Q) \in Nat \ {0}
<1>1. IsFiniteSet(Q)
    BY PayloadsAssumption, FS_Subset
<1> QED
    BY <1>1, FS_CardinalityType, FS_EmptySet

(* What RewardsConserved says of a node.                                   *)
LEMMA Books ==
    ASSUME NEW h \in Nat, NEW s, Between(s, h), NEW t, t \in Nodes, NEW Q \in SUBSET Payloads,
           After(s, t, Q, h)
    PROVE  Within(Drift(t) - (IF t.forced THEN t.last ELSE 0), t.forces)
<1>1. Drift(s) \in Int /\ s.forces \in Nat /\ Within(Drift(s), s.forces)
    BY DriftTyped DEF Between, NodeOK
<1>2. CASE Q = {}
    <2>1. Same(s, t) /\ s.forced = FALSE
        BY <1>2 DEF After, Between
    <2>2. Drift(t) = Drift(s) /\ t.forces = s.forces /\ t.forced = FALSE
        BY <2>1 DEF Drift, Same, SameBooks
    <2>3. Drift(s) - 0 = Drift(s)
        BY <1>1
    <2> QED
        BY <1>1, <2>2, <2>3
<1>3. CASE Q # {}
    <2> DEFINE j == Cardinality(Q)
    <2>1. j \in Nat \ {0} /\ Changed(s, t, NamesOf(Q), j, h)
        BY <1>3, CardinalityPositive DEF After
    <2> HIDE DEF j
    <2>2. t.forces = s.forces + j /\ t.forced = TRUE
        BY <2>1 DEF Changed
    <2>3. PICK e \in Int : -Most <= e /\ e <= 0 /\ Drift(t) - t.last = Drift(s) + e
        BY <2>1, ForcedDrift
    <2>4. e <= Most - Least
        BY <2>3, RewardBounds
    <2>5. Within(Drift(s) + e, s.forces + j)
        BY <1>1, <2>1, <2>3, <2>4, WithinMore
    <2> QED
        BY <2>2, <2>3, <2>5
<1> QED
    BY <1>2, <1>3

(* A block, after the payloads since the last one.                         *)
LEMMA BetweenGrows ==
    ASSUME NEW h \in Nat, NEW s, Between(s, h), NEW t, NodeOK(t), NEW Q \in SUBSET Payloads,
           After(s, t, Q, h),
           NEW b, b.active \in SUBSET Producers, b.reward \in Rewards
    PROVE  Between(Increase(t, b, h + 1), h + 1)
<1> DEFINE u == Increase(t, b, h + 1)
<1>1. b.reward \in Nat /\ Least <= b.reward /\ b.reward <= Most /\ Least \in Nat /\ Most \in Nat
    BY RewardBounds
<1>2. NodeOK(u) /\ Grown(t, u, b, h + 1)
    BY <1>1, IncreaseEffect
<1> HIDE DEF u
<1>3. Drift(s) \in Int /\ s.forces \in Nat /\ s.gathered \in Nat /\ s.round \in Nat
      /\ s.paid \in Nat /\ s.total \in Nat /\ s.last \in Nat /\ s.cleared \in Nat
      /\ Within(Drift(s), s.forces)
    BY DriftTyped DEF Between, NodeOK
<1>4. Drift(t) \in Int /\ t.gathered \in Nat /\ t.round \in Nat
      /\ t.paid \in Nat /\ t.total \in Nat /\ t.last \in Nat /\ t.cleared \in Nat
    BY DriftTyped DEF NodeOK
<1>5. u.temp = {} /\ u.last \in Rewards /\ u.forces = t.forces
      /\ u.paid = t.paid + t.round /\ u.total = t.total + b.reward
    BY <1>2 DEF Grown
<1>6. /\ u.forced = FALSE /\ u.cleared <= h + 1 /\ (u.round # 0 => u.cleared = h + 1)
      /\ Within(Drift(u), u.forces)
    <2>1. CASE Q = {}
        <3>1. Same(s, t) /\ s.forced = FALSE /\ s.cleared <= h
            BY <2>1 DEF After, Between
        <3>2. t.forced = FALSE /\ t.cleared = s.cleared /\ t.forces = s.forces /\ Drift(t) = Drift(s)
            BY <3>1 DEF Same, SameBooks, Drift
        <3>3. t.cleared # h + 1 /\ t.cleared <= h + 1
            BY <1>4, <3>1, <3>2
        <3>4. CASE LastOnDuty(t)
            <4>1. u.round = t.gathered + b.reward /\ u.gathered = 0 /\ u.cleared = h + 1 /\ u.forced = FALSE
                BY <1>2, <3>2, <3>3, <3>4 DEF Grown, TurnOver
            <4>2. Drift(u) = Drift(t)
                BY <1>1, <1>4, <1>5, <4>1 DEF Drift
            <4> QED
                BY <1>3, <1>5, <3>2, <4>1, <4>2
        <3>5. CASE ~LastOnDuty(t)
            <4>1. u.round = 0 /\ u.gathered = t.gathered + b.reward /\ u.cleared = t.cleared /\ u.forced = FALSE
                BY <1>2, <3>2, <3>5 DEF Grown, GoOn
            <4>2. Drift(u) = Drift(t)
                BY <1>1, <1>4, <1>5, <4>1 DEF Drift
            <4> QED
                BY <1>3, <1>5, <3>2, <3>3, <4>1, <4>2
        <3> QED
            BY <3>4, <3>5
    <2>2. CASE Q # {}
        <3> DEFINE j == Cardinality(Q)
        <3>1. j \in Nat \ {0} /\ Changed(s, t, NamesOf(Q), j, h)
            BY <2>2, CardinalityPositive DEF After
        <3> HIDE DEF j
        <3>2. t.forces = s.forces + j /\ t.forced = TRUE /\ t.duty = 0 /\ t.cleared = h /\ t.last = s.last
            BY <3>1 DEF Changed
        <3>3. ~LastOnDuty(t)
            <4>1. Cardinality(t.current) \in Nat /\ Cardinality(t.current) > 1
                BY RoundSize DEF NodeOK, Nodes
            <4> QED
                BY <3>2, <4>1 DEF LastOnDuty
        <3>4. u.round = 0 /\ u.gathered = t.gathered + 0 /\ u.cleared = t.cleared /\ u.forced = FALSE
            BY <1>2, <3>2, <3>3 DEF Grown, GoOn
        <3>5. Drift(u) = Drift(t) - b.reward
            BY <1>1, <1>4, <1>5, <3>4 DEF Drift
        <3>6. PICK e \in Int : /\ -Most <= e /\ e <= 0 /\ Drift(t) - t.last = Drift(s) + e
                               /\ (e # 0 => e = -s.last /\ s.cleared = h)
            BY <3>1, ForcedDrift DEF NodeOK
        <3>7. PICK f \in Int : f = e + s.last - b.reward
            BY <1>1, <1>3
        <3>8. s.last <= Most
            BY <1>1, RewardBounds DEF Between
        <3>9. -Most <= f /\ f <= Most - Least
            BY <1>1, <1>3, <3>6, <3>7, <3>8
        <3>10. Within(Drift(s) + f, s.forces + j)
            BY <1>3, <3>1, <3>9, WithinMore
        <3>11. Drift(u) = Drift(s) + f
            BY <1>1, <1>3, <1>4, <3>2, <3>5, <3>6, <3>7
        <3>12. h <= h + 1
            OBVIOUS
        <3> QED
            BY <1>5, <3>2, <3>4, <3>10, <3>11, <3>12
    <2> QED
        BY <2>1, <2>2
<1> QED
    BY <1>2, <1>5, <1>6 DEF Between, u

-----------------------------------------------------------------------------
(* Several payloads in turn.                                               *)
OKNodes == {s \in Nodes : NodeOK(s)}
Entries == [fields : OKNodes, height : Nat]
Pairs == OKNodes \X Seq(Entries)

Taken(x, p, h) ==
    IF p \in x[1].reported THEN x
    ELSE <<Process(x[1], p, h), Append(x[2], Entry(x[1], h + 1))>>

Forces(run, s, l, ps, h) ==
    /\ run \in [0..Len(ps) -> Pairs] /\ run[0] = <<s, l>>
    /\ \A i \in 1..Len(ps) : run[i] = Taken(run[i - 1], ps[i], h)

LEMMA TakenTyped ==
    ASSUME NEW x \in Pairs, NEW p \in Payloads, NEW h \in Nat
    PROVE  Taken(x, p, h) \in Pairs
<1>1. PICK s \in OKNodes, l \in Seq(Entries) : x = <<s, l>>
    BY DEF Pairs
<1>2. Process(s, p, h) \in OKNodes
    BY ProcessEffect DEF OKNodes, NodeOK
<1>3. Entry(s, h + 1) \in Entries
    BY DEF Entry, Entries
<1>4. Append(l, Entry(s, h + 1)) \in Seq(Entries)
    BY <1>3
<1> QED
    BY <1>1, <1>2, <1>4 DEF Taken, Pairs

LEMMA ForcedRun ==
    ASSUME NEW s \in OKNodes, NEW l \in Seq(Entries), NEW ps \in Seq(Payloads), NEW h \in Nat
    PROVE  \E run : Forces(run, s, l, ps, h) /\ Forced(s, l, ps, h) = run[Len(ps)]
<1> DEFINE k == Len(ps)
           Eq(g) == g = [i \in 0..k |->
                        IF i = 0 THEN <<s, l>>
                        ELSE IF ps[i] \in g[i - 1][1].reported THEN g[i - 1]
                        ELSE <<Process(g[i - 1][1], ps[i], h),
                               Append(g[i - 1][2], Entry(g[i - 1][1], h + 1))>>]
           F == [i \in 1..k |-> [x \in Pairs |-> Taken(x, ps[i], h)]]
           run == CHOOSE g : Eq(g)
<1>1. k \in Nat /\ \A i \in 1..k : ps[i] \in Payloads
    OBVIOUS
<1> HIDE DEF k
<1>2. F \in [1..k -> [Pairs -> Pairs]] /\ <<s, l>> \in Pairs
    BY <1>1, TakenTyped DEF Pairs
<1>3. PICK g : Path(g, Pairs, k, <<s, l>>, F)
    <2> HIDE DEF F
    <2> QED
        BY <1>1, <1>2, Iterate
<1>4. \A i \in 0..k : g[i] = IF i = 0 THEN <<s, l>> ELSE Taken(g[i - 1], ps[i], h)
    <2> SUFFICES ASSUME NEW i \in 0..k, i # 0 PROVE g[i] = Taken(g[i - 1], ps[i], h)
        BY <1>3 DEF Path
    <2>1. i \in 1..k /\ i - 1 \in 0..k /\ g[i - 1] \in Pairs
        BY <1>1, <1>3 DEF Path
    <2> QED
        BY <1>3, <2>1 DEF Path
<1>5. Eq(g)
    BY <1>3, <1>4 DEF Path, Taken
<1>6. Eq(run)
    <2> HIDE DEF Eq
    <2> QED
        BY <1>5
<1>7. Forced(s, l, ps, h) = run[k]
    BY DEF Forced, k
<1> HIDE DEF run
<1>8. run[0] = <<s, l>> /\ \A i \in 1..k : run[i] = Taken(run[i - 1], ps[i], h)
    <2>1. run[0] = <<s, l>>
        BY <1>1, <1>6
    <2>2. ASSUME NEW i \in 1..k PROVE run[i] = Taken(run[i - 1], ps[i], h)
        <3>1. i \in 0..k /\ i # 0
            BY <1>1
        <3>2. PICK x : x = run[i - 1]
            OBVIOUS
        <3>3. run[i] = IF ps[i] \in x[1].reported THEN x
                       ELSE <<Process(x[1], ps[i], h), Append(x[2], Entry(x[1], h + 1))>>
            BY <1>6, <3>1, <3>2
        <3> QED
            BY <3>2, <3>3 DEF Taken
    <2> QED
        BY <2>1, <2>2
<1> DEFINE T == {i \in 0..k : run[i] \in Pairs}
<1>9. \A i \in 0..k : i \in T
    <2>1. 0 \in T
        BY <1>1, <1>2, <1>8
    <2>2. ASSUME NEW i \in 1..k, i - 1 \in T PROVE i \in T
        <3>1. run[i - 1] \in Pairs /\ ps[i] \in Payloads /\ i \in 0..k
            BY <1>1, <2>2
        <3> QED
            BY <1>8, <3>1, TakenTyped
    <2> HIDE DEF T
    <2> QED
        BY <1>1, <2>1, <2>2, UpTo, Zenon
<1>10. run \in [0..k -> Pairs]
    BY <1>6, <1>9
<1> QED
    BY <1>7, <1>8, <1>10 DEF Forces, k

(* m is l and later entries, all of height x; the first of them holds s.   *)
Longer(m, l, x, s) ==
    /\ Len(m) >= Len(l)
    /\ \A i \in 1..Len(l) : m[i] = l[i]
    /\ \A i \in (Len(l) + 1)..Len(m) : m[i].height = x
    /\ Len(m) > Len(l) => m[Len(l) + 1].fields = s

LEMMA LongerAppend ==
    ASSUME NEW m \in Seq(Entries), NEW l \in Seq(Entries), NEW x \in Nat, NEW s,
           Longer(m, l, x, s), NEW e \in Entries, e.height = x, Len(m) = Len(l) => e.fields = s
    PROVE  Longer(Append(m, e), l, x, s) /\ Len(Append(m, e)) > Len(l)
<1> DEFINE a == Append(m, e)
<1>1. PICK k \in Nat, j \in Nat : k = Len(m) /\ j = Len(l)
    OBVIOUS
<1>2. Len(a) = k + 1 /\ a[k + 1] = e /\ \A i \in 1..k : a[i] = m[i]
    BY <1>1
<1> HIDE DEF a
<1>3. k >= j /\ (\A i \in 1..j : m[i] = l[i]) /\ (\A i \in (j + 1)..k : m[i].height = x)
      /\ (k > j => m[j + 1].fields = s)
    BY <1>1 DEF Longer
<1>4. \A i \in 1..j : a[i] = l[i]
    BY <1>2, <1>3
<1>5. \A i \in (j + 1)..(k + 1) : a[i].height = x
    BY <1>2, <1>3
<1>6. a[j + 1].fields = s
    <2>1. CASE k = j
        BY <1>1, <1>2, <2>1
    <2>2. CASE k # j
        <3>1. j + 1 \in 1..k /\ k > j
            BY <1>3, <2>2
        <3> QED
            BY <1>2, <1>3, <3>1
    <2> QED
        BY <2>1, <2>2
<1> QED
    BY <1>1, <1>2, <1>3, <1>4, <1>5, <1>6, SMTT(30) DEF Longer, a

(* The payloads taken so far.                                              *)
Upto(ps, i) == {ps[j] : j \in 1..i}

LEMMA UptoMore ==
    ASSUME NEW ps \in Seq(Payloads), NEW i \in 1..Len(ps)
    PROVE  /\ Upto(ps, i) = Upto(ps, i - 1) \cup {ps[i]} /\ Upto(ps, 0) = {}
           /\ Upto(ps, i) \subseteq Range(ps) /\ ps[i] \in Payloads /\ ps[i] \in Range(ps)
<1>1. \A j \in 1..i : j \in 1..(i - 1) \/ j = i
    OBVIOUS
<1>2. DOMAIN ps = 1..Len(ps) /\ \A j \in 1..i : j \in 1..Len(ps)
    OBVIOUS
<1>3. \A j \in 1..(i - 1) : j \in 1..i
    OBVIOUS
<1> QED
    BY <1>1, <1>2, <1>3 DEF Upto, Range

(* What forced changes leave, and their entries.                           *)
Good(x, s, l, R, h) ==
    /\ Longer(x[2], l, h + 1, s) /\ (Len(x[2]) = Len(l) => x[1] = s)
    /\ x[1].reported = s.reported \cup R

LEMMA TakenGood ==
    ASSUME NEW s \in OKNodes, NEW l \in Seq(Entries), NEW h \in Nat, NEW R,
           NEW x \in Pairs, Good(x, s, l, R, h), NEW p \in Payloads
    PROVE  Good(Taken(x, p, h), s, l, R \cup {p}, h)
<1>1. PICK t \in OKNodes, m \in Seq(Entries) : x = <<t, m>>
    BY DEF Pairs
<1>2. /\ Longer(m, l, h + 1, s) /\ (Len(m) = Len(l) => t = s) /\ t.reported = s.reported \cup R
    BY <1>1 DEF Good
<1>3. CASE p \in t.reported
    <2>1. Taken(x, p, h) = <<t, m>>
        BY <1>1, <1>3 DEF Taken
    <2> QED
        BY <1>2, <1>3, <2>1 DEF Good
<1>4. CASE p \notin t.reported
    <2> DEFINE e == Entry(t, h + 1)
               u == Process(t, p, h)
    <2>1. e \in Entries /\ e.height = h + 1 /\ e.fields = t
        BY DEF Entry, Entries
    <2>2. u.reported = t.reported \cup {p}
        BY ProcessEffect DEF OKNodes
    <2>3. Taken(x, p, h) = <<u, Append(m, e)>>
        BY <1>1, <1>4 DEF Taken
    <2> HIDE DEF e, u
    <2>4. Longer(Append(m, e), l, h + 1, s) /\ Len(Append(m, e)) > Len(l)
        <3>1. Len(m) = Len(l) => e.fields = s
            BY <1>2, <2>1
        <3>2. h + 1 \in Nat
            OBVIOUS
        <3> QED
            BY <1>2, <2>1, <3>1, <3>2, LongerAppend
    <2>5. Len(Append(m, e)) # Len(l)
        <3>1. Len(l) \in Nat
            OBVIOUS
        <3> QED
            BY <2>4, <3>1
    <2> QED
        BY <1>2, <2>2, <2>3, <2>4, <2>5 DEF Good
<1> QED
    BY <1>3, <1>4

LEMMA ForcedGood ==
    ASSUME NEW s \in OKNodes, NEW l \in Seq(Entries), NEW ps \in Seq(Payloads), NEW h \in Nat
    PROVE  Forced(s, l, ps, h) \in Pairs /\ Good(Forced(s, l, ps, h), s, l, Range(ps), h)
<1>1. PICK run : Forces(run, s, l, ps, h) /\ Forced(s, l, ps, h) = run[Len(ps)]
    BY ForcedRun
<1>2. PICK k \in Nat : k = Len(ps)
    OBVIOUS
<1>3. run \in [0..k -> Pairs] /\ run[0] = <<s, l>>
      /\ \A i \in 1..k : run[i] = Taken(run[i - 1], ps[i], h)
    BY <1>1, <1>2 DEF Forces
<1> DEFINE T == {i \in 0..k : Good(run[i], s, l, Upto(ps, i), h)}
<1>4. 0 \in T
    <2>1. Longer(l, l, h + 1, s)
        <3>1. Len(l) \in Nat
            OBVIOUS
        <3> QED
            BY <3>1 DEF Longer
    <2>2. Upto(ps, 0) = {}
        BY DEF Upto
    <2> QED
        BY <1>3, <2>1, <2>2 DEF Good
<1>5. ASSUME NEW i \in 1..k, i - 1 \in T PROVE i \in T
    <2>1. run[i - 1] \in Pairs /\ Good(run[i - 1], s, l, Upto(ps, i - 1), h) /\ i \in 0..k
        BY <1>3, <1>5
    <2>2. Upto(ps, i) = Upto(ps, i - 1) \cup {ps[i]} /\ ps[i] \in Payloads
        BY <1>2, UptoMore
    <2>3. Good(Taken(run[i - 1], ps[i], h), s, l, Upto(ps, i - 1) \cup {ps[i]}, h)
        BY <2>1, <2>2, TakenGood
    <2> QED
        BY <1>3, <2>1, <2>2, <2>3
<1>6. \A i \in 0..k : i \in T
    <2> HIDE DEF T
    <2> QED
        BY <1>4, <1>5, UpTo, Zenon
<1>7. k \in 0..k /\ Upto(ps, k) = Range(ps)
    BY <1>2 DEF Upto, Range
<1> QED
    BY <1>1, <1>2, <1>3, <1>6, <1>7

(* Payloads, some of them processed before, are the same as their union.   *)
LEMMA ForcedAfter ==
    ASSUME NEW s \in OKNodes, NEW l \in Seq(Entries), NEW ps \in Seq(Payloads), NEW h \in Nat,
           NEW r \in Nodes, NEW Q \in SUBSET Payloads, After(r, s, Q, h),
           Q \subseteq s.reported, s.reported \cap Range(ps) \subseteq Q
    PROVE  After(r, Forced(s, l, ps, h)[1], Q \cup Range(ps), h)
<1>1. PICK run : Forces(run, s, l, ps, h) /\ Forced(s, l, ps, h) = run[Len(ps)]
    BY ForcedRun
<1>2. PICK k \in Nat : k = Len(ps)
    OBVIOUS
<1>3. run \in [0..k -> Pairs] /\ run[0] = <<s, l>>
      /\ \A i \in 1..k : run[i] = Taken(run[i - 1], ps[i], h)
    BY <1>1, <1>2 DEF Forces
<1> DEFINE T == {i \in 0..k : /\ After(r, run[i][1], Q \cup Upto(ps, i), h)
                              /\ run[i][1].reported = s.reported \cup Upto(ps, i)}
<1>4. 0 \in T
    <2>1. Upto(ps, 0) = {}
        BY DEF Upto
    <2>2. run[0][1] = s /\ Q \cup Upto(ps, 0) = Q /\ s.reported \cup Upto(ps, 0) = s.reported
        BY <1>3, <2>1
    <2>3. 0 \in 0..k
        OBVIOUS
    <2> QED
        BY <2>2, <2>3
<1>5. ASSUME NEW i \in 1..k, i - 1 \in T PROVE i \in T
    <2>1. PICK t \in OKNodes, m \in Seq(Entries) : run[i - 1] = <<t, m>>
        BY <1>3 DEF Pairs
    <2>2. After(r, t, Q \cup Upto(ps, i - 1), h) /\ t.reported = s.reported \cup Upto(ps, i - 1)
        BY <1>5, <2>1
    <2>3. PICK p : p = ps[i]
        OBVIOUS
    <2>4. Upto(ps, i) = Upto(ps, i - 1) \cup {p} /\ p \in Payloads /\ p \in Range(ps)
          /\ Upto(ps, i) \subseteq Payloads
        <3>1. \A j \in 1..k : ps[j] \in Payloads
            BY <1>2
        <3>2. Upto(ps, i) \subseteq Payloads
            BY <3>1 DEF Upto
        <3> QED
            BY <1>2, <2>3, <3>2, UptoMore
    <2>5. run[i] = Taken(<<t, m>>, p, h) /\ i \in 0..k
        <3>1. run[i] = Taken(run[i - 1], ps[i], h) /\ i \in 0..k
            BY <1>3
        <3> QED
            BY <2>1, <2>3, <3>1, Zenon
    <2>6. CASE p \in t.reported
        <3>1. run[i] = <<t, m>>
            BY <2>5, <2>6 DEF Taken
        <3>2. Q \cup Upto(ps, i) = Q \cup Upto(ps, i - 1)
            BY <2>2, <2>4, <2>6
        <3>3. s.reported \cup Upto(ps, i) = s.reported \cup Upto(ps, i - 1)
            BY <2>2, <2>4, <2>6
        <3>4. run[i][1] = t
            BY <3>1
        <3> QED
            BY <2>2, <2>5, <3>2, <3>3, <3>4
    <2>7. CASE p \notin t.reported
        <3> DEFINE u == Process(t, p, h)
                   P == Q \cup Upto(ps, i - 1)
        <3>1. run[i][1] = u
            BY <2>5, <2>7 DEF Taken
        <3>2. P \in SUBSET Payloads /\ p \notin P /\ t \in Nodes
            BY <2>2, <2>4, <2>7 DEF OKNodes
        <3>3. After(r, u, P \cup {p}, h)
            <4> HIDE DEF P, u
            <4>1. After(r, t, P, h)
                BY <2>2 DEF P
            <4> QED
                BY <2>4, <3>2, <4>1, AfterProcess DEF u
        <3>4. u.reported = t.reported \cup {p}
            BY <2>4, <3>2, ProcessEffect
        <3>5. P \cup {p} = Q \cup Upto(ps, i)
            BY <2>4
        <3> HIDE DEF u, P
        <3> QED
            BY <2>2, <2>4, <2>5, <3>1, <3>3, <3>4, <3>5
    <2> QED
        BY <2>6, <2>7
<1>6. \A i \in 0..k : i \in T
    <2> HIDE DEF T
    <2> QED
        BY <1>4, <1>5, UpTo, Zenon
<1>7. k \in 0..k /\ Upto(ps, k) = Range(ps)
    BY <1>2 DEF Upto, Range
<1> QED
    BY <1>1, <1>2, <1>6, <1>7

-----------------------------------------------------------------------------
(* The log.                                                                *)

(* Entry i is the first that a rollback below height x undoes.             *)
First(l, x, i) ==
    /\ i \in 1..Len(l) /\ l[i].height >= x
    /\ \A j \in 1..(i - 1) : l[j].height < x

(* What the chain of height ht gives at height y.                          *)
Given(pa, ht, y) == pa[Len(pa) - (ht - y)]

(* Entry e brings back what the chain gives below height x.                *)
Marks(e, x, ht, pa) ==
    /\ e.height = x
    /\ ht - (x - 1) < Len(pa) => Same(Given(pa, ht, x - 1), e.fields)

Start(l, x, ht, pa) ==
    /\ x <= ht => \E i \in 1..Len(l) : First(l, x, i)
    /\ \A i \in 1..Len(l) : First(l, x, i) => Marks(l[i], x, ht, pa)

(* Heights up to lo may have lost entries.                                 *)
LogFollows(l, lo, ht, pa) == \A x \in (lo + 1)..(ht + 1) : Start(l, x, ht, pa)

LogTyped(l, ht) == l \in Seq(Entries) /\ \A i \in 1..Len(l) : l[i].height <= ht + 1

(* No change was forced since the last block, or its entry is lost.        *)
Idle(l, lo, ht) == ht + 1 > lo /\ \A i \in 1..Len(l) : l[i].height <= ht

LEMMA EntryTyped ==
    ASSUME NEW l \in Seq(Entries), NEW i \in 1..Len(l)
    PROVE  l[i].height \in Nat /\ l[i].fields \in OKNodes
<1>1. l[i] \in Entries
    OBVIOUS
<1> QED
    BY <1>1 DEF Entries

(* Entries of the next height are appended.                                *)
LEMMA LogLonger ==
    ASSUME NEW l, NEW m \in Seq(Entries), NEW lo \in Nat, NEW ht \in Nat, NEW pa, NEW s,
           LogTyped(l, ht), Longer(m, l, ht + 1, s), LogFollows(l, lo, ht, pa),
           Idle(l, lo, ht) => Same(Given(pa, ht, ht), s)
    PROVE  LogFollows(m, lo, ht, pa)
<1> SUFFICES ASSUME NEW x \in (lo + 1)..(ht + 1) PROVE Start(m, x, ht, pa)
    BY DEF LogFollows
<1>1. PICK k \in Nat, j \in Nat : k = Len(m) /\ j = Len(l)
    BY DEF LogTyped
<1>2. /\ k >= j /\ \A i \in 1..j : m[i] = l[i]
      /\ \A i \in (j + 1)..k : m[i].height = ht + 1
      /\ (k > j => m[j + 1].fields = s)
    BY <1>1 DEF Longer
<1>3. l \in Seq(Entries) /\ (\A i \in 1..j : l[i].height <= ht + 1 /\ l[i].height \in Nat)
    BY <1>1, EntryTyped DEF LogTyped
<1>4. Start(l, x, ht, pa)
    BY DEF LogFollows
<1>5. ASSUME NEW i \in 1..j, First(l, x, i) PROVE First(m, x, i)
    BY <1>1, <1>2, <1>5 DEF First
<1>6. x <= ht => \E i \in 1..k : First(m, x, i)
    <2> SUFFICES ASSUME x <= ht PROVE \E i \in 1..k : First(m, x, i)
        OBVIOUS
    <2>1. PICK i \in 1..j : First(l, x, i)
        BY <1>1, <1>4 DEF Start
    <2>2. i \in 1..k /\ First(m, x, i)
        BY <1>2, <1>5, <2>1
    <2> QED
        BY <2>2
<1>7. ASSUME NEW i \in 1..k, First(m, x, i) PROVE Marks(m[i], x, ht, pa)
    <2>1. CASE i <= j
        <3>1. i \in 1..j /\ \A q \in 1..(i - 1) : q \in 1..j
            BY <2>1
        <3>2. First(l, x, i)
            BY <1>1, <1>2, <1>7, <3>1 DEF First
        <3> QED
            BY <1>1, <1>2, <1>4, <3>1, <3>2 DEF Start
    <2>2. CASE ~(i <= j)
        <3>1. i = j + 1
            <4> SUFFICES ASSUME i # j + 1 PROVE FALSE
                OBVIOUS
            <4>1. j + 1 \in 1..(i - 1) /\ j + 1 \in (j + 1)..k
                BY <2>2
            <4>2. m[j + 1].height = ht + 1 /\ m[j + 1].height < x
                BY <1>2, <1>7, <4>1 DEF First
            <4> QED
                BY <4>2
        <3>2. \A q \in 1..j : l[q].height < x
            <4> SUFFICES ASSUME NEW q \in 1..j PROVE l[q].height < x
                OBVIOUS
            <4>1. q \in 1..(i - 1) /\ m[q] = l[q]
                BY <1>2, <3>1
            <4> QED
                BY <1>7, <4>1 DEF First
        <3>3. ~(x <= ht)
            <4> SUFFICES ASSUME x <= ht PROVE FALSE
                OBVIOUS
            <4>1. PICK q \in 1..j : First(l, x, q)
                BY <1>1, <1>4 DEF Start
            <4>2. l[q].height >= x /\ l[q].height < x /\ l[q].height \in Nat
                BY <1>3, <3>2, <4>1 DEF First
            <4> QED
                BY <4>2
        <3>4. x = ht + 1 /\ ht + 1 > lo
            BY <3>3
        <3>5. \A q \in 1..j : l[q].height <= ht
            BY <1>3, <3>2, <3>4
        <3>6. Same(Given(pa, ht, ht), s)
            BY <1>1, <3>4, <3>5 DEF Idle
        <3>7. m[i].height = x /\ m[i].fields = s
            BY <1>2, <3>1, <3>4
        <3>8. x - 1 = ht
            BY <3>4
        <3> QED
            BY <3>6, <3>7, <3>8 DEF Marks
    <2> QED
        BY <2>1, <2>2
<1> QED
    BY <1>1, <1>6, <1>7 DEF Start

(* a is m without its first d entries, whose heights are at most hi.       *)
Shifted(a, m, d, hi) ==
    /\ Len(a) = Len(m) - d
    /\ \A i \in 1..Len(a) : a[i] = m[i + d]
    /\ \A i \in 1..d : m[i].height <= hi

(* The oldest entries fall out.                                            *)
LEMMA LogShorter ==
    ASSUME NEW a \in Seq(Entries), NEW m \in Seq(Entries), NEW d \in 0..Len(m),
           NEW lo \in Nat, NEW hi \in Nat, lo <= hi, Shifted(a, m, d, hi),
           NEW ht \in Nat, NEW pa
    PROVE  /\ LogFollows(m, lo, ht, pa) => LogFollows(a, hi, ht, pa)
           /\ Idle(a, hi, ht) => Idle(m, lo, ht)
           /\ LogTyped(m, ht) => LogTyped(a, ht)
<1>1. PICK k \in Nat, j \in Nat : k = Len(m) /\ j = Len(a)
    OBVIOUS
<1>2. j = k - d /\ (\A i \in 1..j : a[i] = m[i + d] /\ i + d \in 1..k) /\ (\A i \in 1..d : m[i].height <= hi)
    BY <1>1 DEF Shifted
<1>3. \A i \in 1..k : m[i].height \in Nat
    BY <1>1, EntryTyped
<1>4. \A i \in 1..k : i \in 1..d \/ (i - d \in 1..j /\ (i - d) + d = i)
    BY <1>1, <1>2
<1>5. ASSUME LogFollows(m, lo, ht, pa), NEW x \in (hi + 1)..(ht + 1) PROVE Start(a, x, ht, pa)
    <2>1. x \in (lo + 1)..(ht + 1)
        OBVIOUS
    <2>2. Start(m, x, ht, pa)
        BY <1>5, <2>1 DEF LogFollows
    <2>3. \A i \in 1..d : m[i].height < x
        <3> SUFFICES ASSUME NEW i \in 1..d PROVE m[i].height < x
            OBVIOUS
        <3>1. m[i].height \in Nat /\ m[i].height <= hi
            BY <1>1, <1>2, <1>3
        <3> QED
            BY <3>1
    <2>4. ASSUME NEW i \in 1..j, First(a, x, i) PROVE First(m, x, i + d)
        <3>1. i + d \in 1..k /\ a[i] = m[i + d]
            BY <1>2
        <3>2. m[i + d].height >= x
            BY <2>4, <3>1 DEF First
        <3>3. ASSUME NEW q \in 1..((i + d) - 1) PROVE m[q].height < x
            <4>1. CASE q \in 1..d
                BY <2>3, <4>1
            <4>2. CASE q \notin 1..d
                <5>1. q - d \in 1..(i - 1) /\ q - d \in 1..j /\ (q - d) + d = q
                    BY <4>2
                <5>2. a[q - d] = m[q]
                    BY <1>2, <5>1
                <5> QED
                    BY <2>4, <5>1, <5>2 DEF First
            <4> QED
                BY <4>1, <4>2
        <3> QED
            BY <1>1, <3>1, <3>2, <3>3 DEF First
    <2>5. ASSUME NEW i \in 1..k, First(m, x, i) PROVE i - d \in 1..j /\ First(a, x, i - d)
        <3>1. i \notin 1..d
            <4> SUFFICES ASSUME i \in 1..d PROVE FALSE
                OBVIOUS
            <4>1. m[i].height >= x /\ m[i].height < x /\ m[i].height \in Nat
                BY <1>3, <2>3, <2>5 DEF First
            <4> QED
                BY <4>1
        <3>2. i - d \in 1..j /\ a[i - d] = m[i]
            BY <1>2, <1>4, <3>1
        <3>3. ASSUME NEW q \in 1..((i - d) - 1) PROVE a[q].height < x
            <4>1. q \in 1..j /\ q + d \in 1..(i - 1)
                BY <3>2
            <4>2. a[q] = m[q + d]
                BY <1>2, <4>1
            <4> QED
                BY <2>5, <4>1, <4>2 DEF First
        <3>4. a[i - d].height >= x
            BY <2>5, <3>2 DEF First
        <3> QED
            BY <1>1, <3>2, <3>3, <3>4 DEF First
    <2>6. x <= ht => \E i \in 1..j : First(a, x, i)
        <3> SUFFICES ASSUME x <= ht PROVE \E i \in 1..j : First(a, x, i)
            OBVIOUS
        <3>1. PICK i \in 1..k : First(m, x, i)
            BY <1>1, <2>2 DEF Start
        <3>2. i - d \in 1..j /\ First(a, x, i - d)
            BY <2>5, <3>1
        <3> QED
            BY <3>2
    <2>7. ASSUME NEW i \in 1..j, First(a, x, i) PROVE Marks(a[i], x, ht, pa)
        <3>1. First(m, x, i + d) /\ i + d \in 1..k /\ a[i] = m[i + d]
            BY <1>2, <2>4, <2>7
        <3>2. Marks(m[i + d], x, ht, pa)
            BY <1>1, <2>2, <3>1 DEF Start
        <3> QED
            BY <3>1, <3>2
    <2> QED
        BY <1>1, <2>6, <2>7 DEF Start
<1>6. ASSUME Idle(a, hi, ht) PROVE Idle(m, lo, ht)
    <2>1. ht + 1 > hi /\ \A i \in 1..j : a[i].height <= ht
        BY <1>1, <1>6 DEF Idle
    <2>2. ASSUME NEW i \in 1..k PROVE m[i].height <= ht
        <3>1. CASE i \in 1..d
            <4>1. m[i].height \in Nat /\ m[i].height <= hi
                BY <1>2, <1>3, <3>1
            <4> QED
                BY <2>1, <4>1
        <3>2. CASE i \notin 1..d
            BY <1>2, <1>4, <2>1, <3>2
        <3> QED
            BY <3>1, <3>2
    <2>3. ht + 1 > lo
        BY <2>1
    <2> QED
        BY <1>1, <2>2, <2>3 DEF Idle
<1>7. ASSUME LogTyped(m, ht) PROVE LogTyped(a, ht)
    BY <1>1, <1>2, <1>7 DEF LogTyped
<1> QED
    BY <1>5, <1>6, <1>7 DEF LogFollows

LEMMA FirstExists ==
    ASSUME NEW l \in Seq(Entries), NEW x \in Nat, NEW i \in 1..Len(l), l[i].height >= x
    PROVE  First(l, x, Min({j \in 1..Len(l) : l[j].height >= x}))
<1> DEFINE T == {j \in 1..Len(l) : l[j].height >= x}
<1>1. T \in SUBSET Nat /\ T # {}
    OBVIOUS
<1>2. PICK k \in T : k = Min(T) /\ \A j \in T : k <= j
    <2> HIDE DEF T
    <2> QED
        BY <1>1, MinProperties
<1>3. ASSUME NEW j \in 1..(k - 1) PROVE l[j].height < x
    <2>1. j \in 1..Len(l) /\ ~(k <= j)
        OBVIOUS
    <2>2. l[j].height \in Nat
        BY <2>1, EntryTyped
    <2>3. ~(l[j].height >= x)
        BY <1>2, <2>1
    <2> QED
        BY <2>2, <2>3
<1>4. First(l, x, k)
    BY <1>3 DEF First
<1> QED
    BY <1>2, <1>4

(* A chain of the next height, with an entry of that height in the log.    *)
Extends(pb, pa, ht) ==
    \A y \in 0..ht : (ht + 1) - y < Len(pb) =>
        ht - y < Len(pa) /\ Given(pb, ht + 1, y) = Given(pa, ht, y)

LEMMA LogHigher ==
    ASSUME NEW l, NEW lo \in Nat, NEW ht \in Nat, NEW pa, NEW pb, Extends(pb, pa, ht),
           LogTyped(l, ht), LogFollows(l, lo, ht, pa),
           NEW q \in 1..Len(l), l[q].height = ht + 1
    PROVE  LogFollows(l, lo, ht + 1, pb)
<1> SUFFICES ASSUME NEW x \in (lo + 1)..((ht + 1) + 1) PROVE Start(l, x, ht + 1, pb)
    BY DEF LogFollows
<1>1. l \in Seq(Entries) /\ \A i \in 1..Len(l) : l[i].height <= ht + 1 /\ l[i].height \in Nat
    BY EntryTyped DEF LogTyped
<1>2. CASE x = ht + 2
    <2>1. ~(x <= ht + 1)
        BY <1>2
    <2>2. \A i \in 1..Len(l) : ~First(l, x, i)
        BY <1>1, <1>2 DEF First
    <2> QED
        BY <2>1, <2>2 DEF Start
<1>3. CASE x # ht + 2
    <2>1. x \in (lo + 1)..(ht + 1) /\ x - 1 \in 0..ht
        BY <1>3
    <2>2. Start(l, x, ht, pa)
        BY <2>1 DEF LogFollows
    <2>3. \E i \in 1..Len(l) : First(l, x, i)
        <3>1. CASE x <= ht
            BY <2>2, <3>1 DEF Start
        <3>2. CASE ~(x <= ht)
            <4>1. x \in Nat /\ l[q].height >= x
                BY <2>1, <3>2
            <4>2. First(l, x, Min({j \in 1..Len(l) : l[j].height >= x}))
                BY <1>1, <4>1, FirstExists
            <4> QED
                BY <4>2 DEF First
        <3> QED
            BY <3>1, <3>2
    <2>4. ASSUME NEW i \in 1..Len(l), First(l, x, i) PROVE Marks(l[i], x, ht + 1, pb)
        <3>1. Marks(l[i], x, ht, pa)
            BY <2>2, <2>4 DEF Start
        <3>2. PICK y \in 0..ht : y = x - 1
            BY <2>1
        <3>3. (ht + 1) - y < Len(pb) => ht - y < Len(pa) /\ Given(pb, ht + 1, y) = Given(pa, ht, y)
            BY DEF Extends
        <3> QED
            BY <3>1, <3>2, <3>3 DEF Marks
    <2> QED
        BY <2>3, <2>4 DEF Start
<1> QED
    BY <1>2, <1>3

(* The entries of the top height are undone.                               *)
LEMMA LogLower ==
    ASSUME NEW l, NEW lo \in Nat, NEW ht \in Nat, NEW pa, NEW pb, Extends(pa, pb, ht),
           Len(pa) = Len(pb) + 1, Len(pb) \in Nat,
           LogTyped(l, ht + 1), LogFollows(l, lo, ht + 1, pa),
           NEW i, First(l, ht + 1, i)
    PROVE  LogFollows(SubSeq(l, 1, i - 1), lo, ht, pb)
<1> DEFINE a == SubSeq(l, 1, i - 1)
<1> SUFFICES ASSUME NEW x \in (lo + 1)..(ht + 1) PROVE Start(a, x, ht, pb)
    BY DEF LogFollows
<1>1. l \in Seq(Entries) /\ i \in 1..Len(l) /\ l[i].height >= ht + 1
      /\ \A j \in 1..(i - 1) : l[j].height < ht + 1
    BY DEF LogTyped, First
<1>2. \A j \in 1..Len(l) : l[j].height \in Nat
    BY <1>1, EntryTyped
<1>3. Len(a) = i - 1 /\ \A j \in 1..(i - 1) : a[j] = l[j] /\ j \in 1..Len(l)
    BY <1>1
<1> HIDE DEF a
<1>4. x \in (lo + 1)..((ht + 1) + 1)
    OBVIOUS
<1>5. Start(l, x, ht + 1, pa)
    BY <1>4 DEF LogFollows
<1>6. ASSUME NEW j \in 1..(i - 1), First(a, x, j) PROVE First(l, x, j)
    BY <1>1, <1>3, <1>6, SMTT(30) DEF First
<1>7. x <= ht => \E j \in 1..(i - 1) : First(a, x, j)
    <2> SUFFICES ASSUME x <= ht PROVE \E j \in 1..(i - 1) : First(a, x, j)
        OBVIOUS
    <2>1. PICK j \in 1..Len(l) : First(l, x, j)
        BY <1>5 DEF Start
    <2>2. l[j].height = x
        BY <1>5, <2>1 DEF Start, Marks
    <2>3. j # i
        <3>1. l[i].height \in Nat
            BY <1>1, <1>2
        <3> QED
            BY <1>1, <2>2, <3>1
    <2>4. ~(i < j)
        <3> SUFFICES ASSUME i < j PROVE FALSE
            OBVIOUS
        <3>1. i \in 1..(j - 1)
            BY <1>1
        <3>2. l[i].height < x /\ l[i].height \in Nat
            BY <1>1, <1>2, <2>1, <3>1 DEF First
        <3> QED
            BY <1>1, <3>2
    <2>5. j \in 1..(i - 1)
        BY <1>1, <2>3, <2>4
    <2>6. First(a, x, j)
        BY <1>3, <2>1, <2>5 DEF First
    <2> QED
        BY <2>5, <2>6
<1>8. ASSUME NEW j \in 1..(i - 1), First(a, x, j) PROVE Marks(a[j], x, ht, pb)
    <2>1. First(l, x, j) /\ j \in 1..Len(l) /\ a[j] = l[j]
        BY <1>3, <1>6, <1>8
    <2>2. Marks(l[j], x, ht + 1, pa)
        BY <1>5, <2>1 DEF Start
    <2>3. PICK y \in 0..ht : y = x - 1
        OBVIOUS
    <2>4. (ht + 1) - y < Len(pa) => ht - y < Len(pb) /\ Given(pa, ht + 1, y) = Given(pb, ht, y)
        BY DEF Extends
    <2>5. ht - y < Len(pb) => (ht + 1) - y < Len(pa)
        OBVIOUS
    <2> QED
        BY <2>1, <2>2, <2>3, <2>4, <2>5 DEF Marks
<1> QED
    BY <1>3, <1>7, <1>8 DEF Start

(* Trim and Dropped.                                                       *)
LEMMA TrimShifts ==
    ASSUME NEW m, NEW ht \in Nat, LogTyped(m, ht), lost \in Nat
    PROVE  /\ Dropped(m) \in Nat /\ lost <= Dropped(m) /\ Trim(m) \in Seq(Entries)
           /\ \E d \in 0..Len(m) : Shifted(Trim(m), m, d, Dropped(m))
<1>1. PICK k \in Nat : k = Len(m)
    BY DEF LogTyped
<1>2. m \in Seq(Entries) /\ \A i \in 1..k : m[i].height \in Nat /\ m[i].height <= ht + 1
    BY <1>1, EntryTyped DEF LogTyped
<1>3. PICK c \in Int : c = k - Capacity + 1 /\ c <= k
    BY CapacityAssumption
<1>4. PICK f \in Nat \ {0} : f = Max({1, c}) /\ f = IF 1 >= c THEN 1 ELSE c
    BY MaxOfTwo
<1>5. PICK d \in 0..k : d = f - 1
    BY <1>3, <1>4
<1>6. Trim(m) = SubSeq(m, d + 1, k)
    <2>1. Trim(m) = SubSeq(m, Max({1, Len(m) - Capacity + 1}), Len(m))
        BY DEF Trim
    <2>2. Len(m) - Capacity + 1 = c /\ Max({1, c}) = d + 1
        BY <1>1, <1>3, <1>4, <1>5
    <2> QED
        BY <1>1, <2>1, <2>2, Zenon
<1>7. /\ Trim(m) \in Seq(Entries) /\ Len(Trim(m)) = k - d
      /\ \A i \in 1..(k - d) : Trim(m)[i] = m[i + d]
    <2>1. d + 1 \in Nat /\ \A i \in (d + 1)..k : i \in 1..k
        OBVIOUS
    <2>2. SubSeq(m, d + 1, k) \in Seq(Entries) /\ Len(SubSeq(m, d + 1, k)) = k - d
          /\ \A i \in 1..(k - d) : SubSeq(m, d + 1, k)[i] = m[i + d]
        BY <1>1, <1>2, <2>1
    <2> QED
        BY <1>6, <2>2
<1> DEFINE T == {lost} \cup {m[i].height : i \in 1..(k - Capacity)}
<1>8. \A i \in 1..(k - Capacity) : i \in 1..k
    BY CapacityAssumption
<1>9. T \in SUBSET Nat /\ T # {} /\ lost + (ht + 1) \in Nat /\ \A y \in T : y <= lost + (ht + 1)
    BY <1>2, <1>8
<1>10. Dropped(m) = Max(T)
    BY <1>1 DEF Dropped
<1>11. \A i \in 1..d : m[i].height \in T
    <2>1. \A i \in 1..d : i \in 1..(k - Capacity)
        BY <1>3, <1>4, <1>5, CapacityAssumption
    <2> QED
        BY <2>1
<1>12. lost \in T
    OBVIOUS
<1> HIDE DEF T
<1>13. Max(T) \in Nat /\ \A y \in T : y <= Max(T)
    BY <1>9, MaxProperties
<1> QED
    BY <1>1, <1>7, <1>10, <1>11, <1>12, <1>13 DEF Shifted

LEMMA LogTrimmed ==
    ASSUME NEW m, NEW ht \in Nat, NEW pa, LogTyped(m, ht), lost \in Nat
    PROVE  /\ Dropped(m) \in Nat /\ LogTyped(Trim(m), ht)
           /\ LogFollows(m, lost, ht, pa) => LogFollows(Trim(m), Dropped(m), ht, pa)
           /\ Idle(Trim(m), Dropped(m), ht) => Idle(m, lost, ht)
<1>1. m \in Seq(Entries)
    BY DEF LogTyped
<1>2. PICK a \in Seq(Entries), hi \in Nat : a = Trim(m) /\ hi = Dropped(m)
    BY TrimShifts
<1>3. PICK lo \in Nat : lo = lost
    OBVIOUS
<1>4. lo <= hi
    BY <1>2, <1>3, TrimShifts
<1>5. PICK d \in 0..Len(m) : Shifted(a, m, d, hi)
    BY <1>2, TrimShifts
<1>6. /\ LogFollows(m, lo, ht, pa) => LogFollows(a, hi, ht, pa)
      /\ Idle(a, hi, ht) => Idle(m, lo, ht)
      /\ LogTyped(m, ht) => LogTyped(a, ht)
    BY <1>1, <1>4, <1>5, LogShorter
<1> QED
    BY <1>2, <1>3, <1>6

-----------------------------------------------------------------------------
(* The inductive invariant.                                                *)

(* What the chain gives, for the last heights.                             *)
PastOK(pa, ht) ==
    /\ pa \in Seq(OKNodes) /\ Len(pa) > 0 /\ Len(pa) - 1 <= ht
    /\ \A i \in 1..Len(pa) : Between(pa[i], (ht - Len(pa)) + i)

(* A node is where its chain and the payloads since the last block put it; *)
(* it knows of payloads from the chain, since the last block, or from      *)
(* blocks that were rolled back.                                           *)
Follows(s, l, lo, ht, pa, E, U) ==
    /\ After(Last(pa), s, E, ht)
    /\ E \subseteq s.reported /\ s.reported \subseteq Last(pa).reported \cup U \cup E
    /\ Idle(l, lo, ht) => E = {}
    /\ LogFollows(l, lo, ht, pa)

ArbitersTyped ==
    /\ n \in OKNodes /\ height \in Nat /\ lost \in Nat /\ LogTyped(log, height)
    /\ early \in SUBSET Payloads

ArbitersInv ==
    /\ ArbitersTyped /\ PastOK(past, height)
    /\ rough = {} => Follows(n, log, lost, height, past, early, undone)

LEMMA LastGiven ==
    ASSUME NEW ht \in Nat, NEW pa, PastOK(pa, ht)
    PROVE  /\ Last(pa) \in OKNodes /\ Between(Last(pa), ht) /\ Given(pa, ht, ht) = Last(pa)
           /\ Len(pa) \in Nat /\ pa[Len(pa)] = Last(pa)
<1>1. PICK k \in Nat \ {0} : k = Len(pa)
    BY DEF PastOK
<1>2. k \in 1..k /\ (ht - k) + k = ht /\ k - (ht - ht) = k
    OBVIOUS
<1>3. Last(pa) = pa[k] /\ Given(pa, ht, ht) = pa[k]
    BY <1>1, <1>2 DEF Last, Given
<1>4. pa[k] \in OKNodes /\ Between(pa[k], ht)
    <2>1. Between(pa[k], (ht - k) + k) /\ pa \in Seq(OKNodes)
        BY <1>1, <1>2 DEF PastOK
    <2> QED
        BY <1>1, <1>2, <2>1
<1> QED
    BY <1>1, <1>3, <1>4

LEMMA FreshOK == Fresh \in OKNodes /\ Between(Fresh, 0) /\ Fresh.reported = {}
<1> DEFINE s == [current |-> CRC, candidates |-> {}, next |-> CRC, nextCandidates |-> {},
                 duty |-> 0, gathered |-> 0, round |-> 0, cleared |-> 0, forced |-> FALSE,
                 active |-> Producers, temp |-> {}, last |-> 0,
                 paid |-> 0, total |-> 0, forces |-> 0,
                 mode |-> "normal", since |-> 0, reported |-> {}]
           t == Update(s, 1)
<1>1. s \in Nodes
    BY DEF Nodes, Sets
<1>2. Fresh = t
    BY DEF Fresh
<1>3. /\ s.current = CRC /\ s.duty = 0 /\ s.temp = {} /\ s.forced = FALSE
      /\ s.cleared = 0 /\ s.round = 0 /\ s.gathered = 0 /\ s.last = 0 /\ s.paid = 0
      /\ s.total = 0 /\ s.forces = 0 /\ s.active = Producers /\ s.reported = {}
    OBVIOUS
<1> HIDE DEF s
<1>4. t \in Nodes /\ SameRound(s, t) /\ t.next = Elected(s.active, s.temp)
    BY <1>1, UpdateEffect
<1> HIDE DEF t
<1>5. NodeOK(t)
    <2>1. CRC \subseteq t.next /\ t.current = CRC /\ t.duty = 0
        BY <1>3, <1>4, ElectedTyped DEF SameRound
    <2>2. CRC \in Sets
        BY DEF Sets
    <2> QED
        BY <1>4, <2>1, <2>2, RoundSize DEF NodeOK
<1>6. /\ t.temp = {} /\ t.forced = FALSE /\ t.cleared = 0 /\ t.round = 0 /\ t.last = 0
      /\ t.gathered = 0 /\ t.paid = 0 /\ t.total = 0 /\ t.forces = 0 /\ t.reported = {}
    BY <1>3, <1>4 DEF SameRound, SameBooks
<1>7. Within(Drift(t), t.forces)
    <2>1. Drift(t) = 0
        BY <1>6 DEF Drift
    <2>2. 0 * Most = 0 /\ 0 * (Most - Least) = 0
        BY RewardBounds
    <2> QED
        BY <1>6, <2>1, <2>2 DEF Within
<1>8. Between(t, 0)
    BY <1>5, <1>6, <1>7 DEF Between
<1> QED
    BY <1>2, <1>5, <1>6, <1>8 DEF OKNodes, NodeOK

LEMMA ArbitersInit == Init => ArbitersInv
<1> SUFFICES ASSUME Init PROVE ArbitersInv
    OBVIOUS
<1>1. n \in OKNodes /\ Between(n, 0)
    BY FreshOK DEF Init
<1>2. log = <<>> /\ lost = 0 /\ height = 0 /\ past = <<n>> /\ early = {}
    BY DEF Init
<1>3. n.reported = {}
    BY FreshOK DEF Init
<1>4. LogTyped(<<>>, 0) /\ LogFollows(<<>>, 0, 0, past)
    <2>1. <<>> \in Seq(Entries) /\ Len(<<>>) = 0
        OBVIOUS
    <2> QED
        BY <2>1 DEF LogTyped, LogFollows, Start
<1>5. PastOK(<<n>>, 0)
    <2>1. Len(<<n>>) = 1 /\ <<n>> \in Seq(OKNodes) /\ <<n>>[1] = n
        BY <1>1
    <2> QED
        BY <1>1, <2>1 DEF PastOK
<1>6. Last(past) = n
    BY <1>2 DEF Last
<1>7. Follows(n, <<>>, 0, 0, past, {}, undone)
    BY <1>3, <1>4, <1>6 DEF Follows, After, Same, SameBooks
<1> QED
    BY <1>1, <1>2, <1>4, <1>5, <1>7 DEF ArbitersInv, ArbitersTyped

LEMMA LongerTyped ==
    ASSUME NEW l, NEW m \in Seq(Entries), NEW ht \in Nat, NEW lo \in Nat, NEW s,
           LogTyped(l, ht), Longer(m, l, ht + 1, s)
    PROVE  LogTyped(m, ht) /\ (Idle(m, lo, ht) => Idle(l, lo, ht) /\ Len(m) = Len(l))
<1>1. PICK k \in Nat, j \in Nat : k = Len(m) /\ j = Len(l)
    BY DEF LogTyped
<1>2. /\ k >= j /\ \A i \in 1..j : m[i] = l[i]
      /\ \A i \in (j + 1)..k : m[i].height = ht + 1
      /\ \A i \in 1..j : l[i].height <= ht + 1
    BY <1>1 DEF Longer, LogTyped
<1>3. ASSUME NEW i \in 1..k PROVE m[i].height <= ht + 1
    <2>1. i \in 1..j \/ i \in (j + 1)..k
        OBVIOUS
    <2> QED
        BY <1>2, <2>1
<1>4. ASSUME Idle(m, lo, ht) PROVE Idle(l, lo, ht) /\ Len(m) = Len(l)
    <2>1. ht + 1 > lo /\ \A i \in 1..k : m[i].height <= ht
        BY <1>1, <1>4 DEF Idle
    <2>2. \A i \in 1..j : i \in 1..k
        BY <1>2
    <2>3. k = j
        <3> SUFFICES ASSUME k # j PROVE FALSE
            OBVIOUS
        <3>1. j + 1 \in (j + 1)..k /\ j + 1 \in 1..k
            BY <1>2
        <3>2. m[j + 1].height = ht + 1 /\ m[j + 1].height <= ht
            BY <1>2, <2>1, <3>1
        <3> QED
            BY <3>2
    <2> QED
        BY <1>1, <1>2, <2>1, <2>2, <2>3 DEF Idle
<1> QED
    BY <1>1, <1>3, <1>4 DEF LogTyped

LEMMA SameItself == \A s : Same(s, s)
    BY DEF Same, SameBooks

(* The entries that follow the log, of the next height.                    *)
LEMMA FollowsLonger ==
    ASSUME ArbitersTyped, PastOK(past, height),
           Follows(n, log, lost, height, past, early, undone),
           NEW m \in Seq(Entries), Longer(m, log, height + 1, n)
    PROVE  LogFollows(m, lost, height, past)
<1>1. Idle(log, lost, height) => Same(Given(past, height, height), n)
    <2> SUFFICES ASSUME Idle(log, lost, height) PROVE Same(Given(past, height, height), n)
        OBVIOUS
    <2>1. early = {} /\ After(Last(past), n, early, height)
        BY DEF Follows
    <2>2. Given(past, height, height) = Last(past)
        BY LastGiven DEF ArbitersTyped
    <2> QED
        BY <2>1, <2>2 DEF After
<1> QED
    BY <1>1, LogLonger DEF Follows, ArbitersTyped

LEMMA ReceiveStep ==
    ASSUME ArbitersInv, NEW p \in Payloads \ Last(past).reported, Receive(p)
    PROVE  ArbitersInv'
<1> DEFINE x == Forced(n, log, <<p>>, height)
<1>1. n \in OKNodes /\ height \in Nat /\ lost \in Nat /\ log \in Seq(Entries)
      /\ LogTyped(log, height) /\ early \in SUBSET Payloads /\ PastOK(past, height)
    BY DEF ArbitersInv, ArbitersTyped, LogTyped
<1>2. <<p>> \in Seq(Payloads) /\ Range(<<p>>) = {p}
    BY DEF Range
<1>3. x \in Pairs /\ Good(x, n, log, {p}, height)
    <2>1. PICK ps \in Seq(Payloads) : ps = <<p>>
        BY <1>2
    <2>2. Forced(n, log, ps, height) \in Pairs
          /\ Good(Forced(n, log, ps, height), n, log, Range(ps), height)
        BY <1>1, ForcedGood
    <2> QED
        BY <1>2, <2>1, <2>2
<1>4. /\ n' = x[1] /\ log' = Trim(x[2]) /\ lost' = Dropped(x[2]) /\ early' = early \cup {p}
      /\ rough' = rough \cup Case(p \in undone, "again")
      /\ height' = height /\ past' = past /\ undone' = undone
    BY DEF Receive
<1>5. rough' = {} => /\ After(Last(past), x[1], early \cup {p}, height)
                     /\ rough = {} /\ p \notin undone
    <2> SUFFICES ASSUME rough' = {}
                 PROVE  /\ After(Last(past), x[1], early \cup {p}, height)
                        /\ rough = {} /\ p \notin undone
        OBVIOUS
    <2>1. rough = {} /\ p \notin undone
        BY <1>4 DEF Case
    <2>2. /\ After(Last(past), n, early, height) /\ early \subseteq n.reported
          /\ n.reported \subseteq Last(past).reported \cup undone \cup early
        BY <2>1 DEF ArbitersInv, Follows
    <2>3. n.reported \cap Range(<<p>>) \subseteq early
        BY <1>2, <2>1, <2>2
    <2>4. Last(past) \in Nodes
        BY <1>1, LastGiven DEF OKNodes
    <2>5. After(Last(past), x[1], early \cup Range(<<p>>), height)
        BY <1>1, <1>2, <2>2, <2>3, <2>4, ForcedAfter
    <2> QED
        BY <1>2, <2>1, <2>5
<1> HIDE DEF x
<1>6. PICK t \in OKNodes, m \in Seq(Entries) : x = <<t, m>>
    BY <1>3 DEF Pairs
<1>7. /\ Longer(m, log, height + 1, n) /\ (Len(m) = Len(log) => t = n)
      /\ t.reported = n.reported \cup {p}
    BY <1>3, <1>6 DEF Good
<1>8. LogTyped(m, height) /\ (Idle(m, lost, height) => Idle(log, lost, height) /\ Len(m) = Len(log))
    BY <1>1, <1>7, LongerTyped
<1>9. /\ Dropped(m) \in Nat /\ LogTyped(Trim(m), height)
      /\ LogFollows(m, lost, height, past) => LogFollows(Trim(m), Dropped(m), height, past)
      /\ Idle(Trim(m), Dropped(m), height) => Idle(m, lost, height)
    BY <1>1, <1>8, LogTrimmed
<1>10. n' = t /\ log' = Trim(m) /\ lost' = Dropped(m)
    BY <1>4, <1>6
<1>11. ArbitersTyped'
    BY <1>1, <1>4, <1>9, <1>10 DEF ArbitersTyped
<1>12. ASSUME rough' = {}
       PROVE  Follows(t, Trim(m), Dropped(m), height, past, early \cup {p}, undone)
    <2>1. rough = {} /\ p \notin undone /\ After(Last(past), t, early \cup {p}, height)
        BY <1>5, <1>6, <1>12
    <2>2. Follows(n, log, lost, height, past, early, undone)
        BY <2>1 DEF ArbitersInv
    <2>3. early \cup {p} \subseteq t.reported
          /\ t.reported \subseteq Last(past).reported \cup undone \cup (early \cup {p})
        BY <1>7, <2>2 DEF Follows
    <2>4. LogFollows(m, lost, height, past)
        BY <1>1, <1>7, <2>2, FollowsLonger DEF ArbitersInv
    <2>5. ~Idle(Trim(m), Dropped(m), height)
        <3> SUFFICES ASSUME Idle(Trim(m), Dropped(m), height) PROVE FALSE
            OBVIOUS
        <3>1. Idle(log, lost, height) /\ Len(m) = Len(log)
            BY <1>8, <1>9
        <3>2. early = {} /\ t = n
            BY <1>7, <2>2, <3>1 DEF Follows
        <3>3. p \in n.reported
            BY <1>7, <3>2
        <3> QED
            BY <2>1, <2>2, <3>2, <3>3 DEF Follows
    <2> QED
        BY <1>9, <2>1, <2>3, <2>4, <2>5 DEF Follows
<1> QED
    BY <1>1, <1>4, <1>10, <1>11, <1>12 DEF ArbitersInv

(* The blocks a node may get.                                              *)
BlockOK(b) ==
    /\ b.special \in Seq(Payloads) /\ Range(b.special) \cap Last(past).reported = {}
    /\ Range(b.special) \in SUBSET Payloads
    /\ b.active \in SUBSET Producers /\ b.reward \in Rewards

LEMMA BlocksOK ==
    ASSUME ArbitersInv, NEW b \in Blocks
    PROVE  BlockOK(b)
<1>1. Last(past).active \in SUBSET Producers
    BY LastGiven DEF ArbitersInv, ArbitersTyped, OKNodes, Nodes
<1>2. ASSUME NEW sp \in Seq(Payloads), Range(sp) \cap Last(past).reported = {},
             Range(sp) \in SUBSET Payloads,
             NEW fl \in SUBSET Producers, NEW r \in Rewards
      PROVE  BlockOK(Block(sp, fl, r))
    <2>1. SymDiff(Last(past).active, fl) \subseteq Producers
        BY <1>1 DEF SymDiff
    <2> QED
        BY <1>2, <2>1 DEF BlockOK, Block
<1>3. ASSUME NEW ps \in SUBSET (Payloads \ Last(past).reported), NEW sp \in SetToSeqs(ps)
      PROVE  sp \in Seq(Payloads) /\ Range(sp) \cap Last(past).reported = {}
             /\ Range(sp) \in SUBSET Payloads
    <2>1. Cardinality(ps) \in Nat
        BY PayloadsAssumption, FS_Subset, FS_CardinalityType
    <2>2. sp \in [1..Cardinality(ps) -> ps]
        BY DEF SetToSeqs
    <2>3. sp \in Seq(Payloads)
        BY <2>1, <2>2
    <2> QED
        BY <2>2, <2>3 DEF Range
<1> DEFINE Bare(p, r) == Block(<<>>, {p}, r)
           Reporting == {Block(special, {}, r) :
               special \in UNION {SetToSeqs(ps) : ps \in SUBSET (Payloads \ Last(past).reported)},
               r \in Rewards}
           Other == {Bare(p, r) : p \in Producers, r \in Rewards}
<1>4. CASE b \in Reporting
    <2>1. PICK sp \in UNION {SetToSeqs(ps) : ps \in SUBSET (Payloads \ Last(past).reported)},
               r \in Rewards : b = Block(sp, {}, r)
        BY <1>4
    <2>2. PICK ps \in SUBSET (Payloads \ Last(past).reported) : sp \in SetToSeqs(ps)
        OBVIOUS
    <2>3. sp \in Seq(Payloads) /\ Range(sp) \cap Last(past).reported = {}
          /\ Range(sp) \in SUBSET Payloads /\ {} \in SUBSET Producers
        BY <1>3, <2>2
    <2> QED
        BY <1>2, <2>1, <2>3
<1>5. CASE b \in Other
    <2>1. PICK p \in Producers, r \in Rewards : b = Bare(p, r)
        <3> HIDE DEF Bare
        <3> QED
            BY <1>5
    <2>2. <<>> \in Seq(Payloads) /\ Range(<<>>) = {} /\ {p} \in SUBSET Producers
        BY DEF Range
    <2>3. PICK sp \in Seq(Payloads) : sp = <<>>
        BY <2>2
    <2> QED
        BY <1>2, <2>1, <2>2, <2>3
<1>6. Blocks = Reporting \cup Other
    BY DEF Blocks
<1> HIDE DEF Reporting, Other
<1> QED
    BY <1>4, <1>5, <1>6

LEMMA Appended ==
    ASSUME NEW S, NEW q \in Seq(S), NEW e \in S
    PROVE  /\ Append(q, e) \in Seq(S) /\ Len(Append(q, e)) = Len(q) + 1 /\ Len(q) \in Nat
           /\ Append(q, e)[Len(q) + 1] = e /\ \A i \in 1..Len(q) : Append(q, e)[i] = q[i]
    OBVIOUS

Kept(pa) == IF Len(pa) > MaxRollback THEN Tail(pa) ELSE pa

LEMMA PastGrows ==
    ASSUME NEW ht \in Nat, NEW pa, PastOK(pa, ht), NEW w \in OKNodes, Between(w, ht + 1)
    PROVE  LET pb == Append(Kept(pa), w)
           IN  PastOK(pb, ht + 1) /\ Extends(pb, pa, ht) /\ Last(pb) = w
<1>0. PICK pb : pb = Append(Kept(pa), w)
    OBVIOUS
<1>1. PICK k \in Nat \ {0} : k = Len(pa)
    BY DEF PastOK
<1>2. /\ pa \in Seq(OKNodes) /\ k - 1 <= ht
      /\ \A i \in 1..k : Between(pa[i], (ht - k) + i)
    BY <1>1 DEF PastOK
<1>3. ASSUME Len(pa) > MaxRollback
      PROVE  PastOK(pb, ht + 1) /\ Extends(pb, pa, ht) /\ Last(pb) = w
    <2> DEFINE a == Tail(pa)
    <2>1. a \in Seq(OKNodes) /\ Len(a) = k - 1 /\ \A i \in 1..(k - 1) : a[i] = pa[i + 1]
        BY <1>1, <1>2
    <2>2. pb = Append(a, w)
        BY <1>0, <1>3 DEF Kept
    <2> HIDE DEF a
    <2>3. pb \in Seq(OKNodes) /\ Len(pb) = k /\ pb[k] = w /\ \A i \in 1..(k - 1) : pb[i] = pa[i + 1]
        <3>1. PICK j \in Nat : j = k - 1 /\ j = Len(a) /\ j + 1 = k
            BY <2>1
        <3>2. pb \in Seq(OKNodes) /\ Len(pb) = j + 1 /\ pb[j + 1] = w /\ \A i \in 1..j : pb[i] = a[i]
            <4>1. /\ Append(a, w) \in Seq(OKNodes) /\ Len(Append(a, w)) = Len(a) + 1
                  /\ Append(a, w)[Len(a) + 1] = w
                  /\ \A i \in 1..Len(a) : Append(a, w)[i] = a[i]
                BY <2>1, Appended
            <4>2. Len(a) = j
                BY <3>1
            <4> QED
                BY <2>2, <4>1, <4>2, Zenon
        <3> QED
            BY <2>1, <3>1, <3>2
    <2>4. ASSUME NEW i \in 1..k PROVE Between(pb[i], ((ht + 1) - k) + i)
        <3>1. CASE i = k
            <4>1. ((ht + 1) - k) + i = ht + 1
                BY <1>2, <3>1
            <4> QED
                BY <2>3, <3>1, <4>1
        <3>2. CASE i # k
            <4>1. i \in 1..(k - 1) /\ i + 1 \in 1..k /\ ((ht + 1) - k) + i = (ht - k) + (i + 1)
                BY <3>2
            <4> QED
                BY <1>2, <2>3, <4>1
        <3> QED
            BY <3>1, <3>2
    <2>5. ASSUME NEW y \in 0..ht, (ht + 1) - y < k
          PROVE  ht - y < k /\ Given(pb, ht + 1, y) = Given(pa, ht, y)
        <3>1. PICK q \in 1..(k - 1) : q = k - ((ht + 1) - y) /\ q + 1 = k - (ht - y)
            BY <2>5
        <3>2. pb[q] = pa[q + 1]
            BY <2>3
        <3> QED
            BY <1>1, <2>3, <2>5, <3>1, <3>2 DEF Given
    <2>6. k > 0 /\ k - 1 <= ht + 1
        BY <1>2
    <2>7. PastOK(pb, ht + 1)
        BY <2>3, <2>4, <2>6 DEF PastOK
    <2>8. Extends(pb, pa, ht)
        BY <1>1, <2>3, <2>5 DEF Extends
    <2>9. Last(pb) = w
        BY <2>3 DEF Last
    <2> QED
        BY <2>7, <2>8, <2>9
<1>4. ASSUME ~(Len(pa) > MaxRollback)
      PROVE  PastOK(pb, ht + 1) /\ Extends(pb, pa, ht) /\ Last(pb) = w
    <2>1. pb = Append(pa, w)
        BY <1>0, <1>4 DEF Kept
    <2>2. pb \in Seq(OKNodes) /\ Len(pb) = k + 1 /\ pb[k + 1] = w /\ \A i \in 1..k : pb[i] = pa[i]
        BY <1>1, <1>2, <2>1
    <2>3. ASSUME NEW i \in 1..(k + 1) PROVE Between(pb[i], ((ht + 1) - (k + 1)) + i)
        <3>1. CASE i = k + 1
            <4>1. ((ht + 1) - (k + 1)) + i = ht + 1
                BY <1>2, <3>1
            <4> QED
                BY <2>2, <3>1, <4>1
        <3>2. CASE i # k + 1
            <4>1. i \in 1..k /\ ((ht + 1) - (k + 1)) + i = (ht - k) + i
                BY <3>2
            <4> QED
                BY <1>2, <2>2, <4>1
        <3> QED
            BY <3>1, <3>2
    <2>4. ASSUME NEW y \in 0..ht, (ht + 1) - y < k + 1
          PROVE  ht - y < k /\ Given(pb, ht + 1, y) = Given(pa, ht, y)
        <3>1. PICK q \in 1..k : q = (k + 1) - ((ht + 1) - y) /\ q = k - (ht - y)
            BY <2>4
        <3>2. pb[q] = pa[q]
            BY <2>2
        <3> QED
            BY <1>1, <2>2, <2>4, <3>1, <3>2 DEF Given
    <2>5. k + 1 > 0 /\ (k + 1) - 1 <= ht + 1
        BY <1>2
    <2>6. PastOK(pb, ht + 1)
        BY <2>2, <2>3, <2>5 DEF PastOK
    <2>7. Extends(pb, pa, ht)
        BY <1>1, <2>2, <2>4 DEF Extends
    <2>8. Last(pb) = w
        BY <2>2 DEF Last
    <2> QED
        BY <2>6, <2>7, <2>8
<1>5. PastOK(pb, ht + 1) /\ Extends(pb, pa, ht) /\ Last(pb) = w
    BY <1>3, <1>4
<1> QED
    BY <1>0, <1>5

LEMMA TwoMore ==
    ASSUME NEW m \in Seq(Entries), NEW a \in Entries, NEW b \in Entries
    PROVE  m \o <<a, b>> = Append(Append(m, a), b)
<1>1. m \o <<a, b>> \in Seq(Entries) /\ Append(Append(m, a), b) \in Seq(Entries)
    OBVIOUS
<1>2. Len(m \o <<a, b>>) = Len(m) + 2 /\ Len(Append(Append(m, a), b)) = Len(m) + 2
    OBVIOUS
<1>3. \A i \in 1..(Len(m) + 2) : (m \o <<a, b>>)[i] = Append(Append(m, a), b)[i]
    OBVIOUS
<1> QED
    BY <1>1, <1>2, <1>3

LEMMA ConnectStep ==
    ASSUME ArbitersInv, NEW b \in Blocks, Connect(b)
    PROVE  ArbitersInv'
<1> DEFINE x == Forced(n, log, b.special, height)
           y == Forced(Last(past), <<>>, b.special, height)
           R == Range(b.special)
<1>1. n \in OKNodes /\ height \in Nat /\ lost \in Nat /\ log \in Seq(Entries)
      /\ LogTyped(log, height) /\ early \in SUBSET Payloads /\ PastOK(past, height)
    BY DEF ArbitersInv, ArbitersTyped, LogTyped
<1>2. /\ b.special \in Seq(Payloads) /\ R \cap Last(past).reported = {} /\ R \in SUBSET Payloads
      /\ b.active \in SUBSET Producers /\ b.reward \in Rewards /\ b.reward \in Nat
    BY BlocksOK, RewardBounds DEF BlockOK
<1>3. Last(past) \in OKNodes /\ Last(past) \in Nodes /\ Between(Last(past), height)
    BY <1>1, LastGiven DEF OKNodes
<1>4. PICK h \in Nat : h = height + 1
    BY <1>1
<1>5. /\ n' = Increase(x[1], b, h)
      /\ log' = Trim(x[2] \o <<Entry(x[1], h), Entry(n', h)>>)
      /\ lost' = Dropped(x[2] \o <<Entry(x[1], h), Entry(n', h)>>)
      /\ height' = h
      /\ past' = Append(IF Len(past) > MaxRollback THEN Tail(past) ELSE past,
                        Increase(y[1], b, h))
      /\ early' = {} /\ undone' = undone
      /\ rough' = rough \cup Case(~(early \subseteq R), "late") \cup Case(R \cap undone # {}, "again")
    BY <1>4 DEF Connect
<1>6. x \in Pairs /\ Good(x, n, log, R, height)
    BY <1>1, <1>2, ForcedGood
<1>7. y \in Pairs /\ Good(y, Last(past), <<>>, R, height) /\ After(Last(past), y[1], R, height)
    <2>0. <<>> \in Seq(Entries)
        OBVIOUS
    <2>1. PICK l \in Seq(Entries) : l = <<>>
        BY <2>0, Zenon
    <2>2. Forced(Last(past), l, b.special, height) \in Pairs
          /\ Good(Forced(Last(past), l, b.special, height), Last(past), l, R, height)
        BY <1>1, <1>2, <1>3, ForcedGood
    <2>3. After(Last(past), Last(past), {}, height)
        BY SameItself DEF After
    <2>4. PICK Q \in SUBSET Payloads : Q = {}
        OBVIOUS
    <2>5. After(Last(past), Last(past), Q, height) /\ Q \subseteq Last(past).reported
          /\ Last(past).reported \cap R \subseteq Q
        BY <1>2, <2>3, <2>4
    <2>6. After(Last(past), Forced(Last(past), l, b.special, height)[1], Q \cup R, height)
        BY <1>1, <1>2, <1>3, <2>5, ForcedAfter
    <2>7. Q \cup R = R
        BY <2>4
    <2> QED
        BY <2>1, <2>2, <2>6, <2>7
<1>8. rough' = {} => After(Last(past), x[1], R, height) /\ rough = {} /\ early \subseteq R
    <2> SUFFICES ASSUME rough' = {}
                 PROVE  After(Last(past), x[1], R, height) /\ rough = {} /\ early \subseteq R
        OBVIOUS
    <2>1. rough = {} /\ early \subseteq R /\ R \cap undone = {}
        BY <1>5 DEF Case
    <2>2. /\ After(Last(past), n, early, height) /\ early \subseteq n.reported
          /\ n.reported \subseteq Last(past).reported \cup undone \cup early
        BY <2>1 DEF ArbitersInv, Follows
    <2>3. n.reported \cap R \subseteq early
        BY <1>2, <2>1, <2>2
    <2>4. After(Last(past), x[1], early \cup R, height)
        BY <1>1, <1>2, <1>3, <2>2, <2>3, ForcedAfter
    <2>5. early \cup R = R
        BY <2>1
    <2> QED
        BY <2>1, <2>4, <2>5
<1> HIDE DEF x, y, R
<1>9. PICK t \in OKNodes, m \in Seq(Entries) : x = <<t, m>>
    BY <1>6 DEF Pairs
<1>10. PICK v \in OKNodes, k \in Seq(Entries) : y = <<v, k>>
    BY <1>7 DEF Pairs
<1>11. /\ Longer(m, log, h, n) /\ (Len(m) = Len(log) => t = n)
       /\ t.reported = n.reported \cup R /\ v.reported = Last(past).reported \cup R
    BY <1>4, <1>6, <1>7, <1>9, <1>10 DEF Good
<1>12. PICK u : u = Increase(t, b, h)
    OBVIOUS
<1>13. PICK w : w = Increase(v, b, h)
    OBVIOUS
<1>14. u \in OKNodes /\ Grown(t, u, b, h) /\ u.reported = t.reported
    BY <1>2, <1>12, IncreaseEffect DEF OKNodes, NodeOK
<1>15. w \in OKNodes /\ Grown(v, w, b, h) /\ w.reported = v.reported
    BY <1>2, <1>13, IncreaseEffect DEF OKNodes, NodeOK
<1>16. Between(w, h)
    <2>1. NodeOK(v) /\ After(Last(past), v, R, height)
        BY <1>7, <1>10 DEF OKNodes
    <2> QED
        BY <1>1, <1>2, <1>3, <1>4, <1>13, <2>1, BetweenGrows
<1> DEFINE m1 == Append(m, Entry(t, h))
           m2 == Append(m1, Entry(u, h))
<1>17. m1 \in Seq(Entries) /\ Longer(m1, log, h, n) /\ Len(m1) > Len(log)
    <2>1. Entry(t, h) \in Entries /\ Entry(t, h).height = h /\ Entry(t, h).fields = t
        BY DEF Entry, Entries
    <2>2. Len(m) = Len(log) => Entry(t, h).fields = n
        BY <1>11, <2>1
    <2> QED
        BY <1>1, <1>11, <2>1, <2>2, LongerAppend
<1>18. m2 \in Seq(Entries) /\ Longer(m2, log, h, n) /\ Len(m2) > Len(log)
    <2>1. Entry(u, h) \in Entries /\ Entry(u, h).height = h
        BY <1>14 DEF Entry, Entries
    <2>2. Len(m1) # Len(log)
        <3>1. Len(log) \in Nat
            BY <1>1
        <3> HIDE DEF m1
        <3> QED
            BY <1>17, <3>1
    <2> HIDE DEF m1
    <2> QED
        BY <1>1, <1>17, <2>1, <2>2, LongerAppend
<1>19. n' = u /\ log' = Trim(m2) /\ lost' = Dropped(m2)
    <2>1. n' = u
        BY <1>5, <1>9, <1>12
    <2>2. Entry(t, h) \in Entries /\ Entry(u, h) \in Entries
        BY <1>14 DEF Entry, Entries
    <2>3. m \o <<Entry(t, h), Entry(u, h)>> = m2
        BY <2>2, TwoMore
    <2>4. x[1] = t /\ x[2] = m
        BY <1>9
    <2> HIDE DEF m2
    <2> QED
        BY <1>5, <2>1, <2>3, <2>4, Zenon
<1> HIDE DEF m1, m2
<1>20. PastOK(past', h) /\ Extends(past', past, height) /\ Last(past') = w
    <2>1. PICK pb : pb = past'
        OBVIOUS
    <2>2. pb = Append(IF Len(past) > MaxRollback THEN Tail(past) ELSE past, w)
        BY <1>5, <1>10, <1>13, <2>1
    <2>3. PastOK(pb, height + 1) /\ Extends(pb, past, height) /\ Last(pb) = w
        <3>1. Between(w, height + 1) /\ w \in OKNodes
            BY <1>4, <1>15, <1>16
        <3>2. pb = Append(Kept(past), w)
            BY <2>2 DEF Kept
        <3> QED
            BY <1>1, <3>1, <3>2, PastGrows
    <2> QED
        BY <1>4, <2>1, <2>3
<1>21. LogTyped(m2, height) /\ LogTyped(m2, h)
    <2>1. LogTyped(m2, height)
        BY <1>1, <1>4, <1>18, LongerTyped
    <2>2. \A i \in 1..Len(m2) : m2[i].height <= h + 1
        <3> SUFFICES ASSUME NEW i \in 1..Len(m2) PROVE m2[i].height <= h + 1
            OBVIOUS
        <3>1. m2[i].height \in Nat /\ m2[i].height <= height + 1
            BY <1>18, <2>1, EntryTyped DEF LogTyped
        <3> QED
            BY <1>1, <1>4, <3>1
    <2> QED
        BY <1>18, <2>1, <2>2 DEF LogTyped
<1>22. /\ Dropped(m2) \in Nat /\ LogTyped(Trim(m2), h)
       /\ LogFollows(m2, lost, h, past') => LogFollows(Trim(m2), Dropped(m2), h, past')
    <2>1. PICK pb : pb = past'
        OBVIOUS
    <2> QED
        BY <1>1, <1>21, <2>1, LogTrimmed
<1>23. ASSUME rough' = {}
       PROVE  Follows(u, Trim(m2), Dropped(m2), h, past', {}, undone)
    <2>1. After(Last(past), t, R, height) /\ rough = {} /\ early \subseteq R
        BY <1>8, <1>9, <1>23
    <2>2. Follows(n, log, lost, height, past, early, undone)
        BY <2>1 DEF ArbitersInv
    <2>3. Same(w, u)
        <3>1. After(Last(past), v, R, height)
            BY <1>7, <1>10
        <3>2. Same(v, t)
            BY <2>1, <3>1, AfterUnique
        <3> QED
            BY <1>14, <1>15, <3>2, GrownUnique
    <2>4. u.reported \subseteq w.reported \cup undone
        BY <1>11, <1>14, <1>15, <2>1, <2>2 DEF Follows
    <2>5. LogFollows(m2, lost, height, past)
        BY <1>1, <1>4, <1>18, <2>2, FollowsLonger DEF ArbitersInv
    <2>6. LogFollows(m2, lost, h, past')
        <3>1. PICK pb : pb = past'
            OBVIOUS
        <3>2. PICK q \in 1..Len(m2) : m2[q].height = height + 1
            <4>1. PICK i \in Nat, j \in Nat : i = Len(m2) /\ j = Len(log)
                BY <1>1, <1>18
            <4>2. i > j /\ \A q \in (j + 1)..i : m2[q].height = h
                BY <1>18, <4>1 DEF Longer
            <4>3. i \in (j + 1)..i /\ i \in 1..i
                BY <4>2
            <4> QED
                BY <1>4, <4>1, <4>2, <4>3
        <3>3. LogFollows(m2, lost, height + 1, pb)
            BY <1>1, <1>20, <1>21, <2>5, <3>1, <3>2, LogHigher
        <3> QED
            BY <1>4, <3>1, <3>3
    <2>7. After(w, u, {}, h)
        BY <2>3 DEF After
    <2> QED
        BY <1>20, <1>22, <2>4, <2>6, <2>7 DEF Follows
<1>24. ArbitersTyped'
    BY <1>4, <1>5, <1>14, <1>19, <1>22 DEF ArbitersTyped
<1>25. PastOK(past', height')
    BY <1>5, <1>20
<1>26. rough' = {} => Follows(n', log', lost', height', past', early', undone')
    BY <1>5, <1>19, <1>23
<1> QED
    BY <1>24, <1>25, <1>26 DEF ArbitersInv

(* What a rollback keeps of the fields it finds.                           *)
LEMMA RolledBack ==
    ASSUME NEW f \in OKNodes, NEW g \in OKNodes, NEW h \in Nat
    PROVE  LET r == RollbackMode([f EXCEPT !.mode = g.mode, !.since = g.since,
                                           !.reported = g.reported, !.temp = {}], h)
           IN  r \in OKNodes /\ r.reported = g.reported /\ (f.temp = {} => Same(f, r))
<1> DEFINE e == [f EXCEPT !.mode = g.mode, !.since = g.since,
                          !.reported = g.reported, !.temp = {}]
           r == RollbackMode(e, h)
<1>1. f \in Nodes /\ g \in Nodes /\ NodeOK(f)
    BY DEF OKNodes
<1>2. g.mode \in {"normal", "inactive", "understaffed"} /\ g.since \in Nat
      /\ g.reported \in SUBSET Payloads
    BY <1>1 DEF Nodes
<1>3. e \in Nodes /\ e.reported = g.reported /\ (f.temp = {} => Same(f, e))
      /\ e.current = f.current /\ e.next = f.next /\ e.duty = f.duty
    BY <1>1, <1>2 DEF Nodes, Same, SameBooks
<1> HIDE DEF e
<1>4. r \in Nodes /\ r.reported = e.reported /\ Same(e, r)
    BY <1>3 DEF RollbackMode, Nodes, Same, SameBooks
<1> HIDE DEF r
<1>5. f.temp = {} => Same(f, r)
    BY <1>3, <1>4 DEF Same, SameBooks
<1>6. NodeOK(r)
    BY <1>1, <1>3, <1>4 DEF NodeOK, Same
<1> QED
    BY <1>3, <1>4, <1>5, <1>6 DEF OKNodes, e, r

LEMMA PastShrinks ==
    ASSUME NEW ht \in Nat, NEW pa, PastOK(pa, ht + 1), Len(pa) > 1
    PROVE  /\ PastOK(Front(pa), ht) /\ Extends(pa, Front(pa), ht)
           /\ Len(Front(pa)) \in Nat /\ Len(pa) = Len(Front(pa)) + 1
           /\ Given(pa, ht + 1, ht) = Last(Front(pa))
<1>1. PICK j \in Nat \ {0} : Len(pa) = j + 1
    <2>1. Len(pa) \in Nat /\ Len(pa) > 1
        BY DEF PastOK
    <2>2. Len(pa) - 1 \in Nat \ {0} /\ Len(pa) = (Len(pa) - 1) + 1
        BY <2>1
    <2> QED
        BY <2>2
<1>2. pa \in Seq(OKNodes) /\ (j + 1) - 1 <= ht + 1
      /\ \A i \in 1..(j + 1) : Between(pa[i], ((ht + 1) - (j + 1)) + i)
    BY <1>1 DEF PastOK
<1> DEFINE a == Front(pa)
<1>3. a \in Seq(OKNodes) /\ Len(a) = j /\ \A i \in 1..j : a[i] = pa[i]
    <2>1. (j + 1) - 1 = j
        OBVIOUS
    <2>2. a = SubSeq(pa, 1, j)
        BY <1>1, <2>1 DEF Front
    <2>3. SubSeq(pa, 1, j) \in Seq(OKNodes) /\ Len(SubSeq(pa, 1, j)) = j
          /\ \A i \in 1..j : SubSeq(pa, 1, j)[i] = pa[i]
        BY <1>1, <1>2
    <2> QED
        BY <2>2, <2>3
<1> HIDE DEF a
<1>4. ASSUME NEW i \in 1..j PROVE Between(a[i], (ht - j) + i)
    <2>1. i \in 1..(j + 1) /\ ((ht + 1) - (j + 1)) + i = (ht - j) + i
        OBVIOUS
    <2> QED
        BY <1>2, <1>3, <2>1
<1>5. PastOK(a, ht)
    <2>1. j > 0 /\ j - 1 <= ht
        BY <1>2
    <2> QED
        BY <1>3, <1>4, <2>1 DEF PastOK
<1>6. ASSUME NEW y \in 0..ht, (ht + 1) - y < j + 1
      PROVE  ht - y < j /\ Given(pa, ht + 1, y) = Given(a, ht, y)
    <2>1. PICK q \in 1..j : q = (j + 1) - ((ht + 1) - y) /\ q = j - (ht - y)
        BY <1>6
    <2>2. pa[q] = a[q]
        BY <1>3
    <2> QED
        BY <1>1, <1>3, <1>6, <2>1, <2>2 DEF Given
<1>7. Extends(pa, a, ht)
    BY <1>1, <1>3, <1>6 DEF Extends
<1>8. Given(pa, ht + 1, ht) = Last(a)
    <2>1. (j + 1) - ((ht + 1) - ht) = j /\ j \in 1..j
        OBVIOUS
    <2>2. pa[j] = a[j]
        BY <1>3, <2>1
    <2> QED
        BY <1>1, <1>3, <2>1, <2>2 DEF Given, Last
<1> QED
    BY <1>1, <1>3, <1>5, <1>7, <1>8 DEF a

LEMMA DisconnectStep ==
    ASSUME ArbitersInv, Disconnect
    PROVE  ArbitersInv'
<1>1. n \in OKNodes /\ height \in Nat /\ lost \in Nat /\ log \in Seq(Entries)
      /\ LogTyped(log, height) /\ early \in SUBSET Payloads /\ PastOK(past, height)
      /\ Len(past) > 1
    BY DEF ArbitersInv, ArbitersTyped, LogTyped, Disconnect
<1>2. PICK h \in Nat : h = height - 1 /\ height = h + 1
    <2>1. Len(past) - 1 <= height /\ Len(past) \in Nat
        BY <1>1, LastGiven DEF PastOK
    <2>2. height - 1 \in Nat /\ height = (height - 1) + 1
        BY <1>1, <2>1
    <2> QED
        BY <2>2
<1> DEFINE above == {i \in DOMAIN log : log[i].height > h}
           fields == IF above = {} THEN n ELSE log[Min(above)].fields
           rest == IF above = {} THEN log ELSE SubSeq(log, 1, Min(above) - 1)
<1>3. /\ n' = RollbackMode([fields EXCEPT !.mode = n.mode, !.since = n.since,
                                          !.reported = n.reported, !.temp = {}], h)
      /\ log' = rest /\ height' = h /\ past' = Front(past) /\ lost' = lost
      /\ undone' = n.reported \ Last(past').reported /\ early' = {}
      /\ rough' = rough \cup Case(height <= lost, "short")
    BY <1>2 DEF Disconnect
<1>4. \A i \in 1..Len(log) : log[i].height \in Nat /\ log[i].fields \in OKNodes
    BY <1>1, EntryTyped
<1>5. above = {i \in 1..Len(log) : log[i].height >= h + 1}
    <2>1. DOMAIN log = 1..Len(log)
        BY <1>1
    <2>2. \A i \in 1..Len(log) : log[i].height > h <=> log[i].height >= h + 1
        BY <1>4
    <2> QED
        BY <2>1, <2>2
<1>6. above # {} => First(log, h + 1, Min(above))
    <2> SUFFICES ASSUME above # {} PROVE First(log, h + 1, Min(above))
        OBVIOUS
    <2>1. PICK i \in 1..Len(log) : log[i].height >= h + 1
        BY <1>5
    <2>2. h + 1 \in Nat
        OBVIOUS
    <2>3. First(log, h + 1, Min({j \in 1..Len(log) : log[j].height >= h + 1}))
        BY <1>1, <2>1, <2>2, FirstExists
    <2> QED
        BY <1>5, <2>3
<1>7. above = {} => \A i \in 1..Len(log) : log[i].height <= h + 1
    <2>1. \A i \in 1..Len(log) : ~(log[i].height >= h + 1) => log[i].height <= h + 1
        BY <1>4
    <2> QED
        BY <1>5, <2>1
<1> HIDE DEF above
<1>8. fields \in OKNodes /\ LogTyped(rest, h)
    <2>1. CASE above = {}
        BY <1>1, <1>7, <2>1 DEF LogTyped
    <2>2. CASE above # {}
        <3>1. PICK i : i = Min(above)
            OBVIOUS
        <3>2. i \in 1..Len(log) /\ \A j \in 1..(i - 1) : log[j].height < h + 1
            BY <1>6, <2>2, <3>1 DEF First
        <3>3. PICK a : a = SubSeq(log, 1, i - 1)
            OBVIOUS
        <3>4. a \in Seq(Entries) /\ Len(a) = i - 1 /\ \A j \in 1..(i - 1) : a[j] = log[j]
            BY <1>1, <3>2, <3>3
        <3>5. \A j \in 1..(i - 1) : a[j].height <= h + 1
            <4> SUFFICES ASSUME NEW j \in 1..(i - 1) PROVE a[j].height <= h + 1
                OBVIOUS
            <4>1. j \in 1..Len(log) /\ log[j].height < h + 1 /\ a[j] = log[j]
                BY <3>2, <3>4
            <4>2. log[j].height \in Nat
                BY <1>4, <4>1
            <4> QED
                BY <4>1, <4>2
        <3>6. LogTyped(a, h)
            BY <3>4, <3>5 DEF LogTyped
        <3>7. rest = a /\ fields = log[i].fields
            BY <2>2, <3>1, <3>3
        <3> QED
            BY <1>4, <3>2, <3>6, <3>7
    <2> QED
        BY <2>1, <2>2
<1>9. n' \in OKNodes /\ n'.reported = n.reported /\ (fields.temp = {} => Same(fields, n'))
    <2> HIDE DEF fields
    <2> QED
        BY <1>1, <1>3, <1>8, RolledBack
<1>10. /\ PastOK(Front(past), h) /\ Extends(past, Front(past), h)
       /\ Len(Front(past)) \in Nat /\ Len(past) = Len(Front(past)) + 1
       /\ Given(past, h + 1, h) = Last(Front(past))
    <2>1. PastOK(past, h + 1)
        BY <1>1, <1>2
    <2> QED
        BY <1>1, <2>1, PastShrinks
<1>11. ArbitersTyped'
    <2>1. {} \in SUBSET Payloads
        OBVIOUS
    <2> QED
        BY <1>1, <1>3, <1>8, <1>9, <2>1 DEF ArbitersTyped
<1>12. PastOK(past', height')
    BY <1>3, <1>10
<1>13. ASSUME rough' = {}
       PROVE  Follows(n', rest, lost, h, Front(past), {}, undone')
    <2>1. rough = {} /\ ~(height <= lost)
        BY <1>3, <1>13 DEF Case
    <2>2. LogFollows(log, lost, h + 1, past) /\ LogTyped(log, h + 1)
        BY <1>1, <1>2, <2>1 DEF ArbitersInv, Follows
    <2>3. PICK x \in (lost + 1)..((h + 1) + 1) : x = h + 1
        BY <1>1, <1>2, <2>1
    <2>4. Start(log, h + 1, h + 1, past)
        BY <2>2, <2>3 DEF LogFollows
    <2>5. PICK i \in 1..Len(log) : First(log, h + 1, i)
        <3>1. h + 1 <= h + 1
            OBVIOUS
        <3> QED
            BY <2>4, <3>1 DEF Start
    <2>6. above # {}
        BY <1>5, <2>5 DEF First
    <2>7. PICK k \in 1..Len(log) : k = Min(above) /\ First(log, h + 1, k)
        BY <1>6, <2>6 DEF First
    <2>8. rest = SubSeq(log, 1, k - 1) /\ fields = log[k].fields
        BY <2>6, <2>7
    <2>9. Same(Last(Front(past)), fields)
        <3>1. Marks(log[k], h + 1, h + 1, past)
            BY <2>4, <2>7 DEF Start
        <3>2. (h + 1) - 1 = h /\ (h + 1) - h < Len(past)
            BY <1>1, <1>10
        <3>3. Same(Given(past, h + 1, h), log[k].fields)
            BY <3>1, <3>2 DEF Marks
        <3> QED
            BY <1>10, <2>8, <3>3
    <2>10. Last(Front(past)).temp = {}
        BY <1>10, LastGiven DEF Between
    <2>11. Same(Last(Front(past)), n')
        <3>1. fields.temp = {}
            BY <2>9, <2>10 DEF Same
        <3>2. Same(fields, n')
            BY <1>9, <3>1
        <3> HIDE DEF fields
        <3> QED
            BY <2>9, <3>2 DEF Same, SameBooks
    <2>12. After(Last(Front(past)), n', {}, h)
        BY <2>11 DEF After
    <2>13. LogFollows(rest, lost, h, Front(past))
        BY <1>1, <1>10, <2>2, <2>7, <2>8, LogLower
    <2>14. n'.reported \subseteq Last(Front(past)).reported \cup undone' \cup {}
        BY <1>3, <1>9
    <2> QED
        BY <2>12, <2>13, <2>14 DEF Follows
<1>14. rough' = {} => Follows(n', log', lost', height', past', early', undone')
    BY <1>3, <1>13
<1> QED
    BY <1>11, <1>12, <1>14 DEF ArbitersInv

LEMMA RestartStep ==
    ASSUME ArbitersInv, Restart
    PROVE  ArbitersInv'
<1>1. height \in Nat /\ PastOK(past, height)
    BY DEF ArbitersInv, ArbitersTyped
<1>2. PICK s \in OKNodes : s = Last(past) /\ Between(s, height)
    BY <1>1, LastGiven
<1>3. PICK r : r = [s EXCEPT !.mode = "normal", !.since = 0, !.reported = {}, !.forced = FALSE]
    OBVIOUS
<1>4. /\ n' = r /\ log' = <<>> /\ lost' = height /\ early' = {} /\ undone' = {}
      /\ height' = height /\ past' = past /\ rough' = rough
    BY <1>2, <1>3 DEF Restart
<1>5. s \in Nodes /\ NodeOK(s) /\ s.forced = FALSE
    BY <1>2 DEF OKNodes, Between
<1>6. r \in Nodes /\ Same(s, r) /\ r.reported = {}
    BY <1>3, <1>5 DEF Nodes, Same, SameBooks
<1>7. r \in OKNodes
    BY <1>5, <1>6 DEF OKNodes, NodeOK, Same
<1>8. LogTyped(<<>>, height) /\ LogFollows(<<>>, height, height, past)
    <2>1. <<>> \in Seq(Entries) /\ Len(<<>>) = 0
        OBVIOUS
    <2>2. LogTyped(<<>>, height)
        BY <2>1 DEF LogTyped
    <2>3. ASSUME NEW x \in (height + 1)..(height + 1) PROVE Start(<<>>, x, height, past)
        <3>1. ~(x <= height)
            BY <1>1
        <3> QED
            BY <2>1, <3>1 DEF Start
    <2> QED
        BY <2>2, <2>3 DEF LogFollows
<1>9. Follows(r, <<>>, height, height, past, {}, {})
    BY <1>2, <1>6, <1>8 DEF Follows, After
<1>10. ArbitersTyped'
    BY <1>1, <1>4, <1>7, <1>8 DEF ArbitersTyped
<1> QED
    BY <1>1, <1>4, <1>9, <1>10 DEF ArbitersInv

LEMMA ArbitersStutter ==
    ASSUME ArbitersInv, UNCHANGED vars
    PROVE  ArbitersInv'
    BY DEF ArbitersInv, ArbitersTyped, vars

LEMMA ArbitersInvariant == Spec => []ArbitersInv
<1>1. Init => ArbitersInv
    BY ArbitersInit
<1>2. ArbitersInv /\ [Next]_vars => ArbitersInv'
    <2> SUFFICES ASSUME ArbitersInv, [Next]_vars PROVE ArbitersInv'
        OBVIOUS
    <2>1. CASE \E p \in Payloads \ Last(past).reported : Receive(p)
        BY <2>1, ReceiveStep
    <2>2. CASE \E b \in Blocks : Connect(b)
        BY <2>2, ConnectStep
    <2>3. CASE Disconnect
        BY <2>3, DisconnectStep
    <2>4. CASE Restart
        BY <2>4, RestartStep
    <2>5. CASE UNCHANGED vars
        BY <2>5, ArbitersStutter
    <2> QED
        BY <2>1, <2>2, <2>3, <2>4, <2>5 DEF Next
<1> QED
    BY <1>1, <1>2, PTL DEF Spec

(* getChangeType always finds the end of the round, whatever forced        *)
(* changes, rollbacks and restarts did to the duty index.                  *)
THEOREM DutyStaysInRound == Spec => []DutyInRound
<1>1. ArbitersInv => DutyInRound
    BY DEF ArbitersInv, ArbitersTyped, OKNodes, NodeOK, DutyInRound
<1> QED
    BY <1>1, ArbitersInvariant, PTL

(* A restart or a rollback that loses the mode or the reports (recover-    *)
(* FromCheckPoints, degradation.RollbackTo) changes no later election of   *)
(* updateNextArbitrators.                                                  *)
THEOREM ElectionIgnoresMode == Spec => []ModeIrrelevant
<1>1. ArbitersInv => ModeIrrelevant
    <2> SUFFICES ASSUME ArbitersInv PROVE ModeIrrelevant
        OBVIOUS
    <2> DEFINE m == [n EXCEPT !.mode = "normal", !.reported = {}]
    <2>1. n \in Nodes /\ height \in Nat
        BY DEF ArbitersInv, ArbitersTyped, OKNodes
    <2>2. m \in Nodes /\ m.active = n.active /\ m.temp = n.temp
        BY <2>1 DEF Nodes
    <2>3. Update(n, height).next = Elected(n.active, n.temp)
          /\ Update(m, height).next = Elected(m.active, m.temp)
        <3> HIDE DEF m
        <3> QED
            BY <2>1, <2>2, UpdateEffect
    <2>4. Update(n, height).next = Update(m, height).next
        <3> HIDE DEF m
        <3> QED
            BY <2>2, <2>3
    <2> QED
        BY <2>4 DEF ModeIrrelevant
<1> QED
    BY <1>1, ArbitersInvariant, PTL

(* accumulateReward and clearingDPOSReward pay the shares of the blocks    *)
(* once: forced changes misplace one share each at most, however many of   *)
(* them come between two blocks.                                           *)
THEOREM SharesArePaidOnce == Spec => []RewardsConserved
<1>1. ArbitersInv => RewardsConserved
    <2> SUFFICES ASSUME ArbitersInv, rough = {}
                 PROVE  (n.paid + n.round + n.gathered) - (n.total + (IF n.forced THEN n.last ELSE 0))
                        \in -(n.forces * Max(Rewards)) .. n.forces * (Max(Rewards) - Min(Rewards))
        BY DEF RewardsConserved
    <2>1. /\ n \in Nodes /\ height \in Nat /\ early \in SUBSET Payloads
          /\ PastOK(past, height) /\ After(Last(past), n, early, height)
        BY DEF ArbitersInv, ArbitersTyped, OKNodes, Follows
    <2>2. Between(Last(past), height)
        BY <2>1, LastGiven
    <2>3. Within(Drift(n) - (IF n.forced THEN n.last ELSE 0), n.forces)
        BY <2>1, <2>2, Books
    <2>4. n.paid \in Nat /\ n.round \in Nat /\ n.gathered \in Nat /\ n.total \in Nat /\ n.last \in Nat
        BY <2>1, DriftTyped
    <2>5. Drift(n) - (IF n.forced THEN n.last ELSE 0)
          = (n.paid + n.round + n.gathered) - (n.total + (IF n.forced THEN n.last ELSE 0))
        BY <2>4 DEF Drift
    <2> QED
        BY <2>3, <2>5 DEF Within, Most, Least
<1> QED
    BY <1>1, ArbitersInvariant, PTL

(* Nodes with one chain have the same arbiters, duties and rewards: what a *)
(* node learnt early, rolled back or lost in a restart makes no difference *)
(* unless one of the rough cases happened to it.                           *)
THEOREM ArbitersFollowChain == Spec => []FollowsChain
<1>1. ArbitersInv => FollowsChain
    <2> SUFFICES ASSUME ArbitersInv, rough = {}, early = {} PROVE View(n) = View(Last(past))
        BY DEF FollowsChain
    <2>1. Same(Last(past), n)
        BY DEF ArbitersInv, Follows, After
    <2> QED
        BY <2>1 DEF View, Same, SameBooks
<1> QED
    BY <1>1, ArbitersInvariant, PTL
=============================================================================
