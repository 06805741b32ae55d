--------------------------- MODULE ProducersProofs ---------------------------
(***************************************************************************)
(* Producers, for every set of candidates and every sequence of blocks and *)
(* reorganizations.                                                        *)
(***************************************************************************)
EXTENDS Producers, FiniteSetsExt, FiniteSetTheorems, SequenceTheorems, WellFoundedInduction, TLAPS

-----------------------------------------------------------------------------
(* Loops: induction up to a bound, and that a loop whose steps are total   *)
(* runs to its end.  The models write a loop as a function run with run[i] *)
(* the state after i rounds.                                               *)

(* A non-empty set of naturals has the minimum FiniteSetsExt chooses.      *)
LEMMA MinProperties ==
    ASSUME NEW T \in SUBSET Nat, T # {}
    PROVE  Min(T) \in T /\ \A y \in T : Min(T) <= y
<1>1. PICK x \in T : \A y \in T : ~(<<y, x>> \in OpToRel(<, Nat))
    BY NatLessThanWellFounded, WFMin
<1>2. \A y \in T : x <= y
    <2> SUFFICES ASSUME NEW y \in T PROVE x <= y
        OBVIOUS
    <2>1. ~(y < x)
        BY <1>1 DEF OpToRel
    <2> QED
        BY <2>1
<1> QED
    BY <1>2 DEF Min

(* The greater of two integers.                                            *)
LEMMA MaxOfTwo ==
    ASSUME NEW a \in Int, NEW b \in Int
    PROVE  Max({a, b}) = IF a >= b THEN a ELSE b
BY DEF Max

(* Induction up to a bound.                                                *)
LEMMA UpTo ==
    ASSUME NEW n \in Nat, NEW T, 0 \in T, \A i \in 1..n : i - 1 \in T => i \in T
    PROVE  \A i \in 0..n : i \in T
<1> DEFINE Out == {i \in 0..n : i \notin T}
<1> SUFFICES ASSUME Out # {} PROVE FALSE
    OBVIOUS
<1>1. Min(Out) \in Out /\ \A y \in Out : Min(Out) <= y
    BY MinProperties
<1>2. PICK m \in 0..n : m = Min(Out) /\ m \notin T /\ \A y \in Out : m <= y
    BY <1>1
<1>3. m \in 1..n /\ m - 1 \in 0..n /\ m - 1 \notin Out
    BY <1>2
<1> QED
    BY <1>2, <1>3

(* A step for each index leads somewhere from every start.                 *)
Path(g, S, n, s, F) ==
    g \in [0..n -> S] /\ g[0] = s /\ \A i \in 1..n : g[i] = F[i][g[i - 1]]

LEMMA Iterate ==
    ASSUME NEW S, NEW n \in Nat, NEW s \in S, NEW F \in [1..n -> [S -> S]]
    PROVE  \E g : Path(g, S, n, s, F)
<1> DEFINE Good(m, g) == g[0] = s /\ \A i \in 1..m : g[i] = F[i][g[i - 1]]
           T == {m \in 0..n : \E g \in [0..m -> S] : Good(m, g)}
<1>1. 0 \in T
    <2> DEFINE f == [i \in 0..0 |-> s]
    <2>1. f \in [0..0 -> S] /\ Good(0, f) /\ 0 \in 0..n
        OBVIOUS
    <2> HIDE DEF f, Good
    <2> QED
        BY <2>1
<1>2. ASSUME NEW m \in 1..n, m - 1 \in T PROVE m \in T
    <2>1. PICK g \in [0..(m - 1) -> S] : Good(m - 1, g)
        BY <1>2
    <2> DEFINE f == [i \in 0..m |-> IF i = m THEN F[m][g[m - 1]] ELSE g[i]]
    <2>2. m - 1 \in 0..(m - 1) /\ g[m - 1] \in S /\ F[m][g[m - 1]] \in S
        OBVIOUS
    <2>3. f \in [0..m -> S]
        BY <2>2
    <2>4. f[0] = s
        BY <2>1
    <2>5. ASSUME NEW i \in 1..m PROVE f[i] = F[i][f[i - 1]]
        <3>1. i - 1 \in 0..(m - 1) /\ f[i - 1] = g[i - 1]
            OBVIOUS
        <3>2. CASE i = m
            BY <3>1, <3>2
        <3>3. CASE i # m
            BY <2>1, <3>1, <3>3
        <3> QED
            BY <3>2, <3>3
    <2> HIDE DEF f
    <2>6. Good(m, f) /\ m \in 0..n
        BY <2>4, <2>5
    <2> HIDE DEF Good
    <2> QED
        BY <2>3, <2>6
<1>3. n \in T
    <2> HIDE DEF T
    <2>1. \A i \in 1..n : i - 1 \in T => i \in T
        BY <1>2
    <2>2. \A i \in 0..n : i \in T
        BY <1>1, <2>1, UpTo, Zenon
    <2> QED
        BY <2>2
<1> QED
    BY <1>3 DEF Path

-----------------------------------------------------------------------------
Tables == {"pending", "activity", "inactive", "illegal", "canceled", "pendingCanceled"}
States == {"none", "pending", "active", "inactive", "illegal", "canceled", "returned"}
ProducerSet == [tables : SUBSET Tables, state : States, reg : Nat, req : Nat, cancelled : Nat,
                counting : Nat, penalty : Nat, votes : Int]
Ofs == [Candidates -> ProducerSet]

Kinds == {"register", "cancel", "request", "activate", "illegal", "emergency", "inactivity",
          "return", "vote", "nothing"}
AnyChange == [type : Kinds, p : Candidates, height : Nat, from : Tables \cup {"none"},
              reset : BOOLEAN, counting : Nat, amount : Int]

(* What a change captured goes with its kind.                              *)
Captured(c) ==
    /\ c.type = "cancel" => c.from \in {"pending", "activity"}
    /\ c.type = "activate" => c.from \in {"pending", "inactive", "illegal"}
    /\ c.type = "illegal" => c.from \in {"activity", "canceled"}
    /\ c.type = "emergency" => c.amount \in Nat
ChangeSet == {c \in AnyChange : Captured(c)}

-----------------------------------------------------------------------------
(* What one change does to the producer it is about.                       *)
LEMMA NeverTyped == Never \in Nat /\ Never > MaxHeight /\ MaxHeight \in Nat
BY ParametersAssumption DEF Never

LEMMA UnregisteredTyped ==
    /\ Unregistered \in ProducerSet /\ Unregistered.tables = {} /\ Unregistered.votes = 0
    /\ Unregistered.state = "none"
BY NeverTyped DEF Unregistered, ProducerSet, States

LEMMA MoveTyped ==
    ASSUME NEW r \in ProducerSet, NEW from \in SUBSET Tables, NEW to \in SUBSET Tables,
           NEW state \in States
    PROVE  /\ Move(r, from, to, state) \in ProducerSet
           /\ Move(r, from, to, state) = [r EXCEPT !.tables = (r.tables \ from) \cup to,
                                                   !.state = state]
BY DEF Move, ProducerSet

LEMMA InactiveTyped ==
    ASSUME NEW r \in ProducerSet, NEW n \in Nat
    PROVE  /\ SetInactive(r, n) \in ProducerSet
           /\ SetInactive(r, n) = [r EXCEPT !.tables = (r.tables \ {"activity"}) \cup {"inactive"},
                                            !.state = "inactive", !.req = Never,
                                            !.penalty = r.penalty + n]
           /\ RevertInactive(r, n) \in ProducerSet
           /\ RevertInactive(r, n) = [r EXCEPT !.tables = (r.tables \ {"inactive"}) \cup {"activity"},
                                               !.state = "active", !.req = Never,
                                               !.penalty = IF r.penalty >= n THEN r.penalty - n ELSE 0]
<1>1. r.penalty \in Nat
    BY DEF ProducerSet
<1>2. Max({0, r.penalty - n}) = IF r.penalty >= n THEN r.penalty - n ELSE 0
    BY <1>1, MaxOfTwo
<1>3. {"activity"} \in SUBSET Tables /\ {"inactive"} \in SUBSET Tables
      /\ "active" \in States /\ "inactive" \in States
    BY DEF Tables, States
<1>4. SetInactive(r, n) = [r EXCEPT !.tables = (r.tables \ {"activity"}) \cup {"inactive"},
                                            !.state = "inactive", !.req = Never,
                                            !.penalty = r.penalty + n]
    BY DEF SetInactive, Move, ProducerSet
<1>5. RevertInactive(r, n) = [r EXCEPT !.tables = (r.tables \ {"inactive"}) \cup {"activity"},
                                               !.state = "active", !.req = Never,
                                               !.penalty = IF r.penalty >= n THEN r.penalty - n ELSE 0]
    BY <1>2 DEF RevertInactive, Move, ProducerSet
<1>6. Move(r, {"activity"}, {"inactive"}, "inactive") \in ProducerSet
      /\ Move(r, {"inactive"}, {"activity"}, "active") \in ProducerSet
    BY <1>3, MoveTyped
<1>7. SetInactive(r, n) \in ProducerSet
    <2>1. Move(r, {"activity"}, {"inactive"}, "inactive").penalty = r.penalty
        BY DEF Move, ProducerSet
    <2>2. r.penalty + n \in Nat
        BY <1>1
    <2> QED
        BY <1>6, <2>1, <2>2, NeverTyped DEF SetInactive, ProducerSet
<1>8. RevertInactive(r, n) \in ProducerSet
    <2>1. Move(r, {"inactive"}, {"activity"}, "active").penalty = r.penalty
        BY DEF Move, ProducerSet
    <2>2. Max({0, r.penalty - n}) \in Nat
        BY <1>1, <1>2
    <2> QED
        BY <1>6, <2>1, <2>2, NeverTyped DEF RevertInactive, ProducerSet
<1> QED
    BY <1>4, <1>5, <1>7, <1>8

LEMMA ExecuteTyped ==
    ASSUME NEW r \in ProducerSet, NEW c \in ChangeSet
    PROVE  Execute(r, c) \in ProducerSet
<1>1. c \in AnyChange /\ Captured(c) /\ c.type \in Kinds /\ c.height \in Nat /\ c.amount \in Int
    BY DEF ChangeSet, AnyChange
<1>2. CASE c.type = "register"
    BY <1>1, <1>2, UnregisteredTyped DEF Execute, ProducerSet, Tables, States
<1>3. CASE c.type = "cancel"
    <2>1. /\ {c.from} \in SUBSET Tables /\ CanceledIn(c) \in SUBSET Tables /\ "canceled" \in States
        BY <1>1, <1>3 DEF Captured, CanceledIn, Tables, States
    <2>2. Move(r, {c.from}, CanceledIn(c), "canceled") \in ProducerSet
        BY <2>1, MoveTyped
    <2> QED
        BY <1>1, <1>3, <2>2 DEF Execute, ProducerSet
<1>4. CASE c.type = "request"
    BY <1>1, <1>4 DEF Execute, ProducerSet
<1>5. CASE c.type = "activate"
    <2>1. {c.from} \in SUBSET Tables /\ {"activity"} \in SUBSET Tables /\ "active" \in States
        BY <1>1, <1>5 DEF Captured, Tables, States
    <2> QED
        BY <1>5, <2>1, MoveTyped DEF Execute
<1>6. CASE c.type = "illegal"
    <2>1. {c.from} \in SUBSET Tables /\ {"illegal"} \in SUBSET Tables /\ "illegal" \in States
        BY <1>1, <1>6 DEF Captured, Tables, States
    <2>2. Move(r, {c.from}, {"illegal"}, "illegal") \in ProducerSet
        BY <2>1, MoveTyped
    <2> QED
        BY <1>6, <2>2, NeverTyped DEF Execute, ProducerSet
<1>7. CASE c.type = "emergency"
    BY <1>1, <1>7, InactiveTyped DEF Execute, Captured
<1>8. CASE c.type = "inactivity"
    <2>1. Execute(r, c) = UpdateInactivity(r, c)
        BY <1>8 DEF Execute
    <2>2. SetInactive(r, 1) \in ProducerSet /\ r.counting \in Nat
        BY InactiveTyped DEF ProducerSet
    <2> QED
        BY <1>1, <2>1, <2>2 DEF UpdateInactivity, ProducerSet
<1>9. CASE c.type = "return"
    BY <1>9 DEF Execute, ProducerSet, States
<1>10. CASE c.type = "vote"
    BY <1>1, <1>10 DEF Execute, ProducerSet
<1>11. CASE c.type = "nothing"
    BY <1>11 DEF Execute
<1> QED
    BY <1>1, <1>2, <1>3, <1>4, <1>5, <1>6, <1>7, <1>8, <1>9, <1>10, <1>11 DEF Kinds

LEMMA StateOfTyped ==
    ASSUME NEW table \in Tables \ {"pendingCanceled"}
    PROVE  StateOf(table) \in States \ {"none"}
BY DEF StateOf, Tables, States

LEMMA RevertTyped ==
    ASSUME NEW r \in ProducerSet, NEW c \in ChangeSet
    PROVE  Revert(r, c) \in ProducerSet
<1>1. c \in AnyChange /\ Captured(c) /\ c.type \in Kinds /\ c.height \in Nat /\ c.amount \in Int
      /\ c.counting \in Nat
    BY DEF ChangeSet, AnyChange
<1>2. CASE c.type = "register"
    <2>1. r.tables \ {"pending"} \in SUBSET Tables
        BY DEF ProducerSet
    <2> QED
        BY <1>2, <2>1, UnregisteredTyped DEF Revert, ProducerSet
<1>3. CASE c.type = "cancel"
    <2>1. /\ {c.from} \in SUBSET Tables /\ CanceledIn(c) \in SUBSET Tables /\ StateOf(c.from) \in States
        BY <1>1, <1>3, StateOfTyped DEF Captured, CanceledIn, Tables
    <2>2. Move(r, CanceledIn(c), {c.from}, StateOf(c.from)) \in ProducerSet
        BY <2>1, MoveTyped
    <2> QED
        BY <1>1, <1>3, <2>2 DEF Revert, ProducerSet
<1>4. CASE c.type = "request"
    BY <1>4, NeverTyped DEF Revert, ProducerSet
<1>5. CASE c.type = "activate"
    <2>1. {c.from} \in SUBSET Tables /\ {"activity"} \in SUBSET Tables /\ StateOf(c.from) \in States
        BY <1>1, <1>5, StateOfTyped DEF Captured, Tables
    <2> QED
        BY <1>5, <2>1, MoveTyped DEF Revert
<1>6. CASE c.type = "illegal"
    <2>1. {c.from} \in SUBSET Tables /\ {"illegal"} \in SUBSET Tables /\ StateOf(c.from) \in States
        BY <1>1, <1>6, StateOfTyped DEF Captured, Tables
    <2>2. Move(r, {"illegal"}, {c.from}, StateOf(c.from)) \in ProducerSet
        BY <2>1, MoveTyped
    <2> QED
        BY <1>6, <2>2, NeverTyped DEF Revert, ProducerSet
<1>7. CASE c.type = "emergency"
    BY <1>1, <1>7, InactiveTyped DEF Revert, Captured
<1>8. CASE c.type = "inactivity"
    <2>1. Revert(r, c) = RevertInactivity(r, c)
        BY <1>8 DEF Revert
    <2>2. RevertInactive(r, 1) \in ProducerSet /\ r.counting \in Nat
        BY InactiveTyped DEF ProducerSet
    <2> QED
        BY <1>1, <2>1, <2>2 DEF RevertInactivity, ProducerSet
<1>9. CASE c.type = "return"
    BY <1>9 DEF Revert, ProducerSet, States
<1>10. CASE c.type = "vote"
    BY <1>1, <1>10 DEF Revert, ProducerSet
<1>11. CASE c.type = "nothing"
    BY <1>11 DEF Revert
<1> QED
    BY <1>1, <1>2, <1>3, <1>4, <1>5, <1>6, <1>7, <1>8, <1>9, <1>10, <1>11 DEF Kinds

-----------------------------------------------------------------------------
(* The run of the changes of a block: after i of them the producers are    *)
(* g[i].                                                                   *)
Executes(g, of, cs) ==
    /\ g \in [0..Len(cs) -> Ofs] /\ g[0] = of
    /\ \A i \in 1..Len(cs) : g[i] = [g[i - 1] EXCEPT ![cs[i].p] = Execute(g[i - 1][cs[i].p], cs[i])]

Reverts(g, of, cs) ==
    /\ g \in [0..Len(cs) -> Ofs] /\ g[0] = of
    /\ \A i \in 1..Len(cs) : g[i] = [g[i - 1] EXCEPT ![cs[i].p] = Revert(g[i - 1][cs[i].p], cs[i])]

LEMMA ExecuteAllRuns ==
    ASSUME NEW of \in Ofs, NEW cs \in Seq(ChangeSet)
    PROVE  \E g : Executes(g, of, cs) /\ ExecuteAll(of, cs) = g[Len(cs)]
<1> DEFINE k == Len(cs)
           Eq(g) == g = [i \in 0..k |->
                        IF i = 0 THEN of
                        ELSE [g[i - 1] EXCEPT ![cs[i].p] = Execute(g[i - 1][cs[i].p], cs[i])]]
           Do(x, i) == [x EXCEPT ![cs[i].p] = Execute(x[cs[i].p], cs[i])]
           F == [i \in 1..k |-> [x \in Ofs |-> Do(x, i)]]
           run == CHOOSE g : Eq(g)
<1>1. k \in Nat /\ \A i \in 1..k : cs[i] \in ChangeSet /\ cs[i].p \in Candidates
    BY DEF ChangeSet, AnyChange
<1>2. \A i \in 1..k : \A x \in Ofs : Do(x, i) \in Ofs
    BY <1>1, ExecuteTyped DEF Ofs
<1> HIDE DEF k
<1>3. F \in [1..k -> [Ofs -> Ofs]]
    <2> HIDE DEF Do
    <2> QED
        BY <1>2
<1>4. PICK g : Path(g, Ofs, k, of, F)
    <2> HIDE DEF F
    <2> QED
        BY <1>1, <1>3, Iterate
<1>5. \A i \in 0..k : g[i] = IF i = 0 THEN of ELSE Do(g[i - 1], i)
    <2> SUFFICES ASSUME NEW i \in 0..k, i # 0 PROVE g[i] = Do(g[i - 1], i)
        BY <1>4 DEF Path
    <2>1. i \in 1..k /\ i - 1 \in 0..k /\ g[i - 1] \in Ofs
        BY <1>1, <1>4 DEF Path
    <2> HIDE DEF Do
    <2> QED
        BY <1>4, <2>1 DEF Path
<1>6. Eq(g)
    BY <1>4, <1>5 DEF Path
<1>7. Eq(run)
    <2> HIDE DEF Eq
    <2> QED
        BY <1>6
<1>8. ExecuteAll(of, cs) = run[k]
    BY DEF ExecuteAll, k
<1> HIDE DEF run
<1>9. run[0] = of /\ \A i \in 1..k : run[i] = Do(run[i - 1], i)
    <2>1. run[0] = of
        BY <1>1, <1>7
    <2>2. ASSUME NEW i \in 1..k PROVE run[i] = Do(run[i - 1], i)
        <3>1. i \in 0..k /\ i # 0
            BY <1>1
        <3> QED
            BY <1>7, <3>1
    <2> QED
        BY <2>1, <2>2
<1> DEFINE T == {i \in 0..k : run[i] \in Ofs}
<1>10. \A i \in 0..k : i \in T
    <2>1. 0 \in T
        BY <1>1, <1>9
    <2>2. ASSUME NEW i \in 1..k, i - 1 \in T PROVE i \in T
        <3> HIDE DEF Do
        <3> QED
            BY <1>1, <1>2, <1>9, <2>2
    <2> HIDE DEF T
    <2> QED
        BY <1>1, <2>1, <2>2, UpTo, Zenon
<1>11. run \in [0..k -> Ofs]
    BY <1>7, <1>10
<1> QED
    BY <1>8, <1>9, <1>11 DEF Executes, k

LEMMA RevertAllRuns ==
    ASSUME NEW of \in Ofs, NEW cs \in Seq(ChangeSet)
    PROVE  \E g : Reverts(g, of, cs) /\ RevertAll(of, cs) = g[Len(cs)]
<1> DEFINE k == Len(cs)
           Eq(g) == g = [i \in 0..k |->
                        IF i = 0 THEN of
                        ELSE [g[i - 1] EXCEPT ![cs[i].p] = Revert(g[i - 1][cs[i].p], cs[i])]]
           Do(x, i) == [x EXCEPT ![cs[i].p] = Revert(x[cs[i].p], cs[i])]
           F == [i \in 1..k |-> [x \in Ofs |-> Do(x, i)]]
           run == CHOOSE g : Eq(g)
<1>1. k \in Nat /\ \A i \in 1..k : cs[i] \in ChangeSet /\ cs[i].p \in Candidates
    BY DEF ChangeSet, AnyChange
<1>2. \A i \in 1..k : \A x \in Ofs : Do(x, i) \in Ofs
    BY <1>1, RevertTyped DEF Ofs
<1> HIDE DEF k
<1>3. F \in [1..k -> [Ofs -> Ofs]]
    <2> HIDE DEF Do
    <2> QED
        BY <1>2
<1>4. PICK g : Path(g, Ofs, k, of, F)
    <2> HIDE DEF F
    <2> QED
        BY <1>1, <1>3, Iterate
<1>5. \A i \in 0..k : g[i] = IF i = 0 THEN of ELSE Do(g[i - 1], i)
    <2> SUFFICES ASSUME NEW i \in 0..k, i # 0 PROVE g[i] = Do(g[i - 1], i)
        BY <1>4 DEF Path
    <2>1. i \in 1..k /\ i - 1 \in 0..k /\ g[i - 1] \in Ofs
        BY <1>1, <1>4 DEF Path
    <2> HIDE DEF Do
    <2> QED
        BY <1>4, <2>1 DEF Path
<1>6. Eq(g)
    BY <1>4, <1>5 DEF Path
<1>7. Eq(run)
    <2> HIDE DEF Eq
    <2> QED
        BY <1>6
<1>8. RevertAll(of, cs) = run[k]
    BY DEF RevertAll, k
<1> HIDE DEF run
<1>9. run[0] = of /\ \A i \in 1..k : run[i] = Do(run[i - 1], i)
    <2>1. run[0] = of
        BY <1>1, <1>7
    <2>2. ASSUME NEW i \in 1..k PROVE run[i] = Do(run[i - 1], i)
        <3>1. i \in 0..k /\ i # 0
            BY <1>1
        <3> QED
            BY <1>7, <3>1
    <2> QED
        BY <2>1, <2>2
<1> DEFINE T == {i \in 0..k : run[i] \in Ofs}
<1>10. \A i \in 0..k : i \in T
    <2>1. 0 \in T
        BY <1>1, <1>9
    <2>2. ASSUME NEW i \in 1..k, i - 1 \in T PROVE i \in T
        <3> HIDE DEF Do
        <3> QED
            BY <1>1, <1>2, <1>9, <2>2
    <2> HIDE DEF T
    <2> QED
        BY <1>1, <2>1, <2>2, UpTo, Zenon
<1>11. run \in [0..k -> Ofs]
    BY <1>7, <1>10
<1> QED
    BY <1>8, <1>9, <1>11 DEF Reverts, k

-----------------------------------------------------------------------------
(* The changes of a block.                                                 *)
Stores == [of : Ofs, pre : ArbiterSets \cup {{}}]

LEMMA Listed ==
    ASSUME NEW S \in SUBSET Candidates
    PROVE  /\ IsFiniteSet(S) /\ Cardinality(S) \in Nat
           /\ SetToSeq(S) \in [1..Cardinality(S) -> S]
           /\ \A i, j \in 1..Cardinality(S) : SetToSeq(S)[i] = SetToSeq(S)[j] => i = j
<1>1. IsFiniteSet(S)
    BY CandidatesAssumption, FS_Subset
<1>2. Cardinality(S) \in Nat /\ ExistsBijection(1..Cardinality(S), S)
    BY <1>1, FS_CardinalityType
<1>3. PICK f \in [1..Cardinality(S) -> S] : \A i, j \in 1..Cardinality(S) : f[i] = f[j] => i = j
    BY <1>2 DEF ExistsBijection, Bijection, Injection, IsInjective
<1>4. IsInjective(f)
    BY <1>3 DEF IsInjective
<1>5. SetToSeq(S) \in [1..Cardinality(S) -> S] /\ IsInjective(SetToSeq(S))
    BY <1>3, <1>4 DEF SetToSeq
<1> QED
    BY <1>1, <1>2, <1>5 DEF IsInjective

(* Changes appended after those of the transactions.                       *)
Waits(s, p, table, h) ==
    /\ table \in s.of[p].tables
    /\ IF table = "pending" THEN h - s.of[p].reg + 1 >= ActivateDuration ELSE Waited(s.of[p].req, h)

Later(s, h, c) ==
    /\ c.height = h
    /\ \/ c.type = "activate" /\ c.from \in {"pending", "inactive", "illegal"} /\ Waits(s, c.p, c.from, h)
       \/ c.type = "inactivity" /\ c.from = "none" /\ "activity" \in s.of[c.p].tables
          /\ c.counting = s.of[c.p].counting

(* cs is the changes of a list of transactions and later ones, whose kinds *)
(* and tables are in K, and of which no two are alike.                     *)
Formed(s, txs, h, cs, K) ==
    /\ cs \in Seq(ChangeSet) /\ Len(cs) >= Len(txs)
    /\ \A i \in 1..Len(txs) : cs[i] = TxChange(s, txs[i], h)
    /\ \A i \in (Len(txs) + 1)..Len(cs) : Later(s, h, cs[i]) /\ <<cs[i].type, cs[i].from>> \in K
    /\ \A i, j \in (Len(txs) + 1)..Len(cs) :
          cs[i].type = cs[j].type /\ cs[i].from = cs[j].from /\ cs[i].p = cs[j].p => i = j

LEMMA FormedMore ==
    ASSUME NEW s, NEW txs \in Seq(Txs), NEW h, NEW cs, NEW K, Formed(s, txs, h, cs, K),
           NEW type, NEW from, <<type, from>> \notin K, NEW ds \in Seq(ChangeSet),
           \A i \in 1..Len(ds) : Later(s, h, ds[i]) /\ ds[i].type = type /\ ds[i].from = from,
           \A i, j \in 1..Len(ds) : ds[i].p = ds[j].p => i = j
    PROVE  Formed(s, txs, h, cs \o ds, K \cup {<<type, from>>})
<1> DEFINE n == Len(txs)  m == Len(cs)  es == cs \o ds  l == Len(ds)
<1>1. n \in Nat /\ m \in Nat /\ l \in Nat /\ cs \in Seq(ChangeSet) /\ m >= n
    BY DEF Formed
<1>2. /\ es \in Seq(ChangeSet) /\ Len(es) = m + l
      /\ \A i \in 1..(m + l) : es[i] = IF i <= m THEN cs[i] ELSE ds[i - m]
    BY <1>1, ConcatProperties
<1> HIDE DEF es
<1>3. ASSUME NEW i \in 1..n PROVE es[i] = TxChange(s, txs[i], h)
    <2>1. i \in 1..(m + l) /\ i <= m
        BY <1>1
    <2>2. es[i] = cs[i]
        BY <1>2, <2>1
    <2> QED
        BY <2>2 DEF Formed
<1>4. ASSUME NEW i \in (n + 1)..(m + l)
      PROVE  Later(s, h, es[i]) /\ <<es[i].type, es[i].from>> \in K \cup {<<type, from>>}
    <2>1. CASE i <= m
        <3>1. i \in (n + 1)..m /\ es[i] = cs[i]
            BY <1>1, <1>2, <2>1
        <3>2. Later(s, h, cs[i]) /\ <<cs[i].type, cs[i].from>> \in K
            BY <3>1 DEF Formed
        <3> QED
            BY <3>1, <3>2
    <2>2. CASE i > m
        <3>1. i - m \in 1..l /\ es[i] = ds[i - m]
            BY <1>1, <1>2, <2>2
        <3> QED
            BY <3>1
    <2> QED
        BY <1>1, <2>1, <2>2
<1>5. ASSUME NEW i \in (n + 1)..(m + l), NEW j \in (n + 1)..(m + l),
             es[i].type = es[j].type, es[i].from = es[j].from, es[i].p = es[j].p
      PROVE  i = j
    <2>1. CASE i <= m /\ j <= m
        <3>1. i \in (n + 1)..m /\ j \in (n + 1)..m /\ es[i] = cs[i] /\ es[j] = cs[j]
            BY <1>1, <1>2, <2>1
        <3> QED
            BY <1>5, <3>1 DEF Formed
    <2>2. CASE i > m /\ j > m
        <3>1. i - m \in 1..l /\ es[i] = ds[i - m] /\ j - m \in 1..l /\ es[j] = ds[j - m]
            BY <1>1, <1>2, <2>2
        <3>2. i - m = j - m
            BY <1>5, <3>1
        <3> QED
            BY <1>1, <3>2
    <2>3. CASE i <= m /\ j > m
        <3>1. j - m \in 1..l /\ es[j] = ds[j - m] /\ i \in (n + 1)..m /\ es[i] = cs[i]
            BY <1>1, <1>2, <2>3
        <3> QED
            BY <1>5, <3>1 DEF Formed
    <2>4. CASE i > m /\ j <= m
        <3>1. i - m \in 1..l /\ es[i] = ds[i - m] /\ j \in (n + 1)..m /\ es[j] = cs[j]
            BY <1>1, <1>2, <2>4
        <3> QED
            BY <1>5, <3>1 DEF Formed
    <2> QED
        BY <1>1, <2>1, <2>2, <2>3, <2>4
<1>6. /\ Len(es) >= n
      /\ \A i \in (n + 1)..Len(es) :
            Later(s, h, es[i]) /\ <<es[i].type, es[i].from>> \in K \cup {<<type, from>>}
      /\ \A i, j \in (n + 1)..Len(es) :
            es[i].type = es[j].type /\ es[i].from = es[j].from /\ es[i].p = es[j].p => i = j
    <2> HIDE DEF n, m, l
    <2> QED
        BY <1>1, <1>2, <1>4, <1>5
<1>7. Formed(s, txs, h, es, K \cup {<<type, from>>})
    BY <1>2, <1>3, <1>6 DEF Formed
<1> QED
    BY <1>7 DEF es

LEMMA TxChangeTyped ==
    ASSUME NEW s \in Stores, NEW tx \in Txs, NEW h \in Nat
    PROVE  TxChange(s, tx, h) \in ChangeSet /\ TxChange(s, tx, h).p = tx.p
<1>1. tx.type \in AllTxTypes /\ tx.p \in Candidates
    BY TxTypesAssumption DEF Txs
<1> DEFINE Rec(type, from, amount) ==
             [type |-> type, p |-> tx.p, height |-> h, from |-> from, reset |-> FALSE,
              counting |-> 0, amount |-> amount]
           Good(c) == c \in AnyChange /\ c.p = tx.p
<1>2. \A type \in Kinds, from \in Tables \cup {"none"}, amount \in Int :
          /\ Good(Rec(type, from, amount))
          /\ Rec(type, from, amount).type = type /\ Rec(type, from, amount).from = from
          /\ Rec(type, from, amount).amount = amount
    BY <1>1 DEF AnyChange
<1>3. CASE tx.type = "cancel"
    <2>1. PICK from \in {"pending", "activity"} : TxChange(s, tx, h) = Rec("cancel", from, 0)
        BY <1>3 DEF TxChange, Change
    <2> HIDE DEF Rec
    <2> QED
        BY <1>2, <2>1 DEF ChangeSet, Captured, Kinds, Tables
<1>4. CASE tx.type = "illegal"
    <2>1. \/ TxChange(s, tx, h) = Rec("nothing", "none", 0)
          \/ \E from \in {"activity", "canceled"} : TxChange(s, tx, h) = Rec("illegal", from, 0)
        BY <1>4 DEF TxChange, Change
    <2> HIDE DEF Rec
    <2> QED
        BY <1>2, <2>1 DEF ChangeSet, Captured, Kinds, Tables
<1>5. CASE tx.type = "emergency"
    <2>1. \/ TxChange(s, tx, h) = Rec("nothing", "none", 0)
          \/ \E n \in {2, 4} : TxChange(s, tx, h) = Rec("emergency", "none", n)
        BY <1>5 DEF TxChange, Change
    <2> HIDE DEF Rec
    <2> QED
        BY <1>2, <2>1 DEF ChangeSet, Captured, Kinds
<1>6. CASE tx.type \in {"vote", "unvote"}
    <2>1. \E n \in {1, -1} : TxChange(s, tx, h) = Rec("vote", "none", n)
        BY <1>6 DEF TxChange, Change
    <2> HIDE DEF Rec
    <2> QED
        BY <1>2, <2>1 DEF ChangeSet, Captured, Kinds
<1>7. CASE tx.type \in {"register", "request", "return"}
    <2>1. TxChange(s, tx, h) = Rec(tx.type, "none", 0)
        BY <1>7 DEF TxChange, Change
    <2> HIDE DEF Rec
    <2> QED
        BY <1>2, <1>7, <2>1 DEF ChangeSet, Captured, Kinds
<1> QED
    BY <1>1, <1>3, <1>4, <1>5, <1>6, <1>7 DEF AllTxTypes

LEMMA ActivationsFormed ==
    ASSUME NEW s \in Stores, NEW table \in {"pending", "inactive", "illegal"}, NEW h \in Nat
    PROVE  /\ Activations(s, table, h) \in Seq(ChangeSet)
           /\ \A i \in 1..Len(Activations(s, table, h)) :
                 /\ Later(s, h, Activations(s, table, h)[i])
                 /\ Activations(s, table, h)[i].type = "activate"
                 /\ Activations(s, table, h)[i].from = table
           /\ \A i, j \in 1..Len(Activations(s, table, h)) :
                 Activations(s, table, h)[i].p = Activations(s, table, h)[j].p => i = j
<1> DEFINE due == {p \in Candidates : table \in s.of[p].tables /\
                  IF table = "pending" THEN h - s.of[p].reg + 1 >= ActivateDuration
                  ELSE Waited(s.of[p].req, h)}
           k == Cardinality(due)
           f == SetToSeq(due)
           c(p) == [Change("activate", p, h) EXCEPT !.from = table]
           as == [i \in 1..k |-> c(f[i])]
<1>1. k \in Nat /\ f \in [1..k -> due] /\ \A i, j \in 1..k : f[i] = f[j] => i = j
    BY Listed
<1>2. \A p \in due : p \in Candidates /\ Waits(s, p, table, h)
    BY DEF Waits
<1>3. Activations(s, table, h) = as
    BY DEF Activations
<1> HIDE DEF due, k, f
<1>4. \A p \in Candidates : /\ c(p) \in ChangeSet /\ c(p).type = "activate" /\ c(p).from = table
                             /\ c(p).p = p /\ c(p).height = h
    <2> SUFFICES ASSUME NEW p \in Candidates
                 PROVE  /\ c(p) \in ChangeSet /\ c(p).type = "activate" /\ c(p).from = table
                        /\ c(p).p = p /\ c(p).height = h
        OBVIOUS
    <2>1. c(p) = [type |-> "activate", p |-> p, height |-> h, from |-> table, reset |-> FALSE,
                  counting |-> 0, amount |-> 0]
        <3>1. c(p) = [Change("activate", p, h) EXCEPT !.from = table]
            BY Zenon
        <3> HIDE DEF c
        <3> QED
            BY <3>1 DEF Change
    <2> HIDE DEF c
    <2> QED
        BY <2>1 DEF ChangeSet, AnyChange, Captured, Kinds, Tables
<1> HIDE DEF c
<1>5. \A i \in 1..k : as[i] = c(f[i]) /\ f[i] \in due
    BY <1>1
<1>6. as \in Seq(ChangeSet) /\ Len(as) = k
    BY <1>1, <1>2, <1>4
<1>7. \A i \in 1..k : Later(s, h, as[i]) /\ as[i].type = "activate" /\ as[i].from = table
    BY <1>2, <1>4, <1>5 DEF Later
<1>8. \A i, j \in 1..k : as[i].p = as[j].p => i = j
    BY <1>1, <1>2, <1>4, <1>5
<1> HIDE DEF as
<1> QED
    BY <1>3, <1>6, <1>7, <1>8

LEMMA InactivityFormed ==
    ASSUME NEW s \in Stores, NEW b, NEW h \in Nat
    PROVE  /\ Inactivity(s, b, h) \in Seq(ChangeSet)
           /\ \A i \in 1..Len(Inactivity(s, b, h)) :
                 /\ Later(s, h, Inactivity(s, b, h)[i])
                 /\ Inactivity(s, b, h)[i].type = "inactivity" /\ Inactivity(s, b, h)[i].from = "none"
           /\ \A i, j \in 1..Len(Inactivity(s, b, h)) :
                 Inactivity(s, b, h)[i].p = Inactivity(s, b, h)[j].p => i = j
<1> DEFINE counted == {p \in s.pre \cup {b.sponsor} : p \in Candidates /\ "activity" \in s.of[p].tables}
           k == Cardinality(counted)
           f == SetToSeq(counted)
           c(p) == [Change("inactivity", p, h) EXCEPT
                         !.reset = (p = b.sponsor \/ p \notin b.arbiters),
                         !.counting = s.of[p].counting]
           as == [i \in 1..k |-> c(f[i])]
<1>1. k \in Nat /\ f \in [1..k -> counted] /\ \A i, j \in 1..k : f[i] = f[j] => i = j
    <2>1. counted \in SUBSET Candidates
        OBVIOUS
    <2> HIDE DEF counted
    <2> QED
        BY <2>1, Listed
<1>2. \A p \in counted : p \in Candidates /\ "activity" \in s.of[p].tables
    OBVIOUS
<1>3. Inactivity(s, b, h) = as
    BY DEF Inactivity
<1> HIDE DEF counted, k, f
<1>4. \A p \in Candidates : /\ c(p) \in ChangeSet /\ c(p).type = "inactivity" /\ c(p).from = "none"
                             /\ c(p).p = p /\ c(p).height = h /\ c(p).counting = s.of[p].counting
    <2> SUFFICES ASSUME NEW p \in Candidates
                 PROVE  /\ c(p) \in ChangeSet /\ c(p).type = "inactivity" /\ c(p).from = "none"
                        /\ c(p).p = p /\ c(p).height = h /\ c(p).counting = s.of[p].counting
        OBVIOUS
    <2>1. s.of[p].counting \in Nat
        BY DEF Stores, Ofs, ProducerSet
    <2> DEFINE x == p = b.sponsor \/ p \notin b.arbiters
    <2>2. x \in BOOLEAN
        BY Zenon
    <2>3. c(p) = [type |-> "inactivity", p |-> p, height |-> h, from |-> "none", reset |-> x,
                  counting |-> s.of[p].counting, amount |-> 0]
        <3>1. c(p) = [Change("inactivity", p, h) EXCEPT !.reset = x, !.counting = s.of[p].counting]
            BY Zenon
        <3> HIDE DEF c, x
        <3> QED
            BY <3>1 DEF Change
    <2> HIDE DEF x
    <2> HIDE DEF c
    <2> QED
        BY <2>1, <2>2, <2>3 DEF ChangeSet, AnyChange, Captured, Kinds, Tables
<1> HIDE DEF c
<1>5. \A i \in 1..k : as[i] = c(f[i]) /\ f[i] \in counted
    BY <1>1
<1>6. as \in Seq(ChangeSet) /\ Len(as) = k
    BY <1>1, <1>2, <1>4
<1>7. \A i \in 1..k : Later(s, h, as[i]) /\ as[i].type = "inactivity" /\ as[i].from = "none"
    BY <1>2, <1>4, <1>5 DEF Later
<1>8. \A i, j \in 1..k : as[i].p = as[j].p => i = j
    BY <1>1, <1>2, <1>4, <1>5
<1> HIDE DEF as
<1> QED
    BY <1>3, <1>6, <1>7, <1>8

AllKeys == {<<"activate", "pending">>, <<"activate", "inactive">>, <<"activate", "illegal">>,
            <<"inactivity", "none">>}

LEMMA ChangesFormed ==
    ASSUME NEW s \in Stores, NEW b, b.txs \in Seq(Txs), NEW h \in Nat
    PROVE  Formed(s, b.txs, h, Changes(s, b, h), AllKeys)
<1> DEFINE t == [i \in 1..Len(b.txs) |-> TxChange(s, b.txs[i], h)]
           a1 == Activations(s, "pending", h)
           a2 == Activations(s, "inactive", h)
           a3 == Activations(s, "illegal", h)
           a4 == Inactivity(s, b, h)
           K0 == {}
           K1 == {<<"activate", "pending">>}
           K2 == K1 \cup {<<"activate", "inactive">>}
           K3 == K2 \cup {<<"activate", "illegal">>}
           K4 == K3 \cup {<<"inactivity", "none">>}
<1>1. Formed(s, b.txs, h, t, {})
    <2>1. \A i \in 1..Len(b.txs) : TxChange(s, b.txs[i], h) \in ChangeSet
        BY TxChangeTyped
    <2>2. t \in Seq(ChangeSet) /\ Len(t) = Len(b.txs)
        BY <2>1
    <2> QED
        BY <2>2 DEF Formed
<1> HIDE DEF t
<1>2. Formed(s, b.txs, h, t \o a1, K0 \cup {<<"activate", "pending">>})
    <2>1. <<"activate", "pending">> \notin K0 /\ Formed(s, b.txs, h, t, K0)
        BY <1>1
    <2> HIDE DEF K0
    <2> QED
        BY <2>1, FormedMore, ActivationsFormed
<1>3. Formed(s, b.txs, h, t \o a1, K1)
    <2>1. K0 \cup {<<"activate", "pending">>} = K1
        OBVIOUS
    <2> QED
        BY <1>2, <2>1
<1>4. Formed(s, b.txs, h, (t \o a1) \o a2, K2)
    <2>1. <<"activate", "inactive">> \notin K1
        OBVIOUS
    <2> HIDE DEF K1
    <2> QED
        BY <1>3, <2>1, FormedMore, ActivationsFormed
<1>5. Formed(s, b.txs, h, ((t \o a1) \o a2) \o a3, K3)
    <2>1. <<"activate", "illegal">> \notin K2
        OBVIOUS
    <2> HIDE DEF K2
    <2> QED
        BY <1>4, <2>1, FormedMore, ActivationsFormed
<1>6. Formed(s, b.txs, h, (((t \o a1) \o a2) \o a3) \o a4, K4)
    <2>1. <<"inactivity", "none">> \notin K3
        OBVIOUS
    <2> HIDE DEF K3
    <2> QED
        BY <1>5, <2>1, FormedMore, InactivityFormed
<1>7. K4 = AllKeys
    BY DEF AllKeys
<1>8. Changes(s, b, h) = (((t \o a1) \o a2) \o a3) \o a4
    BY DEF Changes, t
<1> QED
    BY <1>6, <1>7, <1>8

-----------------------------------------------------------------------------
(* In every case: what getProducer finds, and the tallies.                 *)
Found(r) == r.tables \ {"pendingCanceled"} # {}
Known(r) == r.state # "none" \/ r.votes # 0
Has(cs, type, p) == \E i \in 1..Len(cs) : cs[i].type = type /\ cs[i].p = p

LEMMA ExecuteEffect ==
    ASSUME NEW r \in ProducerSet, NEW c \in ChangeSet
    PROVE  /\ Found(r) => Found(Execute(r, c))
           /\ c.type \in {"register", "cancel"} => Found(Execute(r, c))
           /\ Execute(r, c).state # "none" =>
                 r.state # "none" \/ Found(Execute(r, c)) \/ c.type = "return"
           /\ r.state # "none" => Execute(r, c).state # "none"
           /\ (r.tables # {} => r.state # "none")
                 => (Execute(r, c).tables # {} => Execute(r, c).state # "none")
           /\ Execute(r, c).votes = IF c.type = "register" THEN 0
                                    ELSE IF c.type = "vote" THEN r.votes + c.amount ELSE r.votes
           /\ c.type \in {"request", "vote", "nothing"} => Execute(r, c).state = r.state
<1>1. c.type \in Kinds /\ Captured(c)
    BY DEF ChangeSet, AnyChange
<1>2. CASE c.type = "register"
    <2>1. /\ Execute(r, c).tables = r.tables \cup {"pending"}
          /\ Execute(r, c).state = "pending" /\ Execute(r, c).votes = 0
        BY <1>2 DEF Execute, Unregistered
    <2> QED
        BY <1>2, <2>1 DEF Found
<1>3. CASE c.type = "cancel"
    <2>1. /\ Execute(r, c).tables = (r.tables \ {c.from}) \cup CanceledIn(c)
          /\ Execute(r, c).state = "canceled" /\ Execute(r, c).votes = r.votes
        BY <1>3 DEF Execute, Move, ProducerSet
    <2> QED
        BY <1>3, <2>1 DEF Found, CanceledIn
<1>4. CASE c.type = "request"
    BY <1>4 DEF Execute, Found, ProducerSet
<1>5. CASE c.type = "activate"
    <2>1. /\ Execute(r, c).tables = (r.tables \ {c.from}) \cup {"activity"}
          /\ Execute(r, c).state = "active" /\ Execute(r, c).votes = r.votes
        BY <1>5 DEF Execute, Move, ProducerSet
    <2> QED
        BY <1>5, <2>1 DEF Found
<1>6. CASE c.type = "illegal"
    <2>1. /\ Execute(r, c).tables = (r.tables \ {c.from}) \cup {"illegal"}
          /\ Execute(r, c).state = "illegal" /\ Execute(r, c).votes = r.votes
        BY <1>6 DEF Execute, Move, ProducerSet
    <2> QED
        BY <1>6, <2>1 DEF Found
<1>7. CASE c.type = "emergency"
    <2>1. /\ Execute(r, c).tables = (r.tables \ {"activity"}) \cup {"inactive"}
          /\ Execute(r, c).state = "inactive" /\ Execute(r, c).votes = r.votes
        BY <1>7 DEF Execute, SetInactive, Move, ProducerSet
    <2> QED
        BY <1>7, <2>1 DEF Found
<1>8. CASE c.type = "inactivity"
    <2>1. Execute(r, c) = UpdateInactivity(r, c)
        BY <1>8 DEF Execute
    <2>2. \/ /\ Execute(r, c).tables = (r.tables \ {"activity"}) \cup {"inactive"}
             /\ Execute(r, c).state = "inactive" /\ Execute(r, c).votes = r.votes
          \/ /\ Execute(r, c).tables = r.tables
             /\ Execute(r, c).state = r.state /\ Execute(r, c).votes = r.votes
        BY <2>1 DEF UpdateInactivity, SetInactive, Move, ProducerSet
    <2> QED
        BY <1>8, <2>2 DEF Found
<1>9. CASE c.type = "return"
    BY <1>9 DEF Execute, Found, ProducerSet
<1>10. CASE c.type = "vote"
    BY <1>10 DEF Execute, Found, ProducerSet
<1>11. CASE c.type = "nothing"
    BY <1>11 DEF Execute
<1> QED
    BY <1>1, <1>2, <1>3, <1>4, <1>5, <1>6, <1>7, <1>8, <1>9, <1>10, <1>11 DEF Kinds

LEMMA RevertEffect ==
    ASSUME NEW r \in ProducerSet, NEW c \in ChangeSet
    PROVE  /\ Found(r) /\ c.type # "register" => Found(Revert(r, c))
           /\ Revert(r, c).state # "none" =>
                 r.state # "none" \/ Found(Revert(r, c)) \/ c.type = "return"
           /\ c.type = "register" => Revert(r, c).state = "none"
           /\ Revert(r, c).votes = IF c.type = "register" THEN 0
                                   ELSE IF c.type = "vote" THEN r.votes - c.amount ELSE r.votes
<1>1. c.type \in Kinds /\ Captured(c)
    BY DEF ChangeSet, AnyChange
<1>2. CASE c.type = "register"
    BY <1>2, UnregisteredTyped DEF Revert, ProducerSet
<1>3. CASE c.type = "cancel"
    <2>1. /\ Revert(r, c).tables = (r.tables \ CanceledIn(c)) \cup {c.from}
          /\ Revert(r, c).votes = r.votes
        BY <1>3 DEF Revert, Move, ProducerSet
    <2> QED
        BY <1>1, <1>3, <2>1 DEF Found, Captured
<1>4. CASE c.type = "request"
    BY <1>4 DEF Revert, Found, ProducerSet
<1>5. CASE c.type = "activate"
    <2>1. /\ Revert(r, c).tables = (r.tables \ {"activity"}) \cup {c.from}
          /\ Revert(r, c).votes = r.votes
        BY <1>5 DEF Revert, Move, ProducerSet
    <2> QED
        BY <1>1, <1>5, <2>1 DEF Found, Captured
<1>6. CASE c.type = "illegal"
    <2>1. /\ Revert(r, c).tables = (r.tables \ {"illegal"}) \cup {c.from}
          /\ Revert(r, c).votes = r.votes
        BY <1>6 DEF Revert, Move, ProducerSet
    <2> QED
        BY <1>1, <1>6, <2>1 DEF Found, Captured
<1>7. CASE c.type = "emergency"
    <2>1. /\ Revert(r, c).tables = (r.tables \ {"inactive"}) \cup {"activity"}
          /\ Revert(r, c).votes = r.votes
        BY <1>7 DEF Revert, RevertInactive, Move, ProducerSet
    <2> QED
        BY <1>7, <2>1 DEF Found
<1>8. CASE c.type = "inactivity"
    <2>1. Revert(r, c) = RevertInactivity(r, c)
        BY <1>8 DEF Revert
    <2>2. \/ /\ Revert(r, c).tables = (r.tables \ {"inactive"}) \cup {"activity"}
             /\ Revert(r, c).votes = r.votes
          \/ /\ Revert(r, c).tables = r.tables
             /\ Revert(r, c).state = r.state /\ Revert(r, c).votes = r.votes
        BY <2>1 DEF RevertInactivity, RevertInactive, Move, ProducerSet
    <2> QED
        BY <1>8, <2>2 DEF Found
<1>9. CASE c.type = "return"
    BY <1>9 DEF Revert, Found, ProducerSet
<1>10. CASE c.type = "vote"
    BY <1>10 DEF Revert, Found, ProducerSet
<1>11. CASE c.type = "nothing"
    BY <1>11 DEF Revert
<1> QED
    BY <1>1, <1>2, <1>3, <1>4, <1>5, <1>6, <1>7, <1>8, <1>9, <1>10, <1>11 DEF Kinds

(* One step of a run, seen from one producer.                              *)
LEMMA ExecutesStep ==
    ASSUME NEW cs \in Seq(ChangeSet), NEW of, NEW g, Executes(g, of, cs), NEW p \in Candidates
    PROVE  /\ Len(cs) \in Nat /\ g[0] = of /\ of[p] \in ProducerSet
           /\ \A i \in 0..Len(cs) : g[i] \in Ofs /\ g[i][p] \in ProducerSet
           /\ \A i \in 1..Len(cs) :
                 /\ cs[i] \in ChangeSet /\ i - 1 \in 0..Len(cs) /\ i \in 0..Len(cs)
                 /\ g[i][p] = IF cs[i].p = p THEN Execute(g[i - 1][p], cs[i]) ELSE g[i - 1][p]
<1>1. \A i \in 0..Len(cs) : g[i] \in Ofs
    BY DEF Executes
<1>2. \A i \in 0..Len(cs) : g[i][p] \in ProducerSet
    BY <1>1 DEF Ofs
<1>3. ASSUME NEW i \in 1..Len(cs)
      PROVE  /\ cs[i] \in ChangeSet /\ i - 1 \in 0..Len(cs) /\ i \in 0..Len(cs)
             /\ g[i][p] = IF cs[i].p = p THEN Execute(g[i - 1][p], cs[i]) ELSE g[i - 1][p]
    <2>1. cs[i] \in ChangeSet /\ i - 1 \in 0..Len(cs) /\ i \in 0..Len(cs)
        OBVIOUS
    <2>2. g[i - 1] \in Ofs /\ g[i] = [g[i - 1] EXCEPT ![cs[i].p] = Execute(g[i - 1][cs[i].p], cs[i])]
        BY <1>1, <2>1 DEF Executes
    <2> QED
        BY <2>1, <2>2 DEF Ofs
<1>4. Len(cs) \in Nat /\ 0 \in 0..Len(cs) /\ g[0] = of
    BY DEF Executes
<1> QED
    BY <1>1, <1>2, <1>3, <1>4

LEMMA RevertsStep ==
    ASSUME NEW cs \in Seq(ChangeSet), NEW of, NEW g, Reverts(g, of, cs), NEW p \in Candidates
    PROVE  /\ Len(cs) \in Nat /\ g[0] = of /\ of[p] \in ProducerSet
           /\ \A i \in 0..Len(cs) : g[i] \in Ofs /\ g[i][p] \in ProducerSet
           /\ \A i \in 1..Len(cs) :
                 /\ cs[i] \in ChangeSet /\ i - 1 \in 0..Len(cs) /\ i \in 0..Len(cs)
                 /\ g[i][p] = IF cs[i].p = p THEN Revert(g[i - 1][p], cs[i]) ELSE g[i - 1][p]
<1>1. \A i \in 0..Len(cs) : g[i] \in Ofs
    BY DEF Reverts
<1>2. \A i \in 0..Len(cs) : g[i][p] \in ProducerSet
    BY <1>1 DEF Ofs
<1>3. ASSUME NEW i \in 1..Len(cs)
      PROVE  /\ cs[i] \in ChangeSet /\ i - 1 \in 0..Len(cs) /\ i \in 0..Len(cs)
             /\ g[i][p] = IF cs[i].p = p THEN Revert(g[i - 1][p], cs[i]) ELSE g[i - 1][p]
    <2>1. cs[i] \in ChangeSet /\ i - 1 \in 0..Len(cs) /\ i \in 0..Len(cs)
        OBVIOUS
    <2>2. g[i - 1] \in Ofs /\ g[i] = [g[i - 1] EXCEPT ![cs[i].p] = Revert(g[i - 1][cs[i].p], cs[i])]
        BY <1>1, <2>1 DEF Reverts
    <2> QED
        BY <2>1, <2>2 DEF Ofs
<1>4. Len(cs) \in Nat /\ 0 \in 0..Len(cs) /\ g[0] = of
    BY DEF Reverts
<1> QED
    BY <1>1, <1>2, <1>3, <1>4

(* What getProducer finds it still finds after the changes of a block, and *)
(* it finds one that the block registers or cancels.                       *)
LEMMA ExecutesFound ==
    ASSUME NEW cs \in Seq(ChangeSet), NEW of, NEW g, Executes(g, of, cs), NEW p \in Candidates
    PROVE  /\ Found(of[p]) => Found(g[Len(cs)][p])
           /\ Has(cs, "register", p) \/ Has(cs, "cancel", p) => Found(g[Len(cs)][p])
           /\ ((of[p].state # "none" \/ Has(cs, "return", p)) => Found(of[p]))
                 => (g[Len(cs)][p].state # "none" => Found(g[Len(cs)][p]))
           /\ (of[p].tables # {} => of[p].state # "none")
                 => (g[Len(cs)][p].tables # {} => g[Len(cs)][p].state # "none")
<1> DEFINE n == Len(cs)
<1>1. /\ n \in Nat /\ g[0] = of /\ \A i \in 0..n : g[i][p] \in ProducerSet
      /\ \A i \in 1..n : /\ cs[i] \in ChangeSet /\ i - 1 \in 0..n /\ i \in 0..n
                          /\ g[i][p] = IF cs[i].p = p THEN Execute(g[i - 1][p], cs[i]) ELSE g[i - 1][p]
    BY ExecutesStep
<1> DEFINE Late == {i \in 0..n : Found(of[p]) \/ (\E m \in 1..i : cs[m].type \in {"register", "cancel"} /\ cs[m].p = p)
                                   => Found(g[i][p])}
<1>2. \A i \in 0..n : i \in Late
    <2>1. 0 \in Late
        BY <1>1
    <2>2. ASSUME NEW i \in 1..n, i - 1 \in Late PROVE i \in Late
        <3> SUFFICES ASSUME \/ Found(of[p])
                            \/ \E m \in 1..i : cs[m].type \in {"register", "cancel"} /\ cs[m].p = p
                     PROVE  Found(g[i][p])
            BY <1>1
        <3>1. CASE cs[i].type \in {"register", "cancel"} /\ cs[i].p = p
            BY <1>1, <3>1, ExecuteEffect
        <3>2. CASE ~(cs[i].type \in {"register", "cancel"} /\ cs[i].p = p)
            <4>1. \/ Found(of[p])
                  \/ \E m \in 1..(i - 1) : cs[m].type \in {"register", "cancel"} /\ cs[m].p = p
                BY <1>1, <3>2
            <4>2. Found(g[i - 1][p])
                BY <2>2, <4>1
            <4> QED
                BY <1>1, <4>2, ExecuteEffect
        <3> QED
            BY <3>1, <3>2
    <2> HIDE DEF Late
    <2> QED
        BY <1>1, <2>1, <2>2, UpTo, Zenon
<1>3. ASSUME (of[p].state # "none" \/ Has(cs, "return", p)) => Found(of[p])
      PROVE  g[n][p].state # "none" => Found(g[n][p])
    <2> DEFINE T == {i \in 0..n : g[i][p].state # "none" => Found(g[i][p])}
    <2>1. 0 \in T
        BY <1>1, <1>3
    <2>2. ASSUME NEW i \in 1..n, i - 1 \in T PROVE i \in T
        <3> SUFFICES ASSUME g[i][p].state # "none" PROVE Found(g[i][p])
            BY <1>1
        <3>1. CASE g[i - 1][p].state # "none"
            BY <1>1, <2>2, <3>1, ExecuteEffect
        <3>2. CASE g[i - 1][p].state = "none"
            <4>1. cs[i].p = p /\ g[i][p] = Execute(g[i - 1][p], cs[i])
                BY <1>1, <3>2
            <4>2. Found(g[i][p]) \/ cs[i].type = "return"
                BY <1>1, <3>2, <4>1, ExecuteEffect
            <4>3. CASE cs[i].type = "return"
                <5>1. Found(of[p])
                    BY <1>3, <4>1, <4>3 DEF Has
                <5> QED
                    BY <1>1, <1>2, <5>1
            <4> QED
                BY <4>2, <4>3
        <3> QED
            BY <3>1, <3>2
    <2>3. \A i \in 0..n : i \in T
        <3> HIDE DEF T
        <3> QED
            BY <1>1, <2>1, <2>2, UpTo, Zenon
    <2> QED
        BY <1>1, <2>3
<1>4. ASSUME of[p].tables # {} => of[p].state # "none"
      PROVE  g[n][p].tables # {} => g[n][p].state # "none"
    <2> DEFINE T == {i \in 0..n : g[i][p].tables # {} => g[i][p].state # "none"}
    <2>1. 0 \in T
        BY <1>1, <1>4
    <2>2. ASSUME NEW i \in 1..n, i - 1 \in T PROVE i \in T
        <3> DEFINE r == g[i - 1][p]
                   c == cs[i]
        <3>1. /\ r \in ProducerSet /\ c \in ChangeSet /\ i \in 0..n
              /\ g[i][p] = IF c.p = p THEN Execute(r, c) ELSE r
            BY <1>1
        <3>2. r.tables # {} => r.state # "none"
            BY <2>2
        <3> HIDE DEF r, c
        <3>3. Execute(r, c).tables # {} => Execute(r, c).state # "none"
            BY <3>1, <3>2, ExecuteEffect
        <3>4. g[i][p].tables # {} => g[i][p].state # "none"
            BY <3>1, <3>2, <3>3
        <3> QED
            BY <3>1, <3>4
    <2>3. \A i \in 0..n : i \in T
        <3> HIDE DEF T
        <3> QED
            BY <1>1, <2>1, <2>2, UpTo, Zenon
    <2> QED
        BY <1>1, <2>3
<1>5. Found(of[p]) => Found(g[n][p])
    BY <1>1, <1>2
<1>6. Has(cs, "register", p) \/ Has(cs, "cancel", p) => Found(g[n][p])
    BY <1>1, <1>2 DEF Has
<1> QED
    BY <1>3, <1>4, <1>5, <1>6

(* A block makes a producer known only by a change that says so.           *)
Telling == Kinds \ {"request", "nothing"}

LEMMA ExecutesKnown ==
    ASSUME NEW cs \in Seq(ChangeSet), NEW of, NEW g, Executes(g, of, cs), NEW p \in Candidates,
           Known(g[Len(cs)][p])
    PROVE  Known(of[p]) \/ \E type \in Telling : Has(cs, type, p)
<1> DEFINE n == Len(cs)
<1>1. /\ n \in Nat /\ g[0] = of /\ \A i \in 0..n : g[i][p] \in ProducerSet
      /\ \A i \in 1..n : /\ cs[i] \in ChangeSet /\ i - 1 \in 0..n /\ i \in 0..n
                          /\ g[i][p] = IF cs[i].p = p THEN Execute(g[i - 1][p], cs[i]) ELSE g[i - 1][p]
    BY ExecutesStep
<1> SUFFICES ASSUME \A i \in 1..n : cs[i].p = p => cs[i].type \notin Telling, ~Known(of[p])
             PROVE  FALSE
    BY DEF Has
<1> DEFINE T == {i \in 0..n : ~Known(g[i][p])}
<1>2. 0 \in T
    BY <1>1
<1>3. ASSUME NEW i \in 1..n, i - 1 \in T PROVE i \in T
    <2>1. CASE cs[i].p = p
        <3>1. cs[i].type \in {"request", "nothing"}
            BY <1>1, <2>1 DEF Telling, ChangeSet, AnyChange
        <3> QED
            BY <1>1, <1>3, <2>1, <3>1, ExecuteEffect DEF Known
    <2>2. CASE cs[i].p # p
        BY <1>1, <1>3, <2>2
    <2> QED
        BY <2>1, <2>2
<1>4. \A i \in 0..n : i \in T
    <2> HIDE DEF T
    <2> QED
        BY <1>1, <1>2, <1>3, UpTo, Zenon
<1> QED
    BY <1>1, <1>4

(* A rollback loses no producer but one that the block registered.         *)
LEMMA RevertsFound ==
    ASSUME NEW cs \in Seq(ChangeSet), NEW of, NEW g, Reverts(g, of, cs), NEW p \in Candidates
    PROVE  /\ Found(of[p]) /\ ~Has(cs, "register", p) => Found(g[Len(cs)][p])
           /\ /\ (of[p].state # "none" \/ Has(cs, "return", p)) => Found(of[p])
              /\ ~(Has(cs, "return", p) /\ Has(cs, "register", p))
              => (g[Len(cs)][p].state # "none" => Found(g[Len(cs)][p]))
<1> DEFINE n == Len(cs)
<1>1. /\ n \in Nat /\ g[0] = of /\ \A i \in 0..n : g[i][p] \in ProducerSet
      /\ \A i \in 1..n : /\ cs[i] \in ChangeSet /\ i - 1 \in 0..n /\ i \in 0..n
                          /\ g[i][p] = IF cs[i].p = p THEN Revert(g[i - 1][p], cs[i]) ELSE g[i - 1][p]
    BY RevertsStep
<1>2. ASSUME Found(of[p]), ~Has(cs, "register", p) PROVE \A i \in 0..n : Found(g[i][p])
    <2> DEFINE T == {i \in 0..n : Found(g[i][p])}
    <2>1. 0 \in T
        BY <1>1, <1>2
    <2>2. ASSUME NEW i \in 1..n, i - 1 \in T PROVE i \in T
        BY <1>1, <1>2, <2>2, RevertEffect DEF Has
    <2>3. \A i \in 0..n : i \in T
        <3> HIDE DEF T
        <3> QED
            BY <1>1, <2>1, <2>2, UpTo, Zenon
    <2> QED
        BY <1>1, <2>3
<1>3. ASSUME (of[p].state # "none" \/ Has(cs, "return", p)) => Found(of[p]),
             ~(Has(cs, "return", p) /\ Has(cs, "register", p))
      PROVE  g[n][p].state # "none" => Found(g[n][p])
    <2> DEFINE T == {i \in 0..n : g[i][p].state # "none" => Found(g[i][p])}
    <2>1. 0 \in T
        BY <1>1, <1>3
    <2>2. ASSUME NEW i \in 1..n, i - 1 \in T PROVE i \in T
        <3> SUFFICES ASSUME g[i][p].state # "none" PROVE Found(g[i][p])
            BY <1>1
        <3>1. CASE g[i - 1][p].state # "none"
            BY <1>1, <2>2, <3>1, RevertEffect
        <3>2. CASE g[i - 1][p].state = "none"
            <4>1. cs[i].p = p /\ g[i][p] = Revert(g[i - 1][p], cs[i])
                BY <1>1, <3>2
            <4>2. Found(g[i][p]) \/ cs[i].type = "return"
                BY <1>1, <3>2, <4>1, RevertEffect
            <4>3. CASE cs[i].type = "return"
                <5>1. Found(of[p]) /\ ~Has(cs, "register", p)
                    BY <1>3, <4>1, <4>3 DEF Has
                <5> QED
                    BY <1>1, <1>2, <5>1
            <4> QED
                BY <4>2, <4>3
        <3> QED
            BY <3>1, <3>2
    <2>3. \A i \in 0..n : i \in T
        <3> HIDE DEF T
        <3> QED
            BY <1>1, <2>1, <2>2, UpTo, Zenon
    <2> QED
        BY <1>1, <2>3
<1> QED
    BY <1>1, <1>2, <1>3

(* cs changes the votes of p by n: by at most one vote and one withdrawal, *)
(* and not in a block that registers p.                                    *)
Carries(cs, p, n) ==
    \E a, e \in 0..Len(cs) :
        /\ \A i \in 1..Len(cs) : cs[i].type = "vote" /\ cs[i].p = p =>
              \/ i = a /\ i # e /\ cs[i].amount = 1
              \/ i = e /\ i # a /\ cs[i].amount = -1
        /\ a # 0 => cs[a].type = "vote" /\ cs[a].p = p
        /\ e # 0 => cs[e].type = "vote" /\ cs[e].p = p
        /\ n = (IF a # 0 THEN 1 ELSE 0) - (IF e # 0 THEN 1 ELSE 0)
        /\ Has(cs, "register", p) => a = 0 /\ e = 0

(* The invariant of every case.  Here s is the store, ps the states that   *)
(* the chain gives, ls the log and gs the gains.                           *)
Shape(s, ps, ls, gs, h) ==
    /\ s \in Stores /\ ps \in Seq(Stores) /\ ls \in Seq(Seq(ChangeSet))
    /\ gs \in Seq([Candidates -> {-1, 0, 1}])
    /\ Len(ps) = Len(ls) + 1 /\ Len(gs) = Len(ls) /\ Len(ls) <= Capacity
    /\ h \in Nat /\ Len(ls) <= h /\ h <= MaxHeight

(* A rollback to ps[k] will have to find p.                                *)
Needs(ps, ls, k, p) == Known(ps[k].of[p]) \/ (k <= Len(ls) /\ Has(ls[k], "return", p))

Kept(s, ps, ls) ==
    \A p \in Candidates :
        /\ s.of[p].state # "none" => Found(s.of[p])
        /\ \A k \in 1..Len(ps) : ps[k].of[p].tables # {} => ps[k].of[p].state # "none"
        /\ \A k \in 1..Len(ps) : Needs(ps, ls, k, p) => Found(s.of[p])
        /\ \A m \in 1..Len(ls) : Has(ls[m], "register", p) => \A k \in 1..m : ~Needs(ps, ls, k, p)

Tallied(s, ps, ls, gs) ==
    \A p \in Candidates :
        /\ s.of[p].votes = ps[Len(ps)].of[p].votes
        /\ \A k \in 1..Len(ls) : /\ Carries(ls[k], p, gs[k][p])
                                 /\ ps[k + 1].of[p].votes = ps[k].of[p].votes + gs[k][p]

AlwaysInv == Shape(st, past, log, gains, height) /\ Kept(st, past, log) /\ Tallied(st, past, log, gains)

LEMMA TxKind ==
    ASSUME NEW s \in Stores, NEW tx \in Txs, NEW h \in Nat, NEW c, c = TxChange(s, tx, h)
    PROVE  /\ c.p = tx.p /\ c.height = h /\ c.type \notin {"activate", "inactivity"}
           /\ \A type \in {"register", "cancel", "request", "return"} : c.type = type <=> tx.type = type
           /\ c.type = "vote" <=> tx.type \in {"vote", "unvote"}
           /\ tx.type = "vote" => c.amount = 1
           /\ tx.type = "unvote" => c.amount = -1
           /\ c.type = "cancel" =>
                 c.from = IF s.of[tx.p].state = "pending" THEN "pending" ELSE "activity"
           /\ c.type = "illegal" => /\ tx.type = "illegal" /\ c.from \in {"activity", "canceled"}
                                    /\ c.from \in s.of[tx.p].tables
           /\ c.type = "emergency" => /\ tx.type = "emergency"
                                      /\ s.of[tx.p].tables \cap {"activity", "inactive"} # {}
                                      /\ "inactive" \notin s.of[tx.p].tables => c.amount = 2
<1>1. tx.type \in AllTxTypes
    BY TxTypesAssumption DEF Txs
<1> DEFINE Rec(type, from, amount) ==
             [type |-> type, p |-> tx.p, height |-> h, from |-> from, reset |-> FALSE,
              counting |-> 0, amount |-> amount]
           T == s.of[tx.p].tables
<1>2. \A type, from, amount :
          /\ Rec(type, from, amount).type = type /\ Rec(type, from, amount).from = from
          /\ Rec(type, from, amount).amount = amount /\ Rec(type, from, amount).p = tx.p
          /\ Rec(type, from, amount).height = h
    OBVIOUS
<1>3. CASE tx.type = "cancel"
    <2>1. c = Rec("cancel", IF s.of[tx.p].state = "pending" THEN "pending" ELSE "activity", 0)
        BY <1>3 DEF TxChange, Change
    <2> HIDE DEF Rec
    <2> QED
        BY <1>2, <1>3, <2>1
<1>4. CASE tx.type = "illegal"
    <2>1. \/ c = Rec("nothing", "none", 0)
          \/ \E from \in {"activity", "canceled"} : c = Rec("illegal", from, 0) /\ from \in T
        BY <1>4 DEF TxChange, Change
    <2> HIDE DEF Rec
    <2> QED
        BY <1>2, <1>4, <2>1
<1>5. CASE tx.type = "emergency"
    <2>1. \/ c = Rec("nothing", "none", 0)
          \/ \E n \in {2, 4} : /\ c = Rec("emergency", "none", n) /\ T \cap {"activity", "inactive"} # {}
                               /\ "inactive" \notin T => n = 2
        BY <1>5 DEF TxChange, Change
    <2> HIDE DEF Rec
    <2> QED
        BY <1>2, <1>5, <2>1
<1>6. CASE tx.type = "vote"
    <2>1. c = Rec("vote", "none", 1)
        BY <1>6 DEF TxChange, Change
    <2> HIDE DEF Rec
    <2> QED
        BY <1>2, <1>6, <2>1
<1>7. CASE tx.type = "unvote"
    <2>1. c = Rec("vote", "none", -1)
        BY <1>7 DEF TxChange, Change
    <2> HIDE DEF Rec
    <2> QED
        BY <1>2, <1>7, <2>1
<1>8. CASE tx.type \in {"register", "request", "return"}
    <2>1. c = Rec(tx.type, "none", 0)
        BY <1>8 DEF TxChange, Change
    <2> HIDE DEF Rec
    <2> QED
        BY <1>2, <1>8, <2>1
<1> QED
    BY <1>1, <1>3, <1>4, <1>5, <1>6, <1>7, <1>8 DEF AllTxTypes

LEMMA TxListed ==
    ASSUME NEW h, NEW txs \in TxLists(h)
    PROVE  /\ txs \in Seq(Txs) /\ Len(txs) \in Nat /\ DOMAIN txs = 1..Len(txs)
           /\ \A j \in 1..Len(txs) : txs[j] \in Txs /\ ContextOK(txs[j], h)
           /\ \A i, j \in 1..Len(txs) : txs[i] = txs[j] => i = j
<1>1. PICK n \in 0..MaxTxs : txs \in [1..n -> Txs]
    BY DEF TxLists
<1>2. n \in Nat
    BY ParametersAssumption
<1>3. txs \in Seq(Txs) /\ Len(txs) = n /\ DOMAIN txs = 1..n
    BY <1>1, <1>2
<1>4. /\ \A j \in DOMAIN txs : ContextOK(txs[j], h)
      /\ \A i, j \in DOMAIN txs : i < j => txs[i] # txs[j]
    BY DEF TxLists
<1> QED
    BY <1>1, <1>2, <1>3, <1>4

(* A number that steps a and e move by d up and down.                      *)
LEMMA UpAndDown ==
    ASSUME NEW l \in Nat, NEW a \in 0..l, NEW e \in 0..l, NEW d \in {1, -1}, NEW v \in [0..l -> Int],
           a = e => a = 0,
           \A i \in 1..l : /\ i = a => v[i] = v[i - 1] + d
                           /\ i = e => v[i] = v[i - 1] - d
                           /\ i # a /\ i # e =>
                                 v[i] = v[i - 1] \/ (v[i] = 0 /\ v[0] = 0 /\ a = 0 /\ e = 0)
    PROVE  v[l] = v[0] + d * ((IF a # 0 THEN 1 ELSE 0) - (IF e # 0 THEN 1 ELSE 0))
<1> DEFINE Up(i) == IF a # 0 /\ a <= i THEN d ELSE 0
           Down(i) == IF e # 0 /\ e <= i THEN d ELSE 0
           T == {i \in 0..l : v[i] = v[0] + Up(i) - Down(i)}
<1>1. 0 \in T
    <2>1. Up(0) = 0 /\ Down(0) = 0 /\ v[0] \in Int
        OBVIOUS
    <2> HIDE DEF Up, Down
    <2> QED
        BY <2>1
<1>2. ASSUME NEW i \in 1..l, i - 1 \in T PROVE i \in T
    <2>1. v[0] \in Int /\ v[i] \in Int /\ v[i - 1] \in Int /\ v[i - 1] = v[0] + Up(i - 1) - Down(i - 1)
        BY <1>2
    <2>2. Up(i - 1) \in Int /\ Down(i - 1) \in Int /\ Up(i) \in Int /\ Down(i) \in Int
        OBVIOUS
    <2>3. CASE i = a
        <3>1. Up(i) = d /\ Up(i - 1) = 0 /\ Down(i) = Down(i - 1) /\ v[i] = v[i - 1] + d
            BY <2>3
        <3> HIDE DEF Up, Down
        <3> QED
            BY <2>1, <2>2, <3>1
    <2>4. CASE i = e
        <3>1. Down(i) = d /\ Down(i - 1) = 0 /\ Up(i) = Up(i - 1) /\ v[i] = v[i - 1] - d
            BY <2>4
        <3> HIDE DEF Up, Down
        <3> QED
            BY <2>1, <2>2, <3>1
    <2>5. CASE i # a /\ i # e
        <3>1. Up(i) = Up(i - 1) /\ Down(i) = Down(i - 1)
            BY <2>5
        <3>2. CASE v[i] = v[i - 1]
            <4> HIDE DEF Up, Down
            <4> QED
                BY <2>1, <2>2, <3>1, <3>2
        <3>3. CASE v[i] = 0 /\ v[0] = 0 /\ a = 0 /\ e = 0
            BY <3>3
        <3> QED
            BY <2>5, <3>2, <3>3
    <2> QED
        BY <2>3, <2>4, <2>5
<1>3. l \in T
    <2>1. \A i \in 0..l : i \in T
        <3> HIDE DEF T
        <3> QED
            BY <1>1, <1>2, UpTo, Zenon
    <2>2. l \in 0..l
        OBVIOUS
    <2> HIDE DEF T
    <2> QED
        BY <2>1, <2>2
<1>4. v[l] = v[0] + Up(l) - Down(l) /\ v[0] \in Int
    BY <1>3
<1> QED
    BY <1>4

(* The run of a block that carries n votes adds n, and its rollback takes  *)
(* them away.                                                              *)
LEMMA ExecutesVotes ==
    ASSUME NEW cs \in Seq(ChangeSet), NEW of, NEW g, Executes(g, of, cs), NEW p \in Candidates,
           NEW n, Carries(cs, p, n), Has(cs, "register", p) => of[p].votes = 0
    PROVE  g[Len(cs)][p].votes = of[p].votes + n /\ n \in {-1, 0, 1}
<1> DEFINE l == Len(cs)
           v == [i \in 0..l |-> g[i][p].votes]
<1>1. /\ l \in Nat /\ g[0] = of /\ \A i \in 0..l : g[i][p] \in ProducerSet
      /\ \A i \in 1..l : /\ cs[i] \in ChangeSet /\ i - 1 \in 0..l /\ i \in 0..l
                          /\ g[i][p] = IF cs[i].p = p THEN Execute(g[i - 1][p], cs[i]) ELSE g[i - 1][p]
    BY ExecutesStep
<1>2. PICK a \in 0..l, e \in 0..l :
        /\ \A i \in 1..l : cs[i].type = "vote" /\ cs[i].p = p =>
              \/ i = a /\ i # e /\ cs[i].amount = 1
              \/ i = e /\ i # a /\ cs[i].amount = -1
        /\ a # 0 => cs[a].type = "vote" /\ cs[a].p = p
        /\ e # 0 => cs[e].type = "vote" /\ cs[e].p = p
        /\ n = (IF a # 0 THEN 1 ELSE 0) - (IF e # 0 THEN 1 ELSE 0)
        /\ Has(cs, "register", p) => a = 0 /\ e = 0
    BY DEF Carries
<1>3. v \in [0..l -> Int] /\ v[0] = of[p].votes /\ v[l] = g[l][p].votes
    <2>1. \A i \in 0..l : g[i][p].votes \in Int
        BY <1>1 DEF ProducerSet
    <2> QED
        BY <1>1, <2>1
<1>4. ASSUME NEW i \in 1..l
      PROVE  v[i] = IF cs[i].p # p THEN v[i - 1]
                    ELSE IF cs[i].type = "register" THEN 0
                    ELSE IF cs[i].type = "vote" THEN v[i - 1] + cs[i].amount ELSE v[i - 1]
    <2>1. v[i] = g[i][p].votes /\ v[i - 1] = g[i - 1][p].votes
        BY <1>1
    <2>2. CASE cs[i].p = p
        <3>1. g[i][p] = Execute(g[i - 1][p], cs[i]) /\ g[i - 1][p] \in ProducerSet /\ cs[i] \in ChangeSet
            BY <1>1, <2>2
        <3> HIDE DEF v
        <3> QED
            BY <2>1, <2>2, <3>1, ExecuteEffect
    <2>3. CASE cs[i].p # p
        BY <1>1, <2>1, <2>3
    <2> QED
        BY <2>2, <2>3
<1> HIDE DEF v
<1>5. a = e => a = 0
    BY <1>1, <1>2
<1>6. ASSUME NEW i \in 1..l
      PROVE  /\ i = a => v[i] = v[i - 1] + 1
             /\ i = e => v[i] = v[i - 1] - 1
             /\ i # a /\ i # e => v[i] = v[i - 1] \/ (v[i] = 0 /\ v[0] = 0 /\ a = 0 /\ e = 0)
    <2>1. v[i - 1] \in Int /\ i # 0
        BY <1>1, <1>3
    <2>2. ASSUME i = a PROVE v[i] = v[i - 1] + 1
        <3>1. cs[i].type = "vote" /\ cs[i].p = p /\ cs[i].amount = 1
            BY <1>2, <1>5, <2>1, <2>2
        <3> QED
            BY <1>4, <2>1, <3>1
    <2>3. ASSUME i = e PROVE v[i] = v[i - 1] - 1
        <3>1. cs[i].type = "vote" /\ cs[i].p = p /\ cs[i].amount = -1
            BY <1>2, <1>5, <2>1, <2>3
        <3> QED
            BY <1>4, <2>1, <3>1
    <2>4. ASSUME i # a, i # e PROVE v[i] = v[i - 1] \/ (v[i] = 0 /\ v[0] = 0 /\ a = 0 /\ e = 0)
        <3>1. ~(cs[i].type = "vote" /\ cs[i].p = p)
            BY <1>2, <2>4
        <3>2. CASE cs[i].p = p /\ cs[i].type = "register"
            <4>1. Has(cs, "register", p)
                BY <3>2 DEF Has
            <4> QED
                BY <1>2, <1>3, <1>4, <3>2, <4>1
        <3>3. CASE ~(cs[i].p = p /\ cs[i].type = "register")
            BY <1>4, <3>1, <3>3
        <3> QED
            BY <3>2, <3>3
    <2> QED
        BY <2>2, <2>3, <2>4
<1>7. v[l] = v[0] + 1 * ((IF a # 0 THEN 1 ELSE 0) - (IF e # 0 THEN 1 ELSE 0))
    <2>1. 1 \in {1, -1}
        OBVIOUS
    <2> HIDE DEF l
    <2> QED
        BY <1>1, <1>3, <1>5, <1>6, <2>1, UpAndDown
<1>8. n \in {-1, 0, 1} /\ v[0] \in Int
    BY <1>1, <1>2, <1>3
<1>9. v[l] = v[0] + 1 * n
    BY <1>2, <1>7
<1> QED
    BY <1>3, <1>8, <1>9

LEMMA RevertsVotes ==
    ASSUME NEW cs \in Seq(ChangeSet), NEW of, NEW g, Reverts(g, of, cs), NEW p \in Candidates,
           NEW n, Carries(cs, p, n), Has(cs, "register", p) => of[p].votes = 0
    PROVE  g[Len(cs)][p].votes = of[p].votes - n /\ n \in {-1, 0, 1}
<1> DEFINE l == Len(cs)
           v == [i \in 0..l |-> g[i][p].votes]
<1>1. /\ l \in Nat /\ g[0] = of /\ \A i \in 0..l : g[i][p] \in ProducerSet
      /\ \A i \in 1..l : /\ cs[i] \in ChangeSet /\ i - 1 \in 0..l /\ i \in 0..l
                          /\ g[i][p] = IF cs[i].p = p THEN Revert(g[i - 1][p], cs[i]) ELSE g[i - 1][p]
    BY RevertsStep
<1>2. PICK a \in 0..l, e \in 0..l :
        /\ \A i \in 1..l : cs[i].type = "vote" /\ cs[i].p = p =>
              \/ i = a /\ i # e /\ cs[i].amount = 1
              \/ i = e /\ i # a /\ cs[i].amount = -1
        /\ a # 0 => cs[a].type = "vote" /\ cs[a].p = p
        /\ e # 0 => cs[e].type = "vote" /\ cs[e].p = p
        /\ n = (IF a # 0 THEN 1 ELSE 0) - (IF e # 0 THEN 1 ELSE 0)
        /\ Has(cs, "register", p) => a = 0 /\ e = 0
    BY DEF Carries
<1>3. v \in [0..l -> Int] /\ v[0] = of[p].votes /\ v[l] = g[l][p].votes
    <2>1. \A i \in 0..l : g[i][p].votes \in Int
        BY <1>1 DEF ProducerSet
    <2> QED
        BY <1>1, <2>1
<1>4. ASSUME NEW i \in 1..l
      PROVE  v[i] = IF cs[i].p # p THEN v[i - 1]
                    ELSE IF cs[i].type = "register" THEN 0
                    ELSE IF cs[i].type = "vote" THEN v[i - 1] - cs[i].amount ELSE v[i - 1]
    <2>1. v[i] = g[i][p].votes /\ v[i - 1] = g[i - 1][p].votes
        BY <1>1
    <2>2. CASE cs[i].p = p
        <3>1. g[i][p] = Revert(g[i - 1][p], cs[i]) /\ g[i - 1][p] \in ProducerSet /\ cs[i] \in ChangeSet
            BY <1>1, <2>2
        <3> HIDE DEF v
        <3> QED
            BY <2>1, <2>2, <3>1, RevertEffect
    <2>3. CASE cs[i].p # p
        BY <1>1, <2>1, <2>3
    <2> QED
        BY <2>2, <2>3
<1> HIDE DEF v
<1>5. a = e => a = 0
    BY <1>1, <1>2
<1>6. ASSUME NEW i \in 1..l
      PROVE  /\ i = a => v[i] = v[i - 1] + (-1)
             /\ i = e => v[i] = v[i - 1] - (-1)
             /\ i # a /\ i # e => v[i] = v[i - 1] \/ (v[i] = 0 /\ v[0] = 0 /\ a = 0 /\ e = 0)
    <2>1. v[i - 1] \in Int /\ i # 0
        BY <1>1, <1>3
    <2>2. ASSUME i = a PROVE v[i] = v[i - 1] + (-1)
        <3>1. cs[i].type = "vote" /\ cs[i].p = p /\ cs[i].amount = 1
            BY <1>2, <1>5, <2>1, <2>2
        <3> QED
            BY <1>4, <2>1, <3>1
    <2>3. ASSUME i = e PROVE v[i] = v[i - 1] - (-1)
        <3>1. cs[i].type = "vote" /\ cs[i].p = p /\ cs[i].amount = -1
            BY <1>2, <1>5, <2>1, <2>3
        <3> QED
            BY <1>4, <2>1, <3>1
    <2>4. ASSUME i # a, i # e PROVE v[i] = v[i - 1] \/ (v[i] = 0 /\ v[0] = 0 /\ a = 0 /\ e = 0)
        <3>1. ~(cs[i].type = "vote" /\ cs[i].p = p)
            BY <1>2, <2>4
        <3>2. CASE cs[i].p = p /\ cs[i].type = "register"
            <4>1. Has(cs, "register", p)
                BY <3>2 DEF Has
            <4> QED
                BY <1>2, <1>3, <1>4, <3>2, <4>1
        <3>3. CASE ~(cs[i].p = p /\ cs[i].type = "register")
            BY <1>4, <3>1, <3>3
        <3> QED
            BY <3>2, <3>3
    <2> QED
        BY <2>2, <2>3, <2>4
<1>7. v[l] = v[0] + (-1) * ((IF a # 0 THEN 1 ELSE 0) - (IF e # 0 THEN 1 ELSE 0))
    <2>1. (-1) \in {1, -1}
        OBVIOUS
    <2> HIDE DEF l
    <2> QED
        BY <1>1, <1>3, <1>5, <1>6, <2>1, UpAndDown
<1>8. n \in {-1, 0, 1} /\ v[0] \in Int
    BY <1>1, <1>2, <1>3
<1>9. v[l] = v[0] + (-1) * n
    BY <1>2, <1>7
<1> QED
    BY <1>3, <1>8, <1>9

(* A block without duplicates carries what Gain says.                      *)
Times(txs, tx) == Cardinality({i \in DOMAIN txs : txs[i] = tx})

LEMMA OneOrNone ==
    ASSUME NEW txs \in Seq(Txs), \A i, j \in 1..Len(txs) : txs[i] = txs[j] => i = j,
           NEW tx
    PROVE  \E a \in 0..Len(txs) :
              /\ \A i \in 1..Len(txs) : txs[i] = tx <=> i = a
              /\ Times(txs, tx) = IF a # 0 THEN 1 ELSE 0
<1> DEFINE S == {i \in DOMAIN txs : txs[i] = tx}
<1>1. DOMAIN txs = 1..Len(txs) /\ Len(txs) \in Nat
    OBVIOUS
<1>2. CASE S = {}
    <2>1. Cardinality(S) = 0
        BY <1>2, FS_EmptySet
    <2>2. \A i \in 1..Len(txs) : txs[i] # tx
        BY <1>1, <1>2
    <2> HIDE DEF S
    <2>3. 0 \in 0..Len(txs)
        BY <1>1
    <2> WITNESS 0 \in 0..Len(txs)
    <2>4. \A i \in 1..Len(txs) : txs[i] = tx <=> i = 0
        BY <1>1, <2>2
    <2> QED
        BY <2>1, <2>4 DEF S, Times
<1>3. CASE S # {}
    <2>1. PICK a \in S : TRUE
        BY <1>3
    <2>2. a \in 1..Len(txs) /\ txs[a] = tx
        BY <1>1, <2>1
    <2>3. \A i \in 1..Len(txs) : txs[i] = tx <=> i = a
        BY <2>2
    <2>4. S = {a}
        BY <1>1, <2>2, <2>3
    <2>5. Cardinality(S) = 1
        BY <2>4, FS_Singleton
    <2>6. a # 0 /\ a \in 0..Len(txs)
        BY <1>1, <2>2
    <2> WITNESS a \in 0..Len(txs)
    <2> QED
        BY <2>3, <2>5, <2>6 DEF Times
<1> QED
    BY <1>2, <1>3

LEMMA CarriesGain ==
    ASSUME NEW s \in Stores, NEW b, b.txs \in Seq(Txs), NEW h \in Nat, NEW cs, NEW K,
           Formed(s, b.txs, h, cs, K), \A t \in K : t[1] # "vote" /\ t[1] # "register",
           \A i, j \in 1..Len(b.txs) : b.txs[i] = b.txs[j] => i = j, NEW p \in Candidates,
           \A i, j \in 1..Len(b.txs) :
              ~(/\ b.txs[i].p = p /\ b.txs[i].type = "register"
                /\ b.txs[j].p = p /\ b.txs[j].type \in {"vote", "unvote"})
    PROVE  Carries(cs, p, Gain(b)[p])
<1> DEFINE txs == b.txs
           up == [type |-> "vote", p |-> p]
           down == [type |-> "unvote", p |-> p]
           n == Len(txs)
           l == Len(cs)
<1>1. /\ n \in Nat /\ l \in Nat /\ l >= n /\ cs \in Seq(ChangeSet)
      /\ \A i \in 1..n : cs[i] = TxChange(s, txs[i], h) /\ txs[i] \in Txs
      /\ \A i \in 1..l : i > n => cs[i].type # "vote" /\ cs[i].type # "register"
    <2>1. \A i \in 1..l : i > n => i \in (n + 1)..l
        OBVIOUS
    <2>2. \A i \in (n + 1)..l : <<cs[i].type, cs[i].from>> \in K
        BY DEF Formed
    <2>3. \A i \in (n + 1)..l : cs[i].type # "vote" /\ cs[i].type # "register"
        BY <2>2
    <2> QED
        BY <2>1, <2>3 DEF Formed
<1>2. PICK a \in 0..n : /\ \A i \in 1..n : txs[i] = up <=> i = a
                        /\ Times(txs, up) = IF a # 0 THEN 1 ELSE 0
    <2>1. txs \in Seq(Txs) /\ \A i, j \in 1..Len(txs) : txs[i] = txs[j] => i = j
        OBVIOUS
    <2> HIDE DEF txs, up
    <2> QED
        BY <2>1, OneOrNone
<1>3. PICK e \in 0..n : /\ \A i \in 1..n : txs[i] = down <=> i = e
                        /\ Times(txs, down) = IF e # 0 THEN 1 ELSE 0
    <2>1. txs \in Seq(Txs) /\ \A i, j \in 1..Len(txs) : txs[i] = txs[j] => i = j
        OBVIOUS
    <2> HIDE DEF txs, down
    <2> QED
        BY <2>1, OneOrNone
<1>4. Gain(b)[p] = (IF a # 0 THEN 1 ELSE 0) - (IF e # 0 THEN 1 ELSE 0)
    BY <1>2, <1>3 DEF Gain, Times
<1>5. \A tx \in Txs : /\ tx.type = "vote" /\ tx.p = p => tx = up
                      /\ tx.type = "unvote" /\ tx.p = p => tx = down
    BY DEF Txs
<1>6. up.type = "vote" /\ up.p = p /\ down.type = "unvote" /\ down.p = p /\ up # down
    OBVIOUS
<1> HIDE DEF up, down, n, l
<1>7. a \in 0..l /\ e \in 0..l
    BY <1>1
<1>8. ASSUME NEW i \in 1..l, cs[i].type = "vote", cs[i].p = p
      PROVE  \/ i = a /\ i # e /\ cs[i].amount = 1
             \/ i = e /\ i # a /\ cs[i].amount = -1
    <2>1. i \in 1..n /\ cs[i] = TxChange(s, txs[i], h) /\ txs[i] \in Txs
        BY <1>1, <1>8
    <2>2. txs[i].p = p /\ txs[i].type \in {"vote", "unvote"}
        BY <1>8, <2>1, TxKind
    <2>3. CASE txs[i].type = "vote"
        <3>1. cs[i].amount = 1
            BY <2>1, <2>3, TxKind
        <3>2. txs[i] = up
            BY <1>5, <2>1, <2>2, <2>3
        <3> QED
            BY <1>2, <1>3, <1>6, <2>1, <3>1, <3>2
    <2>4. CASE txs[i].type = "unvote"
        <3>1. cs[i].amount = -1
            BY <2>1, <2>4, TxKind
        <3>2. txs[i] = down
            BY <1>5, <2>1, <2>2, <2>4
        <3> QED
            BY <1>2, <1>3, <1>6, <2>1, <3>1, <3>2
    <2> QED
        BY <2>2, <2>3, <2>4
<1>9. ASSUME a # 0 PROVE cs[a].type = "vote" /\ cs[a].p = p
    <2>1. a \in 1..n
        BY <1>1, <1>9
    <2>2. txs[a] = up /\ txs[a] \in Txs /\ cs[a] = TxChange(s, txs[a], h)
        BY <1>1, <1>2, <2>1
    <2>3. txs[a].type = "vote" /\ txs[a].p = p
        BY <1>6, <2>2
    <2> QED
        BY <2>2, <2>3, TxKind
<1>10. ASSUME e # 0 PROVE cs[e].type = "vote" /\ cs[e].p = p
    <2>1. e \in 1..n
        BY <1>1, <1>10
    <2>2. txs[e] = down /\ txs[e] \in Txs /\ cs[e] = TxChange(s, txs[e], h)
        BY <1>1, <1>3, <2>1
    <2>3. txs[e].type = "unvote" /\ txs[e].p = p
        BY <1>6, <2>2
    <2> QED
        BY <2>2, <2>3, TxKind
<1>11. ASSUME Has(cs, "register", p) PROVE a = 0 /\ e = 0
    <2>1. PICK i \in 1..l : cs[i].type = "register" /\ cs[i].p = p
        BY <1>11 DEF Has, l
    <2>2. i \in 1..n /\ cs[i] = TxChange(s, txs[i], h) /\ txs[i] \in Txs
        BY <1>1, <2>1
    <2>3. txs[i].p = p /\ txs[i].type = "register"
        BY <2>1, <2>2, TxKind
    <2>4. \A j \in 1..n : ~(txs[j].p = p /\ txs[j].type \in {"vote", "unvote"})
        BY <2>2, <2>3 DEF n
    <2>5. a \notin 1..n
        BY <1>2, <1>6, <2>4
    <2>6. e \notin 1..n
        BY <1>3, <1>6, <2>4
    <2> QED
        BY <1>1, <2>5, <2>6
<1> QED
    BY <1>4, <1>7, <1>8, <1>9, <1>10, <1>11 DEF Carries, l

(* The last entries of the past, the log and the gains after a block.      *)
Extends(q, r, x, d) ==
    /\ Len(r) = Len(q) + 1 - d
    /\ \A i \in 1..(Len(q) - d) : r[i] = q[i + d]
    /\ r[Len(r)] = x

LEMMA PushExtends ==
    ASSUME NEW S, NEW q \in Seq(S), NEW x \in S, NEW n \in Nat \ {0}, Len(q) <= n, NEW d,
           d = IF Len(q) >= n THEN 1 ELSE 0
    PROVE  Push(q, x, n) \in Seq(S) /\ Extends(q, Push(q, x, n), x, d) /\ Len(Push(q, x, n)) <= n
<1>1. CASE Len(q) >= n
    <2>1. Tail(q) \in Seq(S) /\ Len(Tail(q)) = Len(q) - 1 /\ \A i \in 1..(Len(q) - 1) : Tail(q)[i] = q[i + 1]
        BY <1>1
    <2>2. /\ Push(q, x, n) \in Seq(S) /\ Len(Push(q, x, n)) = Len(q)
          /\ \A i \in 1..(Len(q) - 1) : Push(q, x, n)[i] = Tail(q)[i]
          /\ Push(q, x, n)[Len(q)] = x
        BY <1>1, <2>1 DEF Push
    <2> QED
        BY <1>1, <2>1, <2>2 DEF Extends
<1>2. CASE ~(Len(q) >= n)
    <2>2. /\ Push(q, x, n) \in Seq(S) /\ Len(Push(q, x, n)) = Len(q) + 1
          /\ \A i \in 1..Len(q) : Push(q, x, n)[i] = q[i]
          /\ Push(q, x, n)[Len(q) + 1] = x
        BY <1>2 DEF Push
    <2> QED
        BY <1>2, <2>2 DEF Extends
<1> QED
    BY <1>1, <1>2

(* The index shifts of a block that is connected: what it must do to keep  *)
(* the invariant.                                                          *)
KeepsFound(s, ps, ls, s1, ps1, ls1, l1, cs, d) ==
    /\ d \in {0, 1} /\ Len(ls) \in Nat /\ Len(ps) = Len(ls) + 1 /\ d <= Len(ls)
    /\ Kept(s, ps, ls) /\ Extends(ps, ps1, l1, d) /\ Extends(ls, ls1, cs, d)
    /\ \A p \in Candidates :
          /\ Found(s.of[p]) => Found(s1.of[p])
          /\ s1.of[p].state # "none" => Found(s1.of[p])
          /\ l1.of[p].tables # {} => l1.of[p].state # "none"
          /\ Known(l1.of[p]) => Found(s1.of[p])
          /\ Has(cs, "return", p) => Found(s.of[p])
          /\ Has(cs, "register", p) => ~Found(s.of[p])

LEMMA KeptExtends ==
    ASSUME NEW s, NEW ps, NEW ls, NEW s1, NEW ps1, NEW ls1, NEW l1, NEW cs, NEW d,
           KeepsFound(s, ps, ls, s1, ps1, ls1, l1, cs, d)
    PROVE  Kept(s1, ps1, ls1)
<1> USE DEF KeepsFound
<1> SUFFICES ASSUME NEW p \in Candidates
             PROVE  /\ s1.of[p].state # "none" => Found(s1.of[p])
                    /\ \A k \in 1..Len(ps1) : ps1[k].of[p].tables # {} => ps1[k].of[p].state # "none"
                    /\ \A k \in 1..Len(ps1) : Needs(ps1, ls1, k, p) => Found(s1.of[p])
                    /\ \A m \in 1..Len(ls1) : Has(ls1[m], "register", p) =>
                                                 \A k \in 1..m : ~Needs(ps1, ls1, k, p)
    BY DEF Kept
<1> DEFINE n == Len(ls)
<1>1. /\ Len(ps1) = n + 2 - d /\ Len(ls1) = n + 1 - d /\ n \in Nat
      /\ ps1[n + 2 - d] = l1 /\ ls1[n + 1 - d] = cs
      /\ \A k \in 1..(n + 1 - d) : ps1[k] = ps[k + d] /\ k + d \in 1..Len(ps)
      /\ \A k \in 1..(n - d) : ls1[k] = ls[k + d] /\ k + d \in 1..n
    BY DEF Extends
<1> HIDE DEF n
<1>2. ASSUME NEW k \in 1..(n + 1 - d), Needs(ps1, ls1, k, p) PROVE Found(s.of[p])
    <2>1. CASE Known(ps1[k].of[p])
        <3>1. Needs(ps, ls, k + d, p) /\ k + d \in 1..Len(ps)
            BY <1>1, <2>1 DEF Needs
        <3> QED
            BY <3>1 DEF Kept
    <2>2. CASE k <= Len(ls1) /\ Has(ls1[k], "return", p)
        <3>1. CASE k = n + 1 - d
            BY <1>1, <2>2, <3>1
        <3>2. CASE k # n + 1 - d
            <4>0. k \in 1..(n - d)
                BY <1>1, <3>2
            <4>1. ls1[k] = ls[k + d] /\ k + d \in 1..n /\ k + d \in 1..Len(ps)
                BY <1>1, <4>0
            <4>2. Needs(ps, ls, k + d, p)
                BY <2>2, <4>1 DEF Needs, n
            <4> QED
                BY <4>1, <4>2 DEF Kept
        <3> QED
            BY <3>1, <3>2
    <2> QED
        BY <1>2, <2>1, <2>2 DEF Needs
<1>3. \A k \in 1..Len(ps1) : ps1[k].of[p].tables # {} => ps1[k].of[p].state # "none"
    <2> SUFFICES ASSUME NEW k \in 1..Len(ps1)
                 PROVE  ps1[k].of[p].tables # {} => ps1[k].of[p].state # "none"
        OBVIOUS
    <2>1. CASE k = n + 2 - d
        BY <1>1, <2>1
    <2>2. CASE k # n + 2 - d
        <3>1. ps1[k] = ps[k + d] /\ k + d \in 1..Len(ps)
            BY <1>1, <2>2
        <3> QED
            BY <3>1 DEF Kept
    <2> QED
        BY <2>1, <2>2
<1>4. ASSUME NEW k \in 1..Len(ps1), Needs(ps1, ls1, k, p) PROVE Found(s1.of[p])
    <2>1. CASE k = n + 2 - d
        <3>1. Known(l1.of[p])
            BY <1>1, <1>4, <2>1 DEF Needs
        <3> QED
            BY <3>1
    <2>2. CASE k # n + 2 - d
        <3>1. k \in 1..(n + 1 - d)
            BY <1>1, <2>2
        <3> QED
            BY <1>2, <1>4, <3>1
    <2> QED
        BY <2>1, <2>2
<1>5. ASSUME NEW m \in 1..Len(ls1), Has(ls1[m], "register", p), NEW k \in 1..m
      PROVE  ~Needs(ps1, ls1, k, p)
    <2>1. CASE m = n + 1 - d
        <3>1. ~Found(s.of[p]) /\ k \in 1..(n + 1 - d)
            BY <1>1, <1>5, <2>1
        <3> QED
            BY <1>2, <3>1
    <2>2. CASE m # n + 1 - d
        <3>0. m \in 1..(n + 1 - d) /\ d \in Int
            BY <1>1
        <3>1. m \in 1..(n - d) /\ k \in 1..(n - d) /\ k \in 1..(n + 1 - d) /\ k + d \in 1..(m + d)
            <4>1. n \in Nat /\ m # n + 1 - d /\ m \in Int
                BY <1>1, <2>2, <3>0
            <4>2. m \in 1..(n - d)
                BY <3>0, <4>1
            <4> QED
                BY <3>0, <4>1, <4>2
        <3>2. /\ ls1[m] = ls[m + d] /\ m + d \in 1..n /\ k + d \in 1..(m + d) /\ k + d \in 1..n
              /\ ps1[k] = ps[k + d] /\ ls1[k] = ls[k + d]
            <4>1. ls1[m] = ls[m + d] /\ m + d \in 1..n
                BY <1>1, <3>1
            <4>2. ls1[k] = ls[k + d] /\ k + d \in 1..n
                BY <1>1, <3>1
            <4>3. ps1[k] = ps[k + d]
                BY <1>1, <3>1
            <4> QED
                BY <3>1, <4>1, <4>2, <4>3
        <3>3. ~Needs(ps, ls, k + d, p)
            BY <1>5, <3>2 DEF Kept, n
        <3> QED
            BY <3>2, <3>3 DEF Needs, n
    <2> QED
        BY <2>1, <2>2
<1> QED
    BY <1>3, <1>4, <1>5

AddsVotes(s, ps, ls, gs, s1, ps1, ls1, gs1, l1, cs, g, d) ==
    /\ d \in {0, 1} /\ Len(ls) \in Nat /\ Len(ps) = Len(ls) + 1 /\ Len(gs) = Len(ls) /\ d <= Len(ls)
    /\ Tallied(s, ps, ls, gs)
    /\ Extends(ps, ps1, l1, d) /\ Extends(ls, ls1, cs, d) /\ Extends(gs, gs1, g, d)
    /\ \A p \in Candidates :
          /\ Carries(cs, p, g[p])
          /\ s1.of[p].votes = s.of[p].votes + g[p]
          /\ l1.of[p].votes = ps[Len(ps)].of[p].votes + g[p]

LEMMA TalliedExtends ==
    ASSUME NEW s, NEW ps, NEW ls, NEW gs, NEW s1, NEW ps1, NEW ls1, NEW gs1, NEW l1, NEW cs, NEW g,
           NEW d, AddsVotes(s, ps, ls, gs, s1, ps1, ls1, gs1, l1, cs, g, d)
    PROVE  Tallied(s1, ps1, ls1, gs1)
<1> USE DEF AddsVotes
<1> SUFFICES ASSUME NEW p \in Candidates
             PROVE  /\ s1.of[p].votes = ps1[Len(ps1)].of[p].votes
                    /\ \A k \in 1..Len(ls1) :
                          /\ Carries(ls1[k], p, gs1[k][p])
                          /\ ps1[k + 1].of[p].votes = ps1[k].of[p].votes + gs1[k][p]
    BY DEF Tallied
<1> DEFINE n == Len(ls)
<1>1. /\ Len(ps1) = n + 2 - d /\ Len(ls1) = n + 1 - d /\ n \in Nat /\ Len(ps) = n + 1
      /\ ps1[n + 2 - d] = l1 /\ ls1[n + 1 - d] = cs /\ gs1[n + 1 - d] = g
      /\ \A k \in 1..(n + 1 - d) : ps1[k] = ps[k + d] /\ k + d \in 1..Len(ps)
      /\ \A k \in 1..(n - d) : ls1[k] = ls[k + d] /\ gs1[k] = gs[k + d] /\ k + d \in 1..n
    BY DEF Extends
<1>2. /\ s.of[p].votes = ps[Len(ps)].of[p].votes
      /\ \A k \in 1..n : /\ Carries(ls[k], p, gs[k][p])
                         /\ ps[k + 1].of[p].votes = ps[k].of[p].votes + gs[k][p]
    BY DEF Tallied
<1> HIDE DEF n
<1>3. s1.of[p].votes = ps1[Len(ps1)].of[p].votes
    BY <1>1, <1>2
<1>4. ASSUME NEW k \in 1..Len(ls1)
      PROVE  /\ Carries(ls1[k], p, gs1[k][p])
             /\ ps1[k + 1].of[p].votes = ps1[k].of[p].votes + gs1[k][p]
    <2>1. CASE k = n + 1 - d
        <3>1. k + 1 = n + 2 - d /\ k \in 1..(n + 1 - d) /\ k + d = n + 1
            BY <1>1, <2>1
        <3>2. ps1[k + 1] = l1 /\ ps1[k] = ps[Len(ps)] /\ ls1[k] = cs /\ gs1[k] = g
            BY <1>1, <2>1, <3>1
        <3> QED
            BY <3>2
    <2>2. CASE k # n + 1 - d
        <3>1. k \in 1..(n - d) /\ k + 1 \in 1..(n + 1 - d) /\ k \in 1..(n + 1 - d)
              /\ (k + 1) + d = (k + d) + 1
            BY <1>1, <2>2
        <3>2. /\ ps1[k + 1] = ps[(k + d) + 1] /\ ps1[k] = ps[k + d] /\ ls1[k] = ls[k + d]
              /\ gs1[k] = gs[k + d] /\ k + d \in 1..n
            <4>1. ls1[k] = ls[k + d] /\ gs1[k] = gs[k + d] /\ k + d \in 1..n
                BY <1>1, <3>1
            <4>2. ps1[k] = ps[k + d]
                BY <1>1, <3>1
            <4>3. ps1[k + 1] = ps[(k + 1) + d]
                BY <1>1, <3>1
            <4> QED
                BY <3>1, <4>1, <4>2, <4>3
        <3> QED
            BY <1>2, <3>2
    <2> QED
        BY <2>1, <2>2
<1> QED
    BY <1>3, <1>4

(* What a block holds, seen in its changes.                                *)
LEMMA ChangesSeen ==
    ASSUME NEW s \in Stores, NEW b, b.txs \in Seq(Txs), NEW h \in Nat, NEW p \in Candidates, NEW cs,
           cs = Changes(s, b, h)
    PROVE  /\ cs \in Seq(ChangeSet) /\ Len(cs) \in Nat /\ Len(b.txs) \in Nat
           /\ \A type \in {"register", "cancel", "request", "return"} :
                 Has(cs, type, p) <=> \E i \in 1..Len(b.txs) : b.txs[i].type = type /\ b.txs[i].p = p
           /\ Has(cs, "vote", p) <=>
                 \E i \in 1..Len(b.txs) : b.txs[i].type \in {"vote", "unvote"} /\ b.txs[i].p = p
           /\ \A type \in {"activate", "illegal", "emergency", "inactivity"} :
                 Has(cs, type, p) => s.of[p].tables # {}
<1> DEFINE txs == b.txs
           n == Len(txs)
           l == Len(cs)
<1>1. /\ n \in Nat /\ l \in Nat /\ l >= n /\ cs \in Seq(ChangeSet)
      /\ \A i \in 1..n : cs[i] = TxChange(s, txs[i], h) /\ txs[i] \in Txs
      /\ \A i \in 1..l : i > n => Later(s, h, cs[i])
    <2>1. \A i \in 1..l : i > n => i \in (n + 1)..l
        OBVIOUS
    <2>2. Formed(s, txs, h, cs, AllKeys)
        BY ChangesFormed
    <2>3. n \in Nat /\ l \in Nat /\ l >= n /\ cs \in Seq(ChangeSet)
        BY <2>2 DEF Formed
    <2>4. \A i \in 1..n : cs[i] = TxChange(s, txs[i], h) /\ txs[i] \in Txs
        BY <2>2 DEF Formed
    <2>5. \A i \in (n + 1)..l : Later(s, h, cs[i])
        BY <2>2 DEF Formed
    <2> QED
        BY <2>1, <2>3, <2>4, <2>5
<1> HIDE DEF n, l
<1>2. \A i \in 1..n : i \in 1..l
    BY <1>1
<1>3. ASSUME NEW type \in {"register", "cancel", "request", "return"}
      PROVE  Has(cs, type, p) <=> \E i \in 1..n : txs[i].type = type /\ txs[i].p = p
    <2>1. ASSUME NEW i \in 1..n, txs[i].type = type, txs[i].p = p PROVE Has(cs, type, p)
        <3>1. cs[i].type = type /\ cs[i].p = p
            BY <1>1, <2>1, TxKind
        <3> QED
            BY <1>2, <3>1 DEF Has, l
    <2>2. ASSUME NEW i \in 1..l, cs[i].type = type, cs[i].p = p
          PROVE  \E j \in 1..n : txs[j].type = type /\ txs[j].p = p
        <3>1. ~(i > n)
            BY <1>1, <2>2 DEF Later
        <3>2. i \in 1..n
            BY <1>1, <3>1
        <3>3. txs[i].type = type /\ txs[i].p = p
            BY <1>1, <2>2, <3>2, TxKind
        <3> QED
            BY <3>2, <3>3
    <2> QED
        BY <2>1, <2>2 DEF Has, l
<1>4. Has(cs, "vote", p) <=> \E i \in 1..n : txs[i].type \in {"vote", "unvote"} /\ txs[i].p = p
    <2>1. ASSUME NEW i \in 1..n, txs[i].type \in {"vote", "unvote"}, txs[i].p = p
          PROVE  Has(cs, "vote", p)
        <3>1. cs[i].type = "vote" /\ cs[i].p = p
            BY <1>1, <2>1, TxKind
        <3> QED
            BY <1>2, <3>1 DEF Has, l
    <2>2. ASSUME NEW i \in 1..l, cs[i].type = "vote", cs[i].p = p
          PROVE  \E j \in 1..n : txs[j].type \in {"vote", "unvote"} /\ txs[j].p = p
        <3>1. ~(i > n)
            BY <1>1, <2>2 DEF Later
        <3>2. i \in 1..n
            BY <1>1, <3>1
        <3>3. txs[i].type \in {"vote", "unvote"} /\ txs[i].p = p
            BY <1>1, <2>2, <3>2, TxKind
        <3> QED
            BY <3>2, <3>3
    <2> QED
        BY <2>1, <2>2 DEF Has, l
<1>5. ASSUME NEW type \in {"activate", "illegal", "emergency", "inactivity"}, Has(cs, type, p)
      PROVE  s.of[p].tables # {}
    <2>1. PICK i \in 1..l : cs[i].type = type /\ cs[i].p = p
        BY <1>5 DEF Has, l
    <2>2. CASE i > n
        BY <1>1, <2>1, <2>2 DEF Later, Waits
    <2>3. CASE ~(i > n)
        <3>1. i \in 1..n
            BY <1>1, <2>3
        <3>2. cs[i] = TxChange(s, txs[i], h) /\ txs[i] \in Txs
            BY <1>1, <3>1
        <3> HIDE DEF txs
        <3>3. cs[i].type \in {"illegal", "emergency"} /\ txs[i].p = p
            BY <2>1, <3>2, TxKind
        <3>4. CASE cs[i].type = "illegal"
            BY <3>2, <3>3, <3>4, TxKind
        <3>5. CASE cs[i].type = "emergency"
            BY <3>2, <3>3, <3>5, TxKind
        <3> QED
            BY <3>3, <3>4, <3>5
    <2> QED
        BY <2>2, <2>3
<1> QED
    BY <1>1, <1>3, <1>4, <1>5 DEF n, l

LEMMA TypeSeen ==
    ASSUME NEW s \in Stores, NEW b, b.txs \in Seq(Txs), NEW h \in Nat, NEW p \in Candidates, NEW cs,
           cs = Changes(s, b, h), NEW type \in {"register", "cancel", "request", "return"}
    PROVE  Has(cs, type, p) <=> \E i \in 1..Len(b.txs) : b.txs[i].type = type /\ b.txs[i].p = p
    BY ChangesSeen

LEMMA BlockRuns ==
    ASSUME NEW s \in Stores, NEW b, b.txs \in Seq(Txs), b.arbiters \in ArbiterSets, NEW h \in Nat
    PROVE  /\ ProcessBlock(s, b, h) \in Stores /\ ProcessBlock(s, b, h).pre = b.arbiters
           /\ \E g : /\ Executes(g, s.of, Changes(s, b, h))
                     /\ ProcessBlock(s, b, h).of = g[Len(Changes(s, b, h))]
<1> DEFINE cs == Changes(s, b, h)
<1>1. cs \in Seq(ChangeSet) /\ Len(cs) \in Nat
    <2>1. Formed(s, b.txs, h, cs, AllKeys)
        BY ChangesFormed
    <2> QED
        BY <2>1 DEF Formed
<1>2. s.of \in Ofs
    BY DEF Stores
<1> HIDE DEF cs
<1>3. PICK g : Executes(g, s.of, cs) /\ ExecuteAll(s.of, cs) = g[Len(cs)]
    BY <1>1, <1>2, ExecuteAllRuns
<1>4. g[Len(cs)] \in Ofs
    BY <1>1, <1>3 DEF Executes
<1>5. ProcessBlock(s, b, h) = [of |-> g[Len(cs)], pre |-> b.arbiters]
    BY <1>3 DEF ProcessBlock, cs
<1> QED
    BY <1>3, <1>4, <1>5 DEF Stores, cs

LEMMA LastOfPast ==
    ASSUME NEW s, NEW ps, NEW ls, NEW gs, NEW h, Shape(s, ps, ls, gs, h)
    PROVE  /\ Last(ps) = ps[Len(ps)] /\ Last(ps) \in Stores /\ Len(ps) \in Nat \ {0}
           /\ Len(ls) \in Nat /\ Len(ps) = Len(ls) + 1 /\ Len(ps) \in 1..Len(ps)
BY DEF Shape, Last

(* What the context checks tell of the producers in a block.               *)
LEMMA InContext ==
    ASSUME AlwaysInv, NEW h, NEW txs \in TxLists(h), NEW i \in 1..Len(txs), NEW p \in Candidates,
           txs[i].p = p
    PROVE  /\ txs[i].type = "register" => ~Found(st.of[p]) /\ st.of[p].tables = {}
           /\ txs[i].type \in {"return", "vote", "unvote"} => Found(st.of[p])
<1>1. ContextOK(txs[i], h)
    BY TxListed
<1>2. Last(past) = past[Len(past)] /\ Len(past) \in 1..Len(past) /\ Last(past).of[p] \in ProducerSet
    BY LastOfPast DEF AlwaysInv, Stores, Ofs
<1>3. CASE txs[i].type = "register"
    BY <1>1, <1>3 DEF ContextOK, Found
<1>4. CASE txs[i].type = "return"
    <2>1. st.of[p].state = "canceled"
        BY <1>1, <1>4 DEF ContextOK
    <2> QED
        BY <1>4, <2>1 DEF AlwaysInv, Kept
<1>5. CASE txs[i].type = "vote"
    BY <1>1, <1>5 DEF ContextOK, Found
<1>6. CASE txs[i].type = "unvote"
    <2>1. Last(past).of[p].votes > 0
        BY <1>1, <1>6 DEF ContextOK
    <2>2. Known(Last(past).of[p])
        BY <1>2, <2>1 DEF Known, ProducerSet
    <2>3. Needs(past, log, Len(past), p)
        BY <1>2, <2>2 DEF Needs
    <2>4. Found(st.of[p])
        BY <1>2, <2>3 DEF AlwaysInv, Kept
    <2> QED
        BY <1>6, <2>4
<1> QED
    BY <1>3, <1>4, <1>5, <1>6

(* The votes of a block.                                                   *)
LEMMA BlockVotes ==
    ASSUME AlwaysInv, NEW h \in Nat, NEW txs \in TxLists(h), NEW b, b.txs = txs,
           b.arbiters \in ArbiterSets, NEW p \in Candidates
    PROVE  /\ Carries(Changes(st, b, h), p, Gain(b)[p]) /\ Gain(b)[p] \in {-1, 0, 1}
           /\ ProcessBlock(st, b, h).of[p].votes = st.of[p].votes + Gain(b)[p]
           /\ ProcessBlock(Last(past), b, h).of[p].votes = Last(past).of[p].votes + Gain(b)[p]
<1> DEFINE l == Last(past)
           cs == Changes(st, b, h)
           ds == Changes(l, b, h)
           n == Gain(b)[p]
<1>1. /\ st \in Stores /\ l \in Stores /\ l = past[Len(past)] /\ Len(past) \in 1..Len(past)
      /\ l.of[p] \in ProducerSet
    <2>1. Shape(st, past, log, gains, height)
        BY DEF AlwaysInv
    <2>2. /\ l \in Stores /\ l = past[Len(past)] /\ Len(past) \in 1..Len(past)
        BY <2>1, LastOfPast
    <2> HIDE DEF l
    <2> QED
        BY <2>1, <2>2 DEF Shape, Stores, Ofs
<1>2. /\ b.txs \in Seq(Txs) /\ \A i, j \in 1..Len(b.txs) : b.txs[i] = b.txs[j] => i = j
    BY TxListed
<1> HIDE DEF l
<1>3. \A i, j \in 1..Len(b.txs) : ~(/\ b.txs[i].p = p /\ b.txs[i].type = "register"
                                    /\ b.txs[j].p = p /\ b.txs[j].type \in {"vote", "unvote"})
    BY InContext
<1>4. ASSUME NEW s \in Stores PROVE Carries(Changes(s, b, h), p, n)
    <2>1. Formed(s, b.txs, h, Changes(s, b, h), AllKeys)
        BY <1>2, ChangesFormed
    <2>2. \A t \in AllKeys : t[1] # "vote" /\ t[1] # "register"
        BY DEF AllKeys
    <2> QED
        BY <1>2, <1>3, <2>1, <2>2, CarriesGain
<1>5. ASSUME NEW s \in Stores, Has(Changes(s, b, h), "register", p)
      PROVE  st.of[p].votes = 0 /\ l.of[p].votes = 0
    <2>1. \E i \in 1..Len(b.txs) : b.txs[i].type = "register" /\ b.txs[i].p = p
        BY <1>2, <1>5, ChangesSeen
    <2>2. ~Found(st.of[p])
        BY <2>1, InContext
    <2>3. ~Known(l.of[p])
        <3>1. ~Needs(past, log, Len(past), p)
            BY <1>1, <2>2 DEF AlwaysInv, Kept
        <3> QED
            BY <1>1, <3>1 DEF Needs
    <2>4. st.of[p].votes = l.of[p].votes
        BY <1>1 DEF AlwaysInv, Tallied
    <2> QED
        BY <2>3, <2>4 DEF Known
<1>6. ASSUME NEW s \in Stores, Has(Changes(s, b, h), "register", p) => s.of[p].votes = 0
      PROVE  ProcessBlock(s, b, h).of[p].votes = s.of[p].votes + n /\ n \in {-1, 0, 1}
    <2>1. PICK g : /\ Executes(g, s.of, Changes(s, b, h))
                   /\ ProcessBlock(s, b, h).of = g[Len(Changes(s, b, h))]
        BY <1>2, BlockRuns
    <2>2. Changes(s, b, h) \in Seq(ChangeSet)
        BY <1>2, ChangesSeen
    <2>3. Carries(Changes(s, b, h), p, n)
        BY <1>4
    <2> HIDE DEF n
    <2> QED
        BY <1>6, <2>1, <2>2, <2>3, ExecutesVotes
<1>7. Carries(cs, p, n)
    BY <1>1, <1>4
<1>8. ProcessBlock(st, b, h).of[p].votes = st.of[p].votes + n /\ n \in {-1, 0, 1}
    BY <1>1, <1>5, <1>6
<1>9. ProcessBlock(l, b, h).of[p].votes = l.of[p].votes + n
    BY <1>1, <1>5, <1>6
<1> QED
    BY <1>7, <1>8, <1>9 DEF l

(* The sequences after a block.                                            *)
LEMMA ConnectShape ==
    ASSUME AlwaysInv, NEW txs \in TxLists(height + 1), NEW as \in ArbiterSets, NEW b,
           b.txs = txs, b.arbiters = as, Connect(b)
    PROVE  /\ Shape(st', past', log', gains', height')
           /\ \E d \in {0, 1} :
                 /\ d <= Len(log)
                 /\ Extends(past, past', ProcessBlock(Last(past), b, height + 1), d)
                 /\ Extends(log, log', Changes(st, b, height + 1), d)
                 /\ Extends(gains, gains', Gain(b), d)
<1> DEFINE h == height + 1
           s1 == ProcessBlock(st, b, h)
           l1 == ProcessBlock(Last(past), b, h)
           cs == Changes(st, b, h)
           d == IF Len(log) >= Capacity THEN 1 ELSE 0
<1>1. Shape(st, past, log, gains, height)
    BY DEF AlwaysInv
<1>2. h \in Nat /\ h <= MaxHeight /\ Capacity \in Nat \ {0} /\ b.txs \in Seq(Txs) /\ Last(past) \in Stores
    BY <1>1, TxListed, LastOfPast, ParametersAssumption DEF Connect, Shape
<1> HIDE DEF h
<1>3. s1 \in Stores /\ l1 \in Stores
    BY <1>1, <1>2, BlockRuns DEF Shape
<1>4. cs \in Seq(ChangeSet)
    <2>1. Formed(st, b.txs, h, cs, AllKeys)
        BY <1>1, <1>2, ChangesFormed DEF Shape
    <2> QED
        BY <2>1 DEF Formed
<1>5. Gain(b) \in [Candidates -> {-1, 0, 1}]
    <2>1. \A p \in Candidates : Gain(b)[p] \in {-1, 0, 1}
        BY <1>2, BlockVotes DEF h
    <2> QED
        BY <2>1 DEF Gain
<1>6. /\ st' = s1 /\ height' = h
      /\ log' = Push(log, cs, Capacity) /\ past' = Push(past, l1, Capacity + 1)
      /\ gains' = Push(gains, Gain(b), Capacity)
    BY DEF Connect, h
<1> HIDE DEF s1, l1, cs
<1>7. /\ log' \in Seq(Seq(ChangeSet)) /\ Extends(log, log', cs, d) /\ Len(log') <= Capacity
    BY <1>1, <1>2, <1>4, <1>6, PushExtends DEF Shape
<1>8. past' \in Seq(Stores) /\ Extends(past, past', l1, d)
    <2>1. d = (IF Len(past) >= Capacity + 1 THEN 1 ELSE 0) /\ Len(past) <= Capacity + 1
          /\ Capacity + 1 \in Nat \ {0}
        BY <1>1, <1>2 DEF Shape
    <2> HIDE DEF d
    <2> QED
        BY <1>1, <1>3, <1>6, <2>1, PushExtends DEF Shape
<1>9. gains' \in Seq([Candidates -> {-1, 0, 1}]) /\ Extends(gains, gains', Gain(b), d)
    <2>1. d = (IF Len(gains) >= Capacity THEN 1 ELSE 0) /\ Len(gains) <= Capacity
        BY <1>1, <1>2 DEF Shape
    <2> HIDE DEF d
    <2> QED
        BY <1>1, <1>2, <1>5, <1>6, <2>1, PushExtends DEF Shape
<1>10. d \in {0, 1} /\ d <= Len(log) /\ Len(log) \in Nat
    BY <1>1, <1>2 DEF Shape
<1> HIDE DEF d
<1>11. Shape(st', past', log', gains', height')
    <2>1. Len(past') = Len(log') + 1 /\ Len(gains') = Len(log') /\ Len(log') <= h
        BY <1>1, <1>7, <1>8, <1>9, <1>10 DEF Shape, Extends, h
    <2> QED
        BY <1>2, <1>3, <1>6, <1>7, <1>8, <1>9, <2>1 DEF Shape
<1> QED
    BY <1>7, <1>8, <1>9, <1>10, <1>11 DEF h, l1, cs

LEMMA ConnectAlways ==
    ASSUME AlwaysInv, NEW txs \in TxLists(height + 1), NEW as \in ArbiterSets, NEW b,
           b.txs = txs, b.arbiters = as, Connect(b)
    PROVE  AlwaysInv'
<1> DEFINE h == height + 1
           l == Last(past)
           s1 == ProcessBlock(st, b, h)
           l1 == ProcessBlock(l, b, h)
           cs == Changes(st, b, h)
           ds == Changes(l, b, h)
<1>1. PICK d \in {0, 1} :
         /\ d <= Len(log) /\ Extends(past, past', l1, d) /\ Extends(log, log', cs, d)
         /\ Extends(gains, gains', Gain(b), d)
    BY ConnectShape
<1>2. Shape(st', past', log', gains', height')
    BY ConnectShape
<1>3. /\ h \in Nat /\ b.txs \in Seq(Txs) /\ st \in Stores /\ l \in Stores /\ l = past[Len(past)]
      /\ Len(past) \in 1..Len(past) /\ Len(log) \in Nat /\ Len(past) = Len(log) + 1
      /\ Len(gains) = Len(log) /\ txs \in TxLists(h)
    <2>1. Shape(st, past, log, gains, height)
        BY DEF AlwaysInv
    <2>2. /\ l \in Stores /\ l = past[Len(past)] /\ Len(past) \in 1..Len(past)
          /\ Len(log) \in Nat /\ Len(past) = Len(log) + 1
        BY <2>1, LastOfPast
    <2>3. b.txs \in Seq(Txs)
        BY TxListed
    <2> HIDE DEF l
    <2> QED
        BY <2>1, <2>2, <2>3 DEF Shape
<1>4. st' = s1
    BY DEF Connect
<1>5. Tallied(s1, past', log', gains')
    <2>1. \A p \in Candidates :
              /\ Carries(cs, p, Gain(b)[p])
              /\ s1.of[p].votes = st.of[p].votes + Gain(b)[p]
              /\ l1.of[p].votes = past[Len(past)].of[p].votes + Gain(b)[p]
        <3> SUFFICES ASSUME NEW p \in Candidates
                     PROVE  /\ Carries(cs, p, Gain(b)[p])
                            /\ s1.of[p].votes = st.of[p].votes + Gain(b)[p]
                            /\ l1.of[p].votes = l.of[p].votes + Gain(b)[p]
            BY <1>3
        <3>1. h \in Nat /\ txs \in TxLists(h)
            BY <1>3
        <3> HIDE DEF h
        <3> QED
            BY <3>1, BlockVotes
    <2> HIDE DEF h, l, s1, l1, cs, ds
    <2>2. Tallied(st, past, log, gains)
        BY DEF AlwaysInv
    <2>3. AddsVotes(st, past, log, gains, s1, past', log', gains', l1, cs, Gain(b), d)
        BY <1>1, <1>3, <2>1, <2>2 DEF AddsVotes
    <2> QED
        BY <2>3, TalliedExtends
<1>6. ASSUME NEW p \in Candidates
      PROVE  /\ Found(st.of[p]) => Found(s1.of[p])
             /\ s1.of[p].state # "none" => Found(s1.of[p])
             /\ l1.of[p].tables # {} => l1.of[p].state # "none"
             /\ Known(l1.of[p]) => Found(s1.of[p])
             /\ Has(cs, "return", p) => Found(st.of[p])
             /\ Has(cs, "register", p) => ~Found(st.of[p])
    <2>1. cs \in Seq(ChangeSet) /\ ds \in Seq(ChangeSet)
        <3> HIDE DEF h, l
        <3> QED
            BY <1>3, ChangesSeen
    <2>2. PICK g : Executes(g, st.of, cs) /\ s1.of = g[Len(cs)]
        <3> HIDE DEF h, l
        <3> QED
            BY <1>3, BlockRuns
    <2>3. PICK f : Executes(f, l.of, ds) /\ l1.of = f[Len(ds)]
        <3> HIDE DEF h, l
        <3> QED
            BY <1>3, BlockRuns
    <2>4. \A type \in {"register", "cancel", "request", "return"} :
             /\ Has(cs, type, p) <=> \E i \in 1..Len(b.txs) : b.txs[i].type = type /\ b.txs[i].p = p
             /\ Has(ds, type, p) <=> \E i \in 1..Len(b.txs) : b.txs[i].type = type /\ b.txs[i].p = p
        <3>0. /\ b.txs \in Seq(Txs) /\ h \in Nat /\ st \in Stores /\ l \in Stores
              /\ cs = Changes(st, b, h) /\ ds = Changes(l, b, h)
            <4> HIDE DEF h, l
            <4> QED
                BY <1>3
        <3> HIDE DEF h, l, cs, ds
        <3>1. \A type \in {"register", "cancel", "request", "return"} :
                 Has(cs, type, p) <=> \E i \in 1..Len(b.txs) : b.txs[i].type = type /\ b.txs[i].p = p
            BY <3>0, TypeSeen
        <3>2. \A type \in {"register", "cancel", "request", "return"} :
                 Has(ds, type, p) <=> \E i \in 1..Len(b.txs) : b.txs[i].type = type /\ b.txs[i].p = p
            BY <3>0, TypeSeen
        <3> QED
            BY <3>1, <3>2
    <2>5. Has(cs, "return", p) => Found(st.of[p])
        BY <1>3, <2>4, InContext
    <2>6. Has(cs, "register", p) => ~Found(st.of[p])
        BY <1>3, <2>4, InContext
    <2>7. (st.of[p].state # "none" => Found(st.of[p])) /\ (l.of[p].tables # {} => l.of[p].state # "none")
        BY <1>3 DEF AlwaysInv, Kept
    <2>8. Known(l.of[p]) => Found(st.of[p])
        BY <1>3 DEF AlwaysInv, Kept, Needs
    <2>9. /\ Found(st.of[p]) => Found(s1.of[p])
          /\ Has(cs, "register", p) \/ Has(cs, "cancel", p) => Found(s1.of[p])
          /\ s1.of[p].state # "none" => Found(s1.of[p])
        <3> HIDE DEF cs, s1
        <3> QED
            BY <2>1, <2>2, <2>5, <2>7, ExecutesFound
    <2>10. l1.of[p].tables # {} => l1.of[p].state # "none"
        <3> HIDE DEF ds, l1, l
        <3> QED
            BY <2>1, <2>3, <2>7, ExecutesFound
    <2>11. ASSUME Known(l1.of[p]) PROVE Found(s1.of[p])
        <3>1. Known(l.of[p]) \/ \E type \in Telling : Has(ds, type, p)
            <4> HIDE DEF ds, l1, l
            <4> QED
                BY <2>1, <2>3, <2>11, ExecutesKnown
        <3>2. ASSUME NEW type \in Telling, Has(ds, type, p) PROVE Found(s1.of[p])
            <4>1. CASE type \in {"register", "cancel", "return"}
                BY <2>4, <2>5, <2>9, <3>2, <4>1
            <4>2. CASE type = "vote"
                <5>1. \E i \in 1..Len(b.txs) : b.txs[i].type \in {"vote", "unvote"} /\ b.txs[i].p = p
                    <6> HIDE DEF h, l
                    <6> QED
                        BY <1>3, <3>2, <4>2, ChangesSeen
                <5>2. Found(st.of[p])
                    BY <1>3, <5>1, InContext
                <5> QED
                    BY <2>9, <5>2
            <4>3. CASE type \in {"activate", "illegal", "emergency", "inactivity"}
                <5>1. l.of[p].tables # {}
                    <6> HIDE DEF h, l
                    <6> QED
                        BY <1>3, <3>2, <4>3, ChangesSeen
                <5>2. Known(l.of[p])
                    BY <2>7, <5>1 DEF Known
                <5> QED
                    BY <2>8, <2>9, <5>2
            <4> QED
                BY <4>1, <4>2, <4>3 DEF Telling, Kinds
        <3> QED
            BY <2>8, <2>9, <3>1, <3>2
    <2> QED
        BY <2>5, <2>6, <2>9, <2>10, <2>11
<1>7. Kept(s1, past', log')
    <2> HIDE DEF h, l, s1, l1, cs, ds
    <2>1. Kept(st, past, log)
        BY DEF AlwaysInv
    <2>2. KeepsFound(st, past, log, s1, past', log', l1, cs, d)
        BY <1>1, <1>3, <1>6, <2>1 DEF KeepsFound
    <2> QED
        BY <2>2, KeptExtends
<1> QED
    BY <1>2, <1>4, <1>5, <1>7 DEF AlwaysInv

LEMMA FrontOf ==
    ASSUME NEW S, NEW q \in Seq(S), Len(q) > 0
    PROVE  /\ Front(q) \in Seq(S) /\ Len(Front(q)) = Len(q) - 1 /\ Len(q) \in Nat
           /\ \A i \in 1..(Len(q) - 1) : Front(q)[i] = q[i]
           /\ Last(q) = q[Len(q)] /\ Last(q) \in S
<1>1. Len(q) \in Nat \ {0} /\ \A i \in 1..Len(q) : q[i] \in S
    OBVIOUS
<1>2. Front(q) = [i \in 1..(Len(q) - 1) |-> q[i]]
    BY <1>1 DEF Front
<1>3. Front(q) \in Seq(S) /\ Len(Front(q)) = Len(q) - 1
    BY <1>1, <1>2
<1> QED
    BY <1>1, <1>2, <1>3 DEF Last

(* What a rollback leaves.                                                 *)
LEMMA DisconnectShape ==
    ASSUME AlwaysInv, Disconnect
    PROVE  /\ Shape(st', past', log', gains', height')
           /\ Len(log) \in Nat \ {0} /\ Len(past') = Len(log) /\ Len(log') = Len(log) - 1
           /\ \A i \in 1..Len(log) : past'[i] = past[i]
           /\ \A i \in 1..(Len(log) - 1) : log'[i] = log[i] /\ gains'[i] = gains[i]
           /\ Last(log) = log[Len(log)] /\ Last(log) \in Seq(ChangeSet) /\ Last(gains) = gains[Len(log)]
           /\ height' = height - 1 /\ st'.pre = st.pre
           /\ \E g : Reverts(g, st.of, Last(log)) /\ st'.of = g[Len(Last(log))]
<1>1. Shape(st, past, log, gains, height)
    BY DEF AlwaysInv
<1>2. Len(log) \in Nat \ {0}
    BY <1>1 DEF Shape, Disconnect
<1>3. /\ log' \in Seq(Seq(ChangeSet)) /\ Len(log') = Len(log) - 1
      /\ \A i \in 1..(Len(log) - 1) : log'[i] = log[i]
      /\ Last(log) = log[Len(log)] /\ Last(log) \in Seq(ChangeSet)
    <2>1. log \in Seq(Seq(ChangeSet)) /\ Len(log) > 0 /\ log' = Front(log)
        BY <1>1, <1>2 DEF Shape, Disconnect
    <2> QED
        BY <2>1, FrontOf
<1>4. /\ past' \in Seq(Stores) /\ Len(past') = Len(past) - 1 /\ Len(past) = Len(log) + 1
      /\ \A i \in 1..(Len(past) - 1) : past'[i] = past[i]
    <2>1. past \in Seq(Stores) /\ Len(past) > 0 /\ past' = Front(past) /\ Len(past) = Len(log) + 1
        BY <1>1, <1>2 DEF Shape, Disconnect
    <2> QED
        BY <2>1, FrontOf
<1>5. /\ gains' \in Seq([Candidates -> {-1, 0, 1}]) /\ Len(gains') = Len(log) - 1
      /\ \A i \in 1..(Len(log) - 1) : gains'[i] = gains[i]
      /\ Last(gains) = gains[Len(log)]
    <2>1. Len(gains) = Len(log) /\ gains \in Seq([Candidates -> {-1, 0, 1}])
          /\ Len(gains) > 0 /\ gains' = Front(gains)
        BY <1>1, <1>2 DEF Shape, Disconnect
    <2> QED
        BY <2>1, FrontOf
<1>6. st \in Stores /\ st.of \in Ofs
    BY <1>1 DEF Shape, Stores
<1>7. PICK g : Reverts(g, st.of, Last(log)) /\ RevertAll(st.of, Last(log)) = g[Len(Last(log))]
    BY <1>3, <1>6, RevertAllRuns
<1>8. g[Len(Last(log))] \in Ofs
    BY <1>3, <1>7 DEF Reverts
<1>9. st' \in Stores /\ st'.pre = st.pre /\ st'.of = g[Len(Last(log))]
    BY <1>6, <1>7, <1>8 DEF Disconnect, Stores
<1>10. height' = height - 1 /\ height' \in Nat /\ Len(log') <= height' /\ height' <= MaxHeight
    BY <1>1, <1>2, <1>3, NeverTyped DEF Shape, Disconnect
<1>11. Shape(st', past', log', gains', height')
    <2>1. Len(log') <= Capacity /\ Len(past') = Len(log') + 1 /\ Len(gains') = Len(log')
        BY <1>1, <1>2, <1>3, <1>4, <1>5, ParametersAssumption DEF Shape
    <2> QED
        BY <1>3, <1>4, <1>5, <1>9, <1>10, <2>1 DEF Shape
<1> QED
    BY <1>2, <1>3, <1>4, <1>5, <1>7, <1>9, <1>10, <1>11

LEMMA DisconnectVotes ==
    ASSUME AlwaysInv, Disconnect, NEW p \in Candidates
    PROVE  st'.of[p].votes = st.of[p].votes - Last(gains)[p] /\ st.of[p].votes \in Int
<1> DEFINE n == Len(log)
           cs == Last(log)
<1>1. /\ n \in Nat \ {0} /\ cs = log[n] /\ cs \in Seq(ChangeSet) /\ Last(gains) = gains[n] /\ n \in 1..n
    BY DisconnectShape
<1>2. PICK g : Reverts(g, st.of, cs) /\ st'.of = g[Len(cs)]
    BY DisconnectShape
<1>3. Len(past) = n + 1 /\ st \in Stores /\ st.of[p] \in ProducerSet /\ n \in 1..Len(past)
    BY <1>1 DEF AlwaysInv, Shape, Stores, Ofs
<1> HIDE DEF n, cs
<1>4. /\ st.of[p].votes = past[n + 1].of[p].votes /\ Carries(cs, p, gains[n][p])
      /\ past[n + 1].of[p].votes = past[n].of[p].votes + gains[n][p]
    BY <1>1, <1>3 DEF AlwaysInv, Tallied, n
<1>5. ASSUME Has(cs, "register", p) PROVE st.of[p].votes = 0
    <2>1. ~Needs(past, log, n, p)
        BY <1>1, <1>3, <1>5 DEF AlwaysInv, Kept, n
    <2>2. past[n].of[p].votes = 0
        BY <2>1 DEF Needs, Known
    <2>3. gains[n][p] = 0
        BY <1>4, <1>5 DEF Carries
    <2> QED
        BY <1>4, <2>2, <2>3
<1>6. st'.of[p].votes = st.of[p].votes - gains[n][p]
    BY <1>1, <1>2, <1>4, <1>5, RevertsVotes
<1> QED
    BY <1>1, <1>3, <1>6 DEF ProducerSet

LEMMA DisconnectAlways ==
    ASSUME AlwaysInv, Disconnect
    PROVE  AlwaysInv'
<1> DEFINE n == Len(log)
           cs == Last(log)
<1>1. /\ n \in Nat \ {0} /\ Len(past') = n /\ Len(log') = n - 1 /\ cs = log[n] /\ cs \in Seq(ChangeSet)
      /\ \A i \in 1..n : past'[i] = past[i]
      /\ \A i \in 1..(n - 1) : log'[i] = log[i] /\ gains'[i] = gains[i]
      /\ Last(gains) = gains[n]
    BY DisconnectShape
<1>2. PICK g : Reverts(g, st.of, cs) /\ st'.of = g[Len(cs)]
    BY DisconnectShape
<1>3. Shape(st', past', log', gains', height')
    BY DisconnectShape
<1>4. Len(past) = n + 1 /\ st \in Stores /\ n \in 1..n
    BY <1>1 DEF AlwaysInv, Shape
<1>5. ASSUME NEW p \in Candidates
      PROVE  /\ st'.of[p].votes = past'[Len(past')].of[p].votes
             /\ \A k \in 1..Len(log') :
                   /\ Carries(log'[k], p, gains'[k][p])
                   /\ past'[k + 1].of[p].votes = past'[k].of[p].votes + gains'[k][p]
    <2>1. /\ st.of[p].votes = past[n + 1].of[p].votes
          /\ \A k \in 1..n : /\ Carries(log[k], p, gains[k][p])
                             /\ past[k + 1].of[p].votes = past[k].of[p].votes + gains[k][p]
        BY <1>4 DEF AlwaysInv, Tallied
    <2>2. st'.of[p].votes = st.of[p].votes - gains[n][p] /\ st.of[p].votes \in Int
        BY <1>1, DisconnectVotes
    <2>3. gains[n][p] \in Int /\ past[n].of[p].votes \in Int
        <3>1. gains \in Seq([Candidates -> {-1, 0, 1}]) /\ n \in 1..Len(gains)
              /\ past \in Seq(Stores) /\ n \in 1..Len(past)
            BY <1>1, <1>4 DEF AlwaysInv, Shape
        <3>2. gains[n] \in [Candidates -> {-1, 0, 1}] /\ past[n] \in Stores
            BY <3>1
        <3>3. past[n].of[p] \in ProducerSet
            BY <3>2 DEF Stores, Ofs
        <3>4. gains[n][p] \in {-1, 0, 1}
            BY <3>2
        <3>5. past[n].of[p].votes \in Int
            BY <3>3 DEF ProducerSet
        <3> QED
            BY <3>4, <3>5
    <2>4. st'.of[p].votes = past[n].of[p].votes
        BY <1>4, <2>1, <2>2, <2>3
    <2>5. ASSUME NEW k \in 1..(n - 1)
          PROVE  /\ Carries(log'[k], p, gains'[k][p])
                 /\ past'[k + 1].of[p].votes = past'[k].of[p].votes + gains'[k][p]
        <3>1. k \in 1..n /\ k + 1 \in 1..n
            BY <1>1
        <3>2. log'[k] = log[k] /\ gains'[k] = gains[k] /\ past'[k] = past[k] /\ past'[k + 1] = past[k + 1]
            BY <1>1, <3>1
        <3> QED
            BY <2>1, <3>1, <3>2
    <2> QED
        BY <1>1, <1>4, <2>4, <2>5
<1>6. ASSUME NEW p \in Candidates
      PROVE  /\ st'.of[p].state # "none" => Found(st'.of[p])
             /\ \A k \in 1..Len(past') : past'[k].of[p].tables # {} => past'[k].of[p].state # "none"
             /\ \A k \in 1..Len(past') : Needs(past', log', k, p) => Found(st'.of[p])
             /\ \A m \in 1..Len(log') : Has(log'[m], "register", p) =>
                                           \A k \in 1..m : ~Needs(past', log', k, p)
    <2>1. /\ st.of[p].state # "none" => Found(st.of[p])
          /\ \A k \in 1..(n + 1) : past[k].of[p].tables # {} => past[k].of[p].state # "none"
          /\ \A k \in 1..(n + 1) : Needs(past, log, k, p) => Found(st.of[p])
          /\ \A m \in 1..n : Has(log[m], "register", p) => \A k \in 1..m : ~Needs(past, log, k, p)
        BY <1>4 DEF AlwaysInv, Kept
    <2>2. ASSUME NEW k \in 1..n, Needs(past', log', k, p) PROVE Needs(past, log, k, p)
        <3>1. past'[k] = past[k] /\ (k <= n - 1 => log'[k] = log[k])
            BY <1>1
        <3> QED
            BY <1>1, <2>2, <3>1 DEF Needs
    <2>3. Has(cs, "return", p) => Needs(past, log, n, p)
        BY <1>1, <1>4 DEF Needs
    <2>4. Has(cs, "register", p) => \A k \in 1..n : ~Needs(past, log, k, p)
        BY <1>1, <1>4, <2>1
    <2>5. /\ Found(st.of[p]) /\ ~Has(cs, "register", p) => Found(st'.of[p])
          /\ st'.of[p].state # "none" => Found(st'.of[p])
        <3>1. Has(cs, "return", p) => Found(st.of[p]) /\ ~Has(cs, "register", p)
            BY <1>1, <1>4, <2>1, <2>3, <2>4
        <3> HIDE DEF cs
        <3>2. /\ Found(st.of[p]) /\ ~Has(cs, "register", p) => Found(g[Len(cs)][p])
              /\ /\ (st.of[p].state # "none" \/ Has(cs, "return", p)) => Found(st.of[p])
                 /\ ~(Has(cs, "return", p) /\ Has(cs, "register", p))
                 => (g[Len(cs)][p].state # "none" => Found(g[Len(cs)][p]))
            BY <1>1, <1>2, RevertsFound
        <3>3. st'.of[p] = g[Len(cs)][p]
            BY <1>2
        <3> QED
            BY <2>1, <3>1, <3>2, <3>3
    <2>6. ASSUME NEW k \in 1..n PROVE past'[k].of[p].tables # {} => past'[k].of[p].state # "none"
        BY <1>1, <2>1
    <2>7. ASSUME NEW k \in 1..n, Needs(past', log', k, p) PROVE Found(st'.of[p])
        <3>1. Needs(past, log, k, p)
            BY <2>2, <2>7
        <3>2. Found(st.of[p]) /\ ~Has(cs, "register", p)
            BY <1>1, <2>1, <2>4, <3>1
        <3> QED
            BY <2>5, <3>2
    <2>8. ASSUME NEW m \in 1..(n - 1), Has(log'[m], "register", p), NEW k \in 1..m
          PROVE  ~Needs(past', log', k, p)
        <3>1. log'[m] = log[m] /\ m \in 1..n /\ k \in 1..n
            BY <1>1
        <3> QED
            BY <2>1, <2>2, <2>8, <3>1
    <2> QED
        BY <1>1, <2>5, <2>6, <2>7, <2>8
<1>7. Kept(st', past', log')
    BY <1>6 DEF Kept
<1>8. Tallied(st', past', log', gains')
    BY <1>5 DEF Tallied
<1> QED
    BY <1>3, <1>7, <1>8 DEF AlwaysInv

LEMMA InitAlways == Init => AlwaysInv
<1> SUFFICES ASSUME Init PROVE AlwaysInv
    OBVIOUS
<1>1. PICK known \in SUBSET Candidates : st = InitState(known) /\ past = <<InitState(known)>>
    BY DEF Init
<1>2. log = <<>> /\ gains = <<>> /\ height = 0
    BY DEF Init
<1> DEFINE s == InitState(known)
           active == [Unregistered EXCEPT !.tables = {"activity"}, !.state = "active"]
<1>3. active \in ProducerSet /\ active.tables = {"activity"} /\ active.state = "active" /\ active.votes = 0
    BY UnregisteredTyped DEF ProducerSet, Tables, States
<1>4. \A p \in Candidates : s.of[p] = IF p \in known THEN active ELSE Unregistered
    BY DEF InitState
<1> HIDE DEF active
<1>5. s \in Stores
    <2>1. s = [of |-> [p \in Candidates |-> IF p \in known THEN active ELSE Unregistered], pre |-> {}]
        BY DEF InitState, active
    <2>2. [p \in Candidates |-> IF p \in known THEN active ELSE Unregistered] \in Ofs
        BY <1>3, UnregisteredTyped DEF Ofs
    <2> HIDE DEF s
    <2> QED
        BY <2>1, <2>2 DEF Stores
<1> HIDE DEF s
<1>6. Shape(st, past, log, gains, height)
    BY <1>1, <1>2, <1>5, ParametersAssumption DEF Shape, s
<1>7. ASSUME NEW p \in Candidates
      PROVE  /\ s.of[p].votes = 0
             /\ s.of[p].state # "none" => Found(s.of[p])
             /\ s.of[p].tables # {} => s.of[p].state # "none"
    BY <1>3, <1>4, UnregisteredTyped DEF Found
<1>8. Len(past) = 1 /\ past[1] = s /\ Len(log) = 0 /\ st = s
    BY <1>1, <1>2 DEF s
<1>9. Kept(st, past, log)
    BY <1>7, <1>8 DEF Kept, Needs, Known
<1>10. Tallied(st, past, log, gains)
    BY <1>7, <1>8 DEF Tallied
<1> QED
    BY <1>6, <1>9, <1>10 DEF AlwaysInv

(* The invariant that holds in every case.                                 *)
THEOREM AlwaysInvariant == Spec => []AlwaysInv
<1>1. AlwaysInv /\ [Next]_vars => AlwaysInv'
    <2> SUFFICES ASSUME AlwaysInv, [Next]_vars PROVE AlwaysInv'
        OBVIOUS
    <2>1. ASSUME NEW txs \in TxLists(height + 1), NEW as \in ArbiterSets, NEW sponsor \in as,
                 Connect([txs |-> txs, arbiters |-> as, sponsor |-> sponsor])
          PROVE  AlwaysInv'
        <3> DEFINE b == [txs |-> txs, arbiters |-> as, sponsor |-> sponsor]
        <3>1. b.txs = txs /\ b.arbiters = as /\ Connect(b)
            BY <2>1
        <3> HIDE DEF b
        <3> QED
            BY <3>1, ConnectAlways
    <2>2. CASE Disconnect
        BY <2>2, DisconnectAlways
    <2>3. CASE UNCHANGED vars
        BY <2>3 DEF vars, AlwaysInv
    <2> QED
        BY <2>1, <2>2, <2>3 DEF Next
<1> QED
    BY <1>1, InitAlways, PTL DEF Spec

(* cancelProducer and updateProducer find every producer that the chain    *)
(* has registered, whatever was connected and rolled back before and       *)
(* however rough the cases were.                                           *)
THEOREM ProducersAreFound == Spec => []NoneLost
<1>1. AlwaysInv => NoneLost
    <2> SUFFICES ASSUME AlwaysInv, NEW p \in Candidates, Last(past).of[p].state # "none"
                 PROVE  st.of[p].tables \ {"pendingCanceled"} # {}
        BY DEF NoneLost
    <2>1. Last(past) = past[Len(past)] /\ Len(past) \in 1..Len(past)
        BY LastOfPast DEF AlwaysInv
    <2>2. Needs(past, log, Len(past), p)
        BY <2>1 DEF Needs, Known
    <2> QED
        BY <2>1, <2>2 DEF AlwaysInv, Kept, Found
<1> QED
    BY <1>1, AlwaysInvariant, PTL

(* The tallies implement the ledger: a block adds what its votes say, a    *)
(* rollback takes exactly that away, in every case.                        *)
THEOREM TalliesFollowChain == Spec => VotesFollowChain
<1> DEFINE tally == [p \in Candidates |-> st.of[p].votes]
<1>1. Init => Ledger!Init
    <2> SUFFICES ASSUME Init PROVE Ledger!Init
        OBVIOUS
    <2>1. PICK known \in SUBSET Candidates : st = InitState(known)
        BY DEF Init
    <2>2. \A p \in Candidates : st.of[p].votes = 0
        BY <2>1 DEF InitState, Unregistered
    <2> QED
        BY <2>2 DEF Init, Ledger!Init
<1>2. AlwaysInv /\ [Next]_vars => [Ledger!Next]_<<gains, tally>>
    <2> SUFFICES ASSUME AlwaysInv, [Next]_vars PROVE [Ledger!Next]_<<gains, tally>>
        OBVIOUS
    <2>1. ASSUME NEW txs \in TxLists(height + 1), NEW as \in ArbiterSets, NEW sponsor \in as,
                 Connect([txs |-> txs, arbiters |-> as, sponsor |-> sponsor])
          PROVE  Ledger!Next
        <3> DEFINE b == [txs |-> txs, arbiters |-> as, sponsor |-> sponsor]
                   h == height + 1
        <3>1. b.txs = txs /\ b.arbiters = as /\ Connect(b)
            BY <2>1
        <3>2. h \in Nat
            BY DEF AlwaysInv, Shape
        <3> HIDE DEF b
        <3>3. gains' = Push(gains, Gain(b), Capacity) /\ st' = ProcessBlock(st, b, h)
            BY <3>1 DEF Connect
        <3> HIDE DEF h
        <3>4. \A p \in Candidates : /\ Gain(b)[p] \in {-1, 0, 1}
                                    /\ st'.of[p].votes = st.of[p].votes + Gain(b)[p]
            BY <3>1, <3>2, <3>3, BlockVotes DEF h
        <3>5. Gain(b) \in [Candidates -> {-1, 0, 1}]
            BY <3>4 DEF Gain
        <3>6. Ledger!Connect(Gain(b))
            BY <3>3, <3>4 DEF Ledger!Connect, Push
        <3> QED
            BY <3>5, <3>6 DEF Ledger!Next
    <2>2. ASSUME Disconnect PROVE Ledger!Next
        <3>1. \A p \in Candidates : st'.of[p].votes = st.of[p].votes - Last(gains)[p]
            BY <2>2, DisconnectVotes
        <3>2. gains # <<>> /\ gains' = Front(gains)
            <4>1. Len(gains) = Len(log) /\ Len(log) \in Nat \ {0}
                BY <2>2, DisconnectShape DEF AlwaysInv, Shape
            <4> QED
                BY <2>2, <4>1 DEF Disconnect
        <3>3. Ledger!Disconnect
            BY <3>1, <3>2 DEF Ledger!Disconnect, Ledger!Front, Ledger!Last, Front, Last
        <3> QED
            BY <3>3 DEF Ledger!Next
    <2>3. CASE UNCHANGED vars
        BY <2>3 DEF vars
    <2> QED
        BY <2>1, <2>2, <2>3 DEF Next
<1> QED
    BY <1>1, <1>2, AlwaysInvariant, PTL DEF Spec, VotesFollowChain, Ledger!Spec

-----------------------------------------------------------------------------
(* Without rough cases: rollbacks are exact.                               *)
LEMMA ListedAll ==
    ASSUME NEW S \in SUBSET Candidates, NEW p \in S
    PROVE  \E i \in 1..Cardinality(S) : SetToSeq(S)[i] = p
<1> DEFINE n == Cardinality(S)
           f == SetToSeq(S)
<1>1. /\ IsFiniteSet(S) /\ n \in Nat /\ f \in [1..n -> S]
      /\ \A i, j \in 1..n : f[i] = f[j] => i = j
    BY Listed
<1> HIDE DEF n, f
<1>2. f \in Injection(1..n, S)
    BY <1>1 DEF Injection, IsInjective
<1>3. IsFiniteSet(1..n) /\ Cardinality(1..n) = n
    BY <1>1, FS_Interval
<1>4. f \in Surjection(1..n, S)
    BY <1>1, <1>2, <1>3, FS_Injection DEF n
<1> QED
    BY <1>4 DEF Surjection, n, f

LEMMA HasConcat ==
    ASSUME NEW cs \in Seq(ChangeSet), NEW ds \in Seq(ChangeSet), NEW type, NEW p,
           Has(cs, type, p) \/ Has(ds, type, p)
    PROVE  cs \o ds \in Seq(ChangeSet) /\ Has(cs \o ds, type, p)
<1> DEFINE es == cs \o ds
           m == Len(cs)
           l == Len(ds)
<1>1. /\ es \in Seq(ChangeSet) /\ Len(es) = m + l /\ m \in Nat /\ l \in Nat
      /\ \A i \in 1..(m + l) : es[i] = IF i <= m THEN cs[i] ELSE ds[i - m]
    BY ConcatProperties
<1> HIDE DEF es, m, l
<1>2. ASSUME NEW i \in 1..m, cs[i].type = type, cs[i].p = p PROVE Has(es, type, p)
    <2>1. i \in 1..(m + l) /\ es[i] = cs[i]
        BY <1>1
    <2> QED
        BY <1>1, <1>2, <2>1 DEF Has
<1>3. ASSUME NEW i \in 1..l, ds[i].type = type, ds[i].p = p PROVE Has(es, type, p)
    <2>1. i + m \in 1..(m + l) /\ es[i + m] = ds[i]
        BY <1>1
    <2> QED
        BY <1>1, <1>3, <2>1 DEF Has
<1>4. Has(es, type, p)
    BY <1>2, <1>3 DEF Has, m, l
<1> QED
    BY <1>1, <1>4 DEF es

(* A producer that has waited long enough is activated.                    *)
LEMMA DueActivated ==
    ASSUME NEW s \in Stores, NEW b, b.txs \in Seq(Txs), NEW h \in Nat, NEW p \in Candidates,
           NEW table \in {"pending", "inactive", "illegal"}, Waits(s, p, table, h)
    PROVE  Has(Changes(s, b, h), "activate", p)
<1> DEFINE t == [i \in 1..Len(b.txs) |-> TxChange(s, b.txs[i], h)]
           a1 == Activations(s, "pending", h)
           a2 == Activations(s, "inactive", h)
           a3 == Activations(s, "illegal", h)
           a4 == Inactivity(s, b, h)
           a == Activations(s, table, h)
<1>1. t \in Seq(ChangeSet)
    <2>1. \A i \in 1..Len(b.txs) : TxChange(s, b.txs[i], h) \in ChangeSet
        BY TxChangeTyped
    <2> QED
        BY <2>1
<1>2. a1 \in Seq(ChangeSet) /\ a2 \in Seq(ChangeSet) /\ a3 \in Seq(ChangeSet) /\ a4 \in Seq(ChangeSet)
    BY ActivationsFormed, InactivityFormed
<1>3. Has(a, "activate", p)
    <2> DEFINE due == {x \in Candidates : table \in s.of[x].tables /\
                  IF table = "pending" THEN h - s.of[x].reg + 1 >= ActivateDuration
                  ELSE Waited(s.of[x].req, h)}
               k == Cardinality(due)
               f == SetToSeq(due)
    <2>1. p \in due /\ due \in SUBSET Candidates
        BY DEF Waits
    <2>2. a = [i \in 1..k |-> [Change("activate", f[i], h) EXCEPT !.from = table]]
        BY DEF Activations
    <2> HIDE DEF due
    <2>3. PICK i \in 1..k : f[i] = p
        BY <2>1, ListedAll
    <2>4. k \in Nat
        BY <2>1, Listed
    <2> HIDE DEF k, f
    <2>5. Len(a) = k
        BY <2>2, <2>4
    <2>6. a[i].type = "activate" /\ a[i].p = p
        BY <2>2, <2>3 DEF Change
    <2> QED
        BY <2>3, <2>5, <2>6 DEF Has
<1> HIDE DEF t
<1>4. Changes(s, b, h) = (((t \o a1) \o a2) \o a3) \o a4
    BY DEF Changes, t
<1> DEFINE u1 == t \o a1
           u2 == u1 \o a2
           u3 == u2 \o a3
<1>5. a = a1 \/ a = a2 \/ a = a3
    OBVIOUS
<1> HIDE DEF a1, a2, a3, a4, a
<1>6. u1 \in Seq(ChangeSet) /\ (Has(a1, "activate", p) => Has(u1, "activate", p))
    BY <1>1, <1>2, HasConcat
<1> HIDE DEF u1
<1>7. u2 \in Seq(ChangeSet)
      /\ (Has(u1, "activate", p) \/ Has(a2, "activate", p) => Has(u2, "activate", p))
    BY <1>2, <1>6, HasConcat
<1> HIDE DEF u2
<1>8. u3 \in Seq(ChangeSet)
      /\ (Has(u2, "activate", p) \/ Has(a3, "activate", p) => Has(u3, "activate", p))
    BY <1>2, <1>7, HasConcat
<1> HIDE DEF u3
<1>9. Has(u3, "activate", p)
    BY <1>3, <1>5, <1>6, <1>7, <1>8
<1>10. Has(u3 \o a4, "activate", p)
    BY <1>2, <1>8, <1>9, HasConcat
<1> QED
    BY <1>4, <1>10 DEF u1, u2, u3

(* Alike but for the votes, which were dealt with above.                   *)
Same(r, x) ==
    /\ r.tables = x.tables /\ r.state = x.state /\ r.reg = x.reg /\ r.req = x.req
    /\ r.cancelled = x.cancelled /\ r.counting = x.counting /\ r.penalty = x.penalty

LEMMA ExecuteSame ==
    ASSUME NEW r \in ProducerSet, NEW x \in ProducerSet, NEW c \in ChangeSet, Same(r, x)
    PROVE  /\ Same(Execute(r, c), Execute(x, c))
           /\ c.type \in {"vote", "nothing"} => Same(Execute(r, c), x)
<1>1. c.type \in Kinds /\ Captured(c)
    BY DEF ChangeSet, AnyChange
<1>2. CASE c.type = "register"
    BY <1>2 DEF Execute, Unregistered, Same
<1>3. CASE c.type = "cancel"
    BY <1>3 DEF Execute, Move, Same, ProducerSet
<1>4. CASE c.type = "request"
    BY <1>4 DEF Execute, Same, ProducerSet
<1>5. CASE c.type = "activate"
    BY <1>5 DEF Execute, Move, Same, ProducerSet
<1>6. CASE c.type = "illegal"
    BY <1>6 DEF Execute, Move, Same, ProducerSet
<1>7. CASE c.type = "emergency"
    BY <1>7 DEF Execute, SetInactive, Move, Same, ProducerSet
<1>8. CASE c.type = "inactivity"
    <2>1. Execute(r, c) = UpdateInactivity(r, c) /\ Execute(x, c) = UpdateInactivity(x, c)
        BY <1>8 DEF Execute
    <2> QED
        BY <1>8, <2>1 DEF UpdateInactivity, SetInactive, Move, Same, ProducerSet
<1>9. CASE c.type = "return"
    BY <1>9 DEF Execute, Same, ProducerSet
<1>10. CASE c.type = "vote"
    BY <1>10 DEF Execute, Same, ProducerSet
<1>11. CASE c.type = "nothing"
    BY <1>11 DEF Execute
<1> QED
    BY <1>1, <1>2, <1>3, <1>4, <1>5, <1>6, <1>7, <1>8, <1>9, <1>10, <1>11 DEF Kinds

LEMMA RevertSame ==
    ASSUME NEW r \in ProducerSet, NEW x \in ProducerSet, NEW c \in ChangeSet, Same(r, x)
    PROVE  /\ Same(Revert(r, c), Revert(x, c))
           /\ c.type \in {"vote", "nothing"} => Same(Revert(r, c), x)
<1>1. c.type \in Kinds /\ Captured(c) /\ c.amount \in Int
    BY DEF ChangeSet, AnyChange
<1>2. CASE c.type = "register"
    BY <1>2 DEF Revert, Unregistered, Same
<1>3. CASE c.type = "cancel"
    BY <1>3 DEF Revert, Move, Same, ProducerSet
<1>4. CASE c.type = "request"
    BY <1>4 DEF Revert, Same, ProducerSet
<1>5. CASE c.type = "activate"
    BY <1>5 DEF Revert, Move, Same, ProducerSet
<1>6. CASE c.type = "illegal"
    BY <1>6 DEF Revert, Move, Same, ProducerSet
<1>7. CASE c.type = "emergency"
    BY <1>7 DEF Revert, RevertInactive, Move, Same, ProducerSet
<1>8. CASE c.type = "inactivity"
    <2>1. Revert(r, c) = RevertInactivity(r, c) /\ Revert(x, c) = RevertInactivity(x, c)
        BY <1>8 DEF Revert
    <2> QED
        BY <1>8, <2>1 DEF RevertInactivity, RevertInactive, Move, Same, ProducerSet
<1>9. CASE c.type = "return"
    BY <1>9 DEF Revert, Same, ProducerSet
<1>10. CASE c.type = "vote"
    BY <1>10 DEF Revert, Same, ProducerSet
<1>11. CASE c.type = "nothing"
    BY <1>11 DEF Revert
<1> QED
    BY <1>1, <1>2, <1>3, <1>4, <1>5, <1>6, <1>7, <1>8, <1>9, <1>10, <1>11 DEF Kinds

(* The changes of cs that do more to p than vote are m and then q.         *)
Effects(cs, p, m, q) ==
    /\ m \in 0..Len(cs) /\ q \in 0..Len(cs)
    /\ \A i \in 1..Len(cs) : cs[i].p = p /\ cs[i].type \notin {"vote", "nothing"} => i = m \/ i = q
    /\ m # 0 => cs[m].p = p
    /\ q # 0 => cs[q].p = p
    /\ m # 0 /\ q # 0 => m < q

LEMMA ExecutesTwo ==
    ASSUME NEW cs \in Seq(ChangeSet), NEW of, NEW g, Executes(g, of, cs), NEW p \in Candidates,
           NEW m, NEW q, Effects(cs, p, m, q), NEW r1, NEW r2,
           r1 = IF m = 0 THEN of[p] ELSE Execute(of[p], cs[m]),
           r2 = IF q = 0 THEN r1 ELSE Execute(r1, cs[q])
    PROVE  Same(g[Len(cs)][p], r2) /\ r1 \in ProducerSet /\ r2 \in ProducerSet
<1> DEFINE n == Len(cs)
           r0 == of[p]
<1>1. /\ n \in Nat /\ g[0] = of /\ of[p] \in ProducerSet /\ \A i \in 0..n : g[i][p] \in ProducerSet
      /\ \A i \in 1..n : /\ cs[i] \in ChangeSet /\ i - 1 \in 0..n /\ i \in 0..n
                          /\ g[i][p] = IF cs[i].p = p THEN Execute(g[i - 1][p], cs[i]) ELSE g[i - 1][p]
    BY ExecutesStep
<1>2. /\ m \in 0..n /\ q \in 0..n
      /\ \A i \in 1..n : cs[i].p = p /\ cs[i].type \notin {"vote", "nothing"} => i = m \/ i = q
      /\ m # 0 => m \in 1..n /\ cs[m].p = p
      /\ q # 0 => q \in 1..n /\ cs[q].p = p
      /\ m # 0 /\ q # 0 => m < q
    BY <1>1 DEF Effects
<1> HIDE DEF n, r0
<1>3. r0 \in ProducerSet /\ r1 \in ProducerSet /\ r2 \in ProducerSet
    <2>1. r0 \in ProducerSet
        BY <1>1 DEF r0
    <2>2. r1 \in ProducerSet
        BY <1>1, <1>2, <2>1, ExecuteTyped DEF r0
    <2> QED
        BY <1>1, <1>2, <2>1, <2>2, ExecuteTyped
<1> DEFINE x(i) == IF q # 0 /\ q <= i THEN r2 ELSE IF m # 0 /\ m <= i THEN r1 ELSE r0
           T == {i \in 0..n : Same(g[i][p], x(i))}
<1>4. \A i \in 0..n : x(i) \in ProducerSet
    BY <1>3
<1>5. 0 \in T
    <2>1. x(0) = r0
        BY <1>1, <1>2
    <2> QED
        BY <1>1, <2>1 DEF Same, r0
<1>6. ASSUME NEW i \in 1..n, i - 1 \in T PROVE i \in T
    <2>1. /\ Same(g[i - 1][p], x(i - 1)) /\ g[i - 1][p] \in ProducerSet /\ x(i - 1) \in ProducerSet
          /\ cs[i] \in ChangeSet /\ i \in Nat /\ i # 0
        BY <1>1, <1>4, <1>6
    <2>2. CASE i = m /\ m # q
        <3>1. cs[i].p = p /\ x(i - 1) = r0 /\ x(i) = r1 /\ r1 = Execute(r0, cs[i])
            BY <1>1, <1>2, <2>1, <2>2 DEF r0
        <3>2. g[i][p] = Execute(g[i - 1][p], cs[i])
            BY <1>1, <3>1
        <3>3. Same(g[i][p], Execute(x(i - 1), cs[i]))
            <4> HIDE DEF x
            <4> QED
                BY <2>1, <3>2, ExecuteSame
        <3> QED
            BY <1>1, <3>1, <3>3
    <2>3. CASE i = q
        <3>1. cs[i].p = p /\ x(i - 1) = r1 /\ x(i) = r2 /\ r2 = Execute(r1, cs[i])
            BY <1>1, <1>2, <2>1, <2>3 DEF r0
        <3>2. g[i][p] = Execute(g[i - 1][p], cs[i])
            BY <1>1, <3>1
        <3>3. Same(g[i][p], Execute(x(i - 1), cs[i]))
            <4> HIDE DEF x
            <4> QED
                BY <2>1, <3>2, ExecuteSame
        <3> QED
            BY <1>1, <3>1, <3>3
    <2>4. CASE i # m /\ i # q
        <3>1. x(i) = x(i - 1)
            BY <1>1, <1>2, <2>1, <2>4
        <3>2. Same(g[i][p], x(i - 1))
            <4> HIDE DEF x
            <4>1. CASE cs[i].p = p
                <5>1. cs[i].type \in {"vote", "nothing"} /\ g[i][p] = Execute(g[i - 1][p], cs[i])
                    BY <1>1, <1>2, <2>4, <4>1
                <5> QED
                    BY <2>1, <5>1, ExecuteSame
            <4>2. CASE cs[i].p # p
                BY <1>1, <2>1, <4>2
            <4> QED
                BY <4>1, <4>2
        <3> HIDE DEF x
        <3> QED
            BY <1>1, <3>1, <3>2
    <2> QED
        BY <2>2, <2>3, <2>4
<1>7. \A i \in 0..n : i \in T
    <2> HIDE DEF T
    <2> QED
        BY <1>1, <1>5, <1>6, UpTo, Zenon
<1>8. Same(g[n][p], x(n)) /\ x(n) = r2
    <2>1. n \in T
        <3> HIDE DEF T
        <3> QED
            BY <1>1, <1>7
    <2>2. x(n) = r2
        <3>1. CASE q # 0
            BY <1>1, <1>2, <3>1
        <3>2. CASE q = 0 /\ m # 0
            BY <1>1, <1>2, <3>2
        <3>3. CASE q = 0 /\ m = 0
            BY <3>3 DEF r0
        <3> QED
            BY <3>1, <3>2, <3>3
    <2> QED
        BY <2>1, <2>2
<1> QED
    BY <1>3, <1>8 DEF n

LEMMA RevertsTwo ==
    ASSUME NEW cs \in Seq(ChangeSet), NEW of, NEW g, Reverts(g, of, cs), NEW p \in Candidates,
           NEW m, NEW q, Effects(cs, p, m, q), NEW r1, NEW r2,
           r1 = IF m = 0 THEN of[p] ELSE Revert(of[p], cs[m]),
           r2 = IF q = 0 THEN r1 ELSE Revert(r1, cs[q])
    PROVE  Same(g[Len(cs)][p], r2) /\ r1 \in ProducerSet /\ r2 \in ProducerSet
<1> DEFINE n == Len(cs)
           r0 == of[p]
<1>1. /\ n \in Nat /\ g[0] = of /\ of[p] \in ProducerSet /\ \A i \in 0..n : g[i][p] \in ProducerSet
      /\ \A i \in 1..n : /\ cs[i] \in ChangeSet /\ i - 1 \in 0..n /\ i \in 0..n
                          /\ g[i][p] = IF cs[i].p = p THEN Revert(g[i - 1][p], cs[i]) ELSE g[i - 1][p]
    BY RevertsStep
<1>2. /\ m \in 0..n /\ q \in 0..n
      /\ \A i \in 1..n : cs[i].p = p /\ cs[i].type \notin {"vote", "nothing"} => i = m \/ i = q
      /\ m # 0 => m \in 1..n /\ cs[m].p = p
      /\ q # 0 => q \in 1..n /\ cs[q].p = p
      /\ m # 0 /\ q # 0 => m < q
    BY <1>1 DEF Effects
<1> HIDE DEF n, r0
<1>3. r0 \in ProducerSet /\ r1 \in ProducerSet /\ r2 \in ProducerSet
    <2>1. r0 \in ProducerSet
        BY <1>1 DEF r0
    <2>2. r1 \in ProducerSet
        BY <1>1, <1>2, <2>1, RevertTyped DEF r0
    <2> QED
        BY <1>1, <1>2, <2>1, <2>2, RevertTyped
<1> DEFINE x(i) == IF q # 0 /\ q <= i THEN r2 ELSE IF m # 0 /\ m <= i THEN r1 ELSE r0
           T == {i \in 0..n : Same(g[i][p], x(i))}
<1>4. \A i \in 0..n : x(i) \in ProducerSet
    BY <1>3
<1>5. 0 \in T
    <2>1. x(0) = r0
        BY <1>1, <1>2
    <2> QED
        BY <1>1, <2>1 DEF Same, r0
<1>6. ASSUME NEW i \in 1..n, i - 1 \in T PROVE i \in T
    <2>1. /\ Same(g[i - 1][p], x(i - 1)) /\ g[i - 1][p] \in ProducerSet /\ x(i - 1) \in ProducerSet
          /\ cs[i] \in ChangeSet /\ i \in Nat /\ i # 0
        BY <1>1, <1>4, <1>6
    <2>2. CASE i = m /\ m # q
        <3>1. cs[i].p = p /\ x(i - 1) = r0 /\ x(i) = r1 /\ r1 = Revert(r0, cs[i])
            BY <1>1, <1>2, <2>1, <2>2 DEF r0
        <3>2. g[i][p] = Revert(g[i - 1][p], cs[i])
            BY <1>1, <3>1
        <3>3. Same(g[i][p], Revert(x(i - 1), cs[i]))
            <4> HIDE DEF x
            <4> QED
                BY <2>1, <3>2, RevertSame
        <3> QED
            BY <1>1, <3>1, <3>3
    <2>3. CASE i = q
        <3>1. cs[i].p = p /\ x(i - 1) = r1 /\ x(i) = r2 /\ r2 = Revert(r1, cs[i])
            BY <1>1, <1>2, <2>1, <2>3 DEF r0
        <3>2. g[i][p] = Revert(g[i - 1][p], cs[i])
            BY <1>1, <3>1
        <3>3. Same(g[i][p], Revert(x(i - 1), cs[i]))
            <4> HIDE DEF x
            <4> QED
                BY <2>1, <3>2, RevertSame
        <3> QED
            BY <1>1, <3>1, <3>3
    <2>4. CASE i # m /\ i # q
        <3>1. x(i) = x(i - 1)
            BY <1>1, <1>2, <2>1, <2>4
        <3>2. Same(g[i][p], x(i - 1))
            <4> HIDE DEF x
            <4>1. CASE cs[i].p = p
                <5>1. cs[i].type \in {"vote", "nothing"} /\ g[i][p] = Revert(g[i - 1][p], cs[i])
                    BY <1>1, <1>2, <2>4, <4>1
                <5> QED
                    BY <2>1, <5>1, RevertSame
            <4>2. CASE cs[i].p # p
                BY <1>1, <2>1, <4>2
            <4> QED
                BY <4>1, <4>2
        <3> HIDE DEF x
        <3> QED
            BY <1>1, <3>1, <3>2
    <2> QED
        BY <2>2, <2>3, <2>4
<1>7. \A i \in 0..n : i \in T
    <2> HIDE DEF T
    <2> QED
        BY <1>1, <1>5, <1>6, UpTo, Zenon
<1>8. Same(g[n][p], x(n)) /\ x(n) = r2
    <2>1. n \in T
        <3> HIDE DEF T
        <3> QED
            BY <1>1, <1>7
    <2>2. x(n) = r2
        <3>1. CASE q # 0
            BY <1>1, <1>2, <3>1
        <3>2. CASE q = 0 /\ m # 0
            BY <1>1, <1>2, <3>2
        <3>3. CASE q = 0 /\ m = 0
            BY <3>3 DEF r0
        <3> QED
            BY <3>1, <3>2, <3>3
    <2> QED
        BY <2>1, <2>2
<1> QED
    BY <1>3, <1>8 DEF n

(* A producer as no rough case leaves it, at height h.                     *)
Home(r) ==
    CASE r.state = "none" -> {}
      [] r.state = "pending" -> {"pending"}
      [] r.state = "active" -> {"activity"}
      [] r.state = "inactive" -> {"inactive"}
      [] r.state = "illegal" -> {"illegal"}
      [] OTHER -> {"canceled"} \cup (r.tables \cap {"pendingCanceled"})

Clean(r, h) ==
    /\ r.tables = Home(r)
    /\ r.state = "none" =>
          r.reg = 0 /\ r.req = Never /\ r.cancelled = 0 /\ r.counting = 0 /\ r.penalty = 0
    /\ r.state \notin {"canceled", "returned"} => r.cancelled = 0
    /\ r.counting <= h
    /\ r.state \in {"inactive", "illegal"} =>
          r.req = Never \/ (r.req <= h /\ (r.req = h \/ h - r.req + 1 < ActivateDuration))

(* A change of the block at h, other than a vote, that meets a clean       *)
(* producer.                                                               *)
Core(c) == c.type \notin {"vote", "nothing"} /\ ~(c.type = "inactivity" /\ c.reset)

Applies(r, c, h) ==
    /\ c.height = h
    /\ \/ c.type = "register" /\ r.state = "none"
       \/ c.type = "cancel" /\ c.from = "pending" /\ r.state = "pending"
       \/ c.type = "cancel" /\ c.from = "activity" /\ r.state = "active"
       \/ c.type = "request" /\ r.state \in {"inactive", "illegal"} /\ r.req = Never
       \/ c.type = "activate" /\ c.from = "pending" /\ r.state = "pending"
       \/ c.type = "activate" /\ c.from = "inactive" /\ r.state = "inactive" /\ r.req # Never
       \/ c.type = "activate" /\ c.from = "illegal" /\ r.state = "illegal" /\ r.req # Never
       \/ c.type = "illegal" /\ c.from = "activity" /\ r.state = "active"
       \/ c.type = "emergency" /\ c.amount = 2 /\ r.state = "active"
       \/ c.type = "inactivity" /\ ~c.reset /\ r.state = "active" /\ c.counting = r.counting
       \/ c.type = "return" /\ r.state = "canceled"

Resets(r, c) == c.type = "inactivity" /\ c.reset /\ r.state = "active" /\ c.counting = r.counting

LEMMA CoreUndone ==
    ASSUME NEW r \in ProducerSet, NEW c \in ChangeSet, NEW h \in Nat, h > 0, Clean(r, h - 1),
           Applies(r, c, h),
           c.type \in {"illegal", "emergency", "inactivity"} => r.req = Never
    PROVE  Same(Revert(Execute(r, c), c), r)
<1> DEFINE x == Execute(r, c)
           y == Revert(x, c)
<1> SUFFICES Same(y, r)
    OBVIOUS
<1>1. /\ r.tables \in SUBSET Tables /\ r.counting \in Nat /\ r.penalty \in Nat /\ r.req \in Nat
      /\ x \in ProducerSet /\ c.type \in Kinds /\ r.state \in States
    BY ExecuteTyped DEF ProducerSet, ChangeSet, AnyChange
<1>2. CASE c.type = "register"
    <2>1. x.tables = r.tables \cup {"pending"}
        BY <1>2 DEF Execute, Unregistered
    <2>2. y = [Unregistered EXCEPT !.tables = x.tables \ {"pending"}]
        BY <1>2 DEF Revert
    <2>3. r.tables = {} /\ r.state = "none"
        BY <1>2 DEF Applies, Clean, Home
    <2> HIDE DEF x, y
    <2> QED
        BY <2>1, <2>2, <2>3 DEF Same, Unregistered, Clean
<1>3. CASE c.type = "cancel"
    <2>1. x = [r EXCEPT !.tables = (r.tables \ {c.from}) \cup CanceledIn(c), !.state = "canceled",
                        !.cancelled = h]
        BY <1>3 DEF Execute, Move, ProducerSet, Applies
    <2>2. y = [x EXCEPT !.tables = (x.tables \ CanceledIn(c)) \cup {c.from}, !.state = StateOf(c.from),
                        !.cancelled = 0]
        <3> HIDE DEF x
        <3> QED
            BY <1>1, <1>3 DEF Revert, Move, ProducerSet
    <2>3. \/ c.from = "pending" /\ r.state = "pending" /\ r.tables = {"pending"}
          \/ c.from = "activity" /\ r.state = "active" /\ r.tables = {"activity"}
        BY <1>3 DEF Applies, Clean, Home
    <2>4. r.cancelled = 0 /\ StateOf(c.from) = r.state
        BY <2>3 DEF Clean, StateOf
    <2> HIDE DEF x, y
    <2>5. y.tables = r.tables
        <3>1. y.tables = (((r.tables \ {c.from}) \cup CanceledIn(c)) \ CanceledIn(c)) \cup {c.from}
            BY <1>1, <2>1, <2>2 DEF ProducerSet
        <3> QED
            BY <2>3, <3>1 DEF CanceledIn
    <2> QED
        BY <1>1, <2>1, <2>2, <2>4, <2>5 DEF Same, ProducerSet
<1>4. CASE c.type = "request"
    <2>1. r.req = Never
        BY <1>4 DEF Applies
    <2> QED
        BY <1>4, <2>1 DEF Execute, Revert, Same, ProducerSet
<1>5. CASE c.type = "activate"
    <2>1. x = [r EXCEPT !.tables = (r.tables \ {c.from}) \cup {"activity"}, !.state = "active"]
        BY <1>5 DEF Execute, Move, ProducerSet
    <2>2. y = [x EXCEPT !.tables = (x.tables \ {"activity"}) \cup {c.from}, !.state = StateOf(c.from)]
        <3> HIDE DEF x
        <3> QED
            BY <1>1, <1>5 DEF Revert, Move, ProducerSet
    <2>3. r.tables = {c.from} /\ StateOf(c.from) = r.state /\ c.from # "activity"
        BY <1>5 DEF Applies, Clean, Home, StateOf
    <2> HIDE DEF x, y
    <2> QED
        BY <1>1, <2>1, <2>2, <2>3 DEF Same, ProducerSet
<1>6. CASE c.type = "illegal"
    <2>0. c.from = "activity" /\ r.state = "active" /\ r.tables = {"activity"} /\ r.req = Never
        BY <1>6 DEF Applies, Clean, Home
    <2>1. x = [r EXCEPT !.tables = {"illegal"}, !.state = "illegal", !.req = Never]
        BY <1>6, <2>0 DEF Execute, Move, ProducerSet
    <2>2. y = [x EXCEPT !.tables = (x.tables \ {"illegal"}) \cup {"activity"}, !.state = "active",
                        !.req = Never]
        <3>1. StateOf("activity") = "active"
            BY DEF StateOf
        <3> HIDE DEF x
        <3> QED
            BY <1>1, <1>6, <2>0, <3>1 DEF Revert, Move, ProducerSet
    <2> HIDE DEF x, y
    <2> QED
        BY <1>1, <2>0, <2>1, <2>2 DEF Same, ProducerSet
<1>7. CASE c.type = "emergency"
    <2>0. c.amount = 2 /\ r.state = "active" /\ r.tables = {"activity"} /\ r.req = Never
        BY <1>7 DEF Applies, Clean, Home
    <2>1. x = SetInactive(r, 2) /\ y = RevertInactive(x, 2)
        BY <1>7, <2>0 DEF Execute, Revert
    <2>2. /\ x = [r EXCEPT !.tables = (r.tables \ {"activity"}) \cup {"inactive"},
                           !.state = "inactive", !.req = Never, !.penalty = r.penalty + 2]
          /\ y = [x EXCEPT !.tables = (x.tables \ {"inactive"}) \cup {"activity"},
                           !.state = "active", !.req = Never,
                           !.penalty = IF x.penalty >= 2 THEN x.penalty - 2 ELSE 0]
        <3> HIDE DEF x
        <3> QED
            BY <1>1, <2>1, InactiveTyped
    <2> HIDE DEF x, y
    <2> QED
        BY <1>1, <2>0, <2>2 DEF Same, ProducerSet
<1>8. CASE c.type = "inactivity"
    <2>0. /\ ~c.reset /\ r.state = "active" /\ r.tables = {"activity"} /\ r.req = Never
          /\ c.counting = r.counting /\ c.height = h /\ r.counting <= h - 1
        BY <1>8 DEF Applies, Clean, Home
    <2>1. x = UpdateInactivity(r, c) /\ y = RevertInactivity(x, c)
        BY <1>8 DEF Execute, Revert
    <2> DEFINE k == IF r.counting = 0 THEN h ELSE r.counting
               s == SetInactive(r, 1)
    <2>2. s \in ProducerSet /\ s = [r EXCEPT !.tables = (r.tables \ {"activity"}) \cup {"inactive"},
                           !.state = "inactive", !.req = Never, !.penalty = r.penalty + 1]
        BY InactiveTyped
    <2> HIDE DEF s
    <2>3. CASE h - k >= MaxInactiveRounds
        <3>1. x = [s EXCEPT !.counting = 0]
            BY <2>0, <2>1, <2>3 DEF UpdateInactivity, s
        <3>2. x.state = "inactive" /\ x.penalty = r.penalty + 1
            BY <2>2, <3>1 DEF ProducerSet
        <3> DEFINE z == RevertInactive(x, 1)
        <3>3. y = [z EXCEPT !.counting = r.counting]
            <4> HIDE DEF x
            <4> QED
                BY <2>0, <2>1, <3>2 DEF RevertInactivity
        <3>4. z \in ProducerSet /\ z = [x EXCEPT !.tables = (x.tables \ {"inactive"}) \cup {"activity"},
                           !.state = "active", !.req = Never,
                           !.penalty = IF x.penalty >= 1 THEN x.penalty - 1 ELSE 0]
            <4> HIDE DEF x
            <4> QED
                BY <1>1, InactiveTyped
        <3> HIDE DEF x, y, z
        <3>5. z.penalty = r.penalty
            BY <1>1, <3>2, <3>4 DEF ProducerSet
        <3>6. z.tables = {"activity"}
            BY <1>1, <2>0, <2>2, <3>1, <3>4 DEF ProducerSet
        <3>7. z.state = "active" /\ z.req = Never /\ z.reg = r.reg /\ z.cancelled = r.cancelled
            BY <1>1, <2>2, <3>1, <3>4 DEF ProducerSet
        <3> QED
            BY <2>0, <3>3, <3>4, <3>5, <3>6, <3>7 DEF Same, ProducerSet
    <2>4. CASE ~(h - k >= MaxInactiveRounds)
        <3>1. x = [r EXCEPT !.counting = k]
            BY <2>0, <2>1, <2>4 DEF UpdateInactivity
        <3>2. x.state = "active" /\ x.counting = k
            BY <2>0, <3>1 DEF ProducerSet
        <3>3. y = [x EXCEPT !.counting = IF k = h THEN 0 ELSE k]
            <4> HIDE DEF x, k
            <4> QED
                BY <1>1, <2>0, <2>1, <3>2 DEF RevertInactivity
        <3>4. (IF k = h THEN 0 ELSE k) = r.counting
            BY <1>1, <2>0
        <3> HIDE DEF x, y, k
        <3> QED
            BY <1>1, <3>1, <3>3, <3>4 DEF Same, ProducerSet
    <2> QED
        BY <2>3, <2>4
<1>9. CASE c.type = "return"
    <2>1. r.state = "canceled"
        BY <1>9 DEF Applies
    <2> QED
        BY <1>9, <2>1 DEF Execute, Revert, Same, ProducerSet
<1> QED
    BY <1>2, <1>3, <1>4, <1>5, <1>6, <1>7, <1>8, <1>9 DEF Applies

LEMMA CoreClean ==
    ASSUME NEW r \in ProducerSet, NEW c \in ChangeSet, NEW h \in Nat, h > 0, Clean(r, h - 1),
           Applies(r, c, h)
    PROVE  Clean(Execute(r, c), h)
<1> DEFINE x == Execute(r, c)
<1> SUFFICES Clean(x, h)
    OBVIOUS
<1>1. /\ r.tables \in SUBSET Tables /\ r.counting \in Nat /\ r.penalty \in Nat /\ r.req \in Nat
      /\ x \in ProducerSet /\ r.counting <= h - 1
    BY ExecuteTyped DEF ProducerSet, Clean
<1>2. CASE c.type = "register"
    <2>1. r.tables = {} /\ c.height = h
        BY <1>2 DEF Applies, Clean, Home
    <2>2. x.tables = {"pending"} /\ x.state = "pending" /\ x.cancelled = 0 /\ x.counting = 0
        BY <1>2, <2>1 DEF Execute, Unregistered
    <2> HIDE DEF x
    <2> QED
        BY <2>2 DEF Clean, Home
<1>3. CASE c.type = "cancel"
    <2>1. \/ c.from = "pending" /\ r.tables = {"pending"}
          \/ c.from = "activity" /\ r.tables = {"activity"}
        BY <1>3 DEF Applies, Clean, Home
    <2>2. /\ x.tables = (r.tables \ {c.from}) \cup CanceledIn(c) /\ x.state = "canceled"
          /\ x.counting = r.counting
        BY <1>3 DEF Execute, Move, ProducerSet
    <2>3. x.tables = {"canceled"} \cup (x.tables \cap {"pendingCanceled"})
        BY <2>1, <2>2 DEF CanceledIn
    <2> HIDE DEF x
    <2> QED
        BY <1>1, <2>2, <2>3 DEF Clean, Home
<1>4. CASE c.type = "request"
    <2>1. r.state \in {"inactive", "illegal"} /\ c.height = h
        BY <1>4 DEF Applies
    <2>2. x.tables = r.tables /\ x.state = r.state /\ x.req = h /\ x.cancelled = r.cancelled
          /\ x.counting = r.counting
        BY <1>4, <2>1 DEF Execute, ProducerSet
    <2> HIDE DEF x
    <2> QED
        BY <1>1, <2>1, <2>2 DEF Clean, Home
<1>5. CASE c.type = "activate"
    <2>1. r.tables = {c.from} /\ r.cancelled = 0
        BY <1>5 DEF Applies, Clean, Home
    <2>2. /\ x.tables = (r.tables \ {c.from}) \cup {"activity"} /\ x.state = "active"
          /\ x.counting = r.counting /\ x.cancelled = r.cancelled
        BY <1>5 DEF Execute, Move, ProducerSet
    <2> HIDE DEF x
    <2> QED
        BY <1>1, <2>1, <2>2 DEF Clean, Home
<1>6. CASE c.type = "illegal"
    <2>1. c.from = "activity" /\ r.tables = {"activity"} /\ r.cancelled = 0
        BY <1>6 DEF Applies, Clean, Home
    <2>2. /\ x.tables = (r.tables \ {c.from}) \cup {"illegal"} /\ x.state = "illegal" /\ x.req = Never
          /\ x.counting = r.counting /\ x.cancelled = r.cancelled
        BY <1>6, <2>1 DEF Execute, Move, ProducerSet
    <2> HIDE DEF x
    <2> QED
        BY <1>1, <2>1, <2>2 DEF Clean, Home
<1>7. CASE c.type = "emergency"
    <2>1. r.tables = {"activity"} /\ r.cancelled = 0
        BY <1>7 DEF Applies, Clean, Home
    <2>2. /\ x.tables = (r.tables \ {"activity"}) \cup {"inactive"} /\ x.state = "inactive"
          /\ x.req = Never /\ x.counting = r.counting /\ x.cancelled = r.cancelled
        BY <1>7 DEF Execute, SetInactive, Move, ProducerSet
    <2> HIDE DEF x
    <2> QED
        BY <1>1, <2>1, <2>2 DEF Clean, Home
<1>8. CASE c.type = "inactivity"
    <2>1. r.tables = {"activity"} /\ r.state = "active" /\ r.cancelled = 0 /\ ~c.reset /\ c.height = h
        BY <1>8 DEF Applies, Clean, Home
    <2>2. x = UpdateInactivity(r, c)
        BY <1>8 DEF Execute
    <2>3. \/ /\ x.tables = (r.tables \ {"activity"}) \cup {"inactive"} /\ x.state = "inactive"
             /\ x.req = Never /\ x.counting = 0 /\ x.cancelled = r.cancelled
          \/ /\ x.tables = r.tables /\ x.state = "active" /\ x.cancelled = r.cancelled
             /\ x.counting = IF r.counting = 0 THEN h ELSE r.counting
        BY <2>1, <2>2 DEF UpdateInactivity, SetInactive, Move, ProducerSet
    <2> HIDE DEF x
    <2>4. CASE x.state = "inactive"
        <3>1. x.tables = {"inactive"} /\ x.req = Never /\ x.counting = 0 /\ x.cancelled = 0
            BY <2>1, <2>3, <2>4
        <3> QED
            BY <2>4, <3>1 DEF Clean, Home
    <2>5. CASE x.state = "active"
        <3>1. x.tables = {"activity"} /\ x.cancelled = 0 /\ x.counting <= h
            BY <1>1, <2>1, <2>3, <2>5
        <3> QED
            BY <2>5, <3>1 DEF Clean, Home
    <2> QED
        BY <2>3, <2>4, <2>5
<1>9. CASE c.type = "return"
    <2>1. r.state = "canceled" /\ r.tables = {"canceled"} \cup (r.tables \cap {"pendingCanceled"})
        BY <1>9 DEF Applies, Clean, Home
    <2>2. /\ x.tables = r.tables /\ x.state = "returned" /\ x.counting = r.counting
        BY <1>9 DEF Execute, ProducerSet
    <2> HIDE DEF x
    <2> QED
        BY <1>1, <2>1, <2>2 DEF Clean, Home
<1> QED
    BY <1>2, <1>3, <1>4, <1>5, <1>6, <1>7, <1>8, <1>9 DEF Applies

(* The counting of an active producer is reset, alone or after a change of *)
(* its state.                                                              *)
LEMMA ResetUndone ==
    ASSUME NEW r \in ProducerSet, NEW c \in ChangeSet, NEW h \in Nat, h > 0, Clean(r, h - 1), Resets(r, c)
    PROVE  Same(Revert(Execute(r, c), c), r) /\ Clean(Execute(r, c), h)
<1> DEFINE x == Execute(r, c)
           y == Revert(x, c)
<1> SUFFICES Same(y, r) /\ Clean(x, h)
    OBVIOUS
<1>1. x = [r EXCEPT !.counting = 0] /\ x \in ProducerSet
    BY ExecuteTyped DEF Resets, Execute, UpdateInactivity
<1>2. y = [x EXCEPT !.counting = r.counting]
    <2> HIDE DEF x
    <2> QED
        BY DEF Resets, Revert, RevertInactivity
<1> HIDE DEF x, y
<1>3. r.state = "active" /\ r.tables = {"activity"} /\ r.cancelled = 0
    BY DEF Resets, Clean, Home
<1>4. Same(y, r)
    BY <1>1, <1>2 DEF Same, ProducerSet
<1>5. x.state = "active" /\ x.tables = {"activity"} /\ x.cancelled = 0 /\ x.counting = 0
    BY <1>1, <1>3 DEF ProducerSet
<1> QED
    BY <1>4, <1>5 DEF Clean, Home

LEMMA BothUndone ==
    ASSUME NEW r \in ProducerSet, NEW c \in ChangeSet, NEW e \in ChangeSet, NEW h \in Nat, h > 0,
           Clean(r, h - 1), Applies(r, c, h), Resets(r, e), c.type \in {"cancel", "illegal", "emergency"}
    PROVE  /\ Clean(Execute(Execute(r, c), e), h)
           /\ (c.type \in {"illegal", "emergency", "inactivity"} => r.req = Never)
                 => Same(Revert(Revert(Execute(Execute(r, c), e), c), e), r)
<1> DEFINE x == Execute(r, c)
           y == Execute(x, e)
           z == Revert(y, c)
           w == Revert(z, e)
<1>1. x \in ProducerSet /\ Clean(x, h)
    BY ExecuteTyped, CoreClean
<1> HIDE DEF x
<1>2. y = [x EXCEPT !.counting = 0] /\ y \in ProducerSet
    BY <1>1, ExecuteTyped DEF Resets, Execute, UpdateInactivity
<1> HIDE DEF y
<1>3. Clean(y, h)
    <2>1. y.tables = x.tables /\ y.state = x.state /\ y.reg = x.reg /\ y.req = x.req
          /\ y.cancelled = x.cancelled /\ y.penalty = x.penalty /\ y.counting = 0
        BY <1>1, <1>2 DEF ProducerSet
    <2> QED
        BY <1>1, <2>1 DEF Clean, Home
<1>4. ASSUME c.type \in {"illegal", "emergency", "inactivity"} => r.req = Never
      PROVE  Same(w, r)
    <2>1. Same(Revert(x, c), r)
        BY <1>4, CoreUndone DEF x
    <2> DEFINE v == Revert(x, c)
    <2>2. v \in ProducerSet /\ z \in ProducerSet
        BY <1>1, <1>2, RevertTyped
    <2>3. z.tables = v.tables /\ z.state = v.state /\ z.reg = v.reg /\ z.req = v.req
          /\ z.cancelled = v.cancelled /\ z.penalty = v.penalty
        <3>1. y.tables = x.tables /\ y.state = x.state /\ y.reg = x.reg /\ y.req = x.req
              /\ y.cancelled = x.cancelled /\ y.penalty = x.penalty
            BY <1>1, <1>2 DEF ProducerSet
        <3>2. CASE c.type = "cancel"
            BY <1>1, <1>2, <3>1, <3>2 DEF Revert, Move, ProducerSet
        <3>3. CASE c.type = "illegal"
            BY <1>1, <1>2, <3>1, <3>3 DEF Revert, Move, ProducerSet
        <3>4. CASE c.type = "emergency"
            BY <1>1, <1>2, <3>1, <3>4 DEF Revert, RevertInactive, Move, ProducerSet
        <3> QED
            BY <3>2, <3>3, <3>4
    <2> HIDE DEF z, v
    <2>4. w = [z EXCEPT !.counting = r.counting]
        BY <2>2 DEF Resets, Revert, RevertInactivity
    <2>5. Same(v, r)
        BY <2>1 DEF v
    <2> HIDE DEF w
    <2> QED
        BY <2>2, <2>3, <2>4, <2>5 DEF Same, ProducerSet
<1> QED
    BY <1>3, <1>4 DEF x, y

(* Nothing changes: then nothing was due.                                  *)
LEMMA RestClean ==
    ASSUME NEW r \in ProducerSet, NEW h \in Nat, h > 0, h <= MaxHeight, Clean(r, h - 1),
           r.state \in {"inactive", "illegal"} => ~Waited(r.req, h)
    PROVE  Clean(r, h)
<1>1. r.counting \in Nat /\ r.req \in Nat /\ ActivateDuration \in Nat
    BY ParametersAssumption DEF ProducerSet
<1>2. r.counting <= h
    BY <1>1 DEF Clean
<1>3. ASSUME r.state \in {"inactive", "illegal"}, r.req # Never
      PROVE  r.req <= h /\ (r.req = h \/ h - r.req + 1 < ActivateDuration)
    <2>1. r.req <= h - 1
        BY <1>1, <1>3 DEF Clean
    <2> QED
        BY <1>1, <1>3, <2>1 DEF Waited
<1> QED
    BY <1>2, <1>3 DEF Clean

-----------------------------------------------------------------------------
(* A block that is not rough, on clean producers.                          *)
LEMMA ChangeApplies ==
    ASSUME AlwaysInv, NEW h \in Nat, h > 0, h <= MaxHeight, NEW txs \in TxLists(h), NEW b, b.txs = txs,
           ~RoughBlock(b, h), NEW p \in Candidates, Clean(st.of[p], h - 1),
           NEW cs, cs = Changes(st, b, h), NEW i \in 1..Len(cs), cs[i].p = p,
           cs[i].type \notin {"vote", "nothing"}
    PROVE  /\ Core(cs[i]) => Applies(st.of[p], cs[i], h)
           /\ ~Core(cs[i]) => Resets(st.of[p], cs[i])
           /\ cs[i].type \in {"register", "cancel", "request", "illegal", "emergency", "return"} =>
                 i \in 1..Len(txs) /\ txs[i].p = p /\ txs[i].type = cs[i].type
           /\ cs[i].type = "inactivity" => i > Len(txs)
<1> DEFINE r == st.of[p]
           c == cs[i]
           n == Len(txs)
<1>1. st \in Stores /\ r \in ProducerSet /\ r.state \in States /\ r.tables = Home(r)
    BY DEF AlwaysInv, Shape, Stores, Ofs, ProducerSet, Clean
<1>2. /\ txs \in Seq(Txs) /\ n \in Nat
      /\ \A j \in 1..n : txs[j] \in Txs /\ ContextOK(txs[j], h)
    BY TxListed
<1>3. Formed(st, txs, h, cs, AllKeys)
    BY <1>1, <1>2, ChangesFormed
<1>4. cs \in Seq(ChangeSet) /\ DOMAIN cs = 1..Len(cs) /\ Len(cs) \in Nat /\ c \in ChangeSet
    BY <1>3 DEF Formed
<1>5. /\ ~(c.type = "cancel" /\ r.state \in {"inactive", "returned"})
      /\ ~(c.type = "emergency" /\ "inactive" \in r.tables)
      /\ ~(c.type = "illegal" /\ c.from = "canceled")
    <2>1. i \in DOMAIN cs /\ cs = Changes(st, b, h)
        BY <1>4
    <2>2. \A j \in DOMAIN cs :
              /\ ~(cs[j].type = "cancel" /\ st.of[cs[j].p].state \in {"inactive", "returned"})
              /\ ~(cs[j].type = "emergency" /\ "inactive" \in st.of[cs[j].p].tables)
              /\ ~(cs[j].type = "illegal" /\ cs[j].from = "canceled")
        BY <2>1 DEF RoughBlock
    <2> QED
        BY <2>1, <2>2
<1>6. /\ "activity" \in r.tables => r.state = "active"
      /\ "pending" \in r.tables => r.state = "pending"
      /\ "inactive" \in r.tables => r.state = "inactive"
      /\ "illegal" \in r.tables => r.state = "illegal"
      /\ r.tables = {} => r.state = "none"
      /\ r.state = "none" => r.tables = {}
      /\ r.state = "active" => "inactive" \notin r.tables
    <2> HIDE DEF r
    <2>1. \/ r.state = "none" /\ r.tables = {}
          \/ r.state = "pending" /\ r.tables = {"pending"}
          \/ r.state = "active" /\ r.tables = {"activity"}
          \/ r.state = "inactive" /\ r.tables = {"inactive"}
          \/ r.state = "illegal" /\ r.tables = {"illegal"}
          \/ /\ r.state \in {"canceled", "returned"}
             /\ r.tables = {"canceled"} \cup (r.tables \cap {"pendingCanceled"})
        BY <1>1 DEF Home, States
    <2>2. CASE r.state \in {"canceled", "returned"}
        BY <2>1, <2>2
    <2>3. CASE r.state \notin {"canceled", "returned"}
        BY <2>1, <2>3
    <2> QED
        BY <2>2, <2>3
<1>7. CASE i <= n
    <2>1. i \in 1..n /\ c = TxChange(st, txs[i], h) /\ txs[i] \in Txs /\ ContextOK(txs[i], h)
        BY <1>2, <1>3, <1>7 DEF Formed
    <2>2. txs[i].p = p /\ c.height = h /\ c.type \notin {"activate", "inactivity"}
        BY <1>1, <2>1, TxKind
    <2>3. c.type \in {"register", "cancel", "request", "illegal", "emergency", "return"}
        BY <1>4, <2>2 DEF ChangeSet, AnyChange, Kinds
    <2>4. txs[i].type = c.type
        BY <1>1, <2>1, <2>3, TxKind
    <2>5. Core(c)
        BY <2>3 DEF Core
    <2>6. ASSUME c.type = "register" PROVE Applies(r, c, h)
        BY <1>6, <2>1, <2>2, <2>4, <2>6 DEF Applies, ContextOK
    <2>7. ASSUME c.type = "cancel" PROVE Applies(r, c, h)
        <3>1. r.tables # {} /\ r.state \notin {"illegal", "canceled"}
            BY <2>1, <2>2, <2>4, <2>7 DEF ContextOK
        <3>2. r.state \in {"pending", "active"}
            BY <1>1, <1>5, <1>6, <2>7, <3>1 DEF States
        <3>3. c.from = IF r.state = "pending" THEN "pending" ELSE "activity"
            BY <1>1, <2>1, <2>2, <2>7, TxKind
        <3> QED
            BY <2>2, <2>7, <3>2, <3>3 DEF Applies
    <2>8. ASSUME c.type = "request" PROVE Applies(r, c, h)
        <3>1. r.state \in {"inactive", "illegal"} /\ ~(h > r.req /\ h - r.req <= ActivateDuration)
            BY <2>1, <2>2, <2>4, <2>8 DEF ContextOK
        <3>2. r.req \in Nat /\ ActivateDuration \in Nat \ {0}
            BY <1>1, ParametersAssumption DEF ProducerSet
        <3>3. r.req = Never
            BY <3>1, <3>2 DEF Clean
        <3> QED
            BY <2>2, <2>8, <3>1, <3>3 DEF Applies
    <2>9. ASSUME c.type = "illegal" PROVE Applies(r, c, h)
        <3>1. c.from \in {"activity", "canceled"} /\ c.from \in r.tables
            BY <1>1, <2>1, <2>2, <2>9, TxKind
        <3> QED
            BY <1>5, <1>6, <2>2, <2>9, <3>1 DEF Applies
    <2>10. ASSUME c.type = "emergency" PROVE Applies(r, c, h)
        <3>1. r.tables \cap {"activity", "inactive"} # {} /\ ("inactive" \notin r.tables => c.amount = 2)
            BY <1>1, <2>1, <2>2, <2>10, TxKind
        <3> QED
            BY <1>5, <1>6, <2>2, <2>10, <3>1 DEF Applies
    <2>11. ASSUME c.type = "return" PROVE Applies(r, c, h)
        BY <2>1, <2>2, <2>4, <2>11 DEF Applies, ContextOK
    <2>12. Applies(r, c, h)
        BY <2>3, <2>6, <2>7, <2>8, <2>9, <2>10, <2>11
    <2> QED
        BY <2>1, <2>2, <2>4, <2>5, <2>12
<1>8. CASE ~(i <= n)
    <2>1. i \in (n + 1)..Len(cs) /\ i > n
        BY <1>2, <1>4, <1>8
    <2>2. Later(st, h, c)
        BY <1>3, <2>1 DEF Formed
    <2>3. CASE c.type = "activate"
        <3>1. c.height = h /\ c.from \in {"pending", "inactive", "illegal"} /\ Waits(st, p, c.from, h)
            BY <2>2, <2>3 DEF Later
        <3>2. c.from \in r.tables /\ (c.from # "pending" => Waited(r.req, h))
            BY <3>1 DEF Waits
        <3>3. c.from # "pending" => r.req # Never
            BY <3>2, NeverTyped DEF Waited
        <3>4. Applies(r, c, h) /\ Core(c)
            BY <1>6, <2>3, <3>1, <3>2, <3>3 DEF Applies, Core
        <3> QED
            BY <2>3, <3>4
    <2>4. CASE c.type = "inactivity"
        <3>1. c.height = h /\ "activity" \in r.tables /\ c.counting = r.counting
            BY <2>2, <2>4 DEF Later
        <3> QED
            BY <1>6, <2>1, <2>4, <3>1 DEF Applies, Core, Resets
    <2> QED
        BY <2>2, <2>3, <2>4 DEF Later
<1> QED
    BY <1>7, <1>8

(* One at most changes the state of p, one at most resets its counting.    *)
Smooth(b, h) ==
    /\ AlwaysInv /\ h \in Nat /\ h > 0 /\ h <= MaxHeight /\ b.txs \in TxLists(h)
    /\ b.arbiters \in ArbiterSets /\ ~RoughBlock(b, h)
    /\ \A p \in Candidates : Clean(st.of[p], h - 1)

LEMMA OneInactivity ==
    ASSUME NEW b, NEW h, Smooth(b, h), NEW p \in Candidates, NEW cs, cs = Changes(st, b, h),
           NEW i \in 1..Len(cs), NEW j \in 1..Len(cs), cs[i].p = p, cs[j].p = p,
           cs[i].type = "inactivity", cs[j].type = "inactivity"
    PROVE  i = j
<1> DEFINE n == Len(b.txs)
<1>1. b.txs \in Seq(Txs) /\ n \in Nat /\ st \in Stores /\ h \in Nat
    BY TxListed DEF Smooth, AlwaysInv, Shape
<1>2. Formed(st, b.txs, h, cs, AllKeys)
    BY <1>1, ChangesFormed
<1>3. ASSUME NEW k \in 1..Len(cs), cs[k].p = p, cs[k].type = "inactivity"
      PROVE  k > n
    BY <1>3, ChangeApplies DEF Smooth
<1>4. i > n /\ j > n
    BY <1>3
<1>5. i \in (n + 1)..Len(cs) /\ j \in (n + 1)..Len(cs)
    BY <1>1, <1>2, <1>4 DEF Formed
<1>6. Later(st, h, cs[i]) /\ Later(st, h, cs[j])
    BY <1>2, <1>5 DEF Formed
<1>7. cs[i].from = "none" /\ cs[j].from = "none"
    BY <1>6 DEF Later
<1> QED
    BY <1>2, <1>5, <1>7 DEF Formed

LEMMA OneCore ==
    ASSUME NEW b, NEW h, Smooth(b, h), NEW p \in Candidates, NEW cs, cs = Changes(st, b, h),
           NEW i \in 1..Len(cs), NEW j \in 1..Len(cs), cs[i].p = p, cs[j].p = p,
           Core(cs[i]), Core(cs[j])
    PROVE  i = j
<1> DEFINE r == st.of[p]
           n == Len(b.txs)
<1>1. b.txs \in Seq(Txs) /\ n \in Nat /\ st \in Stores /\ h \in Nat
      /\ \A k, l \in 1..n : b.txs[k] = b.txs[l] => k = l
    BY TxListed DEF Smooth, AlwaysInv, Shape
<1>2. cs \in Seq(ChangeSet) /\ DOMAIN cs = 1..Len(cs) /\ Len(cs) \in Nat
    <2>1. Formed(st, b.txs, h, cs, AllKeys)
        BY <1>1, ChangesFormed
    <2> QED
        BY <2>1 DEF Formed
<1>3. ASSUME NEW k \in 1..Len(cs), cs[k].p = p, Core(cs[k])
      PROVE  /\ Applies(r, cs[k], h)
             /\ cs[k].type \in {"register", "request", "return"} =>
                   k \in 1..n /\ b.txs[k].p = p /\ b.txs[k].type = cs[k].type
    <2>1. cs[k].type \notin {"vote", "nothing"}
        BY <1>3 DEF Core
    <2> QED
        BY <1>3, <2>1, ChangeApplies DEF Smooth
<1>4. Applies(r, cs[i], h) /\ Applies(r, cs[j], h)
    BY <1>3
<1>5. CASE Moves(cs[i]) /\ Moves(cs[j])
    <2>1. \A k, l \in 1..Len(cs) : ~(k < l /\ cs[k].p = cs[l].p /\ Moves(cs[k]) /\ Moves(cs[l]))
        BY <1>2 DEF Smooth, RoughBlock
    <2> QED
        BY <1>2, <1>5, <2>1
<1>6. CASE ~(Moves(cs[i]) /\ Moves(cs[j]))
    <2>1. cs[i].type = cs[j].type /\ cs[i].type \in {"register", "request", "return"}
        BY <1>4, <1>6 DEF Applies, Moves
    <2>2. /\ i \in 1..n /\ b.txs[i].p = p /\ b.txs[i].type = cs[i].type
          /\ j \in 1..n /\ b.txs[j].p = p /\ b.txs[j].type = cs[i].type
        BY <1>3, <2>1
    <2>3. b.txs[i] \in Txs /\ b.txs[j] \in Txs
        BY <1>1, <2>2
    <2>4. b.txs[i] = b.txs[j]
        BY <2>2, <2>3 DEF Txs
    <2> QED
        BY <1>1, <2>2, <2>4
<1> QED
    BY <1>5, <1>6

(* What the changes of the block do to p.                                  *)
Meets(r, cs, m, q, h) ==
    /\ m # 0 => Applies(r, cs[m], h)
    /\ q # 0 => Resets(r, cs[q])
    /\ m # 0 /\ q # 0 => cs[m].type \in {"cancel", "illegal", "emergency"}
    /\ m = 0 /\ r.state \in {"inactive", "illegal"} => ~Waited(r.req, h)

LEMMA BlockEffects ==
    ASSUME NEW b, NEW h, Smooth(b, h), NEW p \in Candidates, NEW cs, cs = Changes(st, b, h)
    PROVE  \E m, q : Effects(cs, p, m, q) /\ Meets(st.of[p], cs, m, q, h)
<1> DEFINE r == st.of[p]
           n == Len(b.txs)
           IsCore(i) == i \in 1..Len(cs) /\ cs[i].p = p /\ Core(cs[i])
           IsReset(i) == /\ i \in 1..Len(cs) /\ cs[i].p = p
                         /\ cs[i].type = "inactivity" /\ cs[i].reset
           m == IF \E i : IsCore(i) THEN CHOOSE i : IsCore(i) ELSE 0
           q == IF \E i : IsReset(i) THEN CHOOSE i : IsReset(i) ELSE 0
<1>1. b.txs \in Seq(Txs) /\ n \in Nat /\ st \in Stores /\ h \in Nat
      /\ r \in ProducerSet /\ r.tables = Home(r)
    BY TxListed DEF Smooth, AlwaysInv, Shape, Stores, Ofs, Clean
<1>2. cs \in Seq(ChangeSet) /\ Len(cs) \in Nat
    <2>1. Formed(st, b.txs, h, cs, AllKeys)
        BY <1>1, ChangesFormed
    <2> QED
        BY <2>1 DEF Formed
<1>3. /\ m # 0 => IsCore(m)
      /\ m = 0 => ~\E i \in 1..Len(cs) : IsCore(i)
    OBVIOUS
<1>4. /\ q # 0 => IsReset(q)
      /\ q = 0 => ~\E i \in 1..Len(cs) : IsReset(i)
    OBVIOUS
<1>5. ASSUME NEW i, IsCore(i)
      PROVE  /\ Applies(r, cs[i], h)
             /\ cs[i].type \in {"register", "cancel", "request", "illegal", "emergency", "return"}
                   => i <= n
    <2>1. cs[i].type \notin {"vote", "nothing"} /\ i \in 1..Len(cs) /\ cs[i].p = p /\ Core(cs[i])
        BY <1>5 DEF Core
    <2>2. cs[i].type \in {"register", "cancel", "request", "illegal", "emergency", "return"}
                   => i \in 1..n
        BY <2>1, ChangeApplies DEF Smooth
    <2> QED
        BY <1>1, <2>1, <2>2, ChangeApplies DEF Smooth
<1>6. ASSUME NEW i, IsReset(i) PROVE Resets(r, cs[i]) /\ i > n
    <2>1. cs[i].type \notin {"vote", "nothing"} /\ i \in 1..Len(cs) /\ cs[i].p = p /\ ~Core(cs[i])
          /\ cs[i].type = "inactivity"
        BY <1>6 DEF Core
    <2> QED
        BY <2>1, ChangeApplies DEF Smooth
<1>7. ASSUME NEW i \in 1..Len(cs), cs[i].p = p, cs[i].type \notin {"vote", "nothing"}
      PROVE  i = m \/ i = q
    <2>1. CASE Core(cs[i])
        <3>1. IsCore(i) /\ IsCore(m)
            BY <1>3, <1>7, <2>1
        <3> HIDE DEF m
        <3> QED
            BY <3>1, OneCore
    <2>2. CASE ~Core(cs[i])
        <3>1. IsReset(i) /\ IsReset(q)
            BY <1>4, <1>7, <2>2 DEF Core
        <3> HIDE DEF q
        <3> QED
            BY <3>1, OneInactivity
    <2> QED
        BY <2>1, <2>2
<1>8. ASSUME m # 0, q # 0
      PROVE  cs[m].type \in {"cancel", "illegal", "emergency"} /\ m < q
    <2>1. IsCore(m) /\ IsReset(q)
        BY <1>3, <1>4, <1>8
    <2> HIDE DEF m, q
    <2>2. cs[m].type # "inactivity"
        <3>1. ASSUME cs[m].type = "inactivity" PROVE FALSE
            <4>1. m = q
                BY <2>1, <3>1, OneInactivity
            <4> QED
                BY <2>1, <4>1 DEF Core
        <3> QED
            BY <3>1
    <2>3. r.state = "active" /\ q > n
        BY <1>6, <2>1 DEF Resets
    <2>4. Applies(r, cs[m], h)
        BY <1>5, <2>1
    <2>5. cs[m].type \in {"cancel", "illegal", "emergency"}
        BY <2>2, <2>3, <2>4 DEF Applies
    <2>6. m <= n
        BY <1>5, <2>1, <2>5
    <2> QED
        BY <1>1, <1>2, <2>1, <2>3, <2>5, <2>6
<1>9. ASSUME m = 0, r.state \in {"inactive", "illegal"} PROVE ~Waited(r.req, h)
    <2>1. SUFFICES ASSUME Waited(r.req, h) PROVE FALSE
        OBVIOUS
    <2>2. r.state \in r.tables
        BY <1>1, <1>9 DEF Home
    <2>3. Waits(st, p, r.state, h)
        BY <1>9, <2>1, <2>2 DEF Waits
    <2>4. Has(cs, "activate", p)
        BY <1>1, <1>9, <2>3, DueActivated
    <2>5. PICK i \in 1..Len(cs) : cs[i].type = "activate" /\ cs[i].p = p
        BY <2>4 DEF Has
    <2>6. IsCore(i)
        BY <2>5 DEF Core
    <2> QED
        BY <1>3, <1>9, <2>6
<1> HIDE DEF m, q, r, n
<1>10. m \in 0..Len(cs) /\ q \in 0..Len(cs)
    BY <1>2, <1>3, <1>4
<1>11. Effects(cs, p, m, q)
    BY <1>3, <1>4, <1>7, <1>8, <1>10 DEF Effects
<1>12. Meets(r, cs, m, q, h)
    BY <1>3, <1>4, <1>5, <1>6, <1>8, <1>9 DEF Meets
<1> QED
    BY <1>11, <1>12 DEF r

LEMMA SameClean ==
    ASSUME NEW r, NEW x, Same(r, x), NEW h, Clean(x, h)
    PROVE  Clean(r, h)
BY DEF Same, Clean, Home

LEMMA SameTwice ==
    ASSUME NEW r, NEW x, NEW y, Same(r, x), Same(x, y)
    PROVE  Same(r, y)
BY DEF Same

Executed(r, cs, m) == IF m = 0 THEN r ELSE Execute(r, cs[m])
Reverted(r, cs, m) == IF m = 0 THEN r ELSE Revert(r, cs[m])

LEMMA ExecutedTyped ==
    ASSUME NEW r \in ProducerSet, NEW cs \in Seq(ChangeSet), NEW m \in 0..Len(cs)
    PROVE  Executed(r, cs, m) \in ProducerSet
BY ExecuteTyped DEF Executed

LEMMA RevertedSame ==
    ASSUME NEW r \in ProducerSet, NEW x \in ProducerSet, Same(r, x),
           NEW cs \in Seq(ChangeSet), NEW m \in 0..Len(cs)
    PROVE  /\ Same(Reverted(r, cs, m), Reverted(x, cs, m))
           /\ Reverted(r, cs, m) \in ProducerSet /\ Reverted(x, cs, m) \in ProducerSet
<1>1. CASE m = 0
    BY <1>1 DEF Reverted
<1>2. CASE m # 0
    <2>1. cs[m] \in ChangeSet
        BY <1>2
    <2> QED
        BY <1>2, <2>1, RevertSame, RevertTyped DEF Reverted
<1> QED
    BY <1>1, <1>2

(* The changes m and q executed, and then reverted in the same order.      *)
LEMMA MeetsUndone ==
    ASSUME NEW cs \in Seq(ChangeSet), NEW m \in 0..Len(cs), NEW q \in 0..Len(cs),
           NEW r \in ProducerSet, NEW h \in Nat, h > 0, h <= MaxHeight, Clean(r, h - 1),
           Meets(r, cs, m, q, h), NEW x, x = Executed(Executed(r, cs, m), cs, q)
    PROVE  /\ Clean(x, h)
           /\ (m # 0 /\ cs[m].type \in {"illegal", "emergency", "inactivity"} => r.req = Never)
                 => Same(Reverted(Reverted(x, cs, m), cs, q), r)
<1>1. CASE m = 0 /\ q = 0
    <2>1. x = r /\ Clean(r, h)
        BY <1>1, RestClean DEF Executed, Meets
    <2> QED
        BY <1>1, <2>1 DEF Reverted, Same
<1>2. CASE m # 0 /\ q = 0
    <2>1. cs[m] \in ChangeSet /\ x = Execute(r, cs[m]) /\ Applies(r, cs[m], h)
          /\ Reverted(Reverted(x, cs, m), cs, q) = Revert(x, cs[m])
        BY <1>2 DEF Executed, Reverted, Meets
    <2> QED
        BY <1>2, <2>1, CoreUndone, CoreClean
<1>3. CASE m = 0 /\ q # 0
    <2>1. cs[q] \in ChangeSet /\ x = Execute(r, cs[q]) /\ Resets(r, cs[q])
          /\ Reverted(Reverted(x, cs, m), cs, q) = Revert(x, cs[q])
        BY <1>3 DEF Executed, Reverted, Meets
    <2> QED
        BY <1>3, <2>1, ResetUndone
<1>4. CASE m # 0 /\ q # 0
    <2>1. /\ cs[m] \in ChangeSet /\ cs[q] \in ChangeSet /\ x = Execute(Execute(r, cs[m]), cs[q])
          /\ Applies(r, cs[m], h) /\ Resets(r, cs[q]) /\ cs[m].type \in {"cancel", "illegal", "emergency"}
          /\ Reverted(Reverted(x, cs, m), cs, q) = Revert(Revert(x, cs[m]), cs[q])
        BY <1>4 DEF Executed, Reverted, Meets
    <2> QED
        BY <1>4, <2>1, BothUndone
<1> QED
    BY <1>1, <1>2, <1>3, <1>4

(* The log of the block undoes the block.                                  *)
Undoes(a, b, cs) ==
    (\A i \in 1..Len(cs) : cs[i].type \in {"illegal", "emergency", "inactivity"} =>
                              a.of[cs[i].p].req = Never)
    => RevertAll(b.of, cs) = a.of

LEMMA BlockSmooth ==
    ASSUME NEW b, NEW h, Smooth(b, h), NEW cs, cs = Changes(st, b, h), NEW s1, s1 = ProcessBlock(st, b, h)
    PROVE  Undoes(st, s1, cs) /\ \A p \in Candidates : Clean(s1.of[p], h)
<1>1. /\ st \in Stores /\ st.of \in Ofs /\ h \in Nat /\ h > 0 /\ h <= MaxHeight
      /\ b.txs \in Seq(Txs) /\ b.arbiters \in ArbiterSets /\ AlwaysInv
    BY TxListed DEF Smooth, AlwaysInv, Shape, Stores
<1>2. cs \in Seq(ChangeSet) /\ Len(cs) \in Nat
    <2>1. Formed(st, b.txs, h, cs, AllKeys)
        BY <1>1, ChangesFormed
    <2> QED
        BY <2>1 DEF Formed
<1>3. PICK g : Executes(g, st.of, cs) /\ s1.of = g[Len(cs)]
    BY <1>1, BlockRuns
<1>4. s1 \in Stores /\ s1.of \in Ofs
    BY <1>1, BlockRuns DEF Stores
<1>5. PICK f : Reverts(f, s1.of, cs) /\ RevertAll(s1.of, cs) = f[Len(cs)]
    BY <1>2, <1>4, RevertAllRuns
<1>6. f[Len(cs)] \in Ofs
    BY <1>2, <1>5 DEF Reverts
<1>7. ASSUME NEW p \in Candidates
      PROVE  /\ Clean(s1.of[p], h)
             /\ (\A i \in 1..Len(cs) : cs[i].type \in {"illegal", "emergency", "inactivity"} =>
                                          st.of[cs[i].p].req = Never)
                   => Same(f[Len(cs)][p], st.of[p])
    <2> DEFINE r == st.of[p]
    <2>1. PICK m, q : Effects(cs, p, m, q) /\ Meets(r, cs, m, q, h)
        BY BlockEffects
    <2>2. m \in 0..Len(cs) /\ q \in 0..Len(cs) /\ (m # 0 => m \in 1..Len(cs) /\ cs[m].p = p)
        BY <1>2, <2>1 DEF Effects
    <2>3. r \in ProducerSet /\ s1.of[p] \in ProducerSet /\ Clean(r, h - 1)
        BY <1>1, <1>4 DEF Ofs, Smooth
    <2> DEFINE x == Executed(Executed(r, cs, m), cs, q)
               y == Reverted(Reverted(s1.of[p], cs, m), cs, q)
               z == Reverted(Reverted(x, cs, m), cs, q)
    <2>4. x \in ProducerSet
        BY <1>2, <2>2, <2>3, ExecutedTyped
    <2>5. Same(s1.of[p], x)
        <3>1. Same(g[Len(cs)][p], x)
            BY <1>2, <1>3, <2>1, ExecutesTwo DEF Executed
        <3> QED
            BY <1>3, <3>1
    <2>6. Same(f[Len(cs)][p], y)
        BY <1>2, <1>5, <2>1, RevertsTwo DEF Reverted
    <2>7. /\ Clean(x, h)
          /\ (m # 0 /\ cs[m].type \in {"illegal", "emergency", "inactivity"} => r.req = Never)
                 => Same(z, r)
        <3> HIDE DEF r
        <3> QED
            BY <1>1, <1>2, <2>1, <2>2, <2>3, MeetsUndone
    <2> HIDE DEF x
    <2>8. Same(y, z)
        BY <1>2, <2>2, <2>3, <2>4, <2>5, RevertedSame
    <2> HIDE DEF y, z
    <2>9. Clean(s1.of[p], h)
        BY <2>5, <2>7, SameClean
    <2> QED
        BY <2>2, <2>6, <2>7, <2>8, <2>9, SameTwice
<1>8. ASSUME NEW p \in Candidates PROVE f[Len(cs)][p].votes = st.of[p].votes
    <2> DEFINE n == Gain(b)[p]
    <2>1. /\ Carries(cs, p, n) /\ n \in {-1, 0, 1} /\ s1.of[p].votes = st.of[p].votes + n
        BY <1>1, BlockVotes DEF Smooth
    <2>2. ASSUME Has(cs, "register", p) PROVE s1.of[p].votes = 0
        <3>1. n = 0
            BY <2>1, <2>2 DEF Carries
        <3>2. \E i \in 1..Len(b.txs) : b.txs[i].type = "register" /\ b.txs[i].p = p
            BY <1>1, <2>2, ChangesSeen
        <3>3. ~Found(st.of[p])
            BY <1>1, <3>2, InContext DEF Smooth
        <3>4. st.of[p].votes = 0
            <4>1. Len(past) \in 1..Len(past)
                BY <1>1, LastOfPast DEF AlwaysInv
            <4>2. ~Needs(past, log, Len(past), p)
                BY <1>1, <3>3, <4>1 DEF AlwaysInv, Kept
            <4>3. past[Len(past)].of[p].votes = 0
                BY <4>2 DEF Needs, Known
            <4> QED
                BY <1>1, <4>3 DEF AlwaysInv, Tallied
        <3> QED
            BY <2>1, <3>1, <3>4
    <2> HIDE DEF n
    <2>3. f[Len(cs)][p].votes = s1.of[p].votes - n
        BY <1>2, <1>5, <2>1, <2>2, RevertsVotes
    <2>4. st.of[p].votes \in Int
        BY <1>1 DEF Ofs, ProducerSet
    <2> QED
        BY <2>1, <2>3, <2>4
<1>9. ASSUME \A i \in 1..Len(cs) : cs[i].type \in {"illegal", "emergency", "inactivity"} =>
                                          st.of[cs[i].p].req = Never
      PROVE  RevertAll(s1.of, cs) = st.of
    <2>1. ASSUME NEW p \in Candidates PROVE f[Len(cs)][p] = st.of[p]
        <3>1. Same(f[Len(cs)][p], st.of[p]) /\ f[Len(cs)][p].votes = st.of[p].votes
            BY <1>7, <1>8, <1>9
        <3> DEFINE y == f[Len(cs)][p]
                   r == st.of[p]
        <3>2. y \in ProducerSet /\ r \in ProducerSet
            BY <1>1, <1>6 DEF Ofs
        <3>3. Same(y, r) /\ y.votes = r.votes
            BY <3>1
        <3> HIDE DEF y, r
        <3>4. y = r
            BY <3>2, <3>3 DEF Same, ProducerSet
        <3> QED
            BY <3>4 DEF y, r
    <2>2. f[Len(cs)] = st.of
        BY <1>1, <1>6, <2>1 DEF Ofs
    <2> QED
        BY <1>5, <2>2
<1> QED
    BY <1>7, <1>9 DEF Undoes

-----------------------------------------------------------------------------
(* The invariant without rough cases: the tables are the ones of the       *)
(* chain, every producer is clean at every height that the log reaches,    *)
(* and each entry of the log undoes its block.                             *)
SmoothInv ==
    ~rough =>
        /\ st = past[Len(past)]
        /\ \A k \in 1..Len(past), p \in Candidates : Clean(past[k].of[p], height - Len(past) + k)
        /\ \A k \in 1..Len(log) : Undoes(past[k], past[k + 1], log[k])

LEMMA InitSmooth == Init => SmoothInv
<1> SUFFICES ASSUME Init PROVE SmoothInv
    OBVIOUS
<1>1. PICK known \in SUBSET Candidates : st = InitState(known) /\ past = <<InitState(known)>>
    BY DEF Init
<1>2. log = <<>> /\ height = 0
    BY DEF Init
<1> DEFINE s == InitState(known)
           active == [Unregistered EXCEPT !.tables = {"activity"}, !.state = "active"]
<1>3. /\ active.tables = {"activity"} /\ active.state = "active" /\ active.counting = 0
      /\ active.cancelled = 0
    BY DEF Unregistered
<1>4. \A p \in Candidates : s.of[p] = IF p \in known THEN active ELSE Unregistered
    BY DEF InitState
<1> HIDE DEF active
<1>5. Clean(active, 0)
    BY <1>3 DEF Clean, Home
<1>6. Clean(Unregistered, 0)
    BY DEF Clean, Home, Unregistered
<1>7. Len(past) = 1 /\ past[1] = s /\ Len(log) = 0 /\ st = s
    BY <1>1, <1>2
<1> HIDE DEF s
<1>8. ASSUME NEW k \in 1..Len(past), NEW p \in Candidates
      PROVE  Clean(past[k].of[p], height - Len(past) + k)
    <2>1. past[k] = s /\ height - Len(past) + k = 0
        BY <1>2, <1>7
    <2> QED
        BY <1>4, <1>5, <1>6, <2>1
<1>9. \A k \in 1..Len(log) : Undoes(past[k], past[k + 1], log[k])
    BY <1>7
<1> QED
    BY <1>7, <1>8, <1>9 DEF SmoothInv

LEMMA ConnectSmooth ==
    ASSUME AlwaysInv, SmoothInv, NEW txs \in TxLists(height + 1), NEW as \in ArbiterSets, NEW b,
           b.txs = txs, b.arbiters = as, Connect(b)
    PROVE  SmoothInv'
<1> SUFFICES ASSUME ~rough'
             PROVE  /\ st' = past'[Len(past')]
                    /\ \A k \in 1..Len(past'), p \in Candidates :
                          Clean(past'[k].of[p], height' - Len(past') + k)
                    /\ \A k \in 1..Len(log') : Undoes(past'[k], past'[k + 1], log'[k])
    BY DEF SmoothInv
<1> DEFINE h == height + 1
           n == Len(log)
           l == Last(past)
           s1 == ProcessBlock(st, b, h)
           l1 == ProcessBlock(l, b, h)
           cs == Changes(st, b, h)
<1>1. ~rough /\ ~RoughBlock(b, h) /\ st' = s1 /\ height' = h /\ h <= MaxHeight
    BY DEF Connect
<1>2. /\ st = past[Len(past)]
      /\ \A k \in 1..Len(past), p \in Candidates : Clean(past[k].of[p], height - Len(past) + k)
      /\ \A k \in 1..Len(log) : Undoes(past[k], past[k + 1], log[k])
    BY <1>1 DEF SmoothInv
<1>3. PICK d \in {0, 1} : d <= n /\ Extends(past, past', l1, d) /\ Extends(log, log', cs, d)
    BY ConnectShape
<1>4. n \in Nat /\ Len(past) = n + 1 /\ l = past[n + 1] /\ height \in Nat
    <2>1. Shape(st, past, log, gains, height)
        BY DEF AlwaysInv
    <2>2. n \in Nat /\ Len(past) = n + 1 /\ l = past[Len(past)]
        BY <2>1, LastOfPast
    <2> HIDE DEF l
    <2> QED
        BY <2>1, <2>2 DEF Shape
<1>5. l1 = s1
    BY <1>2, <1>4
<1>6. Smooth(b, h)
    <2>1. ASSUME NEW p \in Candidates PROVE Clean(st.of[p], h - 1)
        <3>1. n + 1 \in 1..Len(past) /\ height - Len(past) + (n + 1) = h - 1
            BY <1>4
        <3>2. Clean(past[n + 1].of[p], height - Len(past) + (n + 1))
            BY <1>2, <3>1
        <3> QED
            BY <1>2, <1>4, <3>1, <3>2
    <2>2. h \in Nat /\ h > 0
        BY <1>4
    <2> QED
        BY <1>1, <2>1, <2>2 DEF Smooth
<1>7. Undoes(st, s1, cs) /\ \A p \in Candidates : Clean(s1.of[p], h)
    <2> HIDE DEF h
    <2> QED
        BY <1>6, BlockSmooth
<1> HIDE DEF s1, l1, l, cs, n
<1>8. /\ Len(past') = n + 2 - d /\ Len(log') = n + 1 - d
      /\ past'[n + 2 - d] = s1 /\ log'[n + 1 - d] = cs
      /\ \A k \in 1..(n + 1 - d) : past'[k] = past[k + d] /\ k + d \in 1..(n + 1)
      /\ \A k \in 1..(n - d) : log'[k] = log[k + d] /\ k + d \in 1..n
    BY <1>3, <1>4, <1>5 DEF Extends, n
<1>9. st' = past'[Len(past')]
    BY <1>1, <1>8
<1>10. ASSUME NEW k \in 1..Len(past'), NEW p \in Candidates
       PROVE  Clean(past'[k].of[p], height' - Len(past') + k)
    <2>1. CASE k = n + 2 - d
        <3>1. height' - Len(past') + k = h /\ past'[k] = s1
            BY <1>1, <1>4, <1>8, <2>1
        <3> QED
            BY <1>7, <3>1
    <2>2. CASE k # n + 2 - d
        <3>1. k \in 1..(n + 1 - d)
            BY <1>4, <1>8, <2>2
        <3>2. past'[k] = past[k + d] /\ k + d \in 1..(n + 1)
            BY <1>8, <3>1
        <3>3. height' - Len(past') + k = height - Len(past) + (k + d)
            BY <1>1, <1>4, <1>8, <3>1
        <3>4. Clean(past[k + d].of[p], height - Len(past) + (k + d))
            BY <1>2, <1>4, <3>2
        <3> QED
            BY <3>2, <3>3, <3>4
    <2> QED
        BY <2>1, <2>2
<1>11. ASSUME NEW k \in 1..Len(log')
       PROVE  Undoes(past'[k], past'[k + 1], log'[k])
    <2>1. CASE k = n + 1 - d
        <3>1. k \in 1..(n + 1 - d) /\ k + d = n + 1 /\ k + 1 = n + 2 - d
            BY <1>3, <1>4, <2>1
        <3>2. past'[k] = past[n + 1] /\ past'[k + 1] = s1 /\ log'[k] = cs
            BY <1>8, <3>1
        <3> QED
            BY <1>2, <1>4, <1>7, <3>2
    <2>2. CASE k # n + 1 - d
        <3>1. k \in 1..(n - d) /\ k \in 1..(n + 1 - d) /\ k + 1 \in 1..(n + 1 - d)
              /\ (k + 1) + d = (k + d) + 1
            BY <1>3, <1>4, <1>8, <2>2
        <3>2. past'[k] = past[k + d] /\ past'[k + 1] = past[(k + 1) + d] /\ log'[k] = log[k + d]
              /\ k + d \in 1..n
            BY <1>8, <3>1
        <3>3. Undoes(past[k + d], past[(k + d) + 1], log[k + d])
            BY <1>2, <3>2 DEF n
        <3> QED
            BY <3>1, <3>2, <3>3
    <2> QED
        BY <2>1, <2>2
<1> QED
    BY <1>9, <1>10, <1>11

LEMMA DisconnectSmooth ==
    ASSUME AlwaysInv, SmoothInv, Disconnect
    PROVE  SmoothInv'
<1> SUFFICES ASSUME ~rough'
             PROVE  /\ st' = past'[Len(past')]
                    /\ \A k \in 1..Len(past'), p \in Candidates :
                          Clean(past'[k].of[p], height' - Len(past') + k)
                    /\ \A k \in 1..Len(log') : Undoes(past'[k], past'[k + 1], log'[k])
    BY DEF SmoothInv
<1> DEFINE n == Len(log)
           cs == Last(log)
<1>1. /\ n \in Nat \ {0} /\ Len(past') = n /\ Len(log') = n - 1 /\ cs = log[n] /\ cs \in Seq(ChangeSet)
      /\ \A i \in 1..n : past'[i] = past[i]
      /\ \A i \in 1..(n - 1) : log'[i] = log[i]
      /\ height' = height - 1 /\ st'.pre = st.pre
    BY DisconnectShape
<1>2. Len(past) = n + 1 /\ past \in Seq(Stores) /\ st \in Stores /\ height \in Nat
    BY DEF AlwaysInv, Shape
<1>3. st' \in Stores
    BY DisconnectShape DEF Shape
<1>4. ~rough /\ ~RoughRollback(cs, past[n]) /\ st'.of = RevertAll(st.of, cs)
    <2>1. Len(past) - 1 = n
        BY <1>1, <1>2
    <2> HIDE DEF n, cs
    <2> QED
        BY <1>2, <2>1 DEF Disconnect, Stores, cs
<1>5. /\ st = past[n + 1]
      /\ \A k \in 1..(n + 1), p \in Candidates : Clean(past[k].of[p], height - (n + 1) + k)
      /\ \A k \in 1..n : Undoes(past[k], past[k + 1], log[k])
    BY <1>2, <1>4 DEF SmoothInv
<1> HIDE DEF n, cs
<1>6. n \in 1..n /\ past[n] \in Stores
    BY <1>1, <1>2
<1>7. /\ past[n].pre = st.pre
      /\ \A i \in 1..Len(cs) : cs[i].type \in {"illegal", "emergency", "inactivity"} =>
                                  past[n].of[cs[i].p].req = Never
    <2>1. DOMAIN cs = 1..Len(cs)
        BY <1>1
    <2> QED
        BY <1>4, <2>1 DEF RoughRollback
<1>8. st' = past'[Len(past')]
    <2>1. RevertAll(past[n + 1].of, cs) = past[n].of
        BY <1>1, <1>5, <1>6, <1>7 DEF Undoes
    <2>2. st'.of = past[n].of /\ st'.pre = past[n].pre
        BY <1>1, <1>4, <1>5, <1>7, <2>1
    <2>3. st' = past[n]
        BY <1>3, <1>6, <2>2 DEF Stores
    <2> QED
        BY <1>1, <1>6, <2>3
<1>9. ASSUME NEW k \in 1..Len(past'), NEW p \in Candidates
      PROVE  Clean(past'[k].of[p], height' - Len(past') + k)
    <2>1. past'[k] = past[k] /\ k \in 1..(n + 1) /\ height' - Len(past') + k = height - (n + 1) + k
        BY <1>1, <1>2
    <2> QED
        BY <1>5, <2>1
<1>10. ASSUME NEW k \in 1..Len(log') PROVE Undoes(past'[k], past'[k + 1], log'[k])
    <2>1. k \in 1..n /\ k + 1 \in 1..n /\ k \in 1..(n - 1)
        BY <1>1
    <2>2. past'[k] = past[k] /\ past'[k + 1] = past[k + 1] /\ log'[k] = log[k]
        BY <1>1, <2>1
    <2> QED
        BY <1>5, <2>1, <2>2
<1> QED
    BY <1>8, <1>9, <1>10

(* Without rough cases the log undoes its blocks.                          *)
THEOREM SmoothInvariant == Spec => []SmoothInv
<1>1. AlwaysInv /\ SmoothInv /\ [Next]_vars => SmoothInv'
    <2> SUFFICES ASSUME AlwaysInv, SmoothInv, [Next]_vars PROVE SmoothInv'
        OBVIOUS
    <2>1. ASSUME NEW txs \in TxLists(height + 1), NEW as \in ArbiterSets, NEW sponsor \in as,
                 Connect([txs |-> txs, arbiters |-> as, sponsor |-> sponsor])
          PROVE  SmoothInv'
        <3> DEFINE b == [txs |-> txs, arbiters |-> as, sponsor |-> sponsor]
        <3>1. b.txs = txs /\ b.arbiters = as /\ Connect(b)
            BY <2>1
        <3> HIDE DEF b
        <3> QED
            BY <3>1, ConnectSmooth
    <2>2. CASE Disconnect
        BY <2>2, DisconnectSmooth
    <2>3. CASE UNCHANGED vars
        BY <2>3 DEF vars, SmoothInv
    <2> QED
        BY <2>1, <2>2, <2>3 DEF Next
<1> QED
    BY <1>1, InitSmooth, AlwaysInvariant, PTL DEF Spec

(* RollbackTo brings back the tables that the blocks of the chain give:    *)
(* any number of blocks connected and rolled back, with any transactions,  *)
(* as long as none of the listed rough cases was among them.               *)
THEOREM RollbacksAreExact == Spec => []RollbackExact
<1>1. AlwaysInv /\ SmoothInv => RollbackExact
    <2> SUFFICES ASSUME AlwaysInv, SmoothInv, ~rough PROVE st = Last(past)
        BY DEF RollbackExact
    <2>1. Last(past) = past[Len(past)]
        BY LastOfPast DEF AlwaysInv
    <2> QED
        BY <2>1 DEF SmoothInv
<1> QED
    BY <1>1, AlwaysInvariant, SmoothInvariant, PTL

(* The tables and the state of a producer agree, rough cases aside: the    *)
(* closures of all the kinds of changes, forwards and backwards, keep      *)
(* them together.                                                          *)
THEOREM TablesAgree == Spec => []TablesDisjoint
<1>1. AlwaysInv /\ SmoothInv => TablesDisjoint
    <2> SUFFICES ASSUME AlwaysInv, SmoothInv, ~rough, NEW p \in Candidates
                 PROVE  st.of[p].tables = Home(st.of[p])
        BY DEF TablesDisjoint, Home
    <2>1. Len(past) \in 1..Len(past)
        BY LastOfPast DEF AlwaysInv
    <2>2. Clean(past[Len(past)].of[p], height - Len(past) + Len(past)) /\ st = past[Len(past)]
        BY <2>1 DEF SmoothInv
    <2> QED
        BY <2>2 DEF Clean
<1> QED
    BY <1>1, AlwaysInvariant, SmoothInvariant, PTL
=============================================================================
