--------------------------- MODULE HistoryProofs ---------------------------
(***************************************************************************)
(* The undo log stays well formed, for every capacity and every client.    *)
(* What the closures do to the client's tables plays no part in that.  For *)
(* a client that commits once a block and takes no more back than the log  *)
(* holds, blocks, searches and rollbacks give exactly the state of the     *)
(* height.                                                                 *)
(***************************************************************************)
EXTENDS History, FiniteSetsExt, SequenceTheorems, WellFoundedInduction, TLAPS

-----------------------------------------------------------------------------
(* Loops: induction up to a bound, and that a loop whose steps are total   *)
(* runs to its end.  The models write a loop as a function run with run[i] *)
(* the state after i rounds.                                               *)

(* A non-empty set of naturals has the minimum FiniteSetsExt chooses.      *)
LEMMA MinProperties ==
    ASSUME NEW T \in SUBSET Nat, T # {}
    PROVE  Min(T) \in T /\ \A y \in T : Min(T) <= y
<1>1. PICK x \in T : \A y \in T : ~(<<y, x>> \in OpToRel(<, Nat))
    BY NatLessThanWellFounded, WFMin
<1>2. \A y \in T : x <= y
    <2> SUFFICES ASSUME NEW y \in T PROVE x <= y
        OBVIOUS
    <2>1. ~(y < x)
        BY <1>1 DEF OpToRel
    <2> QED
        BY <2>1
<1> QED
    BY <1>2 DEF Min

(* Induction up to a bound.                                                *)
LEMMA UpTo ==
    ASSUME NEW n \in Nat, NEW T, 0 \in T, \A i \in 1..n : i - 1 \in T => i \in T
    PROVE  \A i \in 0..n : i \in T
<1> DEFINE Out == {i \in 0..n : i \notin T}
<1> SUFFICES ASSUME Out # {} PROVE FALSE
    OBVIOUS
<1>1. Min(Out) \in Out /\ \A y \in Out : Min(Out) <= y
    BY MinProperties
<1>2. PICK m \in 0..n : m = Min(Out) /\ m \notin T /\ \A y \in Out : m <= y
    BY <1>1
<1>3. m \in 1..n /\ m - 1 \in 0..n /\ m - 1 \notin Out
    BY <1>2
<1> QED
    BY <1>2, <1>3

(* A step for each index leads somewhere from every start.                 *)
Path(g, S, n, s, F) ==
    g \in [0..n -> S] /\ g[0] = s /\ \A i \in 1..n : g[i] = F[i][g[i - 1]]

LEMMA Iterate ==
    ASSUME NEW S, NEW n \in Nat, NEW s \in S, NEW F \in [1..n -> [S -> S]]
    PROVE  \E g : Path(g, S, n, s, F)
<1> DEFINE Good(m, g) == g[0] = s /\ \A i \in 1..m : g[i] = F[i][g[i - 1]]
           T == {m \in 0..n : \E g \in [0..m -> S] : Good(m, g)}
<1>1. 0 \in T
    <2> DEFINE f == [i \in 0..0 |-> s]
    <2>1. f \in [0..0 -> S] /\ Good(0, f) /\ 0 \in 0..n
        OBVIOUS
    <2> HIDE DEF f, Good
    <2> QED
        BY <2>1
<1>2. ASSUME NEW m \in 1..n, m - 1 \in T PROVE m \in T
    <2>1. PICK g \in [0..(m - 1) -> S] : Good(m - 1, g)
        BY <1>2
    <2> DEFINE f == [i \in 0..m |-> IF i = m THEN F[m][g[m - 1]] ELSE g[i]]
    <2>2. m - 1 \in 0..(m - 1) /\ g[m - 1] \in S /\ F[m][g[m - 1]] \in S
        OBVIOUS
    <2>3. f \in [0..m -> S]
        BY <2>2
    <2>4. f[0] = s
        BY <2>1
    <2>5. ASSUME NEW i \in 1..m PROVE f[i] = F[i][f[i - 1]]
        <3>1. i - 1 \in 0..(m - 1) /\ f[i - 1] = g[i - 1]
            OBVIOUS
        <3>2. CASE i = m
            BY <3>1, <3>2
        <3>3. CASE i # m
            BY <2>1, <3>1, <3>3
        <3> QED
            BY <3>2, <3>3
    <2> HIDE DEF f
    <2>6. Good(m, f) /\ m \in 0..n
        BY <2>4, <2>5
    <2> HIDE DEF Good
    <2> QED
        BY <2>3, <2>6
<1>3. n \in T
    <2> HIDE DEF T
    <2>1. \A i \in 1..n : i - 1 \in T => i \in T
        BY <1>2
    <2>2. \A i \in 0..n : i \in T
        BY <1>1, <2>1, UpTo, Zenon
    <2> QED
        BY <2>2
<1> QED
    BY <1>3 DEF Path

-----------------------------------------------------------------------------
(* Entries carry whatever their closures are, and a height.                *)
Heights(S) == \A e \in S : e.height \in Nat

TypeInv ==
    /\ height \in Nat /\ chain \in Nat
    /\ \E S : changes \in Seq(S) /\ Heights(S)

LogInv == TypeInv /\ LogOrdered

-----------------------------------------------------------------------------
(* The next block is the tip again, or the one above it.                   *)
LEMMA NextHeightType ==
    ASSUME TypeInv
    PROVE  NextHeight \in Nat /\ NextHeight >= chain
BY DEF TypeInv, NextHeight

(* Dropping the oldest entry of a full log leaves room and keeps the order.*)
LEMMA WithinCapacityProperties ==
    ASSUME NEW S, changes \in Seq(S), Heights(S), LogOrdered, height \in Nat
    PROVE  /\ WithinCapacity \in Seq(S)
           /\ Len(WithinCapacity) < Capacity
           /\ \A i, j \in 1..Len(WithinCapacity) :
                  i <= j => WithinCapacity[i].height <= WithinCapacity[j].height
           /\ \A i \in 1..Len(WithinCapacity) : WithinCapacity[i].height <= height
<1>1. Len(changes) \in Nat /\ DOMAIN changes = 1..Len(changes)
    BY LenProperties
<1>2. CASE Len(changes) >= Capacity
    <2>1. changes # <<>>
        BY <1>1, <1>2, CapacityAssumption, EmptySeq
    <2>2. /\ Tail(changes) \in Seq(S) /\ Len(Tail(changes)) = Len(changes) - 1
          /\ \A i \in 1..Len(Tail(changes)) : Tail(changes)[i] = changes[i + 1]
        BY <2>1, HeadTailProperties
    <2>3. WithinCapacity = Tail(changes)
        BY <1>2 DEF WithinCapacity
    <2>4. Len(Tail(changes)) < Capacity
        BY <1>1, <2>2, CapacityAssumption DEF LogOrdered
    <2>5. \A i \in 1..Len(Tail(changes)) : i \in Nat /\ i + 1 \in DOMAIN changes
        BY <1>1, <2>2
    <2>6. \A i, j \in 1..Len(Tail(changes)) :
              i <= j => Tail(changes)[i].height <= Tail(changes)[j].height
        BY <2>2, <2>5 DEF LogOrdered
    <2>7. \A i \in 1..Len(Tail(changes)) : Tail(changes)[i].height <= height
        BY <2>2, <2>5 DEF LogOrdered
    <2> QED
        BY <2>2, <2>3, <2>4, <2>6, <2>7
<1>3. CASE ~(Len(changes) >= Capacity)
    <2>1. WithinCapacity = changes
        BY <1>3 DEF WithinCapacity
    <2> QED
        BY <1>1, <1>3, <2>1, CapacityAssumption DEF LogOrdered
<1> QED
    BY <1>2, <1>3

-----------------------------------------------------------------------------
LEMMA AppendChangeKeepsLog ==
    ASSUME LogInv, NEW k \in Keys, NEW v \in Values, AppendChange(k, v)
    PROVE  LogInv'
<1>1. /\ height' = height /\ chain' = chain /\ commits' = commits /\ changes' = changes
      /\ temp' = <<>> /\ cached'[1].height = NextHeight
    BY DEF AppendChange, client
<1>2. TypeInv'
    BY <1>1 DEF LogInv, TypeInv
<1>3. NextHeight' = NextHeight
    BY <1>1 DEF NextHeight
<1> QED
    BY <1>1, <1>2, <1>3 DEF LogInv, LogOrdered

LEMMA CommitEntryKeepsLog ==
    ASSUME LogInv, NEW h \in Nat, h >= chain, CommitEntry(h), chain' = h
    PROVE  LogInv'
<1> DEFINE entry == [height |-> h, changes |-> CachedChanges]
           log == WithinCapacity
<1>1. PICK S : changes \in Seq(S) /\ Heights(S)
    BY DEF LogInv, TypeInv
<1>2. height' = h /\ changes' = Append(log, entry) /\ cached' = <<>>
    BY DEF CommitEntry
<1> DEFINE T == S \cup {entry}
<1>3. entry.height = h
    OBVIOUS
<1>4. /\ log \in Seq(S) /\ Len(log) < Capacity
      /\ \A i, j \in 1..Len(log) : i <= j => log[i].height <= log[j].height
      /\ \A i \in 1..Len(log) : log[i].height <= height
    BY <1>1, WithinCapacityProperties DEF LogInv, TypeInv
<1> HIDE DEF entry, log
<1>5. log \in Seq(T) /\ entry \in T /\ Heights(T)
    BY <1>1, <1>3, <1>4, SeqMonotonic DEF Heights
<1> HIDE DEF T
<1>6. /\ changes' \in Seq(T) /\ Len(changes') = Len(log) + 1
      /\ \A i \in 1..Len(log) : changes'[i] = log[i]
      /\ changes'[Len(log) + 1] = entry
    BY <1>2, <1>5, AppendProperties
<1>7. Len(log) \in Nat /\ DOMAIN changes' = 1..(Len(log) + 1)
    BY <1>5, <1>6, LenProperties
<1>8. TypeInv'
    BY <1>2, <1>5, <1>6 DEF TypeInv
<1>9. height \in Nat /\ height <= h
    BY DEF LogInv, TypeInv, LogOrdered
<1>10. \A i \in 1..Len(log) : log[i].height \in Nat /\ log[i].height <= h
    BY <1>1, <1>4, <1>9, ElementOfSeq DEF Heights
<1>11. \A i, j \in DOMAIN changes' : i <= j => changes'[i].height <= changes'[j].height
    <2> SUFFICES ASSUME NEW i \in 1..(Len(log) + 1), NEW j \in 1..(Len(log) + 1), i <= j
                 PROVE  changes'[i].height <= changes'[j].height
        BY <1>7
    <2>1. CASE j \in 1..Len(log)
        <3>1. i \in 1..Len(log)
            BY <1>7, <2>1
        <3> QED
            BY <1>4, <1>6, <2>1, <3>1
    <2>2. CASE j = Len(log) + 1 /\ i \in 1..Len(log)
        BY <1>3, <1>6, <1>10, <2>2
    <2>3. CASE j = Len(log) + 1 /\ i = Len(log) + 1
        BY <1>3, <1>6, <2>3
    <2> QED
        BY <1>7, <2>1, <2>2, <2>3
<1>12. \A i \in DOMAIN changes' : changes'[i].height <= h
    BY <1>3, <1>6, <1>7, <1>10
<1>13. Len(changes') <= Capacity
    BY <1>4, <1>6, <1>7, CapacityAssumption
<1> QED
    BY <1>2, <1>8, <1>11, <1>12, <1>13 DEF LogInv, LogOrdered

LEMMA CommitBlockKeepsLog ==
    ASSUME LogInv, CommitBlock
    PROVE  LogInv'
<1>1. NextHeight \in Nat /\ NextHeight >= chain /\ chain' = NextHeight
    BY NextHeightType DEF LogInv, CommitBlock
<1>2. CASE temp # <<>> /\ UNCHANGED hist
    <2>1. height' = height /\ changes' = changes /\ cached' = cached
        BY <1>2 DEF hist
    <2>2. cached = <<>>
        BY <1>2 DEF LogInv, LogOrdered
    <2>3. TypeInv'
        BY <1>1, <2>1 DEF LogInv, TypeInv
    <2>4. height <= chain'
        BY <1>1 DEF LogInv, TypeInv, LogOrdered
    <2> QED
        BY <2>1, <2>2, <2>3, <2>4 DEF LogInv, LogOrdered
<1>3. CASE CommitEntry(NextHeight)
    BY <1>1, <1>3, CommitEntryKeepsLog
<1> QED
    BY <1>2, <1>3 DEF CommitBlock, Commit

-----------------------------------------------------------------------------
(* Entries above h are a suffix of the log, because it is ordered; cutting *)
(* at the first of them leaves none.                                       *)
LEMMA RollbackToKeepsLog ==
    ASSUME LogInv, NEW h \in Nat, RollbackTo(h), cached = <<>>, chain' = h
    PROVE  LogInv'
<1> DEFINE above == Above(h)
           cut == IF above = {} THEN Len(changes) ELSE Min(above) - 1
<1>1. PICK S : changes \in Seq(S) /\ Heights(S)
    BY DEF LogInv, TypeInv
<1>2. height' = h /\ changes' = SubSeq(changes, 1, cut) /\ cached' = <<>>
    BY DEF RollbackTo
<1>3. /\ Len(changes) \in Nat /\ DOMAIN changes = 1..Len(changes)
      /\ \A i \in 1..Len(changes) : changes[i] \in S /\ changes[i].height \in Nat
    BY <1>1, LenProperties, ElementOfSeq DEF Heights
<1>4. above \in SUBSET Nat
    BY <1>3 DEF Above
<1>5. /\ cut \in Nat /\ cut <= Len(changes)
      /\ \A i \in 1..cut : i \in 1..Len(changes) /\ changes[i].height <= h
    <2>1. CASE above = {}
        BY <1>3, <2>1 DEF Above
    <2>2. CASE above # {}
        <3>1. Min(above) \in above /\ \A y \in above : Min(above) <= y
            BY <1>4, <2>2, MinProperties
        <3>2. Min(above) \in 1..Len(changes)
            BY <1>3, <3>1 DEF Above
        <3>3. cut = Min(above) - 1
            BY <2>2
        <3> HIDE DEF cut
        <3>4. \A i \in 1..cut : i \in 1..Len(changes) /\ i \notin above
            BY <1>3, <3>1, <3>2, <3>3
        <3> QED
            BY <1>3, <3>2, <3>3, <3>4 DEF Above
    <2> QED
        BY <2>1, <2>2
<1> HIDE DEF cut, above
<1>6. /\ changes' \in Seq(S) /\ Len(changes') = cut
      /\ \A i \in 1..cut : changes'[i] = changes[i]
    <2>1. \A i \in 1..cut : changes[i] \in S
        BY <1>3, <1>5
    <2>2. /\ SubSeq(changes, 1, cut) \in Seq(S)
          /\ Len(SubSeq(changes, 1, cut)) = IF 1 <= cut THEN cut - 1 + 1 ELSE 0
          /\ \A i \in 1..(cut - 1 + 1) : SubSeq(changes, 1, cut)[i] = changes[1 + i - 1]
        BY <1>5, <2>1, SubSeqProperties
    <2> QED
        BY <1>2, <1>5, <2>2
<1>7. DOMAIN changes' = 1..cut
    BY <1>6, LenProperties
<1>8. TypeInv'
    BY <1>1, <1>2, <1>6 DEF TypeInv
<1>9. Len(changes') <= Capacity
    BY <1>3, <1>5, <1>6, CapacityAssumption DEF LogInv, LogOrdered
<1>10. \A i, j \in 1..cut : i <= j => changes'[i].height <= changes'[j].height
    BY <1>3, <1>5, <1>6 DEF LogInv, LogOrdered
<1> QED
    BY <1>2, <1>5, <1>6, <1>7, <1>8, <1>9, <1>10 DEF LogInv, LogOrdered

LEMMA RollbackKeepsLog ==
    ASSUME LogInv, NEW h \in 0..MaxHeight, Rollback(h)
    PROVE  LogInv'
<1>1. h \in Nat /\ chain' = h /\ cached = <<>>
    BY HeightAssumption DEF Rollback, Idle
<1>2. CASE h >= height /\ UNCHANGED hist
    <2>1. height' = height /\ changes' = changes /\ cached' = cached
        BY <1>2 DEF hist
    <2>2. TypeInv'
        BY <1>1, <2>1 DEF LogInv, TypeInv
    <2>3. height <= chain'
        BY <1>1, <1>2 DEF LogInv, TypeInv
    <2> QED
        BY <1>1, <2>1, <2>2, <2>3 DEF LogInv, LogOrdered
<1>3. CASE RollbackTo(h)
    BY <1>1, <1>3, RollbackToKeepsLog
<1> QED
    BY <1>2, <1>3 DEF Rollback

-----------------------------------------------------------------------------
(* Steps that leave the log alone, and either the cache empty or the       *)
(* temporary changes and the client's place in the chain alone too.        *)
LEMMA LogUntouched ==
    ASSUME LogInv, UNCHANGED <<height, changes, cached, chain, commits>>,
           cached = <<>> \/ temp' = temp
    PROVE  LogInv'
<1>1. NextHeight' = NextHeight
    BY DEF NextHeight
<1> QED
    BY <1>1 DEF LogInv, TypeInv, LogOrdered

LEMMA LogInit == Init => LogInv
<1> SUFFICES ASSUME Init PROVE LogInv
    OBVIOUS
<1>1. height = 0 /\ chain = 0 /\ changes = <<>> /\ cached = <<>>
    BY DEF Init
<1>2. <<>> \in Seq({}) /\ Heights({}) /\ DOMAIN <<>> = {} /\ Len(<<>>) = 0
    BY EmptySeq DEF Heights
<1> QED
    BY <1>1, <1>2, CapacityAssumption DEF LogInv, TypeInv, LogOrdered

\* The log of utils/history.go stays ordered, within its capacity, never above
\* History.height nor ahead of its client's chain, and its cache is for the
\* next block, whatever blocks, special transactions, searches and rollbacks
\* come and whatever the capacity is: Append never panics.
THEOREM LogWellFormed == Spec => []LogOrdered
<1>1. Init => LogInv
    BY LogInit
<1>2. LogInv /\ [Next]_vars => LogInv'
    <2> SUFFICES ASSUME LogInv, [Next]_vars PROVE LogInv'
        OBVIOUS
    <2>1. ASSUME NEW k \in Keys, NEW v \in Values, AppendChange(k, v) PROVE LogInv'
        BY <2>1, AppendChangeKeepsLog
    <2>2. CASE CommitBlock
        BY <2>2, CommitBlockKeepsLog
    <2>3. ASSUME NEW k \in TempKeys, NEW v \in Values, SpecialTx(k, v) PROVE LogInv'
        BY <2>3, LogUntouched DEF SpecialTx, Idle
    <2>4. ASSUME NEW h \in 0..MaxHeight, SeekTo(h) PROVE LogInv'
        BY <2>4, LogUntouched DEF SeekTo
    <2>5. ASSUME NEW h \in 0..MaxHeight, Rollback(h) PROVE LogInv'
        BY <2>5, RollbackKeepsLog
    <2>6. CASE UNCHANGED vars
        BY <2>6, LogUntouched DEF vars, hist, client
    <2> QED
        BY <2>1, <2>2, <2>3, <2>4, <2>5, <2>6 DEF Next
<1>3. LogInv => LogOrdered
    BY DEF LogInv
<1> QED
    BY <1>1, <1>2, <1>3, PTL DEF Spec

-----------------------------------------------------------------------------
(* The client for which the log is exact: it keeps the order of its calls, *)
(* commits once a block, has one special transaction at a time, which      *)
(* counts and assigns nothing, and takes back no more than the log holds.  *)
Client ==
    /\ Disciplined = TRUE /\ PerHeight = 1
    /\ SpecialTxs \in Nat /\ SpecialTxs <= 1
    /\ TempKeys \cap Fields = {}
    /\ MaxRollback \in Nat /\ MaxRollback <= Capacity

State == [Keys -> Int]

(* The changes restore what s has in the fields they assign.               *)
Captures(s, cs) == \A i \in DOMAIN cs : cs[i].key \in Fields => cs[i].ori = s[cs[i].key]
Counts(cs) == \A i \in DOMAIN cs : cs[i].key \in Counters

ExactType ==
    /\ st \in State /\ ref \in [0..MaxHeight -> State]
    /\ height \in Nat /\ seekHeight \in Nat /\ highest \in Nat
    /\ changes \in Seq(Entry) /\ temp \in Seq(Change)
    /\ CachedChanges \in Seq(Change)
    /\ commits = 1 /\ chain = height /\ ~panicked
    /\ height <= highest /\ highest <= MaxHeight

(* One entry a height, up to the last, and each leads from the state of    *)
(* the height below to that of its own, and back.                          *)
EntryExact(e, h) ==
    /\ e.height = h
    /\ ExecuteAll(ref[h - 1], e.changes) = ref[h]
    /\ RevertAll(ref[h], e.changes) = ref[h - 1]
LogExact ==
    /\ Len(changes) <= height
    /\ \A i \in 1..Len(changes) : EntryExact(changes[i], height - Len(changes) + i)

(* As much of the log as a reorganization may need.                        *)
LogLong == Len(changes) + (highest - height) >= (IF highest < Capacity THEN highest ELSE Capacity)

(* Where the state is.                                                     *)
Placed ==
    IF AtBest THEN Counts(temp) /\ UndoTemp = ref[height]
    ELSE temp = <<>> /\ st = ref[seekHeight] /\ height - seekHeight <= Len(changes)

CacheInv == cached # <<>> => temp = <<>>
CacheCaptures == Captures(ref[height], CachedChanges)

Settled ==
    cached = <<>> =>
        /\ lastOp \in {"block", "rollback"} => temp = <<>> /\ AtBest
        /\ lastOp = "seek" => temp = <<>> /\ seekHeight <= height

ExactInv ==
    /\ ExactType /\ LogExact /\ LogLong /\ Placed /\ CacheInv /\ CacheCaptures /\ Settled

-----------------------------------------------------------------------------
(* What one closure does.                                                  *)
LEMMA ChangeEffect ==
    ASSUME NEW s \in State, NEW c \in Change
    PROVE  Execute(s, c) \in State /\ Revert(s, c) \in State
<1>1. c.key \in Keys /\ c.val \in Int /\ c.ori \in Int
    BY ValueAssumption DEF Change
<1>2. s[c.key] \in Int
    BY <1>1 DEF State
<1> QED
    BY <1>1, <1>2 DEF Execute, Revert, State

LEMMA ChangeOther ==
    ASSUME NEW s \in State, NEW c \in Change, NEW k \in Keys, k # c.key
    PROVE  Execute(s, c)[k] = s[k] /\ Revert(s, c)[k] = s[k]
BY DEF Execute, Revert, State

LEMMA ChangeCounter ==
    ASSUME NEW s \in State, NEW c \in Change, NEW k \in Counters, k = c.key
    PROVE  Execute(s, c)[k] = s[k] + c.val /\ Revert(s, c)[k] = s[k] - c.val
BY DEF Execute, Revert, State, Keys

LEMMA ChangeField ==
    ASSUME NEW s \in State, NEW c \in Change, NEW k \in Fields, k = c.key
    PROVE  Revert(s, c)[k] = c.ori
BY ValueAssumption DEF Revert, State, Keys

(* The closures of a list run one after the other.                         *)
Executes(run, s, cs) ==
    /\ run \in [0..Len(cs) -> State] /\ run[0] = s
    /\ \A i \in 1..Len(cs) : run[i] = Execute(run[i - 1], cs[i])
Reverts(run, s, cs) ==
    /\ run \in [0..Len(cs) -> State] /\ run[0] = s
    /\ \A i \in 1..Len(cs) : run[i] = Revert(run[i - 1], cs[i])

LEMMA ExecuteRun ==
    ASSUME NEW s \in State, NEW cs \in Seq(Change)
    PROVE  \E run : Executes(run, s, cs) /\ ExecuteAll(s, cs) = run[Len(cs)]
<1> DEFINE n == Len(cs)
           Eq(g) == g = [i \in 0..n |-> IF i = 0 THEN s ELSE Execute(g[i - 1], cs[i])]
           F == [i \in 1..n |-> [x \in State |-> Execute(x, cs[i])]]
           run == CHOOSE g : Eq(g)
<1>1. n \in Nat /\ \A i \in 1..n : cs[i] \in Change
    BY LenProperties, ElementOfSeq
<1> HIDE DEF n
<1>2. F \in [1..n -> [State -> State]]
    BY <1>1, ChangeEffect
<1>3. PICK g : Path(g, State, n, s, F)
    <2> HIDE DEF F
    <2> QED
        BY <1>1, <1>2, Iterate
<1>4. \A i \in 0..n : g[i] = IF i = 0 THEN s ELSE Execute(g[i - 1], cs[i])
    <2> SUFFICES ASSUME NEW i \in 0..n, i # 0 PROVE g[i] = Execute(g[i - 1], cs[i])
        BY <1>3 DEF Path
    <2>1. i \in 1..n /\ i - 1 \in 0..n /\ g[i - 1] \in State
        BY <1>1, <1>3 DEF Path
    <2> QED
        BY <1>3, <2>1 DEF Path
<1>5. Eq(g)
    BY <1>3, <1>4 DEF Path
<1>6. Eq(run)
    <2> HIDE DEF Eq
    <2> QED
        BY <1>5
<1>7. ExecuteAll(s, cs) = run[n]
    BY DEF ExecuteAll, n
<1> HIDE DEF run
<1>8. run[0] = s /\ \A i \in 1..n : run[i] = Execute(run[i - 1], cs[i])
    BY <1>1, <1>6
<1> DEFINE T == {i \in 0..n : run[i] \in State}
<1>9. \A i \in 0..n : i \in T
    <2>1. 0 \in T
        BY <1>1, <1>8
    <2>2. ASSUME NEW i \in 1..n, i - 1 \in T PROVE i \in T
        <3>1. run[i - 1] \in State /\ cs[i] \in Change /\ i \in 0..n
            BY <1>1, <2>2
        <3> QED
            BY <1>8, <3>1, ChangeEffect
    <2> HIDE DEF T
    <2> QED
        BY <1>1, <2>1, <2>2, UpTo
<1>10. run \in [0..n -> State]
    BY <1>6, <1>9
<1> QED
    BY <1>7, <1>8, <1>10 DEF Executes, n

LEMMA RevertRun ==
    ASSUME NEW s \in State, NEW cs \in Seq(Change)
    PROVE  \E run : Reverts(run, s, cs) /\ RevertAll(s, cs) = run[Len(cs)]
<1> DEFINE n == Len(cs)
           Eq(g) == g = [i \in 0..n |-> IF i = 0 THEN s ELSE Revert(g[i - 1], cs[i])]
           F == [i \in 1..n |-> [x \in State |-> Revert(x, cs[i])]]
           run == CHOOSE g : Eq(g)
<1>1. n \in Nat /\ \A i \in 1..n : cs[i] \in Change
    BY LenProperties, ElementOfSeq
<1> HIDE DEF n
<1>2. F \in [1..n -> [State -> State]]
    BY <1>1, ChangeEffect
<1>3. PICK g : Path(g, State, n, s, F)
    <2> HIDE DEF F
    <2> QED
        BY <1>1, <1>2, Iterate
<1>4. \A i \in 0..n : g[i] = IF i = 0 THEN s ELSE Revert(g[i - 1], cs[i])
    <2> SUFFICES ASSUME NEW i \in 0..n, i # 0 PROVE g[i] = Revert(g[i - 1], cs[i])
        BY <1>3 DEF Path
    <2>1. i \in 1..n /\ i - 1 \in 0..n /\ g[i - 1] \in State
        BY <1>1, <1>3 DEF Path
    <2> QED
        BY <1>3, <2>1 DEF Path
<1>5. Eq(g)
    BY <1>3, <1>4 DEF Path
<1>6. Eq(run)
    <2> HIDE DEF Eq
    <2> QED
        BY <1>5
<1>7. RevertAll(s, cs) = run[n]
    BY DEF RevertAll, n
<1> HIDE DEF run
<1>8. run[0] = s /\ \A i \in 1..n : run[i] = Revert(run[i - 1], cs[i])
    BY <1>1, <1>6
<1> DEFINE T == {i \in 0..n : run[i] \in State}
<1>9. \A i \in 0..n : i \in T
    <2>1. 0 \in T
        BY <1>1, <1>8
    <2>2. ASSUME NEW i \in 1..n, i - 1 \in T PROVE i \in T
        <3>1. run[i - 1] \in State /\ cs[i] \in Change /\ i \in 0..n
            BY <1>1, <2>2
        <3> QED
            BY <1>8, <3>1, ChangeEffect
    <2> HIDE DEF T
    <2> QED
        BY <1>1, <2>1, <2>2, UpTo
<1>10. run \in [0..n -> State]
    BY <1>6, <1>9
<1> QED
    BY <1>7, <1>8, <1>10 DEF Reverts, n

LEMMA RunTypes ==
    ASSUME NEW s \in State, NEW cs \in Seq(Change)
    PROVE  ExecuteAll(s, cs) \in State /\ RevertAll(s, cs) \in State
<1>1. Len(cs) \in 0..Len(cs)
    BY LenProperties
<1>2. PICK e : Executes(e, s, cs) /\ ExecuteAll(s, cs) = e[Len(cs)]
    BY ExecuteRun
<1>3. PICK r : Reverts(r, s, cs) /\ RevertAll(s, cs) = r[Len(cs)]
    BY RevertRun
<1> QED
    BY <1>1, <1>2, <1>3 DEF Executes, Reverts

(* Undoing a list gives back the state in which it was appended, although  *)
(* it is undone in the order of appending: all that assign a field restore *)
(* one value.                                                              *)
LEMMA RoundTrip ==
    ASSUME NEW s \in State, NEW cs \in Seq(Change), Captures(s, cs)
    PROVE  ExecuteAll(s, cs) \in State /\ RevertAll(ExecuteAll(s, cs), cs) = s
<1> DEFINE n == Len(cs)
           t == ExecuteAll(s, cs)
<1>1. n \in Nat /\ DOMAIN cs = 1..n /\ \A i \in 1..n : cs[i] \in Change
    BY LenProperties, ElementOfSeq
<1>2. PICK e : Executes(e, s, cs) /\ t = e[n]
    BY ExecuteRun
<1>3. t \in State
    BY <1>1, <1>2 DEF Executes
<1> HIDE DEF t
<1>4. PICK r : Reverts(r, t, cs) /\ RevertAll(t, cs) = r[n]
    BY <1>3, RevertRun
<1>5. /\ e \in [0..n -> State] /\ e[0] = s /\ \A i \in 1..n : e[i] = Execute(e[i - 1], cs[i])
      /\ r \in [0..n -> State] /\ r[0] = t /\ \A i \in 1..n : r[i] = Revert(r[i - 1], cs[i])
    BY <1>2, <1>4 DEF Executes, Reverts
<1> HIDE DEF n
<1>6. ASSUME NEW k \in Keys PROVE r[n][k] = s[k]
    <2>1. \A i \in 0..n : e[i][k] \in Int /\ r[i][k] \in Int
        BY <1>5 DEF State
    <2>2. CASE k \in Counters
        <3> DEFINE T == {i \in 0..n : e[i][k] - s[k] = t[k] - r[i][k]}
        <3>1. 0 \in T
            BY <1>1, <1>5, <2>1
        <3>2. ASSUME NEW i \in 1..n, i - 1 \in T PROVE i \in T
            <4>1. /\ i \in 0..n /\ i - 1 \in 0..n /\ cs[i] \in Change
                  /\ e[i - 1] \in State /\ r[i - 1] \in State
                  /\ e[i] = Execute(e[i - 1], cs[i]) /\ r[i] = Revert(r[i - 1], cs[i])
                BY <1>1, <1>5
            <4>2. CASE k = cs[i].key
                <5>1. e[i][k] = e[i - 1][k] + cs[i].val /\ r[i][k] = r[i - 1][k] - cs[i].val
                    BY <2>2, <4>1, <4>2, ChangeCounter
                <5>2. cs[i].val \in Int /\ s[k] \in Int /\ t[k] \in Int
                    BY <1>3, <4>1, ValueAssumption DEF Change, State
                <5>3. PICK x \in Int, y \in Int : x = e[i - 1][k] /\ y = r[i - 1][k]
                    BY <2>1, <4>1
                <5>4. x - s[k] = t[k] - y
                    BY <3>2, <5>3
                <5>5. (x + cs[i].val) - s[k] = t[k] - (y - cs[i].val)
                    <6> DEFINE d == cs[i].val
                               a == s[k]
                               b == t[k]
                    <6>1. d \in Int /\ a \in Int /\ b \in Int /\ x - a = b - y
                        BY <5>2, <5>4
                    <6> HIDE DEF d, a, b
                    <6>2. (x + d) - a = b - (y - d)
                        BY <6>1
                    <6> QED
                        BY <6>2 DEF d, a, b
                <5>6. e[i][k] - s[k] = t[k] - r[i][k]
                    BY <5>1, <5>3, <5>5
                <5> QED
                    BY <4>1, <5>6
            <4>3. CASE k # cs[i].key
                <5>1. e[i][k] = e[i - 1][k] /\ r[i][k] = r[i - 1][k]
                    BY <4>1, <4>3, ChangeOther
                <5> QED
                    BY <3>2, <4>1, <5>1
            <4> QED
                BY <4>2, <4>3
        <3>3. n \in T
            <4> HIDE DEF T
            <4> QED
                BY <1>1, <3>1, <3>2, UpTo
        <3>4. e[n][k] - s[k] = t[k] - r[n][k] /\ e[n][k] = t[k]
            BY <1>2, <3>3 DEF n
        <3>5. n \in 0..n /\ s[k] \in Int
            BY <1>1 DEF State
        <3> QED
            BY <2>1, <3>4, <3>5
    <2>3. CASE k \in Fields
        <3> DEFINE T == {i \in 0..n : r[i][k] = s[k] \/ (r[i][k] = t[k] /\ e[i][k] = s[k])}
        <3>1. 0 \in T
            BY <1>1, <1>5
        <3>2. ASSUME NEW i \in 1..n, i - 1 \in T PROVE i \in T
            <4>1. /\ i \in 0..n /\ i - 1 \in 0..n /\ cs[i] \in Change
                  /\ e[i - 1] \in State /\ r[i - 1] \in State
                  /\ e[i] = Execute(e[i - 1], cs[i]) /\ r[i] = Revert(r[i - 1], cs[i])
                BY <1>1, <1>5
            <4>2. CASE k = cs[i].key
                <5>1. r[i][k] = cs[i].ori
                    BY <2>3, <4>1, <4>2, ChangeField
                <5>2. cs[i].ori = s[k]
                    BY <1>1, <2>3, <4>2 DEF Captures
                <5> QED
                    BY <4>1, <5>1, <5>2
            <4>3. CASE k # cs[i].key
                <5>1. e[i][k] = e[i - 1][k] /\ r[i][k] = r[i - 1][k]
                    BY <4>1, <4>3, ChangeOther
                <5> QED
                    BY <3>2, <4>1, <5>1
            <4> QED
                BY <4>2, <4>3
        <3>3. n \in T
            <4> HIDE DEF T
            <4> QED
                BY <1>1, <3>1, <3>2, UpTo
        <3> QED
            BY <1>2, <3>3 DEF n
    <2> QED
        BY <2>2, <2>3 DEF Keys
<1>7. r[n] \in State
    BY <1>1, <1>5
<1>8. r[n] = s
    BY <1>6, <1>7 DEF State
<1> QED
    BY <1>3, <1>4, <1>8 DEF n, t

(* A list that only counts leaves the fields alone.                        *)
LEMMA CountsKeepFields ==
    ASSUME NEW s \in State, NEW cs \in Seq(Change), Counts(cs), NEW k \in Fields
    PROVE  RevertAll(s, cs) \in State /\ RevertAll(s, cs)[k] = s[k]
<1> DEFINE n == Len(cs)
<1>1. n \in Nat /\ DOMAIN cs = 1..n /\ \A i \in 1..n : cs[i] \in Change
    BY LenProperties, ElementOfSeq
<1>2. PICK r : Reverts(r, s, cs) /\ RevertAll(s, cs) = r[n]
    BY RevertRun
<1>3. r \in [0..n -> State] /\ r[0] = s /\ \A i \in 1..n : r[i] = Revert(r[i - 1], cs[i])
    BY <1>2 DEF Reverts
<1> HIDE DEF n
<1> DEFINE T == {i \in 0..n : r[i][k] = s[k]}
<1>4. 0 \in T
    BY <1>1, <1>3
<1>5. ASSUME NEW i \in 1..n, i - 1 \in T PROVE i \in T
    <2>1. /\ i \in 0..n /\ i - 1 \in 0..n /\ cs[i] \in Change /\ r[i - 1] \in State
          /\ r[i] = Revert(r[i - 1], cs[i]) /\ r[i - 1][k] = s[k]
        BY <1>1, <1>3, <1>5
    <2>2. k \in Keys /\ k # cs[i].key
        BY <1>1, ValueAssumption DEF Counts, Keys
    <2> QED
        BY <2>1, <2>2, ChangeOther
<1>6. n \in T
    <2> HIDE DEF T
    <2> QED
        BY <1>1, <1>4, <1>5, UpTo
<1> QED
    BY <1>1, <1>2, <1>3, <1>6

-----------------------------------------------------------------------------
(* The closures of nothing.                                                *)
LEMMA NothingRun ==
    ASSUME NEW s \in State
    PROVE  ExecuteAll(s, <<>>) = s /\ RevertAll(s, <<>>) = s
<1>1. <<>> \in Seq(Change) /\ Len(<<>>) = 0
    BY EmptySeq
<1>2. PICK e : Executes(e, s, <<>>) /\ ExecuteAll(s, <<>>) = e[Len(<<>>)]
    BY <1>1, ExecuteRun
<1>3. PICK r : Reverts(r, s, <<>>) /\ RevertAll(s, <<>>) = r[Len(<<>>)]
    BY <1>1, RevertRun
<1> QED
    BY <1>1, <1>2, <1>3 DEF Executes, Reverts

(* Undoing the last entries leads to the state below them, and executing   *)
(* them again leads back.                                                  *)
LEMMA RollbackLastExact ==
    ASSUME ExactType, LogExact, NEW m \in Nat, m <= Len(changes)
    PROVE  RollbackLast(ref[height], m) = ref[height - m]
<1> DEFINE n == Len(changes)
           Eq(g) == g = [i \in 0..m |-> IF i = 0 THEN ref[height]
                                        ELSE RevertAll(g[i - 1], changes[n - i + 1].changes)]
           g0 == [i \in 0..m |-> ref[height - i]]
           run == CHOOSE g : Eq(g)
<1>1. n \in Nat /\ height \in Nat /\ n <= height
    BY LenProperties DEF ExactType, LogExact
<1>2. RollbackLast(ref[height], m) = run[m]
    BY DEF RollbackLast
<1>3. ASSUME NEW i \in 1..m
      PROVE  RevertAll(ref[height - i + 1], changes[n - i + 1].changes) = ref[height - i]
    <2>1. PICK p \in 1..n : p = n - i + 1
        BY <1>1
    <2>2. EntryExact(changes[p], height - n + p)
        BY DEF LogExact
    <2>3. height - n + p = height - i + 1 /\ (height - i + 1) - 1 = height - i
        BY <1>1, <2>1
    <2>4. EntryExact(changes[p], height - i + 1)
        BY <2>2, <2>3
    <2> QED
        BY <2>1, <2>3, <2>4 DEF EntryExact
<1> HIDE DEF n
<1>4. Eq(g0)
    <2>1. ASSUME NEW i \in 0..m
          PROVE  g0[i] = IF i = 0 THEN ref[height] ELSE RevertAll(g0[i - 1], changes[n - i + 1].changes)
        <3>1. CASE i = 0
            BY <1>1, <3>1
        <3>2. CASE i # 0
            <4>1. i \in 1..m /\ i - 1 \in 0..m /\ height - (i - 1) = height - i + 1
                BY <1>1, <3>2
            <4>2. g0[i] = ref[height - i] /\ g0[i - 1] = ref[height - i + 1]
                BY <4>1
            <4> QED
                BY <1>3, <3>2, <4>1, <4>2
        <3> QED
            BY <3>1, <3>2
    <2> QED
        BY <2>1
<1>5. Eq(run)
    <2> HIDE DEF Eq, g0
    <2> QED
        BY <1>4
<1> HIDE DEF run
<1> DEFINE T == {i \in 0..m : run[i] = ref[height - i]}
<1>6. 0 \in T
    BY <1>1, <1>5
<1>7. ASSUME NEW i \in 1..m, i - 1 \in T PROVE i \in T
    <2>1. i \in 0..m /\ height - (i - 1) = height - i + 1
        BY <1>1
    <2>2. run[i - 1] = ref[height - i + 1]
        BY <1>7, <2>1
    <2>3. run[i] = RevertAll(run[i - 1], changes[n - i + 1].changes)
        BY <1>5, <2>1
    <2> QED
        BY <1>3, <2>1, <2>2, <2>3
<1>8. m \in T
    <2> HIDE DEF T
    <2> QED
        BY <1>6, <1>7, UpTo
<1> QED
    BY <1>2, <1>8

LEMMA CommitLastExact ==
    ASSUME ExactType, LogExact, NEW m \in Nat, m <= Len(changes)
    PROVE  CommitLast(ref[height - m], m) = ref[height]
<1> DEFINE n == Len(changes)
           Eq(g) == g = [i \in 0..m |-> IF i = 0 THEN ref[height - m]
                                        ELSE ExecuteAll(g[i - 1], changes[n - m + i].changes)]
           g0 == [i \in 0..m |-> ref[height - m + i]]
           run == CHOOSE g : Eq(g)
<1>1. n \in Nat /\ height \in Nat /\ n <= height
    BY LenProperties DEF ExactType, LogExact
<1>2. CommitLast(ref[height - m], m) = run[m]
    BY DEF CommitLast
<1>3. ASSUME NEW i \in 1..m
      PROVE  ExecuteAll(ref[height - m + i - 1], changes[n - m + i].changes) = ref[height - m + i]
    <2>1. PICK p \in 1..n : p = n - m + i
        BY <1>1
    <2>2. EntryExact(changes[p], height - n + p)
        BY DEF LogExact
    <2>3. height - n + p = height - m + i /\ (height - m + i) - 1 = height - m + i - 1
        BY <1>1, <2>1
    <2>4. EntryExact(changes[p], height - m + i)
        BY <2>2, <2>3
    <2> QED
        BY <2>1, <2>3, <2>4 DEF EntryExact
<1> HIDE DEF n
<1>4. Eq(g0)
    <2>1. ASSUME NEW i \in 0..m
          PROVE  g0[i] = IF i = 0 THEN ref[height - m] ELSE ExecuteAll(g0[i - 1], changes[n - m + i].changes)
        <3>1. CASE i = 0
            BY <1>1, <3>1
        <3>2. CASE i # 0
            <4>1. i \in 1..m /\ i - 1 \in 0..m /\ height - m + (i - 1) = height - m + i - 1
                BY <1>1, <3>2
            <4>2. g0[i] = ref[height - m + i] /\ g0[i - 1] = ref[height - m + i - 1]
                BY <4>1
            <4> QED
                BY <1>3, <3>2, <4>1, <4>2
        <3> QED
            BY <3>1, <3>2
    <2> QED
        BY <2>1
<1>5. Eq(run)
    <2> HIDE DEF Eq, g0
    <2> QED
        BY <1>4
<1> HIDE DEF run
<1> DEFINE T == {i \in 0..m : run[i] = ref[height - m + i]}
<1>6. 0 \in T
    BY <1>1, <1>5
<1>7. ASSUME NEW i \in 1..m, i - 1 \in T PROVE i \in T
    <2>1. i \in 0..m /\ height - m + (i - 1) = height - m + i - 1
        BY <1>1
    <2>2. run[i - 1] = ref[height - m + i - 1]
        BY <1>7, <2>1
    <2>3. run[i] = ExecuteAll(run[i - 1], changes[n - m + i].changes)
        BY <1>5, <2>1
    <2> QED
        BY <1>3, <2>1, <2>2, <2>3
<1>8. m \in T
    <2> HIDE DEF T
    <2> QED
        BY <1>6, <1>7, UpTo
<1>9. height - m + m = height
    BY <1>1
<1> QED
    BY <1>2, <1>8, <1>9

-----------------------------------------------------------------------------
(* What a step that leaves the log and the reference alone keeps.          *)
LEMMA LogExactUntouched ==
    ASSUME LogExact, LogLong, UNCHANGED <<height, changes, ref, highest>>
    PROVE  LogExact' /\ LogLong'
BY DEF LogExact, LogLong, EntryExact

LEMMA AppendChangeExact ==
    ASSUME Client, ExactInv, NEW k \in Keys, NEW v \in Values, AppendChange(k, v)
    PROVE  ExactInv'
<1> DEFINE c == NewChange(k, v)
<1> USE DEF ExactInv
<1>1. /\ st' = UndoTemp /\ temp' = <<>> /\ panicked' = panicked
      /\ UNCHANGED <<height, seekHeight, changes, chain, commits, highest, ref>>
      /\ cached' = <<[height |-> NextHeight, changes |-> Append(CachedChanges, c)]>>
    BY DEF AppendChange, client
<1>2. cached' # <<>> /\ CachedChanges' = Append(CachedChanges, c)
    BY <1>1 DEF CachedChanges
<1>3. c \in Change /\ c.key = k /\ c.ori = st[k]
    BY DEF NewChange, Change, ExactType, State
<1> HIDE DEF c
<1>4. UndoTemp \in State
    BY RunTypes DEF UndoTemp, ExactType
<1>5. st' \in State /\ UndoTemp' = st'
    BY <1>1, <1>4, NothingRun DEF UndoTemp
<1>6. /\ CachedChanges \in Seq(Change) /\ CachedChanges' \in Seq(Change)
      /\ Len(CachedChanges') = Len(CachedChanges) + 1
      /\ \A i \in 1..Len(CachedChanges) : CachedChanges'[i] = CachedChanges[i]
      /\ CachedChanges'[Len(CachedChanges) + 1] = c
    BY <1>2, <1>3, AppendProperties DEF ExactType
<1>7. ExactType'
    <2>1. <<>> \in Seq(Change)
        OBVIOUS
    <2> QED
        BY <1>1, <1>5, <1>6, <2>1 DEF ExactType
<1>8. LogExact' /\ LogLong'
    BY <1>1, LogExactUntouched
<1>9. Placed'
    <2>1. CASE AtBest
        <3>1. AtBest' /\ st' = ref'[height']
            BY <1>1, <2>1 DEF AtBest, Placed
        <3>2. Counts(temp')
            BY <1>1 DEF Counts
        <3> QED
            BY <1>5, <3>1, <3>2 DEF Placed
    <2>2. CASE ~AtBest
        <3>1. ~AtBest' /\ st' = st
            BY <1>1, <2>2, NothingRun DEF AtBest, Placed, UndoTemp, ExactType
        <3> QED
            BY <1>1, <2>2, <3>1 DEF Placed
    <2> QED
        BY <2>1, <2>2
<1>10. CacheCaptures'
    <2> DEFINE n == Len(CachedChanges)
    <2>1. /\ n \in Nat /\ DOMAIN CachedChanges = 1..n /\ DOMAIN CachedChanges' = 1..(n + 1)
        BY <1>6, LenProperties
    <2>2. ASSUME NEW i \in 1..(n + 1), CachedChanges'[i].key \in Fields
          PROVE  CachedChanges'[i].ori = ref[height][CachedChanges'[i].key]
        <3>1. CASE i \in 1..n
            BY <1>6, <2>1, <2>2, <3>1 DEF CacheCaptures, Captures
        <3>2. CASE i = n + 1
            <4>1. k \in Fields
                BY <1>3, <1>6, <2>2, <3>2
            <4>2. AtBest
                BY <4>1, ValueAssumption DEF AppendChange, Client
            <4>3. UndoTemp = ref[height] /\ Counts(temp) /\ temp \in Seq(Change) /\ st \in State
                BY <4>2 DEF Placed, ExactType
            <4>4. RevertAll(st, temp)[k] = st[k]
                BY <4>1, <4>3, CountsKeepFields
            <4> QED
                BY <1>3, <1>6, <3>2, <4>3, <4>4 DEF UndoTemp
        <3> QED
            BY <2>1, <3>1, <3>2
    <2> QED
        BY <1>1, <2>1, <2>2 DEF CacheCaptures, Captures
<1> QED
    BY <1>1, <1>2, <1>7, <1>8, <1>9, <1>10 DEF CacheInv, Settled

LEMMA SpecialTxExact ==
    ASSUME Client, ExactInv, NEW k \in TempKeys, NEW v \in Values, SpecialTx(k, v)
    PROVE  ExactInv'
<1> DEFINE c == NewChange(k, v)
<1> USE DEF ExactInv
<1>1. k \in Keys /\ k \in Counters
    BY ValueAssumption DEF Client, Keys
<1>2. AtBest /\ cached = <<>>
    BY DEF SpecialTx, Client, Idle
<1>3. temp = <<>>
    <2>1. Len(temp) \in Nat /\ Len(temp) < 1
        BY LenProperties DEF SpecialTx, Client, ExactType
    <2> QED
        BY <2>1, EmptySeq DEF ExactType
<1>4. /\ temp' = <<c>> /\ st' = ExecuteAll(st, temp') /\ lastOp' = "special"
      /\ UNCHANGED <<height, seekHeight, changes, cached, panicked, chain, commits, highest, ref>>
    BY <1>3 DEF SpecialTx
<1>5. c \in Change /\ c.key = k /\ c.ori = st[k]
    BY <1>1 DEF NewChange, Change, ExactType, State
<1> HIDE DEF c
<1>6. temp' \in Seq(Change) /\ Counts(temp') /\ Captures(st, temp')
    BY <1>1, <1>4, <1>5 DEF Counts, Captures
<1>7. st' \in State /\ UndoTemp' = st
    BY <1>4, <1>6, RoundTrip DEF UndoTemp, ExactType
<1>8. st = ref[height]
    BY <1>2, <1>3, NothingRun DEF Placed, UndoTemp, ExactType
<1>9. CachedChanges' = CachedChanges
    BY <1>4 DEF CachedChanges
<1>10. ExactType'
    BY <1>4, <1>6, <1>7, <1>9 DEF ExactType
<1>11. LogExact' /\ LogLong'
    BY <1>4, LogExactUntouched
<1>12. Placed'
    BY <1>2, <1>4, <1>6, <1>7, <1>8 DEF Placed, AtBest
<1>13. CacheCaptures'
    BY <1>4, <1>9 DEF CacheCaptures, Captures
<1> QED
    BY <1>2, <1>4, <1>10, <1>11, <1>12, <1>13 DEF CacheInv, Settled

LEMMA SeekExactStep ==
    ASSUME Client, ExactInv, NEW h \in 0..MaxHeight, SeekTo(h)
    PROVE  ExactInv'
<1> DEFINE n == Len(changes)
<1> USE DEF ExactInv
<1>1. /\ cached = <<>> /\ temp = <<>> /\ h <= height /\ h >= height - n /\ Seek(h) /\ lastOp' = "seek"
      /\ UNCHANGED <<height, changes, cached, temp, chain, commits, highest, ref>>
      /\ seekHeight = height \/ (seekHeight < height /\ h = height)
    BY DEF SeekTo, Idle, Client
<1>2. n \in Nat /\ height \in Nat /\ seekHeight \in Nat /\ h \in Nat
    BY LenProperties, HeightAssumption DEF ExactType
<1>3. st' = ref[h] /\ seekHeight' = h /\ panicked' = panicked
    <2>1. CASE seekHeight = height
        <3>1. st = ref[height]
            BY <1>1, <1>2, <2>1, NothingRun DEF Placed, AtBest, UndoTemp, ExactType
        <3>2. PICK m \in Nat : m = height - h /\ m <= n /\ height - m = h
            BY <1>1, <1>2
        <3>3. m = Distance(h) /\ m >= 0 /\ ~(m > n)
            BY <1>2, <2>1, <3>2 DEF Distance
        <3>4. st' = RollbackLast(st, m) /\ seekHeight' = h /\ panicked' = panicked
            BY <1>1, <3>3 DEF Seek
        <3>5. RollbackLast(ref[height], m) = ref[height - m]
            BY <3>2, RollbackLastExact
        <3> QED
            BY <3>1, <3>2, <3>4, <3>5
    <2>2. CASE seekHeight < height /\ h = height
        <3>1. st = ref[seekHeight] /\ height - seekHeight <= n
            BY <1>2, <2>2 DEF Placed, AtBest
        <3>2. PICK m \in Nat : m = height - seekHeight /\ m <= n /\ height - m = seekHeight /\ m > 0
            BY <1>2, <2>2, <3>1
        <3>3. ~(Distance(h) >= 0) /\ ~(n + Distance(h) < 0) /\ -Distance(h) = m
            BY <1>2, <2>2, <3>2 DEF Distance
        <3>4. st' = CommitLast(st, m) /\ seekHeight' = h /\ panicked' = panicked
            BY <1>1, <3>3 DEF Seek
        <3>5. CommitLast(ref[height - m], m) = ref[height]
            BY <3>2, CommitLastExact
        <3> QED
            BY <2>2, <3>1, <3>2, <3>4, <3>5
    <2> QED
        BY <1>1, <2>1, <2>2
<1>4. st' \in State
    BY <1>3 DEF ExactType
<1>5. CachedChanges' = CachedChanges
    BY <1>1 DEF CachedChanges
<1>6. ExactType'
    BY <1>1, <1>2, <1>3, <1>4, <1>5 DEF ExactType
<1>7. LogExact' /\ LogLong'
    BY <1>1, LogExactUntouched
<1>8. Placed'
    <2>1. CASE h = height
        <3>1. AtBest' /\ Counts(temp') /\ UndoTemp' = st'
            BY <1>1, <1>2, <1>3, <1>4, <2>1, NothingRun DEF AtBest, Counts, UndoTemp
        <3> QED
            BY <1>1, <1>3, <2>1, <3>1 DEF Placed
    <2>2. CASE h # height
        <3>1. ~AtBest' /\ height - h <= n
            BY <1>1, <1>2, <1>3, <2>2 DEF AtBest
        <3> QED
            BY <1>1, <1>3, <3>1 DEF Placed
    <2> QED
        BY <2>1, <2>2
<1>9. CacheCaptures'
    BY <1>1, <1>5 DEF CacheCaptures, Captures
<1> QED
    BY <1>1, <1>2, <1>3, <1>6, <1>7, <1>8, <1>9 DEF CacheInv, Settled

(* The state Commit starts from: that of the best height.                  *)
LEMMA RedoExact ==
    ASSUME ExactInv, temp = <<>>
    PROVE  CommitLast(st, Redo) = ref[height]
<1> DEFINE n == Len(changes)
<1> USE DEF ExactInv
<1>1. n \in Nat /\ height \in Nat /\ seekHeight \in Nat
    BY LenProperties DEF ExactType
<1>2. PICK m \in Nat : m = Redo /\ m <= n /\ st = ref[height - m]
    <2>1. CASE AtBest
        <3>1. st = ref[height]
            BY <2>1, NothingRun DEF Placed, UndoTemp, ExactType
        <3>2. Redo = 0 /\ height - 0 = height
            BY <1>1, <2>1 DEF Redo, AtBest
        <3> QED
            BY <1>1, <3>1, <3>2
    <2>2. CASE ~AtBest
        <3>1. st = ref[seekHeight] /\ height - seekHeight <= n
            BY <2>2 DEF Placed
        <3>2. height - seekHeight \in 0..n
            BY <1>1, <2>2, <3>1 DEF AtBest
        <3>3. Redo = height - seekHeight
            BY <3>2 DEF Redo
        <3>4. height - (height - seekHeight) = seekHeight
            BY <1>1
        <3> QED
            BY <3>1, <3>2, <3>3, <3>4
    <2> QED
        BY <2>1, <2>2
<1> QED
    BY <1>2, CommitLastExact

(* The entries that stay are as they were, one place lower when the oldest *)
(* was dropped.                                                            *)
LEMMA WithinCapacityShift ==
    ASSUME ExactInv
    PROVE  \E d \in {0, 1} :
              /\ WithinCapacity \in Seq(Entry)
              /\ Len(WithinCapacity) = Len(changes) - d
              /\ d = 1 <=> Len(changes) >= Capacity
              /\ \A i \in 1..Len(WithinCapacity) : WithinCapacity[i] = changes[i + d]
<1>1. changes \in Seq(Entry) /\ Len(changes) \in Nat
    BY LenProperties DEF ExactInv, ExactType
<1>2. CASE Len(changes) >= Capacity
    <2>1. changes # <<>>
        BY <1>1, <1>2, CapacityAssumption, EmptySeq
    <2>2. /\ Tail(changes) \in Seq(Entry) /\ Len(Tail(changes)) = Len(changes) - 1
          /\ \A i \in 1..Len(Tail(changes)) : Tail(changes)[i] = changes[i + 1]
        BY <1>1, <2>1, HeadTailProperties
    <2> QED
        BY <1>2, <2>2 DEF WithinCapacity
<1>3. CASE ~(Len(changes) >= Capacity)
    <2>1. WithinCapacity = changes
        BY <1>3 DEF WithinCapacity
    <2>2. \A i \in 1..Len(changes) : changes[i] = changes[i + 0]
        BY <1>1
    <2> QED
        BY <1>1, <1>3, <2>1, <2>2
<1> QED
    BY <1>2, <1>3

LEMMA CommitBlockExact ==
    ASSUME Client, ExactInv, CommitBlock
    PROVE  ExactInv'
<1> DEFINE n == Len(changes)
           cs == CachedChanges
           log == WithinCapacity
           h == height + 1
           e == [height |-> h, changes |-> cs]
           s == ExecuteAll(ref[height], cs)
<1>1. /\ height \in Nat /\ highest \in Nat /\ n \in Nat /\ height <= highest /\ highest <= MaxHeight
      /\ chain = height /\ commits = 1 /\ cs \in Seq(Change) /\ ref \in [0..MaxHeight -> State]
    BY LenProperties DEF ExactInv, ExactType
<1>2. NextHeight = h /\ h \in Nat /\ h <= MaxHeight
    BY <1>1 DEF NextHeight, Client, CommitBlock
<1>3. temp = <<>>
    BY DEF CommitBlock, Client
<1>4. CommitEntry(h)
    BY <1>2, <1>3 DEF CommitBlock, Commit
<1>5. /\ st' = ExecuteAll(CommitLast(st, Redo), cs) /\ changes' = Append(log, e)
      /\ height' = h /\ seekHeight' = h /\ cached' = <<>> /\ temp' = temp /\ panicked' = panicked
    BY <1>4 DEF CommitEntry
<1>6. /\ ref' = [ref EXCEPT ![h] = s] /\ chain' = h /\ commits' = 1 /\ lastOp' = "block"
      /\ highest' = IF highest > h THEN highest ELSE h
    BY <1>1, <1>2 DEF CommitBlock, Client
<1>7. st' = s
    BY <1>3, <1>5, RedoExact
<1>8. ref[height] \in State /\ s \in State /\ RevertAll(s, cs) = ref[height]
    <2>1. ref[height] \in State /\ Captures(ref[height], cs)
        BY <1>1, HeightAssumption DEF ExactInv, CacheCaptures
    <2> QED
        BY <1>1, <2>1, RoundTrip
<1> HIDE DEF s, cs
<1>9. CachedChanges' = <<>>
    BY <1>5 DEF CachedChanges
<1>10. PICK d \in {0, 1} : /\ log \in Seq(Entry) /\ Len(log) = n - d /\ (d = 1 <=> n >= Capacity)
                           /\ \A i \in 1..Len(log) : log[i] = changes[i + d]
    BY WithinCapacityShift
<1>11. e \in Entry
    BY <1>1, <1>2 DEF Entry
<1>12. e.height = h /\ e.changes = cs
    OBVIOUS
<1> HIDE DEF e, log
<1>13. /\ changes' \in Seq(Entry) /\ Len(changes') = Len(log) + 1
       /\ \A i \in 1..Len(log) : changes'[i] = log[i]
       /\ changes'[Len(log) + 1] = e
    BY <1>5, <1>10, <1>11, AppendProperties
<1>14. Len(log) \in Nat /\ Len(log) <= n /\ n <= height
    BY <1>1, <1>10, LenProperties DEF ExactInv, LogExact
<1>15. /\ ref' \in [0..MaxHeight -> State] /\ ref'[h] = s
       /\ \A x \in 0..height : ref'[x] = ref[x]
    BY <1>1, <1>2, <1>6, <1>8, HeightAssumption
<1>16. ExactType'
    <2>1. <<>> \in Seq(Change)
        OBVIOUS
    <2>2. highest' \in Nat /\ h <= highest' /\ highest' <= MaxHeight
        BY <1>1, <1>2, <1>6, HeightAssumption
    <2> QED
        BY <1>2, <1>3, <1>5, <1>6, <1>7, <1>8, <1>9, <1>13, <1>15, <2>1, <2>2
        DEF ExactInv, ExactType
<1>17. LogExact'
    <2>1. Len(changes') <= height'
        BY <1>1, <1>5, <1>13, <1>14
    <2>2. ASSUME NEW i \in 1..(Len(log) + 1), NEW x \in Nat, x = height' - Len(changes') + i
          PROVE  /\ changes'[i].height = x
                 /\ ExecuteAll(ref'[x - 1], changes'[i].changes) = ref'[x]
                 /\ RevertAll(ref'[x], changes'[i].changes) = ref'[x - 1]
        <3>1. x = height - Len(log) + i
            <4>1. x = h - (Len(log) + 1) + i
                BY <1>5, <1>13, <2>2
            <4>2. PICK l \in Nat : l = Len(log)
                BY <1>14
            <4>3. (height + 1) - (l + 1) + i = height - l + i
                BY <1>1
            <4> QED
                BY <4>1, <4>2, <4>3
        <3>2. CASE i = Len(log) + 1
            <4>1. x = h /\ x - 1 = height /\ height \in 0..height
                BY <1>1, <1>14, <3>1, <3>2
            <4> QED
                BY <1>8, <1>12, <1>13, <1>15, <3>2, <4>1 DEF s
        <3>3. CASE i \in 1..Len(log)
            <4>1. i + d \in 1..n /\ height - n + (i + d) = x
                <5>1. PICK l \in Nat : l = Len(log)
                    BY <1>14
                <5>2. n \in Nat /\ height \in Nat /\ d \in {0, 1} /\ l = n - d
                      /\ i \in 1..l /\ x = height - l + i
                    BY <1>1, <1>10, <3>1, <3>3, <5>1
                <5> HIDE DEF n
                <5> QED
                    BY <5>2
            <4>2. EntryExact(changes[i + d], height - n + (i + d))
                BY <4>1 DEF ExactInv, LogExact
            <4>3. changes'[i] = changes[i + d]
                BY <1>10, <1>13, <3>3
            <4>4. x \in 0..height /\ x - 1 \in 0..height
                BY <1>1, <1>10, <1>14, <3>1, <3>3
            <4> QED
                BY <1>15, <4>1, <4>2, <4>3, <4>4 DEF EntryExact
        <3> QED
            BY <1>14, <3>2, <3>3
    <2>3. ASSUME NEW i \in 1..Len(changes')
          PROVE  EntryExact(changes[i], height - Len(changes) + i)'
        <3>1. PICK x \in Nat : x = height' - Len(changes') + i
            BY <1>2, <1>5, <1>13, <1>14, <2>1
        <3> QED
            BY <1>13, <2>2, <3>1 DEF EntryExact
    <2> QED
        BY <2>1, <2>3 DEF LogExact
<1>18. LogLong'
    <2>1. n + (highest - height) >= (IF highest < Capacity THEN highest ELSE Capacity)
        BY DEF ExactInv, LogLong
    <2>2. (Len(log) + 1) + (highest' - h) >= (IF highest' < Capacity THEN highest' ELSE Capacity)
        BY <1>1, <1>6, <1>10, <1>14, <2>1, CapacityAssumption
    <2> QED
        BY <1>5, <1>13, <2>2 DEF LogLong
<1>19. Placed'
    <2>1. AtBest' /\ Counts(temp') /\ UndoTemp' = st'
        BY <1>2, <1>3, <1>5, <1>7, <1>8, NothingRun DEF AtBest, Counts, UndoTemp
    <2> QED
        BY <1>5, <1>7, <1>15, <2>1 DEF Placed
<1>20. CacheCaptures'
    BY <1>9 DEF CacheCaptures, Captures
<1> QED
    BY <1>2, <1>3, <1>5, <1>16, <1>17, <1>18, <1>19, <1>20 DEF ExactInv, CacheInv, Settled, AtBest

LEMMA RollbackExactStep ==
    ASSUME Client, ExactInv, NEW h \in 0..MaxHeight, Rollback(h)
    PROVE  ExactInv'
<1> DEFINE n == Len(changes)
           above == Above(h)
           cut == IF above = {} THEN Len(changes) ELSE Min(above) - 1
<1>1. /\ height \in Nat /\ highest \in Nat /\ seekHeight \in Nat /\ n \in Nat /\ n <= height
      /\ height <= highest /\ chain = height /\ changes \in Seq(Entry) /\ DOMAIN changes = 1..n
    BY LenProperties DEF ExactInv, ExactType, LogExact
<1>2. /\ cached = <<>> /\ h < height /\ h >= highest - MaxRollback /\ h \in Nat /\ AtBest
      /\ chain' = h /\ lastOp' = "rollback" /\ UNCHANGED <<commits, highest, ref>>
    BY <1>1, HeightAssumption DEF Rollback, Idle, Client
<1>3. RollbackTo(h)
    BY <1>1, <1>2 DEF Rollback
<1>4. PICK d \in Nat : d = height - h /\ d \in 1..n
    <2>1. n + (highest - height) >= (IF highest < Capacity THEN highest ELSE Capacity)
        BY DEF ExactInv, LogLong
    <2>2. height - h <= n
        BY <1>1, <1>2, <2>1, CapacityAssumption DEF Client
    <2> QED
        BY <1>1, <1>2, <2>2
<1>5. \A i \in 1..n : i \in above <=> i >= n - d + 1
    <2> SUFFICES ASSUME NEW i \in 1..n PROVE i \in above <=> i >= n - d + 1
        OBVIOUS
    <2>1. changes[i].height = height - n + i
        BY DEF ExactInv, LogExact, EntryExact
    <2>2. height - n + i > h <=> i >= n - d + 1
        BY <1>1, <1>2, <1>4
    <2> QED
        BY <1>1, <2>1, <2>2 DEF Above
<1>6. cut = n - d
    <2>1. n - d + 1 \in 1..n
        BY <1>1, <1>4
    <2>2. n - d + 1 \in above /\ above \in SUBSET Nat /\ above \subseteq 1..n
        BY <1>1, <1>5, <2>1 DEF Above
    <2> HIDE DEF above
    <2>3. Min(above) \in above /\ \A y \in above : Min(above) <= y
        BY <2>2, MinProperties
    <2>4. Min(above) \in 1..n /\ Min(above) >= n - d + 1 /\ Min(above) <= n - d + 1
        BY <1>5, <2>2, <2>3
    <2>5. Min(above) = n - d + 1
        BY <1>1, <1>4, <2>4
    <2>6. cut = Min(above) - 1
        BY <2>2
    <2> HIDE DEF cut
    <2> QED
        BY <1>1, <1>4, <2>5, <2>6
<1>7. /\ st' = RollbackLast(UndoTemp, n - cut) /\ changes' = SubSeq(changes, 1, cut)
      /\ height' = h /\ temp' = <<>> /\ UNCHANGED <<seekHeight, cached, panicked>>
    BY <1>3 DEF RollbackTo
<1> HIDE DEF cut, above
<1>8. n - cut = d /\ cut \in Nat /\ cut <= n
    BY <1>1, <1>4, <1>6
<1>9. st' = ref[h]
    <2>1. UndoTemp = ref[height]
        BY <1>2 DEF ExactInv, Placed
    <2>2. RollbackLast(ref[height], d) = ref[height - d]
        BY <1>4, RollbackLastExact DEF ExactInv
    <2>3. height - d = h
        BY <1>1, <1>2, <1>4
    <2> QED
        BY <1>7, <1>8, <2>1, <2>2, <2>3
<1>10. st' \in State
    BY <1>9 DEF ExactInv, ExactType
<1>11. /\ changes' \in Seq(Entry) /\ Len(changes') = cut
       /\ \A i \in 1..cut : changes'[i] = changes[i]
    <2>1. \A i \in 1..cut : changes[i] \in Entry
        BY <1>1, <1>8, ElementOfSeq
    <2>2. /\ SubSeq(changes, 1, cut) \in Seq(Entry)
          /\ Len(SubSeq(changes, 1, cut)) = IF 1 <= cut THEN cut - 1 + 1 ELSE 0
          /\ \A i \in 1..(cut - 1 + 1) : SubSeq(changes, 1, cut)[i] = changes[1 + i - 1]
        BY <1>8, <2>1, SubSeqProperties
    <2> QED
        BY <1>7, <1>8, <2>2
<1>12. CachedChanges' = CachedChanges
    BY <1>7 DEF CachedChanges
<1>13. ExactType'
    <2>1. <<>> \in Seq(Change)
        OBVIOUS
    <2>2. h <= highest
        BY <1>1, <1>2
    <2> QED
        BY <1>2, <1>7, <1>10, <1>11, <1>12, <2>1, <2>2 DEF ExactInv, ExactType
<1>14. LogExact'
    <2>1. Len(changes') <= height'
        BY <1>1, <1>2, <1>4, <1>6, <1>7, <1>11
    <2>2. ASSUME NEW i \in 1..Len(changes')
          PROVE  EntryExact(changes[i], height - Len(changes) + i)'
        <3>1. i \in 1..n /\ i \in 1..cut /\ height' - Len(changes') + i = height - n + i
            <4>1. i \in 1..cut /\ height' - Len(changes') + i = h - cut + i
                BY <1>7, <1>11
            <4>2. PICK l \in Nat : l = n
                BY <1>1
            <4>3. h - (l - d) + i = height - l + i /\ i \in 1..l
                BY <1>1, <1>2, <1>4, <1>8, <4>1, <4>2
            <4> QED
                BY <1>6, <4>1, <4>2, <4>3
        <3>2. PICK x : x = height - n + i
            OBVIOUS
        <3>3. EntryExact(changes[i], x)
            BY <3>1, <3>2 DEF ExactInv, LogExact
        <3>4. changes'[i] = changes[i] /\ height' - Len(changes') + i = x
            BY <1>11, <3>1, <3>2
        <3> QED
            BY <1>2, <3>3, <3>4 DEF EntryExact
    <2> QED
        BY <2>1, <2>2 DEF LogExact
<1>15. LogLong'
    <2>1. n + (highest - height) >= (IF highest < Capacity THEN highest ELSE Capacity)
        BY DEF ExactInv, LogLong
    <2>2. cut + (highest - h) = n + (highest - height)
        BY <1>1, <1>2, <1>4, <1>6
    <2> QED
        BY <1>2, <1>7, <1>11, <2>1, <2>2 DEF LogLong
<1>16. Placed'
    <2>1. AtBest' /\ Counts(temp') /\ UndoTemp' = st'
        BY <1>1, <1>2, <1>7, <1>10, NothingRun DEF AtBest, Counts, UndoTemp
    <2> QED
        BY <1>2, <1>7, <1>9, <2>1 DEF Placed
<1>17. CacheCaptures'
    <2>1. CachedChanges' = <<>>
        BY <1>2, <1>12 DEF CachedChanges
    <2> QED
        BY <2>1 DEF CacheCaptures, Captures
<1> QED
    BY <1>1, <1>2, <1>7, <1>13, <1>14, <1>15, <1>16, <1>17 DEF ExactInv, CacheInv, Settled, AtBest

-----------------------------------------------------------------------------
LEMMA ExactInit ==
    ASSUME Client, Init
    PROVE  ExactInv
<1>1. /\ st \in State /\ st = [x \in Keys |-> 0] /\ height = 0 /\ seekHeight = 0 /\ highest = 0 /\ chain = 0
      /\ commits = 1 /\ panicked = FALSE
      /\ changes = <<>> /\ cached = <<>> /\ temp = <<>> /\ lastOp = "init"
      /\ ref = [x \in 0..MaxHeight |-> st]
    BY DEF Init, Client, State
<1>2. /\ <<>> \in Seq(Change) /\ <<>> \in Seq(Entry) /\ Len(<<>>) = 0 /\ CachedChanges = <<>>
      /\ 0 \in 0..MaxHeight
    BY <1>1, HeightAssumption DEF CachedChanges
<1>3. ExactType
    BY <1>1, <1>2, HeightAssumption DEF ExactType
<1>4. LogExact /\ LogLong
    BY <1>1, <1>2, CapacityAssumption DEF LogExact, LogLong
<1>5. AtBest /\ Counts(temp) /\ UndoTemp = st /\ st = ref[height]
    BY <1>1, <1>2, NothingRun DEF AtBest, Counts, UndoTemp
<1> QED
    BY <1>1, <1>2, <1>3, <1>4, <1>5 DEF ExactInv, Placed, CacheInv, CacheCaptures, Captures, Settled

LEMMA ExactStep ==
    ASSUME Client, ExactInv, [Next]_vars
    PROVE  ExactInv'
<1>1. ASSUME NEW k \in Keys, NEW v \in Values, AppendChange(k, v) PROVE ExactInv'
    BY <1>1, AppendChangeExact
<1>2. CASE CommitBlock
    BY <1>2, CommitBlockExact
<1>3. ASSUME NEW k \in TempKeys, NEW v \in Values, SpecialTx(k, v) PROVE ExactInv'
    BY <1>3, SpecialTxExact
<1>4. ASSUME NEW h \in 0..MaxHeight, SeekTo(h) PROVE ExactInv'
    BY <1>4, SeekExactStep
<1>5. ASSUME NEW h \in 0..MaxHeight, Rollback(h) PROVE ExactInv'
    BY <1>5, RollbackExactStep
<1>6. CASE UNCHANGED vars
    <2>1. UNCHANGED <<st, height, seekHeight, changes, cached, temp, panicked, chain, commits, highest, ref, lastOp>>
        BY <1>6 DEF vars, hist, client
    <2> QED
        BY <2>1, LogExactUntouched
        DEF ExactInv, ExactType, CachedChanges, Placed, AtBest, UndoTemp, CacheInv, CacheCaptures, Captures, Settled
<1> QED
    BY <1>1, <1>2, <1>3, <1>4, <1>5, <1>6 DEF Next

LEMMA ExactGives == ExactInv => BlockStateExact /\ RollbackExact /\ SeekExact
<1> SUFFICES ASSUME ExactInv, cached = <<>> PROVE BlockStateExact /\ RollbackExact /\ SeekExact
    BY DEF BlockStateExact, RollbackExact, SeekExact, Idle
<1>1. ASSUME temp = <<>>, AtBest PROVE st = ref[height]
    BY <1>1, NothingRun DEF ExactInv, ExactType, Placed, UndoTemp
<1>2. chain = height /\ height \in Nat /\ seekHeight \in Nat
    BY DEF ExactInv, ExactType
<1>3. ASSUME temp = <<>>, seekHeight <= height PROVE st = ref[seekHeight]
    <2>1. CASE AtBest
        BY <1>1, <1>2, <1>3, <2>1 DEF AtBest
    <2>2. CASE ~AtBest
        BY <2>2 DEF ExactInv, Placed
    <2> QED
        BY <2>1, <2>2
<1> QED
    BY <1>1, <1>2, <1>3 DEF ExactInv, Settled, BlockStateExact, RollbackExact, SeekExact

\* Once a block is committed the state is the one the chain defines, whatever
\* was sought, taken back or processed for a special transaction before, for a
\* client as described and a log of any capacity (Commit).
THEOREM CommitIsExact == ASSUME Client PROVE Spec => []BlockStateExact
<1>1. Init => ExactInv
    BY ExactInit
<1>2. ExactInv /\ [Next]_vars => ExactInv'
    BY ExactStep
<1>3. ExactInv => BlockStateExact
    BY ExactGives
<1> QED
    BY <1>1, <1>2, <1>3, PTL DEF Spec

\* RollbackTo restores the state of the height, although a height's changes
\* are undone in the order of appending and the oldest entries are dropped.
THEOREM RollbackIsExact == ASSUME Client PROVE Spec => []RollbackExact
<1>1. Init => ExactInv
    BY ExactInit
<1>2. ExactInv /\ [Next]_vars => ExactInv'
    BY ExactStep
<1>3. ExactInv => RollbackExact
    BY ExactGives
<1> QED
    BY <1>1, <1>2, <1>3, PTL DEF Spec

\* SeekTo gives the state of the height sought, there and back, although it
\* counts entries from the end of the log.
THEOREM SeekIsExact == ASSUME Client PROVE Spec => []SeekExact
<1>1. Init => ExactInv
    BY ExactInit
<1>2. ExactInv /\ [Next]_vars => ExactInv'
    BY ExactStep
<1>3. ExactInv => SeekExact
    BY ExactGives
<1> QED
    BY <1>1, <1>2, <1>3, PTL DEF Spec

=============================================================================
