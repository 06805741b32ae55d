-------------------------- MODULE CheckpointProofs --------------------------
(***************************************************************************)
(* The default file of a checkpoint is whole and old enough, the snapshot  *)
(* that is to become it is still there, and the states derived from blocks *)
(* follow the chain: for every number of checkpoints, every start height   *)
(* and period, and any number of reorganizations and crashes.              *)
(***************************************************************************)
EXTENDS Checkpoint, SequenceTheorems, WellFoundedInduction, NaturalsInduction, TLAPS

IsMessage(m) ==
    /\ m = [f \in DOMAIN m |-> m[f]] /\ {"op", "point", "height"} \subseteq DOMAIN m
    /\ m.point \in Keys /\ m.height \in Heights

Types ==
    /\ chain \in Seq(Nat) /\ Settled <= Best /\ Best <= MaxHeight
    /\ forks \in Nat /\ highest \in Nat /\ Best <= highest
    /\ todo \in Seq(Keys) /\ height \in [Keys -> Heights] /\ up \in BOOLEAN

Shapes ==
    /\ loop = [p \in Keys |-> loop[p]]
    /\ default = [p \in Keys |-> default[p]]
    /\ files = [p \in Keys |-> [h \in Heights |-> files[p][h]]]

Writing(p) == loop[p].op \in {"create", "write"}
Replacing(p) == loop[p].op \in {"replace", "rename"}
Queued(p) == \E i \in 1..Len(sends) : sends[i].op = "create" /\ sends[i].point = p

(* Nothing is torn but the file being written and files that a process     *)
(* that ended left behind.                                                 *)
Sound(p, h) == files[p][h] # Torn \/ (Writing(p) /\ loop[p].height = h)

FilesOK(p) ==
    \A h \in Heights : \/ files[p][h] \in {None, Torn}
                       \/ files[p][h].complete = TRUE /\ files[p][h].height = h

(* A goroutine replaces by a whole file; and one that Restore will load is *)
(* below any that is being written.                                        *)
LoopOK(p) ==
    \/ loop[p] = Idle
    \/ /\ IsMessage(loop[p])
       /\ loop[p].op \in {"create", "write", "clean", "replace", "rename"}
       /\ Writing(p) /\ p \notin Skipped => default[p].height < loop[p].height
       /\ Replacing(p) =>
            /\ loop[p].height + Effective[p] <= highest /\ loop[p].height <= height[p]
            /\ files[p][loop[p].height] # Torn
       /\ loop[p].op = "rename" => files[p][loop[p].height] # None

DefaultOK(p) ==
    /\ default[p].height \in Heights
    /\ default[p] # None =>
         /\ default[p].complete = TRUE /\ default[p].height + Effective[p] <= highest
         /\ p \notin Skipped => files[p][default[p].height] # Torn

(* The last snapshot is on its way to the disk, or not torn.               *)
HeightOK(p) ==
    up => /\ height[p] > 0 => Sound(p, height[p]) \/ Queued(p)
          /\ p \notin Skipped => default[p].height <= height[p]

ReplaceOK(m) ==
    /\ IsMessage(m) /\ m.op = "replace"
    /\ m.height + Effective[m.point] <= highest /\ m.height <= height[m.point]
    /\ Sound(m.point, m.height)

(* The default file, now and soon, is below height h.                      *)
Below(p, h) ==
    /\ p \notin Skipped => default[p].height < h
    /\ Replacing(p) => loop[p].height < h

CreateOK(m) ==
    /\ IsMessage(m) /\ m.op = "create" /\ m.height = height[m.point]
    /\ Below(m.point, m.height)

SendsOK ==
    \/ sends = <<>>
    \/ sends = <<sends[1]>> /\ (ReplaceOK(sends[1]) \/ CreateOK(sends[1]))
    \/ /\ sends = <<sends[1], sends[2]>> /\ ReplaceOK(sends[1]) /\ CreateOK(sends[2])
       /\ sends[1].point = sends[2].point /\ sends[1].height < sends[2].height

DownOK == ~up => sends = <<>> /\ todo = <<>> /\ \A p \in Keys : loop[p] = Idle

SaveInv ==
    /\ Types /\ Shapes /\ SendsOK /\ DownOK
    /\ \A p \in Keys : FilesOK(p) /\ LoopOK(p) /\ DefaultOK(p) /\ HeightOK(p)

-----------------------------------------------------------------------------
(* The constants, one by one.                                              *)
LEMMA Constants ==
    /\ Points \in Seq(Keys) /\ Settled \in Nat \ {0} /\ MaxHeight \in Nat /\ Settled <= MaxHeight
    /\ \A p \in Keys : Period[p] \in Nat \ {0} /\ Effective[p] \in Nat \ {0}
<1>1. VoteStart \in Nat /\ Settled \in Nat /\ MaxHeight \in Nat
    BY SettledAssumption
<1>2. Period \in [Keys -> Nat \ {0}] /\ Effective \in [Keys -> Nat \ {0}]
    BY PeriodAssumption
<1> QED
    BY <1>1, <1>2, PeriodAssumption, SettledAssumption

(* No file, a torn one and a snapshot are told apart.                      *)
LEMMA FileKinds ==
    /\ None # Torn /\ None.complete = FALSE /\ Torn.complete = FALSE /\ None.height = 0
    /\ \A h, bs : Snapshot(h, bs).complete = TRUE /\ Snapshot(h, bs).height = h
BY DEF None, Torn, Snapshot

(* The next operation of a goroutine is on the same file.                  *)
LEMMA NextOperation ==
    ASSUME NEW m, IsMessage(m), NEW op
    PROVE  LET r == [m EXCEPT !.op = op]
           IN  IsMessage(r) /\ r.op = op /\ r.height = m.height /\ r.point = m.point
BY DEF IsMessage

(* Restore loads the file of the one checkpoint that is not skipped, if    *)
(* there is one.                                                           *)
LEMMA RestoredHeight ==
    ASSUME NEW p \in Keys
    PROVE  HeightAfterRestore(p) =
               IF p \notin Skipped /\ default[p].complete THEN default[p].height ELSE 0
<1>1. CASE p \in Skipped
    BY <1>1 DEF HeightAfterRestore, Restored
<1>2. CASE p \notin Skipped /\ default[p].complete
    <2>1. \A i \in DOMAIN Points : \A j \in 1..i : Points[j] \in Keys
        BY Constants
    <2>2. p \in Restored
        BY <1>2, <2>1, RestoreAssumption DEF Restored, Loadable
    <2> QED
        BY <1>2, <2>2 DEF HeightAfterRestore
<1>3. CASE p \notin Skipped /\ ~default[p].complete
    <2>1. PICK i \in DOMAIN Points : Points[i] = p
        BY DEF Keys, Range
    <2>2. i \in 1..i
        BY <2>1, Constants
    <2>3. p \notin Restored
        BY <1>3, <2>1, <2>2 DEF Restored, Loadable
    <2> QED
        BY <1>3, <2>3 DEF HeightAfterRestore
<1> QED
    BY <1>1, <1>2, <1>3

LEMMA InitSave == Init => SaveInv
<1> SUFFICES ASSUME Init PROVE SaveInv
    OBVIOUS
<1>1. Best = Settled /\ chain \in Seq(Nat)
    <2>1. chain = [h \in 1..Settled |-> 0]
        BY DEF Init
    <2> QED
        BY <2>1, Constants, IsASeq, LenProperties DEF Best
<1>2. Types
    <2>1. up \in BOOLEAN /\ todo \in Seq(Keys)
        BY EmptySeq DEF Init
    <2>2. height \in [Keys -> Heights]
        BY Constants DEF Init, Heights
    <2>3. forks \in Nat /\ highest = Settled
        BY DEF Init
    <2> QED
        BY <1>1, <2>1, <2>2, <2>3, Constants DEF Types
<1>3. Shapes
    BY DEF Init, Shapes
<1>4. \A p \in Keys : FilesOK(p) /\ LoopOK(p) /\ DefaultOK(p) /\ HeightOK(p)
    BY FileKinds, Constants DEF Init, FilesOK, LoopOK, DefaultOK, HeightOK, Heights
<1> QED
    BY <1>2, <1>3, <1>4 DEF Init, SaveInv, SendsOK, DownOK

-----------------------------------------------------------------------------
(* Steps of the chain leave files and goroutines alone; the greatest       *)
(* height there was only grows.                                            *)
LEMMA ChainStep ==
    ASSUME SaveInv, Types', DownOK', UNCHANGED <<height, sends, loop, files, default, up>>,
           highest <= highest'
    PROVE  SaveInv'
<1> USE DEF SaveInv
<1>1. Shapes'
    BY DEF Shapes
<1>2. \A p \in Keys : Effective[p] \in Nat /\ \A h \in Heights :
          h + Effective[p] <= highest => h + Effective[p] <= highest'
    BY Constants DEF Types, Heights
<1>3. ASSUME NEW p \in Keys
      PROVE  FilesOK(p)' /\ LoopOK(p)' /\ DefaultOK(p)' /\ HeightOK(p)'
    <2>1. FilesOK(p)'
        BY DEF FilesOK
    <2>2. LoopOK(p)'
        BY <1>2 DEF LoopOK, IsMessage, Writing, Replacing
    <2>3. DefaultOK(p)'
        BY <1>2 DEF DefaultOK
    <2>4. HeightOK(p)'
        BY DEF HeightOK, Sound, Writing, Queued
    <2> QED
        BY <2>1, <2>2, <2>3, <2>4
<1>4. ASSUME NEW m, ReplaceOK(m) PROVE ReplaceOK(m)'
    BY <1>2, <1>4 DEF ReplaceOK, IsMessage, Sound, Writing
<1>5. ASSUME NEW m, CreateOK(m) PROVE CreateOK(m)'
    BY <1>5 DEF CreateOK, Below, Replacing, IsMessage
<1>6. SendsOK'
    BY <1>4, <1>5 DEF SendsOK
<1> QED
    BY <1>1, <1>3, <1>6

LEMMA ConnectSave == SaveInv /\ Connect => SaveInv'
<1> SUFFICES ASSUME SaveInv, Connect PROVE SaveInv'
    OBVIOUS
<1>1. Best \in Nat /\ highest \in Nat /\ chain' \in Seq(Nat) /\ Best' = Best + 1
    BY AppendProperties, LenProperties DEF SaveInv, Types, Connect, Best
<1>2. highest' \in {highest, Best + 1} /\ highest <= highest' /\ Best + 1 <= highest'
    <2>1. PICK k \in {highest, Best + 1} : \A y \in {highest, Best + 1} : k >= y
        BY <1>1
    <2> QED
        BY <2>1, Zenon DEF Connect, Max
<1>3. Types'
    BY <1>1, <1>2, Constants DEF SaveInv, Types, Connect
<1>4. DownOK'
    BY DEF Connect, Ready, DownOK
<1> QED
    BY <1>2, <1>3, <1>4, ChainStep DEF Connect, disk

LEMMA DetachSave == SaveInv /\ Detach => SaveInv'
<1> SUFFICES ASSUME SaveInv, Detach PROVE SaveInv'
    OBVIOUS
<1>1. Best \in Nat /\ Best > Settled /\ Settled \in Nat
    BY Constants, LenProperties DEF SaveInv, Types, Best, Detach
<1>2. chain' \in Seq(Nat) /\ Best' = Best - 1
    <2>1. chain' = SubSeq(chain, 1, Len(chain) - 1)
        BY DEF Detach, Front
    <2>2. chain \in Seq(Nat) /\ Len(chain) \in Nat /\ Len(chain) > 0
        BY <1>1 DEF SaveInv, Types, Best
    <2>3. \A i \in 1..(Len(chain) - 1) : chain[i] \in Nat
        BY <2>2, ElementOfSeq
    <2>4. SubSeq(chain, 1, Len(chain) - 1) = [i \in 1..(Len(chain) - 1) |-> chain[i]]
        BY <2>2
    <2>5. chain' \in Seq(Nat)
        BY <2>1, <2>2, <2>3, <2>4, IsASeq
    <2>6. Len(chain') = Len(chain) - 1
        <3>1. Len(chain') \in Nat /\ DOMAIN chain' = 1..Len(chain')
            BY <2>5, LenProperties
        <3>2. DOMAIN chain' = 1..(Len(chain) - 1)
            BY <2>1, <2>4
        <3> QED
            BY <2>2, <3>1, <3>2
    <2> QED
        BY <2>5, <2>6 DEF Best
<1>3. Types'
    <2>1. UNCHANGED <<forks, highest, todo, height, up>>
        BY DEF Detach
    <2>2. Best <= MaxHeight /\ Best <= highest /\ MaxHeight \in Nat /\ highest \in Nat
        BY Constants DEF SaveInv, Types
    <2> QED
        BY <1>1, <1>2, <2>1, <2>2 DEF SaveInv, Types
<1>4. DownOK'
    BY DEF Detach, Ready, DownOK
<1>5. highest <= highest'
    BY DEF Detach, SaveInv, Types
<1> QED
    BY <1>3, <1>4, <1>5, ChainStep DEF Detach, disk

LEMMA IdleSave == SaveInv /\ (SetNeedSave \/ Fork \/ UNCHANGED vars) => SaveInv'
<1> SUFFICES ASSUME SaveInv, SetNeedSave \/ Fork \/ UNCHANGED vars PROVE SaveInv'
    OBVIOUS
<1>1. UNCHANGED <<chain, height, todo, sends, loop, files, default, up, highest>>
    BY DEF SetNeedSave, Fork, vars, memory, disk
<1>2. forks' \in Nat
    BY DEF SaveInv, Types, SetNeedSave, Fork, vars
<1>3. Types' /\ DownOK'
    BY <1>1, <1>2 DEF SaveInv, Types, DownOK, Best
<1>4. highest <= highest'
    BY <1>1 DEF SaveInv, Types
<1> QED
    BY <1>1, <1>3, <1>4, ChainStep

-----------------------------------------------------------------------------
(* Two messages after each other.                                          *)
LEMMA Pair ==
    ASSUME NEW r, NEW c
    PROVE  <<r>> \o <<c>> = <<r, c>>
<1>1. <<r>> \in Seq({r, c}) /\ <<c>> \in Seq({r, c}) /\ <<r, c>> \in Seq({r, c})
    OBVIOUS
<1>2. PICK s : s = <<r>> \o <<c>>
    OBVIOUS
<1>3. PICK t : t = <<r, c>>
    OBVIOUS
<1>4. s \in Seq({r, c}) /\ Len(s) = 2 /\ s[1] = r /\ s[2] = c
    BY <1>1, <1>2, ConcatProperties
<1>5. t \in Seq({r, c}) /\ Len(t) = 2 /\ t[1] = r /\ t[2] = c
    BY <1>1, <1>3
<1>6. s = t
    BY <1>4, <1>5, SeqEqual
<1> QED
    BY <1>2, <1>3, <1>6

(* onBlockSaved asks to replace by the last snapshot, which is on disk or  *)
(* on its way, and to create a greater one.                                *)
LEMMA MessageKinds ==
    ASSUME NEW p, NEW bs, NEW r, NEW c,
           r = [op |-> "replace", point |-> p, height |-> height[p]],
           c = [op |-> "create", point |-> p, height |-> Best, blocks |-> bs]
    PROVE  /\ ReplaceDue(p) /\ SaveDue(p) => Messages(p, bs) = <<r, c>>
           /\ ReplaceDue(p) /\ ~SaveDue(p) => Messages(p, bs) = <<r>>
           /\ ~ReplaceDue(p) /\ SaveDue(p) => Messages(p, bs) = <<c>>
           /\ ~ReplaceDue(p) /\ ~SaveDue(p) => Messages(p, bs) = <<>>
<1>1. ReplaceDue(p) /\ SaveDue(p) => Messages(p, bs) = <<r, c>>
    BY Pair DEF Messages
<1>2. ReplaceDue(p) /\ ~SaveDue(p) => Messages(p, bs) = <<r>>
    BY DEF Messages
<1>3. ~ReplaceDue(p) /\ SaveDue(p) => Messages(p, bs) = <<c>>
    BY DEF Messages
<1>4. ~ReplaceDue(p) /\ ~SaveDue(p) => Messages(p, bs) = <<>>
    BY DEF Messages
<1> QED
    BY <1>1, <1>2, <1>3, <1>4

LEMMA ProcessPointSave == SaveInv /\ ProcessPoint => SaveInv'
<1> SUFFICES ASSUME SaveInv, ProcessPoint PROVE SaveInv'
    OBVIOUS
<1>a. PICK p : p = Head(todo)
    OBVIOUS
<1>b. PICK bs : bs = OnBlockSaved(p, applied[p], Block(Best))
    OBVIOUS
<1>c. PICK r : r = [op |-> "replace", point |-> p, height |-> height[p]]
    OBVIOUS
<1>d. PICK c : c = [op |-> "create", point |-> p, height |-> Best, blocks |-> bs]
    OBVIOUS
<1>e. PICK live \in BOOLEAN : live = (needSave /\ Best >= Start[p])
    OBVIOUS
<1>1. /\ up /\ todo # <<>> /\ sends = <<>>
      /\ sends' = IF live THEN Messages(p, bs) ELSE <<>>
      /\ height' = IF live /\ SaveDue(p) THEN [height EXCEPT ![p] = Best] ELSE height
      /\ todo' = Tail(todo)
      /\ UNCHANGED <<chain, loop, files, default, up, forks, highest>>
    BY <1>a, <1>b, <1>e DEF ProcessPoint, disk
<1>2. p \in Keys /\ todo' \in Seq(Keys)
    BY <1>a, <1>1, HeadTailProperties DEF SaveInv, Types
<1>3. /\ Best \in Nat /\ Best \in Heights /\ Best > 0 /\ highest \in Nat /\ Best <= highest
      /\ Period[p] \in Nat \ {0} /\ Effective[p] \in Nat \ {0}
      /\ height \in [Keys -> Heights] /\ height[p] \in Nat /\ height[p] \in Heights
    BY <1>2, Constants, LenProperties DEF SaveInv, Types, Best, Heights
<1>4. /\ height' \in [Keys -> Heights]
      /\ \A q \in Keys : height[q] <= height'[q] /\ (q # p => height'[q] = height[q])
      /\ height'[p] # height[p] => height'[p] = Best
    <2>1. SaveDue(p) => Best >= height[p]
        BY <1>3 DEF SaveDue
    <2>2. \A q \in Keys : height[q] \in Nat
        BY <1>3, Constants DEF Heights
    <2> QED
        BY <1>1, <1>2, <1>3, <2>1, <2>2
<1>5. Types' /\ Shapes' /\ DownOK'
    <2>1. Best' = Best
        BY <1>1 DEF Best
    <2> QED
        BY <1>1, <1>2, <1>4, <2>1 DEF SaveInv, Types, Shapes, DownOK
<1>6. Sound(p, height[p]) \/ height[p] = 0
    <2>1. ~Queued(p)
        BY <1>1 DEF Queued
    <2> QED
        BY <1>1, <1>2, <1>3, <2>1 DEF SaveInv, HeightOK
<1>7. ReplaceDue(p) => ReplaceOK(r)'
    <2>1. SUFFICES ASSUME ReplaceDue(p) PROVE ReplaceOK(r)'
        OBVIOUS
    <2>2. IsMessage(r)
        BY <1>c, <1>2, <1>3 DEF IsMessage
    <2>3. height[p] > 0 /\ height[p] + Effective[p] <= highest
        BY <1>3, <2>1 DEF ReplaceDue
    <2>4. Sound(p, r.height)'
        BY <1>c, <1>1, <1>3, <1>6, <2>3 DEF Sound, Writing
    <2>5. r.op = "replace" /\ r.point = p /\ r.height = height[p]
        BY <1>c
    <2> QED
        BY <1>1, <1>2, <1>4, <2>2, <2>3, <2>4, <2>5 DEF ReplaceOK, IsMessage
<1>8. live /\ SaveDue(p) => CreateOK(c)' /\ height[p] < Best /\ height'[p] = Best
    <2>1. SUFFICES ASSUME live, SaveDue(p) PROVE CreateOK(c)' /\ height[p] < Best /\ height'[p] = Best
        OBVIOUS
    <2>2. IsMessage(c)
        BY <1>d, <1>2, <1>3 DEF IsMessage
    <2>3. height[p] < Best /\ height'[p] = Best
        BY <1>1, <1>2, <1>3, <2>1 DEF SaveDue
    <2>4. p \notin Skipped => default[p].height < Best
        BY <1>1, <1>2, <1>3, <2>3 DEF SaveInv, HeightOK, DefaultOK, Heights
    <2>5. Replacing(p) => loop[p].height < Best
        <3>1. Replacing(p) => loop[p].height \in Heights /\ loop[p].height <= height[p]
            <4>1. Idle.op = "idle"
                BY DEF Idle
            <4>2. LoopOK(p)
                BY <1>2 DEF SaveInv
            <4> QED
                BY <4>1, <4>2 DEF LoopOK, IsMessage, Replacing
        <3> QED
            BY <1>3, <2>3, <3>1, Constants DEF Heights
    <2>6. c.op = "create" /\ c.point = p /\ c.height = Best
        BY <1>d
    <2> QED
        BY <1>1, <2>2, <2>3, <2>4, <2>5, <2>6 DEF CreateOK, Below, Replacing, IsMessage
<1>9. SendsOK'
    <2>1. \/ sends' = <<>>
          \/ sends' = <<r>> /\ ReplaceDue(p)
          \/ sends' = <<c>> /\ live /\ SaveDue(p)
          \/ sends' = <<r, c>> /\ ReplaceDue(p) /\ live /\ SaveDue(p)
        BY <1>c, <1>d, <1>1, MessageKinds
    <2>4. r.point = c.point /\ r.height = height[p] /\ c.height = Best
        BY <1>c, <1>d
    <2>5. CASE sends' = <<>>
        BY <2>5 DEF SendsOK
    <2>6. CASE sends' = <<r>> /\ ReplaceDue(p)
        BY <1>7, <2>6 DEF SendsOK
    <2>7. CASE sends' = <<c>> /\ live /\ SaveDue(p)
        BY <1>8, <2>7 DEF SendsOK
    <2>8. CASE sends' = <<r, c>> /\ ReplaceDue(p) /\ live /\ SaveDue(p)
        BY <1>7, <1>8, <2>4, <2>8 DEF SendsOK
    <2> QED
        BY <2>1, <2>5, <2>6, <2>7, <2>8
<1>10. ASSUME NEW q \in Keys
       PROVE  FilesOK(q)' /\ LoopOK(q)' /\ DefaultOK(q)' /\ HeightOK(q)'
    <2>1. FilesOK(q)'
        BY <1>1 DEF SaveInv, FilesOK
    <2>2. LoopOK(q)'
        <3>1. \A k \in Heights : k <= height[q] => k <= height'[q]
            BY <1>3, <1>4, Constants DEF Heights
        <3> QED
            BY <1>1, <3>1 DEF SaveInv, LoopOK, IsMessage, Writing, Replacing
    <2>3. DefaultOK(q)'
        BY <1>1 DEF SaveInv, DefaultOK
    <2>4. HeightOK(q)'
        <3>1. ~Queued(q)
            BY <1>1 DEF Queued
        <3>2. q \notin Skipped => default[q].height <= height'[q]
            BY <1>1, <1>3, <1>4, Constants DEF SaveInv, HeightOK, DefaultOK, Heights
        <3>3. CASE height'[q] = height[q]
            BY <1>1, <3>1, <3>2, <3>3 DEF SaveInv, HeightOK, Sound, Writing
        <3>4. CASE height'[q] # height[q]
            <4>1. q = p /\ live /\ SaveDue(p)
                BY <1>1, <1>4, <3>4
            <4>2. sends' = <<c>> \/ sends' = <<r, c>>
                BY <1>c, <1>d, <1>1, <4>1, MessageKinds
            <4>3. c.op = "create" /\ c.point = q
                BY <1>d, <4>1
            <4>4. Queued(q)'
                BY <4>2, <4>3 DEF Queued
            <4> QED
                BY <1>1, <3>2, <4>4 DEF HeightOK
        <3> QED
            BY <3>3, <3>4
    <2> QED
        BY <2>1, <2>2, <2>3, <2>4
<1> QED
    BY <1>5, <1>9, <1>10 DEF SaveInv

-----------------------------------------------------------------------------
(* A goroutine that takes a message had nothing to do, so that a file that *)
(* it is to replace by is whole.                                           *)
LEMMA HandOverSave == SaveInv /\ HandOver => SaveInv'
<1> SUFFICES ASSUME SaveInv, HandOver PROVE SaveInv'
    OBVIOUS
<1>a. PICK m : m = sends[1]
    OBVIOUS
<1>b. PICK c : c = sends[2]
    OBVIOUS
<1>c. PICK q : q = m.point
    OBVIOUS
<1>d. Idle.op = "idle"
    BY DEF Idle
<1>1. /\ up /\ sends # <<>>
      /\ UNCHANGED <<chain, height, todo, up, files, default, forks, highest>>
    BY DEF HandOver, disk
<1>2. \/ sends = <<m>> /\ ReplaceOK(m)
      \/ sends = <<m>> /\ CreateOK(m)
      \/ /\ sends = <<m, c>> /\ ReplaceOK(m) /\ CreateOK(c)
         /\ c.point = q /\ m.height < c.height
    BY <1>a, <1>b, <1>c, <1>1 DEF SaveInv, SendsOK
<1>3. Head(sends) = m /\ sends' = Tail(sends)
    BY <1>a, <1>1 DEF HandOver
<1>4. /\ q \in Keys /\ IsMessage(m) /\ m.op \in {"replace", "create"} /\ m.height \in Heights
      /\ loop[q] = Idle /\ loop' = [loop EXCEPT ![q] = m]
    BY <1>c, <1>2, <1>3 DEF ReplaceOK, CreateOK, Below, IsMessage, HandOver
<1>5. /\ loop' = [p \in Keys |-> loop'[p]] /\ loop'[q] = m
      /\ \A p \in Keys : p # q => loop'[p] = loop[p]
    BY <1>4 DEF SaveInv, Shapes
<1>6. Types' /\ Shapes' /\ DownOK'
    BY <1>1, <1>5 DEF SaveInv, Types, Shapes, DownOK, Best
<1>7. \A p \in Keys : FilesOK(p)' /\ DefaultOK(p)'
    BY <1>1 DEF SaveInv, FilesOK, DefaultOK
<1>8. ASSUME NEW p \in Keys, p # q
      PROVE  LoopOK(p)' /\ HeightOK(p)'
    <2>1. LoopOK(p)'
        BY <1>1, <1>5, <1>8 DEF SaveInv, LoopOK, IsMessage, Writing, Replacing
    <2>2. ~Queued(p)
        BY <1>c, <1>2, <1>8 DEF Queued
    <2>3. HeightOK(p)'
        BY <1>1, <1>5, <1>8, <2>2 DEF SaveInv, HeightOK, Sound, Writing
    <2> QED
        BY <2>1, <2>3
<1>9. CASE m.op = "replace"
    <2>1. ReplaceOK(m)
        BY <1>2, <1>9 DEF CreateOK, Below
    <2>2. files[q][m.height] # Torn
        BY <1>c, <1>d, <1>4, <2>1 DEF ReplaceOK, Sound, Writing
    <2>3. LoopOK(q)'
        BY <1>c, <1>1, <1>4, <1>5, <1>9, <2>1, <2>2 DEF LoopOK, ReplaceOK, IsMessage, Writing, Replacing
    <2>4. CASE sends = <<m>>
        <3>1. sends' = <<>>
            BY <1>3, <2>4
        <3>2. ~Queued(q)
            BY <1>9, <2>4 DEF Queued
        <3>3. HeightOK(q)'
            BY <1>d, <1>1, <1>4, <3>2 DEF SaveInv, HeightOK, Sound, Writing
        <3> QED
            BY <1>6, <1>7, <1>8, <2>3, <3>1, <3>3 DEF SaveInv, SendsOK
    <2>5. CASE sends = <<m, c>> /\ CreateOK(c) /\ c.point = q /\ m.height < c.height
        <3>1. sends' = <<c>>
            BY <1>3, <2>5
        <3>2. c.op = "create" /\ Queued(q)'
            BY <2>5, <3>1 DEF CreateOK, Below, Queued
        <3>3. HeightOK(q)'
            BY <1>1, <1>4, <3>2 DEF SaveInv, HeightOK
        <3>4. CreateOK(c)'
            BY <1>1, <1>5, <2>5 DEF CreateOK, Below, IsMessage, Replacing
        <3>5. SendsOK'
            BY <3>1, <3>4 DEF SendsOK
        <3> QED
            BY <1>6, <1>7, <1>8, <2>3, <3>3, <3>5 DEF SaveInv
    <2> QED
        BY <1>2, <2>4, <2>5
<1>10. CASE m.op = "create"
    <2>1. sends = <<m>> /\ CreateOK(m)
        BY <1>2, <1>10 DEF ReplaceOK
    <2>2. sends' = <<>>
        BY <1>3, <2>1
    <2>3. LoopOK(q)'
        BY <1>c, <1>1, <1>4, <1>5, <1>10, <2>1 DEF LoopOK, CreateOK, Below, IsMessage, Writing, Replacing
    <2>4. Sound(q, m.height)' /\ m.height = height'[q]
        BY <1>c, <1>1, <1>5, <1>10, <2>1 DEF Sound, Writing, CreateOK, Below
    <2>5. HeightOK(q)'
        BY <1>1, <1>4, <2>4 DEF SaveInv, HeightOK
    <2> QED
        BY <1>6, <1>7, <1>8, <2>2, <2>3, <2>5 DEF SaveInv, SendsOK
<1> QED
    BY <1>4, <1>9, <1>10

-----------------------------------------------------------------------------
(* When the process ends files may stay torn; but none of them is one that *)
(* the next one takes for its last snapshot.                               *)
LEMMA CrashSave == SaveInv /\ Crash => SaveInv'
<1> SUFFICES ASSUME SaveInv, Crash PROVE SaveInv'
    OBVIOUS
<1>1. /\ ~up' /\ sends' = <<>> /\ todo' = <<>>
      /\ height' = [p \in Keys |-> 0] /\ loop' = [p \in Keys |-> Idle]
      /\ UNCHANGED <<chain, files, default, forks, highest>>
    BY DEF Crash, disk
<1>2. Types'
    <2>1. up' \in BOOLEAN
        BY DEF Crash
    <2>2. height' \in [Keys -> Heights] /\ todo' \in Seq(Keys) /\ Best' = Best
        BY <1>1, Constants, EmptySeq DEF Heights, Best
    <2> QED
        BY <1>1, <2>1, <2>2 DEF SaveInv, Types
<1>3. Shapes'
    BY <1>1 DEF SaveInv, Shapes
<1>4. \A p \in Keys : FilesOK(p)' /\ LoopOK(p)' /\ DefaultOK(p)' /\ HeightOK(p)'
    BY <1>1 DEF SaveInv, FilesOK, LoopOK, DefaultOK, HeightOK
<1> QED
    BY <1>1, <1>2, <1>3, <1>4 DEF SaveInv, SendsOK, DownOK

LEMMA InitCheckpointSave == SaveInv /\ InitCheckpoint => SaveInv'
<1> SUFFICES ASSUME SaveInv, InitCheckpoint PROVE SaveInv'
    OBVIOUS
<1>1. /\ ~up /\ up' = TRUE /\ height' = [p \in Keys |-> HeightAfterRestore(p)]
      /\ UNCHANGED <<chain, todo, sends, loop, files, default, forks, highest>>
    BY DEF InitCheckpoint, disk
<1>2. sends = <<>> /\ todo = <<>> /\ \A p \in Keys : loop[p] = Idle
    BY <1>1 DEF SaveInv, DownOK
<1>3. ASSUME NEW p \in Keys
      PROVE  /\ height'[p] \in Heights
             /\ p \in Skipped \/ default[p] = None => height'[p] = 0
             /\ p \notin Skipped => height'[p] = default[p].height
    <2>1. height'[p] = IF p \notin Skipped /\ default[p].complete THEN default[p].height ELSE 0
        BY <1>1, RestoredHeight
    <2>2. DefaultOK(p)
        BY DEF SaveInv
    <2> QED
        BY <2>1, <2>2, FileKinds, Constants DEF DefaultOK, Heights
<1>4. Types' /\ Shapes'
    <2>1. height' \in [Keys -> Heights] /\ Best' = Best
        BY <1>1, <1>3 DEF Best
    <2> QED
        BY <1>1, <2>1 DEF SaveInv, Types, Shapes
<1>5. ASSUME NEW p \in Keys
      PROVE  FilesOK(p)' /\ LoopOK(p)' /\ DefaultOK(p)' /\ HeightOK(p)'
    <2>1. FilesOK(p)' /\ LoopOK(p)' /\ DefaultOK(p)'
        BY <1>1, <1>2 DEF SaveInv, FilesOK, LoopOK, DefaultOK
    <2>2. height'[p] > 0 => files[p][height'[p]] # Torn
        BY <1>3 DEF SaveInv, DefaultOK
    <2>3. default[p].height \in Int /\ (p \notin Skipped => default[p].height <= height'[p])
        BY <1>3, Constants DEF SaveInv, DefaultOK, Heights
    <2> QED
        BY <1>1, <2>1, <2>2, <2>3 DEF HeightOK, Sound
<1> QED
    BY <1>1, <1>2, <1>4, <1>5 DEF SaveInv, SendsOK, DownOK

-----------------------------------------------------------------------------
(* A goroutine works on one file: those of the others are as they were.    *)
PutFile(p, h, x) == files' = [files EXCEPT ![p][h] = x]

LEMMA FilePut ==
    ASSUME Shapes, NEW p \in Keys, NEW h \in Heights, NEW x, PutFile(p, h, x)
    PROVE  /\ files' = [q \in Keys |-> [k \in Heights |-> files'[q][k]]]
           /\ \A q \in Keys : q # p => files'[q] = files[q]
           /\ files'[p][h] = x
           /\ \A k \in Heights : k # h => files'[p][k] = files[p][k]
<1>1. files = [q \in Keys |-> [k \in Heights |-> files[q][k]]]
    BY DEF Shapes
<1>2. files' = [q \in Keys |-> IF q = p THEN [files[q] EXCEPT ![h] = x] ELSE files[q]]
    BY <1>1 DEF PutFile
<1>3. \A q \in Keys : files[q] = [k \in Heights |-> files[q][k]]
    BY <1>1, Zenon
<1>4. [files[p] EXCEPT ![h] = x] = [k \in Heights |-> IF k = h THEN x ELSE files[p][k]]
    BY <1>3
<1>5. files'[p] = [k \in Heights |-> IF k = h THEN x ELSE files[p][k]]
    BY <1>2, <1>4
<1>6. \A q \in Keys : q # p => files'[q] = files[q]
    BY <1>2
<1>7. \A q \in Keys : files'[q] = [k \in Heights |-> files'[q][k]]
    BY <1>3, <1>5, <1>6
<1>8. files' = [q \in Keys |-> files'[q]]
    BY <1>2
<1>9. files' = [q \in Keys |-> [k \in Heights |-> files'[q][k]]]
    BY <1>7, <1>8
<1> QED
    BY <1>5, <1>6, <1>9

(* What a step of the goroutine of p has to keep.                          *)
LEMMA LoopStep ==
    ASSUME SaveInv, NEW p \in Keys, up, UNCHANGED <<chain, height, todo, sends, up, forks, highest>>,
           Shapes', FilesOK(p)', LoopOK(p)', DefaultOK(p)',
           \A q \in Keys : q # p =>
               loop'[q] = loop[q] /\ files'[q] = files[q] /\ default'[q] = default[q],
           \A h \in Heights : Sound(p, h) => Sound(p, h)',
           \A h \in Heights : Below(p, h) => Below(p, h)',
           p \notin Skipped => default'[p].height <= height[p]
    PROVE  SaveInv'
<1>1. Types' /\ DownOK'
    BY DEF SaveInv, Types, DownOK, Best
<1>2. ASSUME NEW q \in Keys, NEW h \in Heights
      PROVE  (Sound(q, h) => Sound(q, h)') /\ (Below(q, h) => Below(q, h)')
    <2>1. CASE q = p
        BY <2>1
    <2>2. CASE q # p
        BY <2>2 DEF Sound, Writing, Below, Replacing
    <2> QED
        BY <2>1, <2>2
<1>3. ASSUME NEW q \in Keys
      PROVE  FilesOK(q)' /\ LoopOK(q)' /\ DefaultOK(q)' /\ HeightOK(q)'
    <2>1. height[q] \in Heights
        BY DEF SaveInv, Types
    <2>2. HeightOK(q)'
        <3>1. height[q] > 0 => Sound(q, height[q]) \/ Queued(q)
            BY DEF SaveInv, HeightOK
        <3>2. PICK h \in Heights : h = height[q]
            BY <2>1
        <3>3. Queued(q) => Queued(q)'
            BY DEF Queued
        <3>4. height'[q] > 0 => Sound(q, h)' \/ Queued(q)'
            BY <1>2, <3>1, <3>2, <3>3
        <3>5. height'[q] = h
            BY <3>2
        <3>6. q \notin Skipped => default'[q].height <= height'[q]
            BY DEF SaveInv, HeightOK
        <3> QED
            BY <3>4, <3>5, <3>6 DEF HeightOK
    <2>3. CASE q = p
        BY <2>2, <2>3
    <2>4. CASE q # p
        <3>1. FilesOK(q)'
            BY <2>4 DEF SaveInv, FilesOK
        <3>2. LoopOK(q)'
            BY <2>4 DEF SaveInv, LoopOK, IsMessage, Writing, Replacing
        <3>3. DefaultOK(q)'
            BY <2>4 DEF SaveInv, DefaultOK
        <3> QED
            BY <2>2, <3>1, <3>2, <3>3
    <2> QED
        BY <2>3, <2>4
<1>4. ASSUME NEW m, ReplaceOK(m) PROVE ReplaceOK(m)'
    <2>1. m.point \in Keys /\ m.height \in Heights
        BY <1>4 DEF ReplaceOK, IsMessage
    <2>2. Sound(m.point, m.height)'
        BY <1>2, <1>4, <2>1 DEF ReplaceOK
    <2> QED
        BY <1>4, <2>2 DEF ReplaceOK, IsMessage
<1>5. ASSUME NEW m, CreateOK(m) PROVE CreateOK(m)'
    <2>1. m.point \in Keys /\ m.height \in Heights
        BY <1>5 DEF CreateOK, IsMessage
    <2>2. Below(m.point, m.height)'
        BY <1>2, <1>5, <2>1 DEF CreateOK
    <2> QED
        BY <1>5, <2>2 DEF CreateOK, IsMessage
<1>6. SendsOK'
    BY <1>4, <1>5 DEF SaveInv, SendsOK
<1> QED
    BY <1>1, <1>3, <1>6 DEF SaveInv

(* What a goroutine does next: another operation on its file, or nothing.  *)
LEMMA LoopReplies ==
    ASSUME Shapes, NEW p \in Keys, Reply(p)
    PROVE  /\ loop' = [q \in Keys |-> loop'[q]] /\ loop'[p] = Idle
           /\ \A q \in Keys : q # p => loop'[q] = loop[q]
BY DEF Shapes, Reply

LEMMA LoopMoves ==
    ASSUME Shapes, NEW p \in Keys, NEW op, Goto(p, op), IsMessage(loop[p])
    PROVE  /\ loop' = [q \in Keys |-> loop'[q]]
           /\ \A q \in Keys : q # p => loop'[q] = loop[q]
           /\ IsMessage(loop'[p]) /\ loop'[p].op = op /\ loop'[p].height = loop[p].height
<1>1. /\ loop' = [q \in Keys |-> loop'[q]] /\ loop'[p] = [loop[p] EXCEPT !.op = op]
      /\ \A q \in Keys : q # p => loop'[q] = loop[q]
    BY DEF Shapes, Goto
<1>2. PICK m : m = loop[p]
    OBVIOUS
<1>3. IsMessage(m) /\ loop'[p] = [m EXCEPT !.op = op]
    BY <1>1, <1>2
<1> QED
    BY <1>1, <1>2, <1>3, NextOperation

LEMMA MessageLoopSave ==
    ASSUME SaveInv, NEW p \in Keys, MessageLoop(p)
    PROVE  SaveInv'
<1>a. Idle.op = "idle"
    BY DEF Idle
<1>b. Shapes
    BY DEF SaveInv
<1>1. up /\ UNCHANGED <<chain, height, todo, sends, up, forks, highest>>
    BY DEF MessageLoop
<1>2. /\ Shapes /\ LoopOK(p) /\ FilesOK(p) /\ DefaultOK(p) /\ HeightOK(p)
      /\ \A h \in Heights : h \in Nat
    BY Constants DEF SaveInv, Heights
<1>3. Effective[p] \in Nat /\ highest \in Nat /\ height[p] \in Nat
    BY Constants DEF SaveInv, Types, Heights
<1>4. CASE Create(p)
    <2>1. PICK h : h = loop[p].height
        OBVIOUS
    <2>2. loop[p].op = "create" /\ Goto(p, "write") /\ UNCHANGED default
        BY <1>4 DEF Create
    <2>3. IsMessage(loop[p]) /\ h \in Heights /\ (p \notin Skipped => default[p].height < h)
        BY <1>a, <1>2, <2>1, <2>2 DEF LoopOK, IsMessage, Writing
    <2>4. /\ loop' = [q \in Keys |-> loop'[q]] /\ \A q \in Keys : q # p => loop'[q] = loop[q]
          /\ IsMessage(loop'[p]) /\ loop'[p].op = "write" /\ loop'[p].height = h
        BY <1>b, <2>1, <2>2, <2>3, LoopMoves
    <2>5. PutFile(p, h, Torn)
        BY <1>4, <2>1 DEF Create, PutFile
    <2>6. /\ files' = [q \in Keys |-> [k \in Heights |-> files'[q][k]]]
          /\ \A q \in Keys : q # p => files'[q] = files[q]
          /\ files'[p][h] = Torn /\ \A k \in Heights : k # h => files'[p][k] = files[p][k]
        BY <1>b, <2>3, <2>5, FilePut
    <2>7. Shapes'
        BY <1>2, <2>2, <2>4, <2>6 DEF Shapes
    <2>8. FilesOK(p)'
        BY <1>2, <2>3, <2>6 DEF FilesOK
    <2>9. LoopOK(p)'
        BY <2>2, <2>3, <2>4 DEF LoopOK, IsMessage, Writing, Replacing
    <2>10. DefaultOK(p)'
        <3>1. p \notin Skipped => default[p].height # h
            BY <1>2, <2>3 DEF DefaultOK
        <3> QED
            BY <1>1, <1>2, <2>2, <2>6, <3>1 DEF DefaultOK
    <2>11. \A k \in Heights : Sound(p, k) => Sound(p, k)'
        BY <2>1, <2>4, <2>6 DEF Sound, Writing
    <2>12. \A k \in Heights : Below(p, k) => Below(p, k)'
        BY <2>2, <2>4 DEF Below, Replacing
    <2>13. p \notin Skipped => default'[p].height <= height[p]
        BY <1>1, <1>2, <2>2 DEF HeightOK
    <2> QED
        BY <1>1, <2>2, <2>4, <2>6, <2>7, <2>8, <2>9, <2>10, <2>11, <2>12, <2>13, LoopStep
<1>5. CASE Write(p)
    <2>1. PICK h : h = loop[p].height
        OBVIOUS
    <2>b. PICK x : x = Snapshot(h, loop[p].blocks)
        OBVIOUS
    <2>2. loop[p].op = "write" /\ Goto(p, "clean") /\ UNCHANGED default
        BY <1>5 DEF Write
    <2>3. IsMessage(loop[p]) /\ h \in Heights
        BY <1>a, <1>2, <2>1, <2>2 DEF LoopOK, IsMessage
    <2>4. /\ loop' = [q \in Keys |-> loop'[q]] /\ \A q \in Keys : q # p => loop'[q] = loop[q]
          /\ IsMessage(loop'[p]) /\ loop'[p].op = "clean" /\ loop'[p].height = h
        BY <1>b, <2>1, <2>2, <2>3, LoopMoves
    <2>5. PutFile(p, h, x) /\ x.complete = TRUE /\ x.height = h /\ x # Torn
        BY <1>5, <2>1, <2>b, FileKinds DEF Write, PutFile
    <2>6. /\ files' = [q \in Keys |-> [k \in Heights |-> files'[q][k]]]
          /\ \A q \in Keys : q # p => files'[q] = files[q]
          /\ files'[p][h] = x /\ \A k \in Heights : k # h => files'[p][k] = files[p][k]
        BY <1>b, <2>3, <2>5, FilePut
    <2>7. Shapes'
        BY <1>2, <2>2, <2>4, <2>6 DEF Shapes
    <2>8. FilesOK(p)'
        BY <1>2, <2>3, <2>5, <2>6 DEF FilesOK
    <2>9. LoopOK(p)'
        BY <2>3, <2>4 DEF LoopOK, IsMessage, Writing, Replacing
    <2>10. DefaultOK(p)'
        BY <1>1, <1>2, <2>2, <2>5, <2>6 DEF DefaultOK
    <2>11. \A k \in Heights : Sound(p, k) => Sound(p, k)'
        BY <2>1, <2>5, <2>6 DEF Sound, Writing
    <2>12. \A k \in Heights : Below(p, k) => Below(p, k)'
        BY <2>2, <2>4 DEF Below, Replacing
    <2>13. p \notin Skipped => default'[p].height <= height[p]
        BY <1>1, <1>2, <2>2 DEF HeightOK
    <2> QED
        BY <1>1, <2>2, <2>4, <2>6, <2>7, <2>8, <2>9, <2>10, <2>11, <2>12, <2>13, LoopStep
<1>6. CASE CleanCheckpoints(p)
    <2>1. loop[p].op = "clean" /\ Reply(p) /\ UNCHANGED default
        BY <1>6 DEF CleanCheckpoints
    <2>2. /\ loop' = [q \in Keys |-> loop'[q]] /\ loop'[p] = Idle
          /\ \A q \in Keys : q # p => loop'[q] = loop[q]
        BY <1>b, <2>1, LoopReplies
    <2>3. /\ files' = [q \in Keys |-> [k \in Heights |-> files'[q][k]]]
          /\ \A q \in Keys : q # p => files'[q] = files[q]
          /\ \A k \in Heights : files'[p][k] \in {None, files[p][k]}
        <3>1. PICK kept : kept = Kept(p, loop[p].height)
            OBVIOUS
        <3>2. files = [q \in Keys |-> [k \in Heights |-> files[q][k]]]
            BY <1>2 DEF Shapes
        <3>3. files' = [files EXCEPT ![p] = [k \in Heights |-> IF k \in kept THEN files[p][k] ELSE None]]
            BY <1>6, <3>1, <3>2 DEF CleanCheckpoints
        <3>4. files'[p] = [k \in Heights |-> IF k \in kept THEN files[p][k] ELSE None]
            BY <3>2, <3>3
        <3>5. \A q \in Keys : q # p => files'[q] = files[q]
            BY <3>2, <3>3
        <3>6. \A q \in Keys : files'[q] = [k \in Heights |-> files'[q][k]]
            BY <3>2, <3>4, <3>5
        <3>7. files' = [q \in Keys |-> files'[q]]
            BY <3>2, <3>3
        <3>8. files' = [q \in Keys |-> [k \in Heights |-> files'[q][k]]]
            BY <3>6, <3>7
        <3> QED
            BY <3>4, <3>5, <3>8
    <2>4. Shapes'
        BY <1>2, <2>1, <2>2, <2>3 DEF Shapes
    <2>5. FilesOK(p)'
        BY <1>2, <2>3 DEF FilesOK
    <2>6. LoopOK(p)'
        BY <2>2 DEF LoopOK
    <2>7. DefaultOK(p)'
        BY <1>1, <1>2, <2>1, <2>3, FileKinds DEF DefaultOK
    <2>8. \A k \in Heights : Sound(p, k) => Sound(p, k)'
        BY <2>1, <2>3, FileKinds DEF Sound, Writing
    <2>9. \A k \in Heights : Below(p, k) => Below(p, k)'
        BY <1>a, <2>1, <2>2 DEF Below, Replacing
    <2>10. p \notin Skipped => default'[p].height <= height[p]
        BY <1>1, <1>2, <2>1 DEF HeightOK
    <2> QED
        BY <1>1, <2>1, <2>2, <2>3, <2>4, <2>5, <2>6, <2>7, <2>8, <2>9, <2>10, LoopStep
<1>7. CASE NoSource(p)
    <2>1. loop[p].op = "replace" /\ Reply(p) /\ UNCHANGED <<files, default>>
        BY <1>7 DEF NoSource, disk
    <2>2. /\ loop' = [q \in Keys |-> loop'[q]] /\ loop'[p] = Idle
          /\ \A q \in Keys : q # p => loop'[q] = loop[q]
        BY <1>b, <2>1, LoopReplies
    <2>3. Shapes' /\ LoopOK(p)' /\ FilesOK(p)' /\ DefaultOK(p)'
        BY <1>1, <1>2, <2>1, <2>2 DEF Shapes, LoopOK, FilesOK, DefaultOK
    <2>4. \A k \in Heights : (Sound(p, k) => Sound(p, k)') /\ (Below(p, k) => Below(p, k)')
        BY <1>a, <2>1, <2>2 DEF Sound, Writing, Below, Replacing
    <2>5. p \notin Skipped => default'[p].height <= height[p]
        BY <1>1, <1>2, <2>1 DEF HeightOK
    <2> QED
        BY <1>1, <2>1, <2>2, <2>3, <2>4, <2>5, LoopStep
<1>8. CASE RemoveDefault(p)
    <2>1. PICK h : h = loop[p].height
        OBVIOUS
    <2>2. /\ loop[p].op = "replace" /\ Goto(p, "rename") /\ UNCHANGED files
          /\ files[p][h] # None /\ default' = [default EXCEPT ![p] = None]
        BY <1>8, <2>1 DEF RemoveDefault, SourceExists
    <2>3. /\ IsMessage(loop[p]) /\ h \in Heights /\ files[p][h] # Torn
          /\ h + Effective[p] <= highest /\ h <= height[p]
        BY <1>a, <1>2, <2>1, <2>2 DEF LoopOK, IsMessage, Replacing
    <2>4. /\ loop' = [q \in Keys |-> loop'[q]] /\ \A q \in Keys : q # p => loop'[q] = loop[q]
          /\ IsMessage(loop'[p]) /\ loop'[p].op = "rename" /\ loop'[p].height = h
        BY <1>b, <2>1, <2>2, <2>3, LoopMoves
    <2>5. /\ default' = [q \in Keys |-> default'[q]] /\ default'[p] = None
          /\ \A q \in Keys : q # p => default'[q] = default[q]
        BY <1>2, <2>2 DEF Shapes
    <2>6. Shapes' /\ FilesOK(p)'
        BY <1>2, <2>2, <2>4, <2>5 DEF Shapes, FilesOK
    <2>7. LoopOK(p)'
        BY <1>1, <2>2, <2>3, <2>4 DEF LoopOK, IsMessage, Writing, Replacing
    <2>8. DefaultOK(p)'
        BY <2>5, FileKinds, Constants DEF DefaultOK, Heights
    <2>9. \A k \in Heights : Sound(p, k) => Sound(p, k)'
        BY <2>2, <2>4 DEF Sound, Writing
    <2>10. \A k \in Heights : Below(p, k) => Below(p, k)'
        BY <1>2, <2>1, <2>2, <2>4, <2>5, FileKinds DEF Below, Replacing, DefaultOK
    <2>11. default'[p].height <= height[p]
        BY <1>3, <2>5, FileKinds
    <2> QED
        BY <1>1, <2>2, <2>4, <2>5, <2>6, <2>7, <2>8, <2>9, <2>10, <2>11, LoopStep
<1>9. CASE Rename(p)
    <2>1. PICK h : h = loop[p].height
        OBVIOUS
    <2>2. /\ loop[p].op = "rename" /\ Reply(p)
          /\ default' = [default EXCEPT ![p] = files[p][h]]
          /\ PutFile(p, h, None)
        BY <1>9, <2>1 DEF Rename, PutFile
    <2>3. /\ h \in Heights /\ files[p][h] # Torn /\ files[p][h] # None
          /\ h + Effective[p] <= highest /\ h <= height[p]
        BY <1>a, <1>2, <2>1, <2>2 DEF LoopOK, IsMessage, Replacing
    <2>4. /\ loop' = [q \in Keys |-> loop'[q]] /\ loop'[p] = Idle
          /\ \A q \in Keys : q # p => loop'[q] = loop[q]
        BY <1>b, <2>2, LoopReplies
    <2>5. /\ default' = [q \in Keys |-> default'[q]] /\ default'[p] = files[p][h]
          /\ \A q \in Keys : q # p => default'[q] = default[q]
        BY <1>2, <2>2 DEF Shapes
    <2>6. /\ files' = [q \in Keys |-> [k \in Heights |-> files'[q][k]]]
          /\ \A q \in Keys : q # p => files'[q] = files[q]
          /\ files'[p][h] = None /\ \A k \in Heights : k # h => files'[p][k] = files[p][k]
        BY <1>b, <2>2, <2>3, FilePut
    <2>7. default'[p].complete = TRUE /\ default'[p].height = h
        BY <1>2, <2>3, <2>5 DEF FilesOK
    <2>8. Shapes' /\ LoopOK(p)'
        BY <2>4, <2>5, <2>6 DEF Shapes, LoopOK
    <2>9. FilesOK(p)'
        BY <1>2, <2>3, <2>6 DEF FilesOK
    <2>10. DefaultOK(p)'
        BY <1>1, <2>3, <2>6, <2>7, FileKinds DEF DefaultOK
    <2>11. \A k \in Heights : Sound(p, k) => Sound(p, k)'
        BY <2>2, <2>6, FileKinds DEF Sound, Writing
    <2>12. \A k \in Heights : Below(p, k) => Below(p, k)'
        BY <1>a, <2>1, <2>2, <2>4, <2>7 DEF Below, Replacing
    <2> QED
        BY <1>1, <2>3, <2>4, <2>5, <2>6, <2>7, <2>8, <2>9, <2>10, <2>11, <2>12, LoopStep
<1> QED
    BY <1>4, <1>5, <1>6, <1>7, <1>8, <1>9 DEF MessageLoop

-----------------------------------------------------------------------------
LEMMA SaveInvariant == Spec => []SaveInv
<1>1. Init => SaveInv
    BY InitSave
<1>2. SaveInv /\ [Next]_vars => SaveInv'
    BY ConnectSave, ProcessPointSave, HandOverSave, MessageLoopSave, IdleSave, DetachSave,
       CrashSave, InitCheckpointSave DEF Next
<1> QED
    BY <1>1, <1>2, PTL DEF Spec

(* Wherever the process ends, the default file that a restart loads is one *)
(* that saveCheckpoint wrote to its end, or there is none.                 *)
THEOREM DefaultAlwaysComplete == Spec => []DefaultComplete
<1>1. SaveInv => DefaultComplete
    BY DEF SaveInv, DefaultOK, DefaultComplete
<1> QED
    BY <1>1, SaveInvariant, PTL

(* The default file is EffectivePeriod below the greatest height, as       *)
(* onBlockSaved lets a snapshot replace it no earlier.                     *)
THEOREM DefaultAlwaysSettled == Spec => []DefaultSettled
<1>1. SaveInv => DefaultSettled
    BY DEF SaveInv, DefaultOK, DefaultSettled
<1> QED
    BY <1>1, SaveInvariant, PTL

-----------------------------------------------------------------------------
(* Blocks as the states see them.                                          *)
BlockSet == [height : Nat, fork : Nat]
BlockOf(ch, h) == [height |-> h, fork |-> ch[h]]

(* The state bs is made from blocks of the chain ch up to height n, in the *)
(* order of the chain, and from all those above a and b.                   *)
Follows(bs, ch, n, a, b) ==
    /\ bs \in Seq(BlockSet)
    /\ \A i \in 1..Len(bs) : bs[i].height \in 1..n /\ bs[i] = BlockOf(ch, bs[i].height)
    /\ \A i, j \in 1..Len(bs) : i < j => bs[i].height < bs[j].height
    /\ \A h \in 1..n : h > a /\ h > b => \E i \in 1..Len(bs) : bs[i] = BlockOf(ch, h)

(* A state that has still to be handed the best block follows the chain up *)
(* to the one below it.                                                    *)
ApplyInv ==
    /\ IsInjective(todo)
    /\ applied = [p \in Keys |-> applied[p]]
    /\ up => \A p \in Derived :
           Follows(applied[p], chain, IF p \in Range(todo) THEN Best - 1 ELSE Best, height[p], Start[p])

-----------------------------------------------------------------------------
(* A chain that agrees so far is followed as well, the more easily the     *)
(* higher the snapshot.                                                    *)
LEMMA FollowsLonger ==
    ASSUME NEW bs, NEW ch, NEW n \in Nat, NEW a \in Nat, NEW b \in Nat, Follows(bs, ch, n, a, b),
           NEW ch2, \A h \in 1..n : ch2[h] = ch[h], NEW a2 \in Nat, a <= a2
    PROVE  Follows(bs, ch2, n, a2, b)
<1>1. \A h \in 1..n : BlockOf(ch2, h) = BlockOf(ch, h)
    BY DEF BlockOf
<1>2. \A i \in 1..Len(bs) : bs[i].height \in 1..n /\ bs[i] = BlockOf(ch2, bs[i].height)
    BY <1>1 DEF Follows
<1>3. \A h \in 1..n : h > a2 /\ h > b => \E i \in 1..Len(bs) : bs[i] = BlockOf(ch2, h)
    BY <1>1 DEF Follows
<1> QED
    BY <1>2, <1>3 DEF Follows

(* OnBlockSaved appends the next block, unless it is too low to be needed. *)
LEMMA FollowsNext ==
    ASSUME NEW bs, NEW ch, NEW n \in Nat \ {0}, NEW a \in Nat, NEW b \in Nat,
           Follows(bs, ch, n - 1, a, b), ch[n] \in Nat
    PROVE  /\ Follows(Append(bs, BlockOf(ch, n)), ch, n, a, b)
           /\ n < b \/ n <= a => Follows(bs, ch, n, a, b)
<1> DEFINE x == BlockOf(ch, n)
           s == Append(bs, x)
<1>1. bs \in Seq(BlockSet) /\ x \in BlockSet /\ x.height = n /\ Len(bs) \in Nat
    BY LenProperties DEF Follows, BlockOf, BlockSet
<1>2. /\ s \in Seq(BlockSet) /\ Len(s) = Len(bs) + 1 /\ s[Len(bs) + 1] = x
      /\ \A i \in 1..Len(bs) : s[i] = bs[i]
    BY <1>1, AppendProperties
<1> HIDE DEF s
<1>3. /\ \A i \in 1..Len(bs) : bs[i].height \in 1..(n - 1) /\ bs[i] = BlockOf(ch, bs[i].height)
      /\ \A i, j \in 1..Len(bs) : i < j => bs[i].height < bs[j].height
      /\ \A h \in 1..(n - 1) : h > a /\ h > b => \E i \in 1..Len(bs) : bs[i] = BlockOf(ch, h)
    BY DEF Follows
<1>4. \A i \in 1..Len(s) : s[i].height \in 1..n /\ s[i] = BlockOf(ch, s[i].height)
    <2> SUFFICES ASSUME NEW i \in 1..Len(s)
                 PROVE  s[i].height \in 1..n /\ s[i] = BlockOf(ch, s[i].height)
        OBVIOUS
    <2>1. CASE i \in 1..Len(bs)
        BY <1>2, <1>3, <2>1
    <2>2. CASE i = Len(bs) + 1
        BY <1>1, <1>2, <2>2
    <2> QED
        BY <1>1, <1>2, <2>1, <2>2
<1>5. \A i, j \in 1..Len(s) : i < j => s[i].height < s[j].height
    <2> SUFFICES ASSUME NEW i \in 1..Len(s), NEW j \in 1..Len(s), i < j
                 PROVE  s[i].height < s[j].height
        OBVIOUS
    <2>1. i \in 1..Len(bs)
        BY <1>1, <1>2
    <2>2. CASE j \in 1..Len(bs)
        BY <1>2, <1>3, <2>1, <2>2
    <2>3. CASE j = Len(bs) + 1
        <3>1. s[i].height \in 1..(n - 1) /\ s[j].height = n
            BY <1>1, <1>2, <1>3, <2>1, <2>3
        <3> QED
            BY <3>1
    <2>4. j \in 1..Len(bs) \/ j = Len(bs) + 1
        BY <1>1, <1>2
    <2> QED
        BY <2>2, <2>3, <2>4
<1>6. \A h \in 1..n : h > a /\ h > b => \E i \in 1..Len(s) : s[i] = BlockOf(ch, h)
    <2> SUFFICES ASSUME NEW h \in 1..n, h > a, h > b
                 PROVE  \E i \in 1..Len(s) : s[i] = BlockOf(ch, h)
        OBVIOUS
    <2>1. CASE h = n
        <3>1. Len(bs) + 1 \in 1..Len(s)
            BY <1>1, <1>2
        <3> QED
            BY <1>2, <2>1, <3>1
    <2>2. CASE h # n
        <3>1. PICK i \in 1..Len(bs) : bs[i] = BlockOf(ch, h)
            BY <1>3, <2>2
        <3>2. i \in 1..Len(s)
            BY <1>1, <1>2
        <3> QED
            BY <1>2, <3>1, <3>2
    <2> QED
        BY <2>1, <2>2
<1>7. Follows(s, ch, n, a, b)
    BY <1>2, <1>4, <1>5, <1>6 DEF Follows
<1>8. ASSUME n < b \/ n <= a PROVE Follows(bs, ch, n, a, b)
    <2>1. \A h \in 1..n : h > a /\ h > b => h \in 1..(n - 1)
        BY <1>8
    <2>2. \A i \in 1..Len(bs) : bs[i].height \in 1..n
        BY <1>3
    <2> QED
        BY <1>1, <1>3, <2>1, <2>2 DEF Follows
<1> QED
    BY <1>7, <1>8 DEF s

(* A non-empty set of naturals has the minimum FiniteSetsExt chooses.      *)
LEMMA MinProperties ==
    ASSUME NEW T \in SUBSET Nat, T # {}
    PROVE  Min(T) \in T /\ \A y \in T : Min(T) <= y
<1>1. PICK x \in T : \A y \in T : ~(<<y, x>> \in OpToRel(<, Nat))
    BY NatLessThanWellFounded, WFMin
<1>2. \A y \in T : x <= y
    <2> SUFFICES ASSUME NEW y \in T PROVE x <= y
        OBVIOUS
    <2>1. ~(y < x)
        BY <1>1 DEF OpToRel
    <2> QED
        BY <2>1
<1> QED
    BY <1>2 DEF Min

(* A rollback by one block cuts off that block and no other.               *)
LEMMA FollowsCut ==
    ASSUME NEW bs, NEW ch, NEW n \in Nat \ {0}, NEW a \in Nat, NEW b \in Nat,
           Follows(bs, ch, n, a, b)
    PROVE  Follows(CutAt(bs, {i \in DOMAIN bs : bs[i].height > n - 1}), ch, n - 1, a, b)
<1> DEFINE above == {i \in DOMAIN bs : bs[i].height > n - 1}
           k == Min(above)
           s == SubSeq(bs, 1, k - 1)
<1>1. /\ bs \in Seq(BlockSet) /\ Len(bs) \in Nat /\ DOMAIN bs = 1..Len(bs)
      /\ \A i \in 1..Len(bs) : bs[i].height \in 1..n /\ bs[i] = BlockOf(ch, bs[i].height)
      /\ \A i, j \in 1..Len(bs) : i < j => bs[i].height < bs[j].height
      /\ \A h \in 1..n : h > a /\ h > b => \E i \in 1..Len(bs) : bs[i] = BlockOf(ch, h)
    BY LenProperties DEF Follows
<1>2. CASE above = {}
    <2>1. \A i \in 1..Len(bs) : bs[i].height \in 1..(n - 1)
        BY <1>1, <1>2
    <2>2. Follows(bs, ch, n - 1, a, b)
        BY <1>1, <2>1 DEF Follows
    <2> QED
        BY <1>2, <2>2 DEF CutAt
<1>3. CASE above # {}
    <2>1. above \in SUBSET Nat
        BY <1>1
    <2>2. k \in above /\ \A i \in above : k <= i
        <3> HIDE DEF above
        <3> QED
            BY <1>3, <2>1, MinProperties
    <2>3. k \in 1..Len(bs) /\ bs[k].height > n - 1
        BY <1>1, <2>2
    <2> HIDE DEF k
    <2>4. /\ s \in Seq(BlockSet) /\ Len(s) = k - 1
          /\ \A i \in 1..(k - 1) : s[i] = bs[i]
        <3>1. k - 1 \in Int /\ \A i \in 1..(k - 1) : bs[i] \in BlockSet
            BY <1>1, <2>3, ElementOfSeq
        <3>2. /\ s \in Seq(BlockSet) /\ Len(s) = IF 1 <= k - 1 THEN k - 1 - 1 + 1 ELSE 0
              /\ \A i \in 1..(k - 1 - 1 + 1) : s[i] = bs[1 + i - 1]
            BY <3>1, SubSeqProperties
        <3> QED
            BY <1>1, <2>3, <3>2
    <2>5. \A i \in 1..(k - 1) : i \in 1..Len(bs) /\ bs[i].height \in 1..(n - 1)
        BY <1>1, <2>2, <2>3
    <2> HIDE DEF s
    <2>6. \A h \in 1..(n - 1) : h > a /\ h > b => \E i \in 1..Len(s) : s[i] = BlockOf(ch, h)
        <3> SUFFICES ASSUME NEW h \in 1..(n - 1), h > a, h > b
                     PROVE  \E i \in 1..Len(s) : s[i] = BlockOf(ch, h)
            OBVIOUS
        <3>1. PICK i \in 1..Len(bs) : bs[i] = BlockOf(ch, h)
            BY <1>1
        <3>2. bs[i].height = h
            BY <3>1 DEF BlockOf
        <3>3. i < k
            <4>1. bs[k].height \in 1..n /\ ~(bs[k].height <= h)
                BY <1>1, <2>3
            <4>2. CASE k < i
                BY <1>1, <2>3, <3>2, <4>1, <4>2
            <4>3. CASE k = i
                BY <3>2, <4>1, <4>3
            <4> QED
                BY <1>1, <2>3, <4>2, <4>3
        <3>4. i \in 1..(k - 1)
            BY <1>1, <2>3, <3>3
        <3> QED
            BY <2>4, <3>1, <3>4
    <2>7. Follows(s, ch, n - 1, a, b)
        BY <1>1, <2>4, <2>5, <2>6 DEF Follows
    <2> HIDE DEF above
    <2>8. CutAt(bs, above) = s
        BY <1>3 DEF CutAt, s, k
    <2> QED
        BY <2>7, <2>8 DEF above
<1> QED
    BY <1>2, <1>3

(* A rescan from height lo on.                                             *)
LEMMA FollowsRescan ==
    ASSUME SaveInv, NEW lo \in Nat \ {0}, NEW b \in Nat, lo <= b + 1
    PROVE  Follows(BlocksFrom(lo), chain, Best, 0, b)
<1> DEFINE s == BlocksFrom(lo)
           k == IF Best - lo + 1 < 0 THEN 0 ELSE Best - lo + 1
<1>1. Best \in Nat /\ \A h \in 1..Best : chain[h] \in Nat
    <2>1. chain \in Seq(Nat)
        BY DEF SaveInv, Types
    <2> QED
        BY <2>1, LenProperties, ElementOfSeq DEF Best
<1>2. k \in Nat /\ s = [i \in 1..k |-> BlockOf(chain, lo + i - 1)]
    <2>1. 1..(Best - lo + 1) = 1..k
        BY <1>1
    <2> QED
        BY <1>1, <2>1 DEF BlocksFrom, Block, BlockOf
<1> HIDE DEF s
<1>3. \A i \in 1..k : lo + i - 1 \in 1..Best /\ BlockOf(chain, lo + i - 1) \in BlockSet
    <2> SUFFICES ASSUME NEW i \in 1..k
                 PROVE  lo + i - 1 \in 1..Best /\ BlockOf(chain, lo + i - 1) \in BlockSet
        OBVIOUS
    <2>1. lo + i - 1 \in 1..Best
        BY <1>1
    <2> QED
        BY <1>1, <2>1 DEF BlockOf, BlockSet
<1> HIDE DEF k
<1>4. s \in Seq(BlockSet) /\ Len(s) = k
    <2>1. s \in Seq(BlockSet)
        <3>1. s \in [1..k -> BlockSet]
            BY <1>2, <1>3
        <3> QED
            BY <1>2, <3>1, SeqDef
    <2>2. DOMAIN s = 1..k /\ DOMAIN s = 1..Len(s) /\ Len(s) \in Nat
        BY <1>2, <2>1, LenProperties
    <2> QED
        BY <1>2, <2>1, <2>2
<1>5. \A i \in 1..k : s[i].height = lo + i - 1
    BY <1>2 DEF BlockOf
<1>6. \A i \in 1..k : s[i].height \in 1..Best /\ s[i] = BlockOf(chain, s[i].height)
    BY <1>2, <1>3, <1>5
<1>7. \A i, j \in 1..k : i < j => s[i].height < s[j].height
    <2> SUFFICES ASSUME NEW i \in 1..k, NEW j \in 1..k, i < j PROVE s[i].height < s[j].height
        OBVIOUS
    <2>1. s[i].height = lo + i - 1 /\ s[j].height = lo + j - 1
        BY <1>5
    <2> QED
        BY <1>2, <2>1
<1>8. ASSUME NEW h \in 1..Best, h > b PROVE \E i \in 1..k : s[i] = BlockOf(chain, h)
    <2> DEFINE i == h - lo + 1
    <2>1. i \in 1..k /\ lo + i - 1 = h
        BY <1>1, <1>8 DEF k
    <2> QED
        BY <1>2, <2>1
<1> QED
    BY <1>4, <1>6, <1>7, <1>8 DEF Follows, s

-----------------------------------------------------------------------------
LEMMA StartType == \A p \in Keys : Start[p] \in Nat \ {0}
<1>1. Start \in [Keys -> Nat \ {0}]
    BY PeriodAssumption
<1> QED
    BY <1>1

LEMMA MaxOfTwo ==
    ASSUME NEW a \in Nat, NEW b \in Nat
    PROVE  Max({a, b}) = IF a >= b THEN a ELSE b
BY DEF Max

LEMMA MaxOfThree ==
    ASSUME NEW a \in Nat, NEW b \in Nat, NEW c \in Nat
    PROVE  /\ Max({a, b, c}) \in {a, b, c} /\ Max({a, b, c}) >= a
           /\ Max({a, b, c}) >= b /\ Max({a, b, c}) >= c
<1>1. \E x \in {a, b, c} : \A y \in {a, b, c} : x >= y
    <2>1. CASE a >= b /\ a >= c
        BY <2>1
    <2>2. CASE b >= a /\ b >= c
        BY <2>2
    <2>3. CASE c >= a /\ c >= b
        BY <2>3
    <2> QED
        BY <2>1, <2>2, <2>3
<1> QED
    BY <1>1 DEF Max

(* After a restart a derived state is made from the chain from its start   *)
(* height on, or from the block after it.                                  *)
LEMMA RescanFollows ==
    ASSUME SaveInv, NEW p \in Derived
    PROVE  Follows(Rescanned(p), chain, Best, 0, Start[p])
<1>1. p \in Skipped /\ p \in Keys
    BY RestoreAssumption
<1>2. \A q \in Keys : HeightAfterRestore(q) \in Nat
    <2> SUFFICES ASSUME NEW q \in Keys PROVE HeightAfterRestore(q) \in Nat
        OBVIOUS
    <2>1. default[q].height \in Heights
        BY DEF SaveInv, DefaultOK
    <2> QED
        BY <2>1, RestoredHeight, Constants DEF Heights
<1>3. HeightAfterRestore(p) = 0 /\ p \notin Restored
    BY <1>1, RestoredHeight DEF Restored
<1> DEFINE T == {Max({HeightAfterRestore(q), Start[q]}) : q \in Keys}
           first == Max({SafeHeight + 1, HeightAfterRestore(p) + 1, Start[p]})
<1>4. T \in SUBSET Nat /\ Start[p] \in T
    <2>1. \A q \in Keys : Max({HeightAfterRestore(q), Start[q]}) \in Nat
        BY <1>2, StartType, MaxOfTwo
    <2>2. Max({HeightAfterRestore(p), Start[p]}) = Start[p]
        BY <1>1, <1>3, StartType, MaxOfTwo
    <2> QED
        BY <1>1, <2>1, <2>2
<1>5. SafeHeight = Min(T)
    BY DEF SafeHeight
<1> HIDE DEF T
<1>6. SafeHeight \in Nat /\ SafeHeight <= Start[p]
    BY <1>4, <1>5, MinProperties
<1>7. first \in Nat \ {0} /\ first <= Start[p] + 1
    <2>1. SafeHeight + 1 \in Nat /\ HeightAfterRestore(p) + 1 = 1 /\ Start[p] \in Nat \ {0}
        BY <1>1, <1>3, <1>6, StartType
    <2>2. first \in {SafeHeight + 1, 1, Start[p]}
        BY <2>1, MaxOfThree
    <2> HIDE DEF first
    <2> QED
        BY <1>6, <2>1, <2>2
<1>8. Rescanned(p) = <<>> \o BlocksFrom(first)
    BY <1>3 DEF Rescanned
<1> HIDE DEF first
<1>9. Follows(BlocksFrom(first), chain, Best, 0, Start[p])
    BY <1>1, <1>7, StartType, FollowsRescan
<1>10. BlocksFrom(first) \in Seq(BlockSet)
    BY <1>9 DEF Follows
<1> QED
    BY <1>8, <1>9, <1>10, ConcatEmptySeq

(* Nothing a derived state depends on changes.                             *)
LEMMA ApplyUnchanged ==
    ASSUME ApplyInv, UNCHANGED <<chain, applied, height, todo, up>>
    PROVE  ApplyInv'
BY DEF ApplyInv, Best

LEMMA ConnectApply ==
    ASSUME SaveInv, ApplyInv, Connect
    PROVE  ApplyInv'
<1>1. /\ todo = <<>> /\ up /\ chain' = Append(chain, forks) /\ todo' = Points
      /\ UNCHANGED <<applied, height, up>>
    BY DEF Connect, Ready
<1>2. /\ chain' \in Seq(Nat) /\ Best' = Best + 1 /\ Best \in Nat
      /\ \A h \in 1..Best : chain'[h] = chain[h]
    <2>1. chain \in Seq(Nat) /\ forks \in Nat
        BY DEF SaveInv, Types
    <2> QED
        BY <1>1, <2>1, AppendProperties, LenProperties DEF Best
<1>3. IsInjective(todo') /\ Range(todo') = Keys /\ Range(todo) = {}
    BY <1>1, PeriodAssumption DEF Keys, Range
<1>4. ASSUME NEW p \in Derived
      PROVE  p \in Range(todo') /\ Follows(applied'[p], chain', Best' - 1, height'[p], Start[p])
    <2>1. p \in Keys /\ height[p] \in Nat /\ Start[p] \in Nat
        BY RestoreAssumption, StartType, Constants DEF SaveInv, Types, Heights
    <2>2. Follows(applied[p], chain, Best, height[p], Start[p])
        BY <1>1, <1>3 DEF ApplyInv
    <2>3. Follows(applied[p], chain', Best, height[p], Start[p])
        BY <1>2, <2>1, <2>2, FollowsLonger
    <2>4. Best' - 1 = Best
        BY <1>2
    <2> QED
        BY <1>1, <1>3, <2>1, <2>3, <2>4
<1>5. applied' = [p \in Keys |-> applied'[p]]
    BY <1>1 DEF ApplyInv
<1> QED
    BY <1>3, <1>4, <1>5 DEF ApplyInv

(* The first of a list of distinct elements is not among the others.       *)
LEMMA TailRange ==
    ASSUME NEW S, NEW s \in Seq(S), s # <<>>, IsInjective(s)
    PROVE  /\ Head(s) \in S /\ Tail(s) \in Seq(S) /\ IsInjective(Tail(s))
           /\ Range(s) = Range(Tail(s)) \cup {Head(s)} /\ Head(s) \notin Range(Tail(s))
<1> DEFINE t == Tail(s)
<1>1. Len(s) \in Nat \ {0} /\ DOMAIN s = 1..Len(s) /\ Head(s) = s[1]
    BY EmptySeq, LenProperties
<1>2. Head(s) \in S /\ t \in Seq(S) /\ Len(t) = Len(s) - 1 /\ \A i \in 1..Len(t) : t[i] = s[i + 1]
    BY HeadTailProperties
<1> HIDE DEF t
<1>3. DOMAIN t = 1..Len(t) /\ Len(t) \in Nat
    BY <1>2, LenProperties
<1>4. \A i \in 1..Len(t) : i + 1 \in 1..Len(s) /\ i + 1 # 1
    BY <1>1, <1>2, <1>3
<1>5. \A i, j \in 1..Len(s) : s[i] = s[j] => i = j
    BY <1>1 DEF IsInjective
<1>6. IsInjective(t)
    <2> SUFFICES ASSUME NEW i \in 1..Len(t), NEW j \in 1..Len(t), t[i] = t[j] PROVE i = j
        BY <1>3 DEF IsInjective
    <2>1. i + 1 = j + 1
        BY <1>2, <1>4, <1>5
    <2> QED
        BY <1>3, <2>1
<1>7. Head(s) \notin Range(t)
    <2> SUFFICES ASSUME NEW i \in 1..Len(t), t[i] = s[1] PROVE FALSE
        BY <1>1, <1>3 DEF Range
    <2>1. s[i + 1] = s[1] /\ 1 \in 1..Len(s)
        BY <1>1, <1>2
    <2> QED
        BY <1>4, <1>5, <2>1
<1>8. Range(t) \subseteq Range(s)
    <2>1. \A i \in 1..Len(t) : t[i] \in {s[j] : j \in 1..Len(s)}
        BY <1>2, <1>4
    <2> QED
        BY <1>1, <1>3, <2>1 DEF Range
<1>9. ASSUME NEW i \in 1..Len(s), i # 1 PROVE s[i] \in Range(t)
    <2>1. i - 1 \in 1..Len(t) /\ (i - 1) + 1 = i
        BY <1>1, <1>2, <1>9
    <2>2. t[i - 1] = s[i]
        BY <1>2, <2>1
    <2> QED
        BY <1>3, <2>1, <2>2 DEF Range
<1>10. Head(s) \in Range(s)
    BY <1>1 DEF Range
<1>11. Range(s) \subseteq Range(t) \cup {Head(s)}
    BY <1>1, <1>9 DEF Range
<1> QED
    BY <1>2, <1>6, <1>7, <1>8, <1>10, <1>11 DEF t

LEMMA ProcessPointApply ==
    ASSUME SaveInv, ApplyInv, ProcessPoint
    PROVE  ApplyInv'
<1>1. PICK p : p = Head(todo)
    OBVIOUS
<1> DEFINE bs == OnBlockSaved(p, applied[p], Block(Best))
<1>2. /\ up /\ up' = up /\ todo # <<>> /\ todo' = Tail(todo) /\ chain' = chain
      /\ applied' = [applied EXCEPT ![p] = bs]
      /\ height' = height \/ height' = [height EXCEPT ![p] = Best]
    BY <1>1 DEF ProcessPoint
<1>3. /\ p \in Keys /\ IsInjective(todo') /\ p \notin Range(todo')
      /\ Range(todo) = Range(todo') \cup {p}
    <2>1. todo \in Seq(Keys) /\ IsInjective(todo)
        BY DEF SaveInv, Types, ApplyInv
    <2> QED
        BY <1>1, <1>2, <2>1, TailRange
<1>4. /\ Best \in Nat \ {0} /\ Best' = Best /\ \A h \in 1..Best : chain[h] \in Nat
      /\ height \in [Keys -> Nat] /\ \A q \in Keys : height[q] <= Best \/ height[q] >= Best
    <2>1. chain \in Seq(Nat) /\ Settled <= Best /\ Settled \in Nat \ {0}
        BY Constants DEF SaveInv, Types
    <2>2. Best \in Nat /\ \A h \in 1..Best : chain[h] \in Nat
        BY <2>1, LenProperties, ElementOfSeq DEF Best
    <2>3. height \in [Keys -> Nat]
        BY Constants DEF SaveInv, Types, Heights
    <2>4. Best' = Best
        BY <1>2 DEF Best
    <2> QED
        BY <2>1, <2>2, <2>3, <2>4
<1>5. applied' = [q \in Keys |-> applied'[q]] /\ applied'[p] = bs
      /\ \A q \in Keys : q # p => applied'[q] = applied[q] /\ height'[q] = height[q]
    BY <1>2, <1>3, <1>4 DEF ApplyInv
<1> HIDE DEF bs
<1>6. ASSUME NEW q \in Derived, q # p
      PROVE  Follows(applied'[q], chain', IF q \in Range(todo') THEN Best' - 1 ELSE Best', height'[q], Start[q])
    <2>1. q \in Keys
        BY RestoreAssumption
    <2>2. q \in Range(todo') <=> q \in Range(todo)
        BY <1>3, <1>6
    <2> QED
        BY <1>2, <1>4, <1>5, <1>6, <2>1, <2>2 DEF ApplyInv
<1>7. ASSUME p \in Derived
      PROVE  Follows(applied'[p], chain', Best', height'[p], Start[p])
    <2>1. Follows(applied[p], chain, Best - 1, height[p], Start[p])
        BY <1>2, <1>3, <1>7 DEF ApplyInv
    <2>2. height[p] \in Nat /\ Start[p] \in Nat /\ chain[Best] \in Nat /\ Best \in 1..Best
        BY <1>3, <1>4, StartType
    <2>3. /\ Follows(Append(applied[p], BlockOf(chain, Best)), chain, Best, height[p], Start[p])
          /\ Best < Start[p] \/ Best <= height[p] => Follows(applied[p], chain, Best, height[p], Start[p])
        BY <1>4, <2>1, <2>2, FollowsNext
    <2>4. bs = IF Best < Start[p] \/ Best <= height[p] THEN applied[p]
               ELSE Append(applied[p], BlockOf(chain, Best))
        BY <1>7 DEF bs, OnBlockSaved, Block, BlockOf
    <2>5. Follows(bs, chain, Best, height[p], Start[p])
        BY <2>3, <2>4
    <2>6. CASE height' = height
        BY <1>2, <1>4, <1>5, <2>5, <2>6
    <2>7. CASE height' = [height EXCEPT ![p] = Best]
        <3>1. height'[p] = Best
            BY <1>3, <1>4, <2>7
        <3>2. Follows(bs, chain, Best, Best, Start[p])
            <4>1. \A h \in 1..Best : ~(h > Best)
                BY <1>4
            <4> QED
                BY <2>5, <4>1 DEF Follows
        <3> QED
            BY <1>2, <1>4, <1>5, <3>1, <3>2
    <2> QED
        BY <1>2, <2>6, <2>7
<1> QED
    BY <1>3, <1>5, <1>6, <1>7 DEF ApplyInv

LEMMA DetachApply ==
    ASSUME SaveInv, ApplyInv, Detach
    PROVE  ApplyInv'
<1>1. /\ todo = <<>> /\ up /\ Best > Settled /\ chain' = Front(chain)
      /\ applied' = IF Best - 1 >= VoteStart THEN [p \in Keys |-> OnRollbackTo(p, Best - 1)] ELSE applied
      /\ UNCHANGED <<height, todo, up>>
    BY DEF Detach, Ready
<1>2. /\ Best \in Nat \ {0} /\ Best' = Best - 1 /\ \A h \in 1..(Best - 1) : chain'[h] = chain[h]
      /\ Best - 1 >= VoteStart
    <2>1. chain \in Seq(Nat) /\ Len(chain) \in Nat /\ Settled \in Nat /\ VoteStart \in Nat /\ VoteStart < Settled
        BY SettledAssumption, LenProperties DEF SaveInv, Types
    <2>2. Len(chain) >= 1
        BY <1>1, <2>1 DEF Best
    <2>3. Front(chain) = [i \in 1..(Len(chain) - 1) |-> chain[i]]
        BY <2>1, <2>2 DEF Front
    <2>4. Front(chain) \in [1..(Len(chain) - 1) -> Nat]
        BY <2>1, <2>3, ElementOfSeq
    <2>5. Front(chain) \in Seq(Nat)
        BY <2>1, <2>2, <2>4, SeqDef
    <2>6. Len(Front(chain)) = Len(chain) - 1
        BY <2>1, <2>2, <2>4, <2>5, LenProperties
    <2> QED
        BY <1>1, <2>1, <2>2, <2>3, <2>6 DEF Best
<1>3. applied' = [p \in Keys |-> OnRollbackTo(p, Best - 1)]
    BY <1>1, <1>2
<1>4. Range(todo) = {} /\ Range(todo') = {} /\ IsInjective(todo')
    BY <1>1 DEF Range, ApplyInv
<1>5. ASSUME NEW p \in Derived
      PROVE  Follows(applied'[p], chain', Best', height'[p], Start[p])
    <2>1. p \in Keys /\ height[p] \in Nat /\ Start[p] \in Nat
        BY RestoreAssumption, StartType, Constants DEF SaveInv, Types, Heights
    <2>2. Follows(applied[p], chain, Best, height[p], Start[p])
        BY <1>1, <1>4 DEF ApplyInv
    <2>3. applied'[p] = CutAt(applied[p], {i \in DOMAIN applied[p] : applied[p][i].height > Best - 1})
        BY <1>3, <2>1 DEF OnRollbackTo
    <2>4. Follows(applied'[p], chain, Best - 1, height[p], Start[p])
        BY <1>2, <2>1, <2>2, <2>3, FollowsCut
    <2>5. Best - 1 \in Nat
        BY <1>2
    <2>6. Follows(applied'[p], chain', Best - 1, height[p], Start[p])
        BY <1>2, <2>1, <2>4, <2>5, FollowsLonger
    <2> QED
        BY <1>1, <1>2, <2>6
<1>6. applied' = [p \in Keys |-> applied'[p]]
    BY <1>3
<1> QED
    BY <1>4, <1>5, <1>6 DEF ApplyInv

(* A derived state holds blocks of the chain only, in order, and all above *)
(* its snapshot and its start height, for every number of reorganizations  *)
(* and restarts (Manager.OnBlockSaved, OnRollbackTo, InitCheckpoint).      *)
THEOREM StatesFollowChain == Spec => []AppliedSinceSnapshot
<1>1. Init => ApplyInv
    <2> SUFFICES ASSUME Init PROVE ApplyInv
        OBVIOUS
    <2>1. todo = <<>> /\ ~up /\ applied = [p \in Keys |-> <<>>]
        BY DEF Init
    <2>2. applied = [p \in Keys |-> applied[p]] /\ IsInjective(todo)
        BY <2>1 DEF IsInjective
    <2> QED
        BY <2>1, <2>2 DEF ApplyInv
<1>2. SaveInv /\ ApplyInv /\ [Next]_vars => ApplyInv'
    <2> SUFFICES ASSUME SaveInv, ApplyInv, [Next]_vars PROVE ApplyInv'
        OBVIOUS
    <2>1. CASE Connect
        BY <2>1, ConnectApply
    <2>2. CASE ProcessPoint
        BY <2>2, ProcessPointApply
    <2>3. CASE HandOver
        BY <2>3, ApplyUnchanged DEF HandOver
    <2>4. ASSUME NEW p \in Keys, MessageLoop(p) PROVE ApplyInv'
        BY <2>4, ApplyUnchanged DEF MessageLoop
    <2>5. CASE SetNeedSave \/ Fork \/ UNCHANGED vars
        BY <2>5, ApplyUnchanged DEF SetNeedSave, Fork, memory, vars
    <2>6. CASE Detach
        BY <2>6, DetachApply
    <2>7. CASE Crash
        <3>1. ~up' /\ todo' = <<>> /\ applied' = [p \in Keys |-> <<>>]
            BY <2>7 DEF Crash
        <3>2. applied' = [p \in Keys |-> applied'[p]] /\ IsInjective(todo')
            BY <3>1 DEF IsInjective
        <3> QED
            BY <3>1, <3>2 DEF ApplyInv
    <2>8. CASE InitCheckpoint
        <3>1. /\ ~up /\ chain' = chain /\ todo' = todo /\ todo = <<>>
              /\ height' = [p \in Keys |-> HeightAfterRestore(p)]
              /\ applied' = [p \in Keys |-> Rescanned(p)]
            BY <2>8 DEF InitCheckpoint, SaveInv, DownOK
        <3>2. applied' = [p \in Keys |-> applied'[p]] /\ IsInjective(todo') /\ Range(todo') = {}
            BY <3>1 DEF Range, ApplyInv
        <3>3. ASSUME NEW p \in Derived
              PROVE  Follows(applied'[p], chain', Best', height'[p], Start[p])
            <4>1. p \in Keys /\ p \in Skipped
                BY RestoreAssumption
            <4>2. height'[p] = 0 /\ applied'[p] = Rescanned(p) /\ Best' = Best
                BY <3>1, <4>1, RestoredHeight DEF Best
            <4> QED
                BY <3>1, <4>2, RescanFollows
        <3> QED
            BY <3>2, <3>3 DEF ApplyInv
    <2> QED
        BY <2>1, <2>2, <2>3, <2>4, <2>5, <2>6, <2>7, <2>8 DEF Next
<1>3. ApplyInv => AppliedSinceSnapshot
    <2> SUFFICES ASSUME ApplyInv, Ready, NEW p \in Derived
                 PROVE  /\ Range(applied[p]) \subseteq {Block(h) : h \in 1..Best}
                        /\ \A i, j \in DOMAIN applied[p] : i < j => applied[p][i].height < applied[p][j].height
                        /\ \A h \in 1..Best : h > height[p] /\ h > Start[p] => Block(h) \in Range(applied[p])
        BY DEF AppliedSinceSnapshot
    <2>1. Follows(applied[p], chain, Best, height[p], Start[p])
        BY DEF ApplyInv, Ready, Range
    <2>2. DOMAIN applied[p] = 1..Len(applied[p])
        BY <2>1, LenProperties DEF Follows
    <2>3. \A h : Block(h) = BlockOf(chain, h)
        BY DEF Block, BlockOf
    <2> QED
        BY <2>1, <2>2, <2>3 DEF Follows, Range
<1> QED
    BY <1>1, <1>2, <1>3, SaveInvariant, PTL DEF Spec

-----------------------------------------------------------------------------
(* A snapshot that was taken at height h is on disk, or the default.       *)
Held(p, h) == files[p][h] # None \/ (default[p].complete = TRUE /\ default[p].height = h)
Making(p, h) == loop[p].op = "create" /\ loop[p].height = h

(* The last snapshot of a checkpoint is on its way or held; its goroutine  *)
(* works on that one as long as no newer one is on its way.                *)
KeepOK(p) ==
    /\ height[p] > 0 => Held(p, height[p]) \/ Making(p, height[p]) \/ Queued(p)
    /\ loop[p].op = "replace" => Held(p, loop[p].height)
    /\ loop[p].op \in {"write", "clean"} => files[p][loop[p].height] # None
    /\ loop[p] # Idle => loop[p].height = height[p] \/ Queued(p)

Pending(m) ==
    m.op = "replace" =>
        /\ Held(m.point, m.height) \/ Making(m.point, m.height)
        /\ loop[m.point] # Idle => loop[m.point].height = m.height
        /\ m.height = height[m.point] \/ Queued(m.point)

KeepInv == up => (\A p \in Keys : KeepOK(p)) /\ (sends # <<>> => Pending(sends[1]))

(* A step of a goroutine leaves the snapshot it works on on disk, or makes *)
(* it the default.                                                         *)
LEMMA LoopKeeps ==
    ASSUME SaveInv, NEW p \in Keys, KeepOK(p), MessageLoop(p), NEW k, k = loop[p].height
    PROVE  /\ loop[p] # Idle /\ k \in Heights
           /\ Held(p, k)'
           /\ loop'[p] = Idle \/ (loop'[p].height = k /\ loop'[p].op \in {"write", "clean", "rename"})
           /\ loop'[p].op \in {"write", "clean"} => files'[p][k] # None
           /\ \A q \in Keys : q # p =>
                loop'[q] = loop[q] /\ files'[q] = files[q] /\ default'[q] = default[q]
<1>a. Idle.op = "idle" /\ Shapes /\ LoopOK(p) /\ FilesOK(p)
    BY DEF SaveInv, Idle
<1>b. /\ loop[p].op \in {"create", "write", "clean", "replace", "rename"} /\ loop[p] # Idle
      /\ IsMessage(loop[p]) /\ k \in Heights
    <2>1. loop[p].op # "idle"
        BY DEF MessageLoop, Create, Write, CleanCheckpoints, NoSource, RemoveDefault, Rename
    <2> QED
        BY <1>a, <2>1 DEF LoopOK, IsMessage
<1>c. ASSUME NEW op, Goto(p, op)
      PROVE  /\ \A q \in Keys : q # p => loop'[q] = loop[q]
             /\ loop'[p].op = op /\ loop'[p].height = k
    BY <1>a, <1>b, <1>c, LoopMoves
<1>d. ASSUME Reply(p)
      PROVE  loop'[p] = Idle /\ \A q \in Keys : q # p => loop'[q] = loop[q]
    BY <1>a, <1>d, LoopReplies
<1>e. ASSUME NEW x, PutFile(p, k, x)
      PROVE  files'[p][k] = x /\ \A q \in Keys : q # p => files'[q] = files[q]
    BY <1>a, <1>b, <1>e, FilePut
<1>1. CASE Create(p)
    <2>1. Goto(p, "write") /\ UNCHANGED default /\ PutFile(p, k, Torn)
        BY <1>1 DEF Create, PutFile
    <2>2. loop'[p].op = "write" /\ loop'[p].height = k /\ \A q \in Keys : q # p => loop'[q] = loop[q]
        BY <1>c, <2>1
    <2>3. files'[p][k] = Torn /\ \A q \in Keys : q # p => files'[q] = files[q]
        BY <1>e, <2>1
    <2> QED
        BY <1>b, <2>1, <2>2, <2>3, FileKinds DEF Held
<1>2. CASE Write(p)
    <2>1. PICK x : x = Snapshot(loop[p].height, loop[p].blocks)
        OBVIOUS
    <2>2. Goto(p, "clean") /\ UNCHANGED default /\ PutFile(p, k, x) /\ x # None
        BY <1>2, <2>1, FileKinds DEF Write, PutFile
    <2>3. loop'[p].op = "clean" /\ loop'[p].height = k /\ \A q \in Keys : q # p => loop'[q] = loop[q]
        BY <1>c, <2>2
    <2>4. files'[p][k] = x /\ \A q \in Keys : q # p => files'[q] = files[q]
        BY <1>e, <2>2
    <2> QED
        BY <1>b, <2>2, <2>3, <2>4 DEF Held
<1>3. CASE CleanCheckpoints(p)
    <2>1. loop[p].op = "clean" /\ Reply(p) /\ UNCHANGED default
        BY <1>3 DEF CleanCheckpoints
    <2>2. files[p][k] # None
        BY <2>1 DEF KeepOK
    <2>3. files'[p][k] = files[p][k] /\ \A q \in Keys : q # p => files'[q] = files[q]
        <3>1. PICK kept : kept = Kept(p, loop[p].height)
            OBVIOUS
        <3>2. k \in kept
            BY <3>1 DEF Kept
        <3>3. files = [q \in Keys |-> [h \in Heights |-> files[q][h]]]
            BY <1>a DEF Shapes
        <3>4. files' = [files EXCEPT ![p] = [h \in Heights |-> IF h \in kept THEN files[p][h] ELSE None]]
            BY <1>3, <3>1, <3>3 DEF CleanCheckpoints
        <3>5. files'[p] = [h \in Heights |-> IF h \in kept THEN files[p][h] ELSE None]
            BY <3>3, <3>4
        <3>6. \A q \in Keys : q # p => files'[q] = files[q]
            BY <3>3, <3>4
        <3> QED
            BY <1>b, <3>2, <3>5, <3>6
    <2>4. loop'[p] = Idle /\ \A q \in Keys : q # p => loop'[q] = loop[q]
        BY <1>d, <2>1
    <2> QED
        BY <1>a, <1>b, <2>1, <2>2, <2>3, <2>4 DEF Held
<1>4. CASE NoSource(p)
    <2>1. loop[p].op = "replace" /\ files[p][k] = None /\ Reply(p) /\ UNCHANGED <<files, default>>
        BY <1>4 DEF NoSource, SourceExists, disk
    <2>2. default[p].complete = TRUE /\ default[p].height = k
        BY <2>1 DEF KeepOK, Held
    <2>3. loop'[p] = Idle /\ \A q \in Keys : q # p => loop'[q] = loop[q]
        BY <1>d, <2>1
    <2> QED
        BY <1>a, <1>b, <2>1, <2>2, <2>3 DEF Held
<1>5. CASE RemoveDefault(p)
    <2>1. /\ Goto(p, "rename") /\ files[p][k] # None /\ UNCHANGED files
          /\ default' = [default EXCEPT ![p] = None]
        BY <1>5 DEF RemoveDefault, SourceExists
    <2>2. \A q \in Keys : q # p => default'[q] = default[q]
        BY <1>a, <2>1 DEF Shapes
    <2>3. loop'[p].op = "rename" /\ loop'[p].height = k /\ \A q \in Keys : q # p => loop'[q] = loop[q]
        BY <1>c, <2>1
    <2> QED
        BY <1>b, <2>1, <2>2, <2>3 DEF Held
<1>6. CASE Rename(p)
    <2>1. /\ loop[p].op = "rename" /\ Reply(p) /\ PutFile(p, k, None)
          /\ default' = [default EXCEPT ![p] = files[p][k]]
        BY <1>6 DEF Rename, PutFile
    <2>2. files[p][k].complete = TRUE /\ files[p][k].height = k
        BY <1>a, <1>b, <2>1 DEF LoopOK, FilesOK, Replacing
    <2>3. default'[p] = files[p][k] /\ \A q \in Keys : q # p => default'[q] = default[q]
        BY <1>a, <2>1 DEF Shapes
    <2>4. loop'[p] = Idle /\ \A q \in Keys : q # p => loop'[q] = loop[q]
        BY <1>d, <2>1
    <2>5. files'[p][k] = None /\ \A q \in Keys : q # p => files'[q] = files[q]
        BY <1>e, <2>1
    <2> QED
        BY <1>a, <1>b, <2>2, <2>3, <2>4, <2>5 DEF Held
<1> QED
    BY <1>1, <1>2, <1>3, <1>4, <1>5, <1>6 DEF MessageLoop

LEMMA MessageLoopKeep ==
    ASSUME SaveInv, KeepInv, NEW p \in Keys, MessageLoop(p)
    PROVE  KeepInv'
<1>1. up /\ up' /\ height' = height /\ sends' = sends /\ KeepOK(p)
    BY DEF MessageLoop, KeepInv
<1>2. PICK k : k = loop[p].height
    OBVIOUS
<1>3. /\ loop[p] # Idle /\ k \in Heights /\ Held(p, k)'
      /\ loop'[p] = Idle \/ (loop'[p].height = k /\ loop'[p].op \in {"write", "clean", "rename"})
      /\ loop'[p].op \in {"write", "clean"} => files'[p][k] # None
      /\ \A q \in Keys : q # p =>
           loop'[q] = loop[q] /\ files'[q] = files[q] /\ default'[q] = default[q]
    BY <1>1, <1>2, LoopKeeps
<1>4. Held(p, k)'
    BY <1>3
<1>5. Idle.op = "idle"
    BY DEF Idle
<1>6. \A q : Queued(q)' = Queued(q)
    BY <1>1 DEF Queued
<1>7. k = height[p] \/ Queued(p)
    BY <1>1, <1>2, <1>3 DEF KeepOK
<1>8. KeepOK(p)'
    <2>1. height'[p] > 0 => Held(p, height[p])' \/ Queued(p)'
        <3>1. CASE k = height[p]
            BY <1>1, <1>4, <3>1 DEF Held
        <3>2. CASE Queued(p)
            BY <1>6, <3>2
        <3> QED
            BY <1>7, <3>1, <3>2
    <2>2. loop'[p].op # "replace"
        BY <1>3, <1>5
    <2>3. loop'[p].op \in {"write", "clean"} => loop'[p].height = k
        BY <1>3, <1>5
    <2>4. loop'[p] # Idle => loop'[p].height = height'[p] \/ Queued(p)'
        BY <1>1, <1>3, <1>6, <1>7
    <2> QED
        BY <1>1, <1>3, <2>1, <2>2, <2>3, <2>4 DEF KeepOK, Held
<1>9. ASSUME NEW q \in Keys, q # p PROVE KeepOK(q)'
    <2>1. KeepOK(q)
        BY <1>1 DEF KeepInv
    <2> QED
        BY <1>1, <1>3, <1>6, <1>9, <2>1 DEF KeepOK, Held, Making
<1>10. ASSUME sends # <<>> PROVE Pending(sends[1])'
    <2>1. PICK m : m = sends[1]
        OBVIOUS
    <2>2. Pending(m) /\ m.point \in Keys
        <3>1. ReplaceOK(m) \/ CreateOK(m)
            BY <1>10, <2>1 DEF SaveInv, SendsOK
        <3> QED
            BY <1>1, <1>10, <2>1, <3>1 DEF KeepInv, ReplaceOK, CreateOK, IsMessage
    <2>3. Pending(m)'
        <3> SUFFICES ASSUME m.op = "replace"
                     PROVE  /\ Held(m.point, m.height)' \/ Making(m.point, m.height)'
                            /\ loop'[m.point] # Idle => loop'[m.point].height = m.height
                            /\ m.height = height'[m.point] \/ Queued(m.point)'
            BY DEF Pending
        <3>1. CASE m.point = p
            <4>1. m.height = k
                BY <1>2, <1>3, <2>2, <3>1 DEF Pending
            <4>2. Held(m.point, m.height)'
                BY <1>4, <3>1, <4>1
            <4> QED
                BY <1>1, <1>3, <1>6, <2>2, <3>1, <4>1, <4>2 DEF Pending
        <3>2. CASE m.point # p
            BY <1>1, <1>3, <1>6, <2>2, <3>2 DEF Pending, Held, Making
        <3> QED
            BY <3>1, <3>2
    <2>4. sends'[1] = m
        BY <1>1, <2>1
    <2> QED
        BY <1>1, <2>1, <2>3, <2>4 DEF Pending, Held, Making, Queued
<1> QED
    BY <1>1, <1>8, <1>9, <1>10 DEF KeepInv, Pending, Held, Making, Queued

(* A goroutine that takes a message has finished the one before, so that   *)
(* the file it is to rename is there.                                      *)
LEMMA HandOverKeep ==
    ASSUME SaveInv, KeepInv, HandOver
    PROVE  KeepInv'
<1>a. PICK m : m = sends[1]
    OBVIOUS
<1>b. PICK c : c = sends[2]
    OBVIOUS
<1>c. PICK q : q = m.point
    OBVIOUS
<1>d. Idle.op = "idle"
    BY DEF Idle
<1>1. up /\ up' /\ sends # <<>> /\ UNCHANGED <<height, files, default>>
    BY DEF HandOver, disk
<1>2. \/ sends = <<m>> /\ ReplaceOK(m)
      \/ sends = <<m>> /\ CreateOK(m)
      \/ sends = <<m, c>> /\ ReplaceOK(m) /\ CreateOK(c) /\ c.point = q
    BY <1>a, <1>b, <1>c, <1>1 DEF SaveInv, SendsOK
<1>3. Head(sends) = m /\ sends' = Tail(sends)
    BY <1>a, <1>1 DEF HandOver
<1>4. q \in Keys /\ m.op \in {"replace", "create"} /\ loop[q] = Idle /\ loop' = [loop EXCEPT ![q] = m]
    BY <1>c, <1>2, <1>3 DEF ReplaceOK, CreateOK, IsMessage, HandOver
<1>5. loop'[q] = m /\ \A p \in Keys : p # q => loop'[p] = loop[p]
    BY <1>4 DEF SaveInv, Shapes
<1>6. \A p \in Keys : KeepOK(p)
    BY <1>1 DEF KeepInv
<1>7. \A p, h : Held(p, h)' = Held(p, h)
    BY <1>1 DEF Held
<1>8. ASSUME NEW p \in Keys, p # q PROVE KeepOK(p)'
    <2>1. ~Queued(p)
        BY <1>c, <1>2, <1>8 DEF Queued
    <2> QED
        BY <1>1, <1>5, <1>6, <1>8, <2>1 DEF KeepOK, Held, Making
<1>9. CASE m.op = "replace"
    <2>1. Held(q, m.height) /\ (m.height = height[q] \/ Queued(q))
        BY <1>a, <1>c, <1>d, <1>1, <1>4, <1>9 DEF KeepInv, Pending, Making
    <2>2. CASE sends = <<m>>
        <3>1. sends' = <<>> /\ ~Queued(q)
            BY <1>3, <1>9, <2>2 DEF Queued
        <3>2. KeepOK(q)'
            BY <1>d, <1>1, <1>4, <1>5, <1>9, <2>1, <3>1, <1>6 DEF KeepOK, Held, Making
        <3> QED
            BY <1>8, <3>1, <3>2 DEF KeepInv
    <2>3. CASE sends = <<m, c>> /\ CreateOK(c) /\ c.point = q
        <3>1. sends' = <<c>> /\ c.op = "create"
            BY <1>3, <2>3 DEF CreateOK
        <3>2. Queued(q)'
            BY <2>3, <3>1 DEF Queued
        <3>3. KeepOK(q)'
            BY <1>1, <1>5, <1>9, <2>1, <3>2 DEF KeepOK, Held
        <3> QED
            BY <1>8, <3>1, <3>3 DEF KeepInv, Pending
    <2> QED
        BY <1>2, <1>9, <2>2, <2>3 DEF CreateOK
<1>10. CASE m.op = "create"
    <2>1. sends = <<m>> /\ m.height = height[q]
        BY <1>c, <1>2, <1>10 DEF ReplaceOK, CreateOK
    <2>2. sends' = <<>>
        BY <1>3, <2>1
    <2>3. KeepOK(q)'
        BY <1>1, <1>5, <1>10, <2>1 DEF KeepOK, Making
    <2> QED
        BY <1>8, <2>2, <2>3 DEF KeepInv
<1> QED
    BY <1>4, <1>9, <1>10

LEMMA ProcessPointKeep ==
    ASSUME SaveInv, KeepInv, ProcessPoint
    PROVE  KeepInv'
<1>a. PICK p : p = Head(todo)
    OBVIOUS
<1>b. PICK bs : bs = OnBlockSaved(p, applied[p], Block(Best))
    OBVIOUS
<1>c. PICK r : r = [op |-> "replace", point |-> p, height |-> height[p]]
    OBVIOUS
<1>d. PICK c : c = [op |-> "create", point |-> p, height |-> Best, blocks |-> bs]
    OBVIOUS
<1>e. PICK live \in BOOLEAN : live = (needSave /\ Best >= Start[p])
    OBVIOUS
<1>1. /\ up /\ up' /\ todo # <<>> /\ sends = <<>>
      /\ sends' = IF live THEN Messages(p, bs) ELSE <<>>
      /\ height' = IF live /\ SaveDue(p) THEN [height EXCEPT ![p] = Best] ELSE height
      /\ UNCHANGED <<loop, files, default>>
    BY <1>a, <1>b, <1>e DEF ProcessPoint, disk
<1>2. p \in Keys /\ height \in [Keys -> Heights]
    BY <1>a, <1>1, HeadTailProperties DEF SaveInv, Types
<1>3. /\ r.op = "replace" /\ r.point = p /\ r.height = height[p]
      /\ c.op = "create" /\ c.point = p
    BY <1>c, <1>d
<1>4. \A q \in Keys : KeepOK(q) /\ ~Queued(q)
    BY <1>1 DEF KeepInv, Queued
<1>5. \A q \in Keys : q # p => height'[q] = height[q]
    BY <1>1, <1>2
<1>6. \A q \in Keys : height'[q] = height[q] => KeepOK(q)'
    BY <1>1, <1>4 DEF KeepOK, Held, Making
<1>7. /\ live /\ ReplaceDue(p) /\ SaveDue(p) => sends' = <<r, c>>
      /\ live /\ ReplaceDue(p) /\ ~SaveDue(p) => sends' = <<r>>
      /\ live /\ ~ReplaceDue(p) /\ SaveDue(p) => sends' = <<c>>
      /\ ~live \/ (~ReplaceDue(p) /\ ~SaveDue(p)) => sends' = <<>>
    BY <1>c, <1>d, <1>1, MessageKinds
<1>8. live /\ SaveDue(p) => Queued(p)'
    <2> SUFFICES ASSUME live, SaveDue(p) PROVE Queued(p)'
        OBVIOUS
    <2>1. CASE sends' = <<r, c>>
        BY <1>3, <2>1 DEF Queued
    <2>2. CASE sends' = <<c>>
        BY <1>3, <2>2 DEF Queued
    <2> QED
        BY <1>7, <2>1, <2>2
<1>9. KeepOK(p)'
    <2>1. CASE live /\ SaveDue(p)
        BY <1>1, <1>2, <1>4, <1>8, <2>1 DEF KeepOK, Held
    <2>2. CASE ~(live /\ SaveDue(p))
        BY <1>1, <1>2, <1>6, <2>2
    <2> QED
        BY <2>1, <2>2
<1>10. ReplaceDue(p) /\ live => Pending(r)'
    <2> SUFFICES ASSUME ReplaceDue(p), live PROVE Pending(r)'
        OBVIOUS
    <2>1. height[p] > 0
        BY DEF ReplaceDue
    <2>2. Held(p, height[p]) \/ Making(p, height[p])
        BY <1>2, <1>4, <2>1 DEF KeepOK
    <2>3. loop[p] # Idle => loop[p].height = height[p]
        BY <1>2, <1>4 DEF KeepOK
    <2>4. height'[p] = height[p] \/ Queued(p)'
        BY <1>1, <1>8
    <2> QED
        BY <1>1, <1>3, <2>2, <2>3, <2>4 DEF Pending, Held, Making
<1>11. Pending(c)'
    BY <1>3 DEF Pending
<1>12. sends' # <<>> => Pending(sends[1])'
    <2>1. CASE sends' = <<r, c>> \/ sends' = <<r>>
        <3>1. sends'[1] = r
            BY <2>1
        <3>2. live /\ ReplaceDue(p)
            <4>1. r # c /\ <<r>> # <<c>> /\ <<r>> # <<>> /\ <<r, c>> # <<c>> /\ <<r, c>> # <<>>
                BY <1>3
            <4> QED
                BY <1>7, <2>1, <4>1
        <3> QED
            BY <1>10, <3>1, <3>2 DEF Pending, Held, Making, Queued
    <2>2. CASE sends' = <<c>>
        <3>1. sends'[1] = c
            BY <2>2
        <3> QED
            BY <1>3, <3>1 DEF Pending
    <2> QED
        BY <1>7, <2>1, <2>2
<1> QED
    BY <1>1, <1>5, <1>6, <1>9, <1>12 DEF KeepInv

(* A restarted node has loaded what it takes for its last snapshot.        *)
LEMMA InitCheckpointKeep ==
    ASSUME SaveInv, InitCheckpoint
    PROVE  KeepInv'
<1>1. /\ ~up /\ height' = [p \in Keys |-> HeightAfterRestore(p)]
      /\ UNCHANGED <<sends, loop, files, default>>
    BY DEF InitCheckpoint, disk
<1>2. sends = <<>> /\ \A p \in Keys : loop[p] = Idle
    BY <1>1 DEF SaveInv, DownOK
<1>3. Idle.op = "idle"
    BY DEF Idle
<1>4. ASSUME NEW p \in Keys PROVE KeepOK(p)'
    <2>1. height'[p] = IF p \notin Skipped /\ default[p].complete THEN default[p].height ELSE 0
        BY <1>1, RestoredHeight
    <2>2. default[p] # None => default[p].complete = TRUE
        BY DEF SaveInv, DefaultOK
    <2>3. height'[p] > 0 => default'[p].complete = TRUE /\ default'[p].height = height'[p]
        BY <1>1, <2>1, <2>2, FileKinds
    <2>4. loop'[p] = Idle
        BY <1>1, <1>2
    <2> QED
        BY <1>3, <2>3, <2>4 DEF KeepOK, Held
<1> QED
    BY <1>1, <1>2, <1>4 DEF KeepInv

LEMMA KeepUnchanged ==
    ASSUME KeepInv, UNCHANGED <<height, sends, loop, files, default, up>>
    PROVE  KeepInv'
BY DEF KeepInv, KeepOK, Pending, Held, Making, Queued

(* When the manager asks a goroutine to make a snapshot the default,       *)
(* cleanCheckpoints has not removed it, nor has a crash.                   *)
THEOREM SourceAlwaysFound == Spec => []ReplaceFindsSource
<1>1. Init => KeepInv
    BY DEF Init, KeepInv
<1>2. SaveInv /\ KeepInv /\ [Next]_vars => KeepInv'
    <2> SUFFICES ASSUME SaveInv, KeepInv, [Next]_vars PROVE KeepInv'
        OBVIOUS
    <2>1. CASE Connect \/ SetNeedSave \/ Detach \/ Fork \/ UNCHANGED vars
        BY <2>1, KeepUnchanged DEF Connect, SetNeedSave, Detach, Fork, vars, memory, disk
    <2>2. CASE ProcessPoint
        BY <2>2, ProcessPointKeep
    <2>3. CASE HandOver
        BY <2>3, HandOverKeep
    <2>4. ASSUME NEW p \in Keys, MessageLoop(p) PROVE KeepInv'
        BY <2>4, MessageLoopKeep
    <2>5. CASE Crash
        BY <2>5 DEF Crash, KeepInv
    <2>6. CASE InitCheckpoint
        BY <2>6, InitCheckpointKeep
    <2> QED
        BY <2>1, <2>2, <2>3, <2>4, <2>5, <2>6 DEF Next
<1>3. SaveInv /\ KeepInv => ReplaceFindsSource
    <2> SUFFICES ASSUME SaveInv, KeepInv, NEW p \in Keys, loop[p].op = "replace"
                 PROVE  SourceExists(p) \/ (default[p].complete /\ default[p].height = loop[p].height)
        BY DEF ReplaceFindsSource
    <2>1. up
        BY DEF SaveInv, DownOK, Idle
    <2>2. Held(p, loop[p].height)
        BY <2>1 DEF KeepInv, KeepOK
    <2> QED
        BY <2>2 DEF Held, SourceExists
<1> QED
    BY <1>1, <1>2, <1>3, SaveInvariant, PTL DEF Spec
=============================================================================
