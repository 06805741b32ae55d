-------------------------- MODULE BlockChainProofs --------------------------
(***************************************************************************)
(* BlockChain, for every tree of blocks, every choice of bad blocks and    *)
(* every bound.  The first part proves ChainInv, in which Branch and the   *)
(* work sums play no part: which blocks a reorganization takes off is      *)
(* never expanded.  The second part is about which chain is selected, what *)
(* a reorganization reaches and what becomes of orphans, announcements and *)
(* the blocks of the pool: it rests on ChainInv and on the order that the  *)
(* branches of a tree have.                                                *)
(***************************************************************************)
EXTENDS BlockChain, SequenceTheorems, WellFoundedInduction, NaturalsInduction,
        FiniteSetTheorems, TLAPS

(* The block at the end of a chain that is not empty.                      *)
LEMMA LastProperties ==
    ASSUME NEW S, NEW s \in Seq(S), s # <<>>
    PROVE  Len(s) \in Nat \ {0} /\ Last(s) = s[Len(s)] /\ Last(s) \in S
BY EmptySeq, LenProperties, ElementOfSeq DEF Last

LEMMA AppendRange ==
    ASSUME NEW S, NEW s \in Seq(S), NEW e \in S
    PROVE  /\ Append(s, e) \in Seq(S) /\ Range(Append(s, e)) = Range(s) \cup {e}
           /\ Len(Append(s, e)) = Len(s) + 1
           /\ DOMAIN Append(s, e) = 1..(Len(s) + 1)
           /\ DOMAIN s = 1..Len(s) /\ Len(s) \in Nat
           /\ Append(s, e)[Len(s) + 1] = e
           /\ \A i \in 1..Len(s) : Append(s, e)[i] = s[i]
<1>1. /\ Append(s, e) \in Seq(S) /\ Len(Append(s, e)) = Len(s) + 1
      /\ Append(s, e)[Len(s) + 1] = e
      /\ \A i \in 1..Len(s) : Append(s, e)[i] = s[i]
    BY AppendProperties
<1>2. DOMAIN s = 1..Len(s) /\ Len(s) \in Nat /\ DOMAIN Append(s, e) = 1..(Len(s) + 1)
    BY <1>1, LenProperties
<1>3. Range(Append(s, e)) = Range(s) \cup {e}
    BY <1>1, <1>2 DEF Range
<1> QED
    BY <1>1, <1>2, <1>3

(* The chain without its last block.                                       *)
LEMMA FrontProperties ==
    ASSUME NEW S, NEW s \in Seq(S), s # <<>>
    PROVE  LET f == SubSeq(s, 1, Len(s) - 1)
           IN  /\ f \in Seq(S) /\ Len(f) = Len(s) - 1 /\ DOMAIN f = 1..(Len(s) - 1)
               /\ DOMAIN s = 1..Len(s) /\ Len(s) \in Nat \ {0}
               /\ \A i \in 1..(Len(s) - 1) : f[i] = s[i]
<1>1. Len(s) \in Nat \ {0} /\ DOMAIN s = 1..Len(s)
    BY EmptySeq, LenProperties
<1>2. \A i \in 1..(Len(s) - 1) : s[i] \in S
    BY <1>1, ElementOfSeq
<1>3. SubSeq(s, 1, Len(s) - 1) = [i \in 1..(Len(s) - 1) |-> s[i]]
    BY <1>1
<1>4. SubSeq(s, 1, Len(s) - 1) \in Seq(S)
    BY <1>1, <1>2, <1>3, IsASeq
<1> QED
    BY <1>1, <1>3, <1>4, LenProperties

(* A sequence without its k-th element.                                    *)
LEMMA RemoveAtProperties ==
    ASSUME NEW S, NEW s \in Seq(S), NEW k \in 1..Len(s)
    PROVE  RemoveAt(s, k) = [i \in 1..(Len(s) - 1) |-> IF i < k THEN s[i] ELSE s[i + 1]]
<1> DEFINE a == SubSeq(s, 1, k - 1)
           c == SubSeq(s, k + 1, Len(s))
<1>1. Len(s) \in Nat /\ \A i \in 1..Len(s) : s[i] \in S
    BY LenProperties, ElementOfSeq
<1>2. /\ a \in Seq(S) /\ Len(a) = k - 1
      /\ \A i \in 1..(k - 1) : a[i] = s[i]
    <2>1. k - 1 \in Int /\ \A i \in 1..(k - 1) : s[i] \in S
        BY <1>1
    <2>2. /\ a \in Seq(S) /\ Len(a) = IF 1 <= k - 1 THEN k - 1 - 1 + 1 ELSE 0
          /\ \A i \in 1..(k - 1 - 1 + 1) : a[i] = s[1 + i - 1]
        BY <2>1, SubSeqProperties
    <2> QED
        BY <1>1, <2>2
<1>3. /\ c \in Seq(S) /\ Len(c) = Len(s) - k
      /\ \A i \in 1..(Len(s) - k) : c[i] = s[k + i]
    <2>1. k + 1 \in Int /\ Len(s) \in Int /\ \A i \in (k + 1)..Len(s) : s[i] \in S
        BY <1>1
    <2>2. /\ c \in Seq(S)
          /\ Len(c) = IF k + 1 <= Len(s) THEN Len(s) - (k + 1) + 1 ELSE 0
          /\ \A i \in 1..(Len(s) - (k + 1) + 1) : c[i] = s[k + 1 + i - 1]
        BY <2>1, SubSeqProperties
    <2> QED
        BY <1>1, <2>2
<1> HIDE DEF a, c
<1>4. /\ a \o c \in Seq(S) /\ Len(a \o c) = Len(s) - 1
      /\ \A i \in 1..(Len(s) - 1) : (a \o c)[i] = IF i < k THEN s[i] ELSE s[i + 1]
    <2>1. /\ a \o c \in Seq(S) /\ Len(a \o c) = Len(a) + Len(c)
          /\ \A i \in 1..(Len(a) + Len(c)) :
                 (a \o c)[i] = IF i <= Len(a) THEN a[i] ELSE c[i - Len(a)]
        BY <1>2, <1>3, ConcatProperties
    <2>2. Len(a) + Len(c) = Len(s) - 1
        BY <1>1, <1>2, <1>3
    <2>3. ASSUME NEW i \in 1..(Len(s) - 1)
          PROVE  (a \o c)[i] = IF i < k THEN s[i] ELSE s[i + 1]
        <3>1. CASE i < k
            BY <1>1, <1>2, <2>1, <2>2, <3>1
        <3>2. CASE ~(i < k)
            <4> DEFINE j == i - Len(a)
            <4>1. j \in 1..(Len(s) - k) /\ k + j = i + 1
                BY <1>1, <1>2, <3>2
            <4>2. (a \o c)[i] = c[j]
                BY <1>1, <1>2, <2>1, <2>2, <3>2
            <4> HIDE DEF j
            <4>3. c[j] = s[k + j]
                BY <1>3, <4>1
            <4> QED
                BY <1>1, <3>2, <4>1, <4>2, <4>3
        <3> QED
            BY <3>1, <3>2
    <2> QED
        BY <2>1, <2>2, <2>3
<1>5. a \o c \in [1..(Len(s) - 1) -> S]
    BY <1>4, LenProperties
<1>6. a \o c = [i \in 1..(Len(s) - 1) |-> (a \o c)[i]]
    BY <1>5
<1>7. RemoveAt(s, k) = a \o c
    BY DEF RemoveAt, a, c
<1> QED
    BY <1>4, <1>6, <1>7

-----------------------------------------------------------------------------
(* RemoveOrphanBlock leaves the other orphans, each once.                  *)
LEMMA RemoveOrphanProperties ==
    ASSUME ChainInv, NEW b \in Blocks
    PROVE  /\ RemoveOrphan(b) \in Seq(Blocks)
           /\ Range(RemoveOrphan(b)) \subseteq Range(orphans) \ {b}
           /\ \A i, j \in DOMAIN RemoveOrphan(b) :
                  RemoveOrphan(b)[i] = RemoveOrphan(b)[j] => i = j
<1>1. /\ orphans \in Seq(Blocks) /\ Len(orphans) \in Nat
      /\ DOMAIN orphans = 1..Len(orphans)
      /\ \A i, j \in DOMAIN orphans : orphans[i] = orphans[j] => i = j
    BY LenProperties DEF ChainInv, TypeOK, Bookkeeping
<1>2. CASE b \notin Range(orphans)
    BY <1>1, <1>2 DEF RemoveOrphan
<1>3. CASE b \in Range(orphans)
    <2> DEFINE k == CHOOSE i \in DOMAIN orphans : orphans[i] = b
               r == RemoveAt(orphans, k)
    <2>1. k \in 1..Len(orphans) /\ orphans[k] = b
        BY <1>1, <1>3 DEF Range
    <2>2. r = [i \in 1..(Len(orphans) - 1) |-> IF i < k THEN orphans[i] ELSE orphans[i + 1]]
        BY <1>1, <2>1, RemoveAtProperties
    <2>3. RemoveOrphan(b) = r
        BY <1>3 DEF RemoveOrphan
    <2> HIDE DEF k, r
    <2>4. r \in Seq(Blocks)
        BY <1>1, <2>1, <2>2, ElementOfSeq, IsASeq
    <2>5. Range(r) \subseteq Range(orphans) \ {b}
        BY <1>1, <2>1, <2>2 DEF Range
    <2>6. \A i, j \in DOMAIN r : r[i] = r[j] => i = j
        <3> SUFFICES ASSUME NEW i \in 1..(Len(orphans) - 1), NEW j \in 1..(Len(orphans) - 1),
                            r[i] = r[j]
                     PROVE  i = j
            BY <2>2
        <3> DEFINE at(n) == IF n < k THEN n ELSE n + 1
        <3>1. r[i] = orphans[at(i)] /\ r[j] = orphans[at(j)]
            BY <2>2
        <3>2. at(i) \in DOMAIN orphans /\ at(j) \in DOMAIN orphans
            BY <1>1, <2>1
        <3>3. at(i) = at(j)
            BY <1>1, <3>1, <3>2
        <3> QED
            BY <2>1, <3>3, <1>1
    <2> QED
        BY <2>3, <2>4, <2>5, <2>6
<1> QED
    BY <1>2, <1>3

(* A block connected to the tip makes the chain longer by one block.       *)
LEMMA ConnectProperties ==
    ASSUME ChainInv, NEW b \in Blocks, Parent[b] = Tip, ConnectBlock(b)
    PROVE  /\ main' \in Seq(Blocks) /\ Range(main') = Range(main) \cup {b}
           /\ MainIsChain' /\ (\A i \in DOMAIN main : Height[main[i]] = Height[Genesis] + i)'
           /\ cleans' \subseteq Nat /\ highest' \in Nat
<1> USE DEF ChainInv
<1>1. main' = Append(main, b)
    BY DEF ConnectBlock
<1>2. /\ main' \in Seq(Blocks) /\ Range(main') = Range(main) \cup {b}
      /\ Len(main') = Len(main) + 1 /\ Len(main) \in Nat
      /\ DOMAIN main = 1..Len(main) /\ DOMAIN main' = 1..(Len(main) + 1)
      /\ main'[Len(main) + 1] = b
      /\ \A i \in 1..Len(main) : main'[i] = main[i]
    BY <1>1, AppendRange DEF TypeOK
<1>3. Parent[b] = IF main = <<>> THEN Genesis ELSE main[Len(main)]
    BY LastProperties DEF Tip, TypeOK
<1>4. main = <<>> <=> Len(main) = 0
    BY EmptySeq DEF TypeOK
<1>5. MainIsChain'
    BY <1>2, <1>3, <1>4 DEF MainIsChain
<1>6. \A i \in DOMAIN main' : Height[main'[i]] = Height[Genesis] + i
    <2>1. Height[b] = Height[Genesis] + (Len(main) + 1)
        <3>1. Height[b] = Height[Parent[b]] + 1 /\ Height[Genesis] \in Nat
            BY BlockAssumption
        <3>2. CASE main = <<>>
            BY <1>2, <1>3, <1>4, <3>1, <3>2
        <3>3. CASE main # <<>>
            <4>1. Len(main) \in DOMAIN main
                BY <1>2, <1>4, <3>3
            <4> QED
                BY <1>2, <1>3, <3>1, <3>3, <4>1 DEF Bookkeeping
        <3> QED
            BY <3>2, <3>3
    <2> QED
        BY <1>2, <2>1 DEF Bookkeeping
<1>7. Height[b] \in Nat
    BY BlockAssumption
<1>8. cleans' \subseteq Nat /\ highest' \in Nat
    BY <1>7 DEF ConnectBlock, TypeOK
<1> QED
    BY <1>2, <1>5, <1>6, <1>8

(* What the end of an acceptance does to the orphans and to the call.      *)
LEMMA AcceptedProperties ==
    ASSUME ChainInv, NEW b \in Blocks, NEW c \in Blocks, NEW d \in BOOLEAN,
           Accepted(b, c, d)
    PROVE  /\ orphans' \in Seq(Blocks) /\ Range(orphans') \subseteq Range(orphans) \ {b}
           /\ (\A i, j \in DOMAIN orphans : orphans[i] = orphans[j] => i = j)'
           /\ OrphansConfirmed' /\ orphanConfirms' \subseteq Blocks
           /\ work' \in Seq(Blocks) /\ Range(work') = Range(work) \cup {b}
           /\ call' = c /\ target' = NoBlock /\ inMain' \in BOOLEAN
           /\ heard' = {} /\ failed' \in BOOLEAN
<1> USE DEF ChainInv
<1>1. orphans' = RemoveOrphan(b) /\ orphanConfirms' = orphanConfirms \ {b}
    BY DEF Accepted
<1>2. /\ orphans' \in Seq(Blocks) /\ Range(orphans') \subseteq Range(orphans) \ {b}
      /\ \A i, j \in DOMAIN orphans' : orphans'[i] = orphans'[j] => i = j
    BY <1>1, RemoveOrphanProperties
<1>3. OrphansConfirmed' /\ orphanConfirms' \subseteq Blocks
    BY <1>1, <1>2 DEF OrphansConfirmed, TypeOK
<1>4. work' \in Seq(Blocks) /\ Range(work') = Range(work) \cup {b}
    BY AppendRange DEF Accepted, TypeOK
<1>5. inMain' \in BOOLEAN
    BY Zenon DEF Accepted, TypeOK
<1>6. call' = c /\ target' = NoBlock /\ heard' = {} /\ failed' \in BOOLEAN
    BY DEF Accepted, TypeOK
<1> QED
    BY <1>2, <1>3, <1>4, <1>5, <1>6

(* An error leaves chain and orphans as they are and nothing to do.        *)
LEMMA FailPreserves ==
    ASSUME ChainInv, Fail, UNCHANGED chainVars,
           pool' \subseteq Blocks, confirms' \subseteq Blocks
    PROVE  ChainInv'
<1> USE DEF ChainInv
<1>1. /\ UNCHANGED <<main, index, cache, cleans, highest, orphans, orphanConfirms>>
      /\ call' = NoBlock /\ target' = NoBlock /\ inMain' = FALSE
      /\ work' = <<>> /\ heard' = {} /\ failed' = TRUE
    BY DEF Fail, chainVars, orphanVars
<1>2. work' \in Seq(Blocks) /\ Range(work') = {}
    BY <1>1, EmptySeq DEF Range
<1>3. TypeOK'
    BY <1>1, <1>2 DEF TypeOK
<1>4. MainIsChain' /\ CacheExact' /\ OrphansConfirmed'
    BY <1>1 DEF MainIsChain, CacheExact, OrphansConfirmed
<1>5. Bookkeeping'
    BY <1>1, <1>2 DEF Bookkeeping, Idle, NoBlock
<1> QED
    BY <1>3, <1>4, <1>5

(* maybeAcceptBlock of a block that is new to the index.                   *)
LEMMA AcceptPreserves ==
    ASSUME ChainInv, NEW b \in Blocks, NEW c \in Blocks, Accept(b, c),
           b \notin index, BlockExists(Parent[b]), target = NoBlock,
           pool' \subseteq Blocks, confirms' \subseteq Blocks
    PROVE  ChainInv'
<1> USE DEF ChainInv
<1>1. /\ b # Genesis /\ c # Genesis /\ Parent[b] # b /\ Parent[b] \in index \cup {Genesis}
      /\ Genesis \notin index
      /\ \A o \in index : Parent[o] \in index \cup {Genesis} /\ Parent[o] # b
    <2>1. b # Genesis /\ c # Genesis /\ Height[b] = Height[Parent[b]] + 1 /\ Height[b] \in Nat
        BY BlockAssumption
    <2>2. \A o \in index : Parent[o] \in index \cup {Genesis}
        BY DEF Bookkeeping
    <2>3. Genesis \notin index
        BY BlockAssumption DEF TypeOK
    <2> QED
        BY <2>1, <2>2, <2>3 DEF BlockExists
<1>2. CASE Parent[b] = Tip /\ b \notin Bad
    <2>1. /\ ConnectBlock(b) /\ index' = index \cup {b} /\ cache' = cache
          /\ Accepted(b, c, TRUE)
        BY <1>2 DEF Accept
    <2>2. /\ main' \in Seq(Blocks) /\ Range(main') = Range(main) \cup {b}
          /\ MainIsChain' /\ (\A i \in DOMAIN main : Height[main[i]] = Height[Genesis] + i)'
          /\ cleans' \subseteq Nat /\ highest' \in Nat
        BY <1>2, <2>1, ConnectProperties
    <2>3. /\ orphans' \in Seq(Blocks) /\ Range(orphans') \subseteq Range(orphans) \ {b}
          /\ (\A i, j \in DOMAIN orphans : orphans[i] = orphans[j] => i = j)'
          /\ OrphansConfirmed' /\ orphanConfirms' \subseteq Blocks
          /\ work' \in Seq(Blocks) /\ Range(work') = Range(work) \cup {b}
          /\ call' = c /\ target' = NoBlock /\ inMain' \in BOOLEAN
          /\ heard' = {} /\ failed' \in BOOLEAN
        BY <2>1, AcceptedProperties
    <2>4. TypeOK'
        BY <2>1, <2>2, <2>3 DEF TypeOK
    <2>5. CacheExact'
        BY <2>1, <2>2 DEF CacheExact
    <2>6. Bookkeeping'
        BY <1>1, <2>1, <2>2, <2>3 DEF Bookkeeping, Idle
    <2> QED
        BY <2>2, <2>3, <2>4, <2>5, <2>6
<1>3. CASE Parent[b] = Tip /\ b \in Bad
    BY <1>3, FailPreserves DEF Accept
<1>4. CASE Parent[b] # Tip
    <2>1. /\ index' = index \cup {b} /\ cache' = cache \cup {b}
          /\ main' = main /\ cleans' = cleans /\ highest' = highest
        BY <1>4 DEF Accept
    <2>2. MainIsChain' /\ CacheExact'
        BY <2>1 DEF MainIsChain, CacheExact
    <2>3. CASE MoreWork(b)
        <3>1. /\ call' = c /\ target' = b /\ heard' = {}
              /\ UNCHANGED <<inMain, work, failed, orphans, orphanConfirms>>
            BY <1>4, <2>3 DEF Accept, orphanVars
        <3>2. TypeOK'
            BY <2>1, <3>1 DEF TypeOK
        <3>3. OrphansConfirmed'
            BY <3>1 DEF OrphansConfirmed
        <3>4. Bookkeeping'
            BY <1>1, <2>1, <3>1 DEF Bookkeeping, Idle, NoBlock
        <3> QED
            BY <2>2, <3>2, <3>3, <3>4
    <2>4. CASE ~MoreWork(b)
        <3>1. Accepted(b, c, FALSE)
            BY <1>4, <2>4 DEF Accept
        <3>2. /\ orphans' \in Seq(Blocks) /\ Range(orphans') \subseteq Range(orphans) \ {b}
              /\ (\A i, j \in DOMAIN orphans : orphans[i] = orphans[j] => i = j)'
              /\ OrphansConfirmed' /\ orphanConfirms' \subseteq Blocks
              /\ work' \in Seq(Blocks) /\ Range(work') = Range(work) \cup {b}
              /\ call' = c /\ target' = NoBlock /\ inMain' \in BOOLEAN
              /\ heard' = {} /\ failed' \in BOOLEAN
            BY <3>1, AcceptedProperties
        <3>3. TypeOK'
            BY <2>1, <3>2 DEF TypeOK
        <3>4. Bookkeeping'
            BY <1>1, <2>1, <3>2 DEF Bookkeeping, Idle
        <3> QED
            BY <2>2, <3>2, <3>3, <3>4
    <2> QED
        BY <2>3, <2>4
<1> QED
    BY <1>2, <1>3, <1>4

-----------------------------------------------------------------------------
(* A list of distinct elements from some place on, and a new one after it. *)
LEMMA SuffixAppend ==
    ASSUME NEW S, NEW s \in Seq(S), NEW m \in 0..Len(s), NEW e \in S, e \notin Range(s),
           \A i, j \in DOMAIN s : s[i] = s[j] => i = j
    PROVE  LET r == SubSeq(s, m + 1, Len(s))
           IN  /\ Range(r) \subseteq Range(s)
               /\ Append(r, e) \in Seq(S) /\ Range(Append(r, e)) = Range(r) \cup {e}
               /\ \A i, j \in DOMAIN Append(r, e) : Append(r, e)[i] = Append(r, e)[j] => i = j
<1> DEFINE r == SubSeq(s, m + 1, Len(s))
           t == Append(r, e)
           n == Len(s) - m
<1>1. Len(s) \in Nat /\ DOMAIN s = 1..Len(s) /\ \A i \in 1..Len(s) : s[i] \in S
    BY LenProperties, ElementOfSeq
<1>2. /\ n \in Nat /\ m \in Nat
      /\ \A i \in 1..n : m + i \in DOMAIN s /\ (m + 1) + i - 1 = m + i
      /\ Len(s) - (m + 1) + 1 = n
      /\ (IF m + 1 <= Len(s) THEN n ELSE 0) = n
    <2>1. m \in Nat /\ Len(s) \in Nat /\ m <= Len(s)
        BY <1>1
    <2>2. n \in Nat /\ Len(s) - (m + 1) + 1 = n
        BY <1>1, <2>1
    <2>3. (IF m + 1 <= Len(s) THEN n ELSE 0) = n
        <3>1. CASE m + 1 <= Len(s)
            BY <3>1
        <3>2. CASE ~(m + 1 <= Len(s))
            <4>1. m = Len(s)
                BY <2>1, <3>2
            <4> QED
                BY <2>1, <3>2, <4>1
        <3> QED
            BY <3>1, <3>2
    <2>4. ASSUME NEW i \in 1..n PROVE m + i \in DOMAIN s /\ (m + 1) + i - 1 = m + i
        BY <1>1, <2>1
    <2> QED
        BY <2>1, <2>2, <2>3, <2>4
<1>3. r \in Seq(S) /\ Len(r) = n /\ \A i \in 1..n : r[i] = s[m + i]
    <2>1. m + 1 \in Int /\ Len(s) \in Int /\ \A i \in (m + 1)..Len(s) : s[i] \in S
        BY <1>1
    <2>2. /\ r \in Seq(S)
          /\ Len(r) = IF m + 1 <= Len(s) THEN Len(s) - (m + 1) + 1 ELSE 0
          /\ \A i \in 1..(Len(s) - (m + 1) + 1) : r[i] = s[(m + 1) + i - 1]
        BY <2>1, SubSeqProperties
    <2> HIDE DEF r, n
    <2> QED
        BY <1>2, <2>2
<1> HIDE DEF r, n
<1>4. DOMAIN r = 1..n
    BY <1>3, LenProperties
<1>5. ASSUME NEW x \in Range(r) PROVE x \in Range(s)
    <2>1. PICK i \in 1..n : x = r[i]
        BY <1>4 DEF Range
    <2> QED
        BY <1>2, <1>3, <2>1 DEF Range
<1>6. /\ t \in Seq(S) /\ Range(t) = Range(r) \cup {e}
      /\ DOMAIN t = 1..(n + 1) /\ t[n + 1] = e
      /\ \A i \in 1..n : t[i] = r[i]
    BY <1>3, AppendRange
<1> HIDE DEF t
<1>7. ASSUME NEW i \in 1..n PROVE t[i] = s[m + i] /\ m + i \in DOMAIN s /\ t[i] # e
    <2>1. t[i] = s[m + i] /\ m + i \in DOMAIN s
        BY <1>2, <1>3, <1>6
    <2>2. s[m + i] \in Range(s)
        BY <2>1 DEF Range
    <2> QED
        BY <2>1, <2>2
<1>8. ASSUME NEW i \in DOMAIN t, NEW j \in DOMAIN t, t[i] = t[j]
      PROVE  i = j
    <2>1. (i \in 1..n \/ i = n + 1) /\ (j \in 1..n \/ j = n + 1) /\ i \in Nat /\ j \in Nat
        BY <1>2, <1>6
    <2>2. CASE i \in 1..n /\ j \in 1..n
        <3>1. m + i = m + j
            BY <1>7, <1>8, <2>2
        <3> QED
            BY <1>2, <2>1, <3>1
    <2> QED
        BY <1>6, <1>7, <1>8, <2>1, <2>2
<1> QED
    BY <1>5, <1>6, <1>8 DEF r, t

(* AddOrphanBlock keeps orphans distinct and each with its confirm.        *)
LEMMA AddOrphanProperties ==
    ASSUME ChainInv, NEW b \in Blocks, b \notin Range(orphans), AddOrphan(b)
    PROVE  /\ orphans' \in Seq(Blocks) /\ Range(orphans') \subseteq Range(orphans) \cup {b}
           /\ (\A i, j \in DOMAIN orphans : orphans[i] = orphans[j] => i = j)'
           /\ OrphansConfirmed' /\ orphanConfirms' \subseteq Blocks
<1> USE DEF ChainInv
<1>1. /\ orphans \in Seq(Blocks) /\ Len(orphans) \in Nat
      /\ \A i, j \in DOMAIN orphans : orphans[i] = orphans[j] => i = j
    BY LenProperties DEF TypeOK, Bookkeeping
<1> DEFINE Suffix(m) == SubSeq(orphans, m + 1, Len(orphans))
           Rest(k) == IF Len(Suffix(k)) + 1 > MaxOrphans THEN Tail(Suffix(k)) ELSE Suffix(k)
<1>2. PICK k \in 0..Len(orphans) :
          /\ orphans' = Append(Rest(k), b)
          /\ orphanConfirms' = (orphanConfirms \cap Range(Rest(k))) \cup {b}
    BY DEF AddOrphan
<1>3. PICK m \in 0..Len(orphans) : Rest(k) = Suffix(m)
    <2>1. CASE k = Len(orphans)
        <3>1. Suffix(k) = <<>> /\ Len(Suffix(k)) = 0
            BY <1>1, <2>1, SubSeqEmpty, EmptySeq
        <3>2. Rest(k) = Suffix(k)
            BY <3>1, BoundAssumption
        <3> QED
            BY <3>2
    <2>2. CASE k # Len(orphans)
        <3>1. k + 1 \in 1..Len(orphans) /\ Len(orphans) \in (k + 1)..Len(orphans)
            BY <1>1, <2>2
        <3>2. Tail(Suffix(k)) = SubSeq(orphans, (k + 1) + 1, Len(orphans))
            BY <1>1, <3>1, HeadTailOfSubSeq
        <3>3. Tail(Suffix(k)) = Suffix(k + 1) /\ k + 1 \in 0..Len(orphans)
            BY <1>1, <3>1, <3>2
        <3>4. Rest(k) = Suffix(k) \/ Rest(k) = Suffix(k + 1)
            BY <3>3
        <3> QED
            BY <3>3, <3>4
    <2> QED
        BY <2>1, <2>2
<1> HIDE DEF Rest
<1>4. /\ Range(Rest(k)) \subseteq Range(orphans)
      /\ orphans' \in Seq(Blocks) /\ Range(orphans') = Range(Rest(k)) \cup {b}
      /\ \A i, j \in DOMAIN orphans' : orphans'[i] = orphans'[j] => i = j
    BY <1>1, <1>2, <1>3, SuffixAppend
<1>5. OrphansConfirmed' /\ orphanConfirms' \subseteq Blocks
    BY <1>2, <1>4 DEF OrphansConfirmed, TypeOK
<1> QED
    BY <1>4, <1>5

-----------------------------------------------------------------------------
(* disconnectBlock: the tip moves from the chain to the side chain cache.  *)
LEMMA DetachPreserves ==
    ASSUME ChainInv, Detach
    PROVE  ChainInv'
<1> USE DEF ChainInv
<1>1. /\ main # <<>> /\ main' = SubSeq(main, 1, Len(main) - 1) /\ cache' = cache \cup {Tip}
      /\ UNCHANGED <<index, cleans, highest, orphans, orphanConfirms, pool, confirms>>
      /\ UNCHANGED <<call, inMain, target, work, heard, failed>>
    BY DEF Detach, DisconnectTip, orphanVars, poolVars, callVars
<1>2. /\ main' \in Seq(Blocks) /\ Len(main') = Len(main) - 1
      /\ DOMAIN main' = 1..(Len(main) - 1)
      /\ DOMAIN main = 1..Len(main) /\ Len(main) \in Nat \ {0}
      /\ \A i \in 1..(Len(main) - 1) : main'[i] = main[i]
    BY <1>1, FrontProperties DEF TypeOK
<1>3. Tip = main[Len(main)] /\ Tip \in Blocks
    BY <1>1, LastProperties DEF Tip, TypeOK
<1>4. Height[Genesis] \in Nat /\ \A i \in DOMAIN main : Height[main[i]] = Height[Genesis] + i
    BY BlockAssumption DEF Bookkeeping
<1>5. Range(main) = Range(main') \cup {Tip} /\ Tip \notin Range(main')
    <2>1. \A i \in 1..Len(main) : i \in 1..(Len(main) - 1) \/ i = Len(main)
        BY <1>2
    <2>2. \A i \in 1..(Len(main) - 1) : i \in DOMAIN main /\ i # Len(main)
        BY <1>2
    <2>3. Len(main) \in DOMAIN main
        BY <1>2
    <2>4. Range(main) = Range(main') \cup {Tip}
        BY <1>2, <1>3, <2>1, <2>2, <2>3 DEF Range
    <2>5. \A i \in 1..(Len(main) - 1) : main'[i] # Tip
        <3> SUFFICES ASSUME NEW i \in 1..(Len(main) - 1) PROVE main'[i] # Tip
            OBVIOUS
        <3>1. Height[main[i]] = Height[Genesis] + i /\ Height[Tip] = Height[Genesis] + Len(main)
            BY <1>3, <1>4, <2>2, <2>3
        <3>2. Height[main[i]] # Height[Tip]
            BY <1>2, <1>4, <3>1
        <3> QED
            BY <1>2, <3>2
    <2>6. Tip \notin Range(main')
        BY <1>2, <2>5 DEF Range
    <2> QED
        BY <2>4, <2>6
<1>6. TypeOK'
    BY <1>1, <1>2, <1>3 DEF TypeOK
<1>7. MainIsChain'
    BY <1>2 DEF MainIsChain
<1>8. CacheExact' /\ OrphansConfirmed'
    BY <1>1, <1>5 DEF CacheExact, OrphansConfirmed
<1>9. \A i \in DOMAIN main' : Height[main'[i]] = Height[Genesis] + i
    BY <1>2, <1>4
<1>10. Bookkeeping'
    BY <1>1, <1>9 DEF Bookkeeping, Idle, NoBlock
<1> QED
    BY <1>6, <1>7, <1>8, <1>10

(* connectBlock of a side chain block; with the last one the block that    *)
(* caused the reorganization is accepted.                                  *)
LEMMA AttachPreserves ==
    ASSUME ChainInv, NEW b \in Blocks, Attach(b)
    PROVE  ChainInv'
<1> USE DEF ChainInv
<1>1. /\ target # NoBlock /\ b \in cache /\ Parent[b] = Tip
      /\ pool' = pool /\ confirms' = confirms
    BY DEF Attach, poolVars
<1>2. call \in Blocks /\ b \in index /\ b \notin Range(main)
    BY <1>1 DEF Bookkeeping, Idle, TypeOK, CacheExact, NoBlock
<1>3. CASE b \in Bad
    BY <1>1, <1>3, FailPreserves DEF Attach, TypeOK
<1>4. CASE b \notin Bad
    <2>1. ConnectBlock(b) /\ cache' = cache \ {b} /\ index' = index
        BY <1>4 DEF Attach
    <2>2. /\ main' \in Seq(Blocks) /\ Range(main') = Range(main) \cup {b}
          /\ MainIsChain' /\ (\A i \in DOMAIN main : Height[main[i]] = Height[Genesis] + i)'
          /\ cleans' \subseteq Nat /\ highest' \in Nat
        BY <1>1, <2>1, ConnectProperties
    <2>3. CacheExact'
        BY <1>2, <2>1, <2>2 DEF CacheExact
    <2>4. CASE b = target
        <3>1. /\ orphans' \in Seq(Blocks) /\ Range(orphans') \subseteq Range(orphans) \ {b}
              /\ (\A i, j \in DOMAIN orphans : orphans[i] = orphans[j] => i = j)'
              /\ OrphansConfirmed' /\ orphanConfirms' \subseteq Blocks
              /\ work' \in Seq(Blocks) /\ Range(work') = Range(work) \cup {b}
              /\ call' = call /\ target' = NoBlock /\ inMain' \in BOOLEAN
              /\ heard' = {} /\ failed' \in BOOLEAN
            BY <1>2, <1>4, <2>4, AcceptedProperties DEF Attach
        <3>2. TypeOK'
            BY <1>1, <2>1, <2>2, <3>1 DEF TypeOK
        <3>3. Bookkeeping'
            BY <1>1, <1>2, <2>1, <2>2, <2>4, <3>1 DEF Bookkeeping
        <3> QED
            BY <2>2, <2>3, <3>1, <3>2, <3>3
    <2>5. CASE b # target
        <3>1. UNCHANGED <<orphans, orphanConfirms, call, inMain, target, work, heard, failed>>
            BY <1>4, <2>5 DEF Attach, orphanVars, callVars
        <3>2. TypeOK'
            BY <1>1, <2>1, <2>2, <3>1 DEF TypeOK
        <3>3. OrphansConfirmed'
            BY <3>1 DEF OrphansConfirmed
        <3>4. Bookkeeping'
            BY <2>1, <2>2, <3>1 DEF Bookkeeping, Idle, NoBlock
        <3> QED
            BY <2>2, <2>3, <3>2, <3>3, <3>4
    <2> QED
        BY <2>4, <2>5
<1> QED
    BY <1>3, <1>4

(* The next orphan is new to the index.                                    *)
LEMMA ProcessOrphanPreserves ==
    ASSUME ChainInv, ProcessOrphan
    PROVE  ChainInv'
<1> USE DEF ChainInv
<1>1. ~Idle /\ target = NoBlock /\ work # <<>> /\ pool' = pool /\ confirms' = confirms
    BY DEF ProcessOrphan, poolVars
<1>2. call \in Blocks
    BY <1>1 DEF Idle, TypeOK
<1>3. /\ Head(work) \in Range(work) /\ Tail(work) \in Seq(Blocks)
      /\ Range(Tail(work)) \subseteq Range(work)
    <2>1. /\ Len(work) \in Nat \ {0} /\ DOMAIN work = 1..Len(work) /\ Head(work) = work[1]
        BY <1>1, EmptySeq, LenProperties DEF TypeOK
    <2>2. /\ Tail(work) \in Seq(Blocks) /\ Len(Tail(work)) = Len(work) - 1
          /\ \A i \in 1..Len(Tail(work)) : Tail(work)[i] = work[i + 1]
        BY <1>1, HeadTailProperties DEF TypeOK
    <2>3. DOMAIN Tail(work) = 1..Len(Tail(work))
        BY <2>2, LenProperties
    <2>4. \A i \in 1..Len(Tail(work)) : i + 1 \in DOMAIN work
        BY <2>1, <2>2
    <2> QED
        BY <2>1, <2>2, <2>3, <2>4 DEF Range
<1>4. CASE Waiting = {}
    <2>1. /\ work' = Tail(work)
          /\ UNCHANGED <<main, index, cache, cleans, highest, orphans, orphanConfirms>>
          /\ UNCHANGED <<call, inMain, target, heard, failed>>
        BY <1>4 DEF ProcessOrphan, chainVars, orphanVars
    <2>2. TypeOK'
        BY <1>1, <1>3, <2>1 DEF TypeOK
    <2>3. MainIsChain' /\ CacheExact' /\ OrphansConfirmed'
        BY <2>1 DEF MainIsChain, CacheExact, OrphansConfirmed
    <2>4. Bookkeeping'
        BY <1>3, <2>1 DEF Bookkeeping, Idle, NoBlock
    <2> QED
        BY <2>2, <2>3, <2>4
<1>5. CASE Waiting # {}
    <2>1. PICK i \in Waiting : Accept(orphans[i], call)
        BY <1>5 DEF ProcessOrphan
    <2>2. /\ orphans[i] \in Blocks /\ orphans[i] \in Range(orphans)
          /\ Parent[orphans[i]] = Head(work)
        BY ElementOfSeq, LenProperties DEF Waiting, Range, TypeOK
    <2>3. orphans[i] # target
        BY <1>1, <2>2, BlockAssumption DEF NoBlock
    <2>4. orphans[i] \notin index /\ BlockExists(Parent[orphans[i]])
        BY <1>3, <2>2, <2>3 DEF Bookkeeping, BlockExists
    <2> QED
        BY <1>1, <1>2, <2>1, <2>2, <2>4, AcceptPreserves DEF TypeOK
<1> QED
    BY <1>4, <1>5

(* Nothing but the pool, the confirms and the announcement changes.        *)
LEMMA QuietPreserves ==
    ASSUME ChainInv,
           UNCHANGED <<main, index, cache, highest, orphans, orphanConfirms>>,
           UNCHANGED <<target, work, failed>>,
           call' \in {call, NoBlock}, call' = NoBlock => target = NoBlock,
           inMain' \in BOOLEAN, heard' \subseteq Blocks, cleans' \subseteq cleans,
           pool' \subseteq Blocks, confirms' \subseteq Blocks
    PROVE  ChainInv'
<1> USE DEF ChainInv
<1>1. TypeOK'
    BY DEF TypeOK
<1>2. MainIsChain' /\ CacheExact' /\ OrphansConfirmed'
    BY DEF MainIsChain, CacheExact, OrphansConfirmed
<1>3. Bookkeeping'
    BY DEF Bookkeeping, Idle, NoBlock
<1> QED
    BY <1>1, <1>2, <1>3

(* confirmBlock and processBlock, up to the acceptance of the block.       *)
LEMMA ProcessBlockPreserves ==
    ASSUME ChainInv, Idle, NEW b \in Blocks, ProcessBlock(b),
           pool' \subseteq Blocks, confirms' \subseteq Blocks
    PROVE  ChainInv'
<1> USE DEF ChainInv
<1>1. target = NoBlock
    BY DEF Bookkeeping
<1>2. CASE b \in index
    <2>1. /\ heard' = {}
          /\ UNCHANGED <<main, index, cache, cleans, highest, orphans, orphanConfirms>>
          /\ UNCHANGED <<call, inMain, target, work, failed>>
        BY <1>2 DEF ProcessBlock, chainVars, orphanVars
    <2> QED
        BY <1>1, <2>1, QuietPreserves DEF TypeOK
<1>3. CASE b \notin index /\ (b \in Range(orphans) \/ ~BlockExists(Parent[b]))
    <2>1. /\ heard' = {} /\ UNCHANGED <<main, index, cache, cleans, highest>>
          /\ UNCHANGED <<call, inMain, target, work, failed>>
          /\ IF b \in Range(orphans)
             THEN orphanConfirms' = orphanConfirms \cup {b} /\ orphans' = orphans
             ELSE AddOrphan(b)
        BY <1>3 DEF ProcessBlock, chainVars
    <2>2. /\ orphans' \in Seq(Blocks) /\ Range(orphans') \subseteq Range(orphans) \cup {b}
          /\ (\A i, j \in DOMAIN orphans : orphans[i] = orphans[j] => i = j)'
          /\ OrphansConfirmed' /\ orphanConfirms' \subseteq Blocks
        <3>1. CASE b \in Range(orphans)
            BY <2>1, <3>1 DEF TypeOK, OrphansConfirmed, Bookkeeping
        <3>2. CASE b \notin Range(orphans)
            BY <2>1, <3>2, AddOrphanProperties
        <3> QED
            BY <3>1, <3>2
    <2>3. TypeOK'
        BY <2>1, <2>2 DEF TypeOK
    <2>4. MainIsChain' /\ CacheExact'
        BY <2>1 DEF MainIsChain, CacheExact
    <2>5. Bookkeeping'
        BY <1>3, <2>1, <2>2 DEF Bookkeeping, Idle, NoBlock
    <2> QED
        BY <2>2, <2>3, <2>4, <2>5
<1>4. CASE b \notin index \cup Range(orphans) /\ BlockExists(Parent[b])
    <2>1. Accept(b, b)
        BY <1>4 DEF ProcessBlock
    <2> QED
        BY <1>1, <1>4, <2>1, AcceptPreserves
<1> QED
    BY <1>2, <1>3, <1>4

(* A block or a confirm whose counterpart is missing only joins the pool.  *)
LEMMA NoProcessingPreserves ==
    ASSUME ChainInv, Idle, NoProcessing, pool' \subseteq Blocks, confirms' \subseteq Blocks
    PROVE  ChainInv'
<1> USE DEF ChainInv
<1>1. /\ heard' = {}
      /\ UNCHANGED <<main, index, cache, cleans, highest, orphans, orphanConfirms>>
      /\ UNCHANGED <<call, inMain, target, work, failed>>
    BY DEF NoProcessing, chainVars, orphanVars
<1> QED
    BY <1>1, QuietPreserves DEF TypeOK, Bookkeeping

-----------------------------------------------------------------------------
(* Every step of Next keeps ChainInv.                                      *)
LEMMA StepPreserves ==
    ASSUME ChainInv, [Next]_vars
    PROVE  ChainInv'
<1> USE DEF ChainInv
<1>1. ASSUME NEW b \in Blocks, AppendBlock(b) PROVE ChainInv'
    <2>1. Idle /\ pool' \subseteq Blocks /\ confirms' \subseteq Blocks
        BY <1>1 DEF AppendBlock, TypeOK
    <2>2. ProcessBlock(b) \/ NoProcessing
        BY <1>1 DEF AppendBlock
    <2> QED
        BY <2>1, <2>2, ProcessBlockPreserves, NoProcessingPreserves
<1>2. ASSUME NEW b \in Blocks, AppendConfirm(b) PROVE ChainInv'
    <2>1. Idle /\ pool' \subseteq Blocks /\ confirms' \subseteq Blocks
        BY <1>2 DEF AppendConfirm, TypeOK
    <2>2. ProcessBlock(b) \/ NoProcessing
        BY <1>2 DEF AppendConfirm
    <2> QED
        BY <2>1, <2>2, ProcessBlockPreserves, NoProcessingPreserves
<1>3. ASSUME NEW b \in Blocks, AppendBlockAndConfirm(b) PROVE ChainInv'
    <2>1. /\ Idle /\ ProcessBlock(b)
          /\ pool' \subseteq Blocks /\ confirms' \subseteq Blocks
        BY <1>3 DEF AppendBlockAndConfirm, TypeOK
    <2> QED
        BY <2>1, ProcessBlockPreserves
<1>4. CASE Detach
    BY <1>4, DetachPreserves
<1>5. ASSUME NEW b \in Blocks, Attach(b) PROVE ChainInv'
    BY <1>5, AttachPreserves
<1>6. CASE ProcessOrphan
    BY <1>6, ProcessOrphanPreserves
<1>7. CASE Finish
    <2>1. /\ ~Idle /\ target = NoBlock /\ call' = NoBlock /\ inMain' = FALSE
          /\ heard' = IF inMain THEN {call} ELSE {}
          /\ UNCHANGED <<main, index, cache, cleans, highest, orphans, orphanConfirms>>
          /\ UNCHANGED <<pool, confirms, target, work, failed>>
        BY <1>7 DEF Finish, chainVars, orphanVars, poolVars
    <2>2. heard' \subseteq Blocks
        BY <2>1 DEF Idle, TypeOK
    <2> QED
        BY <2>1, <2>2, QuietPreserves DEF TypeOK
<1>8. ASSUME NEW h \in cleans, CleanFinalConfirmedBlock(h) PROVE ChainInv'
    <2>1. /\ cleans' \subseteq cleans /\ pool' \subseteq Blocks /\ confirms' \subseteq Blocks
          /\ UNCHANGED <<main, index, cache, highest, orphans, orphanConfirms>>
          /\ UNCHANGED <<call, inMain, target, work, heard, failed>>
        BY <1>8 DEF CleanFinalConfirmedBlock, Kept, TypeOK, orphanVars, callVars
    <2>2. Idle
        BY <1>8 DEF CleanFinalConfirmedBlock
    <2> QED
        BY <2>1, <2>2, QuietPreserves DEF TypeOK, Bookkeeping
<1>9. CASE UNCHANGED vars
    <2>1. /\ UNCHANGED <<main, index, cache, cleans, highest, orphans, orphanConfirms>>
          /\ UNCHANGED <<pool, confirms, call, inMain, target, work, heard, failed>>
        BY <1>9 DEF vars, chainVars, orphanVars, poolVars, callVars
    <2> QED
        BY <2>1, QuietPreserves DEF TypeOK, Bookkeeping, Idle
<1> QED
    BY <1>1, <1>2, <1>3, <1>4, <1>5, <1>6, <1>7, <1>8, <1>9 DEF Next

(* Chain, index, side chain cache and orphans agree in every reachable     *)
(* state, whatever blocks and confirms arrive in whatever order: also      *)
(* between the steps of a reorganization (reorganizeChain) and after one   *)
(* that failed half way.                                                   *)
THEOREM ChainCorrect == Spec => []ChainInv
<1>1. Init => ChainInv
    <2> SUFFICES ASSUME Init PROVE ChainInv
        OBVIOUS
    <2>1. /\ main = <<>> /\ orphans = <<>> /\ work = <<>> /\ DOMAIN main = {}
          /\ Range(main) = {} /\ Range(orphans) = {} /\ Range(work) = {} /\ Len(main) = 0
        BY DEF Init, Range
    <2>2. TypeOK
        BY <2>1, EmptySeq, BlockAssumption DEF Init, TypeOK
    <2>3. MainIsChain /\ CacheExact /\ OrphansConfirmed
        BY <2>1 DEF Init, MainIsChain, CacheExact, OrphansConfirmed
    <2>4. Bookkeeping
        BY <2>1 DEF Init, Bookkeeping
    <2> QED
        BY <2>2, <2>3, <2>4 DEF ChainInv
<1>2. ChainInv /\ [Next]_vars => ChainInv'
    BY StepPreserves
<1> QED
    BY <1>1, <1>2, PTL DEF Spec

-----------------------------------------------------------------------------
(* All blocks.                                                              *)
Tree == Blocks \cup {Genesis}

(* The recursive definition of Branch has a solution: the ancestors of a   *)
(* block are what every set that holds it and with each block its parent   *)
(* has in common.                                                          *)
LEMMA BranchDef ==
    ASSUME NEW b \in Tree
    PROVE  Branch[b] = IF b = Genesis THEN {Genesis} ELSE {b} \cup Branch[Parent[b]]
<1> DEFINE Closed(T) == \A y \in T \cap Blocks : Parent[y] \in T
           Anc(c) == {x \in Tree : \A T \in SUBSET Tree : c \in T /\ Closed(T) => x \in T}
           F == [c \in Tree |-> Anc(c)]
<1>1. Anc(Genesis) = {Genesis}
    <2>1. {Genesis} \in SUBSET Tree /\ Closed({Genesis})
        BY BlockAssumption DEF Tree
    <2>2. Anc(Genesis) \subseteq {Genesis}
        BY <2>1
    <2>3. Genesis \in Anc(Genesis)
        BY DEF Tree
    <2> QED
        BY <2>2, <2>3
<1>2. ASSUME NEW c \in Blocks PROVE Anc(c) = {c} \cup Anc(Parent[c])
    <2>1. c \in Tree /\ Parent[c] \in Tree
        BY BlockAssumption DEF Tree
    <2>2. ASSUME NEW x \in Anc(c), x # c PROVE x \in Anc(Parent[c])
        <3> SUFFICES ASSUME NEW T \in SUBSET Tree, Parent[c] \in T, Closed(T) PROVE x \in T
            BY <2>2
        <3>1. T \cup {c} \in SUBSET Tree /\ Closed(T \cup {c})
            BY <2>1
        <3> QED
            BY <2>2, <3>1
    <2>3. ASSUME NEW x \in Anc(Parent[c]) PROVE x \in Anc(c)
        BY <1>2, <2>3
    <2>4. c \in Anc(c)
        BY <2>1
    <2> HIDE DEF Anc
    <2> QED
        BY <2>2, <2>3, <2>4
<1>3. F = [c \in Tree |-> IF c = Genesis THEN {Genesis} ELSE {c} \cup F[Parent[c]]]
    <2>1. ASSUME NEW c \in Tree
          PROVE  F[c] = IF c = Genesis THEN {Genesis} ELSE {c} \cup F[Parent[c]]
        <3> HIDE DEF Anc
        <3>1. c # Genesis => c \in Blocks /\ Parent[c] \in Tree
            BY BlockAssumption DEF Tree
        <3> QED
            BY <1>1, <1>2, <3>1
    <2> HIDE DEF Anc
    <2> QED
        BY <2>1
<1> HIDE DEF F
<1>4. \E f : f = [c \in Blocks \cup {Genesis} |-> IF c = Genesis THEN {Genesis} ELSE {c} \cup f[Parent[c]]]
    BY <1>3 DEF Tree
<1>5. Branch = [c \in Blocks \cup {Genesis} |-> IF c = Genesis THEN {Genesis} ELSE {c} \cup Branch[Parent[c]]]
    BY <1>4 DEF Branch
<1> QED
    BY <1>5 DEF Tree

(* A set of blocks that holds the genesis and with the parent the block    *)
(* holds every block: induction along the tree.                            *)
LEMMA TreeInduction ==
    ASSUME NEW G \in SUBSET Tree, Genesis \in G,
           \A c \in Blocks : Parent[c] \in G => c \in G
    PROVE  Tree \subseteq G
<1> SUFFICES ASSUME Tree \ G # {} PROVE FALSE
    OBVIOUS
<1> DEFINE T == {Height[c] : c \in Tree \ G}
<1>1. T \in SUBSET Nat /\ T # {}
    BY BlockAssumption DEF Tree
<1> HIDE DEF T
<1>2. PICK n \in T : \A m \in T : ~(<<m, n>> \in OpToRel(<, Nat))
    BY <1>1, NatLessThanWellFounded, WFMin
<1>3. PICK c \in Tree \ G : n = Height[c]
    BY DEF T
<1>4. c \in Blocks /\ Parent[c] \in Tree \ G
    BY BlockAssumption DEF Tree
<1>5. Height[Parent[c]] \in T /\ Height[Parent[c]] < Height[c]
    BY <1>4, BlockAssumption DEF T, Tree
<1> QED
    BY <1>1, <1>2, <1>3, <1>5 DEF OpToRel

(* A block is above its ancestors, and has the ancestors of each of them.  *)
LEMMA BranchProperties ==
    ASSUME NEW b \in Tree
    PROVE  /\ b \in Branch[b] /\ Genesis \in Branch[b] /\ Branch[b] \subseteq Tree
           /\ \A x \in Branch[b] : Height[x] <= Height[b] /\ Branch[x] \subseteq Branch[b]
<1> DEFINE Good(c) == /\ c \in Branch[c] /\ Genesis \in Branch[c] /\ Branch[c] \subseteq Tree
                      /\ \A x \in Branch[c] : Height[x] <= Height[c] /\ Branch[x] \subseteq Branch[c]
           G == {c \in Tree : Good(c)}
<1>1. Good(Genesis)
    <2>1. Branch[Genesis] = {Genesis} /\ Genesis \in Tree /\ Height[Genesis] \in Nat
        BY BranchDef, BlockAssumption DEF Tree
    <2> QED
        BY <2>1
<1>2. ASSUME NEW c \in Blocks, Good(Parent[c]) PROVE Good(c)
    <2>1. /\ c \in Tree /\ c # Genesis /\ Parent[c] \in Tree
          /\ Height[c] = Height[Parent[c]] + 1
          /\ \A x \in Tree : Height[x] \in Nat
        BY BlockAssumption DEF Tree
    <2>2. Branch[c] = {c} \cup Branch[Parent[c]]
        BY <2>1, BranchDef
    <2>3. \A x \in Branch[c] : Branch[x] \subseteq Branch[c]
        BY <1>2, <2>2
    <2>4. \A x \in Branch[c] : Height[x] <= Height[c]
        BY <1>2, <2>1, <2>2
    <2> QED
        BY <1>2, <2>1, <2>2, <2>3, <2>4
<1> HIDE DEF Good
<1>3. Tree \subseteq G
    <2>1. G \in SUBSET Tree /\ Genesis \in G
        BY <1>1 DEF Tree
    <2>2. \A c \in Blocks : Parent[c] \in G => c \in G
        BY <1>2 DEF Tree
    <2> HIDE DEF G
    <2> QED
        BY <2>1, <2>2, TreeInduction
<1> QED
    BY <1>3 DEF Good

(* Of two ancestors of a block the lower one is an ancestor of the other.  *)
LEMMA BranchLinear ==
    ASSUME NEW b \in Tree, NEW x \in Branch[b], NEW y \in Branch[b], Height[x] <= Height[y]
    PROVE  x \in Branch[y]
<1> DEFINE Good(c) == \A u, v \in Branch[c] : Height[u] <= Height[v] => u \in Branch[v]
           G == {c \in Tree : Good(c)}
<1>1. Good(Genesis)
    <2>1. Branch[Genesis] = {Genesis}
        BY BranchDef DEF Tree
    <2> QED
        BY <2>1
<1>2. ASSUME NEW c \in Blocks, Good(Parent[c]) PROVE Good(c)
    <2>1. /\ c \in Tree /\ c # Genesis /\ Parent[c] \in Tree
          /\ Height[c] = Height[Parent[c]] + 1
          /\ \A u \in Tree : Height[u] \in Nat
        BY BlockAssumption DEF Tree
    <2>2. Branch[c] = {c} \cup Branch[Parent[c]]
        BY <2>1, BranchDef
    <2>3. \A v \in Branch[Parent[c]] : v \in Tree /\ Height[v] <= Height[Parent[c]]
        BY <2>1, BranchProperties
    <2>4. ASSUME NEW v \in Branch[Parent[c]], Height[c] <= Height[v] PROVE FALSE
        BY <2>1, <2>3, <2>4
    <2> QED
        BY <1>2, <2>2, <2>4
<1> HIDE DEF Good
<1>3. Tree \subseteq G
    <2>1. G \in SUBSET Tree /\ Genesis \in G
        BY <1>1 DEF Tree
    <2>2. \A c \in Blocks : Parent[c] \in G => c \in G
        BY <1>2 DEF Tree
    <2> HIDE DEF G
    <2> QED
        BY <2>1, <2>2, TreeInduction
<1> QED
    BY <1>3 DEF Good

(* A set that holds with each block its parent holds the whole branch.     *)
LEMMA BranchWithin ==
    ASSUME NEW S \in SUBSET Blocks, \A c \in S : Parent[c] \in S \cup {Genesis},
           NEW b \in S \cup {Genesis}
    PROVE  Branch[b] \subseteq S \cup {Genesis}
<1> DEFINE G == {c \in Tree : c \in S \cup {Genesis} => Branch[c] \subseteq S \cup {Genesis}}
<1>1. G \in SUBSET Tree /\ Genesis \in G
    BY BranchDef DEF Tree
<1>2. ASSUME NEW c \in Blocks, Parent[c] \in G PROVE c \in G
    <2>1. c \in Tree /\ c # Genesis
        BY BlockAssumption DEF Tree
    <2> QED
        BY <1>2, <2>1, BranchDef
<1> HIDE DEF G
<1>3. Tree \subseteq G
    BY <1>1, <1>2, TreeInduction
<1> QED
    BY <1>3 DEF G, Tree

(* The best chain is the branch of its tip.                                *)
LEMMA MainIsBranch ==
    ASSUME ChainInv
    PROVE  /\ Tip \in Tree /\ Branch[Tip] = Range(main) \cup {Genesis}
           /\ Height[Tip] = Height[Genesis] + Len(main)
<1>1. /\ main \in Seq(Blocks) /\ DOMAIN main = 1..Len(main) /\ Len(main) \in Nat
      /\ Range(main) \in SUBSET Blocks /\ \A i \in 1..Len(main) : main[i] \in Blocks
    <2>1. main \in Seq(Blocks) /\ DOMAIN main = 1..Len(main) /\ Len(main) \in Nat
        BY LenProperties DEF ChainInv, TypeOK
    <2> QED
        BY <2>1, ElementOfSeq DEF Range
<1>2. /\ \A i \in 1..Len(main) : /\ Height[main[i]] = Height[Genesis] + i
                               /\ Parent[main[i]] = IF i = 1 THEN Genesis ELSE main[i - 1]
      /\ Height[Genesis] \in Nat
    BY <1>1, BlockAssumption DEF ChainInv, Bookkeeping, MainIsChain
<1>3. \A c \in Range(main) : Parent[c] \in Range(main) \cup {Genesis}
    <2> SUFFICES ASSUME NEW i \in 1..Len(main) PROVE Parent[main[i]] \in Range(main) \cup {Genesis}
        BY <1>1 DEF Range
    <2>1. CASE i = 1
        BY <1>2, <2>1
    <2>2. CASE i # 1
        <3>1. i - 1 \in DOMAIN main
            BY <1>1, <2>2
        <3> QED
            BY <1>2, <2>2, <3>1 DEF Range
    <2> QED
        BY <2>1, <2>2
<1>4. \/ main = <<>> /\ Len(main) = 0 /\ Tip = Genesis
      \/ main # <<>> /\ Len(main) \in 1..Len(main) /\ Tip = main[Len(main)]
    BY <1>1, LastProperties, EmptySeq DEF Tip
<1>5. Tip \in Range(main) \cup {Genesis} /\ Tip \in Tree
    BY <1>1, <1>4 DEF Range, Tree
<1>6. Branch[Tip] \subseteq Range(main) \cup {Genesis}
    BY <1>1, <1>3, <1>5, BranchWithin
<1>7. Height[Tip] = Height[Genesis] + Len(main)
    BY <1>1, <1>2, <1>4
<1> DEFINE G == {c \in Tree : \A j \in 1..Len(main) : c = main[j] => \A i \in 1..j : main[i] \in Branch[c]}
<1>8. Genesis \in G
    BY <1>1, BlockAssumption DEF Tree
<1>9. ASSUME NEW c \in Blocks, Parent[c] \in G PROVE c \in G
    <2> SUFFICES ASSUME NEW j \in 1..Len(main), c = main[j], NEW i \in 1..j
                 PROVE  main[i] \in Branch[c]
        BY DEF Tree
    <2>1. c \in Tree /\ c # Genesis
        BY BlockAssumption DEF Tree
    <2>2. Branch[c] = {c} \cup Branch[Parent[c]]
        BY <2>1, BranchDef
    <2>3. CASE i = j
        BY <2>2, <2>3
    <2>4. CASE i # j
        <3>1. j - 1 \in 1..Len(main) /\ i \in 1..(j - 1) /\ Parent[c] = main[j - 1]
            BY <1>1, <1>2, <2>4
        <3> QED
            BY <1>9, <2>2, <3>1
    <2> QED
        BY <2>3, <2>4
<1>10. Tree \subseteq G
    <2>1. G \in SUBSET Tree
        OBVIOUS
    <2> HIDE DEF G
    <2> QED
        BY <1>8, <1>9, <2>1, TreeInduction
<1>11. Range(main) \subseteq Branch[Tip]
    BY <1>1, <1>4, <1>5, <1>10 DEF Range
<1>12. Genesis \in Branch[Tip]
    BY <1>5, BranchProperties
<1> QED
    BY <1>5, <1>6, <1>7, <1>11, <1>12

(* Two blocks are near when the first does not stand too far above one of  *)
(* their common ancestors.                                                 *)
Near(t, b) == \E x \in Branch[t] \cap Branch[b] : Height[t] - Height[x] <= Irreversible

(* connectBestChain counts the blocks it would have to detach.             *)
LEMMA DetachNear ==
    ASSUME ChainInv, NEW b \in Tree
    PROVE  DetachCount(b) <= Irreversible <=> Near(Tip, b)
<1> DEFINE n == Len(main)
           D == {i \in DOMAIN main : main[i] \notin Branch[b]}
<1>1. /\ n \in Nat /\ DOMAIN main = 1..n
      /\ \A i \in 1..n : main[i] \in Branch[Tip] /\ Height[main[i]] = Height[Genesis] + i
      /\ \A x \in Branch[Tip] : x = Genesis \/ \E i \in 1..n : x = main[i]
      /\ Height[Tip] = Height[Genesis] + n /\ Tip \in Tree
      /\ Height[Genesis] \in Nat /\ Irreversible \in Nat
    <2>1. n \in Nat /\ DOMAIN main = 1..n
        BY LenProperties DEF ChainInv, TypeOK
    <2>2. \A i \in 1..n : Height[main[i]] = Height[Genesis] + i
        BY <2>1 DEF ChainInv, Bookkeeping
    <2> QED
        BY <2>1, <2>2, MainIsBranch, BoundAssumption, BlockAssumption DEF Range
<1>2. D \subseteq 1..n /\ IsFiniteSet(1..n) /\ IsFiniteSet(D) /\ Cardinality(D) \in Nat
    <2>1. D \subseteq 1..n /\ IsFiniteSet(1..n)
        BY <1>1, FS_Interval
    <2> HIDE DEF D
    <2> QED
        BY <2>1, FS_Subset, FS_CardinalityType
<1>3. ASSUME Near(Tip, b) PROVE Cardinality(D) <= Irreversible
    <2>1. PICK x \in Branch[Tip] \cap Branch[b] : Height[Tip] - Height[x] <= Irreversible
        BY <1>3 DEF Near
    <2>2. PICK k \in 0..n : Height[x] = Height[Genesis] + k
        BY <1>1
    <2>3. D \subseteq (k + 1)..n
        <3> SUFFICES ASSUME NEW i \in 1..n, i <= k PROVE main[i] \in Branch[b]
            BY <1>1
        <3>1. main[i] \in Branch[Tip] /\ Height[main[i]] <= Height[x]
            BY <1>1, <2>2
        <3>2. main[i] \in Branch[x]
            BY <1>1, <2>1, <3>1, BranchLinear
        <3> QED
            BY <2>1, <3>2, BranchProperties
    <2>4. Cardinality((k + 1)..n) <= n - k /\ IsFiniteSet((k + 1)..n)
        <3>1. k + 1 \in Int /\ n \in Int
            BY <1>1
        <3>2. /\ IsFiniteSet((k + 1)..n)
              /\ Cardinality((k + 1)..n) = IF k + 1 > n THEN 0 ELSE n - (k + 1) + 1
            BY <3>1, FS_Interval
        <3> QED
            BY <1>1, <3>2
    <2>5. Cardinality(D) <= Cardinality((k + 1)..n) /\ Cardinality((k + 1)..n) \in Nat
        BY <2>3, <2>4, FS_Subset, FS_CardinalityType
    <2>6. n - k <= Irreversible
        BY <1>1, <2>1, <2>2
    <2> QED
        BY <1>1, <1>2, <2>4, <2>5, <2>6
<1>4. ASSUME Cardinality(D) <= Irreversible, ~Near(Tip, b) PROVE FALSE
    <2> DEFINE m == n - Irreversible
    <2>1. Genesis \in Branch[Tip] \cap Branch[b]
        BY <1>1, BranchProperties
    <2>2. n - Irreversible >= 1
        BY <1>1, <1>4, <2>1 DEF Near
    <2>3. m..n \subseteq D
        <3> SUFFICES ASSUME NEW i \in m..n PROVE i \in 1..n /\ main[i] \notin Branch[b]
            BY <1>1
        <3>1. i \in 1..n /\ n - i <= Irreversible
            BY <1>1, <2>2
        <3>2. main[i] \in Branch[Tip] /\ Height[Tip] - Height[main[i]] <= Irreversible
            BY <1>1, <3>1
        <3> QED
            BY <1>4, <3>1, <3>2 DEF Near
    <2>4. Cardinality(m..n) = Irreversible + 1
        <3>1. m \in Int /\ n \in Int
            BY <1>1
        <3>2. Cardinality(m..n) = IF m > n THEN 0 ELSE n - m + 1
            BY <3>1, FS_Interval
        <3> QED
            BY <1>1, <3>2
    <2> HIDE DEF D, m
    <2>5. Cardinality(m..n) <= Cardinality(D)
        BY <1>2, <2>3, FS_Subset
    <2> QED
        BY <1>1, <1>2, <1>4, <2>4, <2>5
<1>5. DetachCount(b) = Cardinality(D)
    BY DEF DetachCount
<1> QED
    BY <1>3, <1>4, <1>5

-----------------------------------------------------------------------------
(* What a call of the pool keeps to: it deals with descendants of its own  *)
(* block only, so that no reorganization it causes takes the block off the *)
(* chain again, and nothing is announced while it lasts.                   *)
CallInv ==
    /\ Idle => work = <<>> /\ inMain = FALSE
    /\ ~Idle => heard = {}
    /\ \A w \in Range(work) : call \in Branch[w]
    /\ target # NoBlock => call \in Branch[target]
    /\ inMain => call \in Range(main)
    /\ HeardInMain

(* An orphan whose parent is in the index has it among the blocks that     *)
(* ProcessOrphans goes on with, or it is the one that is being accepted.   *)
OrphanInv ==
    ~failed => \A o \in Range(orphans) :
        BlockExists(Parent[o]) => Parent[o] \in Range(work) \/ (target # NoBlock /\ Parent[o] = target)

(* No block of the index that is near t has more work than t.              *)
Best(t) ==
    \A b \in index : Branch[b] \cap Bad = {} /\ Near(t, b) => WorkSum[b] <= WorkSum[t]

(* The tip, or the tip to be, is the best block to be had.                 *)
BestInv == ~failed => Best(IF target = NoBlock THEN Tip ELSE target)

(* The chain is as high as it ever was; while it is reorganized, the block *)
(* at which the branches part is not too far below.                        *)
RollbackInv ==
    ~failed =>
        IF target = NoBlock THEN highest = Height[Tip]
        ELSE /\ highest <= Height[target]
             /\ \E x \in (Range(main) \cup {Genesis}) \cap Branch[target] :
                    highest - Height[x] <= Irreversible

CleanInv == \A h \in cleans : Height[Genesis] < h /\ h <= highest

-----------------------------------------------------------------------------
(* A block that is new to the index is accepted, for the call that brought *)
(* it or as an orphan.                                                     *)
Accepting(b, c) ==
    /\ b \in Blocks \ index /\ c \in Blocks /\ BlockExists(Parent[b]) /\ target = NoBlock
    /\ \/ Idle /\ c = b
       \/ ~Idle /\ c = call /\ Parent[b] \in Range(work)
    /\ Accept(b, c)

(* No orphan waits for the block at the head.                              *)
Popping ==
    /\ ~Idle /\ target = NoBlock /\ work # <<>> /\ Waiting = {}
    /\ work' = Tail(work)
    /\ UNCHANGED <<main, index, cache, cleans, highest, orphans, call, inMain, target, heard, failed>>

(* Only the pool, or the orphans that lack their parent, change.           *)
Pooling ==
    /\ Idle /\ heard' \subseteq heard /\ cleans' \subseteq cleans
    /\ UNCHANGED <<main, index, cache, highest, call, inMain, target, work, failed>>
    /\ \A o \in Range(orphans') \ Range(orphans) : ~BlockExists(Parent[o])

(* The steps, by what they do to the chain and to the call.                *)
LEMMA StepKinds ==
    ASSUME ChainInv, [Next]_vars
    PROVE  \/ \E b, c \in Blocks : Accepting(b, c)
           \/ Detach \/ (\E b \in Blocks : Attach(b))
           \/ Popping \/ Finish \/ Pooling \/ UNCHANGED vars
<1>1. Idle => target = NoBlock
    BY DEF ChainInv, Bookkeeping
<1>2. ASSUME NEW b \in Blocks, Idle, ProcessBlock(b) PROVE Pooling \/ Accepting(b, b)
    <2>1. CASE b \in index
        BY <1>2, <2>1 DEF ProcessBlock, Pooling, chainVars, orphanVars
    <2>2. CASE b \notin index /\ (b \in Range(orphans) \/ ~BlockExists(Parent[b]))
        <3>1. /\ heard' = {} /\ UNCHANGED <<main, index, cache, cleans, highest>>
              /\ UNCHANGED <<call, inMain, target, work, failed>>
              /\ IF b \in Range(orphans)
                 THEN orphanConfirms' = orphanConfirms \cup {b} /\ orphans' = orphans
                 ELSE AddOrphan(b)
            BY <1>2, <2>2 DEF ProcessBlock, chainVars
        <3>2. \A o \in Range(orphans') \ Range(orphans) : ~BlockExists(Parent[o])
            <4>1. CASE b \in Range(orphans)
                BY <3>1, <4>1
            <4>2. CASE b \notin Range(orphans)
                <5>1. Range(orphans') \subseteq Range(orphans) \cup {b}
                    BY <3>1, <4>2, AddOrphanProperties
                <5> QED
                    BY <2>2, <4>2, <5>1
            <4> QED
                BY <4>1, <4>2
        <3> QED
            BY <1>2, <3>1, <3>2 DEF Pooling
    <2>3. CASE b \notin index \cup Range(orphans) /\ BlockExists(Parent[b])
        BY <1>1, <1>2, <2>3 DEF ProcessBlock, Accepting
    <2> QED
        BY <2>1, <2>2, <2>3
<1>3. ASSUME Idle, NoProcessing PROVE Pooling
    BY <1>3 DEF NoProcessing, Pooling, chainVars, orphanVars
<1>4. ASSUME NEW b \in Blocks, AppendBlock(b) \/ AppendConfirm(b) \/ AppendBlockAndConfirm(b)
      PROVE  Pooling \/ Accepting(b, b)
    BY <1>2, <1>3, <1>4 DEF AppendBlock, AppendConfirm, AppendBlockAndConfirm
<1>5. ASSUME ProcessOrphan PROVE Popping \/ \E b, c \in Blocks : Accepting(b, c)
    <2>1. ~Idle /\ target = NoBlock /\ work # <<>>
        BY <1>5 DEF ProcessOrphan
    <2>2. CASE Waiting = {}
        BY <1>5, <2>1, <2>2 DEF ProcessOrphan, Popping, chainVars, orphanVars
    <2>3. CASE Waiting # {}
        <3>1. PICK i \in Waiting : Accept(orphans[i], call)
            BY <1>5, <2>3 DEF ProcessOrphan
        <3>2. orphans \in Seq(Blocks) /\ work \in Seq(Blocks) /\ call \in Blocks
            BY <2>1 DEF ChainInv, TypeOK, Idle
        <3>3. /\ orphans[i] \in Blocks /\ orphans[i] \in Range(orphans)
              /\ Parent[orphans[i]] = Head(work)
            BY <3>2, ElementOfSeq, LenProperties DEF Waiting, Range
        <3>4. Head(work) \in Range(work)
            <4>1. Len(work) \in Nat \ {0} /\ DOMAIN work = 1..Len(work) /\ Head(work) = work[1]
                BY <2>1, <3>2, EmptySeq, LenProperties
            <4> QED
                BY <4>1 DEF Range
        <3>5. orphans[i] # target
            BY <2>1, <3>3, BlockAssumption DEF NoBlock
        <3>6. orphans[i] \notin index /\ BlockExists(Parent[orphans[i]])
            BY <3>3, <3>4, <3>5 DEF ChainInv, Bookkeeping, BlockExists
        <3> QED
            BY <2>1, <3>1, <3>2, <3>3, <3>4, <3>6 DEF Accepting
    <2> QED
        BY <2>2, <2>3
<1>6. ASSUME NEW h \in cleans, CleanFinalConfirmedBlock(h) PROVE Pooling
    BY <1>6 DEF CleanFinalConfirmedBlock, Pooling, orphanVars, callVars
<1> QED
    BY <1>4, <1>5, <1>6 DEF Next

(* Each of the four ends of an acceptance.                                 *)
LEMMA AcceptKinds ==
    ASSUME NEW b \in Blocks, NEW c \in Blocks, Accept(b, c)
    PROVE  \/ /\ Parent[b] = Tip /\ ConnectBlock(b) /\ index' = index \cup {b}
              /\ cache' = cache /\ Accepted(b, c, TRUE)
           \/ Fail /\ UNCHANGED chainVars
           \/ /\ index' = index \cup {b} /\ UNCHANGED <<main, cleans, highest>>
              /\ ~MoreWork(b) /\ Accepted(b, c, FALSE)
           \/ /\ index' = index \cup {b} /\ UNCHANGED <<main, cleans, highest>>
              /\ MoreWork(b) /\ call' = c /\ target' = b /\ heard' = {}
              /\ UNCHANGED <<inMain, work, failed, orphans>>
<1>1. CASE Parent[b] = Tip
    BY <1>1 DEF Accept
<1>2. CASE Parent[b] # Tip
    BY <1>2 DEF Accept, orphanVars
<1> QED
    BY <1>1, <1>2

(* connectBlock makes the block the tip, disconnectBlock takes off the tip *)
(* alone.                                                                  *)
LEMMA ConnectTip ==
    ASSUME ChainInv, NEW b \in Blocks, ConnectBlock(b)
    PROVE  Tip' = b /\ Range(main') = Range(main) \cup {b}
<1>1. main' = Append(main, b) /\ main \in Seq(Blocks)
    BY DEF ConnectBlock, ChainInv, TypeOK
<1>2. /\ main' \in Seq(Blocks) /\ Range(main') = Range(main) \cup {b}
      /\ Len(main') = Len(main) + 1 /\ Len(main) \in Nat /\ main'[Len(main) + 1] = b
    BY <1>1, AppendRange
<1>3. main' # <<>>
    BY <1>2, EmptySeq
<1>4. Tip' = Last(main')
    BY <1>3 DEF Tip
<1> QED
    BY <1>2, <1>3, <1>4, LastProperties

LEMMA DetachTip ==
    ASSUME ChainInv, Detach
    PROVE  /\ Range(main) \subseteq Range(main') \cup {Tip} /\ Range(main') \subseteq Range(main)
           /\ target # NoBlock /\ Tip \notin Branch[target]
           /\ UNCHANGED <<index, cleans, highest, orphans, call, inMain, target, work, heard, failed>>
<1>1. /\ main # <<>> /\ main' = SubSeq(main, 1, Len(main) - 1) /\ main \in Seq(Blocks)
      /\ target # NoBlock /\ Tip \notin Branch[target]
      /\ UNCHANGED <<index, cleans, highest, orphans, call, inMain, target, work, heard, failed>>
    BY DEF Detach, DisconnectTip, orphanVars, callVars, ChainInv, TypeOK
<1>2. /\ Len(main') = Len(main) - 1 /\ DOMAIN main' = 1..(Len(main) - 1)
      /\ DOMAIN main = 1..Len(main) /\ Len(main) \in Nat \ {0}
      /\ \A i \in 1..(Len(main) - 1) : main'[i] = main[i]
    BY <1>1, FrontProperties
<1>3. Tip = main[Len(main)]
    BY <1>1, LastProperties DEF Tip
<1>4. \A i \in 1..Len(main) : i \in 1..(Len(main) - 1) \/ i = Len(main)
    BY <1>2
<1>5. \A i \in 1..(Len(main) - 1) : i \in 1..Len(main)
    BY <1>2
<1>6. Range(main) \subseteq Range(main') \cup {Tip} /\ Range(main') \subseteq Range(main)
    BY <1>2, <1>3, <1>4, <1>5 DEF Range
<1> QED
    BY <1>1, <1>6

LEMMA AttachKinds ==
    ASSUME ChainInv, NEW b \in Blocks, Attach(b)
    PROVE  /\ target # NoBlock /\ b \in Branch[target] /\ Parent[b] = Tip
           /\ target \in Blocks /\ call \in Blocks
           /\ \/ Fail /\ UNCHANGED chainVars
              \/ ConnectBlock(b) /\ index' = index /\ b = target /\ Accepted(b, call, TRUE)
              \/ /\ ConnectBlock(b) /\ index' = index /\ b # target
                 /\ UNCHANGED <<orphans, call, inMain, target, work, heard, failed>>
<1>1. target # NoBlock /\ b \in Branch[target] /\ Parent[b] = Tip
    BY DEF Attach
<1>2. target \in Blocks /\ call \in Blocks
    BY <1>1 DEF ChainInv, TypeOK, Bookkeeping, Idle
<1> QED
    BY <1>1, <1>2 DEF Attach, orphanVars, callVars

(* The blocks still to be gone on with, without the first.                 *)
LEMMA PoppedRange ==
    ASSUME ChainInv, Popping
    PROVE  Range(work') \subseteq Range(work) /\ Range(work) \subseteq Range(work') \cup {Head(work)}
<1>1. work \in Seq(Blocks) /\ work # <<>> /\ work' = Tail(work)
    BY DEF ChainInv, TypeOK, Popping
<1>2. Len(work) \in Nat \ {0} /\ DOMAIN work = 1..Len(work) /\ Head(work) = work[1]
    BY <1>1, EmptySeq, LenProperties
<1>3. /\ work' \in Seq(Blocks) /\ Len(work') = Len(work) - 1
      /\ \A i \in 1..Len(work') : work'[i] = work[i + 1]
    BY <1>1, HeadTailProperties
<1>4. DOMAIN work' = 1..Len(work')
    BY <1>3, LenProperties
<1>5. \A i \in 1..Len(work') : i + 1 \in 1..Len(work)
    BY <1>2, <1>3
<1>6. Range(work') \subseteq Range(work)
    <2>1. \A i \in 1..Len(work') : work'[i] \in {work[j] : j \in 1..Len(work)}
        BY <1>3, <1>5
    <2> QED
        BY <1>2, <1>4, <2>1 DEF Range
<1>7. ASSUME NEW i \in 1..Len(work), i # 1 PROVE work[i] \in Range(work')
    <2>1. i - 1 \in 1..Len(work') /\ (i - 1) + 1 = i
        BY <1>2, <1>3, <1>7
    <2>2. work'[i - 1] = work[i]
        BY <1>3, <2>1
    <2> QED
        BY <1>4, <2>1, <2>2 DEF Range
<1> QED
    BY <1>2, <1>6, <1>7 DEF Range

-----------------------------------------------------------------------------
(* A call and its block.                                                   *)
LEMMA CallStep ==
    ASSUME ChainInv, ChainInv', CallInv, [Next]_vars
    PROVE  CallInv'
<1>1. Genesis \notin Blocks /\ Range(<<>>) = {}
    BY BlockAssumption DEF Range
<1>2. ASSUME Fail PROVE CallInv'
    BY <1>1, <1>2 DEF Fail, CallInv, Idle, HeardInMain, NoBlock
<1>3. ASSUME NEW b \in Blocks, NEW c \in Blocks, Accepting(b, c) PROVE CallInv'
    <2>1. /\ Accept(b, c) /\ b \in Tree /\ target = NoBlock
          /\ \/ Idle /\ c = b /\ Range(work) = {} /\ inMain = FALSE
             \/ ~Idle /\ c = call /\ Parent[b] \in Range(work)
        BY <1>1, <1>3 DEF Accepting, CallInv, Tree
    <2>2. c \in Branch[b] /\ \A w \in Range(work) : c \in Branch[w]
        <3>1. b # Genesis /\ Branch[b] = {b} \cup Branch[Parent[b]]
            BY <1>1, <2>1, BranchDef
        <3> QED
            BY <2>1, <3>1 DEF CallInv
    <2>3. inMain => c \in Range(main)
        BY <2>1 DEF CallInv
    <2>4. ASSUME NEW d \in BOOLEAN, Accepted(b, c, d), Range(main) \subseteq Range(main'),
                 d => b \in Range(main')
          PROVE  CallInv'
        <3>1. /\ Range(work') = Range(work) \cup {b} /\ call' = c /\ target' = NoBlock
              /\ heard' = {}
            BY <2>4, AcceptedProperties
        <3>2. inMain' = IF b = c THEN d ELSE inMain
            BY <2>4 DEF Accepted
        <3>3. inMain' => c \in Range(main')
            BY <2>3, <2>4, <3>2
        <3> QED
            BY <1>1, <2>2, <3>1, <3>3 DEF CallInv, Idle, HeardInMain, NoBlock
    <2>5. CASE Parent[b] = Tip /\ ConnectBlock(b) /\ Accepted(b, c, TRUE)
        BY <2>4, <2>5, ConnectTip
    <2>6. CASE UNCHANGED main /\ Accepted(b, c, FALSE)
        BY <2>4, <2>6
    <2>7. CASE /\ main' = main /\ call' = c /\ target' = b /\ heard' = {}
               /\ inMain' = inMain /\ work' = work
        BY <1>1, <2>2, <2>3, <2>7 DEF CallInv, Idle, HeardInMain, NoBlock
    <2> QED
        BY <1>2, <2>1, <2>5, <2>6, <2>7, AcceptKinds
<1>4. CASE Detach
    BY <1>4, DetachTip DEF CallInv, HeardInMain, Idle, ChainInv, Bookkeeping
<1>5. ASSUME NEW b \in Blocks, Attach(b) PROVE CallInv'
    <2>1. target # NoBlock /\ call \in Blocks /\ call \in Branch[target] /\ heard = {}
        BY <1>5, AttachKinds DEF CallInv, ChainInv, Bookkeeping
    <2>2. CASE ConnectBlock(b) /\ b = target /\ Accepted(b, call, TRUE)
        <3>1. /\ Range(work') = Range(work) \cup {b} /\ call' = call /\ target' = NoBlock
              /\ heard' = {}
            BY <2>1, <2>2, AcceptedProperties
        <3>2. inMain' = IF b = call THEN TRUE ELSE inMain
            BY <2>2 DEF Accepted
        <3>3. Range(main') = Range(main) \cup {b}
            BY <2>2, ConnectTip
        <3>4. inMain' => call' \in Range(main')
            BY <3>1, <3>2, <3>3 DEF CallInv
        <3> QED
            BY <1>1, <2>1, <2>2, <3>1, <3>4 DEF CallInv, Idle, HeardInMain, NoBlock
    <2>3. CASE /\ ConnectBlock(b) /\ b # target
               /\ UNCHANGED <<orphans, call, inMain, target, work, heard, failed>>
        <3>1. Range(main') = Range(main) \cup {b}
            BY <2>3, ConnectTip
        <3> QED
            BY <2>3, <3>1 DEF CallInv, Idle, HeardInMain
    <2> QED
        BY <1>2, <1>5, <2>2, <2>3, AttachKinds
<1>6. CASE Popping
    BY <1>6, PoppedRange DEF Popping, CallInv, Idle, HeardInMain
<1>7. CASE Finish
    BY <1>1, <1>7 DEF Finish, CallInv, Idle, HeardInMain, NoBlock, chainVars
<1>8. CASE Pooling
    BY <1>8 DEF Pooling, CallInv, Idle, HeardInMain
<1>9. CASE UNCHANGED vars
    BY <1>9 DEF vars, chainVars, callVars, CallInv, Idle, HeardInMain
<1> QED
    BY <1>3, <1>4, <1>5, <1>6, <1>7, <1>8, <1>9, StepKinds

(* No orphan is left behind.                                               *)
LEMMA OrphanStep ==
    ASSUME ChainInv, CallInv, OrphanInv, [Next]_vars
    PROVE  OrphanInv'
<1> SUFFICES ASSUME ~failed', NEW o \in Range(orphans'), BlockExists(Parent[o])'
             PROVE  Parent[o] \in Range(work') \/ (target' # NoBlock /\ Parent[o] = target')
    BY DEF OrphanInv
<1>1. Genesis \notin Blocks
    BY BlockAssumption
<1>2. ASSUME Fail PROVE FALSE
    BY <1>2 DEF Fail
<1>3. ASSUME NEW b \in Blocks, NEW c \in Blocks, Accepting(b, c)
      PROVE  Parent[o] \in Range(work') \/ (target' # NoBlock /\ Parent[o] = target')
    <2>1. Accept(b, c) /\ target = NoBlock
        BY <1>3 DEF Accepting
    <2>2. ASSUME NEW d \in BOOLEAN, Accepted(b, c, d), index' = index \cup {b}
          PROVE  Parent[o] \in Range(work')
        <3>1. Range(work') = Range(work) \cup {b} /\ o \in Range(orphans) /\ failed' = failed
            BY <2>2, AcceptedProperties DEF Accepted
        <3>2. BlockExists(Parent[o]) \/ Parent[o] = b
            BY <2>2 DEF BlockExists
        <3> QED
            BY <2>1, <3>1, <3>2 DEF OrphanInv
    <2>3. CASE /\ index' = index \cup {b} /\ target' = b
               /\ UNCHANGED <<work, failed, orphans>>
        <3>1. BlockExists(Parent[o]) \/ Parent[o] = b
            BY <2>3 DEF BlockExists
        <3> QED
            BY <1>1, <2>1, <2>3, <3>1 DEF OrphanInv, NoBlock
    <2> QED
        BY <1>2, <2>1, <2>2, <2>3, AcceptKinds
<1>4. CASE Detach
    BY <1>4, DetachTip DEF OrphanInv, BlockExists
<1>5. ASSUME NEW b \in Blocks, Attach(b)
      PROVE  Parent[o] \in Range(work') \/ (target' # NoBlock /\ Parent[o] = target')
    <2>1. call \in Blocks
        BY <1>5, AttachKinds
    <2>2. CASE index' = index /\ b = target /\ Accepted(b, call, TRUE)
        <3>1. Range(work') = Range(work) \cup {b} /\ o \in Range(orphans) /\ failed' = failed
            BY <2>1, <2>2, AcceptedProperties DEF Accepted
        <3> QED
            BY <2>2, <3>1 DEF OrphanInv, BlockExists
    <2>3. CASE index' = index /\ UNCHANGED <<orphans, target, work, failed>>
        BY <2>3 DEF OrphanInv, BlockExists
    <2> QED
        BY <1>2, <1>5, <2>2, <2>3, AttachKinds
<1>6. CASE Popping
    <2>1. /\ ~failed /\ o \in Range(orphans) /\ BlockExists(Parent[o]) /\ target = NoBlock
          /\ Waiting = {}
        BY <1>6 DEF Popping, BlockExists
    <2>2. Parent[o] \in Range(work) /\ Parent[o] # Head(work)
        BY <2>1 DEF OrphanInv, Waiting, Range
    <2> QED
        BY <1>6, <2>2, PoppedRange
<1>7. CASE Finish
    BY <1>7 DEF Finish, OrphanInv, BlockExists, chainVars, orphanVars
<1>8. CASE Pooling
    BY <1>8 DEF Pooling, OrphanInv, BlockExists
<1>9. CASE UNCHANGED vars
    BY <1>9 DEF vars, chainVars, orphanVars, callVars, OrphanInv, BlockExists
<1> QED
    BY <1>3, <1>4, <1>5, <1>6, <1>7, <1>8, <1>9, StepKinds

(* Heights that are to be cleaned up to were connected once.               *)
LEMMA CleanStep ==
    ASSUME ChainInv, CleanInv, [Next]_vars
    PROVE  CleanInv'
<1>1. highest \in Nat /\ cleans \subseteq Nat /\ \A b \in Tree : Height[b] \in Nat
    BY BlockAssumption DEF ChainInv, TypeOK, Tree
<1>2. CASE cleans' \subseteq cleans /\ highest' = highest
    BY <1>2 DEF CleanInv
<1>3. ASSUME NEW b \in Blocks, ConnectBlock(b) PROVE CleanInv'
    <2>1. b \in Tree /\ Genesis \in Tree /\ Parent[b] \in Tree /\ Height[b] = Height[Parent[b]] + 1
        BY BlockAssumption DEF Tree
    <2>2. Height[Genesis] <= Height[Parent[b]]
        BY <2>1, BranchProperties
    <2>3. Height[Genesis] < Height[b] /\ Height[b] \in Nat
        BY <1>1, <2>1, <2>2
    <2>4. /\ cleans' = cleans \cup {Height[b]}
          /\ highest' = IF Height[b] > highest THEN Height[b] ELSE highest
        BY <1>3 DEF ConnectBlock
    <2> QED
        BY <1>1, <2>3, <2>4 DEF CleanInv
<1>4. CASE UNCHANGED chainVars
    BY <1>2, <1>4 DEF chainVars
<1>5. ASSUME NEW b \in Blocks, NEW c \in Blocks, Accepting(b, c) PROVE CleanInv'
    <2>1. Accept(b, c)
        BY <1>5 DEF Accepting
    <2> QED
        BY <1>2, <1>3, <1>4, <2>1, AcceptKinds
<1>6. CASE Detach
    BY <1>2, <1>6, DetachTip
<1>7. ASSUME NEW b \in Blocks, Attach(b) PROVE CleanInv'
    BY <1>3, <1>4, <1>7, AttachKinds
<1>8. CASE Popping \/ Finish \/ Pooling \/ UNCHANGED vars
    BY <1>2, <1>8 DEF Popping, Finish, Pooling, vars, chainVars
<1> QED
    BY <1>5, <1>6, <1>7, <1>8, StepKinds

-----------------------------------------------------------------------------
(* Blocks of one difficulty have the same work: more work is never had by  *)
(* fewer blocks.                                                           *)
WorkFollowsHeight ==
    \A a, b \in Tree : WorkSum[a] < WorkSum[b] => Height[a] <= Height[b]

(* A block with more work and near to t has no block near to it that is    *)
(* not near to t: where the two branches part, the third has parted from   *)
(* both, or it follows one of them.                                        *)
LEMMA NearTransitive ==
    ASSUME NEW t \in Tree, NEW b \in Tree, NEW o \in Tree,
           Near(t, b), Near(b, o), Height[t] <= Height[b]
    PROVE  Near(t, o)
<1>1. PICK y \in Branch[t] \cap Branch[b] : Height[t] - Height[y] <= Irreversible
    BY DEF Near
<1>2. PICK x \in Branch[b] \cap Branch[o] : Height[b] - Height[x] <= Irreversible
    BY DEF Near
<1>3. /\ \A c \in Tree : Height[c] \in Nat
      /\ x \in Tree /\ y \in Tree /\ Irreversible \in Nat
    BY BranchProperties, BlockAssumption, BoundAssumption DEF Tree
<1>4. CASE Height[y] <= Height[x]
    <2>1. y \in Branch[o]
        BY <1>1, <1>2, <1>4, BranchLinear, BranchProperties
    <2> QED
        BY <1>1, <2>1 DEF Near
<1>5. CASE Height[x] <= Height[y]
    <2>1. x \in Branch[t]
        BY <1>1, <1>2, <1>5, BranchLinear, BranchProperties
    <2>2. Height[t] - Height[x] <= Irreversible
        BY <1>2, <1>3
    <2> QED
        BY <1>2, <2>1, <2>2 DEF Near
<1> QED
    BY <1>3, <1>4, <1>5

(* Chain selection: no acceptance leaves a better block near the tip.      *)
LEMMA BestStep ==
    ASSUME WorkFollowsHeight, ChainInv, ChainInv', BestInv, [Next]_vars
    PROVE  BestInv'
<1> SUFFICES ASSUME ~failed', NEW o \in index', Branch[o] \cap Bad = {},
                    NEW t, t = IF target' = NoBlock THEN Tip' ELSE target', Near(t, o)
             PROVE  WorkSum[o] <= WorkSum[t]
    BY DEF BestInv, Best
<1>1. /\ Genesis \notin Blocks /\ index \subseteq Blocks /\ o \in Tree /\ Tip \in Tree
      /\ \A c \in Tree : Height[c] \in Nat /\ WorkSum[c] \in Nat
      /\ \A c \in Blocks : /\ Height[c] = Height[Parent[c]] + 1
                          /\ WorkSum[c] > WorkSum[Parent[c]] /\ c \in Tree
    BY BlockAssumption, MainIsBranch DEF ChainInv, TypeOK, Tree
<1>2. ASSUME Fail PROVE FALSE
    BY <1>2 DEF Fail
<1>3. CASE index' = index /\ failed' = failed /\ target' = target /\ (target = NoBlock => main' = main)
    BY <1>3 DEF BestInv, Best, Tip
<1>4. ASSUME NEW b \in Blocks, NEW c \in Blocks, Accepting(b, c) PROVE WorkSum[o] <= WorkSum[t]
    <2>1. /\ Accept(b, c) /\ target = NoBlock /\ b \notin index /\ b # Genesis /\ b \in Tree
        BY <1>1, <1>4 DEF Accepting
    <2>2. ASSUME NEW p \in index PROVE b \notin Branch[p]
        <3>1. Branch[p] \subseteq index \cup {Genesis}
            BY <1>1, BranchWithin DEF ChainInv, Bookkeeping
        <3> QED
            BY <2>1, <3>1
    <2>3. CASE Parent[b] = Tip /\ ConnectBlock(b) /\ index' = index \cup {b} /\ Accepted(b, c, TRUE)
        <3>1. t = b /\ failed' = failed
            BY <2>3, ConnectTip DEF Accepted
        <3>2. CASE o = b
            BY <1>1, <3>1, <3>2
        <3>3. CASE o # b
            <4>1. o \in index /\ b \notin Branch[o]
                BY <2>2, <2>3, <3>3
            <4>2. PICK x \in Branch[b] \cap Branch[o] : Height[b] - Height[x] <= Irreversible
                BY <3>1 DEF Near
            <4>3. x \in Branch[Tip] /\ x \in Tree
                <5>1. Branch[b] = {b} \cup Branch[Tip] /\ Branch[b] \subseteq Tree
                    BY <2>1, <2>3, BranchDef, BranchProperties
                <5> QED
                    BY <4>1, <4>2, <5>1
            <4>4. Height[Tip] - Height[x] <= Irreversible
                BY <1>1, <2>3, <4>2, <4>3, BoundAssumption
            <4>5. Near(Tip, o)
                BY <4>2, <4>3, <4>4 DEF Near
            <4>6. WorkSum[o] <= WorkSum[Tip]
                BY <2>1, <3>1, <4>1, <4>5 DEF BestInv, Best
            <4> QED
                BY <1>1, <2>3, <3>1, <4>6
        <3> QED
            BY <3>2, <3>3
    <2>4. CASE index' = index \cup {b} /\ main' = main /\ ~MoreWork(b) /\ Accepted(b, c, FALSE)
        <3>1. t = Tip /\ failed' = failed
            BY <2>4 DEF Accepted, Tip
        <3>2. CASE o = b
            <4>1. ~(WorkSum[b] > WorkSum[Tip])
                BY <2>1, <2>4, <3>1, <3>2, DetachNear DEF MoreWork
            <4> QED
                BY <1>1, <3>1, <3>2, <4>1
        <3>3. CASE o # b
            BY <2>1, <2>4, <3>1, <3>3 DEF BestInv, Best
        <3> QED
            BY <3>2, <3>3
    <2>5. CASE index' = index \cup {b} /\ MoreWork(b) /\ target' = b /\ failed' = failed
        <3>1. t = b
            BY <2>1, <2>5 DEF NoBlock
        <3>2. Near(Tip, b) /\ WorkSum[Tip] < WorkSum[b] /\ Height[Tip] <= Height[b]
            <4>1. WorkSum[Tip] < WorkSum[b] /\ DetachCount(b) <= Irreversible
                BY <1>1, <2>5 DEF MoreWork
            <4> QED
                BY <1>1, <2>1, <4>1, DetachNear DEF WorkFollowsHeight
        <3>3. CASE o = b
            BY <1>1, <3>1, <3>3
        <3>4. CASE o # b
            <4>1. o \in index /\ Near(Tip, o)
                BY <1>1, <2>1, <2>5, <3>1, <3>2, <3>4, NearTransitive
            <4>2. WorkSum[o] <= WorkSum[Tip]
                BY <2>1, <2>5, <4>1 DEF BestInv, Best
            <4> QED
                BY <1>1, <2>1, <3>1, <3>2, <4>2
        <3> QED
            BY <3>3, <3>4
    <2> QED
        BY <1>2, <2>1, <2>3, <2>4, <2>5, AcceptKinds
<1>5. CASE Detach
    BY <1>3, <1>5, DetachTip
<1>6. ASSUME NEW b \in Blocks, Attach(b) PROVE WorkSum[o] <= WorkSum[t]
    <2>1. CASE ConnectBlock(b) /\ index' = index /\ b = target /\ Accepted(b, call, TRUE)
        <3>1. t = target /\ failed' = failed /\ target # NoBlock
            BY <1>6, <2>1, ConnectTip, AttachKinds DEF Accepted
        <3> QED
            BY <2>1, <3>1 DEF BestInv, Best
    <2>2. CASE index' = index /\ target # NoBlock /\ UNCHANGED <<target, failed>>
        BY <1>3, <2>2
    <2> QED
        BY <1>2, <1>6, <2>1, <2>2, AttachKinds
<1>7. CASE Popping \/ Finish \/ Pooling \/ UNCHANGED vars
    BY <1>3, <1>7 DEF Popping, Finish, Pooling, vars, chainVars, callVars
<1> QED
    BY <1>4, <1>5, <1>6, <1>7, StepKinds

(* How far the chain is cut back.                                          *)
LEMMA RollbackStep ==
    ASSUME WorkFollowsHeight, ChainInv, RollbackInv, [Next]_vars
    PROVE  RollbackInv'
<1> SUFFICES ASSUME ~failed' PROVE RollbackInv'
    BY DEF RollbackInv
<1> DEFINE Fork(x) == x \in (Range(main) \cup {Genesis}) \cap Branch[target] /\ highest - Height[x] <= Irreversible
<1>1. /\ Genesis \notin Blocks /\ Tip \in Tree /\ highest \in Nat /\ Irreversible \in Nat
      /\ \A c \in Tree : Height[c] \in Nat /\ WorkSum[c] \in Nat
      /\ \A c \in Blocks : Height[c] = Height[Parent[c]] + 1 /\ c \in Tree
    BY BlockAssumption, BoundAssumption, MainIsBranch DEF ChainInv, TypeOK, Tree
<1>2. ASSUME Fail PROVE FALSE
    BY <1>2 DEF Fail
<1>3. CASE UNCHANGED <<main, highest, failed, target>>
    BY <1>3 DEF RollbackInv, Tip
<1>4. ASSUME NEW b \in Blocks, NEW c \in Blocks, Accepting(b, c) PROVE RollbackInv'
    <2>1. Accept(b, c) /\ target = NoBlock /\ b # Genesis /\ b \in Tree
        BY <1>1, <1>4 DEF Accepting
    <2>2. CASE Parent[b] = Tip /\ ConnectBlock(b) /\ Accepted(b, c, TRUE)
        <3>1. Tip' = b /\ failed' = failed /\ target' = NoBlock
            BY <2>2, ConnectTip DEF Accepted
        <3>2. highest' = IF Height[b] > highest THEN Height[b] ELSE highest
            BY <2>2 DEF ConnectBlock
        <3>3. highest = Height[Tip]
            BY <2>1, <3>1 DEF RollbackInv
        <3>4. highest' = Height[b]
            BY <1>1, <2>2, <3>2, <3>3
        <3> QED
            BY <3>1, <3>4 DEF RollbackInv
    <2>3. CASE UNCHANGED <<main, highest>> /\ Accepted(b, c, FALSE)
        BY <1>3, <2>1, <2>3 DEF Accepted
    <2>4. CASE UNCHANGED <<main, highest, failed>> /\ MoreWork(b) /\ target' = b
        <3>1. WorkSum[Tip] < WorkSum[b] /\ DetachCount(b) <= Irreversible
            BY <1>1, <2>4 DEF MoreWork
        <3>2. Near(Tip, b) /\ Height[Tip] <= Height[b]
            BY <1>1, <2>1, <3>1, DetachNear DEF WorkFollowsHeight
        <3>3. highest = Height[Tip] /\ Branch[Tip] = Range(main) \cup {Genesis}
            BY <2>1, <2>4, MainIsBranch DEF RollbackInv
        <3>4. \E x \in (Range(main) \cup {Genesis}) \cap Branch[b] : highest - Height[x] <= Irreversible
            BY <3>2, <3>3 DEF Near
        <3> QED
            BY <2>1, <2>4, <3>2, <3>3, <3>4 DEF RollbackInv, NoBlock
    <2> QED
        BY <1>2, <2>1, <2>2, <2>3, <2>4, AcceptKinds
<1>5. CASE Detach
    <2>1. /\ target # NoBlock /\ UNCHANGED <<highest, target, failed>>
          /\ Range(main) \subseteq Range(main') \cup {Tip} /\ Tip \notin Branch[target]
        BY <1>5, DetachTip
    <2>2. highest <= Height[target] /\ \E x : Fork(x)
        BY <2>1 DEF RollbackInv
    <2> QED
        BY <2>1, <2>2 DEF RollbackInv
<1>6. ASSUME NEW b \in Blocks, Attach(b) PROVE RollbackInv'
    <2>1. target # NoBlock /\ b \in Branch[target] /\ target \in Tree /\ b \in Tree
        BY <1>1, <1>6, AttachKinds
    <2>2. ASSUME ConnectBlock(b), failed' = failed
          PROVE  /\ highest' = IF Height[b] > highest THEN Height[b] ELSE highest
                 /\ highest' <= Height[target] /\ Height[b] <= Height[target]
                 /\ Tip' = b /\ Range(main') = Range(main) \cup {b}
                 /\ \E x : Fork(x)
        <3>1. highest' = IF Height[b] > highest THEN Height[b] ELSE highest
            BY <2>2 DEF ConnectBlock
        <3>2. highest <= Height[target] /\ \E x : Fork(x)
            BY <2>1, <2>2 DEF RollbackInv
        <3>3. Height[b] <= Height[target]
            BY <2>1, BranchProperties
        <3> QED
            BY <2>2, <3>1, <3>2, <3>3, ConnectTip
    <2>3. CASE ConnectBlock(b) /\ b = target /\ Accepted(b, call, TRUE)
        <3>1. failed' = failed /\ target' = NoBlock
            BY <2>3 DEF Accepted
        <3>2. highest' = Height[b]
            BY <1>1, <2>1, <2>2, <2>3, <3>1
        <3> QED
            BY <2>2, <2>3, <3>1, <3>2 DEF RollbackInv
    <2>4. CASE ConnectBlock(b) /\ UNCHANGED <<target, failed>>
        <3>1. \E x \in (Range(main') \cup {Genesis}) \cap Branch[target] : highest' - Height[x] <= Irreversible
            <4>1. CASE highest' = highest
                BY <2>2, <2>4, <4>1
            <4>2. CASE highest' = Height[b]
                <5>1. highest' - Height[b] <= Irreversible
                    BY <1>1, <2>1, <4>2
                <5> QED
                    BY <2>1, <2>2, <2>4, <5>1
            <4> QED
                BY <2>2, <2>4, <4>1, <4>2
        <3> QED
            BY <2>1, <2>2, <2>4, <3>1 DEF RollbackInv
    <2> QED
        BY <1>2, <1>6, <2>3, <2>4, AttachKinds
<1>7. CASE Popping \/ Finish \/ Pooling \/ UNCHANGED vars
    BY <1>3, <1>7 DEF Popping, Finish, Pooling, vars, chainVars, callVars
<1> QED
    BY <1>4, <1>5, <1>6, <1>7, StepKinds

-----------------------------------------------------------------------------
(* What holds at the start.                                                *)
LEMMA InitFacts ==
    ASSUME Init
    PROVE  CallInv /\ OrphanInv /\ BestInv /\ RollbackInv /\ CleanInv
<1>1. /\ Range(work) = {} /\ Range(orphans) = {} /\ index = {} /\ cleans = {} /\ heard = {}
      /\ Tip = Genesis /\ highest = Height[Genesis] /\ target = NoBlock /\ call = NoBlock
      /\ work = <<>> /\ inMain = FALSE
    BY DEF Init, Range, Tip
<1> QED
    BY <1>1 DEF CallInv, OrphanInv, BestInv, Best, RollbackInv, CleanInv, HeardInMain, Idle

(* A block is announced as confirmed only while it is in the best chain,   *)
(* whatever the orphans accepted after it have done to the chain           *)
(* (appendConfirm, appendBlockAndConfirm).                                 *)
THEOREM AnnouncedInMain == Spec => []HeardInMain
<1>1. Init => CallInv
    BY InitFacts
<1>2. ChainInv /\ ChainInv' /\ CallInv /\ [Next]_vars => CallInv'
    BY CallStep
<1>3. CallInv => HeardInMain
    BY DEF CallInv
<1> QED
    BY <1>1, <1>2, <1>3, ChainCorrect, PTL DEF Spec

(* Unless a block fails to be connected, every orphan whose parent arrives *)
(* is accepted with it, also after a reorganization (ProcessOrphans).      *)
THEOREM OrphansAreAccepted == Spec => []OrphansAccepted
<1>1. Init => CallInv /\ OrphanInv
    BY InitFacts
<1>2. ChainInv /\ ChainInv' /\ CallInv /\ OrphanInv /\ [Next]_vars => CallInv' /\ OrphanInv'
    BY CallStep, OrphanStep
<1>3. ChainInv /\ CallInv /\ OrphanInv => OrphansAccepted
    <2> SUFFICES ASSUME ChainInv, CallInv, OrphanInv, ~failed, Idle,
                        NEW b \in Range(orphans) \ Bad, BlockExists(Parent[b])
                 PROVE  FALSE
        BY DEF OrphansAccepted, OrphansAcceptedAlways
    <2>1. Range(work) = {} /\ target = NoBlock
        BY DEF ChainInv, Bookkeeping, CallInv, Range
    <2> QED
        BY <2>1 DEF OrphanInv
<1> QED
    BY <1>1, <1>2, <1>3, ChainCorrect, PTL DEF Spec

(* The best chain has the most work of those that do not fork off too      *)
(* deep, whatever the order of arrival, as long as more work is never had  *)
(* by fewer blocks (connectBestChain).                                     *)
THEOREM ChainSelection == ASSUME WorkFollowsHeight PROVE Spec => []MostWork
<1>1. Init => BestInv
    BY InitFacts
<1>2. ChainInv /\ ChainInv' /\ BestInv /\ [Next]_vars => BestInv'
    BY BestStep
<1>3. ChainInv /\ BestInv => MostWork
    <2> SUFFICES ASSUME ChainInv, BestInv, ~failed, Idle, NEW b \in index,
                        Branch[b] \cap Bad = {}, DetachCount(b) <= Irreversible
                 PROVE  WorkSum[b] <= WorkSum[Tip]
        BY DEF MostWork, MostWorkAlways
    <2>1. target = NoBlock /\ b \in Tree
        BY DEF ChainInv, Bookkeeping, TypeOK, Tree
    <2> QED
        BY <2>1, DetachNear DEF BestInv, Best
<1> QED
    BY <1>1, <1>2, <1>3, ChainCorrect, PTL DEF Spec

(* Under the same hypothesis the chain is never cut back further below its *)
(* highest point than irreversibleHeight, not even in the middle of a      *)
(* reorganization: what the undo logs of the states must reach.            *)
THEOREM RollbackIsBounded == ASSUME WorkFollowsHeight PROVE Spec => []RollbackBounded
<1>1. Init => RollbackInv
    BY InitFacts
<1>2. ChainInv /\ RollbackInv /\ [Next]_vars => RollbackInv'
    BY RollbackStep
<1>3. ChainInv /\ RollbackInv => RollbackBounded
    <2> SUFFICES ASSUME ChainInv, RollbackInv, ~failed
                 PROVE  Height[Tip] >= highest - Irreversible
        BY DEF RollbackBounded
    <2>1. /\ Tip \in Tree /\ Branch[Tip] = Range(main) \cup {Genesis}
          /\ highest \in Nat /\ Irreversible \in Nat /\ \A c \in Tree : Height[c] \in Nat
        BY MainIsBranch, BoundAssumption, BlockAssumption DEF ChainInv, TypeOK, Tree
    <2>2. CASE target = NoBlock
        BY <2>1, <2>2 DEF RollbackInv
    <2>3. CASE target # NoBlock
        <3>1. PICK x \in Branch[Tip] : highest - Height[x] <= Irreversible
            BY <2>1, <2>3 DEF RollbackInv
        <3>2. x \in Tree /\ Height[x] <= Height[Tip]
            BY <2>1, BranchProperties
        <3> QED
            BY <2>1, <3>1, <3>2
    <2> QED
        BY <2>2, <2>3
<1> QED
    BY <1>1, <1>2, <1>3, ChainCorrect, PTL DEF Spec

(* The margin of the pool reaches as far as a reorganization, and the      *)
(* difference of heights it is compared with does not wrap around: both    *)
(* constants are 6, and the pool is in use above CRCOnlyDPOSHeight only.   *)
PoolMargin == Irreversible <= CachedCount /\ CachedCount <= Height[Genesis] + 1

(* However late its goroutine runs, CleanFinalConfirmedBlock drops only    *)
(* blocks that no reorganization can need again.                           *)
THEOREM CleaningIsSafe == ASSUME PoolMargin PROVE Spec => CleanedAreFinal
<1>1. Init => CleanInv
    BY InitFacts
<1>2. ChainInv /\ CleanInv /\ [Next]_vars => CleanInv'
    BY CleanStep
<1>3. ASSUME ChainInv, CleanInv, [Next]_vars, NEW b \in pool \ pool'
      PROVE  Height[b] < highest - Irreversible
    <2>1. PICK h \in cleans : CleanFinalConfirmedBlock(h)
        BY <1>3 DEF Next, AppendBlock, AppendConfirm, AppendBlockAndConfirm, Detach, Attach,
                    ProcessOrphan, Finish, poolVars, vars
    <2>2. b \in pool /\ b \notin Kept(h)
        BY <1>3, <2>1 DEF CleanFinalConfirmedBlock
    <2>3. /\ h \in Nat /\ highest \in Nat /\ Height[b] \in Nat /\ Height[Genesis] \in Nat
          /\ Irreversible \in Nat /\ CachedCount \in Nat
        BY <1>3, <2>1, <2>2, BlockAssumption, BoundAssumption DEF ChainInv, TypeOK
    <2>4. Height[Genesis] < h /\ h <= highest
        BY <1>3, <2>1 DEF CleanInv
    <2>5. h >= CachedCount
        BY <2>3, <2>4 DEF PoolMargin
    <2>6. Height[b] < h - CachedCount
        BY <2>2, <2>3, <2>5 DEF Kept
    <2> QED
        BY <2>3, <2>4, <2>6 DEF PoolMargin
<1>4. ChainInv /\ CleanInv /\ [Next]_vars
          => [\A b \in pool \ pool' : Height[b] < highest - Irreversible]_vars
    BY <1>3
<1> QED
    BY <1>1, <1>2, <1>4, ChainCorrect, PTL DEF Spec, CleanedAreFinal
=============================================================================
