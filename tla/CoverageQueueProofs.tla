--------------------------- MODULE CoverageQueueProofs ----------------------------
(***************************************************************************)
(* The queue of the coverage-based strategy is right for every set of       *)
(* addresses, every fingerprint function and every MAX_PROG_REUSE: it is a  *)
(* heap between two operations, in the middle of one it is a heap but for   *)
(* the entry being moved, and no exchange loses or doubles a program.       *)
(***************************************************************************)
EXTENDS CoverageQueue, FiniteSetTheorems, SequenceTheorems, TLAPS

\* The entry that up and down move is one of the queue's, and the one that is
\* taken is there.
InPlace ==
    /\ at >= 1 <=> step \in {"down", "upReused", "upNew"}
    /\ step \in {"down", "take"} => Len(pq) >= 1

\* Entries are told apart by their programs, each counts the uses of its program,
\* and a program without an entry is worn out.
Entries ==
    /\ \A i \in 1 .. Len(pq) : pq[i].id \in 1 .. Len(taken) /\ pq[i].usage = taken[pq[i].id]
    /\ \A i, j \in 1 .. Len(pq) : pq[i].id = pq[j].id => i = j
    /\ \A id \in 1 .. Len(taken) :
           (\A i \in 1 .. Len(pq) : pq[i].id # id) => taken[id] = MaxReuse + 1

\* The tables know the coverage of every entry.
Remembered ==
    \A i \in 1 .. Len(pq) : /\ pq[i].cov \subseteq coverageHashTable
                            /\ Fingerprint[pq[i].cov] \in fingerprintHashTable

--------------------------------------------------------------------------------
(* Heaps of numbers: the parent of i is i \div 2. *)

Parent(i) == i \div 2

Sizes(q) == [i \in 1 .. Len(q) |-> CoverageSize(q[i])]

Heap(s, n) == \A i \in 2 .. n : s[i] <= s[i \div 2]

\* The children of k are no larger than its parent.
Spans(s, n, k) == k >= 2 => \A i \in 2 .. n : i \div 2 = k => s[i] <= s[k \div 2]

\* A heap but for k, which may be larger than its parent, or smaller than its
\* children.
HeapAbove(s, n, k) == Spans(s, n, k) /\ \A i \in 2 .. n : i # k => s[i] <= s[i \div 2]
HeapBelow(s, n, k) == Spans(s, n, k) /\ \A i \in 2 .. n : i \div 2 # k => s[i] <= s[i \div 2]

LastIsLargest(s, n) == \A i \in 1 .. n : s[i] <= s[n]

\* The heap array in every step of container/heap.
HeapOrder ==
    LET s == Sizes(pq)
        n == Len(pq)
    IN  /\ step \in {"upReused", "upNew"} => HeapAbove(s, n, at)
        /\ step = "down" => HeapBelow(s, n - 1, at)
        /\ step = "take" => Heap(s, n - 1)
        /\ step \in {"down", "take"} => LastIsLargest(s, n)
        /\ step \in {"generate", "verify", "execute", "finished"} => Heap(s, n)

QInv == TypeOK /\ InPlace /\ Entries /\ Remembered /\ NoDuplicates /\ HeapOrder

--------------------------------------------------------------------------------
(* Lemmas on heaps of numbers *)

\* Parents come first, and the children of k are 2k and 2k + 1.
LEMMA Halves ==
    /\ \A i \in Nat : i >= 2 => /\ i \div 2 \in Nat /\ 1 <= i \div 2 /\ i \div 2 < i
    /\ \A k \in Nat : (2 * k) \div 2 = k /\ (2 * k + 1) \div 2 = k
    /\ \A i, k \in Nat : i \div 2 = k => i = 2 * k \/ i = 2 * k + 1
OBVIOUS

\* A set of numbers has a least one.
LEMMA LeastNumber ==
    ASSUME NEW S \in SUBSET Nat, S # {}
    PROVE  \E i \in S : \A j \in S : i <= j
<1> DEFINE less == OpToRel(<, Nat)
<1>1. IsWellFoundedOn(less, Nat)
    BY NatLessThanWellFounded
<1>2. \A i, j \in Nat : <<i, j>> \in less <=> i < j
    BY DEF OpToRel
<1> HIDE DEF less
<1>3. PICK i \in S : \A j \in S : ~(<<j, i>> \in less)
    BY <1>1, WFMin
<1>4. \A j \in S : ~(j < i)
    BY <1>2, <1>3
<1> QED
    BY <1>4

\* The root of a heap is its largest number: a smallest index with a larger one
\* would have a parent with a larger one.
LEMMA RootIsLargest ==
    ASSUME NEW n \in Nat, NEW s \in [1 .. n -> Nat], Heap(s, n)
    PROVE  \A i \in 1 .. n : s[i] <= s[1]
<1> DEFINE larger == {i \in 1 .. n : ~(s[i] <= s[1])}
<1> SUFFICES ASSUME larger # {} PROVE FALSE
    OBVIOUS
<1>1. larger \in SUBSET Nat
    OBVIOUS
<1>2. PICK i \in larger : \A j \in larger : i <= j
    BY <1>1, LeastNumber
<1>3. i \in 2 .. n /\ s[i] \in Nat /\ s[1] \in Nat
    OBVIOUS
<1>4. i \div 2 \in 1 .. n /\ i \div 2 < i
    BY <1>3, Halves
<1>5. s[i] <= s[i \div 2] /\ s[i \div 2] \in Nat
    BY <1>3, <1>4 DEF Heap
<1>6. i \div 2 \in larger
    BY <1>3, <1>4, <1>5
<1> QED
    BY <1>2, <1>3, <1>4, <1>6

\* Exchanging k with its smaller parent moves the fault up.
LEMMA UpMovesFault ==
    ASSUME NEW n \in Nat, NEW s \in [1 .. n -> Nat], NEW t \in [1 .. n -> Nat],
           NEW k \in 2 .. n, NEW p, p = Parent(k), s[k] > s[p], HeapAbove(s, n, k),
           \A i \in 1 .. n : t[i] = IF i = k THEN s[p] ELSE IF i = p THEN s[k] ELSE s[i]
    PROVE  HeapAbove(t, n, p)
<1>0. p = k \div 2
    BY DEF Parent
<1>1. p \in 1 .. n /\ p < k
    BY <1>0, Halves
<1>2. \A i \in 2 .. n : i \div 2 \in 1 .. n /\ i \div 2 < i
    BY Halves
<1>3. \A i \in 2 .. n : i # k => s[i] <= s[i \div 2]
    BY DEF HeapAbove
<1>4. \A i \in 2 .. n : i \div 2 = k => s[i] <= s[p]
    BY <1>0 DEF HeapAbove, Spans
<1>5. ASSUME NEW i \in 2 .. n, i # p PROVE t[i] <= t[i \div 2]
    <2>1. i \div 2 \in 1 .. n /\ i \div 2 < i
        BY <1>2
    <2>2. CASE i = k
        BY <1>0, <1>1, <2>1, <2>2
    <2>3. CASE i # k /\ i \div 2 = k
        BY <1>1, <1>4, <1>5, <2>1, <2>3
    <2>4. CASE i # k /\ i \div 2 = p
        <3>1. s[i] <= s[p]
            BY <1>3, <2>4
        <3>2. t[i] = s[i] /\ t[p] = s[k]
            BY <1>1, <1>5, <2>4
        <3> QED
            BY <1>1, <2>4, <3>1, <3>2
    <2>5. CASE i # k /\ i \div 2 # k /\ i \div 2 # p
        BY <1>3, <1>5, <2>1, <2>5
    <2> QED
        BY <2>2, <2>3, <2>4, <2>5
<1>6. ASSUME NEW i \in 2 .. n, p >= 2, i \div 2 = p PROVE t[i] <= t[p \div 2]
    <2>1. p \in 2 .. n /\ p \div 2 \in 1 .. n /\ p \div 2 < p /\ s[p] <= s[p \div 2]
        <3>1. p \in 2 .. n /\ p # k
            BY <1>1, <1>6
        <3> QED
            BY <1>2, <1>3, <3>1
    <2>2. t[p \div 2] = s[p \div 2]
        BY <1>1, <2>1
    <2>3. t[i] = IF i = k THEN s[p] ELSE s[i]
        BY <1>1, <1>2, <1>6, SMTT(30)
    <2>4. i # k => s[i] <= s[p]
        BY <1>3, <1>6
    <2> QED
        BY <2>1, <2>2, <2>3, <2>4
<1> QED
    BY <1>5, <1>6 DEF HeapAbove, Spans

\* When up stops, the fault is gone.
LEMMA UpEndsFault ==
    ASSUME NEW n \in Nat, NEW s \in [1 .. n -> Nat], NEW k \in 1 .. n,
           HeapAbove(s, n, k), ~(k > 1 /\ s[k] > s[k \div 2])
    PROVE  Heap(s, n)
<1> SUFFICES ASSUME NEW i \in 2 .. n PROVE s[i] <= s[i \div 2]
    BY DEF Heap
<1>1. i \div 2 \in 1 .. n
    BY Halves
<1>2. CASE i = k
    BY <1>1, <1>2
<1>3. CASE i # k
    BY <1>3 DEF HeapAbove
<1> QED
    BY <1>2, <1>3

\* Exchanging k with its larger child c moves the fault down.
LEMMA DownMovesFault ==
    ASSUME NEW n \in Nat, NEW s, NEW t, \A i \in 1 .. n : s[i] \in Nat,
           NEW k \in 1 .. n, NEW c \in 2 .. n, c \div 2 = k, s[c] > s[k],
           \A i \in 2 .. n : i \div 2 = k => s[i] <= s[c],
           HeapBelow(s, n, k),
           \A i \in 1 .. n : t[i] = IF i = k THEN s[c] ELSE IF i = c THEN s[k] ELSE s[i]
    PROVE  HeapBelow(t, n, c)
<1>1. k < c
    BY Halves
<1>2. \A i \in 2 .. n : i \div 2 \in 1 .. n /\ i \div 2 < i
    BY Halves
<1>3. \A i \in 2 .. n : i \div 2 # k => s[i] <= s[i \div 2]
    BY DEF HeapBelow
<1>4. k >= 2 => s[c] <= s[k \div 2]
    BY DEF HeapBelow, Spans
<1>5. ASSUME NEW i \in 2 .. n, i \div 2 # c PROVE t[i] <= t[i \div 2]
    <2>1. CASE i \div 2 = k
        BY <1>1, <1>2, <2>1
    <2>2. CASE i \div 2 # k
        <3>1. t[i \div 2] = s[i \div 2] /\ s[i] <= s[i \div 2] /\ i # c
            BY <1>2, <1>3, <1>5, <2>2
        <3> QED
            BY <1>2, <1>4, <3>1
    <2> QED
        BY <2>1, <2>2
<1>6. ASSUME NEW i \in 2 .. n, i \div 2 = c PROVE t[i] <= t[c \div 2]
    <2>1. c < i /\ i # k /\ c # k
        BY <1>1, <1>2, <1>6
    <2>2. s[i] <= s[i \div 2]
        BY <1>3, <1>6, <2>1
    <2>3. t[i] = s[i] /\ t[c \div 2] = s[c]
        BY <2>1
    <2> QED
        BY <1>6, <2>2, <2>3
<1> QED
    BY <1>5, <1>6 DEF HeapBelow, Spans

\* When down stops, the fault is gone.
LEMMA DownEndsFault ==
    ASSUME NEW n \in Nat, NEW s, NEW k \in Nat,
           HeapBelow(s, n, k), \A i \in 2 .. n : i \div 2 = k => s[i] <= s[k]
    PROVE  Heap(s, n)
BY DEF HeapBelow, Heap

--------------------------------------------------------------------------------
(* Lemmas on the queue *)

\* The sizes of a queue's entries are numbers.
LEMMA SizesOfTraces ==
    ASSUME NEW q \in Seq(Traces)
    PROVE  Sizes(q) \in [1 .. Len(q) -> Nat]
<1> SUFFICES ASSUME NEW i \in 1 .. Len(q) PROVE CoverageSize(q[i]) \in Nat
    BY DEF Sizes
<1>0. q[i] \in Traces
    OBVIOUS
<1>1. q[i].cov \in SUBSET Addrs
    BY <1>0 DEF Traces
<1> QED
    BY <1>1, QAddrsAssumption, FS_Subset, FS_CardinalityType DEF CoverageSize

\* Where the entry at k comes from in an exchange of i and j.
From(i, j, k) == IF k = i THEN j ELSE IF k = j THEN i ELSE k

\* An exchange keeps the length and moves two entries.
LEMMA SwapEntries ==
    ASSUME pq \in Seq(Traces), NEW i \in 1 .. Len(pq), NEW j \in 1 .. Len(pq), Swap(i, j)
    PROVE  /\ pq' \in Seq(Traces) /\ Len(pq') = Len(pq) /\ Len(pq) \in Nat
           /\ \A k \in 1 .. Len(pq) : /\ From(i, j, k) \in 1 .. Len(pq)
                                      /\ From(i, j, From(i, j, k)) = k
                                      /\ pq'[k] = pq[From(i, j, k)]
                                      /\ Sizes(pq')[k] = Sizes(pq)[From(i, j, k)]
<1>1. /\ Len(pq) \in Nat /\ pq \in [1 .. Len(pq) -> Traces]
      /\ pq[i] \in Traces /\ pq[j] \in Traces
    OBVIOUS
<1>2. /\ pq' \in Seq(Traces) /\ Len(pq') = Len(pq)
      /\ \A k \in 1 .. Len(pq) : pq'[k] = pq[From(i, j, k)]
    BY <1>1 DEF Swap, From
<1>3. \A k \in 1 .. Len(pq) : From(i, j, k) \in 1 .. Len(pq) /\ From(i, j, From(i, j, k)) = k
    BY DEF From
<1>4. \A k \in 1 .. Len(pq) : Sizes(pq')[k] = Sizes(pq)[From(i, j, k)]
    BY <1>2, <1>3 DEF Sizes, CoverageSize
<1> QED
    BY <1>1, <1>2, <1>3, <1>4

\* An exchange neither loses nor doubles an entry.
LEMMA SwapKeeps ==
    ASSUME TypeOK, Entries, Remembered, NoDuplicates,
           NEW i \in 1 .. Len(pq), NEW j \in 1 .. Len(pq), Swap(i, j),
           UNCHANGED <<tables, taken>>
    PROVE  Entries' /\ Remembered' /\ NoDuplicates'
<1> DEFINE f(k) == From(i, j, k)
<1>1. /\ Len(pq') = Len(pq)
      /\ \A k \in 1 .. Len(pq) : f(k) \in 1 .. Len(pq) /\ f(f(k)) = k /\ pq'[k] = pq[f(k)]
    BY SwapEntries DEF TypeOK
<1>2. UNCHANGED <<coverageHashTable, fingerprintHashTable, taken>>
    BY DEF tables
<1> HIDE DEF f
<1>3. Entries'
    <2>1. \A k \in 1 .. Len(pq') : pq'[k].id \in 1 .. Len(taken') /\ pq'[k].usage = taken'[pq'[k].id]
        <3> SUFFICES ASSUME NEW k \in 1 .. Len(pq)
                     PROVE  pq'[k].id \in 1 .. Len(taken) /\ pq'[k].usage = taken[pq'[k].id]
            BY <1>1, <1>2
        <3>1. f(k) \in 1 .. Len(pq) /\ pq'[k] = pq[f(k)]
            BY <1>1
        <3> QED
            BY <3>1 DEF Entries
    <2>2. \A k, l \in 1 .. Len(pq') : pq'[k].id = pq'[l].id => k = l
        <3> SUFFICES ASSUME NEW k \in 1 .. Len(pq), NEW l \in 1 .. Len(pq), pq'[k].id = pq'[l].id
                     PROVE  k = l
            BY <1>1
        <3>1. f(k) \in 1 .. Len(pq) /\ f(l) \in 1 .. Len(pq) /\ pq[f(k)].id = pq[f(l)].id
            BY <1>1
        <3>2. f(k) = f(l)
            BY <3>1 DEF Entries
        <3> QED
            BY <1>1, <3>2
    <2>3. ASSUME NEW id \in 1 .. Len(taken'), \A k \in 1 .. Len(pq') : pq'[k].id # id
          PROVE  taken'[id] = MaxReuse + 1
        <3>1. \A k \in 1 .. Len(pq) : pq[k].id # id
            BY <1>1, <2>3, SMTT(30)
        <3> QED
            BY <1>2, <3>1 DEF Entries
    <2> QED
        BY <2>1, <2>2, <2>3 DEF Entries
<1>4. Remembered'
    BY <1>1, <1>2 DEF Remembered
<1>5. NoDuplicates'
    BY <1>1 DEF NoDuplicates
<1> QED
    BY <1>3, <1>4, <1>5

\* Less compares the sizes.
LEMMA LessIsSize ==
    ASSUME NEW i \in 1 .. Len(pq), NEW j \in 1 .. Len(pq)
    PROVE  Less(i, j) <=> Sizes(pq)[i] > Sizes(pq)[j]
BY DEF Less, Sizes

--------------------------------------------------------------------------------
(* Every step preserves QInv. *)

\* One exchange of up.
LEMMA UpStep == ASSUME QInv, Up PROVE QInv'
<1> USE DEF QInv
<1> DEFINE n == Len(pq)
           p == at \div 2
<1>1. /\ pq \in Seq(Traces) /\ n \in Nat /\ at \in 2 .. n /\ p \in 1 .. n /\ at' = p
      /\ Swap(at, p) /\ UNCHANGED <<tables, taken, step>>
      /\ step \in {"upReused", "upNew"} /\ Less(at, p)
    <2>1. /\ pq \in Seq(Traces) /\ n \in Nat /\ at \in 0 .. n /\ at > 1
        BY DEF Up, MovesUp, TypeOK
    <2>2. p \in 1 .. n
        BY <2>1, Halves
    <2> QED
        BY <2>1, <2>2 DEF Up, MovesUp
<1>2. /\ pq' \in Seq(Traces) /\ Len(pq') = n
      /\ \A k \in 1 .. n : Sizes(pq')[k] = Sizes(pq)[From(at, p, k)]
    BY <1>1, SwapEntries
<1>3. Entries' /\ Remembered' /\ NoDuplicates'
    BY <1>1, SwapKeeps
<1>4. TypeOK' /\ InPlace'
    BY <1>1, <1>2 DEF TypeOK, InPlace, tables
<1>5. HeapAbove(Sizes(pq'), n, p)
    <2> DEFINE s == Sizes(pq)
               t == Sizes(pq')
    <2>1. s \in [1 .. n -> Nat] /\ t \in [1 .. n -> Nat]
        BY <1>1, <1>2, SizesOfTraces
    <2>2. s[at] > s[p] /\ HeapAbove(s, n, at)
        BY <1>1, LessIsSize DEF HeapOrder
    <2>3. \A k \in 1 .. n : t[k] = IF k = at THEN s[p] ELSE IF k = p THEN s[at] ELSE s[k]
        BY <1>2 DEF From
    <2>4. p = Parent(at) /\ n \in Nat /\ at \in 2 .. n
        BY <1>1 DEF Parent
    <2> HIDE DEF n, p, s, t
    <2>5. HeapAbove(t, n, p)
        BY <2>1, <2>2, <2>3, <2>4, UpMovesFault
    <2> QED
        BY <2>5 DEF t
<1>6. HeapOrder'
    BY <1>1, <1>2, <1>5 DEF HeapOrder
<1> QED
    BY <1>3, <1>4, <1>6

\* The end of up.
LEMMA UpDoneStep == ASSUME QInv, UpDone PROVE QInv'
<1> USE DEF QInv
<1>1. /\ UNCHANGED <<pq, coverageHashTable, fingerprintHashTable, taken>>
      /\ step \in {"upReused", "upNew"} /\ step' \in {"verify", "execute"} /\ at' = 0
    BY DEF UpDone, tables
<1>2. TypeOK' /\ InPlace' /\ Entries' /\ Remembered' /\ NoDuplicates'
    <2>1. TypeOK' /\ InPlace'
        BY <1>1 DEF TypeOK, InPlace
    <2>2. Entries'
        BY <1>1 DEF Entries
    <2>3. Remembered' /\ NoDuplicates'
        BY <1>1 DEF Remembered, NoDuplicates
    <2> QED
        BY <2>1, <2>2, <2>3
<1>3. Heap(Sizes(pq), Len(pq))
    <2>1. /\ Len(pq) \in Nat /\ at \in 1 .. Len(pq)
          /\ Sizes(pq) \in [1 .. Len(pq) -> Nat] /\ HeapAbove(Sizes(pq), Len(pq), at)
        BY <1>1, SizesOfTraces DEF TypeOK, InPlace, HeapOrder
    <2>2. ~(at > 1 /\ Sizes(pq)[at] > Sizes(pq)[at \div 2])
        <3> SUFFICES ASSUME at > 1 PROVE ~(Sizes(pq)[at] > Sizes(pq)[at \div 2])
            OBVIOUS
        <3>1. at \div 2 \in 1 .. Len(pq)
            BY <2>1, Halves
        <3> QED
            BY <2>1, <3>1, LessIsSize DEF UpDone, MovesUp
    <2> QED
        BY <2>1, <2>2, UpEndsFault
<1>4. HeapOrder'
    BY <1>1, <1>3 DEF HeapOrder
<1> QED
    BY <1>2, <1>4

\* The child that down compares with is the larger one.
LEMMA BestChildIsLargest ==
    ASSUME TypeOK, NEW n \in Nat, n <= Len(pq), NEW k \in 1 .. n, 2 * k <= n,
           NEW c, c = BestChild(k, n)
    PROVE  /\ c \in 2 .. n /\ c \div 2 = k
           /\ \A i \in 2 .. n : i \div 2 = k => Sizes(pq)[i] <= Sizes(pq)[c]
<1> DEFINE s == Sizes(pq)
<1>1. Len(pq) \in Nat /\ s \in [1 .. Len(pq) -> Nat]
    BY SizesOfTraces DEF TypeOK
<1>2. c \in 2 .. n /\ c \in {2 * k, 2 * k + 1}
    BY DEF BestChild
<1>3. c \div 2 = k
    BY <1>2, Halves
<1>4. 2 * k \in 1 .. Len(pq) /\ (2 * k + 1 <= n => 2 * k + 1 \in 1 .. Len(pq))
    BY <1>1
<1>5. 2 * k + 1 <= n => (Less(2 * k + 1, 2 * k) <=> s[2 * k + 1] > s[2 * k])
    BY <1>4, LessIsSize
<1>6. s[2 * k] <= s[c] /\ (2 * k + 1 <= n => s[2 * k + 1] <= s[c])
    <2>1. s[2 * k] \in Nat /\ (2 * k + 1 <= n => s[2 * k + 1] \in Nat)
        BY <1>1, <1>4
    <2> HIDE DEF s
    <2> QED
        BY <1>5, <2>1 DEF BestChild
<1>7. ASSUME NEW i \in 2 .. n, i \div 2 = k PROVE s[i] <= s[c]
    <2>1. i = 2 * k \/ i = 2 * k + 1
        BY <1>7, Halves
    <2> QED
        BY <1>6, <2>1
<1> QED
    BY <1>2, <1>3, <1>7

\* One exchange of down.
LEMMA DownStep == ASSUME QInv, Down PROVE QInv'
<1> USE DEF QInv
<1> DEFINE n == Len(pq)
           c == BestChild(at, n - 1)
<1>1. /\ pq \in Seq(Traces) /\ n \in Nat /\ n >= 1 /\ n - 1 \in Nat
      /\ at \in 1 .. n - 1 /\ 2 * at <= n - 1
      /\ Swap(at, c) /\ at' = c /\ UNCHANGED <<tables, taken, step>> /\ step = "down"
      /\ Less(c, at)
    BY DEF Down, MovesDown, TypeOK, InPlace
<1>2. /\ c \in 2 .. n - 1 /\ c \div 2 = at
      /\ \A i \in 2 .. n - 1 : i \div 2 = at => Sizes(pq)[i] <= Sizes(pq)[c]
    <2>1. n - 1 <= Len(pq)
        BY <1>1
    <2> HIDE DEF n, c
    <2>2. c = BestChild(at, n - 1)
        BY DEF c
    <2> QED
        BY <1>1, <2>1, <2>2, BestChildIsLargest
<1> HIDE DEF c
<1>3. c \in 1 .. n /\ at \in 1 .. n /\ n # c /\ n # at
    BY <1>1, <1>2
<1>4. /\ pq' \in Seq(Traces) /\ Len(pq') = n
      /\ \A k \in 1 .. n : /\ From(at, c, k) \in 1 .. n
                           /\ Sizes(pq')[k] = Sizes(pq)[From(at, c, k)]
    BY <1>1, <1>3, SwapEntries
<1>5. Entries' /\ Remembered' /\ NoDuplicates'
    BY <1>1, <1>3, SwapKeeps
<1>6. TypeOK' /\ InPlace'
    <2>1. at' \in 0 .. Len(pq') /\ at' >= 1 /\ Len(pq') >= 1
        BY <1>1, <1>3, <1>4
    <2> QED
        BY <1>1, <1>4, <2>1 DEF TypeOK, InPlace, tables
<1>7. HeapBelow(Sizes(pq'), n - 1, c)
    <2>1. Sizes(pq) \in [1 .. n -> Nat]
        BY <1>1, SizesOfTraces
    <2>2. \A i \in 1 .. n - 1 : Sizes(pq)[i] \in Nat
        BY <1>1, <2>1
    <2>3. Sizes(pq)[c] > Sizes(pq)[at] /\ HeapBelow(Sizes(pq), n - 1, at)
        BY <1>1, <1>3, LessIsSize DEF HeapOrder
    <2>4. \A k \in 1 .. n - 1 : Sizes(pq')[k] = IF k = at THEN Sizes(pq)[c]
                                            ELSE IF k = c THEN Sizes(pq)[at] ELSE Sizes(pq)[k]
        BY <1>1, <1>4 DEF From
    <2> HIDE DEF n
    <2> QED
        BY <1>1, <1>2, <2>2, <2>3, <2>4, DownMovesFault
<1>8. LastIsLargest(Sizes(pq'), n)
    <2>1. n \in 1 .. n /\ From(at, c, n) = n
        BY <1>1, <1>3 DEF From
    <2>2. \A k \in 1 .. n : Sizes(pq)[k] <= Sizes(pq)[n]
        BY <1>1 DEF HeapOrder, LastIsLargest
    <2> QED
        BY <1>4, <2>1, <2>2 DEF LastIsLargest
<1>9. HeapOrder'
    BY <1>1, <1>4, <1>7, <1>8 DEF HeapOrder
<1> QED
    BY <1>5, <1>6, <1>9

\* The end of down.
LEMMA DownDoneStep == ASSUME QInv, DownDone PROVE QInv'
<1> USE DEF QInv
<1> DEFINE n == Len(pq)
<1>1. /\ UNCHANGED <<pq, coverageHashTable, fingerprintHashTable, taken>>
      /\ step = "down" /\ step' = "take" /\ at' = 0
    BY DEF DownDone, tables
<1>2. TypeOK' /\ InPlace' /\ Entries' /\ Remembered' /\ NoDuplicates'
    BY <1>1 DEF TypeOK, InPlace, Entries, Remembered, NoDuplicates
<1>3. Heap(Sizes(pq), n - 1)
    <2>1. /\ n \in Nat /\ n - 1 \in Nat /\ at \in 1 .. n
          /\ Sizes(pq) \in [1 .. n -> Nat] /\ HeapBelow(Sizes(pq), n - 1, at)
        BY <1>1, SizesOfTraces DEF TypeOK, InPlace, HeapOrder
    <2>2. ASSUME NEW i \in 2 .. n - 1, i \div 2 = at PROVE Sizes(pq)[i] <= Sizes(pq)[at]
        <3>1. i = 2 * at \/ i = 2 * at + 1
            BY <2>1, <2>2, Halves
        <3>2. 2 * at <= n - 1 /\ at \in 1 .. n - 1
            BY <2>1, <3>1
        <3> DEFINE c == BestChild(at, n - 1)
        <3>3. c \in 2 .. n - 1 /\ Sizes(pq)[i] <= Sizes(pq)[c]
            <4>1. n - 1 <= Len(pq)
                BY <2>1
            <4> HIDE DEF n, c
            <4>2. c = BestChild(at, n - 1)
                BY DEF c
            <4> QED
                BY <2>1, <2>2, <3>2, <4>1, <4>2, BestChildIsLargest
        <3>4. ~Less(c, at)
            BY <3>2 DEF DownDone, MovesDown
        <3> HIDE DEF c
        <3>5. ~(Sizes(pq)[c] > Sizes(pq)[at])
            <4>1. c \in 1 .. n
                BY <2>1, <3>3
            <4> QED
                BY <2>1, <3>4, <4>1, LessIsSize
        <3>6. Sizes(pq)[c] \in Nat /\ Sizes(pq)[at] \in Nat /\ Sizes(pq)[i] \in Nat
            BY <2>1, <3>3
        <3> QED
            BY <3>3, <3>5, <3>6
    <2>3. \A i \in 1 .. n - 1 : Sizes(pq)[i] \in Nat
        BY <2>1
    <2> HIDE DEF n
    <2> QED
        BY <2>1, <2>2, <2>3, DownEndsFault, SMTT(30)
<1>4. HeapOrder'
    BY <1>1, <1>3 DEF HeapOrder
<1> QED
    BY <1>2, <1>4

\* heap.Pop moves the root, the largest entry, to the end.
LEMMA PopStep == ASSUME QInv, GeneratePop PROVE QInv'
<1> USE DEF QInv
<1> DEFINE n == Len(pq)
           s == Sizes(pq)
           t == Sizes(pq')
<1>1. /\ pq \in Seq(Traces) /\ n \in Nat /\ n >= 1 /\ 1 \in 1 .. n /\ n \in 1 .. n
      /\ Swap(1, n) /\ at' = 1 /\ UNCHANGED <<tables, taken>>
      /\ step = "generate" /\ step' = "down"
    BY DEF GeneratePop, TypeOK
<1>2. /\ pq' \in Seq(Traces) /\ Len(pq') = n
      /\ \A k \in 1 .. n : From(1, n, k) \in 1 .. n /\ t[k] = s[From(1, n, k)]
    BY <1>1, SwapEntries
<1>3. Entries' /\ Remembered' /\ NoDuplicates'
    BY <1>1, SwapKeeps
<1>4. TypeOK' /\ InPlace'
    <2>1. at' \in 0 .. Len(pq') /\ at' >= 1 /\ Len(pq') >= 1
        BY <1>1, <1>2
    <2> QED
        BY <1>1, <1>2, <2>1 DEF TypeOK, InPlace, tables
<1>5. s \in [1 .. n -> Nat] /\ Heap(s, n)
    BY <1>1, SizesOfTraces DEF HeapOrder
<1> HIDE DEF n, s, t
<1>6. HeapBelow(t, n - 1, 1)
    <2>1. ASSUME NEW i \in 2 .. n - 1, i \div 2 # 1 PROVE t[i] <= t[i \div 2]
        <3>1. i \div 2 \in 2 .. n - 1
            BY <1>1, <2>1, Halves
        <3>2. t[i] = s[i] /\ t[i \div 2] = s[i \div 2]
            BY <1>1, <1>2, <3>1 DEF From
        <3> QED
            BY <1>1, <1>5, <3>2 DEF Heap
    <2> QED
        BY <2>1 DEF HeapBelow, Spans
<1>7. LastIsLargest(t, n)
    <2>1. \A i \in 1 .. n : s[i] <= s[1]
        BY <1>1, <1>5, RootIsLargest
    <2>2. t[n] = s[1]
        BY <1>1, <1>2 DEF From
    <2> QED
        BY <1>2, <2>1, <2>2 DEF LastIsLargest
<1>8. HeapOrder'
    BY <1>1, <1>2, <1>6, <1>7 DEF HeapOrder, n, t
<1> QED
    BY <1>3, <1>4, <1>8

\* An appended number is the only fault of a heap.
LEMMA AppendMakesFault ==
    ASSUME NEW n \in Nat, NEW s, Heap(s, n), NEW t, \A i \in 1 .. n : t[i] = s[i]
    PROVE  HeapAbove(t, n + 1, n + 1)
<1>1. ASSUME NEW i \in 2 .. n + 1, i # n + 1 PROVE t[i] <= t[i \div 2]
    <2>1. i \in 2 .. n /\ i \in 1 .. n /\ i \div 2 \in 1 .. n
        BY <1>1, Halves
    <2>2. s[i] <= s[i \div 2]
        BY <2>1 DEF Heap
    <2> QED
        BY <2>1, <2>2
<1>2. ASSUME NEW i \in 2 .. n + 1, i \div 2 = n + 1 PROVE FALSE
    BY <1>2, Halves
<1> QED
    BY <1>1, <1>2 DEF HeapAbove, Spans

\* The entry that is taken, and the queue without it.
LEMMA TakenEntry ==
    ASSUME QInv, step = "take"
    PROVE  LET n    == Len(pq)
               item == pq[n]
               rest == SubSeq(pq, 1, n - 1)
           IN  /\ n \in Nat /\ n >= 1 /\ n - 1 \in Nat
               /\ item \in Traces /\ item.id \in 1 .. Len(taken) /\ item.usage = taken[item.id]
               /\ rest \in Seq(Traces) /\ Len(rest) = n - 1
               /\ \A i \in 1 .. n - 1 : rest[i] = pq[i] /\ pq[i] \in Traces
<1>1. pq \in Seq(Traces) /\ Len(pq) \in Nat /\ Len(pq) >= 1
    BY DEF QInv, TypeOK, InPlace
<1>2. pq[Len(pq)] \in Traces /\ \A i \in 1 .. Len(pq) - 1 : pq[i] \in Traces
    BY <1>1
<1>3. /\ SubSeq(pq, 1, Len(pq) - 1) \in Seq(Traces)
      /\ Len(SubSeq(pq, 1, Len(pq) - 1)) = Len(pq) - 1
      /\ \A i \in 1 .. Len(pq) - 1 : SubSeq(pq, 1, Len(pq) - 1)[i] = pq[i]
    <2> DEFINE m == Len(pq) - 1
    <2>1. 1 \in Int /\ m \in Int /\ m >= 0 /\ \A i \in 1 .. m : pq[i] \in Traces
        BY <1>1, <1>2
    <2> HIDE DEF m
    <2>2. /\ SubSeq(pq, 1, m) \in Seq(Traces)
          /\ Len(SubSeq(pq, 1, m)) = IF 1 <= m THEN m - 1 + 1 ELSE 0
          /\ \A i \in 1 .. m - 1 + 1 : SubSeq(pq, 1, m)[i] = pq[1 + i - 1]
        BY <2>1, SubSeqProperties
    <2>3. Len(SubSeq(pq, 1, m)) = m /\ \A i \in 1 .. m : SubSeq(pq, 1, m)[i] = pq[i]
        BY <2>1, <2>2
    <2> QED
        BY <2>2, <2>3 DEF m
<1>4. Len(pq) \in 1 .. Len(pq)
    BY <1>1
<1>5. pq[Len(pq)].id \in 1 .. Len(taken) /\ pq[Len(pq)].usage = taken[pq[Len(pq)].id]
    BY <1>4 DEF QInv, Entries
<1> QED
    BY <1>1, <1>2, <1>3, <1>5

\* One use more of one program.
LEMMA CountedUse ==
    ASSUME NEW u \in Seq(0 .. MaxReuse + 1), NEW id \in 1 .. Len(u), u[id] <= MaxReuse
    PROVE  LET v == [u EXCEPT ![id] = @ + 1]
           IN  /\ v \in Seq(0 .. MaxReuse + 1) /\ Len(v) = Len(u)
               /\ v[id] = u[id] + 1
               /\ \A k \in 1 .. Len(u) : k # id => v[k] = u[k]
BY MaxReuseAssumption

\* Taking the last entry: back with one use more, or worn out.
LEMMA TakeStep == ASSUME QInv, Take PROVE QInv'
<1> DEFINE n    == Len(pq)
           item == pq[n]
           rest == SubSeq(pq, 1, n - 1)
           new  == [item EXCEPT !.usage = @ + 1]
<1>1. /\ n \in Nat /\ n >= 1 /\ n - 1 \in Nat
      /\ item \in Traces /\ item.id \in 1 .. Len(taken) /\ item.usage = taken[item.id]
      /\ rest \in Seq(Traces) /\ Len(rest) = n - 1
      /\ \A i \in 1 .. n - 1 : rest[i] = pq[i] /\ pq[i] \in Traces
      /\ n \in 1 .. n /\ \A i \in 1 .. n : i \in 1 .. n - 1 \/ i = n
    BY TakenEntry DEF Take
<1>2. /\ step = "take" /\ UNCHANGED <<coverageHashTable, fingerprintHashTable>>
      /\ taken' = [taken EXCEPT ![item.id] = @ + 1]
      /\ \/ /\ item.usage < MaxReuse
            /\ pq' = Append(rest, new) /\ at' = Len(pq') /\ step' = "upReused"
         \/ /\ ~(item.usage < MaxReuse)
            /\ pq' = rest /\ step' = "verify" /\ at' = at
    BY DEF Take, Push, tables
<1> HIDE DEF item, rest, new
<1>3. item.usage \in 0 .. MaxReuse /\ item.cov \in SUBSET Addrs /\ item.id \in Nat \ {0}
    BY <1>1 DEF Traces
<1>4. /\ taken' \in Seq(0 .. MaxReuse + 1) /\ Len(taken') = Len(taken)
      /\ taken'[item.id] = item.usage + 1
      /\ \A k \in 1 .. Len(taken) : k # item.id => taken'[k] = taken[k]
    BY <1>1, <1>2, <1>3, CountedUse, MaxReuseAssumption DEF QInv, TypeOK
<1>5. /\ \A i \in 1 .. n : pq[i].id \in 1 .. Len(taken) /\ pq[i].usage = taken[pq[i].id]
      /\ \A i, j \in 1 .. n : pq[i].id = pq[j].id => i = j
      /\ \A id \in 1 .. Len(taken) :
             (\A i \in 1 .. n : pq[i].id # id) => taken[id] = MaxReuse + 1
      /\ \A i \in 1 .. n - 1 : i \in 1 .. n /\ pq[i].id # item.id /\ pq[i].cov # item.cov
      /\ \A i \in 1 .. n : /\ pq[i].cov \subseteq coverageHashTable
                           /\ Fingerprint[pq[i].cov] \in fingerprintHashTable
      /\ \A i, j \in 1 .. n : pq[i].cov = pq[j].cov => i = j
    <2>1. \A i \in 1 .. n - 1 : i \in 1 .. n /\ i # n
        BY <1>1
    <2> QED
        BY <1>1, <2>1 DEF QInv, Entries, Remembered, NoDuplicates, item
<1>6. Heap(Sizes(pq), n - 1) /\ at = 0
    BY <1>2 DEF QInv, HeapOrder, InPlace, TypeOK
<1>7. CASE item.usage < MaxReuse
    <2>1. /\ new \in Traces /\ new.id = item.id /\ new.cov = item.cov
          /\ new.usage = item.usage + 1
        <3>1. item.usage + 1 \in 0 .. MaxReuse
            BY <1>3, <1>7, MaxReuseAssumption
        <3> QED
            BY <1>1, <3>1 DEF new, Traces
    <2>2. /\ pq' \in Seq(Traces) /\ Len(pq') = n
          /\ pq'[n] = new /\ \A i \in 1 .. n - 1 : pq'[i] = pq[i]
          /\ at' = n /\ step' = "upReused"
        <3>1. pq' = Append(rest, new) /\ at' = Len(pq') /\ step' = "upReused"
            BY <1>2, <1>7
        <3>2. /\ pq' \in Seq(Traces) /\ Len(pq') = (n - 1) + 1
              /\ pq'[(n - 1) + 1] = new /\ \A i \in 1 .. n - 1 : pq'[i] = rest[i]
            BY <1>1, <2>1, <3>1, AppendProperties
        <3>3. (n - 1) + 1 = n
            BY <1>1
        <3> QED
            BY <1>1, <3>1, <3>2, <3>3
    <2>3. TypeOK'
        BY <1>1, <1>2, <1>4, <2>2 DEF QInv, TypeOK
    <2>4. InPlace'
        BY <1>1, <2>2 DEF InPlace
    <2>5. Entries'
        <3>1. ASSUME NEW i \in 1 .. n
              PROVE  /\ pq'[i].id = pq[i].id
                     /\ pq'[i].id \in 1 .. Len(taken') /\ pq'[i].usage = taken'[pq'[i].id]
            <4>1. CASE i = n
                BY <1>1, <1>4, <2>1, <2>2, <4>1 DEF item
            <4>2. CASE i \in 1 .. n - 1
                BY <1>4, <1>5, <2>2, <4>2
            <4> QED
                BY <1>1, <4>1, <4>2
        <3>2. \A i, j \in 1 .. n : pq'[i].id = pq'[j].id => i = j
            BY <1>5, <3>1
        <3>3. ASSUME NEW id \in 1 .. Len(taken'), \A i \in 1 .. n : pq'[i].id # id
              PROVE  taken'[id] = MaxReuse + 1
            <4>1. \A i \in 1 .. n : pq[i].id # id
                BY <3>1, <3>3
            <4>2. id # item.id
                BY <1>1, <4>1 DEF item
            <4> QED
                BY <1>4, <1>5, <4>1, <4>2
        <3> HIDE DEF n
        <3> QED
            BY <2>2, <3>1, <3>2, <3>3 DEF Entries
    <2>6. \A i \in 1 .. n : pq'[i].cov = pq[i].cov
        BY <1>1, <2>1, <2>2 DEF item
    <2>7. Remembered' /\ NoDuplicates'
        BY <1>2, <1>5, <2>2, <2>6 DEF Remembered, NoDuplicates
    <2>8. HeapAbove(Sizes(pq'), n, n)
        <3>1. \A i \in 1 .. n - 1 : Sizes(pq')[i] = Sizes(pq)[i]
            BY <1>1, <2>2, <2>6 DEF Sizes, CoverageSize
        <3>2. HeapAbove(Sizes(pq'), (n - 1) + 1, (n - 1) + 1)
            BY <1>1, <1>6, <3>1, AppendMakesFault
        <3>3. (n - 1) + 1 = n
            BY <1>1
        <3> QED
            BY <3>2, <3>3
    <2>9. HeapOrder'
        BY <2>2, <2>8 DEF HeapOrder
    <2> QED
        BY <2>3, <2>4, <2>5, <2>7, <2>9 DEF QInv
<1>8. CASE ~(item.usage < MaxReuse)
    <2>1. /\ pq' \in Seq(Traces) /\ Len(pq') = n - 1
          /\ \A i \in 1 .. n - 1 : pq'[i] = pq[i]
          /\ at' = 0 /\ step' = "verify" /\ taken'[item.id] = MaxReuse + 1
        <3>1. item.usage = MaxReuse
            BY <1>3, <1>8, MaxReuseAssumption
        <3>2. pq' = rest /\ at' = at /\ step' = "verify"
            BY <1>2, <1>8
        <3> QED
            BY <1>1, <1>4, <1>6, <3>1, <3>2
    <2>2. TypeOK'
        BY <1>1, <1>2, <1>4, <2>1, SMTT(30) DEF QInv, TypeOK
    <2>3. InPlace'
        BY <2>1 DEF InPlace
    <2>4. Entries'
        <3>1. ASSUME NEW i \in 1 .. n - 1
              PROVE  /\ pq'[i].id = pq[i].id /\ i \in 1 .. n
                     /\ pq'[i].id \in 1 .. Len(taken') /\ pq'[i].usage = taken'[pq'[i].id]
            BY <1>4, <1>5, <2>1, <3>1
        <3>2. \A i, j \in 1 .. n - 1 : pq'[i].id = pq'[j].id => i = j
            BY <1>5, <3>1
        <3>3. ASSUME NEW id \in 1 .. Len(taken'), \A i \in 1 .. n - 1 : pq'[i].id # id
              PROVE  taken'[id] = MaxReuse + 1
            <4>1. CASE id = item.id
                BY <2>1, <4>1
            <4>2. CASE id # item.id
                <5>1. \A i \in 1 .. n : pq[i].id # id
                    BY <1>1, <3>1, <3>3, <4>2 DEF item
                <5> QED
                    BY <1>4, <1>5, <4>2, <5>1
            <4> QED
                BY <4>1, <4>2
        <3> HIDE DEF n
        <3> QED
            BY <2>1, <3>1, <3>2, <3>3 DEF Entries
    <2>5. Remembered' /\ NoDuplicates'
        BY <1>2, <1>5, <2>1 DEF Remembered, NoDuplicates
    <2>6. Heap(Sizes(pq'), n - 1)
        <3>1. \A i \in 1 .. n - 1 : Sizes(pq')[i] = Sizes(pq)[i]
            BY <1>1, <2>1 DEF Sizes, CoverageSize
        <3>2. \A i \in 2 .. n - 1 : i \in 1 .. n - 1 /\ i \div 2 \in 1 .. n - 1
            BY <1>1, Halves
        <3> QED
            BY <1>6, <3>1, <3>2 DEF Heap
    <2>7. HeapOrder'
        BY <2>1, <2>6 DEF HeapOrder
    <2> QED
        BY <2>2, <2>3, <2>4, <2>5, <2>7 DEF QInv
<1> QED
    BY <1>7, <1>8

\* A finite table grows by what it did not have.
LEMMA TableGrows ==
    ASSUME NEW U, IsFiniteSet(U), NEW A \in SUBSET U, NEW B \in SUBSET U
    PROVE  /\ Cardinality(A) \in Nat /\ Cardinality(A \cup B) \in Nat
           /\ Cardinality(A) <= Cardinality(A \cup B)
           /\ ~(B \subseteq A) => Cardinality(A) + 1 <= Cardinality(A \cup B)
<1>1. IsFiniteSet(A) /\ IsFiniteSet(A \cup B)
    BY FS_Subset
<1>2. Cardinality(A) \in Nat /\ Cardinality(A \cup B) \in Nat
    BY <1>1, FS_CardinalityType
<1>3. /\ Cardinality(A) <= Cardinality(A \cup B)
      /\ Cardinality(A \cup B) = Cardinality(A) => A \cup B = A
    BY <1>1, FS_Subset
<1>4. ~(B \subseteq A) => A \cup B # A
    OBVIOUS
<1> QED
    BY <1>2, <1>3, <1>4

\* A result with something new is pushed under a new number, and paid for by the
\* tables; another one changes nothing but the tables.
LEMMA LearnStep == ASSUME QInv, NEW addresses \in SUBSET Addrs, Learn(addresses) PROVE QInv'
<1> DEFINE n     == Len(pq)
           print == Fingerprint[addresses]
           isNew == ~(addresses \subseteq coverageHashTable) \/ print \notin fingerprintHashTable
           trace == [id |-> Len(taken) + 1, cov |-> addresses, usage |-> 0]
<1>1. /\ pq \in Seq(Traces) /\ n \in Nat /\ at = 0 /\ step = "verify"
      /\ taken \in Seq(0 .. MaxReuse + 1) /\ Len(taken) \in Nat
      /\ coverageHashTable \in SUBSET Addrs /\ fingerprintHashTable \in SUBSET Prints
      /\ print \in Prints
      /\ Len(taken) <= Cardinality(coverageHashTable) + Cardinality(fingerprintHashTable)
    BY FingerprintOfSets DEF QInv, TypeOK, InPlace, Learn
<1>2. /\ coverageHashTable' = coverageHashTable \cup addresses
      /\ fingerprintHashTable' = fingerprintHashTable \cup {print}
      /\ IF isNew THEN /\ pq' = Append(pq, trace) /\ at' = Len(pq') /\ step' = "upNew"
                       /\ taken' = Append(taken, 0)
                  ELSE step' = "generate" /\ UNCHANGED <<pq, at, taken>>
    BY DEF Learn, Push
<1> HIDE DEF print, isNew, trace
<1>3. coverageHashTable' \in SUBSET Addrs /\ fingerprintHashTable' \in SUBSET Prints
    BY <1>1, <1>2
<1>4. /\ Cardinality(coverageHashTable) \in Nat /\ Cardinality(fingerprintHashTable) \in Nat
      /\ Cardinality(coverageHashTable') \in Nat /\ Cardinality(fingerprintHashTable') \in Nat
      /\ Cardinality(coverageHashTable) <= Cardinality(coverageHashTable')
      /\ Cardinality(fingerprintHashTable) <= Cardinality(fingerprintHashTable')
      /\ isNew => Cardinality(coverageHashTable) + Cardinality(fingerprintHashTable) + 1
                      <= Cardinality(coverageHashTable') + Cardinality(fingerprintHashTable')
    <2>1. /\ Cardinality(coverageHashTable) \in Nat /\ Cardinality(coverageHashTable') \in Nat
          /\ Cardinality(coverageHashTable) <= Cardinality(coverageHashTable')
          /\ ~(addresses \subseteq coverageHashTable) =>
                 Cardinality(coverageHashTable) + 1 <= Cardinality(coverageHashTable')
        BY <1>1, <1>2, TableGrows, QAddrsAssumption
    <2>2. {print} \in SUBSET Prints
        BY <1>1
    <2>3. /\ Cardinality(fingerprintHashTable) \in Nat
          /\ Cardinality(fingerprintHashTable') \in Nat
          /\ Cardinality(fingerprintHashTable) <= Cardinality(fingerprintHashTable')
          /\ ~({print} \subseteq fingerprintHashTable) =>
                 Cardinality(fingerprintHashTable) + 1 <= Cardinality(fingerprintHashTable')
        BY <1>1, <1>2, <2>2, TableGrows, QAddrsAssumption
    <2>4. isNew => \/ ~(addresses \subseteq coverageHashTable)
                   \/ ~({print} \subseteq fingerprintHashTable)
        BY DEF isNew
    <2> QED
        BY <2>1, <2>3, <2>4
<1>5. CASE ~isNew
    <2>1. /\ UNCHANGED <<pq, at, taken>> /\ step' = "generate"
        BY <1>2, <1>5
    <2>2. TypeOK'
        <3>1. Len(taken') <= Cardinality(coverageHashTable') + Cardinality(fingerprintHashTable')
            BY <1>1, <1>4, <2>1
        <3> QED
            BY <1>3, <2>1, <3>1 DEF QInv, TypeOK
    <2>3. InPlace' /\ Entries' /\ NoDuplicates'
        BY <1>1, <2>1 DEF QInv, InPlace, Entries, NoDuplicates
    <2>4. Remembered'
        BY <1>2, <2>1 DEF QInv, Remembered
    <2>5. HeapOrder'
        BY <1>1, <2>1 DEF QInv, HeapOrder
    <2> QED
        BY <2>2, <2>3, <2>4, <2>5 DEF QInv
<1>6. CASE isNew
    <2>1. /\ trace \in Traces /\ trace.id = Len(taken) + 1 /\ trace.cov = addresses
          /\ trace.usage = 0
        BY <1>1, MaxReuseAssumption DEF trace, Traces
    <2>2. /\ pq' \in Seq(Traces) /\ Len(pq') = n + 1 /\ pq'[n + 1] = trace
          /\ \A i \in 1 .. n : pq'[i] = pq[i]
          /\ at' = n + 1 /\ step' = "upNew"
        <3>1. pq' = Append(pq, trace) /\ at' = Len(pq') /\ step' = "upNew"
            BY <1>2, <1>6
        <3> QED
            BY <1>1, <2>1, <3>1, AppendProperties
    <2>3. /\ taken' \in Seq(0 .. MaxReuse + 1) /\ Len(taken') = Len(taken) + 1
          /\ taken'[Len(taken) + 1] = 0
          /\ \A id \in 1 .. Len(taken) : taken'[id] = taken[id]
        <3>1. 0 \in 0 .. MaxReuse + 1 /\ taken' = Append(taken, 0)
            BY <1>2, <1>6, MaxReuseAssumption
        <3> QED
            BY <1>1, <3>1, AppendProperties
    <2>4. TypeOK'
        <3>1. Len(taken') <= Cardinality(coverageHashTable') + Cardinality(fingerprintHashTable')
            BY <1>1, <1>4, <1>6, <2>3
        <3>2. at' \in 0 .. Len(pq')
            BY <1>1, <2>2
        <3> QED
            BY <1>3, <2>2, <2>3, <3>1, <3>2 DEF TypeOK
    <2>5. InPlace'
        BY <1>1, <2>2 DEF InPlace
    <2>6. /\ \A i \in 1 .. n : /\ pq[i].id \in 1 .. Len(taken)
                               /\ pq[i].usage = taken[pq[i].id]
                               /\ pq[i].cov \subseteq coverageHashTable
                               /\ Fingerprint[pq[i].cov] \in fingerprintHashTable
          /\ \A i, j \in 1 .. n : pq[i].id = pq[j].id => i = j
          /\ \A i, j \in 1 .. n : pq[i].cov = pq[j].cov => i = j
          /\ \A id \in 1 .. Len(taken) :
                 (\A i \in 1 .. n : pq[i].id # id) => taken[id] = MaxReuse + 1
        BY DEF QInv, Entries, Remembered, NoDuplicates
    <2>7. \A i \in 1 .. n + 1 : i \in 1 .. n \/ i = n + 1
        BY <1>1
    <2>8. n + 1 \in 1 .. n + 1 /\ \A i \in 1 .. n : i \in 1 .. n + 1
        BY <1>1
    <2>9. Entries'
        <3>1. \A i \in 1 .. n + 1 : /\ pq'[i].id \in 1 .. Len(taken')
                                    /\ pq'[i].usage = taken'[pq'[i].id]
            <4>1. ASSUME NEW i \in 1 .. n PROVE pq'[i].id \in 1 .. Len(taken')
                                                /\ pq'[i].usage = taken'[pq'[i].id]
                BY <1>1, <2>2, <2>3, <2>6, SMTT(30)
            <4>2. pq'[n + 1].id \in 1 .. Len(taken') /\ pq'[n + 1].usage = taken'[pq'[n + 1].id]
                BY <1>1, <2>1, <2>2, <2>3
            <4> QED
                BY <2>7, <4>1, <4>2
        <3>2. \A i \in 1 .. n : pq'[i].id = pq[i].id /\ pq[i].id # Len(taken) + 1
            BY <1>1, <2>2, <2>6
        <3>3. \A i, j \in 1 .. n + 1 : pq'[i].id = pq'[j].id => i = j
            <4> SUFFICES ASSUME NEW i \in 1 .. n + 1, NEW j \in 1 .. n + 1, pq'[i].id = pq'[j].id
                         PROVE  i = j
                OBVIOUS
            <4>1. pq'[n + 1].id = Len(taken) + 1
                BY <2>1, <2>2
            <4>2. CASE i = n + 1 \/ j = n + 1
                BY <2>7, <3>2, <4>1, <4>2
            <4>3. CASE i \in 1 .. n /\ j \in 1 .. n
                BY <2>6, <3>2, <4>3
            <4> QED
                BY <2>7, <4>2, <4>3
        <3>4. ASSUME NEW id \in 1 .. Len(taken'), \A i \in 1 .. n + 1 : pq'[i].id # id
              PROVE  taken'[id] = MaxReuse + 1
            <4>1. id # Len(taken) + 1
                BY <2>1, <2>2, <2>8, <3>4
            <4>2. id \in 1 .. Len(taken)
                BY <1>1, <2>3, <4>1
            <4>3. \A i \in 1 .. n : pq[i].id # id
                BY <2>8, <3>2, <3>4
            <4> QED
                BY <2>3, <2>6, <4>2, <4>3
        <3> HIDE DEF n
        <3> QED
            BY <2>2, <3>1, <3>3, <3>4 DEF Entries
    <2>10. Remembered'
        <3>1. \A i \in 1 .. n + 1 : /\ pq'[i].cov \subseteq coverageHashTable'
                                    /\ Fingerprint[pq'[i].cov] \in fingerprintHashTable'
            BY <1>2, <2>1, <2>2, <2>6, <2>7 DEF print
        <3> QED
            BY <2>2, <3>1 DEF Remembered
    <2>11. NoDuplicates'
        <3>1. \A i \in 1 .. n : pq'[i].cov = pq[i].cov /\ pq[i].cov # addresses
            BY <1>6, <2>2, <2>6 DEF isNew, print
        <3>2. \A i, j \in 1 .. n + 1 : pq'[i].cov = pq'[j].cov => i = j
            BY <2>1, <2>2, <2>6, <2>7, <3>1
        <3> QED
            BY <2>2, <3>2 DEF NoDuplicates
    <2>12. HeapAbove(Sizes(pq'), n + 1, n + 1)
        <3>1. \A i \in 1 .. n : Sizes(pq')[i] = Sizes(pq)[i]
            BY <1>1, <2>2, <2>8 DEF Sizes, CoverageSize
        <3>2. Heap(Sizes(pq), n)
            BY <1>1 DEF QInv, HeapOrder
        <3> QED
            BY <1>1, <3>1, <3>2, AppendMakesFault
    <2>13. HeapOrder'
        BY <2>2, <2>12 DEF HeapOrder
    <2> QED
        BY <2>4, <2>5, <2>9, <2>10, <2>11, <2>13 DEF QInv
<1> QED
    BY <1>5, <1>6

\* The inductive invariant of the queue.
LEMMA QInvariant == Spec => []QInv
<1>1. Init => QInv
    <2> SUFFICES ASSUME Init PROVE QInv
        OBVIOUS
    <2>1. pq \in Seq(Traces) /\ taken \in Seq(0 .. MaxReuse + 1) /\ Len(pq) = 0 /\ Len(taken) = 0
        BY EmptySeq DEF Init
    <2>2. Cardinality({}) = 0
        BY FS_EmptySet
    <2>3. TypeOK
        BY <2>1, <2>2 DEF Init, TypeOK
    <2>4. InPlace /\ Entries /\ Remembered /\ NoDuplicates
        BY <2>1 DEF Init, InPlace, Entries, Remembered, NoDuplicates
    <2>5. HeapOrder
        BY <2>1 DEF Init, HeapOrder, Heap
    <2> QED
        BY <2>3, <2>4, <2>5 DEF QInv
<1>2. QInv /\ [Next]_qvars => QInv'
    <2> SUFFICES ASSUME QInv, [Next]_qvars PROVE QInv'
        OBVIOUS
    <2>1. CASE \/ Up \/ UpDone \/ Down \/ DownDone \/ GeneratePop \/ Take
               \/ \E addresses \in SUBSET Addrs : Learn(addresses)
        BY <2>1, UpStep, UpDoneStep, DownStep, DownDoneStep, PopStep, TakeStep, LearnStep
    <2>2. CASE GenerateDefault \/ NothingLearnt \/ OnExecuteDone
        <3>1. /\ UNCHANGED <<pq, coverageHashTable, fingerprintHashTable, at, taken>>
              /\ step \in {"generate", "verify", "execute"}
              /\ step' \in {"generate", "verify", "finished"}
            BY <2>2 DEF GenerateDefault, NothingLearnt, OnExecuteDone, tables
        <3>2. TypeOK' /\ InPlace' /\ Entries' /\ Remembered' /\ NoDuplicates'
            BY <3>1 DEF QInv, TypeOK, InPlace, Entries, Remembered, NoDuplicates
        <3>3. HeapOrder'
            BY <3>1 DEF QInv, HeapOrder
        <3> QED
            BY <3>2, <3>3 DEF QInv
    <2>3. CASE UNCHANGED qvars
        BY <2>3 DEF qvars, QInv, TypeOK, InPlace, Entries, Remembered, NoDuplicates, HeapOrder
    <2> QED
        BY <2>1, <2>2, <2>3 DEF Next, Turn, Finished
<1> QED
    BY <1>1, <1>2, PTL DEF Spec

\* The strategy's state always has its type, and no more programs are pushed than
\* addresses and fingerprints were learnt (OnVerifyDone).
THEOREM QueueTypeCorrect == Spec => []TypeOK
<1>1. QInv => TypeOK
    BY DEF QInv
<1> QED
    BY <1>1, QInvariant, PTL

\* GenerateProgram always goes on with a program of the largest coverage, for a
\* queue of any length (Less in heap.go under container/heap).
THEOREM BestProgramFirst == Spec => []PopsBestProgram
<1>1. QInv => PopsBestProgram
    BY DEF QInv, HeapOrder, LastIsLargest, PopsBestProgram, Sizes, InPlace, TypeOK
<1> QED
    BY <1>1, QInvariant, PTL

\* The exchanges of the heap lose no program and double none, and each is used
\* MAX_PROG_REUSE + 1 times before it goes (GenerateProgram).
THEOREM EveryProgramUsedUp == Spec => []UsedToTheLimit
<1>1. QInv => UsedToTheLimit
    <2> SUFFICES ASSUME QInv, NEW id \in 1 .. Len(taken)
                 PROVE  LET places == {i \in 1 .. Len(pq) : pq[i].id = id}
                        IN  \/ Cardinality(places) = 1 /\ \A i \in places : pq[i].usage = taken[id]
                            \/ places = {} /\ taken[id] = MaxReuse + 1
        BY DEF UsedToTheLimit
    <2> DEFINE places == {i \in 1 .. Len(pq) : pq[i].id = id}
    <2>1. CASE places = {}
        BY <2>1 DEF QInv, Entries
    <2>2. CASE places # {}
        <3>1. PICK i \in places : TRUE
            BY <2>2
        <3>2. places = {i}
            BY DEF QInv, Entries
        <3>3. Cardinality({i}) = 1
            BY FS_Singleton
        <3>4. pq[i].usage = taken[id]
            BY DEF QInv, Entries
        <3> QED
            BY <3>2, <3>3, <3>4
    <2> QED
        BY <2>1, <2>2
<1> QED
    BY <1>1, QInvariant, PTL

\* No two queued programs have the same coverage, also when the fingerprints of
\* different coverage collide (OnVerifyDone).
THEOREM QueueHasNoDuplicates == Spec => []NoDuplicates
<1>1. QInv => NoDuplicates
    BY DEF QInv
<1> QED
    BY <1>1, QInvariant, PTL

\* The queue is used a bounded number of times, whatever the verifier answers: the
\* tables hold at most all addresses and fingerprints, every push takes one of
\* them, and every pushed program is taken at most MAX_PROG_REUSE + 1 times.
THEOREM QueueWorkIsBounded ==
    Spec => [](/\ Len(taken) <= Cardinality(Addrs) + Cardinality(Prints)
               /\ \A id \in 1 .. Len(taken) : taken[id] <= MaxReuse + 1)
<1>1. QInv => /\ Len(taken) <= Cardinality(Addrs) + Cardinality(Prints)
              /\ \A id \in 1 .. Len(taken) : taken[id] <= MaxReuse + 1
    <2> SUFFICES ASSUME QInv
                 PROVE  /\ Len(taken) <= Cardinality(Addrs) + Cardinality(Prints)
                        /\ \A id \in 1 .. Len(taken) : taken[id] <= MaxReuse + 1
        OBVIOUS
    <2>1. /\ coverageHashTable \in SUBSET Addrs /\ fingerprintHashTable \in SUBSET Prints
          /\ taken \in Seq(0 .. MaxReuse + 1) /\ Len(taken) \in Nat
          /\ Len(taken) <= Cardinality(coverageHashTable) + Cardinality(fingerprintHashTable)
        BY DEF QInv, TypeOK
    <2>2. /\ Cardinality(coverageHashTable) <= Cardinality(Addrs)
          /\ Cardinality(fingerprintHashTable) <= Cardinality(Prints)
        BY <2>1, QAddrsAssumption, FS_Subset
    <2>3. /\ Cardinality(coverageHashTable) \in Nat /\ Cardinality(fingerprintHashTable) \in Nat
          /\ Cardinality(Addrs) \in Nat /\ Cardinality(Prints) \in Nat
        BY <2>1, QAddrsAssumption, FS_Subset, FS_CardinalityType
    <2>4. \A id \in 1 .. Len(taken) : taken[id] <= MaxReuse + 1
        BY <2>1, MaxReuseAssumption
    <2> QED
        BY <2>1, <2>2, <2>3, <2>4
<1> QED
    BY <1>1, QInvariant, PTL

================================================================================
