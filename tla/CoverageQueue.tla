------------------------------ MODULE CoverageQueue ------------------------------
(***************************************************************************)
(* The coverage-based strategy (coverage_based.go) and its queue of         *)
(* programs (heap.go), which container/heap keeps as a binary heap: the     *)
(* exchanges of heap.Push and heap.Pop are steps of their own here, driven  *)
(* by the repository's Less and Swap.                                       *)
(*                                                                          *)
(* A program is known by the order in which it was pushed; what mutation    *)
(* does to its instructions is in ProgramMutation.  Indices are one above   *)
(* the code's.                                                              *)
(***************************************************************************)
EXTENDS Integers, Sequences, FiniteSets

CONSTANTS Addrs,        \* kernel code addresses kcov can report
          Prints,       \* values of the XOR of a set of addresses
          Fingerprint,  \* that XOR, for each set
          MaxReuse      \* MAX_PROG_REUSE

ASSUME QAddrsAssumption    == IsFiniteSet(Addrs) /\ IsFiniteSet(Prints)
ASSUME FingerprintOfSets   == Fingerprint \in [SUBSET Addrs -> Prints]
ASSUME MaxReuseAssumption  == MaxReuse \in Nat

VARIABLES
    pq,                    \* cv.pq: the heap array
    coverageHashTable,
    fingerprintHashTable,
    step,                  \* where the strategy is
    at,                    \* the index that up or down is at, 0 outside of them
    taken                  \* history: how often each pushed program was taken

qvars == <<pq, coverageHashTable, fingerprintHashTable, step, at, taken>>
tables == <<coverageHashTable, fingerprintHashTable>>

\* CoverageTrace; CoverageSize is the number of addresses, CoverageSignature
\* follows from them and is never read.
Traces == [id : Nat \ {0}, cov : SUBSET Addrs, usage : 0 .. MaxReuse]

CoverageSize(trace) == Cardinality(trace.cov)

Init ==
    /\ pq = <<>>
    /\ coverageHashTable = {} /\ fingerprintHashTable = {}
    /\ step = "generate"
    /\ at = 0
    /\ taken = <<>>

--------------------------------------------------------------------------------
(* heap.go under container/heap *)

\* The mistake of the usual direction, smallest first.
LessAscending(i, j) == CoverageSize(pq[i]) < CoverageSize(pq[j])

\* "Higher priority is a larger value"
Less(i, j) == CoverageSize(pq[i]) > CoverageSize(pq[j])

Swap(i, j) == pq' = [pq EXCEPT ![i] = pq[j], ![j] = pq[i]]

\* heap.Push: append; up, called for the new last index, follows.
Push(queue, trace, label) ==
    /\ pq' = Append(queue, trace)
    /\ at' = Len(pq')
    /\ step' = label

\* The entry has priority over its parent.
MovesUp == at > 1 /\ Less(at, at \div 2)

\* One exchange of up.
Up ==
    /\ step \in {"upReused", "upNew"}
    /\ MovesUp
    /\ Swap(at, at \div 2)
    /\ at' = at \div 2
    /\ UNCHANGED <<tables, step, taken>>

UpDone ==
    /\ step \in {"upReused", "upNew"}
    /\ ~MovesUp
    /\ at' = 0
    /\ step' = IF step = "upReused" THEN "verify" ELSE "execute"
    /\ UNCHANGED <<pq, tables, taken>>

\* The child of i that down compares with it, among the first n entries.
BestChild(i, n) == IF 2 * i + 1 <= n /\ Less(2 * i + 1, 2 * i) THEN 2 * i + 1 ELSE 2 * i

\* down works on all entries but the last, which is on its way out.
MovesDown == LET n == Len(pq) - 1 IN 2 * at <= n /\ Less(BestChild(at, n), at)

Down ==
    /\ step = "down"
    /\ MovesDown
    /\ Swap(at, BestChild(at, Len(pq) - 1))
    /\ at' = BestChild(at, Len(pq) - 1)
    /\ UNCHANGED <<tables, step, taken>>

DownDone ==
    /\ step = "down"
    /\ ~MovesDown
    /\ at' = 0
    /\ step' = "take"
    /\ UNCHANGED <<pq, tables, taken>>

--------------------------------------------------------------------------------
(* GenerateProgram *)

\* An empty queue: the default program.
GenerateDefault ==
    /\ step = "generate"
    /\ pq = <<>>
    /\ step' = "verify"
    /\ UNCHANGED <<pq, tables, at, taken>>

\* cv.pq.Pop(): heap.Pop exchanges the first and the last entry and calls down.
GeneratePop ==
    /\ step = "generate"
    /\ pq # <<>>
    /\ Swap(1, Len(pq))
    /\ at' = 1
    /\ step' = "down"
    /\ UNCHANGED <<tables, taken>>

\* Mistakes: one use too many, one too few, and no count at all.
TakeOnceMore ==
    /\ step = "take"
    /\ LET item == pq[Len(pq)]
           rest == SubSeq(pq, 1, Len(pq) - 1)
       IN  /\ taken' = [taken EXCEPT ![item.id] = @ + 1]
           /\ IF item.usage <= MaxReuse
                THEN Push(rest, [item EXCEPT !.usage = @ + 1], "upReused")
                ELSE pq' = rest /\ step' = "verify" /\ UNCHANGED at
    /\ UNCHANGED tables

TakeOnceLess ==
    /\ step = "take"
    /\ LET item == pq[Len(pq)]
           rest == SubSeq(pq, 1, Len(pq) - 1)
       IN  /\ taken' = [taken EXCEPT ![item.id] = @ + 1]
           /\ IF item.usage + 1 < MaxReuse
                THEN Push(rest, [item EXCEPT !.usage = @ + 1], "upReused")
                ELSE pq' = rest /\ step' = "verify" /\ UNCHANGED at
    /\ UNCHANGED tables

TakeUncounted ==
    /\ step = "take"
    /\ Push(SubSeq(pq, 1, Len(pq) - 1), pq[Len(pq)], "upReused")
    /\ UNCHANGED <<tables, taken>>

\* PriorityQueueContainer.Pop takes the last entry; it goes back with its
\* UsageCount raised unless it has been used MAX_PROG_REUSE times before.
Take ==
    /\ step = "take"
    /\ LET item == pq[Len(pq)]
           rest == SubSeq(pq, 1, Len(pq) - 1)
       IN  /\ taken' = [taken EXCEPT ![item.id] = @ + 1]
           /\ IF item.usage < MaxReuse
                THEN Push(rest, [item EXCEPT !.usage = @ + 1], "upReused")
                ELSE pq' = rest /\ step' = "verify" /\ UNCHANGED at
    /\ UNCHANGED tables

--------------------------------------------------------------------------------
(* OnVerifyDone and OnExecuteDone *)

\* The program was refused, or no coverage was collected.
NothingLearnt ==
    /\ step = "verify"
    /\ step' = "generate"
    /\ UNCHANGED <<pq, tables, at, taken>>

\* The mistake of not remembering the fingerprint.
LearnForgetful(addresses) ==
    /\ step = "verify"
    /\ LET newAddr        == ~(addresses \subseteq coverageHashTable)
           newFingerPrint == Fingerprint[addresses] \notin fingerprintHashTable
           trace == [id |-> Len(taken) + 1, cov |-> addresses, usage |-> 0]
       IN  IF newAddr \/ newFingerPrint
             THEN Push(pq, trace, "upNew") /\ taken' = Append(taken, 0)
             ELSE step' = "generate" /\ UNCHANGED <<pq, at, taken>>
    /\ coverageHashTable' = coverageHashTable \cup addresses
    /\ UNCHANGED fingerprintHashTable

\* A new address or a new fingerprint: push the program and have it run.
Learn(addresses) ==
    /\ step = "verify"
    /\ LET newAddr        == ~(addresses \subseteq coverageHashTable)
           newFingerPrint == Fingerprint[addresses] \notin fingerprintHashTable
           trace == [id |-> Len(taken) + 1, cov |-> addresses, usage |-> 0]
       IN  IF newAddr \/ newFingerPrint
             THEN Push(pq, trace, "upNew") /\ taken' = Append(taken, 0)
             ELSE step' = "generate" /\ UNCHANGED <<pq, at, taken>>
    /\ coverageHashTable' = coverageHashTable \cup addresses
    /\ fingerprintHashTable' = fingerprintHashTable \cup {Fingerprint[addresses]}

\* cv.isFinished = !valid
OnExecuteDone ==
    /\ step = "execute"
    /\ step' \in {"generate", "finished"}
    /\ UNCHANGED <<pq, tables, at, taken>>

Finished == step = "finished" /\ UNCHANGED qvars

Turn == \/ Up \/ UpDone \/ Down \/ DownDone
        \/ GenerateDefault \/ GeneratePop \/ Take
        \/ NothingLearnt \/ (\E addresses \in SUBSET Addrs : Learn(addresses))
        \/ OnExecuteDone

Next == Turn \/ Finished

Spec == Init /\ [][Next]_qvars

\* The control unit keeps calling the strategy (FuzzLoop, ComesRound).
FairSpec == Spec /\ WF_qvars(Turn)

--------------------------------------------------------------------------------
(* Properties *)

\* Type invariant of the strategy's state; every push is paid for by an address
\* or a fingerprint that was not in the tables before.
TypeOK ==
    /\ pq \in Seq(Traces)
    /\ coverageHashTable \subseteq Addrs
    /\ fingerprintHashTable \subseteq Prints
    /\ step \in {"generate", "down", "take", "upReused", "verify", "upNew", "execute", "finished"}
    /\ at \in 0 .. Len(pq)
    /\ taken \in Seq(0 .. MaxReuse + 1)
    /\ Len(taken) <= Cardinality(coverageHashTable) + Cardinality(fingerprintHashTable)

\* The program that GenerateProgram goes on with covers at least as much as any
\* other one in the queue, whatever pushes and pops came before (heap.go, Less).
PopsBestProgram ==
    step = "take" => \A i \in 1 .. Len(pq) : CoverageSize(pq[Len(pq)]) >= CoverageSize(pq[i])

\* Every program pushed is either in the queue, once, with as many uses counted
\* as were made of it, or has been used MAX_PROG_REUSE + 1 times: the exchanges
\* of the heap lose none and double none.
UsedToTheLimit ==
    \A id \in 1 .. Len(taken) :
        LET places == {i \in 1 .. Len(pq) : pq[i].id = id}
        IN  \/ Cardinality(places) = 1 /\ \A i \in places : pq[i].usage = taken[id]
            \/ places = {} /\ taken[id] = MaxReuse + 1

\* No two programs in the queue have the same coverage: a program that shows
\* nothing new is not kept, also when fingerprints collide (OnVerifyDone).
NoDuplicates ==
    \A i, j \in 1 .. Len(pq) : pq[i].cov = pq[j].cov => i = j

\* The tables only grow and every program wears out, so in the end the strategy
\* mutates its default program alone, or has found something.
Drains == <>[](pq = <<>> \/ step = "finished")

================================================================================
