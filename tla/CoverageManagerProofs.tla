-------------------------- MODULE CoverageManagerProofs ---------------------------
(***************************************************************************)
(* CoverageManager is right for every set of addresses and lines, every     *)
(* resolver and every number of readers.                                    *)
(***************************************************************************)
EXTENDS CoverageManager, FiniteSetTheorems, TLAPS

\* What a call in progress knows: the addresses it still has to resolve are not
\* cached, and with the cache they cover its argument ...
CallSplits ==
    cmPc \in {"counting", "resolving", "recording"} =>
        /\ unknownAddr \cap coverageCache = {}
        /\ cov \subseteq coverageCache \cup unknownAddr

\* ... and lastMaxCoverage has already counted them.
CallCounted ==
    cmPc \in {"resolving", "recording"} =>
        Cardinality(unknownAddr) + Cardinality(coverageCache) <= lastMaxCoverage

CmInv == CmTypeOK /\ CallSplits /\ CallCounted /\ ReturnsResolved
         /\ InfoMatchesCache /\ HistoryRises

--------------------------------------------------------------------------------
\* Sets of addresses are finite and have natural cardinalities.
LEMMA AddressSetsFinite ==
    ASSUME NEW S, S \subseteq Addrs
    PROVE  IsFiniteSet(S) /\ Cardinality(S) \in Nat
BY AddrsAssumption, FS_Subset, FS_CardinalityType

\* A history stays one when a number is appended.
LEMMA AppendNat ==
    ASSUME NEW s \in Seq(Nat), NEW n \in Nat
    PROVE  /\ Append(s, n) \in Seq(Nat)
           /\ Len(Append(s, n)) = Len(s) + 1
           /\ Append(s, n)[Len(s) + 1] = n
           /\ \A i \in 1 .. Len(s) : Append(s, n)[i] = s[i]
OBVIOUS

\* The type invariant is inductive by itself.
LEMMA TypeStep == CmTypeOK /\ [CmNext]_cmVars => CmTypeOK'
<1> SUFFICES ASSUME CmTypeOK, [CmNext]_cmVars PROVE CmTypeOK'
    OBVIOUS
<1> USE LineOfAssumption, UnparsableAssumption DEF CmTypeOK, cmData
<1>1. CASE \E c \in SUBSET Addrs : Call(c)
    BY <1>1 DEF Call
<1>2. CASE LockAndFilter
    BY <1>2 DEF LockAndFilter
<1>3. CASE CountCoverage
    <2>1. Cardinality(unknownAddr) + Cardinality(coverageCache) \in Nat
        BY AddressSetsFinite
    <2>2. PICK total \in Nat :
             \/ lastMaxCoverage' = total /\ coverageHistory' = Append(coverageHistory, total)
             \/ lastMaxCoverage' = lastMaxCoverage /\ coverageHistory' = coverageHistory
        BY <1>3, <2>1 DEF CountCoverage
    <2>3. lastMaxCoverage' \in Nat /\ coverageHistory' \in Seq(Nat)
        BY <2>2, AppendNat
    <2>4. /\ coverageLock' \in {"none", "worker"} \cup Readers
          /\ cmPc' \in {"returned", "resolving"}
          /\ failed' \in BOOLEAN
          /\ UNCHANGED <<coverageCache, coverageInfoMap, cov, unknownAddr>>
        BY <1>3 DEF CountCoverage, Return
    <2> QED
        BY <2>3, <2>4
<1>4. CASE Resolve
    BY <1>4 DEF Resolve, Return
<1>5. CASE RecordDone
    BY <1>5 DEF RecordDone, Return
<1>6. ASSUME NEW a \in unknownAddr, RecordLine(a) PROVE CmTypeOK'
    <2>1. a \in Addrs /\ LineOf[a] \in Lines
        BY <1>6 DEF RecordLine
    <2>2. coverageInfoMap' \in [Lines -> Nat]
        BY <1>6, <2>1 DEF RecordLine
    <2>3. coverageCache' \subseteq Addrs /\ unknownAddr' \subseteq Addrs
        BY <1>6, <2>1 DEF RecordLine
    <2> QED
        BY <1>6, <2>2, <2>3 DEF RecordLine
<1>7. ASSUME NEW a \in unknownAddr, RecordUnparsable(a) PROVE CmTypeOK'
    BY <1>7 DEF RecordUnparsable, Return
<1>8. CASE Collect
    BY <1>8 DEF Collect
<1>9. ASSUME NEW r \in Readers, ReaderLock(r) \/ ReaderUnlock(r) PROVE CmTypeOK'
    BY <1>9 DEF ReaderLock, ReaderUnlock
<1>10. CASE UNCHANGED cmVars
    BY <1>10 DEF cmVars
<1> QED
    BY <1>1, <1>2, <1>3, <1>4, <1>5, <1>6, <1>7, <1>8, <1>9, <1>10 DEF CmNext, CallStep

\* The initial state has its type.
LEMMA TypeInit == CmInit => CmTypeOK
<1> SUFFICES ASSUME CmInit PROVE CmTypeOK
    OBVIOUS
<1>1. coverageHistory \in Seq(Nat)
    BY DEF CmInit
<1>2. coverageInfoMap \in [Lines -> Nat]
    BY DEF CmInit
<1> QED
    BY <1>1, <1>2 DEF CmInit, CmTypeOK

\* The state of the coverage manager always has its type (coverage_manager.go).
THEOREM CmTypeCorrect == CmSpec => []CmTypeOK
BY TypeInit, TypeStep, PTL DEF CmSpec

--------------------------------------------------------------------------------
(* The parts of CmInv, each preserved by every step. *)

\* What a call still has to resolve stays apart from the cache.
LEMMA SplitStep == CmInv /\ [CmNext]_cmVars => CallSplits'
<1> SUFFICES ASSUME CmInv, [CmNext]_cmVars PROVE CallSplits'
    OBVIOUS
<1> USE DEF CmInv, CallSplits, cmData
<1>1. CASE \E c \in SUBSET Addrs : Call(c)
    BY <1>1 DEF Call
<1>2. CASE LockAndFilter
    BY <1>2 DEF LockAndFilter
<1>3. CASE CountCoverage
    BY <1>3 DEF CountCoverage, Return
<1>4. CASE Resolve
    BY <1>4 DEF Resolve, Return
<1>5. CASE RecordDone
    BY <1>5 DEF RecordDone, Return
<1>6. ASSUME NEW a \in unknownAddr, RecordLine(a) PROVE CallSplits'
    BY <1>6 DEF RecordLine
<1>7. ASSUME NEW a \in unknownAddr, RecordUnparsable(a) PROVE CallSplits'
    BY <1>7 DEF RecordUnparsable, Return
<1>8. CASE Collect
    BY <1>8 DEF Collect
<1>9. ASSUME NEW r \in Readers, ReaderLock(r) \/ ReaderUnlock(r) PROVE CallSplits'
    BY <1>9 DEF ReaderLock, ReaderUnlock
<1>10. CASE UNCHANGED cmVars
    BY <1>10 DEF cmVars
<1> QED
    BY <1>1, <1>2, <1>3, <1>4, <1>5, <1>6, <1>7, <1>8, <1>9, <1>10 DEF CmNext, CallStep

\* A call returns without an error only when nothing is left to resolve.
LEMMA ReturnStep == CmInv /\ [CmNext]_cmVars => ReturnsResolved'
<1> SUFFICES ASSUME CmInv, [CmNext]_cmVars PROVE ReturnsResolved'
    OBVIOUS
<1> USE DEF CmInv, ReturnsResolved, cmData
<1>1. CASE \E c \in SUBSET Addrs : Call(c)
    BY <1>1 DEF Call
<1>2. CASE LockAndFilter
    BY <1>2 DEF LockAndFilter
<1>3. CASE CountCoverage
    BY <1>3 DEF CountCoverage, Return, CallSplits
<1>4. CASE Resolve
    BY <1>4 DEF Resolve, Return
<1>5. CASE RecordDone
    BY <1>5 DEF RecordDone, Return, CallSplits
<1>6. ASSUME NEW a \in unknownAddr, RecordLine(a) PROVE ReturnsResolved'
    BY <1>6 DEF RecordLine
<1>7. ASSUME NEW a \in unknownAddr, RecordUnparsable(a) PROVE ReturnsResolved'
    BY <1>7 DEF RecordUnparsable, Return
<1>8. CASE Collect
    BY <1>8 DEF Collect
<1>9. ASSUME NEW r \in Readers, ReaderLock(r) \/ ReaderUnlock(r) PROVE ReturnsResolved'
    BY <1>9 DEF ReaderLock, ReaderUnlock
<1>10. CASE UNCHANGED cmVars
    BY <1>10 DEF cmVars
<1> QED
    BY <1>1, <1>2, <1>3, <1>4, <1>5, <1>6, <1>7, <1>8, <1>9, <1>10 DEF CmNext, CallStep

--------------------------------------------------------------------------------
(* Only RecordLine touches the cache and the lists, only CountCoverage the      *)
(* history: every other step frames them.                                      *)

\* The cardinalities before and after one line is recorded.
LEMMA RecordMovesOne ==
    ASSUME CmInv, NEW a \in unknownAddr, RecordLine(a)
    PROVE  /\ Cardinality(coverageCache') = Cardinality(coverageCache) + 1
           /\ Cardinality(unknownAddr') = Cardinality(unknownAddr) - 1
<1>1. a \notin coverageCache /\ IsFiniteSet(coverageCache) /\ IsFiniteSet(unknownAddr)
    BY AddressSetsFinite DEF CmInv, CmTypeOK, CallSplits, RecordLine
<1>2. Cardinality(coverageCache \cup {a}) = Cardinality(coverageCache) + 1
    BY <1>1, FS_AddElement
<1>3. Cardinality(unknownAddr \ {a}) = Cardinality(unknownAddr) - 1
    BY <1>1, FS_RemoveElement
<1> QED
    BY <1>2, <1>3 DEF RecordLine

\* A recorded line adds one entry for one new address.
LEMMA InfoStep == CmInv /\ [CmNext]_cmVars => InfoMatchesCache'
<1> SUFFICES ASSUME CmInv, [CmNext]_cmVars PROVE InfoMatchesCache'
    OBVIOUS
<1>1. ASSUME NEW a \in unknownAddr, RecordLine(a) PROVE InfoMatchesCache'
    <2>1. a \in Addrs /\ a \notin coverageCache /\ LineOf[a] \in Lines
        BY <1>1, LineOfAssumption DEF RecordLine, CmInv, CmTypeOK, CallSplits
    <2> SUFFICES ASSUME NEW l \in Lines
                 PROVE  coverageInfoMap'[l] = Cardinality({b \in coverageCache' : LineOf[b] = l})
        BY DEF InfoMatchesCache
    <2> DEFINE before == {b \in coverageCache : LineOf[b] = l}
    <2>2. coverageInfoMap[l] = Cardinality(before) /\ IsFiniteSet(before)
        <3>1. before \subseteq Addrs
            BY DEF CmInv, CmTypeOK
        <3> QED
            BY <3>1, AddressSetsFinite DEF CmInv, InfoMatchesCache
    <2>3. CASE l = LineOf[a]
        <3>1. {b \in coverageCache' : LineOf[b] = l} = before \cup {a} /\ a \notin before
            BY <1>1, <2>1, <2>3 DEF RecordLine
        <3>2. Cardinality(before \cup {a}) = Cardinality(before) + 1
            BY <2>2, <3>1, FS_AddElement
        <3>3. coverageInfoMap'[l] = coverageInfoMap[l] + 1
            BY <1>1, <2>1, <2>3 DEF RecordLine, CmInv, CmTypeOK
        <3> QED
            BY <2>2, <3>1, <3>2, <3>3
    <2>4. CASE l # LineOf[a]
        <3>1. {b \in coverageCache' : LineOf[b] = l} = before
            BY <1>1, <2>1, <2>4 DEF RecordLine
        <3>2. coverageInfoMap'[l] = coverageInfoMap[l]
            BY <1>1, <2>1, <2>4 DEF RecordLine, CmInv, CmTypeOK
        <3> QED
            BY <2>2, <3>1, <3>2
    <2> QED
        BY <2>3, <2>4
<1>2. CASE UNCHANGED <<coverageCache, coverageInfoMap>>
    BY <1>2 DEF CmInv, InfoMatchesCache
<1>3. \/ \E a \in unknownAddr : RecordLine(a)
      \/ UNCHANGED <<coverageCache, coverageInfoMap>>
    BY DEF CmNext, CallStep, Call, LockAndFilter, CountCoverage, Resolve, RecordDone,
           RecordUnparsable, Collect, ReaderLock, ReaderUnlock, cmData, cmVars
<1> QED
    BY <1>1, <1>2, <1>3

\* Recording moves addresses from unknownAddr to the cache and keeps their sum.
LEMMA CountedStep == CmInv /\ [CmNext]_cmVars => CallCounted'
<1> SUFFICES ASSUME CmInv, [CmNext]_cmVars PROVE CallCounted'
    OBVIOUS
<1>0. /\ Cardinality(unknownAddr) \in Nat /\ Cardinality(coverageCache) \in Nat
      /\ lastMaxCoverage \in Nat
    BY AddressSetsFinite DEF CmInv, CmTypeOK
<1>1. CASE CountCoverage
    <2>1. UNCHANGED <<unknownAddr, coverageCache>>
        BY <1>1 DEF CountCoverage
    <2>2. Cardinality(unknownAddr) + Cardinality(coverageCache) <= lastMaxCoverage'
        BY <1>0, <1>1 DEF CountCoverage
    <2> QED
        BY <2>1, <2>2 DEF CallCounted
<1>2. ASSUME NEW a \in unknownAddr, RecordLine(a) PROVE CallCounted'
    <2>1. Cardinality(unknownAddr) + Cardinality(coverageCache) <= lastMaxCoverage
        BY <1>2 DEF RecordLine, CmInv, CallCounted
    <2>2. /\ Cardinality(coverageCache') = Cardinality(coverageCache) + 1
          /\ Cardinality(unknownAddr') = Cardinality(unknownAddr) - 1
        BY <1>2, RecordMovesOne
    <2>3. lastMaxCoverage' = lastMaxCoverage
        BY <1>2 DEF RecordLine
    <2> QED
        BY <1>0, <2>1, <2>2, <2>3 DEF CallCounted
<1>3. CASE /\ UNCHANGED <<unknownAddr, coverageCache, lastMaxCoverage>>
           /\ cmPc' \in {"resolving", "recording"} => cmPc \in {"resolving", "recording"}
    BY <1>3 DEF CmInv, CallCounted
<1>4. CASE cmPc' \notin {"resolving", "recording"}
    BY <1>4 DEF CallCounted
<1>5. \/ CountCoverage
      \/ \E a \in unknownAddr : RecordLine(a)
      \/ /\ UNCHANGED <<unknownAddr, coverageCache, lastMaxCoverage>>
         /\ cmPc' \in {"resolving", "recording"} => cmPc \in {"resolving", "recording"}
      \/ cmPc' \notin {"resolving", "recording"}
    BY DEF CmNext, CallStep, Call, LockAndFilter, Resolve, RecordDone, Return,
           RecordUnparsable, Collect, ReaderLock, ReaderUnlock, cmData, cmVars
<1> QED
    BY <1>1, <1>2, <1>3, <1>4, <1>5

\* A point is appended to the history only if it is higher than the last.
LEMMA HistoryStep == CmInv /\ [CmNext]_cmVars => HistoryRises'
<1> SUFFICES ASSUME CmInv, [CmNext]_cmVars PROVE HistoryRises'
    OBVIOUS
<1>0. /\ Cardinality(unknownAddr) \in Nat /\ Cardinality(coverageCache) \in Nat
      /\ lastMaxCoverage \in Nat /\ coverageHistory \in Seq(Nat)
    BY AddressSetsFinite DEF CmInv, CmTypeOK
<1>1. CASE CountCoverage /\ UNCHANGED <<lastMaxCoverage, coverageHistory>>
    BY <1>1 DEF CountCoverage, CmInv, HistoryRises
<1>2. ASSUME NEW n \in Nat, lastMaxCoverage < n, n >= Cardinality(coverageCache),
             lastMaxCoverage' = n, coverageHistory' = Append(coverageHistory, n),
             coverageCache' = coverageCache
      PROVE  HistoryRises'
    <2> DEFINE k == Len(coverageHistory)
    <2>1. /\ k \in Nat
          /\ Len(coverageHistory') = k + 1
          /\ coverageHistory'[k + 1] = n
          /\ \A i \in 1 .. k : coverageHistory'[i] = coverageHistory[i]
          /\ coverageHistory' # <<>>
        BY <1>0, <1>2, AppendNat
    <2>2. \A i \in 1 .. k : coverageHistory[i] \in Nat /\ coverageHistory[i] <= lastMaxCoverage
        <3> SUFFICES ASSUME NEW i \in 1 .. k
                     PROVE  coverageHistory[i] \in Nat /\ coverageHistory[i] <= lastMaxCoverage
            OBVIOUS
        <3>1. coverageHistory[i] \in Nat /\ coverageHistory[k] \in Nat /\ coverageHistory # <<>>
            BY <1>0, <2>1
        <3>2. lastMaxCoverage = coverageHistory[k]
            BY <3>1 DEF CmInv, HistoryRises
        <3>3. i < k => coverageHistory[i] < coverageHistory[k]
            BY <2>1 DEF CmInv, HistoryRises
        <3> QED
            BY <2>1, <3>1, <3>2, <3>3
    <2>3. ASSUME NEW i \in 1 .. k + 1, NEW j \in 1 .. k + 1, i < j
          PROVE  coverageHistory'[i] < coverageHistory'[j]
        <3>1. CASE j = k + 1
            <4>1. i \in 1 .. k
                BY <2>1, <2>3, <3>1
            <4> QED
                BY <1>0, <1>2, <2>1, <2>2, <3>1, <4>1
        <3>2. CASE j # k + 1
            <4>1. i \in 1 .. k /\ j \in 1 .. k
                BY <2>1, <2>3, <3>2
            <4>2. coverageHistory[i] < coverageHistory[j]
                BY <2>3, <4>1 DEF CmInv, HistoryRises
            <4> QED
                BY <2>1, <4>1, <4>2
        <3> QED
            BY <3>1, <3>2
    <2> QED
        BY <1>0, <1>2, <2>1, <2>3 DEF HistoryRises
<1>3. ASSUME NEW a \in unknownAddr, RecordLine(a) PROVE HistoryRises'
    <2>1. Cardinality(coverageCache') <= lastMaxCoverage
        <3>1. Cardinality(unknownAddr) + Cardinality(coverageCache) <= lastMaxCoverage
            BY <1>3 DEF RecordLine, CmInv, CallCounted
        <3>2. Cardinality(unknownAddr) >= 1
            <4>1. IsFiniteSet(unknownAddr)
                BY AddressSetsFinite DEF CmInv, CmTypeOK
            <4>2. Cardinality(unknownAddr) # 0
                BY <4>1, FS_EmptySet
            <4> QED
                BY <1>0, <4>2
        <3> QED
            BY <1>0, <1>3, <3>1, <3>2, RecordMovesOne
    <2> QED
        BY <1>3, <2>1 DEF RecordLine, CmInv, HistoryRises
<1>4. CASE UNCHANGED <<coverageCache, coverageHistory, lastMaxCoverage>>
    BY <1>4 DEF CmInv, HistoryRises
<1>5. \/ CountCoverage
      \/ \E a \in unknownAddr : RecordLine(a)
      \/ UNCHANGED <<coverageCache, coverageHistory, lastMaxCoverage>>
    BY DEF CmNext, CallStep, Call, LockAndFilter, Resolve, RecordDone,
           RecordUnparsable, Collect, ReaderLock, ReaderUnlock, cmData, cmVars
<1>6. CASE CountCoverage
    <2> DEFINE n == Cardinality(unknownAddr) + Cardinality(coverageCache)
    <2>1. n \in Nat /\ n >= Cardinality(coverageCache)
        BY <1>0
    <2>2. \/ UNCHANGED <<lastMaxCoverage, coverageHistory>>
          \/ /\ lastMaxCoverage < n /\ lastMaxCoverage' = n
             /\ coverageHistory' = Append(coverageHistory, n)
             /\ coverageCache' = coverageCache
        BY <1>6 DEF CountCoverage
    <2> QED
        BY <1>1, <1>2, <1>6, <2>1, <2>2
<1> QED
    BY <1>3, <1>4, <1>5, <1>6

--------------------------------------------------------------------------------
\* The inductive invariant of the coverage manager.
LEMMA CmInvariant == CmSpec => []CmInv
<1>1. CmInit => CmInv
    <2> SUFFICES ASSUME CmInit PROVE CmInv
        OBVIOUS
    <2>1. \A l \in Lines : {a \in {} : LineOf[a] = l} = {}
        OBVIOUS
    <2>2. Cardinality({}) = 0
        BY FS_EmptySet
    <2>3. InfoMatchesCache
        BY <2>1, <2>2 DEF CmInit, InfoMatchesCache
    <2>4. HistoryRises
        BY <2>2 DEF CmInit, HistoryRises
    <2> QED
        BY <2>3, <2>4, TypeInit DEF CmInit, CmInv, CallSplits, CallCounted, ReturnsResolved
<1>2. CmInv /\ [CmNext]_cmVars => CmInv'
    BY TypeStep, SplitStep, CountedStep, ReturnStep, InfoStep, HistoryStep DEF CmInv
<1> QED
    BY <1>1, <1>2, PTL DEF CmSpec

\* For every resolver and every sequence of calls, failed ones included: a call
\* that returns no error has cached all its addresses (ProcessCoverageAddresses).
THEOREM CallsResolve == CmSpec => []ReturnsResolved
<1>1. CmInv => ReturnsResolved
    BY DEF CmInv
<1> QED
    BY <1>1, CmInvariant, PTL

\* The per-file lists hold exactly one entry per resolved address
\* (recordCoverageLine).
THEOREM InfoIsExact == CmSpec => []InfoMatchesCache
<1>1. CmInv => InfoMatchesCache
    BY DEF CmInv
<1> QED
    BY <1>1, CmInvariant, PTL

\* The coverage graph rises strictly, ends at lastMaxCoverage, and is never below
\* the number of resolved addresses (the history in ProcessCoverageAddresses).
THEOREM GraphRises == CmSpec => []HistoryRises
<1>1. CmInv => HistoryRises
    BY DEF CmInv
<1> QED
    BY <1>1, CmInvariant, PTL

================================================================================
