----------------------------- MODULE CoverageManager -----------------------------
(***************************************************************************)
(* CoverageManager (pkg/units/coverage_manager.go) and the addr2line        *)
(* resolver main.go gives it.  One goroutine, the worker of the metrics     *)
(* unit, calls ProcessCoverageAddresses; HTTP handlers (Readers) take       *)
(* coverageLock in GetCoverageHistory.                                      *)
(*                                                                          *)
(* An address resolves to LineOf[a], or to something strconv.Atoi refuses   *)
(* ("??:?").  coverageCache is the set of its keys, the value being fixed   *)
(* by LineOf; coverageInfoMap, a list of line numbers per file in the code, *)
(* is kept as the number of times each line occurs in those lists;          *)
(* coverageHistory, a map keyed by time.Now(), is the sequence of its       *)
(* values in time order.                                                    *)
(***************************************************************************)
EXTENDS Integers, Sequences, FiniteSets

CONSTANTS Addrs,         \* kernel code addresses kcov can report
          Lines,         \* file:line pairs
          Unparsable,    \* not a line
          LineOf,        \* what addr2line answers for an address
          PipeCapacity,  \* how many addresses fit into the pipe to addr2line
          Readers        \* handlers of the metrics server

ASSUME AddrsAssumption      == IsFiniteSet(Addrs)
ASSUME UnparsableAssumption == Unparsable \notin Lines
ASSUME LineOfAssumption     == LineOf \in [Addrs -> Lines \cup {Unparsable}]
ASSUME PipeAssumption       == PipeCapacity \in Nat

ASSUME ReadersAssumption    == "none" \notin Readers /\ "worker" \notin Readers

VARIABLES
    coverageLock,      \* its holder, or "none"
    coverageCache,
    coverageInfoMap,
    coverageHistory,
    lastMaxCoverage,
    cmPc,              \* where the worker's call is
    cov,               \* its argument (kcov's addresses, without repetition)
    unknownAddr,       \* the addresses of cov still to be resolved and recorded
    failed             \* it returned an error

cmVars == <<coverageLock, coverageCache, coverageInfoMap, coverageHistory,
            lastMaxCoverage, cmPc, cov, unknownAddr, failed>>
cmData == <<coverageCache, coverageInfoMap, coverageHistory, lastMaxCoverage>>

CmInit ==
    /\ coverageLock = "none"
    /\ coverageCache = {}
    /\ coverageInfoMap = [l \in Lines |-> 0]
    /\ coverageHistory = <<>>
    /\ lastMaxCoverage = 0
    /\ cmPc = "idle"
    /\ cov = {} /\ unknownAddr = {}
    /\ failed = FALSE

--------------------------------------------------------------------------------
(* ProcessCoverageAddresses *)

\* Mistake: reading the buffer from its first cell, which holds the count.
CallWithCount(addresses) ==
    /\ cmPc = "idle"
    /\ cmPc' = "called"
    /\ cov' = addresses \cup {Unparsable}
    /\ failed' = FALSE
    /\ UNCHANGED <<coverageLock, cmData, unknownAddr>>

Call(addresses) ==
    /\ cmPc = "idle"
    /\ cmPc' = "called"
    /\ cov' = addresses
    /\ failed' = FALSE
    /\ UNCHANGED <<coverageLock, cmData, unknownAddr>>

\* coverageLock.Lock(), and the search for addresses the cache does not have.
LockAndFilter ==
    /\ cmPc = "called"
    /\ coverageLock = "none"
    /\ coverageLock' = "worker"
    /\ unknownAddr' = cov \ coverageCache
    /\ cmPc' = "counting"
    /\ UNCHANGED <<cmData, cov, failed>>

\* defer coverageLock.Unlock()
Return(withError) ==
    /\ coverageLock' = "none"
    /\ cmPc' = "returned"
    /\ failed' = withError

\* Mistake: counting the addresses of this result alone, known or not.
CountCoverageOfResult ==
    /\ cmPc = "counting"
    /\ lastMaxCoverage' = Cardinality(cov)
    /\ coverageHistory' = Append(coverageHistory, lastMaxCoverage')
    /\ IF unknownAddr = {}
         THEN Return(FALSE)
         ELSE cmPc' = "resolving" /\ UNCHANGED <<coverageLock, failed>>
    /\ UNCHANGED <<coverageCache, coverageInfoMap, cov, unknownAddr>>

\* "Only record increases of coverage based on the sum of known and unknown
\* addresses."
CountCoverage ==
    /\ cmPc = "counting"
    /\ LET total == Cardinality(unknownAddr) + Cardinality(coverageCache)
       IN  IF lastMaxCoverage < total
             THEN /\ lastMaxCoverage' = total
                  /\ coverageHistory' = Append(coverageHistory, total)
             ELSE UNCHANGED <<lastMaxCoverage, coverageHistory>>
    /\ IF unknownAddr = {}
         THEN Return(FALSE)
         ELSE cmPc' = "resolving" /\ UNCHANGED <<coverageLock, failed>>
    /\ UNCHANGED <<coverageCache, coverageInfoMap, cov, unknownAddr>>

\* addressToLineFunction: main.go writes all of the input to the pipe before it
\* starts the process that would read it, so an input that does not fit blocks
\* for good.  addr2line itself may fail.
Resolve ==
    /\ cmPc = "resolving"
    /\ Cardinality(unknownAddr) <= PipeCapacity
    /\ \/ cmPc' = "recording" /\ UNCHANGED <<coverageLock, failed>>
       \/ Return(TRUE)
    /\ UNCHANGED <<cmData, cov, unknownAddr>>

\* Mistake: every address anew, known or not.
RecordLineAgain(a) ==
    /\ cmPc = "recording"
    /\ a \in unknownAddr
    /\ LineOf[a] # Unparsable
    /\ coverageCache' = coverageCache \cup {a}
    /\ coverageInfoMap' = [l \in Lines |-> coverageInfoMap[l]
                             + Cardinality({b \in cov : LineOf[b] = l})]
    /\ unknownAddr' = unknownAddr \ {a}
    /\ UNCHANGED <<coverageLock, coverageHistory, lastMaxCoverage, cmPc, cov, failed>>

\* One line of addr2line's answer: the cache and recordCoverageLine.  The order
\* is the order kcov reported the addresses in, which can be any.
RecordLine(a) ==
    /\ cmPc = "recording"
    /\ a \in unknownAddr
    /\ LineOf[a] # Unparsable
    /\ coverageCache' = coverageCache \cup {a}
    /\ coverageInfoMap' = [coverageInfoMap EXCEPT ![LineOf[a]] = @ + 1]
    /\ unknownAddr' = unknownAddr \ {a}
    /\ UNCHANGED <<coverageLock, coverageHistory, lastMaxCoverage, cmPc, cov, failed>>

\* Mistake: a line that cannot be parsed is skipped, and nobody is told.
RecordUnparsableSkip(a) ==
    /\ cmPc = "recording"
    /\ a \in unknownAddr
    /\ LineOf[a] = Unparsable
    /\ unknownAddr' = unknownAddr \ {a}
    /\ UNCHANGED <<coverageLock, cmData, cmPc, cov, failed>>

\* A line that cannot be parsed ends the call; the rest is not recorded.
RecordUnparsable(a) ==
    /\ cmPc = "recording"
    /\ a \in unknownAddr
    /\ LineOf[a] = Unparsable
    /\ Return(TRUE)
    /\ UNCHANGED <<cmData, cov, unknownAddr>>

RecordDone ==
    /\ cmPc = "recording"
    /\ unknownAddr = {}
    /\ Return(FALSE)
    /\ UNCHANGED <<cmData, cov, unknownAddr>>

\* The caller has looked at the error.
Collect ==
    /\ cmPc = "returned"
    /\ cmPc' = "idle"
    /\ cov' = {} /\ unknownAddr' = {}
    /\ UNCHANGED <<coverageLock, cmData, failed>>

--------------------------------------------------------------------------------
(* GetCoverageHistory *)

ReaderLock(r) ==
    /\ coverageLock = "none"
    /\ coverageLock' = r
    /\ UNCHANGED <<cmData, cmPc, cov, unknownAddr, failed>>

ReaderUnlock(r) ==
    /\ coverageLock = r
    /\ coverageLock' = "none"
    /\ UNCHANGED <<cmData, cmPc, cov, unknownAddr, failed>>

--------------------------------------------------------------------------------
\* The steps of a call after its start.
CallStep ==
    \/ LockAndFilter \/ CountCoverage \/ Resolve \/ RecordDone
    \/ \E a \in unknownAddr : RecordLine(a) \/ RecordUnparsable(a)

CmNext ==
    \/ \E c \in SUBSET Addrs : Call(c)
    \/ CallStep
    \/ Collect
    \/ \E r \in Readers : ReaderLock(r) \/ ReaderUnlock(r)

CmSpec == CmInit /\ [][CmNext]_cmVars

--------------------------------------------------------------------------------
(* Properties *)

\* Type invariant of the coverage manager.
CmTypeOK ==
    /\ coverageLock \in {"none", "worker"} \cup Readers
    /\ coverageCache \subseteq Addrs
    /\ coverageInfoMap \in [Lines -> Nat]
    /\ coverageHistory \in Seq(Nat)
    /\ lastMaxCoverage \in Nat
    /\ cmPc \in {"idle", "called", "counting", "resolving", "recording", "returned"}
    /\ cov \subseteq Addrs
    /\ unknownAddr \subseteq Addrs
    /\ failed \in BOOLEAN

\* A call that returned no error has resolved every address it was given
\* ("converts raw coverage hex addresses ..., it also caches the results").
ReturnsResolved == cmPc = "returned" /\ ~failed => cov \subseteq coverageCache

\* The per-file lists hold one entry for each address ever resolved, none twice
\* and none missing, even after calls that failed half way (recordCoverageLine).
InfoMatchesCache ==
    \A l \in Lines : coverageInfoMap[l] = Cardinality({a \in coverageCache : LineOf[a] = l})

\* The graph only rises, its last point is lastMaxCoverage, and the resolved
\* addresses never outnumber it (the history in ProcessCoverageAddresses).
HistoryRises ==
    /\ \A i, j \in 1 .. Len(coverageHistory) : i < j => coverageHistory[i] < coverageHistory[j]
    /\ lastMaxCoverage = IF coverageHistory = <<>> THEN 0 ELSE coverageHistory[Len(coverageHistory)]
    /\ Cardinality(coverageCache) <= lastMaxCoverage

================================================================================
