--------------------------------- MODULE Metrics ----------------------------------
(***************************************************************************)
(* The metrics unit (metrics_unit.go), the metrics collection               *)
(* (metrics_collection.go) and the handlers of the metrics server           *)
(* (metrics_server.go) around the coverage manager.  Three kinds of         *)
(* goroutines share them: main, which reports every program before and      *)
(* after the verifier sees it; the worker, validationResultProcessingRoutine*)
(* ; and one goroutine per HTTP request (Readers).                          *)
(*                                                                          *)
(* A critical section that neither blocks nor takes a second lock is one    *)
(* step, enabled while the lock is free (all of validationMutex's are);     *)
(* the others hold the lock from one step to a later one.  An iteration or  *)
(* a write of a Go map lasts from one step to the next, and if the two      *)
(* overlap on one map the runtime may end the process.                      *)
(*                                                                          *)
(* A verifier log is represented by the program it is about; its verdict,   *)
(* the second to last line, by a member of Verdicts.                        *)
(***************************************************************************)
EXTENDS CoverageManager

CONSTANTS SamplingThreshold,
          Verdicts,           \* the verifier's last words
          MaxPrograms         \* bound: programs main sends to the verifier

ASSUME ThresholdAssumption   == SamplingThreshold \in Nat \ {0}
ASSUME MaxProgramsAssumption == MaxPrograms \in Nat

NoLog == "empty"
ASSUME VerdictsAssumption    == NoLog \notin Verdicts

Results == [program : 1 .. MaxPrograms, valid : BOOLEAN,
            log : Verdicts \cup {NoLog}, cov : SUBSET Addrs]

\* The empty hand of main and of the worker.
NoResult == [program |-> 0, valid |-> FALSE, log |-> NoLog, cov |-> {}]

VARIABLES
    metricsLock,            \* its holder, or "none"
    programsVerified, validPrograms,
    latestVerifierLog,      \* the program whose log it is, 0 at first
    verifierVerdicts,
    isKCovSupported,
    validationResultQueue,
    mainPc, wanted,         \* main: where it is; ShouldGetCoverage's answer
    vr,                     \* main: the validation result in its hands
    wPc, vres,              \* worker: where it is; the result it took
    hPc,                    \* handlers: where each is
    rejected,               \* history: invalid programs with a log, per verdict
    alive                   \* the process has not been ended by the runtime

collVars == <<programsVerified, validPrograms, latestVerifierLog, verifierVerdicts>>
mainVars == <<mainPc, wanted, vr, rejected>>
mvars == <<cmVars, metricsLock, collVars, isKCovSupported, validationResultQueue,
           mainVars, wPc, vres, hPc, alive>>

Init ==
    /\ CmInit
    /\ metricsLock = "none"
    /\ programsVerified = 0 /\ validPrograms = 0
    /\ latestVerifierLog = 0
    /\ verifierVerdicts = [v \in Verdicts |-> 0]
    /\ isKCovSupported \in BOOLEAN       \* init(): is /sys/kernel/debug/kcov there
    /\ validationResultQueue = <<>>
    /\ mainPc = "idle" /\ wanted = FALSE /\ vr = NoResult
    /\ wPc = "idle" /\ vres = NoResult
    /\ hPc = [h \in Readers |-> "idle"]
    /\ rejected = [v \in Verdicts |-> 0]
    /\ alive = TRUE

--------------------------------------------------------------------------------
\* Every step but the last one: the process goes on.
Running == alive /\ alive' = TRUE

(* main: ValidateEbpfProgram and ValidateCbpfProgram call ShouldGetCoverage,
   load the program, and call RecordVerificationResults. *)

RecordVerifiedProgram ==
    /\ Running
    /\ mainPc = "idle"
    /\ programsVerified < MaxPrograms
    /\ metricsLock = "none"
    /\ programsVerified' = programsVerified + 1
    /\ mainPc' = "sample"
    /\ UNCHANGED <<cmVars, metricsLock, validPrograms, latestVerifierLog, verifierVerdicts,
                   isKCovSupported, validationResultQueue, wanted, vr, rejected, wPc, vres,
                   hPc>>

\* Mistake: counting the programs before this one.
ShouldGetCoverageOffByOne ==
    /\ Running
    /\ mainPc = "sample"
    /\ isKCovSupported => metricsLock = "none"
    /\ wanted' = (isKCovSupported /\ (programsVerified - 1) % SamplingThreshold = 0)
    /\ mainPc' = "load"
    /\ UNCHANGED <<cmVars, metricsLock, collVars, isKCovSupported, validationResultQueue,
                   vr, rejected, wPc, vres, hPc>>

\* The rest of ShouldGetCoverage: getProgramsVerified, in a second critical
\* section.
ShouldGetCoverage ==
    /\ Running
    /\ mainPc = "sample"
    /\ isKCovSupported => metricsLock = "none"
    /\ wanted' = (isKCovSupported /\ programsVerified % SamplingThreshold = 0)
    /\ mainPc' = "load"
    /\ UNCHANGED <<cmVars, metricsLock, collVars, isKCovSupported, validationResultQueue,
                   vr, rejected, wPc, vres, hPc>>

\* The verifier's answer, with coverage at most if it was asked for; or a
\* result that cannot be decoded, which is never recorded.
LoadProgram ==
    /\ Running
    /\ mainPc = "load"
    /\ \/ /\ vr' \in {r \in Results : r.program = programsVerified /\ (r.cov # {} => wanted)}
          /\ mainPc' = IF vr'.valid THEN "recordValid" ELSE "enqueue"
       \/ vr' = vr /\ mainPc' = "idle"
    /\ UNCHANGED <<cmVars, metricsLock, collVars, isKCovSupported, validationResultQueue,
                   wanted, rejected, wPc, vres, hPc>>

RecordValidProgram ==
    /\ Running
    /\ mainPc = "recordValid"
    /\ metricsLock = "none"
    /\ validPrograms' = validPrograms + 1
    /\ mainPc' = "enqueue"
    /\ UNCHANGED <<cmVars, metricsLock, programsVerified, latestVerifierLog, verifierVerdicts,
                   isKCovSupported, validationResultQueue, wanted, vr, rejected, wPc, vres,
                   hPc>>

\* A verdict that processVerifierLog will count.
IsRejection(r, v) == ~r.valid /\ r.log = v

\* Mistake: clearing the result before it is appended.
EnqueueCleared ==
    /\ Running
    /\ mainPc = "enqueue"
    /\ validationResultQueue' = Append(validationResultQueue, NoResult)
    /\ vr' = NoResult
    /\ mainPc' = "idle"
    /\ UNCHANGED <<cmVars, metricsLock, collVars, isKCovSupported, wanted, rejected, wPc, vres,
                   hPc>>

\* enqueueValidationResult: every result, sampled or not.  (The comment on
\* SamplingThreshold says that logs are collected of every 100th program.)
Enqueue ==
    /\ Running
    /\ mainPc = "enqueue"
    /\ validationResultQueue' = Append(validationResultQueue, vr)
    /\ rejected' = [v \in Verdicts |-> IF IsRejection(vr, v) THEN rejected[v] + 1 ELSE rejected[v]]
    /\ vr' = NoResult
    /\ mainPc' = "idle"
    /\ UNCHANGED <<cmVars, metricsLock, collVars, isKCovSupported, wanted, wPc, vres, hPc>>

--------------------------------------------------------------------------------
(* The worker: validationResultProcessingRoutine.  With an empty queue it
   sleeps and looks again, which changes nothing. *)

workerFrame == <<isKCovSupported, programsVerified, validPrograms, mainVars, hPc>>

\* Mistake: serving the newest result first.
DequeueNewest ==
    /\ Running
    /\ wPc = "idle"
    /\ validationResultQueue # <<>>
    /\ LET n == Len(validationResultQueue)
       IN  /\ vres' = validationResultQueue[n]
           /\ validationResultQueue' = SubSeq(validationResultQueue, 1, n - 1)
    /\ Call(vres'.cov)
    /\ wPc' = "coverage"
    /\ UNCHANGED <<workerFrame, metricsLock, latestVerifierLog, verifierVerdicts>>

\* dequeueValidationResult, and the call of ProcessCoverageAddresses.
Dequeue ==
    /\ Running
    /\ wPc = "idle"
    /\ validationResultQueue # <<>>
    /\ vres' = Head(validationResultQueue)
    /\ validationResultQueue' = Tail(validationResultQueue)
    /\ Call(vres'.cov)
    /\ wPc' = "coverage"
    /\ UNCHANGED <<workerFrame, metricsLock, latestVerifierLog, verifierVerdicts>>

RefineCoverage ==
    /\ Running
    /\ CallStep
    /\ UNCHANGED <<workerFrame, metricsLock, latestVerifierLog, verifierVerdicts,
                   validationResultQueue, wPc, vres>>

\* Mistake: leaving the routine on an error.
CoverageDoneStops ==
    /\ Running
    /\ Collect
    /\ wPc' = IF failed THEN "stopped" ELSE "log"
    /\ UNCHANGED <<workerFrame, metricsLock, latestVerifierLog, verifierVerdicts,
                   validationResultQueue, vres>>

\* An error of ProcessCoverageAddresses is printed, and the log is processed
\* all the same.
CoverageDone ==
    /\ Running
    /\ Collect
    /\ wPc' = "log"
    /\ UNCHANGED <<workerFrame, metricsLock, latestVerifierLog, verifierVerdicts,
                   validationResultQueue, vres>>

LockForLog ==
    /\ Running
    /\ wPc = "log"
    /\ metricsLock = "none"
    /\ metricsLock' = "worker"
    /\ wPc' = "writeLog"
    /\ UNCHANGED <<workerFrame, cmVars, latestVerifierLog, verifierVerdicts,
                   validationResultQueue, vres>>

\* Mistake: counting the verdict of every program that has a log.
ProcessVerifierLogAll ==
    /\ Running
    /\ wPc = "writeLog"
    /\ latestVerifierLog' = vres.program
    /\ verifierVerdicts' = [v \in Verdicts |->
           IF vres.log = v THEN verifierVerdicts[v] + 1 ELSE verifierVerdicts[v]]
    /\ metricsLock' = "none"
    /\ wPc' = "idle" /\ vres' = NoResult
    /\ UNCHANGED <<workerFrame, cmVars, validationResultQueue>>

\* processVerifierLog: an empty log is ignored, a valid program has no verdict.
ProcessVerifierLog ==
    /\ Running
    /\ wPc = "writeLog"
    /\ latestVerifierLog' = IF vres.log = NoLog THEN latestVerifierLog ELSE vres.program
    /\ verifierVerdicts' = [v \in Verdicts |->
           IF IsRejection(vres, v) THEN verifierVerdicts[v] + 1 ELSE verifierVerdicts[v]]
    /\ metricsLock' = "none"
    /\ wPc' = "idle" /\ vres' = NoResult
    /\ UNCHANGED <<workerFrame, cmVars, validationResultQueue>>

--------------------------------------------------------------------------------
(* The handlers.  handleLatestLog copies one string under the lock and has   *)
(* no step of its own.                                                       *)

handlerFrame == <<collVars, isKCovSupported, validationResultQueue, mainVars, wPc, vres>>

Move(h, from, to) == hPc[h] = from /\ hPc' = [hPc EXCEPT ![h] = to]

\* handleIndex and handleFileCoverage: getMetrics iterates coverageInfoMap under
\* metricsLock, which is not the lock the worker writes it under.
GetMetrics(h) ==
    /\ Running
    /\ Move(h, "idle", "readInfo")
    /\ metricsLock = "none" /\ metricsLock' = h
    /\ UNCHANGED <<handlerFrame, cmVars>>

GetMetricsDone(h) ==
    /\ Running
    /\ Move(h, "readInfo", "idle")
    /\ metricsLock' = "none"
    /\ UNCHANGED <<handlerFrame, cmVars>>

\* handleVerifierErrors: getVerifierVerdicts hands out the map itself.
GetVerifierVerdicts(h) ==
    /\ Running
    /\ Move(h, "idle", "readVerdicts")
    /\ metricsLock = "none"
    /\ UNCHANGED <<handlerFrame, cmVars, metricsLock>>

\* handleCoverageGraph: getCoverageHistory takes coverageLock inside metricsLock ...
GetCoverageHistory(h) ==
    /\ Running
    /\ Move(h, "idle", "wantHistory")
    /\ metricsLock = "none" /\ metricsLock' = h
    /\ UNCHANGED <<handlerFrame, cmVars>>

LockHistory(h) ==
    /\ Running
    /\ Move(h, "wantHistory", "haveHistory")
    /\ ReaderLock(h)
    /\ UNCHANGED <<handlerFrame, metricsLock>>

\* Mistake: returning without the outer unlock.
ReleaseHistoryHalf(h) ==
    /\ Running
    /\ Move(h, "haveHistory", "readHistory")
    /\ ReaderUnlock(h)
    /\ UNCHANGED <<handlerFrame, metricsLock>>

\* ... and returns the map itself.
ReleaseHistory(h) ==
    /\ Running
    /\ Move(h, "haveHistory", "readHistory")
    /\ ReaderUnlock(h)
    /\ metricsLock' = "none"
    /\ UNCHANGED handlerFrame

\* The iteration over a map that was handed out ends.
RenderDone(h) ==
    /\ Running
    /\ \/ Move(h, "readVerdicts", "idle")
       \/ Move(h, "readHistory", "idle")
    /\ UNCHANGED <<handlerFrame, cmVars, metricsLock>>

--------------------------------------------------------------------------------
(* Overlapping accesses to one map. *)

\* What the worker is writing.
WritesInfo    == cmPc = "recording" /\ \E a \in unknownAddr : LineOf[a] # Unparsable
WritesHistory == cmPc = "counting"
                 /\ lastMaxCoverage < Cardinality(unknownAddr) + Cardinality(coverageCache)
WritesVerdict == wPc = "writeLog" /\ ~vres.valid /\ vres.log # NoLog

Overlap(h) ==
    \/ hPc[h] = "readInfo" /\ WritesInfo
    \/ hPc[h] = "readHistory" /\ WritesHistory
    \/ hPc[h] = "readVerdicts" /\ WritesVerdict

\* "fatal error: concurrent map iteration and map write"; it can also go well.
FatalRace ==
    /\ alive
    /\ \E h \in Readers : Overlap(h)
    /\ alive' = FALSE
    /\ UNCHANGED <<cmVars, metricsLock, collVars, isKCovSupported, validationResultQueue,
                   mainVars, wPc, vres, hPc>>

--------------------------------------------------------------------------------

Main == \/ RecordVerifiedProgram \/ ShouldGetCoverage \/ LoadProgram
        \/ RecordValidProgram \/ Enqueue

Worker == Dequeue \/ RefineCoverage \/ CoverageDone \/ LockForLog \/ ProcessVerifierLog

Request(h) == GetMetrics(h) \/ GetVerifierVerdicts(h) \/ GetCoverageHistory(h)
Serve(h) == GetMetricsDone(h) \/ LockHistory(h) \/ ReleaseHistory(h) \/ RenderDone(h)

Exited == ~alive /\ UNCHANGED mvars

Next ==
    \/ Main
    \/ Worker
    \/ \E h \in Readers : Request(h) \/ Serve(h)
    \/ FatalRace
    \/ Exited

Spec == Init /\ [][Next]_mvars

\* Go's mutexes hand the lock over to a goroutine that has waited for a
\* millisecond, so a goroutine that keeps finding it free now and then gets it:
\* strong fairness.  Requests need not come, but one that is being served goes on.
Fairness ==
    /\ SF_mvars(Main)
    /\ SF_mvars(Worker)
    /\ \A h \in Readers : SF_mvars(Serve(h))

FairSpec == Spec /\ Fairness

--------------------------------------------------------------------------------
(* Properties *)

\* Type invariant of the metrics unit, with the coverage manager's.
TypeOK ==
    /\ CmTypeOK
    /\ metricsLock \in {"none", "worker"} \cup Readers
    /\ programsVerified \in 0 .. MaxPrograms
    /\ validPrograms \in Nat
    /\ latestVerifierLog \in 0 .. MaxPrograms
    /\ verifierVerdicts \in [Verdicts -> Nat]
    /\ isKCovSupported \in BOOLEAN
    /\ validationResultQueue \in Seq(Results)
    /\ mainPc \in {"idle", "sample", "load", "recordValid", "enqueue"}
    /\ wanted \in BOOLEAN
    /\ vr \in Results \cup {NoResult}
    /\ wPc \in {"idle", "coverage", "log", "writeLog"}
    /\ vres \in Results \cup {NoResult}
    /\ hPc \in [Readers -> {"idle", "readInfo", "readVerdicts", "wantHistory",
                             "haveHistory", "readHistory"}]
    /\ rejected \in [Verdicts -> Nat]
    /\ alive \in BOOLEAN

\* Every rejection main has put into the queue is, for each verdict, counted once,
\* or still on its way there or in the worker's hands: none is lost, none counted
\* twice, whatever the coverage manager's outcome was (processVerifierLog).  Which
\* programs main puts there is not its subject: all of them, where the comment on
\* SamplingThreshold promises the sampled ones.
VerdictsAddUp ==
    \A v \in Verdicts :
        rejected[v] = verifierVerdicts[v]
                      + Cardinality({i \in 1 .. Len(validationResultQueue) :
                                        IsRejection(validationResultQueue[i], v)})
                      + (IF IsRejection(vres, v) THEN 1 ELSE 0)

\* Coverage is collected for every SamplingThreshold-th program, for no other
\* one, and only where kcov exists (ShouldGetCoverage reads the counter in a
\* second critical section).
SamplesEveryThreshold ==
    /\ mainPc = "load" =>
           (wanted <=> isKCovSupported /\ programsVerified % SamplingThreshold = 0)
    /\ \A r \in {vr, vres} \cup {validationResultQueue[i] : i \in 1 .. Len(validationResultQueue)} :
           r.cov # {} => isKCovSupported /\ r.program % SamplingThreshold = 0

\* The locks are held by whom the code says and nested one way only: a handler
\* that has coverageLock has metricsLock, and the worker, which may be waiting
\* for metricsLock, never has coverageLock then.
LocksNest ==
    /\ \A h \in Readers : /\ metricsLock = h <=> hPc[h] \in {"readInfo", "wantHistory", "haveHistory"}
                          /\ coverageLock = h <=> hPc[h] = "haveHistory"
    /\ metricsLock = "worker" <=> wPc = "writeLog"
    /\ coverageLock = "worker" => wPc = "coverage"

\* The latest-log page never goes back to an older program's log.
LogsInOrder == [][latestVerifierLog' >= latestVerifierLog]_mvars

\* Reporting to the metrics unit never holds the fuzzer up for good: main always
\* gets through ShouldGetCoverage and RecordVerificationResults.
FuzzerNotHeldUp == (mainPc # "idle") ~> (mainPc = "idle" \/ ~alive)

\* Every reported result is processed: none stays in the queue or in the
\* worker's hands (enqueueValidationResult to processVerifierLog).
InFlight(n) ==
    \/ vres.program = n
    \/ \E i \in 1 .. Len(validationResultQueue) : validationResultQueue[i].program = n

ResultsProcessed == \A n \in 1 .. MaxPrograms : InFlight(n) ~> (~InFlight(n) \/ ~alive)

\* "provides a way to access them in a thread safe manner": no map of the
\* collection is iterated while the worker writes it.
ThreadSafe == \A h \in Readers : ~Overlap(h)

================================================================================
