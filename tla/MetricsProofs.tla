------------------------------ MODULE MetricsProofs -------------------------------
(***************************************************************************)
(* The metrics unit is right for every number of programs, verdicts and     *)
(* HTTP handlers, every sampling threshold and every interleaving of main,  *)
(* the worker and the handlers; and the coverage manager keeps its promises *)
(* inside of it.                                                            *)
(***************************************************************************)
EXTENDS Metrics, CoverageManagerProofs

\* Main holds a result from the load to the queue and the worker from the queue
\* to the log, and otherwise neither holds anything.
HandsHold ==
    /\ IF mainPc \in {"recordValid", "enqueue"}
         THEN vr \in Results /\ vr.program = programsVerified
         ELSE vr = NoResult
    /\ IF wPc = "idle" THEN vres = NoResult ELSE vres \in Results

\* The coverage manager is in a call just as long as the worker waits for it,
\* and it has coverageLock from the search for unknown addresses to the return.
CallNests ==
    /\ wPc = "coverage" <=> cmPc # "idle"
    /\ coverageLock = "worker" <=> cmPc \in {"counting", "resolving", "recording"}

\* The last program main is done with.
Reported == IF mainPc = "idle" THEN programsVerified ELSE programsVerified - 1

\* Log, worker and queue are one ascending sequence of programs that main is
\* done with.
Ascending ==
    /\ latestVerifierLog <= Reported
    /\ vres.program <= Reported
    /\ wPc # "idle" => latestVerifierLog < vres.program
    /\ \A i \in 1 .. Len(validationResultQueue) :
           /\ latestVerifierLog < validationResultQueue[i].program
           /\ vres.program < validationResultQueue[i].program
           /\ validationResultQueue[i].program <= Reported
    /\ \A i, j \in 1 .. Len(validationResultQueue) :
           i < j => validationResultQueue[i].program < validationResultQueue[j].program

MInv == TypeOK /\ HandsHold /\ LocksNest /\ CallNests /\ SamplesEveryThreshold
        /\ VerdictsAddUp /\ Ascending

--------------------------------------------------------------------------------
(* The coverage manager inside the metrics unit *)

\* What main, the worker and the queue hand on are results the verifier gave.
LEMMA ResultFields ==
    ASSUME NEW r \in Results
    PROVE  /\ r.program \in 1 .. MaxPrograms
           /\ r.valid \in BOOLEAN
           /\ r.log \in Verdicts \cup {NoLog}
           /\ r.cov \subseteq Addrs
BY DEF Results

\* The queue's first result is one, and the others stay in place.
LEMMA TailOfResults ==
    ASSUME NEW q \in Seq(Results), q # <<>>
    PROVE  /\ Len(q) \in Nat /\ Len(q) >= 1
           /\ Head(q) = q[1] /\ Head(q) \in Results
           /\ Tail(q) \in Seq(Results)
           /\ Len(Tail(q)) = Len(q) - 1
           /\ \A i \in 1 .. Len(Tail(q)) : Tail(q)[i] = q[i + 1]
OBVIOUS

\* A result is appended behind the others.
LEMMA AppendResult ==
    ASSUME NEW q \in Seq(Results), NEW r \in Results
    PROVE  /\ Append(q, r) \in Seq(Results)
           /\ Len(q) \in Nat
           /\ Len(Append(q, r)) = Len(q) + 1
           /\ Append(q, r)[Len(q) + 1] = r
           /\ \A i \in 1 .. Len(q) : Append(q, r)[i] = q[i]
OBVIOUS

\* Every step of the metrics unit is a step of the coverage manager or leaves it
\* alone.
LEMMA CmSimulates == TypeOK /\ [Next]_mvars => [CmNext]_cmVars
<1> SUFFICES ASSUME TypeOK, [Next]_mvars PROVE [CmNext]_cmVars
    OBVIOUS
<1>1. CASE Dequeue
    <2>1. Head(validationResultQueue) \in Results
        BY <1>1, TailOfResults DEF Dequeue, TypeOK
    <2>2. vres'.cov \in SUBSET Addrs
        BY <1>1, <2>1, ResultFields DEF Dequeue
    <2> QED
        BY <1>1, <2>2 DEF Dequeue, CmNext
<1>2. CASE RefineCoverage \/ CoverageDone
    BY <1>2 DEF RefineCoverage, CoverageDone, CmNext
<1>3. ASSUME NEW h \in Readers, LockHistory(h) \/ ReleaseHistory(h) PROVE [CmNext]_cmVars
    BY <1>3 DEF LockHistory, ReleaseHistory, CmNext
<1>4. CASE UNCHANGED cmVars
    BY <1>4
<1>5. \/ Dequeue \/ RefineCoverage \/ CoverageDone
      \/ \E h \in Readers : LockHistory(h) \/ ReleaseHistory(h)
      \/ UNCHANGED cmVars
    BY DEF Next, Main, Worker, Request, Serve, mvars, RecordVerifiedProgram,
           ShouldGetCoverage, LoadProgram, RecordValidProgram, Enqueue, LockForLog,
           ProcessVerifierLog, GetMetrics, GetMetricsDone, GetVerifierVerdicts,
           GetCoverageHistory, RenderDone, FatalRace, Exited
<1> QED
    BY <1>1, <1>2, <1>3, <1>4, <1>5

--------------------------------------------------------------------------------
(* The parts of MInv, each preserved by every step. *)

\* An empty hand is no result.
LEMMA NoResultFields ==
    /\ NoResult \notin Results
    /\ NoResult.program = 0 /\ NoResult.log = NoLog /\ NoResult.cov = {}
    /\ NoResult.valid = FALSE
BY MaxProgramsAssumption DEF NoResult, Results

\* Types, and who holds what.
LEMMA MTypeStep ==
    TypeOK /\ HandsHold /\ CallNests /\ [Next]_mvars => TypeOK' /\ HandsHold'
<1> SUFFICES ASSUME TypeOK, HandsHold, CallNests, [Next]_mvars PROVE TypeOK' /\ HandsHold'
    OBVIOUS
<1>0. CmTypeOK'
    BY CmSimulates, TypeStep DEF TypeOK
<1> USE <1>0, MaxProgramsAssumption DEF TypeOK, HandsHold, Running, collVars, mainVars
<1>1. CASE RecordVerifiedProgram
    BY <1>1 DEF RecordVerifiedProgram
<1>2. CASE ShouldGetCoverage
    BY <1>2 DEF ShouldGetCoverage
<1>3. CASE LoadProgram
    <2>1. CASE vr' = vr /\ mainPc' = "idle"
        BY <1>3, <2>1 DEF LoadProgram
    <2>2. CASE /\ vr' \in {r \in Results : r.program = programsVerified /\ (r.cov # {} => wanted)}
               /\ mainPc' = IF vr'.valid THEN "recordValid" ELSE "enqueue"
        BY <1>3, <2>2 DEF LoadProgram
    <2> QED
        BY <1>3, <2>1, <2>2 DEF LoadProgram
<1>4. CASE RecordValidProgram
    BY <1>4 DEF RecordValidProgram
<1>5. CASE Enqueue
    <2>1. validationResultQueue' \in Seq(Results)
        BY <1>5, AppendResult DEF Enqueue
    <2>2. rejected' \in [Verdicts -> Nat]
        BY <1>5 DEF Enqueue
    <2> QED
        BY <1>5, <2>1, <2>2 DEF Enqueue
<1>6. CASE Dequeue
    <2>1. validationResultQueue' \in Seq(Results) /\ vres' \in Results
        BY <1>6, TailOfResults DEF Dequeue
    <2> QED
        BY <1>6, <2>1 DEF Dequeue, workerFrame
<1>7. CASE RefineCoverage
    BY <1>7 DEF RefineCoverage, workerFrame
<1>8. CASE CoverageDone
    BY <1>8 DEF CoverageDone, Collect, CallNests, workerFrame
<1>9. CASE LockForLog
    BY <1>9 DEF LockForLog, workerFrame
<1>10. CASE ProcessVerifierLog
    <2>1. verifierVerdicts' \in [Verdicts -> Nat]
        BY <1>10 DEF ProcessVerifierLog
    <2>2. vres \in Results /\ vres.program \in 0 .. MaxPrograms
        BY <1>10, ResultFields DEF ProcessVerifierLog
    <2>3. latestVerifierLog' \in 0 .. MaxPrograms
        BY <1>10, <2>2 DEF ProcessVerifierLog
    <2> QED
        BY <1>10, <2>1, <2>3 DEF ProcessVerifierLog, workerFrame
<1>11. ASSUME NEW h \in Readers, Request(h) \/ Serve(h) PROVE TypeOK' /\ HandsHold'
    <2>1. hPc' \in [Readers -> {"idle", "readInfo", "readVerdicts", "wantHistory",
                                "haveHistory", "readHistory"}]
        BY <1>11 DEF Request, Serve, GetMetrics, GetMetricsDone, GetVerifierVerdicts,
               GetCoverageHistory, LockHistory, ReleaseHistory, RenderDone, Move
    <2>2. /\ metricsLock' \in {"none", "worker"} \cup Readers
          /\ alive' \in BOOLEAN
          /\ UNCHANGED handlerFrame
        BY <1>11 DEF Request, Serve, GetMetrics, GetMetricsDone, GetVerifierVerdicts,
               GetCoverageHistory, LockHistory, ReleaseHistory, RenderDone
    <2> QED
        BY <2>1, <2>2 DEF handlerFrame
<1>12. CASE FatalRace
    BY <1>12 DEF FatalRace
<1>13. CASE UNCHANGED mvars
    BY <1>13 DEF mvars
<1> QED
    BY <1>1, <1>2, <1>3, <1>4, <1>5, <1>6, <1>7, <1>8, <1>9, <1>10, <1>11, <1>12, <1>13
       DEF Next, Main, Worker, Exited

\* Locks and program counters change together.
LEMMA LocksStep ==
    TypeOK /\ LocksNest /\ CallNests /\ [Next]_mvars => LocksNest' /\ CallNests'
<1> SUFFICES ASSUME TypeOK, LocksNest, CallNests, [Next]_mvars PROVE LocksNest' /\ CallNests'
    OBVIOUS
<1> USE ReadersAssumption DEF TypeOK, LocksNest, CallNests, cmVars, cmData
<1>1. CASE Main
    BY <1>1 DEF Main, RecordVerifiedProgram, ShouldGetCoverage, LoadProgram,
                RecordValidProgram, Enqueue
<1>2. CASE Dequeue
    BY <1>2 DEF Dequeue, Call, workerFrame
<1>3. CASE RefineCoverage
    <2>1. CallNests' /\ cmPc # "idle" /\ cmPc' # "idle"
          /\ coverageLock \notin Readers /\ coverageLock' \in {"none", "worker"}
          /\ UNCHANGED <<wPc, metricsLock, hPc>>
        BY <1>3 DEF RefineCoverage, CallStep, LockAndFilter, CountCoverage, Resolve,
                    RecordDone, RecordLine, RecordUnparsable, Return, workerFrame
    <2> QED
        BY <2>1
<1>4. CASE CoverageDone
    BY <1>4 DEF CoverageDone, Collect, workerFrame
<1>5. CASE LockForLog
    BY <1>5 DEF LockForLog, workerFrame
<1>6. CASE ProcessVerifierLog
    BY <1>6 DEF ProcessVerifierLog, workerFrame
<1>7. ASSUME NEW h \in Readers, Request(h) \/ Serve(h) PROVE LocksNest' /\ CallNests'
    <2> USE <1>7 DEF Move, handlerFrame
    <2>1. CASE GetMetrics(h)
        BY <2>1 DEF GetMetrics
    <2>2. CASE GetMetricsDone(h)
        BY <2>2 DEF GetMetricsDone
    <2>3. CASE GetVerifierVerdicts(h)
        BY <2>3 DEF GetVerifierVerdicts
    <2>4. CASE GetCoverageHistory(h)
        BY <2>4 DEF GetCoverageHistory
    <2>5. CASE LockHistory(h)
        BY <2>5 DEF LockHistory, ReaderLock
    <2>6. CASE ReleaseHistory(h)
        BY <2>6 DEF ReleaseHistory, ReaderUnlock
    <2>7. CASE RenderDone(h)
        BY <2>7 DEF RenderDone
    <2> QED
        BY <1>7, <2>1, <2>2, <2>3, <2>4, <2>5, <2>6, <2>7 DEF Request, Serve
<1>8. CASE FatalRace
    BY <1>8 DEF FatalRace
<1>9. CASE UNCHANGED mvars
    BY <1>9 DEF mvars
<1> QED
    BY <1>1, <1>2, <1>3, <1>4, <1>5, <1>6, <1>7, <1>8, <1>9 DEF Next, Worker, Exited

\* Only main and the worker move results and count them.
LEMMA StepKinds ==
    [Next]_mvars => \/ Main \/ Dequeue \/ CoverageDone \/ LockForLog \/ ProcessVerifierLog
                    \/ UNCHANGED handlerFrame
<1> SUFFICES ASSUME [Next]_mvars, ~Main, ~Dequeue, ~CoverageDone, ~LockForLog,
                    ~ProcessVerifierLog
             PROVE  UNCHANGED handlerFrame
    OBVIOUS
<1>1. CASE RefineCoverage
    BY <1>1 DEF RefineCoverage, workerFrame, handlerFrame, collVars
<1>2. ASSUME NEW h \in Readers, Request(h) \/ Serve(h) PROVE UNCHANGED handlerFrame
    BY <1>2 DEF Request, Serve, GetMetrics, GetMetricsDone, GetVerifierVerdicts,
           GetCoverageHistory, LockHistory, ReleaseHistory, RenderDone
<1>3. CASE FatalRace \/ UNCHANGED mvars
    BY <1>3 DEF FatalRace, mvars, handlerFrame
<1> QED
    BY <1>1, <1>2, <1>3 DEF Next, Worker, Exited

\* Coverage comes with the sampled programs only, wherever the result is.
LEMMA SamplesStep ==
    /\ TypeOK /\ HandsHold /\ SamplesEveryThreshold /\ [Next]_mvars
    => SamplesEveryThreshold'
<1> SUFFICES ASSUME TypeOK, HandsHold, SamplesEveryThreshold, [Next]_mvars
             PROVE  SamplesEveryThreshold'
    OBVIOUS
<1> DEFINE Sampled(r) == r.cov # {} => isKCovSupported /\ r.program % SamplingThreshold = 0
           Held == {vr, vres} \cup {validationResultQueue[i] : i \in 1 .. Len(validationResultQueue)}
<1>0. /\ mainPc = "load" =>
             (wanted <=> isKCovSupported /\ programsVerified % SamplingThreshold = 0)
      /\ \A r \in Held : Sampled(r)
      /\ Sampled(NoResult)
    BY NoResultFields DEF SamplesEveryThreshold
<1>1. ASSUME isKCovSupported' = isKCovSupported,
             \A r \in Held' : Sampled(r),
             mainPc' = "load" =>
                 (wanted' <=> isKCovSupported /\ programsVerified' % SamplingThreshold = 0)
      PROVE  SamplesEveryThreshold'
    BY <1>1 DEF SamplesEveryThreshold
<1> HIDE DEF Sampled
<1>2. CASE RecordVerifiedProgram \/ RecordValidProgram
    <2>1. UNCHANGED <<vr, vres, validationResultQueue, isKCovSupported>> /\ mainPc' # "load"
        BY <1>2 DEF RecordVerifiedProgram, RecordValidProgram
    <2> QED
        BY <1>0, <1>1, <2>1
<1>3. CASE ShouldGetCoverage
    <2>1. /\ UNCHANGED <<vr, vres, validationResultQueue, isKCovSupported, programsVerified>>
          /\ wanted' <=> isKCovSupported /\ programsVerified % SamplingThreshold = 0
        BY <1>3 DEF ShouldGetCoverage, collVars, TypeOK
    <2> QED
        BY <1>0, <1>1, <2>1
<1>4. CASE LoadProgram
    <2>1. UNCHANGED <<vres, validationResultQueue, isKCovSupported>> /\ mainPc' # "load"
        BY <1>4 DEF LoadProgram
    <2>2. Sampled(vr')
        BY <1>0, <1>4 DEF LoadProgram, Sampled, SamplesEveryThreshold
    <2>3. \A r \in Held' : r = vr' \/ r \in Held
        BY <2>1
    <2> QED
        BY <1>0, <1>1, <2>1, <2>2, <2>3
<1>5. CASE Enqueue
    <2>1. UNCHANGED <<vres, isKCovSupported>> /\ mainPc' # "load" /\ vr' = NoResult
        BY <1>5 DEF Enqueue
    <2>2. vr \in Results /\ validationResultQueue \in Seq(Results)
        BY <1>5 DEF Enqueue, HandsHold, TypeOK
    <2>3. \A r \in Held' : r = NoResult \/ r \in Held
        BY <1>5, <2>1, <2>2, AppendResult DEF Enqueue
    <2> QED
        BY <1>0, <1>1, <2>1, <2>3
<1>6. CASE Dequeue
    <2>1. UNCHANGED <<vr, isKCovSupported, mainPc, wanted, programsVerified>>
        BY <1>6 DEF Dequeue, workerFrame, mainVars
    <2>2. \A r \in Held' : r \in Held
        BY <1>6, <2>1, TailOfResults DEF Dequeue, TypeOK
    <2> QED
        BY <1>0, <1>1, <2>1, <2>2
<1>7. CASE CoverageDone \/ LockForLog
    <2>1. UNCHANGED <<vr, vres, validationResultQueue, isKCovSupported, mainPc, wanted,
                      programsVerified>>
        BY <1>7 DEF CoverageDone, LockForLog, workerFrame, mainVars
    <2> QED
        BY <1>0, <1>1, <2>1
<1>8. CASE ProcessVerifierLog
    <2>1. /\ UNCHANGED <<vr, validationResultQueue, isKCovSupported, mainPc, wanted,
                         programsVerified>>
          /\ vres' = NoResult
        BY <1>8 DEF ProcessVerifierLog, workerFrame, mainVars
    <2> QED
        BY <1>0, <1>1, <2>1
<1>9. CASE UNCHANGED handlerFrame
    <2>1. UNCHANGED <<vr, vres, validationResultQueue, isKCovSupported, mainPc, wanted,
                      programsVerified>>
        BY <1>9 DEF handlerFrame, mainVars, collVars
    <2> QED
        BY <1>0, <1>1, <2>1
<1> QED
    BY <1>2, <1>3, <1>4, <1>5, <1>6, <1>7, <1>8, <1>9, StepKinds DEF Main

\* A result joins the queue behind the older ones and leaves it first.
LEMMA AscendingStep ==
    TypeOK /\ HandsHold /\ CallNests /\ Ascending /\ [Next]_mvars => Ascending'
<1> SUFFICES ASSUME TypeOK, HandsHold, CallNests, Ascending, [Next]_mvars PROVE Ascending'
    OBVIOUS
<1>0. /\ programsVerified \in Nat /\ latestVerifierLog \in Nat
      /\ Reported \in Int /\ vres.program \in Nat
      /\ Len(validationResultQueue) \in Nat
      /\ \A i \in 1 .. Len(validationResultQueue) :
             validationResultQueue[i] \in Results /\ validationResultQueue[i].program \in Nat
    <2>1. vres.program \in Nat
        BY NoResultFields, ResultFields, MaxProgramsAssumption DEF TypeOK
    <2>2. \A i \in 1 .. Len(validationResultQueue) :
             validationResultQueue[i] \in Results /\ validationResultQueue[i].program \in Nat
        BY ResultFields, MaxProgramsAssumption DEF TypeOK
    <2> QED
        BY <2>1, <2>2, MaxProgramsAssumption DEF TypeOK, Reported
<1>1. CASE RecordVerifiedProgram
    <2>1. /\ Reported' = Reported
          /\ UNCHANGED <<latestVerifierLog, vres, wPc, validationResultQueue>>
        BY <1>0, <1>1 DEF RecordVerifiedProgram, Reported
    <2> QED
        BY <2>1 DEF Ascending
<1>2. CASE ShouldGetCoverage \/ LoadProgram \/ RecordValidProgram
    <2>1. /\ Reported' \in Int /\ Reported <= Reported'
          /\ UNCHANGED <<latestVerifierLog, vres, wPc, validationResultQueue>>
        BY <1>0, <1>2 DEF ShouldGetCoverage, LoadProgram, RecordValidProgram, Reported, collVars
    <2> QED
        BY <1>0, <2>1 DEF Ascending
<1>3. CASE Enqueue
    <2>1. /\ vr \in Results /\ vr.program = Reported'
          /\ Reported' \in Int /\ Reported < Reported'
          /\ UNCHANGED <<latestVerifierLog, vres, wPc>>
        BY <1>0, <1>3 DEF Enqueue, HandsHold, Reported, collVars
    <2>2. /\ Len(validationResultQueue') = Len(validationResultQueue) + 1
          /\ validationResultQueue'[Len(validationResultQueue) + 1] = vr
          /\ \A i \in 1 .. Len(validationResultQueue) :
                 validationResultQueue'[i] = validationResultQueue[i]
        BY <1>3, <2>1, AppendResult DEF Enqueue, TypeOK
    <2>3. \A i \in 1 .. Len(validationResultQueue') :
              i \in 1 .. Len(validationResultQueue) \/ i = Len(validationResultQueue) + 1
        BY <1>0, <2>2
    <2>4. \A i \in 1 .. Len(validationResultQueue') :
              /\ latestVerifierLog < validationResultQueue'[i].program
              /\ vres.program < validationResultQueue'[i].program
              /\ validationResultQueue'[i].program <= Reported'
        BY <1>0, <2>1, <2>2, <2>3 DEF Ascending
    <2>5. \A i, j \in 1 .. Len(validationResultQueue') :
              i < j => validationResultQueue'[i].program < validationResultQueue'[j].program
        BY <1>0, <2>1, <2>2, <2>3 DEF Ascending
    <2> QED
        BY <1>0, <2>1, <2>4, <2>5 DEF Ascending
<1>4. CASE Dequeue
    <2>1. /\ vres' = validationResultQueue[1] /\ 1 \in 1 .. Len(validationResultQueue)
          /\ Len(validationResultQueue') = Len(validationResultQueue) - 1
          /\ \A i \in 1 .. Len(validationResultQueue') :
                 validationResultQueue'[i] = validationResultQueue[i + 1]
        BY <1>4, TailOfResults DEF Dequeue, TypeOK
    <2>2. UNCHANGED <<latestVerifierLog, Reported>>
        BY <1>4 DEF Dequeue, workerFrame, mainVars, Reported
    <2>3. \A i \in 1 .. Len(validationResultQueue') :
              i + 1 \in 1 .. Len(validationResultQueue) /\ 1 < i + 1
        BY <1>0, <2>1
    <2>4. \A i \in 1 .. Len(validationResultQueue') :
              /\ latestVerifierLog < validationResultQueue'[i].program
              /\ vres'.program < validationResultQueue'[i].program
              /\ validationResultQueue'[i].program <= Reported
        BY <2>1, <2>3 DEF Ascending
    <2>5. \A i, j \in 1 .. Len(validationResultQueue') :
              i < j => validationResultQueue'[i].program < validationResultQueue'[j].program
        <3> SUFFICES ASSUME NEW i \in 1 .. Len(validationResultQueue'),
                            NEW j \in 1 .. Len(validationResultQueue'), i < j
                     PROVE  validationResultQueue'[i].program < validationResultQueue'[j].program
            OBVIOUS
        <3>1. i + 1 < j + 1
            OBVIOUS
        <3> QED
            BY <2>1, <2>3, <3>1 DEF Ascending
    <2>6. vres'.program <= Reported /\ latestVerifierLog < vres'.program
        BY <2>1 DEF Ascending
    <2> QED
        BY <2>2, <2>4, <2>5, <2>6 DEF Ascending
<1>5. CASE CoverageDone \/ LockForLog
    <2>1. /\ UNCHANGED <<latestVerifierLog, vres, validationResultQueue, Reported>>
          /\ wPc # "idle"
        BY <1>5 DEF CoverageDone, LockForLog, Collect, CallNests, workerFrame, mainVars, Reported
    <2> QED
        BY <2>1 DEF Ascending
<1>6. CASE ProcessVerifierLog
    <2>1. /\ UNCHANGED <<validationResultQueue, Reported>>
          /\ vres' = NoResult /\ wPc' = "idle" /\ wPc # "idle"
          /\ latestVerifierLog' \in {latestVerifierLog, vres.program}
        BY <1>6 DEF ProcessVerifierLog, workerFrame, mainVars, Reported
    <2>2. vres'.program = 0
        BY <2>1, NoResultFields
    <2>3. vres'.program <= vres.program
        BY <1>0, <2>2
    <2> QED
        BY <1>0, <2>1, <2>2, <2>3 DEF Ascending
<1>7. CASE UNCHANGED handlerFrame
    <2>1. UNCHANGED <<latestVerifierLog, vres, wPc, validationResultQueue, Reported>>
        BY <1>7 DEF handlerFrame, mainVars, collVars, Reported
    <2> QED
        BY <2>1 DEF Ascending
<1> QED
    BY <1>1, <1>2, <1>3, <1>4, <1>5, <1>6, <1>7, StepKinds DEF Main

--------------------------------------------------------------------------------
(* Counting rejections in the queue *)

Rejections(q, v) == {i \in 1 .. Len(q) : IsRejection(q[i], v)}

\* The rejections of a queue are finitely many.
LEMMA RejectionsFinite ==
    ASSUME NEW q \in Seq(Results), NEW v
    PROVE  IsFiniteSet(Rejections(q, v)) /\ Cardinality(Rejections(q, v)) \in Nat
<1>1. IsFiniteSet(1 .. Len(q))
    BY FS_Interval
<1>2. Rejections(q, v) \in SUBSET (1 .. Len(q))
    BY DEF Rejections
<1> QED
    BY <1>1, <1>2, FS_Subset, FS_CardinalityType

\* A result that joins the queue adds itself.
LEMMA RejectionsAppend ==
    ASSUME NEW q \in Seq(Results), NEW r \in Results, NEW v
    PROVE  Cardinality(Rejections(Append(q, r), v))
              = Cardinality(Rejections(q, v)) + (IF IsRejection(r, v) THEN 1 ELSE 0)
<1> DEFINE n == Len(q) + 1
<1>1. /\ n \notin Rejections(q, v)
      /\ Rejections(Append(q, r), v)
           = IF IsRejection(r, v) THEN Rejections(q, v) \cup {n} ELSE Rejections(q, v)
    <2>1. /\ Len(q) \in Nat /\ Len(Append(q, r)) = n /\ Append(q, r)[n] = r
          /\ \A i \in 1 .. Len(q) : Append(q, r)[i] = q[i]
          /\ 1 .. n = (1 .. Len(q)) \cup {n} /\ n \notin 1 .. Len(q)
        BY AppendResult
    <2> QED
        BY <2>1 DEF Rejections
<1>2. Cardinality(Rejections(q, v) \cup {n}) = Cardinality(Rejections(q, v)) + 1
    BY <1>1, RejectionsFinite, FS_AddElement
<1> QED
    BY <1>1, <1>2, RejectionsFinite

\* A result that leaves the queue takes itself away.
LEMMA RejectionsTail ==
    ASSUME NEW q \in Seq(Results), q # <<>>, NEW v
    PROVE  Cardinality(Rejections(q, v))
              = Cardinality(Rejections(Tail(q), v)) + (IF IsRejection(Head(q), v) THEN 1 ELSE 0)
<1> DEFINE t == Rejections(Tail(q), v)
           later == Rejections(q, v) \ {1}
           shift == [i \in t |-> i + 1]
<1>1. /\ Len(q) \in Nat /\ Len(q) >= 1 /\ Head(q) = q[1]
      /\ Tail(q) \in Seq(Results) /\ Len(Tail(q)) = Len(q) - 1
      /\ \A i \in 1 .. Len(Tail(q)) : Tail(q)[i] = q[i + 1]
    BY TailOfResults
<1>2. shift \in Bijection(t, later)
    <2>1. \A i \in t : i \in Nat /\ i + 1 \in later
        BY <1>1 DEF Rejections
    <2>2. \A k \in later : k - 1 \in t /\ (k - 1) + 1 = k
        <3> SUFFICES ASSUME NEW k \in later PROVE k - 1 \in t /\ (k - 1) + 1 = k
            OBVIOUS
        <3>1. k \in 2 .. Len(q) /\ IsRejection(q[k], v)
            BY <1>1 DEF Rejections
        <3>2. k - 1 \in 1 .. Len(Tail(q)) /\ (k - 1) + 1 = k
            BY <1>1, <3>1
        <3>3. Tail(q)[k - 1] = q[(k - 1) + 1]
            BY <1>1, <3>2
        <3> QED
            BY <3>1, <3>2, <3>3 DEF Rejections
    <2>3. shift \in [t -> later] /\ \A i \in t : shift[i] = i + 1
        BY <2>1
    <2>4. shift \in Injection(t, later)
        BY <2>1, <2>3 DEF Injection, IsInjective
    <2>5. shift \in Surjection(t, later)
        BY <2>2, <2>3 DEF Surjection
    <2> QED
        BY <2>4, <2>5 DEF Bijection
<1>3. IsFiniteSet(t) /\ Cardinality(t) \in Nat
    BY <1>1, RejectionsFinite
<1>4. Cardinality(later) = Cardinality(t)
    BY <1>2, <1>3, FS_Bijection DEF ExistsBijection
<1>5. /\ IsFiniteSet(Rejections(q, v))
      /\ Cardinality(Rejections(q, v)) \in Nat
      /\ Cardinality(later) = IF 1 \in Rejections(q, v) THEN Cardinality(Rejections(q, v)) - 1
                                                        ELSE Cardinality(Rejections(q, v))
    BY RejectionsFinite, FS_RemoveElement
<1>6. 1 \in Rejections(q, v) <=> IsRejection(Head(q), v)
    BY <1>1 DEF Rejections
<1> QED
    BY <1>3, <1>4, <1>5, <1>6

\* A rejection is counted when it leaves the worker's hands, not before.
LEMMA VerdictsStep ==
    TypeOK /\ HandsHold /\ VerdictsAddUp /\ [Next]_mvars => VerdictsAddUp'
<1> SUFFICES ASSUME TypeOK, HandsHold, VerdictsAddUp, [Next]_mvars,
                    NEW v \in Verdicts
             PROVE  rejected'[v] = verifierVerdicts'[v]
                                   + Cardinality(Rejections(validationResultQueue', v))
                                   + (IF IsRejection(vres', v) THEN 1 ELSE 0)
    BY DEF VerdictsAddUp, Rejections, IsRejection
<1> DEFINE queued == Cardinality(Rejections(validationResultQueue, v))
<1>0. /\ rejected[v] = verifierVerdicts[v] + queued + (IF IsRejection(vres, v) THEN 1 ELSE 0)
      /\ rejected[v] \in Nat /\ verifierVerdicts[v] \in Nat /\ queued \in Nat
      /\ ~IsRejection(NoResult, v)
    <2>1. rejected[v] = verifierVerdicts[v] + queued + (IF IsRejection(vres, v) THEN 1 ELSE 0)
        BY DEF VerdictsAddUp, Rejections
    <2>2. ~IsRejection(NoResult, v)
        BY NoResultFields, VerdictsAssumption DEF IsRejection
    <2> QED
        BY <2>1, <2>2, RejectionsFinite DEF TypeOK
<1>1. CASE UNCHANGED <<rejected, verifierVerdicts, validationResultQueue, vres>>
    BY <1>0, <1>1
<1>2. CASE Enqueue
    <2>1. /\ vr \in Results /\ validationResultQueue \in Seq(Results)
          /\ validationResultQueue' = Append(validationResultQueue, vr)
          /\ rejected'[v] = rejected[v] + (IF IsRejection(vr, v) THEN 1 ELSE 0)
          /\ UNCHANGED <<verifierVerdicts, vres>>
        BY <1>0, <1>2 DEF Enqueue, HandsHold, TypeOK, collVars
    <2>2. Cardinality(Rejections(validationResultQueue', v))
              = queued + (IF IsRejection(vr, v) THEN 1 ELSE 0)
        BY <2>1, RejectionsAppend
    <2>3. IsRejection(vres', v) <=> IsRejection(vres, v)
        BY <2>1 DEF IsRejection
    <2>4. verifierVerdicts'[v] = verifierVerdicts[v]
        BY <2>1
    <2> DEFINE new  == IF IsRejection(vr, v) THEN 1 ELSE 0
               held == IF IsRejection(vres, v) THEN 1 ELSE 0
    <2>5. new \in Nat /\ held \in Nat
        OBVIOUS
    <2>6. /\ rejected'[v] = rejected[v] + new
          /\ rejected[v] = verifierVerdicts[v] + queued + held
          /\ Cardinality(Rejections(validationResultQueue', v)) = queued + new
          /\ (IF IsRejection(vres', v) THEN 1 ELSE 0) = held
        BY <1>0, <2>1, <2>2, <2>3
    <2> HIDE DEF queued, new, held
    <2> QED
        BY <1>0, <2>4, <2>5, <2>6
<1>3. CASE Dequeue
    <2>1. /\ vres = NoResult /\ vres' = Head(validationResultQueue)
          /\ validationResultQueue \in Seq(Results) /\ validationResultQueue # <<>>
          /\ validationResultQueue' = Tail(validationResultQueue)
          /\ UNCHANGED <<rejected, verifierVerdicts>>
        BY <1>3 DEF Dequeue, HandsHold, TypeOK, workerFrame, mainVars
    <2>2. queued = Cardinality(Rejections(validationResultQueue', v))
                   + (IF IsRejection(vres', v) THEN 1 ELSE 0)
        BY <2>1, RejectionsTail
    <2>3. Cardinality(Rejections(validationResultQueue', v)) \in Nat
        BY <2>1, TailOfResults, RejectionsFinite
    <2>4. rejected[v] = verifierVerdicts[v] + queued
        BY <1>0, <2>1
    <2> HIDE DEF queued
    <2> QED
        BY <1>0, <2>1, <2>2, <2>3, <2>4
<1>4. CASE ProcessVerifierLog
    <2>1. /\ vres' = NoResult
          /\ verifierVerdicts'[v] = verifierVerdicts[v] + (IF IsRejection(vres, v) THEN 1 ELSE 0)
          /\ UNCHANGED <<rejected, validationResultQueue>>
        BY <1>0, <1>4 DEF ProcessVerifierLog, workerFrame, mainVars
    <2>2. Cardinality(Rejections(validationResultQueue', v)) = queued
        BY <2>1
    <2> HIDE DEF queued
    <2> QED
        BY <1>0, <2>1, <2>2
<1>5. \/ UNCHANGED <<rejected, verifierVerdicts, validationResultQueue, vres>>
      \/ Enqueue \/ Dequeue \/ ProcessVerifierLog
    BY StepKinds DEF Main, RecordVerifiedProgram, ShouldGetCoverage, LoadProgram,
       RecordValidProgram, CoverageDone, LockForLog, workerFrame, handlerFrame, collVars, mainVars
<1> QED
    BY <1>1, <1>2, <1>3, <1>4, <1>5

--------------------------------------------------------------------------------
\* The inductive invariant of the metrics unit.
LEMMA MInvariant == Spec => []MInv
<1>1. Init => MInv
    <2> SUFFICES ASSUME Init PROVE MInv
        OBVIOUS
    <2> USE DEF Init
    <2>1. CmTypeOK
        BY TypeInit
    <2>2. TypeOK
        <3>1. validationResultQueue \in Seq(Results)
            OBVIOUS
        <3>2. verifierVerdicts \in [Verdicts -> Nat] /\ rejected \in [Verdicts -> Nat]
            OBVIOUS
        <3>3. hPc \in [Readers -> {"idle", "readInfo", "readVerdicts", "wantHistory",
                                   "haveHistory", "readHistory"}]
            OBVIOUS
        <3>4. /\ metricsLock \in {"none", "worker"} \cup Readers
              /\ programsVerified \in 0 .. MaxPrograms /\ validPrograms \in Nat
              /\ latestVerifierLog \in 0 .. MaxPrograms
              /\ vr \in Results \cup {NoResult} /\ vres \in Results \cup {NoResult}
            BY MaxProgramsAssumption
        <3>5. /\ mainPc \in {"idle", "sample", "load", "recordValid", "enqueue"}
              /\ wPc \in {"idle", "coverage", "log", "writeLog"}
              /\ isKCovSupported \in BOOLEAN /\ wanted \in BOOLEAN /\ alive \in BOOLEAN
            OBVIOUS
        <3> HIDE DEF Init
        <3> QED
            BY <2>1, <3>1, <3>2, <3>3, <3>4, <3>5 DEF TypeOK
    <2>3. HandsHold /\ LocksNest /\ CallNests
        BY ReadersAssumption DEF CmInit, HandsHold, LocksNest, CallNests
    <2>4. SamplesEveryThreshold /\ Ascending
        BY NoResultFields DEF SamplesEveryThreshold, Ascending, Reported
    <2>5. VerdictsAddUp
        <3> SUFFICES ASSUME NEW v \in Verdicts
                     PROVE  0 = 0 + Cardinality({i \in 1 .. Len(<<>>) : IsRejection(<<>>[i], v)})
                                + (IF IsRejection(NoResult, v) THEN 1 ELSE 0)
            BY DEF VerdictsAddUp
        <3>1. ~IsRejection(NoResult, v)
            BY NoResultFields, VerdictsAssumption DEF IsRejection
        <3>2. {i \in 1 .. Len(<<>>) : IsRejection(<<>>[i], v)} = {}
            OBVIOUS
        <3> QED
            BY <3>1, <3>2, FS_EmptySet
    <2> QED
        BY <2>2, <2>3, <2>4, <2>5 DEF MInv
<1>2. MInv /\ [Next]_mvars => MInv'
    BY MTypeStep, LocksStep, SamplesStep, VerdictsStep, AscendingStep DEF MInv
<1> QED
    BY <1>1, <1>2, PTL DEF Spec

\* The metrics unit's state always has its type (metrics_collection.go).
THEOREM MetricsTypeCorrect == Spec => []TypeOK
<1>1. MInv => TypeOK
    BY DEF MInv
<1> QED
    BY <1>1, MInvariant, PTL

\* Every rejection main puts into the queue is counted once or on its way, whatever
\* addr2line does in between (enqueueValidationResult to processVerifierLog).
THEOREM NoVerdictLost == Spec => []VerdictsAddUp
<1>1. MInv => VerdictsAddUp
    BY DEF MInv
<1> QED
    BY <1>1, MInvariant, PTL

\* Coverage is collected for every SamplingThreshold-th program and no other,
\* and arrives with the result of that program (ShouldGetCoverage).
THEOREM SamplingIsExact == Spec => []SamplesEveryThreshold
<1>1. MInv => SamplesEveryThreshold
    BY DEF MInv
<1> QED
    BY <1>1, MInvariant, PTL

\* However many handlers there are, metricsLock and coverageLock are nested one
\* way only (getCoverageHistory, ProcessCoverageAddresses).
THEOREM LocksNestOneWay == Spec => []LocksNest
<1>1. MInv => LocksNest
    BY DEF MInv
<1> QED
    BY <1>1, MInvariant, PTL

\* The latest log never goes back to an older program (processVerifierLog).
THEOREM LatestLogIsLatest == Spec => LogsInOrder
<1>1. MInv /\ [Next]_mvars => [latestVerifierLog' >= latestVerifierLog]_mvars
    <2> SUFFICES ASSUME MInv, [Next]_mvars PROVE latestVerifierLog' >= latestVerifierLog
        OBVIOUS
    <2>0. latestVerifierLog \in Nat /\ vres.program \in Nat
        BY NoResultFields, ResultFields, MaxProgramsAssumption DEF MInv, TypeOK
    <2>1. CASE ProcessVerifierLog
        <3>1. latestVerifierLog < vres.program
            BY <2>1 DEF ProcessVerifierLog, MInv, Ascending
        <3> QED
            BY <2>0, <2>1, <3>1 DEF ProcessVerifierLog
    <2>2. CASE latestVerifierLog' = latestVerifierLog
        BY <2>0, <2>2
    <2> QED
        BY <2>1, <2>2, StepKinds DEF Main, RecordVerifiedProgram, ShouldGetCoverage,
           LoadProgram, RecordValidProgram, Enqueue, Dequeue, CoverageDone, LockForLog,
           handlerFrame, collVars
<1> QED
    BY <1>1, MInvariant, PTL DEF Spec, LogsInOrder

\* The metrics unit implements the coverage manager's specification: main, the
\* worker and the handlers use it the way its own theorems assume.
THEOREM MetricsImplementsCoverageManager == Spec => CmSpec
<1>1. Init => CmInit
    BY DEF Init
<1>2. MInv /\ [Next]_mvars => [CmNext]_cmVars
    BY CmSimulates DEF MInv
<1> QED
    BY <1>1, <1>2, MInvariant, PTL DEF Spec, CmSpec

\* So the coverage manager keeps its promises in the running fuzzer: complete
\* calls, exact lists, and a graph that only rises (coverage_manager.go).
THEOREM CoverageInMetrics == Spec => [](ReturnsResolved /\ InfoMatchesCache /\ HistoryRises)
BY MetricsImplementsCoverageManager, CallsResolve, InfoIsExact, GraphRises, PTL

================================================================================
