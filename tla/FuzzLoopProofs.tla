------------------------------ MODULE FuzzLoopProofs ------------------------------
(***************************************************************************)
(* The eBPF side of the fuzzing loop keeps its descriptors straight, for    *)
(* every size of the descriptor table and any number of other goroutines;   *)
(* and the loop calls every strategy in the promised order.                 *)
(***************************************************************************)
EXTENDS FuzzLoop, TLAPS

\* The labels that eBPF programs never reach.
CbpfSteps == {"socketpair", "attachFilter", "write", "closeWrite", "read", "closeRead",
              "outWrite", "outRead", "encodeError"}

\* Where the program of the turn has been through the verifier.
Loaded == {"coverage", "decode", "record", "onVerifyDone", "drop", "execute", "attach", "closeProg"}

\* Where it has been accepted for execution.
Accepted == {"execute", "attach", "closeProg", "result", "onExecuteDone"}

\* The loop runs one of the repository's eBPF strategies.
IsEbpf == strat \in EbpfStrategies /\ pc \notin CbpfSteps

\* mapFd is a map of the strategy, or -1, or the stdin it was born with, except
\* between closing the old map and creating the new one.
MapHeld ==
    /\ pc # "createMap" /\ mapFd \in Fd =>
           fds[mapFd] = "map" \/ (mapFd = 0 /\ fds[0] = "std")
    /\ pc = "closeMap" /\ newFd \in Fd => fds[newFd] = "map" /\ newFd # mapFd
    /\ \A f \in Fd : fds[f] = "map" =>
           (f = mapFd /\ pc # "createMap") \/ (f = newFd /\ pc = "closeMap")

\* A valid program of a map strategy was loaded against a live map.
MapLive ==
    /\ pc \in Accepted => valid
    /\ pc \in Loaded \cup Accepted /\ valid /\ UsesMap(strat) => mapFd \in Fd /\ fds[mapFd] = "map"

\* A program descriptor is held exactly while the turn's program is loaded; only
\* an error, which ends the process, leaves one behind.
ProgHeld ==
    /\ pc \in Loaded => IF valid THEN programFd \in Fd /\ fds[programFd] = "prog"
                                 ELSE programFd = NoFd
    /\ \A f \in Fd : fds[f] = "prog" =>
           f = programFd /\ pc \in Loaded \cup {"onError", "outerError", "halted", "crashed"}

\* The sockets are open exactly while the program is attached to them.
SocksHeld ==
    /\ pc = "attach" => /\ sockW \in Fd /\ fds[sockW] = "sock"
                        /\ sockR \in Fd /\ fds[sockR] = "sock"
    /\ \A f \in Fd : fds[f] = "sock" => pc = "attach" /\ f \in {sockW, sockR}

\* The kcov descriptor is open from enable_coverage to
\* get_coverage_and_free_resources.
KcovHeld ==
    kcovFd \in Fd => (pc \in {"btfLoad", "progLoad", "coverage"} <=> fds[kcovFd] = "kcov")

\* A strategy whose constructor sets mapFd never closes standard input.
StdinHeld ==
    strat \notin {"pointer_arithmetic", "loop_pointer_arithmetic"} => mapFd # 0 /\ fds[0] = "std"

LoopInv == TypeOK /\ IsEbpf /\ PeersKeepTheirs /\ MapHeld /\ MapLive /\ ProgHeld
           /\ SocksHeld /\ KcovHeld /\ StdinHeld /\ PanicsExplained

--------------------------------------------------------------------------------
(* Facts about the descriptor table. *)

\* The standard streams have numbers, and -1 is none.
LEMMA FdFacts == /\ 0 \in Fd /\ 1 \in Fd /\ 2 \in Fd
                 /\ NoFd \notin Fd
                 /\ Fd \subseteq FdOrNone /\ NoFd \in FdOrNone
BY MaxFdAssumption DEF Fd, NoFd, FdOrNone

\* close changes one entry at most, and only to "free".
LEMMA CloseAt ==
    ASSUME NEW t \in [Fd -> Owners], NEW n
    PROVE  /\ Close(t, n) \in [Fd -> Owners]
           /\ \A f \in Fd : f = n => Close(t, n)[f] = "free"
           /\ \A f \in Fd : f # n => Close(t, n)[f] = t[f]
BY DEF Close, Owners

\* A new descriptor replaces a free entry, and no other one.
LEMMA OpenAt ==
    ASSUME NEW t \in [Fd -> Owners], NEW n \in Fd, IsLowestFree(t, n), NEW o \in Owners
    PROVE  /\ Open(t, n, o) \in [Fd -> Owners]
           /\ t[n] = "free"
           /\ Open(t, n, o)[n] = o
           /\ \A f \in Fd : f # n => Open(t, n, o)[f] = t[f]
BY DEF Open, IsLowestFree

\* Closing both ends of a socket pair changes those two entries at most.
LEMMA ClosePairAt ==
    ASSUME NEW t \in [Fd -> Owners], NEW m, NEW n
    PROVE  /\ Close(Close(t, m), n) \in [Fd -> Owners]
           /\ \A f \in Fd : f \in {m, n} => Close(Close(t, m), n)[f] = "free"
           /\ \A f \in Fd : f \notin {m, n} => Close(Close(t, m), n)[f] = t[f]
BY DEF Close, Owners

\* A socket pair takes two free entries, and no others.
LEMMA OpenPairAt ==
    ASSUME NEW t \in [Fd -> Owners], NEW m \in Fd, NEW n \in Fd,
           IsLowestFree(t, m), IsLowestFree(Open(t, m, "sock"), n)
    PROVE  LET u == Open(Open(t, m, "sock"), n, "sock")
           IN  /\ u \in [Fd -> Owners]
               /\ m # n /\ t[m] = "free" /\ t[n] = "free"
               /\ u[m] = "sock" /\ u[n] = "sock"
               /\ \A f \in Fd : f \notin {m, n} => u[f] = t[f]
BY DEF Open, IsLowestFree, Owners

\* Every answer of a strategy is a Boolean and leaves isFinished one.
LEMMA AnswerTypes ==
    ASSUME NEW s, NEW b \in BOOLEAN, NEW c \in BOOLEAN, NEW d \in BOOLEAN
    PROVE  /\ \A a \in OnVerifyDone(s, b, c, d) : a.run \in BOOLEAN /\ a.done \in BOOLEAN
           /\ \A got, c2 : \A a \in OnExecuteDone(s, got, c2, d) :
                  a.ok \in BOOLEAN /\ a.done \in BOOLEAN
           /\ OnError(s) \subseteq BOOLEAN
<1>1. \A a \in OnVerifyDone(s, b, c, d) : a.run \in BOOLEAN /\ a.done \in BOOLEAN
    BY DEF OnVerifyDone, CountingOnVerifyDone, PlaygroundOnVerifyDone, CoverageBasedOnVerifyDone
<1>2. \A got, c2 : \A a \in OnExecuteDone(s, got, c2, d) : a.ok \in BOOLEAN /\ a.done \in BOOLEAN
    BY DEF OnExecuteDone, PointerArithmeticOnExecuteDone, LoopOnExecuteDone,
           CoverageBasedOnExecuteDone
<1>3. OnError(s) \subseteq BOOLEAN
    BY DEF OnError
<1> QED
    BY <1>1, <1>2, <1>3

\* A new map has the strategy's keys, and all its cells are zero.
LEMMA BlankMapType == ASSUME NEW s PROVE BlankMap(s) \in [MapKeys(s) -> Values]
BY ValuesAssumption DEF BlankMap

--------------------------------------------------------------------------------
(* Type correctness, for every strategy. *)

\* Every step keeps the types.
LEMMA LoopTypeStep == TypeOK /\ [Next]_vars => TypeOK'
<1> SUFFICES ASSUME TypeOK, [Next]_vars PROVE TypeOK'
    OBVIOUS
<1> USE FdFacts DEF TypeOK, Goto, stratVars, resVars, cVars, turnVars, peers, world, Steps, Final, Owners
<1>1. CASE LoopTest
    BY <1>1 DEF LoopTest
<1>2. CASE GenerateWithoutMap
    BY <1>2 DEF GenerateWithoutMap
<1>3. CASE CloseOldMap
    BY <1>3, CloseAt DEF CloseOldMap
<1>4. CASE CreateMapOrFail
    BY <1>4, OpenAt, BlankMapType DEF CreateMapOrFail
<1>5. CASE LoopCreateMap
    BY <1>5, OpenAt DEF LoopCreateMap
<1>6. CASE LoopCloseOldMap
    BY <1>6, CloseAt, BlankMapType DEF LoopCloseOldMap
<1>7. CASE GenerateError
    BY <1>7, AnswerTypes DEF GenerateError
<1>8. CASE Encode
    BY <1>8 DEF Encode
<1>9. CASE EncodeError
    BY <1>9, AnswerTypes DEF EncodeError
<1>10. CASE EnableCoverage
    BY <1>10, OpenAt DEF EnableCoverage
<1>11. CASE EmptyCbpf
    BY <1>11 DEF EmptyCbpf
<1>12. CASE BtfLoad
    BY <1>12, OpenAt DEF BtfLoad
<1>13. CASE ProgLoad
    <2>1. fds' \in [Fd -> Owners] /\ programFd' \in FdOrNone
        BY <1>13, OpenAt DEF ProgLoad
    <2>2. valid' \in BOOLEAN
        BY <1>13 DEF ProgLoad
    <2> QED
        BY <1>13, <2>1, <2>2 DEF ProgLoad
<1>14. CASE CbpfSocketpair
    <2>1. fds' \in [Fd -> Owners] /\ sockW' \in FdOrNone /\ sockR' \in FdOrNone
        BY <1>14, OpenPairAt DEF CbpfSocketpair
    <2>2. valid' \in BOOLEAN /\ pc' \in Steps
        BY <1>14 DEF CbpfSocketpair
    <2> QED
        BY <1>14, <2>1, <2>2 DEF CbpfSocketpair
<1>15. CASE AttachFilter
    <2>1. fds' \in [Fd -> Owners]
        BY <1>15, ClosePairAt DEF AttachFilter
    <2>2. valid' \in BOOLEAN
        BY <1>15 DEF AttachFilter
    <2> QED
        BY <1>15, <2>1, <2>2 DEF AttachFilter
<1>16. CASE GetCoverage
    BY <1>16, CloseAt DEF GetCoverage
<1>17. CASE DecodeValidation
    BY <1>17 DEF DecodeValidation
<1>18. CASE CallOnVerifyDone
    <2>1. PICK a \in OnVerifyDone(strat, valid, cov, isFinished) :
              isFinished' = a.done /\ pc' \in {"execute", "drop"}
        BY <1>18 DEF CallOnVerifyDone
    <2>2. a.done \in BOOLEAN
        BY AnswerTypes
    <2>3. isFinished' \in BOOLEAN
        BY <2>1, <2>2
    <2> QED
        BY <1>18, <2>1, <2>3 DEF CallOnVerifyDone
<1>19. CASE DropProgram
    BY <1>19, CloseAt DEF DropProgram
<1>20. CASE ExecuteEbpf
    BY <1>20, OpenPairAt DEF ExecuteEbpf
<1>21. CASE AttachAndRun
    BY <1>21, ClosePairAt DEF AttachAndRun
<1>22. CASE CloseProgram
    BY <1>22, CloseAt DEF CloseProgram
<1>23. CASE CbpfWrite
    BY <1>23 DEF CbpfWrite
<1>24. CASE CbpfCloseWrite
    BY <1>24, CloseAt DEF CbpfCloseWrite
<1>25. CASE CbpfRead
    BY <1>25 DEF CbpfRead
<1>26. CASE CbpfCloseRead
    BY <1>26, CloseAt DEF CbpfCloseRead
<1>27. CASE CbpfOutWrite
    BY <1>27, CloseAt DEF CbpfOutWrite
<1>28. CASE CbpfOutRead
    BY <1>28, CloseAt DEF CbpfOutRead
<1>29. CASE DecodeExecution
    BY <1>29 DEF DecodeExecution
<1>30. CASE CallOnExecuteDone
    <2>1. isFinished' = isFinished
              \/ \E got : \E a \in OnExecuteDone(strat, got, cells, isFinished) : isFinished' = a.done
        BY <1>30 DEF CallOnExecuteDone
    <2>2. \A got : \A a \in OnExecuteDone(strat, got, cells, isFinished) : a.done \in BOOLEAN
        BY AnswerTypes
    <2>3. isFinished' \in BOOLEAN
        BY <2>1, <2>2
    <2>4. /\ verdict' \in {"none", "expected", "unexpected"} /\ pc' \in Steps \cup Final
          /\ panic' \in {"none", "request", "elements"}
        BY <1>30 DEF CallOnExecuteDone
    <2> QED
        BY <1>30, <2>3, <2>4 DEF CallOnExecuteDone
<1>31. CASE InnerError
    BY <1>31, AnswerTypes DEF InnerError
<1>32. CASE OuterError
    BY <1>32, AnswerTypes DEF OuterError
<1>33. CASE PeerOpen
    BY <1>33, OpenAt DEF PeerOpen, mainVars
<1>34. CASE PeerClose
    BY <1>34, CloseAt DEF PeerClose, mainVars
<1>35. CASE UNCHANGED vars
    BY <1>35 DEF vars
<1>36. CASE RecordVerificationResults
    BY <1>36 DEF RecordVerificationResults
<1>37. CASE PeerLock \/ PeerUnlock
    <2>1. metricsHeld' \in BOOLEAN /\ UNCHANGED <<mainVars, fds, cells, peerFds>>
        BY <1>37 DEF PeerLock, PeerUnlock
    <2> QED
        BY <2>1 DEF mainVars
<1> QED
    BY <1>1, <1>2, <1>3, <1>4, <1>5, <1>6, <1>7, <1>8, <1>9, <1>10, <1>11, <1>12, <1>13,
       <1>14, <1>15, <1>16, <1>17, <1>18, <1>19, <1>20, <1>21, <1>22, <1>23, <1>24, <1>25,
       <1>26, <1>27, <1>28, <1>29, <1>30, <1>31, <1>32, <1>33, <1>34, <1>35, <1>36,
       <1>37
       DEF Next, Main, Generate, Validate, Execute, Exited

\* The initial states have their types.
LEMMA LoopTypeInit == Init => TypeOK
<1> SUFFICES ASSUME Init PROVE TypeOK
    OBVIOUS
<1>1. fds \in [Fd -> Owners]
    BY DEF Init, AtStart, Owners
<1>2. mapFd \in FdOrNone
    BY FdFacts DEF Init, InitialMapFd, NoFd
<1> QED
    BY <1>1, <1>2, FdFacts, BlankMapType DEF Init, TypeOK, Steps

\* The state of the fuzzing loop always has its type, whatever strategies it is
\* started with (control.go, ffi.go, the C layer).
THEOREM LoopTypeCorrect == Spec => []TypeOK
BY LoopTypeInit, LoopTypeStep, PTL DEF Spec

--------------------------------------------------------------------------------
(* The descriptors of the eBPF strategies. *)

\* What the eBPF strategies of the repository have in common.
LEMMA EbpfFacts ==
    \A s \in EbpfStrategies : ~IsCbpf(s) /\ s \notin Custom /\ OnError(s) = {FALSE}
BY DEF EbpfStrategies, IsCbpf, CbpfStrategies, Custom, OnError

\* Every step of a loop that runs an eBPF strategy preserves the invariant.
LEMMA LoopInvStep ==
    ASSUME LoopInv, [Next]_vars
    PROVE  LoopInv'
<1>1. TypeOK /\ TypeOK'
    BY LoopTypeStep DEF LoopInv
<1>2. ~IsCbpf(strat) /\ strat \notin Custom /\ OnError(strat) = {FALSE}
    BY EbpfFacts DEF LoopInv, IsEbpf
<1> USE FdFacts, <1>1, <1>2
    DEF TypeOK, LoopInv, IsEbpf, CbpfSteps, PeersKeepTheirs, MapHeld, MapLive, ProgHeld,
        SocksHeld, KcovHeld, StdinHeld, PanicsExplained, Loaded, Accepted, Goto, stratVars,
        resVars, cVars, turnVars, peers, world
<1>3. CASE LoopTest
    BY <1>3 DEF LoopTest
<1>4. CASE GenerateWithoutMap
    BY <1>4 DEF GenerateWithoutMap
<1>5. CASE CloseOldMap
    <2>1. \A f \in Fd : fds'[f] = IF f = mapFd THEN "free" ELSE fds[f]
        BY <1>5 DEF CloseOldMap, Close
    <2>2. IsEbpf'
        BY <1>5, <2>1 DEF CloseOldMap
    <2>3. PeersKeepTheirs'
        BY <1>5, <2>1 DEF CloseOldMap
    <2>4. MapHeld'
        BY <1>5, <2>1 DEF CloseOldMap
    <2>5. MapLive'
        BY <1>5, <2>1 DEF CloseOldMap
    <2>6. ProgHeld'
        BY <1>5, <2>1 DEF CloseOldMap
    <2>7. SocksHeld'
        BY <1>5, <2>1 DEF CloseOldMap
    <2>8. KcovHeld'
        BY <1>5, <2>1 DEF CloseOldMap
    <2>9. StdinHeld' /\ PanicsExplained'
        BY <1>5, <2>1 DEF CloseOldMap
    <2> QED
        BY <2>2, <2>3, <2>4, <2>5, <2>6, <2>7, <2>8, <2>9
<1>6. CASE CreateMapOrFail
    <2>1. \/ fds' = fds /\ mapFd' = NoFd
          \/ \E n \in Fd : /\ fds[n] = "free" /\ mapFd' = n /\ pc' = "encode"
                           /\ \A f \in Fd : fds'[f] = IF f = n THEN "map" ELSE fds[f]
        BY <1>6, OpenAt DEF CreateMapOrFail, Owners
    <2>2. IsEbpf'
        BY <1>6, <2>1 DEF CreateMapOrFail
    <2>3. PeersKeepTheirs'
        BY <1>6, <2>1 DEF CreateMapOrFail
    <2>4. MapHeld'
        BY <1>6, <2>1 DEF CreateMapOrFail
    <2>5. MapLive'
        BY <1>6, <2>1 DEF CreateMapOrFail
    <2>6. ProgHeld'
        BY <1>6, <2>1 DEF CreateMapOrFail
    <2>7. SocksHeld'
        BY <1>6, <2>1 DEF CreateMapOrFail
    <2>8. KcovHeld'
        BY <1>6, <2>1 DEF CreateMapOrFail
    <2>9. StdinHeld' /\ PanicsExplained'
        BY <1>6, <2>1 DEF CreateMapOrFail
    <2> QED
        BY <2>2, <2>3, <2>4, <2>5, <2>6, <2>7, <2>8, <2>9
<1>7. CASE LoopCreateMap
    <2>1. \/ fds' = fds /\ newFd' = NoFd
          \/ \E n \in Fd : /\ fds[n] = "free" /\ newFd' = n
                           /\ \A f \in Fd : fds'[f] = IF f = n THEN "map" ELSE fds[f]
        BY <1>7, OpenAt DEF LoopCreateMap, Owners
    <2>2. IsEbpf'
        BY <1>7, <2>1 DEF LoopCreateMap
    <2>3. PeersKeepTheirs'
        BY <1>7, <2>1 DEF LoopCreateMap
    <2>4. MapHeld'
        BY <1>7, <2>1 DEF LoopCreateMap
    <2>5. MapLive'
        BY <1>7, <2>1 DEF LoopCreateMap
    <2>6. ProgHeld'
        BY <1>7, <2>1 DEF LoopCreateMap
    <2>7. SocksHeld'
        BY <1>7, <2>1 DEF LoopCreateMap
    <2>8. KcovHeld'
        BY <1>7, <2>1 DEF LoopCreateMap
    <2>9. StdinHeld' /\ PanicsExplained'
        BY <1>7, <2>1 DEF LoopCreateMap
    <2> QED
        BY <2>2, <2>3, <2>4, <2>5, <2>6, <2>7, <2>8, <2>9
<1>8. CASE LoopCloseOldMap
    <2>1. \A f \in Fd : fds'[f] = IF f = mapFd THEN "free" ELSE fds[f]
        BY <1>8 DEF LoopCloseOldMap, Close
    <2>2. IsEbpf'
        BY <1>8, <2>1 DEF LoopCloseOldMap
    <2>3. PeersKeepTheirs'
        BY <1>8, <2>1 DEF LoopCloseOldMap
    <2>4. MapHeld'
        BY <1>8, <2>1 DEF LoopCloseOldMap
    <2>5. MapLive'
        BY <1>8, <2>1 DEF LoopCloseOldMap
    <2>6. ProgHeld'
        BY <1>8, <2>1 DEF LoopCloseOldMap
    <2>7. SocksHeld'
        BY <1>8, <2>1 DEF LoopCloseOldMap
    <2>8. KcovHeld'
        BY <1>8, <2>1 DEF LoopCloseOldMap
    <2>9. StdinHeld' /\ PanicsExplained'
        BY <1>8, <2>1 DEF LoopCloseOldMap
    <2> QED
        BY <2>2, <2>3, <2>4, <2>5, <2>6, <2>7, <2>8, <2>9
<1>9. CASE GenerateError
    BY <1>9 DEF GenerateError
<1>10. CASE Encode
    BY <1>10 DEF Encode
<1>11. CASE EncodeError
    BY <1>11 DEF EncodeError
<1>12. CASE EnableCoverage
    <2>1. \/ fds' = fds /\ kcovFd' = NoFd
          \/ \E n \in Fd : /\ fds[n] = "free" /\ kcovFd' \in {NoFd, n}
                           /\ \A f \in Fd : fds'[f] = IF f = n THEN "kcov" ELSE fds[f]
        BY <1>12, OpenAt DEF EnableCoverage, Owners
    <2>2. IsEbpf'
        BY <1>12, <2>1 DEF EnableCoverage
    <2>3. PeersKeepTheirs'
        BY <1>12, <2>1 DEF EnableCoverage
    <2>4. MapHeld'
        BY <1>12, <2>1 DEF EnableCoverage
    <2>5. MapLive'
        BY <1>12, <2>1 DEF EnableCoverage
    <2>6. ProgHeld'
        BY <1>12, <2>1 DEF EnableCoverage
    <2>7. SocksHeld'
        BY <1>12, <2>1 DEF EnableCoverage
    <2>8. KcovHeld'
        BY <1>12, <2>1 DEF EnableCoverage
    <2>9. StdinHeld' /\ PanicsExplained'
        BY <1>12, <2>1 DEF EnableCoverage
    <2> QED
        BY <2>2, <2>3, <2>4, <2>5, <2>6, <2>7, <2>8, <2>9
<1>13. CASE EmptyCbpf
    BY <1>13 DEF EmptyCbpf
<1>14. CASE BtfLoad
    <2>1. \/ fds' = fds
          \/ \E n \in Fd : /\ fds[n] = "free"
                           /\ \A f \in Fd : fds'[f] = IF f = n THEN "btf" ELSE fds[f]
        BY <1>14, OpenAt DEF BtfLoad, Owners
    <2>2. IsEbpf'
        BY <1>14, <2>1 DEF BtfLoad
    <2>3. PeersKeepTheirs'
        BY <1>14, <2>1 DEF BtfLoad
    <2>4. MapHeld'
        BY <1>14, <2>1 DEF BtfLoad
    <2>5. MapLive'
        BY <1>14, <2>1 DEF BtfLoad
    <2>6. ProgHeld'
        BY <1>14, <2>1 DEF BtfLoad
    <2>7. SocksHeld'
        BY <1>14, <2>1 DEF BtfLoad
    <2>8. KcovHeld'
        BY <1>14, <2>1 DEF BtfLoad
    <2>9. StdinHeld' /\ PanicsExplained'
        BY <1>14, <2>1 DEF BtfLoad
    <2> QED
        BY <2>2, <2>3, <2>4, <2>5, <2>6, <2>7, <2>8, <2>9
<1>15. CASE ProgLoad
    <2>1. \/ fds' = fds /\ programFd' = NoFd /\ valid' = FALSE
          \/ \E n \in Fd : /\ fds[n] = "free" /\ programFd' = n /\ valid' = TRUE
                           /\ \A f \in Fd : fds'[f] = IF f = n THEN "prog" ELSE fds[f]
        BY <1>15, OpenAt DEF ProgLoad, Owners
    <2>2. IsEbpf'
        BY <1>15, <2>1 DEF ProgLoad
    <2>3. PeersKeepTheirs'
        BY <1>15, <2>1 DEF ProgLoad
    <2>4. MapHeld'
        BY <1>15, <2>1 DEF ProgLoad
    <2>5. MapLive'
        BY <1>15, <2>1 DEF ProgLoad
    <2>6. ProgHeld'
        BY <1>15, <2>1 DEF ProgLoad
    <2>7. SocksHeld'
        BY <1>15, <2>1 DEF ProgLoad
    <2>8. KcovHeld'
        BY <1>15, <2>1 DEF ProgLoad
    <2>9. StdinHeld' /\ PanicsExplained'
        BY <1>15, <2>1 DEF ProgLoad
    <2> QED
        BY <2>2, <2>3, <2>4, <2>5, <2>6, <2>7, <2>8, <2>9
<1>16. CASE CbpfSocketpair
    BY <1>16 DEF CbpfSocketpair
<1>17. CASE AttachFilter
    BY <1>17 DEF AttachFilter
<1>18. CASE GetCoverage
    <2>1. \A f \in Fd : fds'[f] = IF f = kcovFd THEN "free" ELSE fds[f]
        BY <1>18 DEF GetCoverage, Close
    <2>2. IsEbpf'
        BY <1>18, <2>1 DEF GetCoverage
    <2>3. PeersKeepTheirs'
        BY <1>18, <2>1 DEF GetCoverage
    <2>4. MapHeld'
        BY <1>18, <2>1 DEF GetCoverage
    <2>5. MapLive'
        BY <1>18, <2>1 DEF GetCoverage
    <2>6. ProgHeld'
        BY <1>18, <2>1 DEF GetCoverage
    <2>7. SocksHeld'
        BY <1>18, <2>1 DEF GetCoverage
    <2>8. KcovHeld'
        BY <1>18, <2>1 DEF GetCoverage
    <2>9. StdinHeld' /\ PanicsExplained'
        BY <1>18, <2>1 DEF GetCoverage
    <2> QED
        BY <2>2, <2>3, <2>4, <2>5, <2>6, <2>7, <2>8, <2>9
<1>19. CASE DecodeValidation
    BY <1>19 DEF DecodeValidation
<1>20. CASE CallOnVerifyDone
    BY <1>20 DEF CallOnVerifyDone
<1>21. CASE DropProgram
    <2>1. \A f \in Fd : fds'[f] = IF f = programFd THEN "free" ELSE fds[f]
        BY <1>21 DEF DropProgram, Close
    <2>2. IsEbpf'
        BY <1>21, <2>1 DEF DropProgram
    <2>3. PeersKeepTheirs'
        BY <1>21, <2>1 DEF DropProgram
    <2>4. MapHeld'
        BY <1>21, <2>1 DEF DropProgram
    <2>5. MapLive'
        BY <1>21, <2>1 DEF DropProgram
    <2>6. ProgHeld'
        BY <1>21, <2>1 DEF DropProgram
    <2>7. SocksHeld'
        BY <1>21, <2>1 DEF DropProgram
    <2>8. KcovHeld'
        BY <1>21, <2>1 DEF DropProgram
    <2>9. StdinHeld' /\ PanicsExplained'
        BY <1>21, <2>1 DEF DropProgram
    <2> QED
        BY <2>2, <2>3, <2>4, <2>5, <2>6, <2>7, <2>8, <2>9
<1>22. CASE ExecuteEbpf
    BY <1>22, OpenPairAt DEF ExecuteEbpf
<1>23. CASE AttachAndRun
    BY <1>23, ClosePairAt DEF AttachAndRun
<1>24. CASE CloseProgram
    <2>1. \A f \in Fd : fds'[f] = IF f = programFd THEN "free" ELSE fds[f]
        BY <1>24 DEF CloseProgram, Close
    <2>2. IsEbpf'
        BY <1>24, <2>1 DEF CloseProgram
    <2>3. PeersKeepTheirs'
        BY <1>24, <2>1 DEF CloseProgram
    <2>4. MapHeld'
        BY <1>24, <2>1 DEF CloseProgram
    <2>5. MapLive'
        BY <1>24, <2>1 DEF CloseProgram
    <2>6. ProgHeld'
        BY <1>24, <2>1 DEF CloseProgram
    <2>7. SocksHeld'
        BY <1>24, <2>1 DEF CloseProgram
    <2>8. KcovHeld'
        BY <1>24, <2>1 DEF CloseProgram
    <2>9. StdinHeld' /\ PanicsExplained'
        BY <1>24, <2>1 DEF CloseProgram
    <2> QED
        BY <2>2, <2>3, <2>4, <2>5, <2>6, <2>7, <2>8, <2>9
<1>25. CASE CbpfWrite
    BY <1>25 DEF CbpfWrite
<1>26. CASE CbpfCloseWrite
    BY <1>26 DEF CbpfCloseWrite
<1>27. CASE CbpfRead
    BY <1>27 DEF CbpfRead
<1>28. CASE CbpfCloseRead
    BY <1>28 DEF CbpfCloseRead
<1>29. CASE CbpfOutWrite
    BY <1>29 DEF CbpfOutWrite
<1>30. CASE CbpfOutRead
    BY <1>30 DEF CbpfOutRead
<1>31. CASE DecodeExecution
    BY <1>31 DEF DecodeExecution
<1>32. CASE CallOnExecuteDone
    <2>1. CASE pc' = "crashed" /\ panic' = "elements"
        BY <1>32, <2>1 DEF CallOnExecuteDone, PanicsOn
    <2>2. CASE pc' = "loop"
        BY <1>32, <2>2 DEF CallOnExecuteDone
    <2> QED
        BY <1>32, <2>1, <2>2 DEF CallOnExecuteDone
<1>33. CASE InnerError
    BY <1>33 DEF InnerError
<1>34. CASE OuterError
    BY <1>34 DEF OuterError
<1>35. CASE PeerOpen
    <2>1. PICK n \in Fd : /\ peerFds' = peerFds \cup {n}
                          /\ fds[n] = "free"
                          /\ \A f \in Fd : fds'[f] = IF f = n THEN "peer" ELSE fds[f]
        BY <1>35, OpenAt DEF PeerOpen, mainVars, Owners
    <2>2. IsEbpf'
        BY <1>35, <2>1 DEF PeerOpen, mainVars
    <2>3. PeersKeepTheirs'
        BY <1>35, <2>1 DEF PeerOpen, mainVars
    <2>4. MapHeld'
        BY <1>35, <2>1 DEF PeerOpen, mainVars
    <2>5. MapLive'
        BY <1>35, <2>1 DEF PeerOpen, mainVars
    <2>6. ProgHeld'
        BY <1>35, <2>1 DEF PeerOpen, mainVars
    <2>7. SocksHeld'
        BY <1>35, <2>1 DEF PeerOpen, mainVars
    <2>8. KcovHeld'
        BY <1>35, <2>1 DEF PeerOpen, mainVars
    <2>9. StdinHeld' /\ PanicsExplained'
        BY <1>35, <2>1 DEF PeerOpen, mainVars
    <2> QED
        BY <2>2, <2>3, <2>4, <2>5, <2>6, <2>7, <2>8, <2>9
<1>36. CASE PeerClose
    <2>1. PICK n \in peerFds : /\ peerFds' = peerFds \ {n}
                               /\ \A f \in Fd : fds'[f] = IF f = n THEN "free" ELSE fds[f]
        BY <1>36 DEF PeerClose, Close, mainVars
    <2>2. IsEbpf'
        BY <1>36, <2>1 DEF PeerClose, mainVars
    <2>3. PeersKeepTheirs'
        BY <1>36, <2>1 DEF PeerClose, mainVars
    <2>4. MapHeld'
        BY <1>36, <2>1 DEF PeerClose, mainVars
    <2>5. MapLive'
        BY <1>36, <2>1 DEF PeerClose, mainVars
    <2>6. ProgHeld'
        BY <1>36, <2>1 DEF PeerClose, mainVars
    <2>7. SocksHeld'
        BY <1>36, <2>1 DEF PeerClose, mainVars
    <2>8. KcovHeld'
        BY <1>36, <2>1 DEF PeerClose, mainVars
    <2>9. StdinHeld' /\ PanicsExplained'
        BY <1>36, <2>1 DEF PeerClose, mainVars
    <2> QED
        BY <2>2, <2>3, <2>4, <2>5, <2>6, <2>7, <2>8, <2>9
<1>37. CASE UNCHANGED vars
    BY <1>37 DEF vars
<1>38. CASE RecordVerificationResults
    BY <1>38 DEF RecordVerificationResults
<1>39. CASE PeerLock \/ PeerUnlock
    BY <1>39 DEF PeerLock, PeerUnlock, mainVars
<1> QED
    BY <1>3, <1>4, <1>5, <1>6, <1>7, <1>8, <1>9, <1>10, <1>11, <1>12, <1>13, <1>14, <1>15,
       <1>16, <1>17, <1>18, <1>19, <1>20, <1>21, <1>22, <1>23, <1>24, <1>25, <1>26, <1>27,
       <1>28, <1>29, <1>30, <1>31, <1>32, <1>33, <1>34, <1>35, <1>36, <1>37, <1>38, <1>39
       DEF Next, Main, Generate, Validate, Execute, Exited

\* The invariant holds when main starts.
LEMMA LoopInvInit ==
    ASSUME Init, strat \in EbpfStrategies PROVE LoopInv
<1>1. TypeOK
    BY LoopTypeInit
<1>2. \A f \in Fd : fds[f] = IF f \in 0 .. 2 THEN "std" ELSE "free"
    BY DEF Init, AtStart
<1>3. IsEbpf /\ PeersKeepTheirs
    BY <1>2, FdFacts DEF Init, IsEbpf, CbpfSteps, PeersKeepTheirs
<1>4. MapHeld /\ MapLive
    BY <1>2, FdFacts DEF Init, InitialMapFd, MapHeld, MapLive, Loaded, Accepted, NoFd
<1>5. ProgHeld /\ SocksHeld /\ KcovHeld
    BY <1>2, FdFacts DEF Init, ProgHeld, SocksHeld, KcovHeld, Loaded
<1>6. StdinHeld /\ PanicsExplained
    BY <1>2, FdFacts DEF Init, InitialMapFd, StdinHeld, PanicsExplained
<1> QED
    BY <1>1, <1>3, <1>4, <1>5, <1>6 DEF LoopInv

\* The strategy is chosen once.
LEMMA StratStays == TypeOK /\ [Next]_vars => strat' = strat
BY DEF Next, Main, Generate, Validate, Execute, vars, stratVars, mainVars, LoopTest,
       GenerateWithoutMap, CloseOldMap, CreateMapOrFail, LoopCreateMap, LoopCloseOldMap,
       GenerateError, Encode, EncodeError, EnableCoverage, EmptyCbpf, BtfLoad, ProgLoad,
       CbpfSocketpair, AttachFilter, GetCoverage, DecodeValidation, CallOnVerifyDone,
       DropProgram, ExecuteEbpf, AttachAndRun, CloseProgram, CbpfWrite, CbpfCloseWrite,
       CbpfRead, CbpfCloseRead, CbpfOutWrite, CbpfOutRead, DecodeExecution,
       CallOnExecuteDone, InnerError, OuterError, PeerOpen, PeerClose, PeerLock, PeerUnlock,
       RecordVerificationResults, Exited

\* The invariant of the descriptors, for every behaviour that runs an eBPF strategy.
LEMMA EbpfInvariant == Spec => [](strat \in EbpfStrategies => LoopInv)
<1>1. Init => (strat \in EbpfStrategies => LoopInv)
    BY LoopInvInit
<1>2. TypeOK /\ (strat \in EbpfStrategies => LoopInv) /\ [Next]_vars
          => (strat \in EbpfStrategies => LoopInv)'
    BY LoopInvStep, StratStays
<1> QED
    BY <1>1, <1>2, LoopTypeCorrect, PTL DEF Spec

\* The same where no other strategy is started.
LEMMA LoopInvariant ==
    ASSUME Chosen \subseteq EbpfStrategies PROVE Spec => []LoopInv
<1>1. TypeOK => strat \in EbpfStrategies
    BY DEF TypeOK
<1> QED
    BY <1>1, EbpfInvariant, LoopTypeCorrect, PTL

\* With any of the eBPF strategies, and however other goroutines open and close
\* descriptors of their own in between, the loop never closes one of theirs and
\* never standard output or error (ffi_close_fd and the closes of ebpf.cc).
THEOREM EbpfSparesPeers ==
    ASSUME Chosen \subseteq EbpfStrategies PROVE Spec => []PeersKeepTheirs
<1>1. LoopInv => PeersKeepTheirs
    BY DEF LoopInv
<1> QED
    BY <1>1, LoopInvariant, PTL

\* With any of the eBPF strategies, runEbpf attaches the program the verifier
\* accepted, and OnExecuteDone reads the map that program was loaded with.
THEOREM EbpfRunsWhatWasVerified ==
    ASSUME Chosen \subseteq EbpfStrategies PROVE Spec => []RunsVerifiedProgramOnLiveMap
<1>1. LoopInv => RunsVerifiedProgramOnLiveMap
    BY DEF LoopInv, MapLive, ProgHeld, Loaded, Accepted, RunsVerifiedProgramOnLiveMap
<1> QED
    BY <1>1, LoopInvariant, PTL

\* With any of the eBPF strategies the fuzzer panics in two places only: sending
\* the program that took the number of a closed standard input, and looking at the
\* elements of a live map that could not be read; never because of a stale map.
THEOREM EbpfPanicsAreExplained ==
    ASSUME Chosen \subseteq EbpfStrategies PROVE Spec => []PanicsExplained
<1>1. LoopInv => PanicsExplained
    BY DEF LoopInv
<1> QED
    BY <1>1, LoopInvariant, PTL

--------------------------------------------------------------------------------
(* The descriptors of the cBPF strategies.  They close numbers that are not  *)
(* theirs, so PeersKeepTheirs fails for them; but nothing of theirs stays.    *)

\* The labels that cBPF programs never reach.
EbpfSteps == {"createMap", "closeMap", "encode", "encodeError", "btfLoad", "progLoad", "attach",
              "closeProg", "generateError"}

\* The loop runs one of the repository's cBPF strategies, which creates neither
\* maps nor program descriptors.
RunsCbpf ==
    /\ strat \in CbpfStrategies /\ pc \notin EbpfSteps
    /\ \A f \in Fd : fds[f] \notin {"map", "prog"}

\* An open socket is one of the turn's pair, and the loop is still on its way to
\* closing it, or to halting.
PairHeld ==
    \A f \in Fd : fds[f] = "sock" =>
        \/ /\ f \in {sockW, sockR}
           /\ \/ pc \in {"attachFilter", "execute", "closeWrite", "outWrite",
                         "onError", "outerError", "halted"}
              \/ valid /\ pc \in {"coverage", "decode", "record", "onVerifyDone"}
        \/ f = sockR /\ pc \in {"read", "closeRead", "outRead"}

\* The kcov descriptor of the turn is closed once its coverage has been read.
CbpfKcovHeld ==
    kcovFd \in Fd /\ fds[kcovFd] = "kcov" => pc \in {"socketpair", "attachFilter", "coverage"}

CbpfInv == TypeOK /\ RunsCbpf /\ PairHeld /\ CbpfKcovHeld

\* What the cBPF strategies of the repository have in common.
LEMMA CbpfFacts ==
    ASSUME NEW s \in CbpfStrategies
    PROVE  /\ IsCbpf(s) /\ ~UsesMap(s) /\ ~ClosesMapFirst(s) /\ s \notin Custom
           /\ s # "loop_pointer_arithmetic" /\ OnError(s) = {FALSE}
           /\ \A b, c, d : \A a \in OnVerifyDone(s, b, c, d) : a.run = TRUE
<1>1. \A b, c, d : \A a \in OnVerifyDone(s, b, c, d) : a.run = TRUE
    BY DEF CbpfStrategies, Custom, OnVerifyDone, CountingOnVerifyDone, PlaygroundOnVerifyDone
<1> QED
    BY <1>1 DEF CbpfStrategies, IsCbpf, UsesMap, ClosesMapFirst, Custom, OnError

\* Every step of a loop that runs a cBPF strategy preserves the invariant, even if
\* another goroutine closes a number that has meanwhile become a socket.
LEMMA CbpfInvStep ==
    ASSUME CbpfInv, [Next]_vars
    PROVE  CbpfInv'
<1>1. TypeOK /\ TypeOK'
    BY LoopTypeStep DEF CbpfInv
<1>2. /\ IsCbpf(strat) /\ ~UsesMap(strat) /\ ~ClosesMapFirst(strat) /\ strat \notin Custom
      /\ strat # "loop_pointer_arithmetic" /\ OnError(strat) = {FALSE}
      /\ \A a \in OnVerifyDone(strat, valid, cov, isFinished) : a.run = TRUE
    BY CbpfFacts DEF CbpfInv, RunsCbpf
<1> USE FdFacts, <1>1, <1>2
    DEF TypeOK, CbpfInv, RunsCbpf, PairHeld, CbpfKcovHeld, EbpfSteps, Goto, stratVars, resVars,
        cVars, turnVars, peers, world
<1>3. CASE LoopTest
    BY <1>3 DEF LoopTest
<1>4. CASE GenerateWithoutMap
    BY <1>4 DEF GenerateWithoutMap
<1>5. CASE EnableCoverage
    <2>1. \/ fds' = fds /\ kcovFd' = NoFd
          \/ \E n \in Fd : /\ fds[n] = "free"
                           /\ \A f \in Fd : fds'[f] = IF f = n THEN "kcov" ELSE fds[f]
        BY <1>5, OpenAt DEF EnableCoverage, Owners
    <2> QED
        BY <1>5, <2>1 DEF EnableCoverage
<1>6. CASE CbpfSocketpair
    <2>1. \/ fds' = fds /\ pc' = "coverage" /\ sockW' = sockW /\ sockR' = sockR
          \/ /\ pc' = "attachFilter"
             /\ \A f \in Fd : \/ fds'[f] = fds[f] /\ f \notin {sockW', sockR'}
                              \/ fds'[f] = "sock" /\ fds[f] = "free" /\ f \in {sockW', sockR'}
        <3>1. CASE pc' = "coverage"
            BY <1>6, <3>1 DEF CbpfSocketpair
        <3>2. CASE pc' = "attachFilter"
            <4>1. PICK w, r \in Fd : /\ IsLowestFree(fds, w)
                                     /\ IsLowestFree(Open(fds, w, "sock"), r)
                                     /\ fds' = Open(Open(fds, w, "sock"), r, "sock")
                                     /\ sockW' = w /\ sockR' = r
                BY <1>6, <3>2 DEF CbpfSocketpair
            <4>2. /\ fds[w] = "free" /\ fds[r] = "free" /\ fds'[w] = "sock" /\ fds'[r] = "sock"
                  /\ \A f \in Fd : f \notin {w, r} => fds'[f] = fds[f]
                BY <4>1, OpenPairAt
            <4> QED
                BY <3>2, <4>1, <4>2
        <3> QED
            BY <1>6, <3>1, <3>2 DEF CbpfSocketpair
    <2>2. RunsCbpf' /\ CbpfKcovHeld'
        BY <1>6, <2>1 DEF CbpfSocketpair
    <2>3. PairHeld'
        BY <1>6, <2>1 DEF CbpfSocketpair
    <2> QED
        BY <2>2, <2>3
<1>7. CASE AttachFilter
    <2>1. \/ fds' = fds /\ valid'
          \/ \A f \in Fd : fds'[f] = IF f \in {sockW, sockR} THEN "free" ELSE fds[f]
        BY <1>7, ClosePairAt DEF AttachFilter
    <2> QED
        BY <1>7, <2>1 DEF AttachFilter
<1>8. CASE GetCoverage
    <2>1. \A f \in Fd : fds'[f] = IF f = kcovFd THEN "free" ELSE fds[f]
        BY <1>8 DEF GetCoverage, Close
    <2> QED
        BY <1>8, <2>1 DEF GetCoverage
<1>9. CASE DecodeValidation
    BY <1>9 DEF DecodeValidation
<1>10. CASE CallOnVerifyDone
    <2>1. pc' = IF valid THEN "execute" ELSE "drop"
        BY <1>10 DEF CallOnVerifyDone
    <2> QED
        BY <1>10, <2>1 DEF CallOnVerifyDone
<1>11. CASE DropProgram
    <2>1. \A f \in Fd : fds'[f] = IF f = programFd THEN "free" ELSE fds[f]
        BY <1>11 DEF DropProgram, Close
    <2> QED
        BY <1>11, <2>1 DEF DropProgram
<1>12. CASE CbpfWrite
    BY <1>12 DEF CbpfWrite
<1>13. CASE CbpfCloseWrite
    <2>1. \A f \in Fd : fds'[f] = IF f = sockW THEN "free" ELSE fds[f]
        BY <1>13 DEF CbpfCloseWrite, Close
    <2> QED
        BY <1>13, <2>1 DEF CbpfCloseWrite
<1>14. CASE CbpfRead
    BY <1>14 DEF CbpfRead
<1>15. CASE CbpfCloseRead
    <2>1. \A f \in Fd : fds'[f] = IF f = sockR THEN "free" ELSE fds[f]
        BY <1>15 DEF CbpfCloseRead, Close
    <2> QED
        BY <1>15, <2>1 DEF CbpfCloseRead
<1>16. CASE CbpfOutWrite
    <2>1. \A f \in Fd : fds'[f] = IF f = sockW THEN "free" ELSE fds[f]
        BY <1>16 DEF CbpfOutWrite, Close
    <2> QED
        BY <1>16, <2>1 DEF CbpfOutWrite
<1>17. CASE CbpfOutRead
    <2>1. \A f \in Fd : fds'[f] = IF f = sockR THEN "free" ELSE fds[f]
        BY <1>17 DEF CbpfOutRead, Close
    <2> QED
        BY <1>17, <2>1 DEF CbpfOutRead
<1>18. CASE DecodeExecution
    BY <1>18 DEF DecodeExecution
<1>19. CASE CallOnExecuteDone
    BY <1>19 DEF CallOnExecuteDone
<1>20. CASE InnerError
    BY <1>20 DEF InnerError
<1>21. CASE OuterError
    BY <1>21 DEF OuterError
<1>22. CASE PeerOpen
    <2>1. \E n \in Fd : \A f \in Fd : fds'[f] = IF f = n THEN "peer" ELSE fds[f]
        BY <1>22, OpenAt DEF PeerOpen, Owners
    <2> QED
        BY <1>22, <2>1 DEF PeerOpen, mainVars
<1>23. CASE PeerClose
    <2>1. PICK n \in peerFds : fds' = Close(fds, n)
        BY <1>23 DEF PeerClose
    <2>2. \A f \in Fd : fds'[f] = IF f = n THEN "free" ELSE fds[f]
        BY <2>1 DEF Close
    <2> QED
        BY <1>23, <2>2 DEF PeerClose, mainVars
<1>24. CASE UNCHANGED vars
    BY <1>24 DEF vars
<1>25. CASE RecordVerificationResults
    BY <1>25 DEF RecordVerificationResults
<1>26. CASE PeerLock \/ PeerUnlock
    BY <1>26 DEF PeerLock, PeerUnlock, mainVars
<1>27. ~(\/ CloseOldMap \/ CreateMapOrFail \/ LoopCreateMap \/ LoopCloseOldMap
         \/ GenerateError \/ Encode \/ EncodeError \/ EmptyCbpf \/ BtfLoad \/ ProgLoad
         \/ ExecuteEbpf \/ AttachAndRun \/ CloseProgram)
    BY DEF CloseOldMap, CreateMapOrFail, LoopCreateMap, LoopCloseOldMap, GenerateError, Encode,
           EncodeError, EmptyCbpf, BtfLoad, ProgLoad, ExecuteEbpf, AttachAndRun, CloseProgram,
           Custom
<1> QED
    BY <1>3, <1>4, <1>5, <1>6, <1>7, <1>8, <1>9, <1>10, <1>11, <1>12, <1>13, <1>14, <1>15,
       <1>16, <1>17, <1>18, <1>19, <1>20, <1>21, <1>22, <1>23, <1>24, <1>25, <1>26,
       <1>27
       DEF Next, Main, Generate, Validate, Execute, Exited

\* The invariant, for every behaviour that runs a cBPF strategy.
LEMMA CbpfInvariant == Spec => [](strat \in CbpfStrategies => CbpfInv)
<1>1. Init => (strat \in CbpfStrategies => CbpfInv)
    <2> SUFFICES ASSUME Init, strat \in CbpfStrategies PROVE CbpfInv
        OBVIOUS
    <2>1. \A f \in Fd : fds[f] \in {"std", "free"}
        BY DEF Init, AtStart
    <2> QED
        BY <2>1, LoopTypeInit, FdFacts
           DEF Init, CbpfInv, RunsCbpf, PairHeld, CbpfKcovHeld, EbpfSteps
<1>2. TypeOK /\ (strat \in CbpfStrategies => CbpfInv) /\ [Next]_vars
          => (strat \in CbpfStrategies => CbpfInv)'
    BY CbpfInvStep, StratStays
<1> QED
    BY <1>1, <1>2, LoopTypeCorrect, PTL DEF Spec

\* A turn of RunFuzzer that comes round to the loop condition has closed its
\* program, its sockets, the kcov descriptor it read coverage from and every map
\* but the current one: with each strategy of the repository, on every error path
\* of ebpf.cc and cbpf.cc, and however the other goroutines use the table.
THEOREM TurnsDoNotLeak == Spec => []TurnReturnsDescriptors
<1>1. ASSUME LoopInv PROVE TurnReturnsDescriptors
    BY <1>1, FdFacts DEF LoopInv, TypeOK, MapHeld, ProgHeld, SocksHeld, KcovHeld, Loaded,
                         TurnReturnsDescriptors, Owned, FdOrNone
<1>2. ASSUME CbpfInv PROVE TurnReturnsDescriptors
    BY <1>2, FdFacts DEF CbpfInv, TypeOK, RunsCbpf, PairHeld, CbpfKcovHeld,
                         TurnReturnsDescriptors, Owned, FdOrNone
<1>3. ASSUME TypeOK, strat \in EbpfStrategies => LoopInv, strat \in CbpfStrategies => CbpfInv
      PROVE  TurnReturnsDescriptors
    <2>1. CASE strat \in Custom
        BY <2>1 DEF TurnReturnsDescriptors
    <2> QED
        BY <1>1, <1>2, <1>3, <2>1, ChosenAssumption DEF TypeOK, AllStrategies
<1> QED
    BY <1>3, LoopTypeCorrect, EbpfInvariant, CbpfInvariant, PTL

--------------------------------------------------------------------------------
(* The verdicts of the oracles. *)

\* A verdict is given by the last step of a turn, and the next turn begins by
\* forgetting it together with the result it was about.
VerdictAtTurnEnd == verdict # "none" => pc = "loop"

\* Where the strategy has its new map, and where the program may have run.
OnNewMap == Steps \ {"loop", "generate", "createMap", "closeMap", "generateError", "encodeError",
                     "onError", "outerError", "write"}
AfterRun == {"closeProg", "result", "onExecuteDone", "onError", "outerError", "loop"} \cup Final

\* A program runs once a turn, at its end.
RanAtEnd == ran => pc \in AfterRun

\* The map of the turn is blank until the program of the turn has run.
BlankUntilRun == pc \in OnNewMap /\ UsesMap(strat) /\ ~ran => cells = BlankMap(strat)

VerdictInv == VerdictAtTurnEnd /\ RanAtEnd /\ BlankUntilRun /\ OthersReportOnlyRuns

\* pointer_arithmetic and loop_pointer_arithmetic find nothing wrong with a blank
\* map, and the strategies without a map never find anything wrong.
LEMMA BlankIsExpected ==
    ASSUME NEW s \in (EbpfStrategies \cup CbpfStrategies) \ {"coverage_based"}, NEW got, NEW c,
           NEW d, UsesMap(s) => c = BlankMap(s)
    PROVE  \A a \in OnExecuteDone(s, got, c, d) : a.ok = TRUE
<1>1. CASE UsesMap(s)
    <2>1. c[0] = 0 /\ c[1] = 0 /\ s \in {"pointer_arithmetic", "loop_pointer_arithmetic"}
        BY <1>1 DEF UsesMap, BlankMap, MapKeys
    <2>2. /\ \A a \in PointerArithmeticOnExecuteDone(got, c, d) : a.ok = TRUE
          /\ \A a \in LoopOnExecuteDone(got, c, d) : a.ok = TRUE
        BY <2>1 DEF PointerArithmeticOnExecuteDone, LoopOnExecuteDone
    <2> QED
        BY <2>1, <2>2 DEF OnExecuteDone, Custom
<1>2. CASE ~UsesMap(s)
    <2>1. s \notin Custom \cup {"pointer_arithmetic", "loop_pointer_arithmetic"}
        BY <1>2 DEF UsesMap, EbpfStrategies, CbpfStrategies, Custom
    <2> QED
        BY <2>1 DEF OnExecuteDone
<1> QED
    BY <1>1, <1>2

\* What the steps that neither begin a turn, nor change a map, nor give a verdict
\* leave alone, and where they lead.
LEMMA QuietStep ==
    ASSUME TypeOK, Next, ~LoopTest, ~CreateMapOrFail, ~LoopCloseOldMap, ~AttachAndRun,
           ~CbpfCloseRead, ~CallOnExecuteDone
    PROVE  /\ verdict' = verdict /\ ran' = ran /\ cells' = cells
           /\ pc' = pc \/ pc # "loop"
           /\ pc \in AfterRun => pc' \in AfterRun
           /\ pc' \in OnNewMap /\ UsesMap(strat) => pc \in OnNewMap
<1> USE DEF TypeOK, Goto, stratVars, resVars, cVars, turnVars, peers, world, Steps, Final,
            OnNewMap, AfterRun
<1>1. CASE GenerateWithoutMap \/ CloseOldMap \/ LoopCreateMap \/ GenerateError
    BY <1>1 DEF GenerateWithoutMap, CloseOldMap, LoopCreateMap, GenerateError
<1>2. CASE Encode \/ EncodeError \/ EnableCoverage \/ EmptyCbpf \/ BtfLoad
    BY <1>2 DEF Encode, EncodeError, EnableCoverage, EmptyCbpf, BtfLoad
<1>3. CASE ProgLoad \/ CbpfSocketpair \/ AttachFilter \/ GetCoverage
    BY <1>3 DEF ProgLoad, CbpfSocketpair, AttachFilter, GetCoverage
<1>4. CASE DecodeValidation \/ RecordVerificationResults \/ CallOnVerifyDone \/ DropProgram
    BY <1>4 DEF DecodeValidation, RecordVerificationResults, CallOnVerifyDone, DropProgram
<1>5. CASE ExecuteEbpf \/ CloseProgram
    BY <1>5 DEF ExecuteEbpf, CloseProgram
<1>6. CASE CbpfWrite \/ CbpfCloseWrite \/ CbpfRead \/ CbpfOutWrite \/ CbpfOutRead
    BY <1>6 DEF CbpfWrite, CbpfCloseWrite, CbpfRead, CbpfOutWrite, CbpfOutRead
<1>7. CASE DecodeExecution \/ InnerError \/ OuterError
    BY <1>7 DEF DecodeExecution, InnerError, OuterError
<1>8. CASE PeerOpen \/ PeerClose \/ PeerLock \/ PeerUnlock \/ Exited
    BY <1>8 DEF PeerOpen, PeerClose, PeerLock, PeerUnlock, Exited, mainVars, vars
<1> QED
    BY <1>1, <1>2, <1>3, <1>4, <1>5, <1>6, <1>7, <1>8
       DEF Next, Main, Generate, Validate, Execute

\* The verdict, the result it is about and the map it was read from change together.
LEMMA VerdictStep ==
    ASSUME TypeOK, VerdictInv, [Next]_vars
    PROVE  VerdictInv'
<1>1. strat \in AllStrategies /\ strat' = strat
    BY ChosenAssumption, StratStays DEF TypeOK
<1> USE <1>1 DEF VerdictInv, VerdictAtTurnEnd, RanAtEnd, BlankUntilRun, OthersReportOnlyRuns
<1>2. CASE LoopTest
    <2>1. verdict' = "none" /\ ran' = FALSE /\ pc' \in {"generate", "returned"}
        BY <1>2 DEF LoopTest, Goto
    <2> QED
        BY <2>1 DEF OnNewMap, Steps
<1>3. CASE CreateMapOrFail
    BY <1>3 DEF CreateMapOrFail, AfterRun, OnNewMap, Final, turnVars, Goto
<1>4. CASE LoopCloseOldMap
    BY <1>4 DEF LoopCloseOldMap, AfterRun, Final, turnVars, Goto
<1>5. CASE AttachAndRun
    <2>1. pc = "attach" /\ pc' = "closeProg" /\ verdict' = verdict /\ ~ran
        BY <1>5 DEF AttachAndRun, AfterRun, Final, Goto
    <2>2. UsesMap(strat) => cells = BlankMap(strat)
        BY <2>1 DEF OnNewMap, Steps
    <2>3. ~ran' => cells' = cells
        BY <1>5 DEF AttachAndRun
    <2> QED
        BY <2>1, <2>2, <2>3 DEF AfterRun
<1>6. CASE CbpfCloseRead
    BY <1>6 DEF CbpfCloseRead, AfterRun, Goto
<1>7. CASE CallOnExecuteDone
    <2>1. pc = "onExecuteDone" /\ ran' = ran /\ cells' = cells
        BY <1>7 DEF CallOnExecuteDone, world
    <2>2. CASE verdict' = verdict /\ pc' = "crashed"
        BY <2>1, <2>2 DEF AfterRun, OnNewMap, Steps, Final
    <2>3. CASE \E got : \E a \in OnExecuteDone(strat, got, cells, isFinished) :
                  verdict' = (IF a.ok THEN "expected" ELSE "unexpected") /\ pc' = "loop"
        <3>1. PICK got : \E a \in OnExecuteDone(strat, got, cells, isFinished) :
                  verdict' = (IF a.ok THEN "expected" ELSE "unexpected") /\ pc' = "loop"
            BY <2>3
        <3>2. PICK a \in OnExecuteDone(strat, got, cells, isFinished) :
                  verdict' = (IF a.ok THEN "expected" ELSE "unexpected") /\ pc' = "loop"
            BY <3>1
        <3>3. ~ran /\ UsesMap(strat) => cells = BlankMap(strat)
            BY <2>1 DEF OnNewMap, Steps
        <3>4. strat \notin Custom \cup {"coverage_based"} /\ ~ran => a.ok = TRUE
            BY <3>3, BlankIsExpected DEF AllStrategies
        <3> QED
            BY <2>1, <3>2, <3>4 DEF AfterRun, OnNewMap
    <2> QED
        BY <1>7, <2>2, <2>3 DEF CallOnExecuteDone, Goto
<1>8. CASE Next /\ ~LoopTest /\ ~CreateMapOrFail /\ ~LoopCloseOldMap /\ ~AttachAndRun
           /\ ~CbpfCloseRead /\ ~CallOnExecuteDone
    BY <1>8, QuietStep
<1>9. CASE UNCHANGED vars
    BY <1>9 DEF vars, turnVars, world
<1> QED
    BY <1>2, <1>3, <1>4, <1>5, <1>6, <1>7, <1>8, <1>9

\* With the strategies of the repository, an unexpected result is one of a program
\* that ran, unless coverage_based reports it: GenerateProgram makes a new map every
\* turn, nothing but the program of the turn writes to it, and the other oracles
\* find nothing wrong with a blank one (OnExecuteDone).  A strategy of one's own is
\* free to answer anything.
THEOREM ReportsAreAboutRuns == Spec => []OthersReportOnlyRuns
<1>1. Init => VerdictInv
    BY DEF Init, VerdictInv, VerdictAtTurnEnd, RanAtEnd, BlankUntilRun, OthersReportOnlyRuns,
           OnNewMap
<1>2. TypeOK /\ VerdictInv /\ [Next]_vars => VerdictInv'
    BY VerdictStep
<1>3. VerdictInv => OthersReportOnlyRuns
    BY DEF VerdictInv
<1> QED
    BY <1>1, <1>2, <1>3, LoopTypeCorrect, PTL DEF Spec

--------------------------------------------------------------------------------
(* The order of the callbacks, for every strategy. *)

\* Every step of the loop is a step of the protocol, or none.
LEMMA ProtocolStep ==
    ASSUME TypeOK, [Next]_vars PROVE [Protocol!Next]_(Protocol!pvars)
<1>1. valid \in BOOLEAN
    BY DEF TypeOK
<1> USE <1>1 DEF PhaseOf, Goto, Protocol!pvars, Protocol!Leave, stratVars, resVars, cVars,
                 turnVars, peers, world
<1>2. CASE LoopTest
    BY <1>2 DEF LoopTest, Protocol!Next, Protocol!Ask
<1>3. CASE GenerateWithoutMap
    BY <1>3 DEF GenerateWithoutMap, Protocol!Next, Protocol!Generated
<1>4. CASE CloseOldMap
    BY <1>4 DEF CloseOldMap
<1>5. CASE CreateMapOrFail
    BY <1>5 DEF CreateMapOrFail, Protocol!Next, Protocol!Generated
<1>6. CASE LoopCreateMap
    BY <1>6 DEF LoopCreateMap
<1>7. CASE LoopCloseOldMap
    BY <1>7 DEF LoopCloseOldMap, Protocol!Next, Protocol!Generated
<1>8. CASE GenerateError
    BY <1>8 DEF GenerateError, Protocol!Next, Protocol!Answered
<1>9. CASE Encode
    BY <1>9 DEF Encode, Protocol!Next, Protocol!Validated
<1>10. CASE EncodeError
    BY <1>10 DEF EncodeError, Protocol!Next, Protocol!Answered
<1>11. CASE EnableCoverage
    BY <1>11 DEF EnableCoverage
<1>12. CASE EmptyCbpf
    BY <1>12 DEF EmptyCbpf, Protocol!Next, Protocol!Validated
<1>13. CASE BtfLoad
    BY <1>13 DEF BtfLoad
<1>14. CASE ProgLoad
    BY <1>14 DEF ProgLoad
<1>15. CASE CbpfSocketpair
    BY <1>15 DEF CbpfSocketpair
<1>16. CASE AttachFilter
    BY <1>16 DEF AttachFilter
<1>17. CASE GetCoverage
    BY <1>17 DEF GetCoverage
<1>18. CASE DecodeValidation
    BY <1>18 DEF DecodeValidation, Protocol!Next, Protocol!Validated
<1>19. CASE CallOnVerifyDone
    BY <1>19 DEF CallOnVerifyDone, Protocol!Next, Protocol!Decided
<1>20. CASE DropProgram
    BY <1>20 DEF DropProgram, Protocol!Next, Protocol!Decided
<1>21. CASE ExecuteEbpf
    BY <1>21 DEF ExecuteEbpf, Protocol!Next, Protocol!Executed
<1>22. CASE AttachAndRun
    BY <1>22 DEF AttachAndRun
<1>23. CASE CloseProgram
    BY <1>23 DEF CloseProgram
<1>24. CASE CbpfWrite
    BY <1>24 DEF CbpfWrite
<1>25. CASE CbpfCloseWrite
    BY <1>25 DEF CbpfCloseWrite
<1>26. CASE CbpfRead
    BY <1>26 DEF CbpfRead
<1>27. CASE CbpfCloseRead
    BY <1>27 DEF CbpfCloseRead
<1>28. CASE CbpfOutWrite
    BY <1>28 DEF CbpfOutWrite
<1>29. CASE CbpfOutRead
    BY <1>29 DEF CbpfOutRead
<1>30. CASE DecodeExecution
    BY <1>30 DEF DecodeExecution, Protocol!Next, Protocol!Executed
<1>31. CASE CallOnExecuteDone
    BY <1>31 DEF CallOnExecuteDone, Protocol!Next, Protocol!Judged
<1>32. CASE InnerError
    BY <1>32 DEF InnerError, Protocol!Next, Protocol!Answered
<1>33. CASE OuterError
    BY <1>33 DEF OuterError, Protocol!Next, Protocol!Answered
<1>34. CASE PeerOpen
    BY <1>34 DEF PeerOpen, mainVars
<1>35. CASE PeerClose
    BY <1>35 DEF PeerClose, mainVars
<1>36. CASE UNCHANGED vars
    BY <1>36 DEF vars
<1>37. CASE RecordVerificationResults
    BY <1>37 DEF RecordVerificationResults, Protocol!Next, Protocol!Validated
<1>38. CASE PeerLock \/ PeerUnlock
    BY <1>38 DEF PeerLock, PeerUnlock, mainVars
<1> QED
    BY <1>2, <1>3, <1>4, <1>5, <1>6, <1>7, <1>8, <1>9, <1>10, <1>11, <1>12, <1>13, <1>14,
       <1>15, <1>16, <1>17, <1>18, <1>19, <1>20, <1>21, <1>22, <1>23, <1>24, <1>25, <1>26,
       <1>27, <1>28, <1>29, <1>30, <1>31, <1>32, <1>33, <1>34, <1>35, <1>36,
       <1>37, <1>38
       DEF Next, Main, Generate, Validate, Execute, Exited

\* RunFuzzer calls any implementation of Strategy in the order the interface
\* promises: the loop implements StrategyProtocol.
THEOREM LoopFollowsProtocol == Spec => FollowsProtocol
<1>1. Init => Protocol!Init
    BY DEF Init, Protocol!Init, PhaseOf
<1>2. TypeOK /\ [Next]_vars => [Protocol!Next]_(Protocol!pvars)
    BY ProtocolStep
<1> QED
    BY <1>1, <1>2, LoopTypeCorrect, PTL DEF Spec, FollowsProtocol, Protocol!Spec

================================================================================
