------------------------------- MODULE FuzzLoop --------------------------------
(***************************************************************************)
(* The fuzzing loop of buzzer: Control.RunFuzzer, the FFI unit and the C    *)
(* layer below it, driven by one strategy, over the descriptor table of the *)
(* process.  The main goroutine takes one system call or one callback per   *)
(* step (pc); between any two of its steps another goroutine (a connection  *)
(* of the metrics server, the pipes of addr2line) may open a descriptor or  *)
(* close one of its own, and take or give back metricsLock.                 *)
(*                                                                          *)
(* The locals of one turn of the loop (the validation result, the sockets,  *)
(* the kcov descriptor, the execution result) are variables of the module   *)
(* that LoopTest resets.  Whether a program is sampled for coverage is the  *)
(* metrics unit's decision (module Metrics); here it is a free choice.      *)
(***************************************************************************)
EXTENDS Descriptors, Strategies, FiniteSets

CONSTANTS Chosen,     \* the strategies this instance may be started with
          MaxPeers    \* bound: descriptors other goroutines hold at a time

ASSUME ChosenAssumption   == Chosen \subseteq AllStrategies
ASSUME MaxPeersAssumption == MaxPeers \in Nat

VARIABLES
    pc,          \* where the main goroutine is
    strat,       \* cu.strat
    isFinished,  \* the strategy's isFinished
    mapFd,       \* the strategy's mapFd
    newFd,       \* the loop strategy's local mapFd, before it is stored
    valid, cov,  \* ValidationResult: is_valid, did_collect_coverage
    programFd,   \* ValidationResult: program_fd
    kcovFd,      \* coverage_data.fd
    sockW, sockR,\* the socket pair: socks[1], socks[0] for eBPF, socks[0], socks[1] for cBPF
    ran,         \* ExecutionResult: did_succeed
    verdict,     \* what OnExecuteDone answered: "none", "expected", "unexpected"
    panic,       \* where the main goroutine panicked: "none", "request", "elements"
    fds,         \* the descriptor table
    cells,       \* the contents of the strategy's current map
    peerFds,     \* the numbers other goroutines believe they hold
    metricsHeld  \* metricsLock is held by another goroutine

stratVars == <<strat, isFinished, mapFd, newFd>>
resVars   == <<valid, cov, programFd>>
cVars     == <<kcovFd, sockW, sockR>>
turnVars  == <<ran, verdict, panic>>
peers     == <<peerFds, metricsHeld>>
world     == <<fds, cells, peers>>
vars      == <<pc, stratVars, resVars, cVars, turnVars, world>>

\* main has returned, log.Fatalf was called, or the goroutine panicked: the
\* process is gone, and its other goroutines with it.
Final == {"returned", "halted", "crashed"}

Steps == {"loop", "generate", "createMap", "closeMap", "generateError", "encode", "encodeError",
          "validate", "btfLoad", "progLoad", "socketpair", "attachFilter", "coverage",
          "decode", "record", "onVerifyDone", "drop", "execute", "attach", "closeProg", "write",
          "closeWrite", "read", "closeRead", "outWrite", "outRead", "result",
          "onExecuteDone", "onError", "outerError"}

Init ==
    /\ pc = "loop"
    /\ strat \in Chosen
    /\ isFinished = FALSE
    /\ mapFd = InitialMapFd(strat)
    /\ newFd = NoFd
    /\ valid = FALSE /\ cov = FALSE /\ programFd = NoFd
    /\ kcovFd = NoFd /\ sockW = NoFd /\ sockR = NoFd
    /\ ran = FALSE /\ verdict = "none" /\ panic = "none"
    /\ fds = AtStart
    /\ cells = BlankMap(strat)
    /\ peerFds = {}
    /\ metricsHeld = FALSE

Goto(label) == pc' = label

--------------------------------------------------------------------------------
(* Control.RunFuzzer: the loop condition. *)

LoopTest ==
    /\ pc = "loop"
    /\ Goto(IF isFinished THEN "returned" ELSE "generate")
    /\ valid' = FALSE /\ cov' = FALSE
    \* program_fd of a cBPF result is never set and reads as 0.
    /\ programFd' = IF IsCbpf(strat) THEN 0 ELSE NoFd
    /\ kcovFd' = NoFd /\ sockW' = NoFd /\ sockR' = NoFd
    /\ ran' = FALSE /\ verdict' = "none"
    /\ newFd' = NoFd
    /\ UNCHANGED <<strat, isFinished, mapFd, panic, world>>

--------------------------------------------------------------------------------
(* Strategy.GenerateProgram.  The instructions themselves are abstracted;  *)
(* what is left is what generating one does to the strategy's map.         *)

\* The strategies without a map; a custom one may report an error.
GenerateWithoutMap ==
    /\ pc = "generate"
    /\ ~UsesMap(strat)
    /\ \/ Goto(IF IsCbpf(strat) THEN "validate" ELSE "encode")
       \/ strat \in Custom /\ Goto("generateError")
    /\ UNCHANGED <<stratVars, resVars, cVars, turnVars, world>>

\* The mistake of going on with the map of the turn before.
CloseOldMapReuse ==
    /\ pc = "generate"
    /\ ClosesMapFirst(strat)
    /\ Goto(IF mapFd \in Fd /\ fds[mapFd] = "map" THEN "encode" ELSE "createMap")
    /\ UNCHANGED <<stratVars, resVars, cVars, turnVars, world>>

\* pointer_arithmetic and coverage_based: ffi.CloseFD(mapFd) ...
CloseOldMap ==
    /\ pc = "generate"
    /\ ClosesMapFirst(strat)
    /\ fds' = Close(fds, mapFd)
    /\ Goto("createMap")
    /\ UNCHANGED <<stratVars, resVars, cVars, turnVars, cells, peers>>

\* The mistake of handing on the kernel's -errno.
CreateMapErrno ==
    /\ pc = "createMap"
    /\ mapFd' = -12
    /\ Goto("generateError")
    /\ UNCHANGED <<strat, isFinished, newFd, resVars, cVars, turnVars, world>>

\* ... then mapFd = ffi.CreateMapArray(n), and a failure is an error.
CreateMapOrFail ==
    /\ pc = "createMap"
    /\ \/ \E f \in Fd : /\ IsLowestFree(fds, f)
                        /\ fds' = Open(fds, f, "map")
                        /\ mapFd' = f
                        /\ cells' = BlankMap(strat)
                        /\ Goto("encode")
       \/ /\ mapFd' = NoFd
          /\ UNCHANGED <<fds, cells>>
          /\ Goto("generateError")
    /\ UNCHANGED <<strat, isFinished, newFd, resVars, cVars, turnVars, peers>>

\* loop_pointer_arithmetic creates the new map first and does not look at
\* the result ...
LoopCreateMap ==
    /\ pc = "generate"
    /\ strat = "loop_pointer_arithmetic"
    /\ \/ \E f \in Fd : /\ IsLowestFree(fds, f)
                        /\ fds' = Open(fds, f, "map")
                        /\ newFd' = f
       \/ newFd' = NoFd /\ fds' = fds
    /\ Goto("closeMap")
    /\ UNCHANGED <<strat, isFinished, mapFd, resVars, cVars, turnVars, cells, peers>>

\* ... then it closes the old one and stores the number of the new, blank one.
LoopCloseOldMap ==
    /\ pc = "closeMap"
    /\ fds' = Close(fds, mapFd)
    /\ mapFd' = newFd
    /\ cells' = BlankMap(strat)
    /\ newFd' = NoFd
    /\ Goto("encode")
    /\ UNCHANGED <<strat, isFinished, resVars, cVars, turnVars, peers>>

\* RunFuzzer asks OnError about a generation error, once.
GenerateError ==
    /\ pc = "generateError"
    /\ \E continue \in OnError(strat) : Goto(IF continue THEN "loop" ELSE "halted")
    /\ UNCHANGED <<stratVars, resVars, cVars, turnVars, world>>

--------------------------------------------------------------------------------
(* Control.runEbpf, up to the call of ValidateEbpfProgram. *)

\* EncodeInstructions.  The programs of the strategies in the repository
\* encode and are not empty; one of a custom strategy may fail either way.
Encode ==
    /\ pc = "encode"
    /\ \/ Goto("validate")
       \/ strat \in Custom /\ Goto("encodeError")
       \/ strat \in Custom /\ Goto("onError")          \* "cannot run empty program"
    /\ UNCHANGED <<stratVars, resVars, cVars, turnVars, world>>

\* Continuing after an encoding error goes on with a nil program, which
\* ValidateEbpfProgram reports as another error.
EncodeError ==
    /\ pc = "encodeError"
    /\ \E continue \in OnError(strat) : Goto(IF continue THEN "onError" ELSE "outerError")
    /\ UNCHANGED <<stratVars, resVars, cVars, turnVars, world>>

--------------------------------------------------------------------------------
(* ValidateEbpfProgram / ValidateCbpfProgram and the C functions below.    *)

\* ShouldGetCoverage counts the program under metricsLock.  Then
\* enable_coverage: not wanted or not available; opened but not set up, and
\* then forgotten with coverage_info->fd still -1; or enabled.
EnableCoverage ==
    /\ pc = "validate"
    /\ ~metricsHeld
    /\ \/ kcovFd' = NoFd /\ fds' = fds
       \/ \E f \in Fd : /\ IsLowestFree(fds, f)
                        /\ fds' = Open(fds, f, "kcov")
                        /\ kcovFd' \in {NoFd, f}
    /\ Goto(IF IsCbpf(strat) THEN "socketpair" ELSE "btfLoad")
    /\ UNCHANGED <<stratVars, resVars, sockW, sockR, turnVars, cells, peers>>

\* An empty cBPF program of a custom strategy never reaches the C layer.
EmptyCbpf ==
    /\ pc = "validate"
    /\ strat = "custom_cbpf"
    /\ Goto("onError")
    /\ UNCHANGED <<stratVars, resVars, cVars, turnVars, world>>

\* btf_load; the descriptor it returns is only ever put into prog_btf_fd.
BtfLoad ==
    /\ pc = "btfLoad"
    /\ \/ fds' = fds
       \/ /\ MayHaveBtf(strat)
          /\ \E f \in Fd : IsLowestFree(fds, f) /\ fds' = Open(fds, f, "btf")
    /\ Goto("progLoad")
    /\ UNCHANGED <<stratVars, resVars, cVars, turnVars, cells, peers>>

\* BPF_PROG_LOAD.  The verifier looks the map up by the number in the
\* program's LdMapByFd instruction, which is the strategy's mapFd.
ProgLoad ==
    /\ pc = "progLoad"
    /\ \/ valid' = FALSE /\ programFd' = NoFd /\ fds' = fds
       \/ /\ UsesMap(strat) => mapFd \in Fd /\ fds[mapFd] = "map"
          /\ \E f \in Fd : /\ IsLowestFree(fds, f)
                           /\ fds' = Open(fds, f, "prog")
                           /\ programFd' = f
          /\ valid' = TRUE
    /\ Goto("coverage")
    /\ UNCHANGED <<stratVars, cov, cVars, turnVars, cells, peers>>

\* load_cbpf_program: the socket pair ...
CbpfSocketpair ==
    /\ pc = "socketpair"
    /\ \/ /\ valid' = FALSE
          /\ Goto("coverage")
          /\ UNCHANGED <<sockW, sockR, fds>>
       \/ /\ \E w, r \in Fd : /\ IsLowestFree(fds, w)
                              /\ IsLowestFree(Open(fds, w, "sock"), r)
                              /\ fds' = Open(Open(fds, w, "sock"), r, "sock")
                              /\ sockW' = w /\ sockR' = r
          /\ Goto("attachFilter")
          /\ UNCHANGED valid
    /\ UNCHANGED <<stratVars, cov, programFd, kcovFd, turnVars, cells, peers>>

\* The mistake of leaving the pair open when the filter is refused.
AttachFilterKeepPair ==
    /\ pc = "attachFilter"
    /\ valid' \in BOOLEAN
    /\ Goto("coverage")
    /\ UNCHANGED <<stratVars, cov, programFd, cVars, fds, turnVars, cells, peers>>

\* ... SO_RCVTIMEO and SO_ATTACH_FILTER; out_error closes both ends.
AttachFilter ==
    /\ pc = "attachFilter"
    /\ \/ valid' = TRUE /\ fds' = fds
       \/ valid' = FALSE /\ fds' = Close(Close(fds, sockW), sockR)
    /\ Goto("coverage")
    /\ UNCHANGED <<stratVars, cov, programFd, cVars, turnVars, cells, peers>>

\* get_coverage_and_free_resources; the result of a cBPF program that was
\* refused is sent back before did_collect_coverage is set.
GetCoverage ==
    /\ pc = "coverage"
    /\ fds' = Close(fds, kcovFd)
    /\ cov' = (kcovFd # NoFd /\ (IsCbpf(strat) => valid))
    /\ Goto("decode")
    /\ UNCHANGED <<stratVars, valid, programFd, cVars, turnVars, cells, peers>>

\* validationProtoFromStruct: an undecodable result is an error, and the
\* program it was about stays loaded.
DecodeValidation ==
    /\ pc = "decode"
    /\ pc' \in {"record", "onError"}
    /\ UNCHANGED <<stratVars, resVars, cVars, turnVars, world>>

\* RecordVerificationResults counts a valid program under metricsLock; what it
\* keeps of the result is module Metrics.
RecordVerificationResults ==
    /\ pc = "record"
    /\ valid => ~metricsHeld
    /\ Goto("onVerifyDone")
    /\ UNCHANGED <<stratVars, resVars, cVars, turnVars, world>>

--------------------------------------------------------------------------------
(* runEbpf / runCbpf after the verifier. *)

\* Mistakes: releasing the program before it is run; not looking at IsValid.
CallOnVerifyDoneCloseEarly ==
    /\ pc = "onVerifyDone"
    /\ \E a \in OnVerifyDone(strat, valid, cov, isFinished) :
         /\ isFinished' = a.done
         /\ Goto(IF a.run /\ valid THEN "execute" ELSE "loop")
    /\ fds' = Close(fds, programFd)
    /\ UNCHANGED <<strat, mapFd, newFd, resVars, cVars, turnVars, cells, peers>>

CallOnVerifyDoneTrusting ==
    /\ pc = "onVerifyDone"
    /\ \E a \in OnVerifyDone(strat, valid, cov, isFinished) :
         /\ isFinished' = a.done
         /\ Goto(IF a.run THEN "execute" ELSE "drop")
    /\ UNCHANGED <<strat, mapFd, newFd, resVars, cVars, turnVars, world>>

\* if !OnVerifyDone(...) || !IsValid
CallOnVerifyDone ==
    /\ pc = "onVerifyDone"
    /\ \E a \in OnVerifyDone(strat, valid, cov, isFinished) :
         /\ isFinished' = a.done
         /\ Goto(IF a.run /\ valid THEN "execute" ELSE "drop")
    /\ UNCHANGED <<strat, mapFd, newFd, resVars, cVars, turnVars, world>>

\* The mistake of forgetting a program that will not be run.
DropProgramKeepFd ==
    /\ pc = "drop"
    /\ Goto("loop")
    /\ UNCHANGED <<stratVars, resVars, cVars, turnVars, world>>

\* ffi.CloseFD(ProgramFd), for eBPF and for cBPF alike.
DropProgram ==
    /\ pc = "drop"
    /\ fds' = Close(fds, programFd)
    /\ Goto("loop")
    /\ UNCHANGED <<stratVars, resVars, cVars, turnVars, cells, peers>>

\* RunEbpfProgram and execute_ebpf_program up to the socket pair.  A request
\* whose only field is 0 is an empty proto3 message, and taking the address
\* of its first byte panics.
ExecuteEbpf ==
    /\ pc = "execute"
    /\ ~IsCbpf(strat)
    /\ \/ /\ programFd = 0
          /\ Goto("crashed")
          /\ panic' = "request"
          /\ UNCHANGED <<sockW, sockR, fds>>
       \/ /\ programFd # 0
          /\ Goto("closeProg")
          /\ UNCHANGED <<sockW, sockR, fds, panic>>
       \/ /\ programFd # 0
          /\ \E r, w \in Fd : /\ IsLowestFree(fds, r)
                              /\ IsLowestFree(Open(fds, r, "sock"), w)
                              /\ fds' = Open(Open(fds, r, "sock"), w, "sock")
                              /\ sockR' = r /\ sockW' = w
          /\ Goto("attach")
          /\ UNCHANGED panic
    /\ UNCHANGED <<stratVars, resVars, kcovFd, ran, verdict, cells, peers>>

\* SO_ATTACH_BPF and the write that runs the program; every way out closes
\* both sockets.  A program that runs leaves what it likes in its map; one that
\* cannot be attached, or whose packet is not sent, does not run.
AttachAndRun ==
    /\ pc = "attach"
    /\ ran' \in {FALSE, fds[programFd] = "prog"}
    /\ cells' \in IF ran' /\ UsesMap(strat) THEN [MapKeys(strat) -> Values] ELSE {cells}
    /\ fds' = Close(Close(fds, sockR), sockW)
    /\ Goto("closeProg")
    /\ UNCHANGED <<stratVars, resVars, cVars, verdict, panic, peers>>

\* CloseFD(ProgramFd), before the error of RunEbpfProgram is looked at.
CloseProgram ==
    /\ pc = "closeProg"
    /\ fds' = Close(fds, programFd)
    /\ Goto("result")
    /\ UNCHANGED <<stratVars, resVars, cVars, turnVars, cells, peers>>

--------------------------------------------------------------------------------
(* execute_cbpf_program *)

CbpfWrite ==
    /\ pc = "execute"
    /\ IsCbpf(strat)
    /\ pc' \in {"closeWrite", "outWrite"}
    /\ UNCHANGED <<stratVars, resVars, cVars, turnVars, world>>

CbpfCloseWrite ==
    /\ pc = "closeWrite"
    /\ fds' = Close(fds, sockW)
    /\ Goto("read")
    /\ UNCHANGED <<stratVars, resVars, cVars, turnVars, cells, peers>>

\* The mistake of a read without a timeout: it returns only if the filter
\* has let the packet pass.
CbpfReadForever ==
    /\ pc = "read"
    /\ strat = "cbpf_playground"
    /\ Goto("closeRead")
    /\ UNCHANGED <<stratVars, resVars, cVars, turnVars, world>>

\* The packet arrives, or it is dropped or cut short and the read fails, at
\* the latest when SO_RCVTIMEO expires.
CbpfRead ==
    /\ pc = "read"
    /\ pc' \in {"closeRead", "outWrite"}
    /\ UNCHANGED <<stratVars, resVars, cVars, turnVars, world>>

CbpfCloseRead ==
    /\ pc = "closeRead"
    /\ fds' = Close(fds, sockR)
    /\ ran' = TRUE
    /\ Goto("result")
    /\ UNCHANGED <<stratVars, resVars, cVars, verdict, panic, cells, peers>>

\* out: close(socket_write), also when it has been closed already.
CbpfOutWrite ==
    /\ pc = "outWrite"
    /\ fds' = Close(fds, sockW)
    /\ Goto("outRead")
    /\ UNCHANGED <<stratVars, resVars, cVars, turnVars, cells, peers>>

CbpfOutRead ==
    /\ pc = "outRead"
    /\ fds' = Close(fds, sockR)
    /\ Goto("result")
    /\ UNCHANGED <<stratVars, resVars, cVars, turnVars, cells, peers>>

--------------------------------------------------------------------------------
(* The result of the execution, and errors. *)

\* The mistake of closing the program once more on the error path.
DecodeExecutionCloseAgain ==
    /\ pc = "result"
    /\ \/ Goto("onExecuteDone") /\ fds' = fds
       \/ Goto("onError") /\ fds' = Close(fds, programFd)
    /\ UNCHANGED <<stratVars, resVars, cVars, turnVars, cells, peers>>

\* executionProtoFromStruct
DecodeExecution ==
    /\ pc = "result"
    /\ pc' \in {"onExecuteDone", "onError"}
    /\ UNCHANGED <<stratVars, resVars, cVars, turnVars, world>>

\* GetMapElements: the cells; or no elements and no error, because a lookup
\* failed, as it does on anything but a map; or an answer that cannot be decoded.
GetMapElements(table, fd) ==
    {"empty", "undecodable"} \cup {got \in {"cells"} : fd \in Fd /\ table[fd] = "map"}

\* A map strategy reads its map.  GeneratePoc, on an unexpected result, opens and
\* closes a file of its own.
CallOnExecuteDone ==
    /\ pc = "onExecuteDone"
    /\ \E got \in IF UsesMap(strat) THEN GetMapElements(fds, mapFd) ELSE {"none"} :
         \/ /\ PanicsOn(strat, got)
            /\ panic' = "elements"
            /\ Goto("crashed")
            /\ UNCHANGED <<isFinished, verdict>>
         \/ /\ ~PanicsOn(strat, got)
            /\ \E a \in OnExecuteDone(strat, got, cells, isFinished) :
                 /\ verdict' = IF a.ok THEN "expected" ELSE "unexpected"
                 /\ isFinished' = a.done
            /\ Goto("loop")
            /\ UNCHANGED panic
    /\ UNCHANGED <<strat, mapFd, newFd, resVars, cVars, ran, world>>

\* OnError inside runEbpf and runCbpf: true swallows the error, false returns it
\* to RunFuzzer.
InnerError ==
    /\ pc = "onError"
    /\ \E continue \in OnError(strat) : Goto(IF continue THEN "loop" ELSE "outerError")
    /\ UNCHANGED <<stratVars, resVars, cVars, turnVars, world>>

\* The mistake of asking about the error until the strategy lets it go on.
OuterErrorAsksAgain ==
    /\ pc = "outerError"
    /\ \E continue \in OnError(strat) : Goto(IF continue THEN "loop" ELSE "outerError")
    /\ UNCHANGED <<stratVars, resVars, cVars, turnVars, world>>

\* RunFuzzer asks OnError about the returned error once more.
OuterError ==
    /\ pc = "outerError"
    /\ \E continue \in OnError(strat) : Goto(IF continue THEN "loop" ELSE "halted")
    /\ UNCHANGED <<stratVars, resVars, cVars, turnVars, world>>

--------------------------------------------------------------------------------
(* The other goroutines of the process, while it lives. *)

mainVars == <<pc, stratVars, resVars, cVars, turnVars>>

PeerOpen ==
    /\ pc \notin Final
    /\ Cardinality(peerFds) < MaxPeers
    /\ \E f \in Fd : /\ IsLowestFree(fds, f)
                     /\ fds' = Open(fds, f, "peer")
                     /\ peerFds' = peerFds \cup {f}
    /\ UNCHANGED <<mainVars, cells, metricsHeld>>

PeerClose ==
    /\ pc \notin Final
    /\ \E f \in peerFds : /\ fds' = Close(fds, f)
                          /\ peerFds' = peerFds \ {f}
    /\ UNCHANGED <<mainVars, cells, metricsHeld>>

\* A handler or the worker enters a critical section of the metrics collection
\* and leaves it (module Metrics has what they do there).
PeerLock ==
    /\ pc \notin Final
    /\ ~metricsHeld
    /\ metricsHeld' = TRUE
    /\ UNCHANGED <<mainVars, fds, cells, peerFds>>

PeerUnlock ==
    /\ pc \notin Final
    /\ metricsHeld
    /\ metricsHeld' = FALSE
    /\ UNCHANGED <<mainVars, fds, cells, peerFds>>

Exited == pc \in Final /\ UNCHANGED vars

--------------------------------------------------------------------------------

Generate == \/ GenerateWithoutMap \/ CloseOldMap \/ CreateMapOrFail
            \/ LoopCreateMap \/ LoopCloseOldMap \/ GenerateError

Validate == \/ Encode \/ EncodeError \/ EnableCoverage \/ EmptyCbpf
            \/ BtfLoad \/ ProgLoad \/ CbpfSocketpair \/ AttachFilter
            \/ GetCoverage \/ DecodeValidation \/ RecordVerificationResults

Execute == \/ CallOnVerifyDone \/ DropProgram
           \/ ExecuteEbpf \/ AttachAndRun \/ CloseProgram
           \/ CbpfWrite \/ CbpfCloseWrite \/ CbpfRead \/ CbpfCloseRead
           \/ CbpfOutWrite \/ CbpfOutRead
           \/ DecodeExecution \/ CallOnExecuteDone

Main == LoopTest \/ Generate \/ Validate \/ Execute \/ InnerError \/ OuterError

Next == Main \/ PeerOpen \/ PeerClose \/ PeerLock \/ PeerUnlock \/ Exited

Spec == Init /\ [][Next]_vars

\* The Go scheduler does not starve a runnable goroutine, every system call the
\* loop makes returns (the one blocking read has a timeout), and a mutex is handed
\* to whoever has waited a millisecond for it: strong fairness of main.  Whoever
\* holds metricsLock is assumed to give it back.  That is not the loop's doing:
\* the run metrics shows it (FuzzerNotHeldUp) for coverage reports that fit into
\* the pipe to addr2line, and metrics_pipe shows that it fails for larger ones.
FairSpec == Spec /\ SF_vars(Main) /\ WF_vars(PeerUnlock)

--------------------------------------------------------------------------------
(* Properties *)

\* Type invariant of the loop's state (control.go, ffi.go, the C layer).
TypeOK ==
    /\ pc \in Steps \cup Final
    /\ strat \in Chosen
    /\ isFinished \in BOOLEAN
    /\ mapFd \in FdOrNone /\ newFd \in FdOrNone
    /\ valid \in BOOLEAN /\ cov \in BOOLEAN
    /\ programFd \in FdOrNone
    /\ kcovFd \in FdOrNone /\ sockW \in FdOrNone /\ sockR \in FdOrNone
    /\ ran \in BOOLEAN
    /\ verdict \in {"none", "expected", "unexpected"}
    /\ panic \in {"none", "request", "elements"}
    /\ fds \in [Fd -> Owners]
    /\ cells \in [MapKeys(strat) -> Values]
    /\ peerFds \subseteq Fd
    /\ metricsHeld \in BOOLEAN

\* The fuzzing loop never closes a descriptor of another goroutine, and never
\* standard output or standard error, whatever numbers it holds on to across
\* its system calls (ffi_close_fd and every close of the C layer).
PeersKeepTheirs ==
    /\ \A f \in peerFds : fds[f] = "peer"
    /\ \A f \in {1, 2} : fds[f] = "std"

\* The number runCbpf closes for a program it does not run is not one that
\* another goroutine holds (control.go, CloseFD(ProgramFd)).
DropSparesPeers == pc = "drop" => programFd \notin peerFds

\* When a turn is over nothing of it is left open: no program, no socket, not
\* the kcov descriptor that coverage was read from, and of all the maps that
\* were ever created at most the strategy's current one.  (An arbitrary strategy
\* may ask to continue after an error that left a program behind; none of the
\* repository's does.)
TurnReturnsDescriptors ==
    pc = "loop" /\ strat \notin Custom =>
        /\ Owned(fds, "prog") = {}
        /\ Owned(fds, "sock") = {}
        /\ Owned(fds, "map") \subseteq {mapFd}
        /\ kcovFd # NoFd => fds[kcovFd] # "kcov"

\* From OnVerifyDone's consent to OnExecuteDone, the program that is attached is
\* the one that was verified, and the map that will be read is a live map: the
\* oracle never judges through a stale number.
RunsVerifiedProgramOnLiveMap ==
    /\ pc \in {"execute", "attach", "closeProg"} /\ ~IsCbpf(strat) =>
           programFd \in Fd /\ fds[programFd] = "prog"
    /\ pc \in {"execute", "attach", "closeProg", "result", "onExecuteDone"} /\ UsesMap(strat) =>
           mapFd \in Fd /\ fds[mapFd] = "map"

\* OnExecuteDone "should validate if the program behaved like the verifier
\* expected": it reports an unexpected result only of a program that has run.
UnexpectedOnlyIfRan == verdict = "unexpected" => ran

\* The main goroutine panics in two places.  RunEbpfProgram cannot send program
\* number 0, and there is one only for a strategy whose constructor left mapFd at 0
\* and which has thereby closed standard input.  OnExecuteDone indexes an element
\* list that a failed lookup left empty; but never because the number it asks for
\* is stale: when that happens, mapFd is the live map the program was loaded with.
PanicsExplained ==
    pc = "crashed" =>
        \/ /\ panic = "request"
           /\ programFd = 0
           /\ strat \in {"pointer_arithmetic", "loop_pointer_arithmetic"}
        \/ /\ panic = "elements"
           /\ mapFd \in Fd /\ fds[mapFd] = "map"

\* Of the repository's strategies only coverage_based reports programs that did
\* not run.  None looks at did_succeed; but every turn has a map of its own, whose
\* cells stay equal, and zero, until a program runs, so that pointer_arithmetic
\* and loop_pointer_arithmetic never judge what an earlier program left behind.
OthersReportOnlyRuns ==
    strat \notin Custom \cup {"coverage_based"} /\ verdict = "unexpected" => ran

\* Whatever fails on the way, the loop comes round to its condition again, or
\* the program ends, as long as metricsLock is always given back: no turn of
\* RunFuzzer waits for anything else.
ComesRound == []<>(pc = "loop" \/ pc \in Final)

\* The playground strategies verify one program and stop: isFinished set in
\* OnVerifyDone reaches the loop condition on every path, errors included.
PlaygroundEnds == (strat \in {"playground", "cbpf_playground"}) ~> (pc \in Final)

\* The callback phase that a step of the main goroutine belongs to.
PhaseOf(label) ==
    IF label = "loop" THEN "ask"
    ELSE IF label \in {"generate", "createMap", "closeMap"} THEN "generate"
    ELSE IF label \in {"encode", "validate", "btfLoad", "progLoad", "socketpair",
                       "attachFilter", "coverage", "decode", "record"} THEN "validate"
    ELSE IF label \in {"onVerifyDone", "drop"} THEN "decide"
    ELSE IF label \in {"execute", "attach", "closeProg", "write", "closeWrite", "read",
                       "closeRead", "outWrite", "outRead", "result"} THEN "execute"
    ELSE IF label = "onExecuteDone" THEN "judge"
    ELSE IF label \in {"generateError", "encodeError", "onError", "outerError"} THEN "error"
    ELSE "stop"

Protocol == INSTANCE StrategyProtocol WITH
    phase <- PhaseOf(pc),
    ok    <- valid /\ PhaseOf(pc) \in {"decide", "execute", "judge"}

\* The loop calls a strategy, any strategy, in the order the interface
\* promises (control.go, type Strategy).
FollowsProtocol == Protocol!Spec

================================================================================
