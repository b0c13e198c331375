# A TLA+ model of buzzer

buzzer is a fuzzer for the Linux eBPF and cBPF verifiers. A strategy generates a
program, the kernel's verifier accepts or refuses it, an accepted program is run,
and the strategy judges what the run left in a BPF map. Beside that loop a metrics
unit collects verdicts and kcov coverage in a goroutine of its own and a web server
shows them.

The modules here model the control flow of that program, the descriptors and locks
its goroutines share, the queue of its coverage-based strategy, how programs are generated
and mutated, and the bytes they reach the kernel in. TLC checks them on small instances;
TLAPS proves the central results for every instance.

## 1. Inventory

| component | state it keeps | operations | hard parts |
|---|---|---|---|
| control unit (`pkg/units/control.go`) | the strategy | `RunFuzzer`, `runEbpf`, `runCbpf` | order of the callbacks; errors on two levels; closing the program on every path |
| FFI unit and C layer (`pkg/units/ffi.go`, `ebpf_ffi/`) | none of its own: descriptor numbers in results and requests | validate, run, create map, close, read map | numbers that are closed, reused or never were descriptors, in a process with other goroutines |
| strategies (`pkg/strategies/`) | `mapFd`, `isFinished`, counters; the coverage-based one a queue and two tables | `GenerateProgram`, `OnVerifyDone`, `OnExecuteDone`, `OnError` | the map lives across turns; oracles that judge failed runs; programs that must wear out |
| coverage manager (`pkg/units/coverage_manager.go`) | cache, per-file lines, history, `coverageLock` | `ProcessCoverageAddresses`, `GetCoverageHistory`, `GetCoverageInfoMap` | a batch that fails half way; a blocking resolver under a lock |
| metrics unit, collection (`metrics_unit.go`, `metrics_collection.go`) | counters, verdicts, latest log, result queue, `metricsLock` | `ShouldGetCoverage`, `RecordVerificationResults`, the worker | two locks, three kinds of goroutines, maps handed out of critical sections |
| metrics server (`metrics_server.go`) | none | one handler per page | reads everything concurrently, holds descriptors |
| eBPF instruction library (`pkg/ebpf`) | none (pure) | constructors, random generators, `EncodeInstructions` | operands of four Go types and up to 64 bits in instructions of one or two slots; signs that could spill into other fields; remainders of negative numbers |
| cBPF instruction library (`pkg/cbpf`, `encodeCbpfInstructions`) | none (pure) | constructors, random generators | jump offsets that pass through an int8 |
| BTF (`pkg/ebpf/btf.go`, `types` of the loop strategy) | the header's lengths | `SetHeaderSection`, `GetBuffer` | lengths computed before what they measure exists; type ids and name offsets by hand |
| PoC generator, random source | none | - | an empty range panics |
| deprecated strategies, `tools/` | - | not part of the program | - |

How they interact. `RunFuzzer` calls the strategy; the strategy calls back into the
FFI unit for maps; the FFI unit calls C and, before and after each verification, the
metrics unit. The metrics unit passes results to its worker through a queue. The worker
calls the coverage manager, which runs `addr2line` through a function `main.go`
provides. HTTP handlers read the collection. All of them share one descriptor table.

What makes it correct:

* control unit and C layer: every descriptor is returned once, by its owner; the program
  that runs is the verified one; the map that is read is the one it was loaded with; the
  callbacks come in order; no turn hangs as long as `metricsLock` is given back; a panic of the
  loop can be explained;
* strategies: a report is about a program that ran and not about what an earlier one left in the map; a queued program is the best one, is
  used a bounded number of times and is queued once; a generated or mutated program runs into
  its footer whichever jumps are taken;
* libraries: the kernel reads the instructions, constants, functions and types the strategy wrote, and which
  requests it refuses is known;
* coverage manager: nothing recorded twice or lost across failures, a graph that rises;
* metrics: no verdict that was queued is lost, exact sampling, no lock cycle, the fuzzer is never held up.

## 2. Modules

| module | models | extends / uses |
|---|---|---|
| `Descriptors` | the kernel's descriptor table: lowest free number, close by number | - |
| `Strategies` | per strategy, the answers of each callback | - |
| `StrategyProtocol` | abstract: the order in which a strategy's callbacks are called | - |
| `FuzzLoop` | control unit, FFI unit, C layer, the strategies' maps, other goroutines' descriptors | `Descriptors`, `Strategies`; implements `StrategyProtocol` |
| `FuzzLoopProofs` | theorems about `FuzzLoop` | `FuzzLoop` |
| `CoverageManager` | coverage manager and its resolver | - |
| `CoverageManagerProofs` | theorems about it | `CoverageManager` |
| `Metrics` | metrics unit, collection, worker, handlers, composed with the coverage manager | `CoverageManager` |
| `MetricsProofs` | theorems about it, and that it implements `CoverageManager` | `Metrics`, `CoverageManagerProofs` |
| `CoverageQueue` | the coverage-based strategy's queue, tables and reuse | - |
| `CoverageQueueProofs` | theorems about it | `CoverageQueue` |
| `GoIntegers` | Go's integer conversions; machine words as sets of bits | - |
| `RandomBody` | the loops that write random bodies: pointer_arithmetic, loop_pointer_arithmetic, cbpf_random_instruction | `GoIntegers` |
| `ProgramMutation` | `mutateProgram` of the coverage-based strategy | - |
| `Programs` | one strategy is chosen and generates programs | `RandomBody`, `ProgramMutation` |
| `ProgramsProofs` | theorems about it | `Programs` |
| `EbpfInstructions` | the eBPF library: constructors, generators, encoding of an instruction | `GoIntegers` |
| `CbpfInstructions` | the cBPF library and `cbpf.Filter` | `GoIntegers` |
| `ProgramEncoding` | `EncodeInstructions`, `encodeCbpfInstructions`, the kernel's reader | `EbpfInstructions`, `CbpfInstructions` |
| `Btf` | `btf.go` and the loop strategy's types, the kernel's reader | `GoIntegers` |
| `LoopProgram` | the loop strategy's program of two functions, encoded, with its BTF | `ProgramEncoding`, `Btf` |
| `EncodingProofs` | a theorem about the layout of a word, lemmas on bits and integers | `EbpfInstructions` |
| `ProgramEncodingProofs` | theorems about the one instruction of a program that the kernel reads | `LoopProgram`, `EncodingProofs` |
| `LoopProgramProofs` | theorems about whole programs: their instructions, functions and types | `ProgramEncodingProofs` |
| `MCFuzzLoop`, `MCCoverage`, `MCMetrics`, `MCCoverageQueue`, `MCPrograms`, `MCEncoding` | instances for TLC | |

Definitions whose comment begins with "Mistake" (or "The mistake of") are deliberate
errors. No specification uses them; replacing the definition that follows by one of them
must violate a property, which shows that the property says something about the code.

### FuzzLoop

`pc` is the place of the main goroutine: one step per system call or callback. Variables
carry the strategy's `mapFd` and `isFinished`, the fields of `ValidationResult`
(`valid`, `cov`, `programFd`), the numbers the C functions hold (`kcovFd`, `sockW`,
`sockR`), the execution result (`ran`, `verdict`) and the place of a panic (`panic`). `fds` maps every number to what it
refers to now; `peerFds` are the numbers other goroutines think they own; `metricsHeld` says that one of them holds
`metricsLock`, for which main waits before each verification (`ShouldGetCoverage`, in `EnableCoverage`) and after a valid one
(`RecordVerificationResults`). `PeerOpen`, `PeerClose`, `PeerLock` and `PeerUnlock` can happen between any two steps of main.
`cells` are the contents of the strategy's map: zero when it is created, anything once a program has run
(`AttachAndRun`), and what the oracles compare (`PointerArithmeticOnExecuteDone`, `LoopOnExecuteDone`, `CoverageBasedOnExecuteDone`);
they are not told whether the program ran.

Abstractions. Instructions are left to other modules: whether the verifier accepts a program is a free
choice, except that a program of a map strategy needs `mapFd` to be a live map, since the
verifier resolves `LdMapByFd` by that number. Both ends of a socket pair are created or
closed in one step where the code does nothing in between; in `execute_cbpf_program`, where
it does, each close is a step. Every system call may fail where the code checks for it, the lookups of
`GetMapElements` included: a failed one gives an empty element list and no error, and an answer that cannot be decoded gives an error, which
coverage_based ignores (`PanicsOn`).
The `program_fd` of a cBPF result is never set and reads as 0. `custom_ebpf` and
`custom_cbpf` answer every callback as they like and stand for any implementation of
`Strategy`. Left out: the
file `GeneratePoc` writes (it opens and closes its own descriptor). The loop strategy's
programs may load without BTF in the model, which the kernel would refuse for some of them.

### CoverageManager and Metrics

The coverage manager's call is split where another goroutine could see a difference: lock
and search, count, resolve, record line by line, return. `Metrics` runs it in the worker
and adds main's reports, the queue and the handlers. A critical section that neither
blocks nor takes a second lock is one step. A Go map iteration, and the worker's write,
last from one step to the next: `Overlap` says that they coincide, and `FatalRace` that the
runtime may then end the process. A log is represented by the program it is about and its
verdict by a model value; a refused program's log has at least three lines. The handler
of the latest-log page copies a string under the lock and has no step.

### CoverageQueue

`pq` is the heap array of trace records. `heap.Push` and `heap.Pop` of container/heap are
modelled exchange by exchange (`Up`, `Down`), over the repository's `Less` and `Swap`.
`taken` is a history variable. The mutation of a program is in `ProgramMutation`; the verifier's
coverage is any set of addresses, or none.

### Programs: RandomBody and ProgramMutation

A program is header, body, footer; header and footer are fixed and what is at stake is where
the jumps of the body lead. `RandomBody` has one action per kind of turn (`PlainTurn`,
`BlockTurn`, `JumpTurn`). It follows one jump, any one: its target is fixed when it is
drawn, from the number of turns left, while the body still grows, by one instruction a turn or by
six. A cBPF offset becomes an `int8` in the generator and a `uint8` in the control unit
(`CbpfJumpField`); 300 instructions are enough for offsets above 127 and above 255.
`ProgramMutation` keeps the body as a sequence of jump offsets with names, since what matters is
which instruction survives. `InsertAt` is the code's pair of appends on one array: the second
reads what the first has overwritten, so an insertion in the middle puts the new
instruction in twice and loses the one that stood there. No comment or test of the repository says otherwise,
so it is not reported as a violation; `LosesAtMostOne` states how much is lost and
`MutantsReachFooter` that the second copy, one position further with the same offset, still stays inside.

### ProgramEncoding, Btf and LoopProgram

Words are sets of bits, so that `|`, masks and shifts are set operations and 64 bits need no
64 bit integers. An operand is its Go type and its value as two halves. The constructors return the
record of the proto message; a pseudo instruction, which is zero but for its immediate, is
represented by it. Random generators are the sets of their results over the values the random source can give.
A constructor's panic (an `int64` where an `int32` is asserted) is a value, and ends the run of the program.
A behaviour builds one program (one instruction, or a sequence the library offers, then an exit or
return; or the loop strategy's program), encodes it instruction by instruction and starts over.
The definitions under "The kernel's reader" are written from the kernel's
documented formats (`struct bpf_insn`, `struct sock_filter`, `struct btf_header`, `struct btf_type`)
and share no definition with the encoder; the properties compare what it reads with what the caller asked for.
In `LoopProgram` the loop function's body is written turn by turn (`AppendTurn`, as often as
`instructionCount` was drawn, at most `MaxTurns` times), each turn with the pointer block or one of
`TurnInstructions`, a set of what the random generators can return, of which a jump skips no more than the turns that
are left; `AppendFoo` ends it, `GenerateBtf` writes the type information piece by piece, `ReturnProgram` hands both over. The characters of "buzzer" are reduced to being
not 0, and `binary.Write` to a buffer does not fail.

For cBPF the reader has the kernel's table of classic opcodes (`ClassicCodes`, `KernelTakes`) and takes the offset of a JA from `k`
and of the other jumps from `jt` and `jf` (`KernelJump`). `KernelReadsFilter` therefore says which requests the kernel
refuses (`Refused`: a return of a register, whose opcode has the source bit of the arithmetic; `Neg` of a register; `St` and `Stx`, which
carry a mode the kernel's stores do not have; `LdxAbs`), that it reads what was asked for in all others, and that `JmpJA`, which puts
its offset into `jt`, goes to the next instruction. `cbpf_random_instruction` draws jumps of up to 998: `JumpDraws` has the
numbers around 128 and 256 and the largest, and the jump that arrives is the remainder of 256, possibly 0.

## 3. Runs

| run | instance | checks |
|---|---|---|
| `loop_ebpf` | 4 eBPF strategies, numbers 0..7, one foreign descriptor, map cells 0 and 0xCAFE | `TypeOK`, `PeersKeepTheirs`, `TurnReturnsDescriptors`, `RunsVerifiedProgramOnLiveMap`, `PanicsExplained`, `OthersReportOnlyRuns`, `FollowsProtocol`, `ComesRound`, `PlaygroundEnds` |
| `loop_cbpf` | cBPF and arbitrary strategies, numbers 0..6 | `TurnReturnsDescriptors`, `FollowsProtocol`, `ComesRound`, `PlaygroundEnds` |
| `coverage` | 4 addresses: two on one line, one on another, one unresolvable | `CmTypeOK`, `ReturnsResolved`, `InfoMatchesCache`, `HistoryRises` |
| `metrics` | 3 programs, every 2nd sampled, a handler that serves any page again and again, fairness | `TypeOK`, `VerdictsAddUp`, `SamplesEveryThreshold`, `LocksNest`, `LogsInOrder`, `FuzzerNotHeldUp`, `ResultsProcessed` |
| `queue` | addresses 1, 2, 3 (1 xor 2 = 3), MAX_PROG_REUSE 2, fairness | `TypeOK`, `PopsBestProgram`, `UsedToTheLimit`, `NoDuplicates`, `Drains` |
| `programs` | eBPF bodies of 0 to 12 turns, cBPF bodies of 0, 1, 2 and 300; up to 5 mutations in a row | `JumpsReachFooter`, `NeverDrawsFromNothing`, `MutantsReachFooter`, `LosesAtMostOne` |
| `encoding` | registers 0, 7, 10 and A, X; operands, offsets and draws at the edges of 8, 16, 32 and 64 bits; cBPF jump draws 1, 127, 128, 255, 256, 998; loop bodies of up to 3 turns | `KernelStaysInStep`, `KernelReadsInstruction`, `OperandArrives`, `RandomInstructionsLegal`, `KernelReadsFilter`, `FunctionsAreFound`, `BtfAccepted` |

Runs that show a disagreement (each one property, violated by what the code does):

| run | what happens |
|---|---|
| `loop_cbpf_double_close` | a read that fails closes `socket_write` a second time (`cbpf.cc:125`); another thread can have its number by then |
| `loop_cbpf_drop` | dropping a cBPF program closes descriptor 0 (`control.go:186`): first standard input, later whatever got number 0 |
| `loop_false_alarm` | the coverage-based strategy reports a program that was never run, and stops (`coverage_based.go:306`) |
| `metrics_race` | a page iterates a map the worker is writing (`metrics_collection.go:66`, `:59`, `:124`) |
| `metrics_pipe` | the resolver fills the pipe of a process not yet started (`main.go:73`) and blocks with `coverageLock`; a request for the graph adds `metricsLock`; the fuzzer stops |

Three more disagreements are stated by properties that hold, because they say what the code does:

* `VerdictsAddUp` (`metrics`): every result is queued, and the verdict and log of every program are kept (`metrics_unit.go:124`), where the comment
  on `SamplingThreshold` promises logs of every 100th (`metrics_unit.go:34`); only coverage is sampled (`SamplesEveryThreshold`).
* `KernelReadsFilter` (`encoding`): `Ret` of a register (`alu_instructions.go:82`) and the stores `St` and `Stx` (`st_ld_instructions.go:128`) have
  opcodes the kernel refuses, where their comments say what they do when run. `RandomStoreInstruction` makes the same opcodes, so that the programs of
  `cbpf_random_instruction` with a store are all refused.

`PanicsExplained`, checked and proved, describes the two panics of the loop. `mapFd` starts at 0 and is closed
(`pointer_arithmetic.go:74`); if another goroutine takes and returns number 0 at the right moments, a program is
loaded as number 0, its request marshals to no bytes, and the first byte is taken (`ffi.go:165`). And a lookup that
fails (`ebpf.cc:141`) leaves an empty element list without an error, which the oracles index (`pointer_arithmetic.go:155`,
`loop_pointer_arithmetic.go:297`, `coverage_based.go:306`; the last one also ignores a decoding error). What is shown of the second is that the map is
live then: it takes a failing system call, and is never the consequence of a stale number.

Bounds. Eight descriptors are the three standard streams, a map, its successor, a program, a socket
pair and room for a foreign one, and the table still runs full: `IsLowestFree` then has no
witness and every allocation fails, which exercises the error paths. Leaked BTF and kcov
descriptors fill it too. One foreign descriptor is enough for every violation found; the proofs
cover any number. `MaxPrograms` bounds the only counter of `Metrics`; three programs are two
in the queue behind one in the worker's hands, with one that is sampled between two that are
not. In `queue` the tables bound the pushes by 7, and queues of five programs, three levels of
heap, occur. Coverage reports are all subsets of the addresses. In `programs` five mutations make
bodies of five instructions with a jump in every position that allows one, and every position of an insertion; the proofs cover
any number. In `encoding` an instruction is independent of the ones before it but for the slots they take, so one
instruction and the exit behind it are enough; registers 0, 7 and 10 have all four bits of a field in
both values and 10 is special. Offsets are -32768, -1, 0, 1, 32767, operands include 2^31, 2^32 - 1, -2^31 - 1 and the smallest
`int64`, of every Go type that can hold them, and draws are positive, negative and zero multiples of 512 and 64 and their neighbours.
Three turns are the pointer block before, between and behind instructions of one slot, and a first turn with room for
a jump over two; five instructions, one of each kind, are tried in a turn (412,570 states). Two values of a map
cell are enough: equal and different, zero and not, 0xCAFE and not all occur.

Fairness. `FuzzLoop`: strong fairness of main's step and weak fairness of `PeerUnlock`. The scheduler does not starve a runnable
goroutine, no system call of the loop blocks for ever (the one blocking read has
`SO_RCVTIMEO`), and Go's mutex hands itself over to a waiter after a millisecond, so main gets `metricsLock` if it is free again and
again. That it is given back (`PeerUnlock`) is an assumption about the other goroutines, which the loop itself cannot justify: `ComesRound` and `PlaygroundEnds` hold
as long as it does. The run `metrics` shows the same of the composed metrics unit, where the holders of the lock are modelled
(`FuzzerNotHeldUp`), for coverage reports that fit into the pipe; `metrics_pipe` shows that
it fails for larger ones, and then the turn hangs. `Metrics`: strong fairness of main, of
the worker and of a request being served, because each waits for a mutex that is free again
and again, and Go's mutex hands itself over to a waiter after a millisecond. No request ever
has to come. Blocking on a full pipe is not excluded by fairness: `Resolve` is disabled
then, and `metrics` assumes a pipe that is large enough. `CoverageQueue`: the control unit keeps
calling, which is what `ComesRound` shows.

Deadlock is checked everywhere but in `metrics_pipe`, where it is what the run shows.

## 4. Proofs

`CoverageManagerProofs`: `CmTypeCorrect`, `CallsResolve`, `InfoIsExact`, `GraphRises`, for any
finite set of addresses, any lines, resolver, pipe and readers. None of the last three is
inductive. The invariant `CmInv` adds that during a call the unknown addresses are disjoint from
the cache and cover, with it, the argument (`CallSplits`), and that once counted they are in
`lastMaxCoverage` (`CallCounted`). Recording a line moves one address from one set to the
other (`RecordMovesOne`), so the sum does not change: that is why the graph never falls behind
the cache even when a call stops half way.

`MetricsProofs`: `MetricsTypeCorrect`, `NoVerdictLost`, `SamplingIsExact`, `LocksNestOneWay` and the action
property `LatestLogIsLatest`, for any number of programs, handlers, verdicts, addresses, any sampling threshold
and any pipe. The invariant `MInv` adds three parts to the properties. `HandsHold`: main has a result exactly from the load to the
queue and the worker exactly from the queue to the log; without it a rejection could be in two hands, and be counted twice.
`CallNests`: the coverage manager is in a call just as long as the worker waits for it, and holds `coverageLock` in
between; this ties the program counters of two components together. `Ascending`: log, worker and queue
are one ascending sequence of programs that main is done with; `LogsInOrder` follows, and is not inductive
without it. `MetricsImplementsCoverageManager` shows that every step of main, worker and handlers is a step of `CoverageManager` or
leaves its variables alone, so that its theorems hold in the composition (`CoverageInMetrics`).

`CoverageQueueProofs`: `QueueTypeCorrect`, `BestProgramFirst`, `EveryProgramUsedUp`, `QueueHasNoDuplicates`,
for any finite set of addresses, any fingerprint function and any reuse limit, hence for queues of any length. The invariant `QInv`
says that the entries are told apart by their programs and count their uses (`Entries`), that the tables know the coverage of every entry
(`Remembered`), and what the array is between two exchanges of container/heap (`HeapOrder`): a heap but for the one
entry that is on its way, whose children are no larger than its parent. An exchange moves that place one level
(`HeapAbove`, `HeapBelow`), and when it stops the array is a heap. That the root of a heap is a largest entry is not
an induction over the tree but a least counterexample: the first entry larger than the root has a parent before it that is larger too.
`QueueWorkIsBounded` bounds the programs ever queued, and the uses of each, by the
constants: with it only fairness is missing from `Drains`.

`FuzzLoopProofs`: `LoopTypeCorrect` and `LoopFollowsProtocol` for every strategy; `TurnsDoNotLeak` for every strategy of the repository;
`ReportsAreAboutRuns` when no `custom_` strategy is started (one may answer anything);
`EbpfSparesPeers`, `EbpfRunsWhatWasVerified`, `EbpfPanicsAreExplained` under the
assumption that only eBPF strategies are started (for cBPF the first is false, see above); all for
every descriptor limit and any number of foreign descriptors. The invariant `LoopInv` says who owns
what at each label: `MapHeld` (`mapFd` is the strategy's map, or -1, or the standard input it was born with; no other
map is open except between creating and closing in the loop strategy), `ProgHeld`, `SocksHeld`,
`KcovHeld`, `MapLive` (a program that was accepted has a live map) and `StdinHeld`. It is needed because a
close is by number: that the loop spares the others' descriptors follows only from what
each of its numbers refers to. The cBPF functions do close numbers that are not theirs, so `LoopInv` fails for
them; `TurnsDoNotLeak` rests there on `CbpfInv`, which says less: a socket of the loop is open only
where `PairHeld` and a kcov descriptor only where `CbpfKcovHeld` allow it, whatever else a mistaken close has hit. `ReportsAreAboutRuns` is about
oracles that compare cells, so it needs to know what is in them. Its invariant `VerdictInv` says that a verdict is given by the last step of a turn
(`VerdictAtTurnEnd`), so that the next turn forgets it together with the result it was about, that a program runs once, towards the turn's end (`RanAtEnd`), and that from the creation of a turn's map
until a program has run its cells are blank (`BlankUntilRun`): a blank map has equal cells, and zero in the second. `LoopFollowsProtocol` is the refinement of `StrategyProtocol`, step by step
with the mapping `PhaseOf`.

`ProgramsProofs`: `ProgramsTypeCorrect`, `BodyJumpsReachFooter`, `NoEmptyDraw`,
`MutationKeepsJumpsInside`, `MutationLosesAtMostOne`, for all body lengths the code can draw and any number of mutations.
`RbInv` adds to the first property that a jump, while the body is written, leads at most `count` behind
its present end: a turn takes one from `count` and adds at least one to the length. The conversions of a cBPF
offset only make it smaller (`JumpFieldBound`). `MutantsReachFooter` is inductive by itself; the shape of an insertion
(`InsertShape`) is the lemma it rests on. `MutationLosesAtMostOne` is the action property `LosesAtMostOne`: each kind of
mutation keeps all instructions but at most one (`KeepsAllBut`), with the new position of every survivor as the witness.

`EncodingProofs`: `FieldsDoNotOverlap`, for every instruction with an opcode, registers, offset and
immediate of any value, the words the kernel cuts out of `EncodeWord` are the ones that were put in. It is about the operators and has no
state. The module also has what the provers need of integers as sets of bits: the powers of two as far as they are used, which bits
a small number has (`SmallBits`), that a number below a power of two has no bit from there on (`BitBeyond`),
that the upper half of a sign is all ones or all zeros (`SignBits`), and that an opcode is the sum of its disjoint parts (`AluJmpSum`, `MemSum`).

`ProgramEncodingProofs`: `InstructionsAreRead`, `ConstantsArrive`, `FiltersAreRead`, `DrawnInstructionsAreLegal`, for any
choice of registers among the eleven, offsets of `int16`, operands of `Reg`, `int32`, `int` and `int64`, results of the random source of
`int32`, jump fields up to 255 and jump draws up to 998: the run `encoding` has the edges of these ranges, the theorems all of them. The
assumptions on the constants are these ranges and nothing else. The properties speak of a finished program, so the invariant `EInv` says of
an unfinished one that its first instruction is what the constructor makes of the request
(`ComesFromRequest`, `FilterComesFromRequest`) and that the loops of the encoder have
written exactly the instructions before their counters (`EncodedSoFar`, `FilteredSoFar`). What is left is about operators: for
each constructor, the opcode's sum and the fields of its word (`FieldsDoNotOverlap`); for cBPF, whether that sum is in the kernel's table
(`TakenCodes`, `StLdTable`), numbers below 256 being equal when their bits are (`ByteBits`). `FiltersAreRead` does not say that every drawn filter is legal, which is not so.

`LoopProgramProofs`: `KernelKeepsStep`, `TypesAreAccepted`, `LoopFunctionFound`, for the same ranges and for loop functions of
any number of turns and any instructions the generators can draw in them. `KernelStaysInStep` and `FunctionsAreFound` speak of `Starts`,
a recursive function of the buffer, and no induction over data is at hand. The way around it: `Reads(buff, S)` says, without recursion,
that S is what a reader finds; two such sets are equal, since at the least place where they differ they would agree
on the place before (`OneReading`); the recursive function's set is one (`StartsAre`). So it is enough to carry one along while
the buffer grows, and the induction is over the steps of the encoder: an instruction is `WellFormed` if it has a second slot exactly when its opcode announces
one, and then it adds one place to the set (`ReadsOneMore`). The invariant `KInv` says that while
a program is encoded the set has as many members as there are instructions before the loops' counters (`Walk`), and that a loop program has the shape
`LoopFunctions`; that every constructor and generator returns well-formed instructions is a lemma each (`AluJmpBuilt`, `MemBuilt`, `DrawnOneSlot`, `LookupSlim`, `MainShape`, `TurnsSlim`).
For `FunctionsAreFound` this is not enough, since it is about places and not about their number: `LInv` adds which word of the buffer is which instruction
(`LoopWords`), with `Slot(k)` the place of main's k-th instruction behind its two of two slots, that `func_info` has been written for the functions that are
finished (`InfosWritten`), and that the types are complete. Of main's two constants only the seventh has
the source register of a function; its distance, 24, counted from its own place 7, and the offset 31 meet at main's exit (`LoopRead`).
`BtfAccepted` rests on `BInv`: what was written so far are the types up to `written`, each at the place where the lengths of the ones before
put it (`TypesWritten`, `Begins`), and the strings up to it, under a header that is filled last. The kernel's way through the types is again a recursive function; there are
seven types, and it is unfolded (`StartIs`).

Assumptions on constants are named and are checked by TLC in every run. Every safety property that a passing run checks is stated by a
theorem. Only model-checked are the liveness properties `ComesRound`, `PlaygroundEnds`, `FuzzerNotHeldUp`, `ResultsProcessed`, `Drains`: fairness and ENABLED are
out of TLAPS' reach here. The theorems about the descriptors of the fuzzing loop are restricted to the strategies named above, and what the runs say of the others is
checked on the instance only.

No module uses a RECURSIVE operator.

## 5. Not modelled

What a program computes (the kernel's verifier and interpreter are free choices); the fixed footers of
pointer_arithmetic, coverage_based and the playground, which are more of the same constructors; the bias of the random source;
memory (the C strings Go frees, the BTF log buffer that is never
freed); rendering of pages; flags; the PoC file; the deprecated strategies and the loader tool,
which the program does not contain. Known and not covered by a property: the BTF descriptor of
every loop program is never closed (`ebpf.cc:56`), a half set-up kcov descriptor is forgotten
(`ffi.cc:71`), the result queue has no bound (`metrics_unit.go:60`), a short verifier log would panic the
worker (`metrics_collection.go:106`), a sampling threshold of 0 divides by zero (`metrics_unit.go:114`). `OnError` is
asked twice about one error (`control.go:112`), so a strategy that changes its mind goes on. The history counts
addresses where its comment says lines (`coverage_manager.go:65`).

Seen while modelling the libraries, and outside every property: `encodeTypeInfo` puts the kind flag at bit 28 where
its comment says 31 (`btf.go:54`, `:46`), but no type sets it; a 32 bit `Mov` of an `int64` becomes a 64 bit load, and the
other constructors keep the low half of a larger `int` and panic on an `int64`, so that these operands have no meaning to compare with;
`LdMapElement` moves the map into R1 before it reads
`keyPtr`, which must therefore not be R1; a random cBPF mode of 0x30 is masked to ABS without the extension
offset ABS gets; no strategy calls `JmpJA` or `Ret` of a register; a division by the immediate 0, which the verifier refuses, can be drawn in both libraries; the default program's comment says its stores begin at -8 and they begin at -16 (`coverage_based.go:33`, `:54`).
`GetBpfFuncName`, `AlignmentForSize` and `RandomOffset` of the cBPF library have no caller. The errors of
`InstructionSequence` and `encodeInstruction` cannot be provoked with what the constructors return.

## 6. Plan

Done: the fuzzing loop over the descriptor table with the callback protocol; the coverage
manager; the metrics unit around it; the coverage-based queue; generation and mutation of programs; both
instruction libraries, BTF and encoding; the proofs above, which state every safety property of the passing runs.

Left, in this order:

1. proofs: what holds of the cBPF side of `FuzzLoop` when there are no foreign descriptors.
2. `Buzzer`: the fuzzing loop and the metrics unit in one specification, `ValidateEbpfProgram`
   calling `ShouldGetCoverage` for real, so that `PeerUnlock`'s fairness is shown and not assumed.
