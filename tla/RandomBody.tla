-------------------------------- MODULE RandomBody --------------------------------
(***************************************************************************)
(* The strategies that write a program from scratch in every turn:           *)
(* pointer_arithmetic, loop_pointer_arithmetic and cbpf_random_instruction.   *)
(* Between a fixed beginning and a fixed footer they append a random number   *)
(* of random instructions, some of which are jumps over a random part of      *)
(* what is still to come.                                                     *)
(*                                                                           *)
(* Of the body the model keeps its length and one jump, any one: what holds   *)
(* of the followed jump holds of all.  Positions count from the first         *)
(* instruction of the body; every random instruction is one slot long, which  *)
(* module ProgramEncoding shows.                                              *)
(***************************************************************************)
EXTENDS GoIntegers

BodyStrategies == {"pointer_arithmetic", "loop_pointer_arithmetic", "cbpf_random_instruction"}

CONSTANT Counts     \* for each strategy, the values of RandInt() % 1000 that are tried

ASSUME CountsAssumption == Counts \in [BodyStrategies -> SUBSET (0 .. 999)]

VARIABLES
    strat,      \* the strategy
    pc,         \* "idle", "loop", "done", or "panic" when the random source panics
    count,      \* instructionCount
    len,        \* instructions appended to the body so far
    jump        \* the followed jump: where it goes to, and whether that is ahead of it

rbvars == <<strat, pc, count, len, jump>>

NoJump == [to |-> -1, ahead |-> TRUE]

RbInit ==
    /\ strat \in BodyStrategies
    /\ pc = "loop"
    /\ count \in Counts[strat]
    /\ len = 0
    /\ jump = NoJump

--------------------------------------------------------------------------------
(* The random instructions, as far as they move the program counter. *)

\* RandRange(begin, end) panics on an empty range: rand.Intn refuses 0.
RangeIsEmpty(begin, end) == end < begin

\* The mistake of storing the conversion to int8 as it is.
CbpfJumpFieldSigned(off) == Int8(off)

\* RandomJmpInstruction of the cBPF library makes an int8 of the offset;
\* encodeCbpfInstructions makes a uint8 of that.
CbpfJumpField(off) == Uint8(Int8(off))

\* RandomJmpInstruction of the eBPF library: an int16, and the kernel's field is one.
EbpfJumpField(off) == Int16(off)

JumpField(off) ==
    IF strat = "cbpf_random_instruction" THEN CbpfJumpField(off) ELSE EbpfJumpField(off)

\* The mistake of allowing a jump anywhere.
MayJumpAlways(left) == TRUE

\* "The last instruction should not be a jmp otherwise we will jump over the
\* first instruction of the footer."
MayJump(left) == left # 0

\* One turn of the loop that appends n instructions, none of them a jump.
AppendPlain(n) ==
    /\ pc = "loop" /\ count # 0
    /\ count' = count - 1
    /\ len' = len + n
    /\ UNCHANGED <<strat, pc, jump>>

\* An ALU instruction, or a load or store.
PlainTurn == AppendPlain(1)

\* loop_pointer_arithmetic, case 0: six instructions that write through the
\* pointer its caller passed.
BlockTurn == strat = "loop_pointer_arithmetic" /\ AppendPlain(6)

\* The instruction at position len, a jump by off, is followed.
Follow(off) ==
    LET to == len + 1 + JumpField(off) IN jump' = [to |-> to, ahead |-> to > len]

\* The mistake of drawing from what there was before this turn.
JumpTurnTooFar ==
    /\ pc = "loop" /\ count # 0
    /\ MayJump(count - 1)
    /\ count' = count - 1
    /\ len' = len + 1
    /\ UNCHANGED jump \/ (jump = NoJump /\ \E off \in 1 .. count : Follow(off))
    /\ UNCHANGED <<strat, pc>>

\* RandomJmpInstruction(uint64(instructionCount)), after the decrement.
JumpTurn ==
    /\ pc = "loop" /\ count # 0
    /\ MayJump(count - 1)
    /\ count' = count - 1
    /\ len' = len + 1
    /\ pc' = IF RangeIsEmpty(1, count - 1) THEN "panic" ELSE "loop"
    /\ UNCHANGED jump \/ (jump = NoJump /\ \E off \in 1 .. (count - 1) : Follow(off))
    /\ UNCHANGED strat

\* The footer is appended: position len is its first instruction.
Finish ==
    /\ pc = "loop" /\ count = 0
    /\ pc' = "done"
    /\ UNCHANGED <<strat, count, len, jump>>

\* The next call of GenerateProgram starts over.
NextProgram ==
    /\ pc = "done"
    /\ pc' = "loop"
    /\ count' \in Counts[strat]
    /\ len' = 0
    /\ jump' = NoJump
    /\ UNCHANGED strat

RbNext == PlainTurn \/ BlockTurn \/ JumpTurn \/ Finish \/ NextProgram

RbSpec == RbInit /\ [][RbNext]_rbvars

--------------------------------------------------------------------------------
(* Properties *)

RbTypeOK ==
    /\ strat \in BodyStrategies \cup {"coverage_based"}
    /\ pc \in {"idle", "loop", "done", "panic"}
    /\ (pc = "idle") <=> (strat = "coverage_based")
    /\ count \in 0 .. 999
    /\ len \in Nat
    /\ jump \in [to : Int, ahead : BOOLEAN]

\* A jump of a finished program goes forward, so the program ends, and at most
\* to the first instruction of the footer, so that the footer is executed from
\* its beginning: whatever was appended after the jump, and however an offset
\* above 127 or 255 came through the conversions of the cBPF path.
JumpsReachFooter ==
    pc = "done" /\ jump # NoJump => jump.ahead /\ jump.to <= len

\* The generator never asks the random source for a number of an empty range,
\* which would end the fuzzer with a panic: the offset of a jump is drawn from 1
\* to the number of instructions left, which is 0 at the end.
NeverDrawsFromNothing == pc # "panic"

================================================================================
