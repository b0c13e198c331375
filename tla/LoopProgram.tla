-------------------------------- MODULE LoopProgram -------------------------------
(***************************************************************************)
(* The programs of loop_pointer_arithmetic, the only ones of two functions    *)
(* and with type information, composed with the encoding of every other       *)
(* program: GenerateProgram puts main and the loop function together, gets    *)
(* the buffer of module Btf, and EncodeInstructions goes through both.        *)
(***************************************************************************)
EXTENDS ProgramEncoding, Btf

CONSTANTS MaxTurns,           \* bound: turns of the loop that writes the loop function's body
          TurnInstructions    \* the random instructions that are tried in a turn

ASSUME TurnsAssumption ==
    /\ MaxTurns \in Nat
    /\ TurnInstructions \subseteq RandomAluInstruction(Registers \ {10}, Draws)
                                 \cup RandomJmpInstruction(MaxTurns, Registers \ {10}, Draws)
                                 \cup RandomLoadInstruction(Registers \ {10}, Draws)

VARIABLE instructionCount     \* the turns that are left

vars == <<evars, bvars, instructionCount>>

Init == EncodingInit /\ BtfIdle /\ instructionCount = 0

--------------------------------------------------------------------------------
(* GenerateProgram *)

\* What main's body does twice: look a key up, and exit if it is not there.
lookup(key) ==
    <<St("W", 10, Imm(key), -4), Mov64(2, Reg(10)), Add64(2, Imm(-4)),
      Mov64(1, Reg(9)), Call(MapLookup), JmpNE(0, Imm(0), 1), Exit>>

mainBody(mapFd) ==
    <<LdMapByFd(9, mapFd)>> \o lookup(0) \o <<St("DW", 0, Imm(51966), 0)>> \o lookup(1)
        \o <<Ld("W", 8, 10, -12), Add64(0, Reg(8)), St("W", 0, Reg(8), 0), Mov64(0, Imm(0)), Exit>>

\* 181 is the helper bpf_loop.
mainHeader(funcPtr) ==
    <<St("W", 10, Imm(0), -4), St("W", 10, Imm(0), -12), Mov64(3, Reg(10)), Add64(3, Imm(-8)),
      Mov(1, Imm(10)), Mov(4, Imm(0)), LdFunctionPtr(funcPtr), Call(181)>>

main(mapFd) == mainHeader(Len(mainBody(mapFd)) + 3) \o mainBody(mapFd)

loopFuncHead == <<St("DW", 10, Reg(2), -8)>>

\* Before the turns of its loop the body gives every register but R1 a value.
loopFuncBody(value) == [k \in 1 .. 9 |-> Mov64(IF k = 1 THEN 0 ELSE k, Imm(value))]

\* case 0 of a turn.
PointerBlock(randReg, value) ==
    <<Ld("DW", 2, 10, -8), Alu("And", InsClass.Alu, randReg, Imm(63)),
      Alu("Mul", InsClass.Alu64, randReg, Imm(-1)), Add64(2, Reg(randReg)),
      St("B", 2, Imm(16), 0), Mov64(2, Imm(value))>>

\* What one turn appends: the pointer block, or a random instruction, which jumps
\* over no more than the turns that are left.
Turns(left) ==
    {PointerBlock(randReg, -1) : randReg \in Registers \ {1, 2, 10}}
        \cup {<<i>> : i \in {j \in TurnInstructions : j.form = "jmp" => j.off \in 1 .. left}}

loopFuncFoo == <<Mov(0, Imm(0)), Exit>>

\* The mistake of counting instructions and not slots.
func_info_loop_narrow(mainInsns) == [InsnOff |-> Len(mainInsns), TypeId |-> 7]

func_info_loop(mainInsns) == [InsnOff |-> Len(mainInsns) + 2, TypeId |-> 7]

\* CreateMapArray: a descriptor, or -1.
MapFds == {-1, 7}

\* The header of the type information is set, main is built, and the loop function
\* up to the loop that writes the rest of its body.
GenerateProgram ==
    /\ epc = "call"
    /\ \E mapFd \in MapFds, value \in Draws :
          Hand([fn |-> "loop"],
               <<[insns |-> main(mapFd), info |-> [InsnOff |-> 0, TypeId |-> 2]],
                 [insns |-> loopFuncHead \o loopFuncBody(value),
                  info  |-> func_info_loop(main(mapFd))]>>, "body")
    /\ instructionCount' \in 0 .. MaxTurns
    /\ SetHeaderSection

\* One turn of the loop.
AppendTurn ==
    /\ epc = "body" /\ instructionCount # 0
    /\ instructionCount' = instructionCount - 1
    /\ \E turn \in Turns(instructionCount') : prog' = [prog EXCEPT ![2].insns = @ \o turn]
    /\ UNCHANGED <<epc, asked, fn, ins, prog_buff, func_buff, bvars>>

\* The loop function is finished.
AppendFoo ==
    /\ epc = "body" /\ instructionCount = 0
    /\ prog' = [prog EXCEPT ![2].insns = @ \o loopFuncFoo]
    /\ epc' = "generate"
    /\ UNCHANGED <<asked, fn, ins, prog_buff, func_buff, instructionCount, bvars>>

\* GetBuffer.
GenerateBtf == epc = "generate" /\ BtfStep /\ UNCHANGED <<evars, instructionCount>>

\* GenerateProgram returns, and the control unit encodes the program.
ReturnProgram ==
    /\ epc = "generate" /\ ReturnBuffer
    /\ epc' = "encode"
    /\ UNCHANGED <<asked, prog, fn, ins, prog_buff, func_buff, instructionCount>>

Next ==
    \/ GenerateProgram \/ AppendTurn \/ AppendFoo \/ GenerateBtf \/ ReturnProgram
    \/ (BuildOne \/ EncodingStep) /\ UNCHANGED <<bvars, instructionCount>>

Spec == Init /\ [][Next]_vars

--------------------------------------------------------------------------------
(* Properties *)

\* The three numbers by which the kernel finds the loop function agree with the
\* place where it was put: main's function pointer, which counts slots from its
\* own second half, and func_info's offset, which counts slots from the
\* beginning, both lead behind main's last exit to the first instruction of the
\* loop function, and func_info's types are functions.  main has two instructions
\* of two slots, one before and one behind the function pointer's place.
FunctionsAreFound ==
    epc = "done" /\ asked.fn = "loop" =>
        LET start == func_buff[2].InsnOff
            pointers == {p \in Starts : Code(prog_buff[p]) = LdDwImm /\ SrcReg(prog_buff[p]) = Bits(4)}
        IN  /\ Len(func_buff) = 2 /\ func_buff[1].InsnOff = 0
            /\ pointers # {} /\ \A p \in pointers : ImmOf(prog_buff[p]) = Bits(start - p)
            /\ start + 1 \in Starts /\ prog_buff[start] = EncodeWord(Exit)
            /\ prog_buff[start + 1] = EncodeWord(loopFuncHead[1])
            /\ \A k \in 1 .. 2 : IsFunction(func_buff[k].TypeId)

================================================================================
