------------------------------ MODULE ProgramEncoding -----------------------------
(***************************************************************************)
(* A program on its way to the kernel: a caller builds it with the eBPF or    *)
(* cBPF library, EncodeInstructions or encodeCbpfInstructions goes through    *)
(* its functions and instructions, and the kernel reads the bytes.            *)
(*                                                                           *)
(* A caller asks for one instruction, or for a sequence the library offers,   *)
(* and ends the program with an exit (a return): a reader that gets out of    *)
(* step misses it.                                                           *)
(***************************************************************************)
EXTENDS EbpfInstructions, FiniteSets

C == INSTANCE CbpfInstructions

CONSTANTS Registers,      \* registers that are tried
          Operands,       \* operands of type Src
          Offsets,        \* int16 offsets
          JumpFields,     \* jumps of cBPF, of 8 bits
          JumpDraws,      \* RandRange(1, maxOffset) for a jump of cBPF
          Draws           \* results of the random source, as int32

ASSUME EncodingAssumption ==
    /\ Registers \subseteq 0 .. 10 /\ JumpFields \subseteq 0 .. 255
    /\ Offsets \subseteq Int /\ \A off \in Offsets : Int16(off) = off
    /\ Draws \subseteq Int32
    /\ JumpDraws \subseteq 1 .. 998

\* Reg, int, int32 and int64 are the types that Src admits.
ASSUME OperandsAssumption ==
    \A src \in Operands :
        \/ \E r \in 0 .. 10 : src = Reg(r)
        \/ src \in [type : {"int32", "int", "int64"}, hi : Int32, lo : Int32]

VARIABLES epc,            \* "call", "body", "generate", "encode", "filters", "done", "panic"
          asked,          \* what the caller asked for
          prog,           \* program.Functions: instructions and FuncInfo
          fn, ins,        \* the loops of EncodeInstructions: function and instruction
          prog_buff,      \* words, or filters of a cBPF program
          func_buff       \* FuncInfo written so far

evars == <<epc, asked, prog, fn, ins, prog_buff, func_buff>>

Nothing == [fn |-> "nothing"]
NoInfo  == [InsnOff |-> -1, TypeId |-> 0]

EncodingInit ==
    /\ epc = "call" /\ asked = Nothing /\ prog = <<>>
    /\ fn = 1 /\ ins = 1 /\ prog_buff = <<>> /\ func_buff = <<>>

--------------------------------------------------------------------------------
(* Building the program *)

\* The program is handed over to be encoded; a constructor may have panicked.
Hand(what, functions, next) ==
    /\ asked' = what
    /\ prog' = functions
    /\ epc' = IF \E f \in 1 .. Len(functions) : \E i \in 1 .. Len(functions[f].insns) :
                    functions[f].insns[i] = Panics
              THEN "panic" ELSE next
    /\ UNCHANGED <<fn, ins, prog_buff, func_buff>>

\* A program of one function without type information.
OneFunction(insns) == <<[insns |-> insns, info |-> NoInfo]>>

Build(what, insns) == Hand(what, OneFunction(insns), "encode")

\* What the call of a constructor asks for: the operation, the destination, the
\* operand and the offset.
Wanted(f, op, class, dst, src, off) ==
    [fn |-> f, op |-> op, class |-> class, dst |-> dst, src |-> src, off |-> off]

BuildAlu ==
    \E name \in DOMAIN AluOps, class \in {InsClass.Alu, InsClass.Alu64},
       dst \in Registers, src \in Operands :
        Build(Wanted("alu", AluOps[name], class, dst, src, 0),
              <<IF name = "Mov" /\ class = InsClass.Alu64 THEN Mov64(dst, src)
                ELSE Alu(name, class, dst, src), Exit>>)

BuildJmp ==
    \E name \in JmpEqToSge \cup JmpLtToSle, class \in {InsClass.Jmp, InsClass.Jmp32},
       dst \in Registers, src \in Operands, off \in Offsets :
        Build(Wanted("jmp", JmpOps[name], class, dst, src, off),
              <<JmpIf(name, class, dst, src, off), Exit>>)

BuildStore ==
    \E size \in DOMAIN StLdSize, dst \in Registers, src \in Operands, off \in Offsets :
        Build(Wanted("store", StLdSize[size], InsClass.St, dst, src, off),
              <<St(size, dst, src, off), Exit>>)

BuildLoad ==
    \E size \in DOMAIN StLdSize, dst, src \in Registers, off \in Offsets :
        Build(Wanted("load", StLdSize[size], InsClass.Ldx, dst, Reg(src), off),
              <<Ld(size, dst, src, off), Exit>>)

BuildAtomic ==
    \E name \in AtomicOps, size \in {"W", "DW"}, dst, src \in Registers, off \in Offsets :
        Build(Wanted("atomic", AluOps[name], StLdSize[size], dst, Reg(src), off),
              <<MemAlu(name, size, dst, src, off), Exit>>)

\* LdMapElement(mapPtr, element, keyPtr, offset): asks for a lookup of the key.
BuildLookup ==
    \E keyPtr \in Registers, element \in Draws, off \in Offsets :
        Build(Wanted("lookup", 0, 0, keyPtr, Imm(element), off),
              LdMapElement(9, element, keyPtr, off) \o <<Exit>>)

\* CallSkbLoadBytesRelative, with skb in R6 and the buffer on the stack.
BuildSkbLoad ==
    \E src \in {o \in Operands : o.type # "Reg"} :
        Build(Wanted("skb", 0, 0, 10, src, 0),
              CallSkbLoadBytesRelative(6, src, 10, src, src, src) \o <<Exit>>)

\* A map's descriptor or a function's distance, an immediate of two slots of
\* which the source register says what it is: BPF_PSEUDO_MAP_FD or BPF_PSEUDO_FUNC.
BuildLdImm ==
    \/ \E dst \in Registers, fd \in Draws :
          Build(Wanted("ldimm", 1, 0, dst, Imm(fd), 0), <<LdMapByFd(dst, fd), Exit>>)
    \/ \E dist \in Draws : Build(Wanted("ldimm", 4, 0, 2, Imm(dist), 0), <<LdFunctionPtr(dist), Exit>>)

\* Jmp and Call.
BuildControl ==
    \/ \E off \in Offsets : Build(Wanted("jmp", JmpOps.JA, InsClass.Jmp, 0, Imm(0), off), <<Jmp(off), Exit>>)
    \/ \E n \in Draws : Build(Wanted("jmp", JmpOps.CALL, InsClass.Jmp, 0, Imm(n), 0), <<Call(n), Exit>>)

\* A jump is drawn over one or two instructions.
BuildRandom ==
    \E i \in RandomAluInstruction(Registers \ {10}, Draws)
             \cup RandomJmpInstruction(2, Registers \ {10}, Draws)
             \cup RandomMemInstruction(Registers \ {10}, Draws) :
        Build([fn |-> "random"], <<i, Exit>>)

\* The same for cBPF: the footer of a program is Ret(4).
BuildFilter(what, i) == Hand(what, OneFunction(<<i, C!Ret(C!Imm(4))>>), "filters")

CbpfOperands == {C!Imm(n) : n \in Draws} \cup {C!Reg(C!A), C!Reg(C!X)}

BuildCbpfAlu ==
    \E name \in DOMAIN C!AluOps, src \in CbpfOperands :
        BuildFilter(Wanted("calu", C!AluOps[name], C!InsClass.Alu, 0, src, 0), C!Alu(name, src))

BuildCbpfJmp ==
    \/ \E jt \in JumpFields : BuildFilter(Wanted("cja", C!JmpOps.JA, C!InsClass.Jmp, jt, C!Imm(0), 0),
                                          C!JmpJA(jt))
    \/ \E name \in DOMAIN C!JmpOps \ {"JA"}, src \in CbpfOperands, jt, jf \in JumpFields :
          BuildFilter(Wanted("cjmp", C!JmpOps[name], C!InsClass.Jmp, jt, src, jf),
                      C!JmpIf(name, jt, jf, src))

BuildCbpfMem ==
    \E name \in DOMAIN C!StLd, n \in Draws :
        BuildFilter(Wanted("cmem", C!StLdMode[C!StLd[name][1]] + C!StLdSize[C!StLd[name][2]],
                           C!InsClass[C!StLd[name][3]], 0, C!Imm(n), 0),
                    C!StoreLoad(name, n))

BuildCbpfRet ==
    \E src \in CbpfOperands : BuildFilter(Wanted("cret", 0, C!InsClass.Ret, 0, src, 0), C!Ret(src))

BuildCbpfMisc ==
    \E reg \in {C!A, C!X} :
        BuildFilter(Wanted("cmem", IF reg = C!X THEN 128 ELSE 0, C!InsClass.Misc, 0, C!Imm(reg), 0),
                    C!Misc(reg))

BuildCbpfRandom ==
    \E i \in C!RandomAluInstruction(Draws) \cup C!RandomJmpInstruction(JumpDraws, Draws)
             \cup C!RandomStoreInstruction({0, 512}) \cup C!RandomLoadInstruction({0, 64}, {0, 512}) :
        BuildFilter([fn |-> "crandom"], i)

BuildOne ==
    /\ epc = "call"
    /\ \/ BuildAlu \/ BuildJmp \/ BuildStore \/ BuildLoad \/ BuildAtomic \/ BuildLookup \/ BuildSkbLoad
       \/ BuildLdImm \/ BuildControl \/ BuildRandom
       \/ BuildCbpfAlu \/ BuildCbpfJmp \/ BuildCbpfMem \/ BuildCbpfRet \/ BuildCbpfMisc
       \/ BuildCbpfRandom

--------------------------------------------------------------------------------
(* Encoding *)

\* One turn of the inner loop of EncodeInstructions.
EncodeInstruction ==
    /\ epc = "encode" /\ fn <= Len(prog) /\ ins <= Len(prog[fn].insns)
    /\ prog_buff' = prog_buff \o encodeInstruction(prog[fn].insns[ins])
    /\ ins' = ins + 1
    /\ UNCHANGED <<epc, asked, prog, fn, func_buff>>

\* The end of a turn of the outer loop; FuncInfo may be nil.
EncodeFuncInfo ==
    /\ epc = "encode" /\ fn <= Len(prog) /\ ins > Len(prog[fn].insns)
    /\ func_buff' = IF prog[fn].info = NoInfo THEN func_buff ELSE Append(func_buff, prog[fn].info)
    /\ fn' = fn + 1 /\ ins' = 1
    /\ UNCHANGED <<epc, asked, prog, prog_buff>>

\* One turn of encodeCbpfInstructions.
EncodeFilter ==
    /\ epc = "filters" /\ ins <= Len(prog[1].insns)
    /\ prog_buff' = Append(prog_buff, C!Filter(prog[1].insns[ins]))
    /\ ins' = ins + 1
    /\ UNCHANGED <<epc, asked, prog, fn, func_buff>>

\* The buffers are returned.
ReturnBuffers ==
    /\ \/ epc = "encode" /\ fn > Len(prog)
       \/ epc = "filters" /\ ins > Len(prog[1].insns)
    /\ epc' = "done"
    /\ UNCHANGED <<asked, prog, fn, ins, prog_buff, func_buff>>

\* The next program.
Again ==
    /\ epc = "done"
    /\ epc' = "call" /\ asked' = Nothing /\ prog' = <<>>
    /\ fn' = 1 /\ ins' = 1 /\ prog_buff' = <<>> /\ func_buff' = <<>>

\* A panic of a constructor ends the fuzzer.
Ended == epc = "panic" /\ UNCHANGED evars

EncodingStep == EncodeInstruction \/ EncodeFuncInfo \/ EncodeFilter \/ ReturnBuffers \/ Again \/ Ended

--------------------------------------------------------------------------------
(* The kernel's reader: struct bpf_insn and struct sock_filter *)

Code(w)   == Field(w, 0, 8)
Dst(w)    == Field(w, 8, 4)
SrcReg(w) == Field(w, 12, 4)
Off(w)    == Field(w, 16, 16)
ImmOf(w)  == Field(w, 32, 32)

LdDwImm == Bits(24)

\* The positions at which the kernel finds an instruction.
Starts ==
    LET isStart[p \in 1 .. Len(prog_buff)] ==
            p = 1 \/ (IF p > 1 /\ Code(prog_buff[p - 1]) = LdDwImm /\ isStart[p - 1]
                      THEN FALSE ELSE TRUE)
    IN  {p \in 1 .. Len(prog_buff) : isStart[p]}

\* Whether the constant is one of 64 bits: a map, a function, or a Mov of more than
\* 32 bits.
MovesMore(c)     == c.fn = "alu" /\ c.op = AluOps.Mov /\ (c.src.type = "int64" \/ ~FitsInt32(c.src))
TakesTwoSlots(c) == c.fn = "ldimm" \/ MovesMore(c)

\* The opcode of what a constructor was asked for: the kernel's class, operation
\* and source, or class, size and mode.
KernelCode(c) ==
    LET fromReg == c.src.type = "Reg"
    IN  CASE TakesTwoSlots(c) -> 24
          [] c.fn \in {"alu", "jmp"} /\ ~TakesTwoSlots(c) -> c.class + c.op + (IF fromReg THEN 8 ELSE 0)
          [] c.fn = "store"  -> 96 + c.op + (IF fromReg THEN 3 ELSE 2)
          [] c.fn = "load"   -> 96 + c.op + c.class
          [] c.fn = "atomic" -> 192 + c.class + 3

\* A 32 bit Mov of an operand beyond 32 bits has no meaning to compare with.
Meaningful(c) ==
    /\ c.fn \in {"alu", "jmp", "store", "load", "atomic", "ldimm"}
    /\ ~(MovesMore(c) /\ c.class = InsClass.Alu)

CbpfRequests == {"calu", "cjmp", "cja", "cmem", "cret", "crandom"}

Program == epc = "done" /\ asked.fn \notin CbpfRequests

\* The kernel finds the instructions the caller put into the program, as many
\* and no others, and the exit at the end: an instruction with an immediate of 64
\* bits takes two slots, and a reader that took the second one for an
\* instruction, or found it missing, would read everything after it wrongly.
KernelStaysInStep ==
    Program =>
        /\ Cardinality(Starts) =
              LET upTo[f \in 0 .. Len(prog)] == IF f = 0 THEN 0 ELSE upTo[f - 1] + Len(prog[f].insns)
              IN  upTo[Len(prog)]
        /\ Len(prog_buff) \in Starts
        /\ prog_buff[Len(prog_buff)] = Bits(InsClass.Jmp + JmpOps.Exit)

\* The kernel reads the operation, the registers and the offset the caller asked
\* for, whichever of the eleven registers and whichever sign: the fields of a word
\* do not run into each other, though offset and immediate are int32 whose sign
\* goes up to bit 31 or 63.
KernelReadsInstruction ==
    Program /\ Meaningful(asked) =>
        LET w == prog_buff[1]
        IN  /\ Code(w) = Bits(KernelCode(asked))
            /\ Dst(w) = Bits(asked.dst)
            /\ Off(w) = Bits(asked.off) \cap 0 .. 15
            /\ asked.src.type = "Reg" => SrcReg(w) = Bits(asked.src.lo)
            /\ asked.fn = "atomic" => ImmOf(w) = Bits(asked.op)
            /\ asked.fn = "ldimm" => SrcReg(w) = Bits(asked.op) /\ ImmOf(w) = Bits(asked.src.lo)

\* The 64 bit constant an instruction works with: an immediate is extended by its
\* sign, or completed by the immediate of the second slot.
KernelOperand(p) ==
    IF Code(prog_buff[p]) = LdDwImm
    THEN ImmOf(prog_buff[p]) \cup Shl(ImmOf(prog_buff[p + 1]), 32, 64)
    ELSE Extend(ImmOf(prog_buff[p]))

\* A constant reaches the kernel with its value if the instruction can hold it: in
\* any case with Mov64, which finds out whether 32 bits are enough, and also with
\* the other constructors if they are.  (They keep the low half of a larger int,
\* and panic on an int64.)
OperandArrives ==
    /\ Program /\ Meaningful(asked) /\ asked.src.type # "Reg"
    /\ \/ asked.fn = "alu" /\ asked.op = AluOps.Mov
       \/ asked.fn \in {"alu", "jmp", "store"} /\ FitsInt32(asked.src)
    => KernelOperand(1) = Bits(asked.src.lo) \cup Shl(Bits(asked.src.hi), 32, 64)

\* The bits of an offset that must be 0 for an access of this size.
Misaligned(code) ==
    CASE code \cap {3, 4} = {3, 4} -> 0 .. 2 [] code \cap {3, 4} = {} -> 0 .. 1
      [] code \cap {3, 4} = {3} -> {0} [] OTHER -> {}

\* What the random generators draw takes one slot, as the strategies assume when
\* they count the instructions a jump may skip, and it is legal in three places
\* where the verifier would refuse a program at once: a shift is by less than the
\* width, an access to the stack is aligned and in its 512 bytes, nothing but memory
\* is written through R10.  The remainders of negative numbers and the alignment
\* downwards are where this could go wrong.  (There are other places: a division by
\* the immediate 0 can be drawn.)
RandomInstructionsLegal ==
    Program /\ asked.fn = "random" =>
        LET w == prog_buff[1]
            class == Field(w, 0, 3)
            shifts == {Field(Bits(AluOps[n]), 4, 4) : n \in {"Lsh", "Rsh", "Arsh"}}
        IN  /\ Len(prog_buff) = 2
            /\ class \in {Bits(InsClass.Alu), Bits(InsClass.Alu64)} =>
                  /\ Dst(w) # Bits(10)
                  /\ Field(w, 4, 4) \in shifts /\ 3 \notin Code(w) =>
                        ImmOf(w) \subseteq 0 .. (IF class = Bits(InsClass.Alu) THEN 4 ELSE 5)
            /\ class \in {Bits(InsClass.Jmp), Bits(InsClass.Jmp32)} => Off(w) \in {Bits(1), Bits(2)}
            /\ class \in {Bits(InsClass.Ldx), Bits(InsClass.St), Bits(InsClass.Stx)} =>
                  /\ Off(w) \cap Misaligned(Code(w)) = {}
                  /\ 9 .. 15 \subseteq Off(w)
                  /\ IF class = Bits(InsClass.Ldx) THEN SrcReg(w) = Bits(10) /\ Dst(w) # Bits(10)
                                                   ELSE Dst(w) = Bits(10)

\* The opcode of a request: class, operation (or mode and size) and source.
CbpfCode(c) == c.class + c.op + (IF c.src.type = "Reg" THEN 8 ELSE 0)

\* The opcodes the kernel admits in a socket filter, and none besides: arithmetic
\* with K and X, Neg without a source; JA, the other jumps with K and X; the loads
\* into A and X; stores, which have neither mode nor size; TAX, TXA; returns of K and A.
ClassicCodes ==
    ({4 + 16 * k + source : k \in 0 .. 10, source \in {0, 8}} \ {140})
    \cup {5} \cup {5 + 16 * k + source : k \in 1 .. 4, source \in {0, 8}}
    \cup {0, 32, 40, 48, 64, 72, 80, 96, 128} \cup {1, 97, 129, 177}
    \cup {2, 3} \cup {7, 135} \cup {6, 22}

KernelTakes(f) == \E n \in ClassicCodes : f.Opcode = Bits(n)

\* How far the kernel jumps if the condition is true or false: JA has its offset in K.
KernelJump(f) == IF f.Opcode = Bits(5) THEN <<f.K, f.K>> ELSE <<Bits(f.Jt), Bits(f.Jf)>>

\* The requests whose opcode is not one of the kernel's: Neg(X) and a return of a
\* register, of which the library sets the source bit of the arithmetic, St and Stx
\* (mode MEM), and LdxAbs.
Refused(c) ==
    \/ c.fn = "cret" /\ c.src.type = "Reg"
    \/ c.fn = "calu" /\ c.src.type = "Reg" /\ c.op = C!AluOps.Neg
    \/ c.fn = "cmem" /\ c.class \in {C!InsClass.St, C!InsClass.Stx}
    \/ c.fn = "cmem" /\ c.class = C!InsClass.Ldx /\ c.op = C!StLdMode.ABS

\* The kernel takes the filter the caller of the cBPF library asked for unless it is
\* one of four kinds, reads its operation, its operand and its jumps of up to 255
\* instructions, on either outcome; but JmpJA goes to the next instruction however
\* far it was asked to jump, as its offset is put into jt.  A drawn filter has no shift
\* by 32 or more and no jump on a true condition; on a false one it jumps as far as was
\* drawn below 256, from there on by the remainder only, which may be 0.
KernelReadsFilter ==
    epc = "done" /\ asked.fn \in CbpfRequests =>
        LET f == prog_buff[1]
            class == f.Opcode \cap 0 .. 2
        IN  /\ Len(prog_buff) = 2
            /\ asked.fn # "crandom" =>
                  /\ KernelTakes(f) <=> ~Refused(asked)
                  /\ f.Opcode = Bits(CbpfCode(asked))
                  /\ asked.src.type # "Reg" => f.K = Bits(asked.src.value)
                  /\ asked.fn = "cjmp" => KernelJump(f) = <<Bits(asked.dst), Bits(asked.off)>>
                  /\ asked.fn = "cja" => KernelJump(f) = <<{}, {}>>
            /\ asked.fn = "crandom" /\ class = Bits(C!InsClass.Alu) /\ 3 \notin f.Opcode =>
                  (Field(f.Opcode, 4, 4) \in {Bits(6), Bits(7)} => f.K \subseteq 0 .. 4)
            /\ asked.fn = "crandom" /\ class = Bits(C!InsClass.Jmp) =>
                  f.Jt = 0 /\ f.Jf \in {off % 256 : off \in JumpDraws}

================================================================================
