----------------------------- MODULE CbpfInstructions -----------------------------
(***************************************************************************)
(* The cBPF generation library (pkg/cbpf) and the conversion of its           *)
(* instructions to the kernel's struct sock_filter in the control unit.       *)
(*                                                                           *)
(* Registers and immediates are operands [type, value]; int and int32 both    *)
(* end as an int32.                                                           *)
(***************************************************************************)
EXTENDS GoIntegers

--------------------------------------------------------------------------------
(* The enumerations of cbpf.proto *)

AluOps == [Add |-> 0, Sub |-> 16, Mul |-> 32, Div |-> 48, Or |-> 64, And |-> 80,
           Lsh |-> 96, Rsh |-> 112, Neg |-> 128, Mod |-> 144, Xor |-> 160]

JmpOps == [JA |-> 0, JEQ |-> 16, JGT |-> 32, JGE |-> 48, JSET |-> 64]

SrcOperand == [Immediate |-> 0, RegSrc |-> 8]

InsClass == [Ld |-> 0, Ldx |-> 1, St |-> 2, Stx |-> 3, Alu |-> 4, Jmp |-> 5, Ret |-> 6,
             Misc |-> 7]

StLdMode == [IMM |-> 0, ABS |-> 32, IND |-> 64, MEM |-> 96, LEN |-> 128, MSH |-> 160]

StLdSize == [W |-> 0, H |-> 8, B |-> 16]

A == 0
X == 1
Reg(r) == [type |-> "Reg", value |-> r]
Imm(n) == [type |-> "int32", value |-> n]

--------------------------------------------------------------------------------
(* Constructors.  Opcode is an int32 in the code and a word here. *)

Instruction(opcode, jt, jf, k) == [opcode |-> opcode, jt |-> jt, jf |-> jf, k |-> k]

\* The masks 0x07, 0x08 and 0xF0.
Opcode(class, source, op) ==
    (Bits(class) \cap 0 .. 2) \cup (Bits(source) \cap {3}) \cup (Bits(op) \cap 4 .. 7)

\* The type switch of the constructors; of a register, k is that of X.
SrcType(src) == IF src.type = "Reg" THEN SrcOperand.RegSrc ELSE SrcOperand.Immediate
FieldK(src)  == IF src.type = "Reg" THEN X ELSE src.value

newAluInstruction(oc, src) ==
    Instruction(Opcode(InsClass.Alu, SrcType(src), oc), 0, 0, FieldK(src))

\* Add .. Xor.
Alu(name, src) == newAluInstruction(AluOps[name], src)

\* "The fourth bit is the source operand", taken with the mask 0x18.
Ret(src) ==
    Instruction((Bits(InsClass.Ret) \cap 0 .. 2) \cup (Bits(SrcType(src)) \cap 3 .. 4), 0, 0,
                IF src.type = "Reg" THEN A ELSE src.value)

\* TAX for A, TXA for X.
Misc(reg) ==
    Instruction((Bits(InsClass.Misc) \cap 0 .. 2)
                    \cup (Bits(IF reg = A THEN 0 ELSE 128) \cap 3 .. 7), 0, 0, reg)

newJmpInstruction(oc, jmpTrue, jmpFalse, src) ==
    Instruction(Opcode(InsClass.Jmp, SrcType(src), oc), jmpTrue, jmpFalse, FieldK(src))

JmpJA(jmpTrue) == newJmpInstruction(JmpOps.JA, jmpTrue, 0, Imm(0))

\* JmpEQ, JmpGT, JmpGE and JmpSET.
JmpIf(name, jmpTrue, jmpFalse, src) == newJmpInstruction(JmpOps[name], jmpTrue, jmpFalse, src)

\* The masks 0x07, 0x18 and 0xE0.
newStoreLoadOperation(mode, size, class, fieldK) ==
    Instruction((Bits(class) \cap 0 .. 2) \cup (Bits(size) \cap 3 .. 4) \cup (Bits(mode) \cap 5 .. 7),
                0, 0, fieldK)

\* Ld .. Stx by name: mode, size and class.
StLd ==
    [Ld     |-> <<"MEM", "W", "Ld">>,  Ldi    |-> <<"IMM", "W", "Ld">>,  LdLen  |-> <<"LEN", "W", "Ld">>,
     LdAbsW |-> <<"ABS", "W", "Ld">>,  LdAbsH |-> <<"ABS", "H", "Ld">>,  LdAbsB |-> <<"ABS", "B", "Ld">>,
     LdIndW |-> <<"IND", "W", "Ld">>,  LdIndH |-> <<"IND", "H", "Ld">>,  LdIndB |-> <<"IND", "B", "Ld">>,
     Ldx    |-> <<"MEM", "W", "Ldx">>, Ldxi   |-> <<"IMM", "W", "Ldx">>, LdxLen |-> <<"LEN", "W", "Ldx">>,
     LdxAbs |-> <<"ABS", "W", "Ldx">>, Ldxb   |-> <<"MSH", "B", "Ldx">>,
     St     |-> <<"MEM", "W", "St">>,  Stx    |-> <<"MEM", "W", "Stx">>]

StoreLoad(name, k) ==
    newStoreLoadOperation(StLdMode[StLd[name][1]], StLdSize[StLd[name][2]],
                          InsClass[StLd[name][3]], k)

--------------------------------------------------------------------------------
(* Random instructions: the set of what each function can return, given the
   results of int32(RandRange(0, 0xffffffff)) and of the smaller ranges. *)

\* The mistake of leaving the sign of the remainder.
generateImmAluInstructionSigned(op, value) ==
    newAluInstruction(op, Imm(IF op \in {AluOps.Rsh, AluOps.Lsh} THEN Rem(value, 32) ELSE value))

generateImmAluInstruction(op, value) ==
    LET shift == Rem(value, 32)
        k     == IF op \notin {AluOps.Rsh, AluOps.Lsh} THEN value
                 ELSE IF shift < 0 THEN -shift ELSE shift
    IN  newAluInstruction(op, Imm(k))

RandomAluInstruction(values) ==
    LET ops == {16 * n : n \in 0 .. 10}
    IN  {generateImmAluInstruction(op, v) : op \in ops, v \in values}
            \cup {newAluInstruction(op, Reg(X)) : op \in ops}

\* Any operation but JA; the jump is taken if the condition is false.
RandomJmpInstruction(offsets, values) ==
    {newJmpInstruction(16 * n, 0, Int8(off), src) :
        n \in 1 .. 4, off \in offsets, src \in {Imm(v) : v \in values} \cup {Reg(X)}}

RandomSize == {8 * n : n \in 0 .. 2}

RandomMode == {16 * n : n \in 0 .. 8}

RandomStoreInstruction(imms) ==
    {newStoreLoadOperation(StLdMode.MEM, size, class, imm) :
        size \in RandomSize, class \in {InsClass.St, InsClass.Stx}, imm \in imms}

ExtensionOffset == -4096

\* `extensions` stands for RandRange(0, 64), `imms` for RandRange(0, 512).
RandomLoadImm(mode, extensions, imms) ==
    IF mode = StLdMode.ABS THEN {ExtensionOffset + n : n \in extensions} ELSE imms

RandomLoadInstruction(extensions, imms) ==
    UNION {{newStoreLoadOperation(mode, size, class, imm) :
               size \in RandomSize, class \in {InsClass.Ld, InsClass.Ldx},
               imm \in RandomLoadImm(mode, extensions, imms)} : mode \in RandomMode}

--------------------------------------------------------------------------------
(* control.go *)

\* One turn of encodeCbpfInstructions: uint16, uint8, uint8 and uint32.
Filter(i) ==
    [Opcode |-> i.opcode \cap 0 .. 15, Jt |-> Uint8(i.jt), Jf |-> Uint8(i.jf), K |-> Bits(i.k)]

================================================================================
