----------------------------- MODULE EbpfInstructions -----------------------------
(***************************************************************************)
(* The eBPF generation library (pkg/ebpf): constructors, random instructions  *)
(* and the encoding of one instruction.                                       *)
(*                                                                           *)
(* An operand of the constructors' type parameter Src is its Go type and its  *)
(* value as a pair of int32, value = hi * 2^32 + lo (lo as a uint32); a        *)
(* register is its number.  A pseudo instruction is zero but for its          *)
(* immediate, and is represented by it.                                       *)
(***************************************************************************)
EXTENDS GoIntegers, Sequences

--------------------------------------------------------------------------------
(* The enumerations of ebpf.proto *)

AluOps == [Add |-> 0, Sub |-> 16, Mul |-> 32, Div |-> 48, Or |-> 64, And |-> 80,
           Lsh |-> 96, Rsh |-> 112, Neg |-> 128, Mod |-> 144, Xor |-> 160, Mov |-> 176,
           Arsh |-> 192, End |-> 208]

JmpOps == [JA |-> 0, JEQ |-> 16, JGT |-> 32, JGE |-> 48, JSET |-> 64, JNE |-> 80,
           JSGT |-> 96, JSGE |-> 112, CALL |-> 128, Exit |-> 144, JLT |-> 160,
           JLE |-> 176, JSLT |-> 192, JSLE |-> 208]

SrcOperand == [Immediate |-> 0, RegSrc |-> 8]

InsClass == [Ld |-> 0, Ldx |-> 1, St |-> 2, Stx |-> 3, Alu |-> 4, Jmp |-> 5, Jmp32 |-> 6,
             Alu64 |-> 7]

StLdMode == [IMM |-> 0, MEM |-> 96, ATOMIC |-> 192]

StLdSize == [W |-> 0, H |-> 8, B |-> 16, DW |-> 24]

--------------------------------------------------------------------------------
(* Operands and instructions *)

Reg(r)  == [type |-> "Reg", hi |-> 0, lo |-> r]
Sign(n) == IF n < 0 THEN -1 ELSE 0
Imm(n)  == [type |-> "int", hi |-> Sign(n), lo |-> n]

\* int(int32(src)) = int(int64(src))
FitsInt32(src) == src.hi = Sign(src.lo)

\* One opcode message for the three of ebpf.proto; of a memory instruction `op` is
\* the mode and `source` the size.
Instruction(form, op, source, class, dst, src, off, imm, pseudo) ==
    [form |-> form, op |-> op, source |-> source, class |-> class, dst |-> dst, src |-> src,
     off |-> off, imm |-> imm, pseudo |-> pseudo]

\* any(src).(int32) of an int64.
Panics == Instruction("panic", 0, 0, 0, 0, 0, 0, 0, <<>>)

Mem(mode, size, class, dst, src, off, imm, pseudo) ==
    Instruction("mem", mode, size, class, dst, src, off, imm, pseudo)

\* The type switch that newAluInstruction, newJmpInstruction and
\* newStoreOperation share.
FromSrc(src, fromReg, fromImm) ==
    CASE src.type = "Reg"             -> fromReg
      [] src.type \in {"int", "int32"} -> fromImm
      [] OTHER                        -> Panics

newAluInstruction(oc, class, dst, src) ==
    IF src.type = "int64" /\ oc = AluOps.Mov
    THEN Mem(StLdMode.IMM, StLdSize.DW, InsClass.Ld, dst, 0, 0, src.lo, <<src.hi>>)
    ELSE FromSrc(src, Instruction("alu", oc, SrcOperand.RegSrc, class, dst, src.lo, 0, 0, <<>>),
                      Instruction("alu", oc, SrcOperand.Immediate, class, dst, 0, 0, src.lo, <<>>))

newJmpInstruction(oc, class, dst, src, offset) ==
    FromSrc(src, Instruction("jmp", oc, SrcOperand.RegSrc, class, dst, src.lo, offset, 0, <<>>),
                 Instruction("jmp", oc, SrcOperand.Immediate, class, dst, 0, offset, src.lo, <<>>))

newStoreOperation(size, dst, src, offset) ==
    FromSrc(src, Mem(StLdMode.MEM, size, InsClass.Stx, dst, src.lo, offset, 0, <<>>),
                 Mem(StLdMode.MEM, size, InsClass.St, dst, 0, offset, src.lo, <<>>))

newLoadOperation(size, dst, src, offset) ==
    Mem(StLdMode.MEM, size, InsClass.Ldx, dst, src, offset, 0, <<>>)

newLoadImmOperation(size, dst, src, offset, imm, pseudo) ==
    Mem(StLdMode.IMM, size, InsClass.Ld, dst, src, offset, imm, pseudo)

newAtomicInstruction(dst, src, size, offset, operation) ==
    Mem(StLdMode.ATOMIC, size, InsClass.Stx, dst, src, offset, operation, <<>>)

\* Add64 .. End64, all but Mov64, and Add .. End.
Alu(name, class, dst, src) == newAluInstruction(AluOps[name], class, dst, src)

\* The mistake of a Mov64 like the other constructors.
Mov64Narrow(dst, src) == newAluInstruction(AluOps.Mov, InsClass.Alu64, dst, src)

Mov64(dst, src) ==
    newAluInstruction(AluOps.Mov, InsClass.Alu64, dst,
                      IF FitsInt32(src) THEN src ELSE [src EXCEPT !.type = "int64"])

Add64(dst, src) == Alu("Add", InsClass.Alu64, dst, src)
Mov(dst, src)   == Alu("Mov", InsClass.Alu, dst, src)

\* JmpEQ .. JmpSGE and JmpEQ32 .. JmpSGE32.
JmpEqToSge == {"JEQ", "JGT", "JGE", "JSET", "JNE", "JSGT", "JSGE"}
\* JmpLT .. JmpSLE and JmpLT32 .. JmpSLE32.
JmpLtToSle == {"JLT", "JLE", "JSLT", "JSLE"}

JmpIf(name, class, dst, src, offset) == newJmpInstruction(JmpOps[name], class, dst, src, offset)
JmpNE(dst, src, offset) == JmpIf("JNE", InsClass.Jmp, dst, src, offset)
Jmp(offset) == newJmpInstruction(JmpOps.JA, InsClass.Jmp, 0, Imm(0), offset)
Call(value) == newJmpInstruction(JmpOps.CALL, InsClass.Jmp, 0, Imm(value), 0)
Exit        == newJmpInstruction(JmpOps.Exit, InsClass.Jmp, 0, Imm(0), 0)

\* The kernel takes register number 4 as BPF_PSEUDO_FUNC and 1 as a map's descriptor.
LdFunctionPtr(imm) == Mem(StLdMode.IMM, StLdSize.DW, InsClass.Ld, 2, 4, 0, imm, <<0>>)
LdMapByFd(dst, fd) == newLoadImmOperation(StLdSize.DW, dst, 1, 0, fd, <<0>>)

\* StDW, StW, StH and StB; LdDW, LdW, LdH and LdB.
St(size, dst, src, offset) == newStoreOperation(StLdSize[size], dst, src, offset)
Ld(size, dst, src, offset) == newLoadOperation(StLdSize[size], dst, src, offset)

\* MemAdd, MemOr, MemAnd and MemXor, and their 64 bit forms.
AtomicOps == {"Add", "Or", "And", "Xor"}
MemAlu(name, size, dst, src, offset) ==
    newAtomicInstruction(dst, src, StLdSize[size], offset, AluOps[name])

MapLookup            == 1
SkbLoadBytesRelative == 68

LdMapElement(mapPtr, element, keyPtr, offset) ==
    <<Mov64(1, Reg(mapPtr)), St("W", keyPtr, Imm(element), offset), Mov64(2, Reg(keyPtr)),
      Add64(2, Imm(offset)), Call(MapLookup)>>

CallSkbLoadBytesRelative(skb, skb_offset, dstAddress, dstAddressOffset, length, start_header) ==
    <<Mov64(1, Reg(skb)), Mov64(2, skb_offset), Mov64(3, Reg(dstAddress)),
      Add64(3, dstAddressOffset), Mov64(4, length), Mov64(5, start_header),
      Call(SkbLoadBytesRelative)>>

--------------------------------------------------------------------------------
(* Random instructions: the set of what each function can return, given the
   results of RandInt() and of int32(RandRange(0, 0xffffffff)). *)

RandomRegister == 0 .. 9

generateImmAluInstruction(op, class, dst, value) ==
    LET shift == Rem(value, IF class = InsClass.Alu THEN 32 ELSE 64)
        imm   == CASE op \in {AluOps.Rsh, AluOps.Lsh, AluOps.Arsh} ->
                          IF shift < 0 THEN -shift ELSE shift
                   [] op = AluOps.Neg -> 0
                   [] OTHER -> value
    IN  newAluInstruction(op, class, dst, [Imm(imm) EXCEPT !.type = "int32"])

\* "Negation is not supported with Register as src": another operation is drawn.
generateRegAluInstruction(op, class, dst, src) == newAluInstruction(op, class, dst, Reg(src))

RandomAluOp == {16 * k : k \in 0 .. 12}

RandomAluInstruction(dsts, values) ==
    {generateImmAluInstruction(op, class, dst, value) :
        op \in RandomAluOp, class \in {InsClass.Alu, InsClass.Alu64}, dst \in dsts, value \in values}
    \cup
    {generateRegAluInstruction(op, class, dst, src) :
        op \in RandomAluOp \ {AluOps.Neg}, class \in {InsClass.Alu, InsClass.Alu64},
        dst \in dsts, src \in dsts}

IsConditional(op) == op \notin {JmpOps.Exit, JmpOps.CALL, JmpOps.JA}

RandomJumpOp == {op \in {16 * k : k \in 0 .. 13} : IsConditional(op)}

RandomJmpInstruction(maxOffset, dsts, values) ==
    {newJmpInstruction(op, class, dst, src, Int16(off)) :
        op \in RandomJumpOp, class \in {InsClass.Jmp, InsClass.Jmp32}, dst \in dsts,
        src \in {Reg(r) : r \in dsts} \cup {[Imm(v) EXCEPT !.type = "int32"] : v \in values},
        off \in 1 .. maxOffset}

RandomSize == {8 * k : k \in 0 .. 3}

AlignmentForSize(s) ==
    CASE s = StLdSize.B -> 1 [] s = StLdSize.H -> 2 [] s = StLdSize.W -> 4 [] OTHER -> 8

\* The mistake of aligning upwards.
RandomOffsetUp(s, draws) ==
    LET offsets == {Rem(Int16(draw), 512) : draw \in draws} \ {0}
        below(off) == IF off > 0 THEN -off ELSE off
    IN  {below(off) + ((-below(off)) % AlignmentForSize(s)) : off \in offsets}

\* A remainder of 0 is drawn again; the loop that aligns steps down to a multiple.
RandomOffset(s, draws) ==
    LET offsets == {Rem(Int16(draw), 512) : draw \in draws} \ {0}
        below(off) == IF off > 0 THEN -off ELSE off
    IN  {below(off) - (below(off) % AlignmentForSize(s)) : off \in offsets}

RandomStoreInstruction(dsts, draws) ==
    UNION {{newStoreOperation(size, 10, src, off) :
               src \in {Reg(r) : r \in dsts} \cup {[Imm(v) EXCEPT !.type = "int32"] : v \in draws},
               off \in RandomOffset(size, draws)} : size \in RandomSize}

RandomLoadInstruction(dsts, draws) ==
    UNION {{newLoadOperation(size, dst, 10, off) : dst \in dsts, off \in RandomOffset(size, draws)} :
               size \in RandomSize}

RandomAtomicInstruction(dsts, draws) ==
    UNION {{newAtomicInstruction(10, src, size, off, AluOps[name]) :
               src \in dsts, name \in AtomicOps, off \in RandomOffset(size, draws)} :
               size \in {StLdSize.W, StLdSize.DW}}

RandomMemInstruction(dsts, draws) ==
    RandomStoreInstruction(dsts, draws) \cup RandomLoadInstruction(dsts, draws)
        \cup RandomAtomicInstruction(dsts, draws)

--------------------------------------------------------------------------------
(* encoding_functions.go *)

\* The masks 0x07, 0x08 and 0xF0.
encodeAluJmpOpcode(op, class, source) ==
    (Bits(class) \cap 0 .. 2) \cup (Bits(source) \cap {3}) \cup (Bits(op) \cap 4 .. 7)

\* The masks 0x07, 0x18 and 0xE0.
encodeMemOpcode(mode, size, class) ==
    (Bits(class) \cap 0 .. 2) \cup (Bits(size) \cap 3 .. 4) \cup (Bits(mode) \cap 5 .. 7)

Opcode(i) ==
    IF i.form = "mem" THEN encodeMemOpcode(i.op, i.source, i.class)
                      ELSE encodeAluJmpOpcode(i.op, i.class, i.source)

\* The mistake of widening a negative offset before the shift.
EncodeWordWideOffset(i) ==
    LET registers == (Bits(i.dst) \cap 0 .. 3) \cup Shl(Bits(i.src) \cap 0 .. 3, 4, 8)
    IN  Opcode(i) \cup Shl(registers, 8, 16) \cup Shl(Extend(Bits(i.off)), 16, 64)
            \cup Shl(Extend(Bits(i.imm)), 32, 64)

EncodeWord(i) ==
    LET registers == (Bits(i.dst) \cap 0 .. 3) \cup Shl(Bits(i.src) \cap 0 .. 3, 4, 8)
    IN  Opcode(i) \cup Shl(registers, 8, 16) \cup Shl(Bits(i.off), 16, 32)
            \cup Shl(Extend(Bits(i.imm)), 32, 64)

\* The mistake of leaving out the second slot if it is 0.
encodeInstructionShort(i) ==
    <<EncodeWord(i)>> \o
        [k \in 1 .. (IF i.pseudo = <<0>> THEN 0 ELSE Len(i.pseudo)) |->
            EncodeWord(Mem(0, 0, 0, 0, 0, 0, i.pseudo[k], <<>>))]

\* One word, and a second one for a PseudoValue.
encodeInstruction(i) ==
    <<EncodeWord(i)>> \o
        [k \in 1 .. Len(i.pseudo) |-> EncodeWord(Mem(0, 0, 0, 0, 0, 0, i.pseudo[k], <<>>))]

================================================================================
