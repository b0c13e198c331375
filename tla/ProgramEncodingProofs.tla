--------------------------- MODULE ProgramEncodingProofs ---------------------------
(***************************************************************************)
(* What a caller asks of the constructors is what the kernel reads, for       *)
(* every register, every offset and every operand of the types Src admits.    *)
(***************************************************************************)
EXTENDS LoopProgram, EncodingProofs, SequenceTheorems

\* The constructors of one instruction.
Constructors == {"alu", "jmp", "store", "load", "atomic", "ldimm"}

\* What the constructor makes of what it was asked for.
Made(c) ==
    CASE c.fn = "alu"    -> IF c.op = AluOps.Mov /\ c.class = InsClass.Alu64 THEN Mov64(c.dst, c.src)
                            ELSE newAluInstruction(c.op, c.class, c.dst, c.src)
      [] c.fn = "jmp"    -> newJmpInstruction(c.op, c.class, c.dst, c.src, c.off)
      [] c.fn = "store"  -> newStoreOperation(c.op, c.dst, c.src, c.off)
      [] c.fn = "load"   -> newLoadOperation(c.op, c.dst, c.src.lo, c.off)
      [] c.fn = "atomic" -> newAtomicInstruction(c.dst, c.src.lo, c.class, c.off, c.op)
      [] c.fn = "ldimm"  -> newLoadImmOperation(StLdSize.DW, c.dst, c.op, 0, c.src.lo, <<0>>)

Ints == [type : {"int32", "int", "int64"}, hi : Int32, lo : Int32]
AnyOperand == {Reg(r) : r \in 0 .. 10} \cup Ints

\* The requests a caller can make.
Asks(c) ==
    /\ c.dst \in 0 .. 10 /\ c.off \in Int /\ c.src \in AnyOperand
    /\ \/ c.fn = "alu" /\ (\E k \in 0 .. 13 : c.op = 16 * k) /\ c.class \in {4, 7} /\ c.off = 0
       \/ c.fn = "jmp" /\ (\E k \in 0 .. 13 : c.op = 16 * k) /\ c.class \in {5, 6}
       \/ c.fn = "store" /\ (\E k \in 0 .. 3 : c.op = 8 * k)
       \/ c.fn = "load" /\ (\E k \in 0 .. 3 : c.op = 8 * k) /\ c.class = 1 /\ c.src.type = "Reg"
       \/ c.fn = "atomic" /\ (\E k \in 0 .. 3 : c.class = 8 * k) /\ c.op \in Int
                          /\ c.src.type = "Reg"
       \/ c.fn = "ldimm" /\ c.op \in {1, 4} /\ c.off = 0 /\ c.src.type = "int"

--------------------------------------------------------------------------------
(* Requests *)

\* The numbers of ebpf.proto that the proofs use.
LEMMA Numbers ==
    /\ AluOps.Mov = 176 /\ InsClass.Alu = 4 /\ InsClass.Alu64 = 7 /\ InsClass.Jmp = 5
    /\ InsClass.Jmp32 = 6 /\ InsClass.Ld = 0 /\ InsClass.Ldx = 1 /\ InsClass.St = 2
    /\ InsClass.Stx = 3 /\ StLdMode.IMM = 0 /\ StLdMode.MEM = 96 /\ StLdMode.ATOMIC = 192
    /\ StLdSize.DW = 24 /\ SrcOperand.Immediate = 0 /\ SrcOperand.RegSrc = 8
    /\ JmpOps.JA = 0 /\ JmpOps.CALL = 128
BY DEF AluOps, InsClass, StLdMode, StLdSize, SrcOperand, JmpOps

LEMMA OpNumbers ==
    /\ \A name \in DOMAIN AluOps : /\ \E k \in 0 .. 13 : AluOps[name] = 16 * k
                                   /\ name = "Mov" <=> AluOps[name] = 176
    /\ \A name \in JmpEqToSge \cup JmpLtToSle : \E k \in 0 .. 13 : JmpOps[name] = 16 * k
    /\ \A size \in DOMAIN StLdSize : \E k \in 0 .. 3 : StLdSize[size] = 8 * k
<1>1. \A name \in DOMAIN AluOps : /\ \E k \in 0 .. 13 : AluOps[name] = 16 * k
                                  /\ name = "Mov" <=> AluOps[name] = 176
  BY DEF AluOps
<1>2. \A name \in JmpEqToSge \cup JmpLtToSle : \E k \in 0 .. 13 : JmpOps[name] = 16 * k
  BY DEF JmpOps, JmpEqToSge, JmpLtToSle
<1>3. \A size \in DOMAIN StLdSize : \E k \in 0 .. 3 : StLdSize[size] = 8 * k
  BY DEF StLdSize
<1> QED  BY <1>1, <1>2, <1>3

\* The operands of the specification are operands.
LEMMA OperandTypes ==
    /\ Registers \subseteq 0 .. 10 /\ Offsets \subseteq Int
    /\ Operands \subseteq AnyOperand
    /\ \A r \in 0 .. 10 : Reg(r) \in AnyOperand /\ Reg(r).type = "Reg" /\ Reg(r).lo = r
    /\ \A n \in Draws \cup {0} : Imm(n) \in AnyOperand /\ Imm(n).type = "int" /\ Imm(n).lo = n
<1>1. \A n \in Draws \cup {0} : Imm(n) \in AnyOperand /\ Imm(n).type = "int" /\ Imm(n).lo = n
  <2> SUFFICES ASSUME NEW n \in Draws \cup {0}
               PROVE  Imm(n) \in AnyOperand /\ Imm(n).type = "int" /\ Imm(n).lo = n
    OBVIOUS
  <2>1. 0 \in Int32 /\ -1 \in Int32
    BY SMT DEF Int32
  <2>2. n \in Int32
    BY <2>1, EncodingAssumption
  <2>3. Sign(n) \in Int32
    BY <2>1 DEF Sign
  <2> QED  BY <2>2, <2>3 DEF Imm, AnyOperand, Ints
<1>2. \A r \in 0 .. 10 : Reg(r) \in AnyOperand /\ Reg(r).type = "Reg" /\ Reg(r).lo = r
  BY DEF Reg, AnyOperand
<1>3. Operands \subseteq AnyOperand
  BY OperandsAssumption DEF AnyOperand, Ints
<1>4. Registers \subseteq 0 .. 10 /\ Offsets \subseteq Int
  BY EncodingAssumption
<1> QED  BY <1>1, <1>2, <1>3, <1>4

\* What Build hands over.
LEMMA BuildHands ==
    ASSUME NEW what, NEW i, Build(what, <<i, Exit>>)
    PROVE  /\ asked' = what /\ prog' = OneFunction(<<i, Exit>>)
           /\ epc' = "panic" \/ (epc' = "encode" /\ i # Panics)
           /\ fn' = fn /\ ins' = ins /\ prog_buff' = prog_buff
<1> DEFINE p == OneFunction(<<i, Exit>>)
<1>1. Len(p) = 1 /\ p[1].insns = <<i, Exit>>
  BY DEF OneFunction
<1>2. 1 \in 1 .. Len(p) /\ 1 \in 1 .. Len(p[1].insns) /\ p[1].insns[1] = i
  BY <1>1
<1> HIDE DEF p
<1>3. Hand(what, p, "encode")
  BY DEF Build, p
<1>4. epc' = "panic" \/ (epc' = "encode" /\ i # Panics)
  BY <1>2, <1>3 DEF Hand
<1> QED  BY <1>3, <1>4 DEF Hand, p

\* The program that is handed over is an exit behind what the constructor made of
\* a request.
Requested ==
    \E i : /\ asked'.fn \in Constructors /\ Asks(asked') /\ i = Made(asked') /\ i # Panics
           /\ prog' = OneFunction(<<i, Exit>>)

LEMMA RequestIsBuilt ==
    ASSUME NEW c, c.fn \in Constructors, Asks(c), NEW i, i = Made(c), Build(c, <<i, Exit>>)
    PROVE  epc' = "panic" \/ (epc' = "encode" /\ Requested)
<1>1. /\ asked' = c /\ prog' = OneFunction(<<i, Exit>>)
      /\ epc' = "panic" \/ (epc' = "encode" /\ i # Panics)
  BY BuildHands
<1> QED  BY <1>1, Zenon DEF Requested

\* The fields of a request.
LEMMA WantedFields ==
    ASSUME NEW f, NEW op, NEW class, NEW dst, NEW src, NEW off
    PROVE  LET c == Wanted(f, op, class, dst, src, off)
           IN  /\ c.fn = f /\ c.op = op /\ c.class = class /\ c.dst = dst /\ c.src = src
               /\ c.off = off
BY DEF Wanted

LEMMA AluIsRequest ==
    ASSUME BuildAlu PROVE epc' = "panic" \/ (epc' = "encode" /\ Requested)
<1>1. PICK name \in DOMAIN AluOps, class \in {InsClass.Alu, InsClass.Alu64},
           dst \in Registers, src \in Operands :
        Build(Wanted("alu", AluOps[name], class, dst, src, 0),
              <<IF name = "Mov" /\ class = InsClass.Alu64 THEN Mov64(dst, src)
                ELSE Alu(name, class, dst, src), Exit>>)
  BY DEF BuildAlu
<1> DEFINE c == Wanted("alu", AluOps[name], class, dst, src, 0)
           i == IF name = "Mov" /\ class = InsClass.Alu64 THEN Mov64(dst, src)
                ELSE Alu(name, class, dst, src)
<1>2. /\ c.fn = "alu" /\ c.op = AluOps[name] /\ c.class = class /\ c.dst = dst /\ c.src = src
      /\ c.off = 0
  BY WantedFields
<1>3. name = "Mov" <=> AluOps[name] = AluOps.Mov
  BY OpNumbers, Numbers
<1>4. i = Made(c)
  BY <1>2, <1>3 DEF Made, Alu
<1>5. Asks(c)
  <2>1. \E k \in 0 .. 13 : AluOps[name] = 16 * k
    BY OpNumbers
  <2>2. class \in {4, 7}
    BY Numbers
  <2>3. dst \in 0 .. 10 /\ src \in AnyOperand
    BY OperandTypes
  <2> HIDE DEF c
  <2> QED  BY <1>2, <2>1, <2>2, <2>3 DEF Asks
<1> HIDE DEF c, i
<1>6. Build(c, <<i, Exit>>)
  BY <1>1 DEF c, i
<1> QED  BY <1>2, <1>4, <1>5, <1>6, RequestIsBuilt DEF Constructors

LEMMA JmpIsRequest ==
    ASSUME BuildJmp PROVE epc' = "panic" \/ (epc' = "encode" /\ Requested)
<1>1. PICK name \in JmpEqToSge \cup JmpLtToSle, class \in {InsClass.Jmp, InsClass.Jmp32},
           dst \in Registers, src \in Operands, off \in Offsets :
        Build(Wanted("jmp", JmpOps[name], class, dst, src, off), <<JmpIf(name, class, dst, src, off), Exit>>)
  BY DEF BuildJmp
<1> DEFINE c == Wanted("jmp", JmpOps[name], class, dst, src, off)
           i == JmpIf(name, class, dst, src, off)
<1>2. /\ c.fn = "jmp" /\ c.op = JmpOps[name] /\ c.class = class /\ c.dst = dst
      /\ c.src = src /\ c.off = off
  BY WantedFields
<1>3. (\E k \in 0 .. 13 : JmpOps[name] = 16 * k) /\ class \in {5, 6} /\ dst \in 0 .. 10
      /\ src \in AnyOperand /\ off \in Int
  BY OpNumbers, Numbers, OperandTypes
<1> HIDE DEF c
<1>4. i = Made(c)
  BY <1>2, <1>3 DEF Made, JmpIf
<1>5. Asks(c)
  BY <1>2, <1>3 DEF Asks
<1> HIDE DEF i
<1>6. Build(c, <<i, Exit>>)
  BY <1>1 DEF c, i
<1> QED  BY <1>2, <1>4, <1>5, <1>6, RequestIsBuilt DEF Constructors

LEMMA StoreIsRequest ==
    ASSUME BuildStore PROVE epc' = "panic" \/ (epc' = "encode" /\ Requested)
<1>1. PICK size \in DOMAIN StLdSize, dst \in Registers, src \in Operands, off \in Offsets :
        Build(Wanted("store", StLdSize[size], InsClass.St, dst, src, off), <<St(size, dst, src, off), Exit>>)
  BY DEF BuildStore
<1> DEFINE c == Wanted("store", StLdSize[size], InsClass.St, dst, src, off)
           i == St(size, dst, src, off)
<1>2. /\ c.fn = "store" /\ c.op = StLdSize[size] /\ c.class = InsClass.St /\ c.dst = dst
      /\ c.src = src /\ c.off = off
  BY WantedFields
<1>3. (\E k \in 0 .. 3 : StLdSize[size] = 8 * k) /\ dst \in 0 .. 10 /\ src \in AnyOperand
      /\ off \in Int
  BY OpNumbers, OperandTypes
<1> HIDE DEF c
<1>4. i = Made(c)
  BY <1>2, <1>3 DEF Made, St
<1>5. Asks(c)
  BY <1>2, <1>3 DEF Asks
<1> HIDE DEF i
<1>6. Build(c, <<i, Exit>>)
  BY <1>1 DEF c, i
<1> QED  BY <1>2, <1>4, <1>5, <1>6, RequestIsBuilt DEF Constructors

LEMMA LoadIsRequest ==
    ASSUME BuildLoad PROVE epc' = "panic" \/ (epc' = "encode" /\ Requested)
<1>1. PICK size \in DOMAIN StLdSize, dst, src \in Registers, off \in Offsets :
        Build(Wanted("load", StLdSize[size], InsClass.Ldx, dst, Reg(src), off), <<Ld(size, dst, src, off), Exit>>)
  BY DEF BuildLoad
<1> DEFINE c == Wanted("load", StLdSize[size], InsClass.Ldx, dst, Reg(src), off)
           i == Ld(size, dst, src, off)
<1>2. /\ c.fn = "load" /\ c.op = StLdSize[size] /\ c.class = InsClass.Ldx /\ c.dst = dst
      /\ c.src = Reg(src) /\ c.off = off
  BY WantedFields
<1>3. /\ \E k \in 0 .. 3 : StLdSize[size] = 8 * k
      /\ dst \in 0 .. 10 /\ Reg(src) \in AnyOperand /\ Reg(src).type = "Reg" /\ Reg(src).lo = src
      /\ off \in Int /\ InsClass.Ldx = 1
  BY OpNumbers, Numbers, OperandTypes
<1> HIDE DEF c
<1>4. i = Made(c)
  BY <1>2, <1>3 DEF Made, Ld
<1>5. Asks(c)
  BY <1>2, <1>3 DEF Asks
<1> HIDE DEF i
<1>6. Build(c, <<i, Exit>>)
  BY <1>1 DEF c, i
<1> QED  BY <1>2, <1>4, <1>5, <1>6, RequestIsBuilt DEF Constructors

LEMMA AtomicIsRequest ==
    ASSUME BuildAtomic PROVE epc' = "panic" \/ (epc' = "encode" /\ Requested)
<1>1. PICK name \in AtomicOps, size \in {"W", "DW"}, dst, src \in Registers, off \in Offsets :
        Build(Wanted("atomic", AluOps[name], StLdSize[size], dst, Reg(src), off), <<MemAlu(name, size, dst, src, off), Exit>>)
  BY DEF BuildAtomic
<1> DEFINE c == Wanted("atomic", AluOps[name], StLdSize[size], dst, Reg(src), off)
           i == MemAlu(name, size, dst, src, off)
<1>2. /\ c.fn = "atomic" /\ c.op = AluOps[name] /\ c.class = StLdSize[size] /\ c.dst = dst
      /\ c.src = Reg(src) /\ c.off = off
  BY WantedFields
<1>3. /\ \E k \in 0 .. 3 : StLdSize[size] = 8 * k
      /\ dst \in 0 .. 10 /\ Reg(src) \in AnyOperand /\ Reg(src).type = "Reg" /\ Reg(src).lo = src
      /\ off \in Int /\ AluOps[name] \in Int
  BY OpNumbers, OperandTypes DEF AtomicOps, AluOps, StLdSize
<1> HIDE DEF c
<1>4. i = Made(c)
  BY <1>2, <1>3 DEF Made, MemAlu
<1>5. Asks(c)
  BY <1>2, <1>3 DEF Asks
<1> HIDE DEF i
<1>6. Build(c, <<i, Exit>>)
  BY <1>1 DEF c, i
<1> QED  BY <1>2, <1>4, <1>5, <1>6, RequestIsBuilt DEF Constructors

LEMMA LdImmIsRequest ==
    ASSUME BuildLdImm PROVE epc' = "panic" \/ (epc' = "encode" /\ Requested)
<1>1. CASE \E dst \in Registers, fd \in Draws :
              Build(Wanted("ldimm", 1, 0, dst, Imm(fd), 0), <<LdMapByFd(dst, fd), Exit>>)
  <2>1. PICK dst \in Registers, fd \in Draws : Build(Wanted("ldimm", 1, 0, dst, Imm(fd), 0), <<LdMapByFd(dst, fd), Exit>>)
    BY <1>1
  <2> DEFINE c == Wanted("ldimm", 1, 0, dst, Imm(fd), 0)
             i == LdMapByFd(dst, fd)
  <2>2. /\ c.fn = "ldimm" /\ c.op = 1 /\ c.class = 0 /\ c.dst = dst
        /\ c.src = Imm(fd) /\ c.off = 0
    BY WantedFields
  <2>3. /\ dst \in 0 .. 10 /\ Imm(fd) \in AnyOperand
        /\ Imm(fd).type = "int" /\ Imm(fd).lo = fd
    BY OperandTypes
  <2> HIDE DEF c
  <2>4. i = Made(c)
    BY <2>2, <2>3 DEF Made, LdMapByFd
  <2>5. Asks(c)
    BY <2>2, <2>3 DEF Asks
  <2> HIDE DEF i
  <2>6. Build(c, <<i, Exit>>)
    BY <2>1 DEF c, i
  <2> QED  BY <2>2, <2>4, <2>5, <2>6, RequestIsBuilt DEF Constructors
<1>2. CASE \E dist \in Draws : Build(Wanted("ldimm", 4, 0, 2, Imm(dist), 0), <<LdFunctionPtr(dist), Exit>>)
  <2>1. PICK dist \in Draws : Build(Wanted("ldimm", 4, 0, 2, Imm(dist), 0), <<LdFunctionPtr(dist), Exit>>)
    BY <1>2
  <2> DEFINE c == Wanted("ldimm", 4, 0, 2, Imm(dist), 0)
             i == LdFunctionPtr(dist)
  <2>2. /\ c.fn = "ldimm" /\ c.op = 4 /\ c.class = 0 /\ c.dst = 2
        /\ c.src = Imm(dist) /\ c.off = 0
    BY WantedFields
  <2>3. Imm(dist) \in AnyOperand /\ Imm(dist).type = "int" /\ Imm(dist).lo = dist
    BY OperandTypes
  <2> HIDE DEF c
  <2>4. i = Made(c)
    BY <2>2, <2>3 DEF Made, LdFunctionPtr, newLoadImmOperation
  <2>5. Asks(c)
    BY <2>2, <2>3 DEF Asks
  <2> HIDE DEF i
  <2>6. Build(c, <<i, Exit>>)
    BY <2>1 DEF c, i
  <2> QED  BY <2>2, <2>4, <2>5, <2>6, RequestIsBuilt DEF Constructors
<1> QED  BY <1>1, <1>2 DEF BuildLdImm

LEMMA ControlIsRequest ==
    ASSUME BuildControl PROVE epc' = "panic" \/ (epc' = "encode" /\ Requested)
<1>1. CASE \E off \in Offsets : Build(Wanted("jmp", JmpOps.JA, InsClass.Jmp, 0, Imm(0), off), <<Jmp(off), Exit>>)
  <2>1. PICK off \in Offsets : Build(Wanted("jmp", JmpOps.JA, InsClass.Jmp, 0, Imm(0), off), <<Jmp(off), Exit>>)
    BY <1>1
  <2> DEFINE c == Wanted("jmp", JmpOps.JA, InsClass.Jmp, 0, Imm(0), off)
             i == Jmp(off)
  <2>2. /\ c.fn = "jmp" /\ c.op = JmpOps.JA /\ c.class = InsClass.Jmp /\ c.dst = 0
        /\ c.src = Imm(0) /\ c.off = off
    BY WantedFields
  <2>3. JmpOps.JA = 16 * 0 /\ InsClass.Jmp = 5 /\ Imm(0) \in AnyOperand /\ off \in Int
    BY OperandTypes, Numbers
  <2> HIDE DEF c
  <2>4. i = Made(c)
    BY <2>2, <2>3 DEF Made, Jmp
  <2>5. Asks(c)
    BY <2>2, <2>3 DEF Asks
  <2> HIDE DEF i
  <2>6. Build(c, <<i, Exit>>)
    BY <2>1 DEF c, i
  <2> QED  BY <2>2, <2>4, <2>5, <2>6, RequestIsBuilt DEF Constructors
<1>2. CASE \E n \in Draws : Build(Wanted("jmp", JmpOps.CALL, InsClass.Jmp, 0, Imm(n), 0), <<Call(n), Exit>>)
  <2>1. PICK n \in Draws : Build(Wanted("jmp", JmpOps.CALL, InsClass.Jmp, 0, Imm(n), 0), <<Call(n), Exit>>)
    BY <1>2
  <2> DEFINE c == Wanted("jmp", JmpOps.CALL, InsClass.Jmp, 0, Imm(n), 0)
             i == Call(n)
  <2>2. /\ c.fn = "jmp" /\ c.op = JmpOps.CALL /\ c.class = InsClass.Jmp /\ c.dst = 0
        /\ c.src = Imm(n) /\ c.off = 0
    BY WantedFields
  <2>3. JmpOps.CALL = 16 * 8 /\ InsClass.Jmp = 5 /\ Imm(n) \in AnyOperand
    BY OperandTypes, Numbers
  <2> HIDE DEF c
  <2>4. i = Made(c)
    BY <2>2, <2>3 DEF Made, Call
  <2>5. Asks(c)
    BY <2>2, <2>3 DEF Asks
  <2> HIDE DEF i
  <2>6. Build(c, <<i, Exit>>)
    BY <2>1 DEF c, i
  <2> QED  BY <2>2, <2>4, <2>5, <2>6, RequestIsBuilt DEF Constructors
<1> QED  BY <1>1, <1>2 DEF BuildControl

\* A random instruction is drawn from the sets of module EbpfInstructions.
Drawn ==
    RandomAluInstruction(Registers \ {10}, Draws)
        \cup RandomJmpInstruction(2, Registers \ {10}, Draws)
        \cup RandomMemInstruction(Registers \ {10}, Draws)

LEMMA RandomIsDrawn ==
    ASSUME BuildRandom
    PROVE  /\ epc' = "panic" \/ epc' = "encode"
           /\ asked'.fn = "random"
           /\ \E i \in Drawn : prog' = OneFunction(<<i, Exit>>)
<1>1. PICK i \in Drawn : Build([fn |-> "random"], <<i, Exit>>)
  BY DEF BuildRandom, Drawn
<1> QED  BY <1>1, BuildHands

\* The sequences the library offers are requests of other names.
LEMMA SequencesAreOther ==
    ASSUME BuildLookup \/ BuildSkbLoad
    PROVE  asked'.fn \in {"lookup", "skb"} /\ epc' \in {"panic", "encode"}
BY DEF BuildLookup, BuildSkbLoad, Build, Hand, Wanted

--------------------------------------------------------------------------------
(* The words of a program of one instruction *)

\* Words of 64 bits.
Words == SUBSET (0 .. 63)

LEMMA WordType == \A i : EncodeWord(i) \in Words
<1> SUFFICES ASSUME NEW i PROVE EncodeWord(i) \in Words
  OBVIOUS
<1>1. Opcode(i) \subseteq 0 .. 63
  BY OpcodeRange
<1>2. \A word, k : Shl(word, k, 16) \subseteq 0 .. 63
  BY DEF Shl
<1>3. \A word, k : Shl(word, k, 32) \subseteq 0 .. 63 /\ Shl(word, k, 64) \subseteq 0 .. 63
  BY DEF Shl
<1> QED  BY <1>1, <1>2, <1>3, ZenonT(40) DEF EncodeWord, Words

\* The second slot of an instruction: the rest of an immediate of 64 bits.
Second(n) == EncodeWord(Mem(0, 0, 0, 0, 0, 0, n, <<>>))

LEMMA EncodeShape ==
    ASSUME NEW i, NEW n, i.pseudo = <<>> \/ i.pseudo = <<n>>
    PROVE  /\ encodeInstruction(i) \in Seq(Words)
           /\ Len(encodeInstruction(i)) = 1 + Len(i.pseudo)
           /\ encodeInstruction(i)[1] = EncodeWord(i)
           /\ i.pseudo = <<n>> => encodeInstruction(i)[2] = Second(n)
<1> DEFINE head == <<EncodeWord(i)>>
           tail == [k \in 1 .. Len(i.pseudo) |-> Second(i.pseudo[k])]
<1>1. head \in Seq(Words) /\ Len(head) = 1 /\ head[1] = EncodeWord(i)
  BY WordType
<1>2. Len(i.pseudo) \in Nat
  OBVIOUS
<1>3. tail \in Seq(Words) /\ Len(tail) = Len(i.pseudo)
  <2>1. \A k \in 1 .. Len(i.pseudo) : Second(i.pseudo[k]) \in Words
    BY WordType DEF Second
  <2> HIDE DEF Second
  <2> QED  BY <1>2, <2>1
<1>4. i.pseudo = <<n>> => Len(i.pseudo) = 1 /\ tail[1] = Second(n)
  OBVIOUS
<1>5. encodeInstruction(i) = head \o tail
  BY Zenon DEF encodeInstruction, Second
<1> HIDE DEF head, tail, Second
<1>6. /\ head \o tail \in Seq(Words) /\ Len(head \o tail) = 1 + Len(tail)
      /\ (head \o tail)[1] = head[1]
      /\ Len(tail) = 1 => (head \o tail)[2] = tail[1]
  <2>1. Len(tail) \in Nat
    BY <1>2, <1>3
  <2> QED  BY <1>1, <1>3, <2>1, ConcatProperties, SMTT(30)
<1> QED  BY <1>1, <1>2, <1>3, <1>4, <1>5, <1>6

--------------------------------------------------------------------------------
(* What an instruction holds of the request *)

LEMMA InstructionFields ==
    ASSUME NEW form, NEW op, NEW source, NEW class, NEW dst, NEW src, NEW off, NEW imm, NEW pseudo
    PROVE  LET i == Instruction(form, op, source, class, dst, src, off, imm, pseudo)
           IN  /\ i.form = form /\ i.op = op /\ i.source = source /\ i.class = class
               /\ i.dst = dst /\ i.src = src /\ i.off = off /\ i.imm = imm /\ i.pseudo = pseudo
BY DEF Instruction

\* The instruction holds the opcode, the registers, the offset and the constant of
\* the request, and the other half of the constant exactly if it is a load of 64 bits.
Holds(i, c) ==
    /\ KernelCode(c) \in Nat /\ Opcode(i) = Bits(KernelCode(c))
    /\ i.dst = c.dst /\ i.off = c.off
    /\ c.src.type = "Reg" => i.src = c.src.lo
    /\ c.fn = "atomic" => i.imm = c.op
    /\ c.fn = "ldimm" => i.src = c.op /\ i.imm = c.src.lo
    /\ c.src.type # "Reg" /\ c.fn \in {"alu", "jmp", "store"} => i.imm = c.src.lo
    /\ i.pseudo = IF KernelCode(c) # 24 THEN <<>>
                  ELSE IF c.fn = "ldimm" THEN <<0>> ELSE <<c.src.hi>>

\* An operand is a register or an integer.
LEMMA OperandIs ==
    ASSUME NEW src \in AnyOperand
    PROVE  \/ src.type = "Reg" /\ src.lo \in 0 .. 10 /\ FitsInt32(src)
           \/ src.type \in {"int32", "int", "int64"}
BY DEF AnyOperand, Ints, Reg, FitsInt32, Sign

\* The opcode of an ALU or jump instruction.
LEMMA AluJmpHolds ==
    ASSUME NEW i, i.form \in {"alu", "jmp"}, NEW k \in 0 .. 13, i.op = 16 * k,
           NEW source \in {0, 8}, i.source = source, NEW class \in 0 .. 7, i.class = class
    PROVE  Opcode(i) = Bits(class + 16 * k + source)
<1>1. Opcode(i) = encodeAluJmpOpcode(16 * k, class, source)
  BY i.form # "mem", Zenon DEF Opcode
<1> QED  BY <1>1, AluJmpSum

\* Memory instructions.
LEMMA MemHolds ==
    ASSUME NEW m \in 0 .. 7, NEW s \in 0 .. 3, NEW class \in 0 .. 7,
           NEW dst, NEW src, NEW off, NEW imm, NEW pseudo
    PROVE  LET i == Mem(32 * m, 8 * s, class, dst, src, off, imm, pseudo)
           IN  /\ Opcode(i) = Bits(class + 8 * s + 32 * m)
               /\ i.dst = dst /\ i.src = src /\ i.off = off /\ i.imm = imm /\ i.pseudo = pseudo
<1> DEFINE i == Mem(32 * m, 8 * s, class, dst, src, off, imm, pseudo)
<1>1. /\ i.form = "mem" /\ i.op = 32 * m /\ i.source = 8 * s /\ i.class = class
      /\ i.dst = dst /\ i.src = src /\ i.off = off /\ i.imm = imm /\ i.pseudo = pseudo
  BY InstructionFields DEF Mem
<1> HIDE DEF i
<1>2. Opcode(i) = encodeMemOpcode(32 * m, 8 * s, class)
  BY <1>1, Zenon DEF Opcode
<1>3. Opcode(i) = Bits(class + 8 * s + 32 * m)
  BY <1>2, MemSum
<1> QED  BY <1>1, <1>3 DEF i

LEMMA AluHolds ==
    ASSUME NEW c, c.fn = "alu", Asks(c), Meaningful(c), Made(c) # Panics
    PROVE  Holds(Made(c), c)
<1>0. /\ c.src \in AnyOperand /\ c.class \in 0 .. 7 /\ c.class \in {4, 7} /\ c.off = 0
      /\ AluOps.Mov = 176 /\ InsClass.Alu = 4 /\ InsClass.Alu64 = 7
      /\ SrcOperand.Immediate = 0 /\ SrcOperand.RegSrc = 8
  BY Numbers DEF Asks
<1>1. PICK k \in 0 .. 13 : c.op = 16 * k
  BY DEF Asks
<1>2. Made(c) = IF c.op = AluOps.Mov /\ c.class = InsClass.Alu64 THEN Mov64(c.dst, c.src)
                ELSE newAluInstruction(c.op, c.class, c.dst, c.src)
  BY DEF Made
<1>3. CASE c.src.type = "Reg"
  <2>1. FitsInt32(c.src)
    BY <1>0, <1>3, OperandIs
  <2>2. Made(c) = Instruction("alu", 16 * k, 8, c.class, c.dst, c.src.lo, 0, 0, <<>>)
    BY <1>0, <1>1, <1>2, <1>3, <2>1 DEF Mov64, newAluInstruction, FromSrc
  <2>3. KernelCode(c) = c.class + 16 * k + 8
    BY <1>1, <1>3, <2>1 DEF KernelCode, TakesTwoSlots, MovesMore
  <2>4. KernelCode(c) \in Nat /\ KernelCode(c) # 24
    BY <1>0, <2>3
  <2>5. Opcode(Made(c)) = Bits(c.class + 16 * k + 8)
        /\ Made(c).dst = c.dst /\ Made(c).src = c.src.lo /\ Made(c).off = 0 /\ Made(c).pseudo = <<>>
    <3>1. /\ Made(c).form = "alu" /\ Made(c).op = 16 * k /\ Made(c).source = 8
          /\ Made(c).class = c.class /\ Made(c).dst = c.dst /\ Made(c).src = c.src.lo
          /\ Made(c).off = 0 /\ Made(c).imm = 0 /\ Made(c).pseudo = <<>>
      BY <2>2, InstructionFields
    <3>2. Opcode(Made(c)) = Bits(c.class + 16 * k + 8)
      BY <1>0, <3>1, AluJmpHolds
    <3> QED  BY <3>1, <3>2
  <2> QED  BY <1>0, <1>3, <2>3, <2>4, <2>5 DEF Holds
<1>4. CASE c.src.type # "Reg" /\ (c.src.type = "int64" \/ ~FitsInt32(c.src)) /\ c.op = 176
  <2>1. c.class = 7
    BY <1>0, <1>4 DEF Meaningful, MovesMore
  <2>2. c.src \in Ints
    BY <1>0, <1>4 DEF AnyOperand, Reg
  <2> DEFINE src == IF FitsInt32(c.src) THEN c.src ELSE [c.src EXCEPT !.type = "int64"]
  <2>3. src.type = "int64" /\ src.lo = c.src.lo /\ src.hi = c.src.hi
    BY <1>4, <2>2 DEF Ints
  <2> HIDE DEF src
  <2>4. Made(c) = newAluInstruction(176, 7, c.dst, src)
    BY <1>0, <1>2, <1>4, <2>1 DEF Mov64, src
  <2>5. Made(c) = Mem(32 * 0, 8 * 3, 0, c.dst, 0, 0, c.src.lo, <<c.src.hi>>)
    BY <1>0, <2>3, <2>4, Numbers DEF newAluInstruction
  <2>6. KernelCode(c) = 24
    BY <1>0, <1>4 DEF KernelCode, TakesTwoSlots, MovesMore
  <2>7. Opcode(Made(c)) = Bits(0 + 8 * 3 + 32 * 0) /\ Made(c).dst = c.dst /\ Made(c).off = 0
        /\ Made(c).imm = c.src.lo /\ Made(c).pseudo = <<c.src.hi>>
    BY <2>5, MemHolds
  <2>8. Opcode(Made(c)) = Bits(24)
    BY <2>7
  <2> QED  BY <1>0, <1>4, <2>6, <2>7, <2>8 DEF Holds
<1>5. CASE c.src.type # "Reg" /\ ~((c.src.type = "int64" \/ ~FitsInt32(c.src)) /\ c.op = 176)
  <2>1. c.src.type \in {"int", "int32"}
    BY <1>0, <1>2, <1>5, OperandIs DEF newAluInstruction, FromSrc, Mov64
  <2>2. Made(c) = Instruction("alu", 16 * k, 0, c.class, c.dst, 0, 0, c.src.lo, <<>>)
    BY <1>0, <1>1, <1>2, <1>5, <2>1 DEF Mov64, newAluInstruction, FromSrc
  <2>3. KernelCode(c) = c.class + 16 * k + 0
    BY <1>0, <1>1, <1>5, <2>1 DEF KernelCode, TakesTwoSlots, MovesMore
  <2>4. KernelCode(c) \in Nat /\ KernelCode(c) # 24
    BY <1>0, <2>3
  <2>5. Opcode(Made(c)) = Bits(c.class + 16 * k + 0)
        /\ Made(c).dst = c.dst /\ Made(c).imm = c.src.lo /\ Made(c).off = 0 /\ Made(c).pseudo = <<>>
    <3>1. /\ Made(c).form = "alu" /\ Made(c).op = 16 * k /\ Made(c).source = 0
          /\ Made(c).class = c.class /\ Made(c).dst = c.dst /\ Made(c).src = 0
          /\ Made(c).off = 0 /\ Made(c).imm = c.src.lo /\ Made(c).pseudo = <<>>
      BY <2>2, InstructionFields
    <3>2. Opcode(Made(c)) = Bits(c.class + 16 * k + 0)
      BY <1>0, <3>1, AluJmpHolds
    <3> QED  BY <3>1, <3>2
  <2> QED  BY <1>0, <1>5, <2>3, <2>4, <2>5 DEF Holds
<1> QED  BY <1>3, <1>4, <1>5

LEMMA JmpHolds ==
    ASSUME NEW c, c.fn = "jmp", Asks(c), Made(c) # Panics
    PROVE  Holds(Made(c), c)
<1>0. /\ c.src \in AnyOperand /\ c.class \in 0 .. 7 /\ c.class \in {5, 6}
      /\ SrcOperand.Immediate = 0 /\ SrcOperand.RegSrc = 8
  BY Numbers DEF Asks
<1>1. PICK k \in 0 .. 13 : c.op = 16 * k
  BY DEF Asks
<1>2. Made(c) = newJmpInstruction(c.op, c.class, c.dst, c.src, c.off)
  BY DEF Made
<1>3. CASE c.src.type = "Reg"
  <2>2. Made(c) = Instruction("jmp", 16 * k, 8, c.class, c.dst, c.src.lo, c.off, 0, <<>>)
    BY <1>0, <1>1, <1>2, <1>3 DEF newJmpInstruction, FromSrc
  <2>3. KernelCode(c) = c.class + 16 * k + 8
    BY <1>1, <1>3 DEF KernelCode, TakesTwoSlots, MovesMore
  <2>4. KernelCode(c) \in Nat /\ KernelCode(c) # 24
    BY <1>0, <2>3
  <2>5. Opcode(Made(c)) = Bits(c.class + 16 * k + 8)
        /\ Made(c).dst = c.dst /\ Made(c).src = c.src.lo /\ Made(c).off = c.off /\ Made(c).pseudo = <<>>
    <3>1. /\ Made(c).form = "jmp" /\ Made(c).op = 16 * k /\ Made(c).source = 8
          /\ Made(c).class = c.class /\ Made(c).dst = c.dst /\ Made(c).src = c.src.lo
          /\ Made(c).off = c.off /\ Made(c).imm = 0 /\ Made(c).pseudo = <<>>
      BY <2>2, InstructionFields
    <3>2. Opcode(Made(c)) = Bits(c.class + 16 * k + 8)
      BY <1>0, <3>1, AluJmpHolds
    <3> QED  BY <3>1, <3>2
  <2> QED  BY <1>0, <1>3, <2>3, <2>4, <2>5 DEF Holds
<1>4. CASE c.src.type # "Reg"
  <2>1. c.src.type \in {"int", "int32"}
    BY <1>0, <1>2, <1>4, OperandIs DEF newJmpInstruction, FromSrc
  <2>2. Made(c) = Instruction("jmp", 16 * k, 0, c.class, c.dst, 0, c.off, c.src.lo, <<>>)
    BY <1>0, <1>1, <1>2, <2>1 DEF newJmpInstruction, FromSrc
  <2>3. KernelCode(c) = c.class + 16 * k + 0
    BY <1>0, <1>1, <2>1 DEF KernelCode, TakesTwoSlots, MovesMore
  <2>4. KernelCode(c) \in Nat /\ KernelCode(c) # 24
    BY <1>0, <2>3
  <2>5. Opcode(Made(c)) = Bits(c.class + 16 * k + 0)
        /\ Made(c).dst = c.dst /\ Made(c).imm = c.src.lo /\ Made(c).off = c.off /\ Made(c).pseudo = <<>>
    <3>1. /\ Made(c).form = "jmp" /\ Made(c).op = 16 * k /\ Made(c).source = 0
          /\ Made(c).class = c.class /\ Made(c).dst = c.dst /\ Made(c).src = 0
          /\ Made(c).off = c.off /\ Made(c).imm = c.src.lo /\ Made(c).pseudo = <<>>
      BY <2>2, InstructionFields
    <3>2. Opcode(Made(c)) = Bits(c.class + 16 * k + 0)
      BY <1>0, <3>1, AluJmpHolds
    <3> QED  BY <3>1, <3>2
  <2> QED  BY <1>0, <1>4, <2>3, <2>4, <2>5 DEF Holds
<1> QED  BY <1>3, <1>4

LEMMA StoreHolds ==
    ASSUME NEW c, c.fn = "store", Asks(c), Made(c) # Panics
    PROVE  Holds(Made(c), c)
<1>0. c.src \in AnyOperand /\ StLdMode.MEM = 32 * 3 /\ InsClass.St = 2 /\ InsClass.Stx = 3
  BY Numbers DEF Asks
<1>1. PICK k \in 0 .. 3 : c.op = 8 * k
  BY DEF Asks
<1>2. Made(c) = newStoreOperation(c.op, c.dst, c.src, c.off)
  BY DEF Made
<1>3. CASE c.src.type = "Reg"
  <2>2. Made(c) = Mem(32 * 3, 8 * k, 3, c.dst, c.src.lo, c.off, 0, <<>>)
    BY <1>0, <1>1, <1>2, <1>3 DEF newStoreOperation, FromSrc
  <2>3. KernelCode(c) = 3 + 8 * k + 32 * 3
    BY <1>1, <1>3 DEF KernelCode, TakesTwoSlots, MovesMore
  <2>4. KernelCode(c) \in Nat /\ KernelCode(c) # 24
    BY <2>3
  <2>5. Opcode(Made(c)) = Bits(3 + 8 * k + 32 * 3)
        /\ Made(c).dst = c.dst /\ Made(c).src = c.src.lo /\ Made(c).off = c.off /\ Made(c).pseudo = <<>>
    BY <2>2, MemHolds
  <2> QED  BY <1>0, <1>3, <2>3, <2>4, <2>5 DEF Holds
<1>4. CASE c.src.type # "Reg"
  <2>1. c.src.type \in {"int", "int32"}
    BY <1>0, <1>2, <1>4, OperandIs DEF newStoreOperation, FromSrc
  <2>2. Made(c) = Mem(32 * 3, 8 * k, 2, c.dst, 0, c.off, c.src.lo, <<>>)
    BY <1>0, <1>1, <1>2, <2>1 DEF newStoreOperation, FromSrc
  <2>3. KernelCode(c) = 2 + 8 * k + 32 * 3
    BY <1>1, <2>1 DEF KernelCode, TakesTwoSlots, MovesMore
  <2>4. KernelCode(c) \in Nat /\ KernelCode(c) # 24
    BY <2>3
  <2>5. Opcode(Made(c)) = Bits(2 + 8 * k + 32 * 3)
        /\ Made(c).dst = c.dst /\ Made(c).imm = c.src.lo /\ Made(c).off = c.off /\ Made(c).pseudo = <<>>
    BY <2>2, MemHolds
  <2> QED  BY <1>0, <1>4, <2>3, <2>4, <2>5 DEF Holds
<1> QED  BY <1>3, <1>4

LEMMA LoadHolds ==
    ASSUME NEW c, c.fn = "load", Asks(c)
    PROVE  Holds(Made(c), c)
<1>1. PICK k \in 0 .. 3 : c.op = 8 * k
  BY DEF Asks
<1>2. Made(c) = Mem(32 * 3, 8 * k, 1, c.dst, c.src.lo, c.off, 0, <<>>)
  BY <1>1, Numbers DEF Made, newLoadOperation
<1>3. KernelCode(c) = 1 + 8 * k + 32 * 3
  BY <1>1 DEF KernelCode, TakesTwoSlots, MovesMore, Asks
<1>4. KernelCode(c) \in Nat /\ KernelCode(c) # 24
  BY <1>3
<1>5. Opcode(Made(c)) = Bits(1 + 8 * k + 32 * 3)
      /\ Made(c).dst = c.dst /\ Made(c).src = c.src.lo /\ Made(c).off = c.off /\ Made(c).pseudo = <<>>
  BY <1>2, MemHolds
<1>6. c.src.type = "Reg"
  BY DEF Asks
<1> QED  BY <1>3, <1>4, <1>5, <1>6 DEF Holds

LEMMA AtomicHolds ==
    ASSUME NEW c, c.fn = "atomic", Asks(c)
    PROVE  Holds(Made(c), c)
<1>1. PICK k \in 0 .. 3 : c.class = 8 * k
  BY DEF Asks
<1>2. Made(c) = Mem(32 * 6, 8 * k, 3, c.dst, c.src.lo, c.off, c.op, <<>>)
  BY <1>1, Numbers DEF Made, newAtomicInstruction
<1>3. KernelCode(c) = 3 + 8 * k + 32 * 6
  BY <1>1 DEF KernelCode, TakesTwoSlots, MovesMore
<1>4. KernelCode(c) \in Nat /\ KernelCode(c) # 24
  BY <1>3
<1>5. Opcode(Made(c)) = Bits(3 + 8 * k + 32 * 6)
      /\ Made(c).dst = c.dst /\ Made(c).src = c.src.lo /\ Made(c).off = c.off /\ Made(c).imm = c.op
      /\ Made(c).pseudo = <<>>
  BY <1>2, MemHolds
<1>6. c.src.type = "Reg"
  BY DEF Asks
<1> QED  BY <1>3, <1>4, <1>5, <1>6 DEF Holds

LEMMA LdImmHolds ==
    ASSUME NEW c, c.fn = "ldimm", Asks(c)
    PROVE  Holds(Made(c), c)
<1>1. Made(c) = Mem(32 * 0, 8 * 3, 0, c.dst, c.op, 0, c.src.lo, <<0>>)
  BY Numbers DEF Made, newLoadImmOperation
<1>2. KernelCode(c) = 24
  BY DEF KernelCode, TakesTwoSlots, MovesMore
<1>3. Opcode(Made(c)) = Bits(0 + 8 * 3 + 32 * 0)
      /\ Made(c).dst = c.dst /\ Made(c).src = c.op /\ Made(c).off = 0 /\ Made(c).imm = c.src.lo
      /\ Made(c).pseudo = <<0>>
  BY <1>1, MemHolds
<1>4. Opcode(Made(c)) = Bits(24)
  BY <1>3
<1>5. c.off = 0 /\ c.src.type = "int"
  BY DEF Asks
<1> QED  BY <1>2, <1>3, <1>4, <1>5 DEF Holds

\* Every constructor holds on to its request.
LEMMA MadeHolds ==
    ASSUME NEW c, c.fn \in Constructors, Asks(c), Meaningful(c), Made(c) # Panics
    PROVE  Holds(Made(c), c)
BY AluHolds, JmpHolds, StoreHolds, LoadHolds, AtomicHolds, LdImmHolds, Zenon DEF Constructors

--------------------------------------------------------------------------------
(* Programs of one instruction on their way through the encoder *)

\* The instruction in front of the exit.
First == prog[1].insns[1]

\* It is what a constructor made of the request, or was drawn.
ComesFromRequest ==
    \/ asked.fn \in Constructors /\ Asks(asked) /\ First = Made(asked) /\ First # Panics
    \/ asked.fn = "random" /\ First \in Drawn

FirstWords == <<>> \o encodeInstruction(First)
BothWords  == FirstWords \o encodeInstruction(Exit)

\* The loops of EncodeInstructions: the buffer is as long as the loops have come.
EncodedSoFar ==
    \/ fn = 1 /\ ins = 1 /\ prog_buff = <<>>
    \/ fn = 1 /\ ins = 2 /\ prog_buff = FirstWords
    \/ fn = 1 /\ ins = 3 /\ prog_buff = BothWords
    \/ fn = 2 /\ prog_buff = BothWords

\* The filter the constructor of a request makes, or one that is drawn.
FilterHolds(i, c) ==
    /\ CbpfCode(c) \in 0 .. 255 /\ i.opcode = Bits(CbpfCode(c))
    /\ CbpfCode(c) \in ClassicCodes <=> ~Refused(c)
    /\ c.src.type # "Reg" => i.k = c.src.value
    /\ c.fn = "cjmp" => /\ CbpfCode(c) # 5 /\ i.jt = c.dst /\ i.jf = c.off
                        /\ c.dst \in 0 .. 255 /\ c.off \in 0 .. 255
    /\ c.fn = "cja" => CbpfCode(c) = 5 /\ i.k = 0

DrawnFilters ==
    C!RandomAluInstruction(Draws) \cup C!RandomJmpInstruction(JumpDraws, Draws)
        \cup C!RandomStoreInstruction({0, 512}) \cup C!RandomLoadInstruction({0, 64}, {0, 512})

FilterComesFromRequest ==
    \/ asked.fn \in CbpfRequests \ {"crandom"} /\ FilterHolds(First, asked)
    \/ asked.fn = "crandom" /\ First \in DrawnFilters

FooterFilter == C!Ret(C!Imm(4))

FilteredSoFar ==
    \/ ins = 1 /\ prog_buff = <<>>
    \/ ins = 2 /\ prog_buff = <<C!Filter(First)>>
    \/ ins = 3 /\ prog_buff = <<C!Filter(First), C!Filter(FooterFilter)>>

\* The inductive invariant.  Its first four parts keep the two encoders and the
\* loop program apart.
EInv ==
    /\ epc = "call" => fn = 1 /\ ins = 1 /\ prog_buff = <<>>
    /\ epc \in {"body", "generate"} => asked.fn = "loop"
    /\ epc = "encode" => asked.fn \notin CbpfRequests
    /\ epc = "filters" => asked.fn \in CbpfRequests
    /\ epc \in {"encode", "done"} /\ asked.fn \in Constructors \cup {"random"} =>
          /\ ComesFromRequest /\ prog = OneFunction(<<First, Exit>>)
          /\ EncodedSoFar /\ (epc = "done" => fn = 2)
    /\ epc \in {"filters", "done"} /\ asked.fn \in CbpfRequests =>
          /\ FilterComesFromRequest /\ prog = OneFunction(<<First, FooterFilter>>)
          /\ FilteredSoFar /\ (epc = "done" => ins = 3)

--------------------------------------------------------------------------------
(* The filters of the cBPF library *)

\* The integers of the two libraries are the same.
LEMMA CbpfIntegers ==
    /\ \A n : C!Bits(n) = Bits(n)
    /\ \A a, b : C!Rem(a, b) = Rem(a, b)
    /\ \A n : C!Int8(n) = Int8(n) /\ C!Uint8(n) = Uint8(n)
BY DEF C!Bits, Bits, C!Rem, Rem, C!Int8, Int8, C!Uint8, Uint8

LEMMA CbpfNumbers ==
    /\ C!InsClass.Ld = 0 /\ C!InsClass.Ldx = 1 /\ C!InsClass.St = 2 /\ C!InsClass.Stx = 3
    /\ C!InsClass.Alu = 4 /\ C!InsClass.Jmp = 5 /\ C!InsClass.Ret = 6 /\ C!InsClass.Misc = 7
    /\ C!SrcOperand.Immediate = 0 /\ C!SrcOperand.RegSrc = 8 /\ C!X = 1 /\ C!A = 0
    /\ C!JmpOps.JA = 0 /\ C!StLdMode.MEM = 96 /\ C!AluOps.Lsh = 96 /\ C!AluOps.Rsh = 112
BY DEF C!InsClass, C!SrcOperand, C!X, C!A, C!JmpOps, C!StLdMode, C!AluOps

LEMMA CbpfOpNumbers ==
    /\ \A name \in DOMAIN C!AluOps : \E k \in 0 .. 10 : C!AluOps[name] = 16 * k
    /\ \A name \in DOMAIN C!JmpOps : \E k \in 0 .. 4 : C!JmpOps[name] = 16 * k
    /\ \A name \in DOMAIN C!StLdMode : \E m \in 0 .. 5 : C!StLdMode[name] = 32 * m
    /\ \A name \in DOMAIN C!StLdSize : \E s \in 0 .. 2 : C!StLdSize[name] = 8 * s
    /\ \A name \in DOMAIN C!InsClass : C!InsClass[name] \in 0 .. 7
<1>1. \A name \in DOMAIN C!AluOps : \E k \in 0 .. 10 : C!AluOps[name] = 16 * k
  BY DEF C!AluOps
<1>2. \A name \in DOMAIN C!JmpOps : \E k \in 0 .. 4 : C!JmpOps[name] = 16 * k
  BY DEF C!JmpOps
<1>3. \A name \in DOMAIN C!StLdMode : \E m \in 0 .. 5 : C!StLdMode[name] = 32 * m
  BY DEF C!StLdMode
<1>4. \A name \in DOMAIN C!StLdSize : \E s \in 0 .. 2 : C!StLdSize[name] = 8 * s
  BY DEF C!StLdSize
<1>5. \A name \in DOMAIN C!InsClass : C!InsClass[name] \in 0 .. 7
  BY DEF C!InsClass
<1> QED  BY <1>1, <1>2, <1>3, <1>4, <1>5

\* The store and load constructors name modes, sizes and classes there are.
LEMMA StLdNames ==
    ASSUME NEW name \in DOMAIN C!StLd
    PROVE  /\ C!StLd[name][1] \in DOMAIN C!StLdMode /\ C!StLd[name][2] \in DOMAIN C!StLdSize
           /\ C!StLd[name][3] \in DOMAIN C!InsClass
<1>1. /\ DOMAIN C!StLdMode = {"IMM", "ABS", "IND", "MEM", "LEN", "MSH"}
      /\ DOMAIN C!StLdSize = {"W", "H", "B"}
      /\ {"Ld", "Ldx", "St", "Stx"} \subseteq DOMAIN C!InsClass
  BY DEF C!StLdMode, C!StLdSize, C!InsClass
<1>2. /\ C!StLd[name][1] \in {"IMM", "ABS", "IND", "MEM", "LEN", "MSH"}
      /\ C!StLd[name][2] \in {"W", "H", "B"} /\ C!StLd[name][3] \in {"Ld", "Ldx", "St", "Stx"}
  BY DEF C!StLd
<1> QED  BY <1>1, <1>2

\* The constructors' masks add up as those of encodeInstruction do.
LEMMA CbpfOpcodes ==
    /\ \A class \in 0 .. 7, source \in {0, 8}, k \in 0 .. 15 :
          /\ C!Opcode(class, source, 16 * k) = Bits(class + 16 * k + source)
          /\ class + 16 * k + source \in 0 .. 255
    /\ \A m \in 0 .. 7, s \in 0 .. 3, class \in 0 .. 7 : \A k :
          /\ C!newStoreLoadOperation(32 * m, 8 * s, class, k).opcode = Bits(class + 8 * s + 32 * m)
          /\ class + 8 * s + 32 * m \in 0 .. 255
<1>1. ASSUME NEW class \in 0 .. 7, NEW source \in {0, 8}, NEW k \in 0 .. 15
      PROVE  C!Opcode(class, source, 16 * k) = Bits(class + 16 * k + source)
  <2>1. C!Opcode(class, source, 16 * k) = encodeAluJmpOpcode(16 * k, class, source)
    BY CbpfIntegers, Zenon DEF C!Opcode, encodeAluJmpOpcode
  <2> QED  BY <2>1, AluJmpSum
<1>2. ASSUME NEW m \in 0 .. 7, NEW s \in 0 .. 3, NEW class \in 0 .. 7, NEW k
      PROVE  C!newStoreLoadOperation(32 * m, 8 * s, class, k).opcode = Bits(class + 8 * s + 32 * m)
  <2>1. C!newStoreLoadOperation(32 * m, 8 * s, class, k).opcode = encodeMemOpcode(32 * m, 8 * s, class)
    BY CbpfIntegers, Zenon DEF C!newStoreLoadOperation, C!Instruction, encodeMemOpcode
  <2> QED  BY <2>1, MemSum
<1>3. \A class \in 0 .. 7, source \in {0, 8}, k \in 0 .. 15 : class + 16 * k + source \in 0 .. 255
  OBVIOUS
<1>4. \A m \in 0 .. 7, s \in 0 .. 3, class \in 0 .. 7 : class + 8 * s + 32 * m \in 0 .. 255
  OBVIOUS
<1> QED  BY <1>1, <1>2, <1>3, <1>4

\* What BuildFilter hands over.
LEMMA FilterHanded ==
    ASSUME NEW what, NEW i, BuildFilter(what, i)
    PROVE  /\ asked' = what /\ First' = i /\ prog' = OneFunction(<<i, FooterFilter>>)
           /\ epc' \in {"panic", "filters"}
           /\ fn' = fn /\ ins' = ins /\ prog_buff' = prog_buff
<1>1. prog' = OneFunction(<<i, FooterFilter>>)
  BY DEF BuildFilter, Hand, FooterFilter
<1>2. First' = i
  BY <1>1 DEF First, OneFunction
<1>3. /\ asked' = what /\ epc' \in {"panic", "filters"}
      /\ fn' = fn /\ ins' = ins /\ prog_buff' = prog_buff
  BY DEF BuildFilter, Hand
<1> QED  BY <1>1, <1>2, <1>3

\* A filter is requested, or drawn.
FilterRequested ==
    /\ epc' \in {"panic", "filters"} /\ asked'.fn \in CbpfRequests
    /\ FilterComesFromRequest' /\ prog' = OneFunction(<<First', FooterFilter>>)
    /\ fn' = fn /\ ins' = ins /\ prog_buff' = prog_buff

LEMMA FilterIsRequest ==
    ASSUME NEW c, NEW i, BuildFilter(c, i), c.fn \in CbpfRequests \ {"crandom"}, FilterHolds(i, c)
    PROVE  FilterRequested
<1>1. /\ asked' = c /\ First' = i /\ prog' = OneFunction(<<i, FooterFilter>>)
      /\ epc' \in {"panic", "filters"}
      /\ fn' = fn /\ ins' = ins /\ prog_buff' = prog_buff
  BY FilterHanded
<1>2. FilterComesFromRequest'
  BY <1>1, Zenon DEF FilterComesFromRequest, FilterHolds
<1> QED  BY <1>1, <1>2 DEF FilterRequested

LEMMA CbpfOperandIs ==
    ASSUME NEW src \in CbpfOperands
    PROVE  /\ src.type # "Reg" => C!FieldK(src) = src.value
           /\ C!SrcType(src) = IF src.type = "Reg" THEN 8 ELSE 0
           /\ C!SrcType(src) \in {0, 8}
BY CbpfNumbers DEF CbpfOperands, C!FieldK, C!SrcType, C!Reg, C!Imm

\* The requests for arithmetic, jumps and returns that the kernel's table has.
LEMMA TakenCodes ==
    ASSUME NEW source \in {0, 8}
    PROVE  /\ \A k \in 0 .. 10 : 4 + 16 * k + source \in ClassicCodes <=> ~(k = 8 /\ source = 8)
           /\ \A k \in 1 .. 4 : 5 + 16 * k + source \in ClassicCodes /\ 5 + 16 * k + source # 5
           /\ 6 + source \in ClassicCodes <=> source = 0
           /\ 5 \in ClassicCodes /\ 7 \in ClassicCodes /\ 135 \in ClassicCodes
<1>1. \A k \in 0 .. 10 : ~(k = 8 /\ source = 8) => 4 + 16 * k + source \in ClassicCodes
  BY DEF ClassicCodes
<1>2. 140 \notin ClassicCodes
  BY DEF ClassicCodes
<1>3. \A k \in 1 .. 4 : 5 + 16 * k + source \in ClassicCodes
  BY DEF ClassicCodes
<1>4. 14 \notin ClassicCodes
  BY DEF ClassicCodes
<1>5. 5 \in ClassicCodes /\ 6 \in ClassicCodes /\ 7 \in ClassicCodes /\ 135 \in ClassicCodes
  BY DEF ClassicCodes
<1>6. 6 + source \in ClassicCodes <=> source = 0
  BY <1>4, <1>5
<1>7. \A k \in 0 .. 10 : 4 + 16 * k + source \in ClassicCodes <=> ~(k = 8 /\ source = 8)
  BY <1>1, <1>2
<1> QED  BY <1>3, <1>5, <1>6, <1>7

LEMMA CbpfAluIsRequest ==
    ASSUME BuildCbpfAlu PROVE FilterRequested
<1>1. PICK name \in DOMAIN C!AluOps, src \in CbpfOperands :
        BuildFilter(Wanted("calu", C!AluOps[name], C!InsClass.Alu, 0, src, 0), C!Alu(name, src))
  BY DEF BuildCbpfAlu
<1> DEFINE c == Wanted("calu", C!AluOps[name], C!InsClass.Alu, 0, src, 0)
           i == C!Alu(name, src)
<1>2. PICK k \in 0 .. 10 : C!AluOps[name] = 16 * k
  BY CbpfOpNumbers
<1>3. c.fn = "calu" /\ c.op = 16 * k /\ c.class = 4 /\ c.src = src
  BY <1>2, WantedFields, CbpfNumbers
<1>4. i.opcode = C!Opcode(4, C!SrcType(src), 16 * k) /\ i.k = C!FieldK(src)
  BY <1>2, CbpfNumbers DEF C!Alu, C!newAluInstruction, C!Instruction
<1> HIDE DEF c, i
<1>5. i.opcode = Bits(4 + 16 * k + C!SrcType(src)) /\ 4 + 16 * k + C!SrcType(src) \in 0 .. 255
  BY <1>4, CbpfOpcodes, CbpfOperandIs
<1>6. CbpfCode(c) = 4 + 16 * k + C!SrcType(src)
  BY <1>3, CbpfOperandIs DEF CbpfCode
<1>7. Refused(c) <=> k = 8 /\ C!SrcType(src) = 8
  <2>1. C!AluOps.Neg = 128
    BY DEF C!AluOps
  <2> QED  BY <1>3, <2>1, CbpfOperandIs DEF Refused
<1>8. CbpfCode(c) \in ClassicCodes <=> ~Refused(c)
  BY <1>6, <1>7, TakenCodes, CbpfOperandIs
<1>9. FilterHolds(i, c)
  BY <1>3, <1>4, <1>5, <1>6, <1>8, CbpfOperandIs DEF FilterHolds
<1>10. BuildFilter(c, i)
  BY <1>1 DEF c, i
<1> QED  BY <1>3, <1>9, <1>10, FilterIsRequest DEF CbpfRequests

LEMMA CbpfJmpIsRequest ==
    ASSUME BuildCbpfJmp PROVE FilterRequested
<1>1. CASE \E jt \in JumpFields :
              BuildFilter(Wanted("cja", C!JmpOps.JA, C!InsClass.Jmp, jt, C!Imm(0), 0), C!JmpJA(jt))
  <2>1. PICK jt \in JumpFields :
          BuildFilter(Wanted("cja", C!JmpOps.JA, C!InsClass.Jmp, jt, C!Imm(0), 0), C!JmpJA(jt))
    BY <1>1
  <2> DEFINE c == Wanted("cja", C!JmpOps.JA, C!InsClass.Jmp, jt, C!Imm(0), 0)
             i == C!JmpJA(jt)
  <2>2. c.fn = "cja" /\ c.op = 0 /\ c.class = 5 /\ c.src.type = "int32" /\ c.src.value = 0
    BY WantedFields, CbpfNumbers DEF C!Imm
  <2>3. i.opcode = C!Opcode(5, 0, 16 * 0) /\ i.k = 0
    BY CbpfNumbers DEF C!JmpJA, C!newJmpInstruction, C!Instruction, C!SrcType, C!FieldK, C!Imm
  <2> HIDE DEF c, i
  <2>4. i.opcode = Bits(5 + 16 * 0 + 0)
    BY <2>3, CbpfOpcodes
  <2>5. CbpfCode(c) = 5 /\ i.opcode = Bits(5) /\ 5 \in 0 .. 255
    BY <2>2, <2>4 DEF CbpfCode
  <2>6. ~Refused(c) /\ 5 \in ClassicCodes
    BY <2>2, TakenCodes DEF Refused
  <2>7. FilterHolds(i, c)
    BY <2>2, <2>3, <2>5, <2>6 DEF FilterHolds
  <2>8. BuildFilter(c, i)
    BY <2>1 DEF c, i
  <2> QED  BY <2>2, <2>7, <2>8, FilterIsRequest DEF CbpfRequests
<1>2. CASE \E name \in DOMAIN C!JmpOps \ {"JA"}, src \in CbpfOperands, jt, jf \in JumpFields :
              BuildFilter(Wanted("cjmp", C!JmpOps[name], C!InsClass.Jmp, jt, src, jf),
                          C!JmpIf(name, jt, jf, src))
  <2>1. PICK name \in DOMAIN C!JmpOps \ {"JA"}, src \in CbpfOperands, jt, jf \in JumpFields :
          BuildFilter(Wanted("cjmp", C!JmpOps[name], C!InsClass.Jmp, jt, src, jf),
                      C!JmpIf(name, jt, jf, src))
    BY <1>2
  <2> DEFINE c == Wanted("cjmp", C!JmpOps[name], C!InsClass.Jmp, jt, src, jf)
             i == C!JmpIf(name, jt, jf, src)
  <2>2. PICK k \in 1 .. 4 : C!JmpOps[name] = 16 * k
    BY DEF C!JmpOps
  <2>3. c.fn = "cjmp" /\ c.op = 16 * k /\ c.class = 5 /\ c.dst = jt /\ c.src = src /\ c.off = jf
    BY <2>2, WantedFields, CbpfNumbers
  <2>4. /\ i.opcode = C!Opcode(5, C!SrcType(src), 16 * k) /\ i.k = C!FieldK(src)
        /\ i.jt = jt /\ i.jf = jf
    BY <2>2, CbpfNumbers DEF C!JmpIf, C!newJmpInstruction, C!Instruction
  <2> HIDE DEF c, i
  <2>5. i.opcode = Bits(5 + 16 * k + C!SrcType(src)) /\ 5 + 16 * k + C!SrcType(src) \in 0 .. 255
    BY <2>4, CbpfOpcodes, CbpfOperandIs
  <2>6. CbpfCode(c) = 5 + 16 * k + C!SrcType(src)
    BY <2>3, CbpfOperandIs DEF CbpfCode
  <2>7. CbpfCode(c) \in ClassicCodes /\ CbpfCode(c) # 5
    BY <2>6, TakenCodes, CbpfOperandIs
  <2>8. ~Refused(c)
    BY <2>3 DEF Refused
  <2>9. jt \in 0 .. 255 /\ jf \in 0 .. 255
    BY EncodingAssumption
  <2>10. FilterHolds(i, c)
    BY <2>3, <2>4, <2>5, <2>6, <2>7, <2>8, <2>9, CbpfOperandIs DEF FilterHolds
  <2>11. BuildFilter(c, i)
    BY <2>1 DEF c, i
  <2> QED  BY <2>3, <2>10, <2>11, FilterIsRequest DEF CbpfRequests
<1> QED  BY <1>1, <1>2 DEF BuildCbpfJmp

\* Mode and size, and class, of the stores and loads.
LEMMA StLdTable ==
    ASSUME NEW name \in DOMAIN C!StLd
    PROVE  <<C!StLdMode[C!StLd[name][1]] + C!StLdSize[C!StLd[name][2]], C!InsClass[C!StLd[name][3]]>>
              \in {<<96, 0>>, <<0, 0>>, <<128, 0>>, <<32, 0>>, <<40, 0>>, <<48, 0>>, <<64, 0>>,
                   <<72, 0>>, <<80, 0>>, <<96, 1>>, <<0, 1>>, <<128, 1>>, <<32, 1>>, <<176, 1>>,
                   <<96, 2>>, <<96, 3>>}
<1>1. /\ C!StLdMode["IMM"] = 0 /\ C!StLdMode["ABS"] = 32 /\ C!StLdMode["IND"] = 64
      /\ C!StLdMode["MEM"] = 96 /\ C!StLdMode["LEN"] = 128 /\ C!StLdMode["MSH"] = 160
      /\ C!StLdSize["W"] = 0 /\ C!StLdSize["H"] = 8 /\ C!StLdSize["B"] = 16
      /\ C!InsClass["Ld"] = 0 /\ C!InsClass["Ldx"] = 1 /\ C!InsClass["St"] = 2 /\ C!InsClass["Stx"] = 3
  BY DEF C!StLdMode, C!StLdSize, C!InsClass
<1>2. C!StLd[name] \in
        {<<"MEM", "W", "Ld">>, <<"IMM", "W", "Ld">>, <<"LEN", "W", "Ld">>, <<"ABS", "W", "Ld">>,
         <<"ABS", "H", "Ld">>, <<"ABS", "B", "Ld">>, <<"IND", "W", "Ld">>, <<"IND", "H", "Ld">>,
         <<"IND", "B", "Ld">>, <<"MEM", "W", "Ldx">>, <<"IMM", "W", "Ldx">>, <<"LEN", "W", "Ldx">>,
         <<"ABS", "W", "Ldx">>, <<"MSH", "B", "Ldx">>, <<"MEM", "W", "St">>, <<"MEM", "W", "Stx">>}
  BY DEF C!StLd
<1> QED  BY <1>1, <1>2

\* A store, a load or a transfer: a number for an operand and no jumps.
LEMMA CbpfMemHolds ==
    ASSUME NEW class \in 0 .. 7, NEW op \in 0 .. 255, class + op \in 0 .. 255, NEW n,
           class + op \in ClassicCodes <=> ~(class \in {2, 3} \/ (class = 1 /\ op = 32)),
           NEW i, i.opcode = Bits(class + op), i.k = n
    PROVE  /\ FilterHolds(i, Wanted("cmem", op, class, 0, C!Imm(n), 0))
           /\ Wanted("cmem", op, class, 0, C!Imm(n), 0).fn = "cmem"
<1> DEFINE c == Wanted("cmem", op, class, 0, C!Imm(n), 0)
<1>1. c.fn = "cmem" /\ c.op = op /\ c.class = class /\ c.src = C!Imm(n)
  BY WantedFields
<1>2. C!Imm(n).type = "int32" /\ C!Imm(n).value = n
  BY DEF C!Imm
<1> HIDE DEF c
<1>3. CbpfCode(c) = class + op
  BY <1>1, <1>2 DEF CbpfCode
<1>4. Refused(c) <=> class \in {2, 3} \/ (class = 1 /\ op = 32)
  <2>1. C!StLdMode.ABS = 32
    BY DEF C!StLdMode
  <2> QED  BY <1>1, <2>1, CbpfNumbers DEF Refused
<1>5. FilterHolds(i, c)
  BY <1>1, <1>2, <1>3, <1>4 DEF FilterHolds
<1> QED  BY <1>1, <1>5 DEF c

LEMMA CbpfMemIsRequest ==
    ASSUME BuildCbpfMem PROVE FilterRequested
<1>1. PICK name \in DOMAIN C!StLd, n \in Draws :
        BuildFilter(Wanted("cmem", C!StLdMode[C!StLd[name][1]] + C!StLdSize[C!StLd[name][2]],
                           C!InsClass[C!StLd[name][3]], 0, C!Imm(n), 0),
                    C!StoreLoad(name, n))
  BY DEF BuildCbpfMem
<1> DEFINE class == C!InsClass[C!StLd[name][3]]
           mode == C!StLdMode[C!StLd[name][1]]
           size == C!StLdSize[C!StLd[name][2]]
           op == mode + size
           i == C!StoreLoad(name, n)
<1>2. PICK m \in 0 .. 5 : mode = 32 * m
  BY StLdNames, CbpfOpNumbers
<1>3. PICK s \in 0 .. 2 : size = 8 * s
  BY StLdNames, CbpfOpNumbers
<1>4. class \in 0 .. 7
  BY StLdNames, CbpfOpNumbers
<1>5. i = C!newStoreLoadOperation(mode, size, class, n)
  BY DEF C!StoreLoad
<1>6. BuildFilter(Wanted("cmem", op, class, 0, C!Imm(n), 0), i)
  BY <1>1
<1>7. class + op \in ClassicCodes <=> ~(class \in {2, 3} \/ (class = 1 /\ op = 32))
  <2>1. <<op, class>> \in {<<96, 0>>, <<0, 0>>, <<128, 0>>, <<32, 0>>, <<40, 0>>, <<48, 0>>, <<64, 0>>,
                            <<72, 0>>, <<80, 0>>, <<96, 1>>, <<0, 1>>, <<128, 1>>, <<32, 1>>, <<176, 1>>,
                            <<96, 2>>, <<96, 3>>}
    BY StLdTable
  <2> HIDE DEF op, class
  <2>2. \/ class = 0 /\ op \in {0, 32, 40, 48, 64, 72, 80, 96, 128}
        \/ class = 1 /\ op \in {0, 96, 128, 176}
        \/ class = 1 /\ op = 32
        \/ class \in {2, 3} /\ op = 96
    BY <2>1
  <2>3. {0, 32, 40, 48, 64, 72, 80, 96, 128} \cup {1, 97, 129, 177} \subseteq ClassicCodes
    BY DEF ClassicCodes
  <2>4. 33 \notin ClassicCodes /\ 98 \notin ClassicCodes /\ 99 \notin ClassicCodes
    BY DEF ClassicCodes
  <2> QED  BY <2>2, <2>3, <2>4
<1> HIDE DEF class, mode, size, i
<1>8. i.opcode = Bits(class + 8 * s + 32 * m)
  BY <1>2, <1>3, <1>4, <1>5, CbpfOpcodes
<1>9. class + 8 * s + 32 * m = class + op /\ op \in 0 .. 255 /\ class + op \in 0 .. 255
  BY <1>2, <1>3, <1>4
<1>10. i.opcode = Bits(class + op) /\ i.k = n
  BY <1>5, <1>8, <1>9 DEF C!newStoreLoadOperation, C!Instruction
<1> HIDE DEF op
<1> DEFINE c == Wanted("cmem", op, class, 0, C!Imm(n), 0)
<1>11. FilterHolds(i, c) /\ c.fn = "cmem"
  BY <1>4, <1>7, <1>9, <1>10, CbpfMemHolds, Zenon
<1> HIDE DEF c
<1>12. BuildFilter(c, i)
  BY <1>6 DEF c
<1> QED  BY <1>11, <1>12, FilterIsRequest DEF CbpfRequests

\* A return of a register has the source bit of the arithmetic.
LEMMA CbpfRetIsRequest ==
    ASSUME BuildCbpfRet PROVE FilterRequested
<1>1. PICK src \in CbpfOperands :
        BuildFilter(Wanted("cret", 0, C!InsClass.Ret, 0, src, 0), C!Ret(src))
  BY DEF BuildCbpfRet
<1> DEFINE i == C!Ret(src)
           c == Wanted("cret", 0, C!InsClass.Ret, 0, src, 0)
           source == C!SrcType(src)
<1>2. c.fn = "cret" /\ c.op = 0 /\ c.class = 6 /\ c.src = src
  BY WantedFields, CbpfNumbers
<1>3. i.opcode = (Bits(6) \cap 0 .. 2) \cup (Bits(source) \cap 3 .. 4)
  BY CbpfNumbers, CbpfIntegers DEF C!Ret, C!Instruction
<1>4. src.type # "Reg" => i.k = src.value
  BY DEF C!Ret, C!Instruction
<1>5. source \in {0, 8} /\ source = IF src.type = "Reg" THEN 8 ELSE 0
  BY CbpfOperandIs
<1>6. BuildFilter(c, i)
  BY <1>1
<1> HIDE DEF i, c, source
<1>7. i.opcode = Bits(6 + source)
  <2>1. PICK s \in {0, 1} : source = 8 * s
    BY <1>5
  <2>2. encodeMemOpcode(32 * 0, 8 * s, 6) = Bits(6 + 8 * s + 32 * 0)
    BY MemSum
  <2>3. Bits(0) = {} /\ 32 * 0 = 0 /\ 6 + 8 * s + 32 * 0 = 6 + source
    BY <2>1, SignBits
  <2>4. encodeMemOpcode(0, source, 6) = Bits(6 + source)
    BY <2>1, <2>2, <2>3
  <2> QED  BY <1>3, <2>3, <2>4 DEF encodeMemOpcode
<1>8. CbpfCode(c) = 6 + source /\ 6 + source \in 0 .. 255
  BY <1>2, <1>5 DEF CbpfCode
<1>9. Refused(c) <=> source = 8
  BY <1>2, <1>5 DEF Refused
<1>10. CbpfCode(c) \in ClassicCodes <=> ~Refused(c)
  BY <1>5, <1>8, <1>9, TakenCodes
<1>11. FilterHolds(i, c)
  BY <1>2, <1>4, <1>7, <1>8, <1>10 DEF FilterHolds
<1> QED  BY <1>2, <1>6, <1>11, FilterIsRequest DEF CbpfRequests

LEMMA CbpfMiscIsRequest ==
    ASSUME BuildCbpfMisc PROVE FilterRequested
<1>1. PICK reg \in {C!A, C!X} :
        BuildFilter(Wanted("cmem", IF reg = C!X THEN 128 ELSE 0, C!InsClass.Misc, 0, C!Imm(reg), 0),
                    C!Misc(reg))
  BY DEF BuildCbpfMisc
<1> DEFINE op == IF reg = C!X THEN 128 ELSE 0
           i == C!Misc(reg)
           c == Wanted("cmem", op, 7, 0, C!Imm(reg), 0)
<1>2. /\ i.opcode = (Bits(7) \cap 0 .. 2) \cup (Bits(op) \cap 3 .. 7)
      /\ i.k = reg
  BY CbpfNumbers, CbpfIntegers DEF C!Misc, C!Instruction
<1>3. op \in {0, 128}
  OBVIOUS
<1>4. BuildFilter(c, i)
  BY <1>1, CbpfNumbers
<1> HIDE DEF op, i
<1>5. i.opcode = Bits(7 + op)
  <2>1. PICK m \in {0, 4} : op = 32 * m
    BY <1>3
  <2>2. encodeMemOpcode(32 * m, 8 * 0, 7) = Bits(7 + 8 * 0 + 32 * m)
    BY MemSum
  <2>3. Bits(0) = {}
    BY SignBits
  <2>4. 3 \notin Bits(op) /\ 4 \notin Bits(op)
    BY <1>3, LowBits
  <2>5. 8 * 0 = 0 /\ 7 + 8 * 0 + 32 * m = 7 + op
    BY <2>1
  <2>6. (Bits(7) \cap 0 .. 2) \cup (Bits(op) \cap 5 .. 7) = Bits(7 + op)
    BY <2>1, <2>2, <2>3, <2>5 DEF encodeMemOpcode
  <2> QED  BY <1>2, <2>4, <2>6
<1>6. 7 \in 0 .. 7 /\ op \in 0 .. 255 /\ 7 + op \in 0 .. 255
  BY <1>3
<1>7. FilterHolds(i, c) /\ c.fn = "cmem"
  <2> DEFINE class == 7
  <2>1. /\ class \in 0 .. 7 /\ op \in 0 .. 255 /\ class + op \in 0 .. 255
        /\ i.opcode = Bits(class + op)
    BY <1>5, <1>6
  <2>2. class + op \in ClassicCodes <=> ~(class \in {2, 3} \/ (class = 1 /\ op = 32))
    <3>1. 7 + op \in ClassicCodes
      BY <1>3, TakenCodes
    <3> QED  BY <3>1
  <2> HIDE DEF class
  <2>3. /\ FilterHolds(i, Wanted("cmem", op, class, 0, C!Imm(reg), 0))
        /\ Wanted("cmem", op, class, 0, C!Imm(reg), 0).fn = "cmem"
    BY <1>2, <2>1, <2>2, CbpfMemHolds, Zenon
  <2> QED  BY <2>3 DEF class
<1> HIDE DEF c
<1> QED  BY <1>4, <1>7, FilterIsRequest DEF CbpfRequests

LEMMA CbpfRandomIsRequest ==
    ASSUME BuildCbpfRandom PROVE FilterRequested
<1>1. PICK i \in DrawnFilters : BuildFilter([fn |-> "crandom"], i)
  BY DEF BuildCbpfRandom, DrawnFilters
<1>2. /\ asked' = [fn |-> "crandom"] /\ First' = i /\ prog' = OneFunction(<<i, FooterFilter>>)
      /\ epc' \in {"panic", "filters"}
      /\ fn' = fn /\ ins' = ins /\ prog_buff' = prog_buff
  BY <1>1, FilterHanded
<1>3. asked'.fn = "crandom"
  BY <1>2
<1>4. FilterComesFromRequest'
  <2>1. First' \in DrawnFilters'
    BY <1>2 DEF DrawnFilters
  <2> QED  BY <1>3, <2>1 DEF FilterComesFromRequest
<1> QED  BY <1>2, <1>3, <1>4 DEF FilterRequested, CbpfRequests

--------------------------------------------------------------------------------
(* The invariant is inductive *)

LEMMA EInvInit == Init => EInv
BY DEF Init, EncodingInit, EInv

\* What a step of the encoder leaves alone.
LEMMA SameProgram ==
    ASSUME UNCHANGED <<asked, prog>>
    PROVE  /\ First' = First /\ FirstWords' = FirstWords /\ BothWords' = BothWords
           /\ ComesFromRequest' <=> ComesFromRequest
           /\ FilterComesFromRequest' <=> FilterComesFromRequest
<1>1. First' = First
  BY DEF First
<1>2. FirstWords' = FirstWords /\ BothWords' = BothWords
  BY <1>1 DEF FirstWords, BothWords
<1>3. ComesFromRequest' <=> ComesFromRequest
  <2>1. Drawn' = Drawn
    BY DEF Drawn
  <2> QED  BY <1>1, <2>1, Zenon DEF ComesFromRequest
<1>4. FilterComesFromRequest' <=> FilterComesFromRequest
  <2>1. DrawnFilters' = DrawnFilters
    BY DEF DrawnFilters
  <2> QED  BY <1>1, <2>1, Zenon DEF FilterComesFromRequest
<1> QED  BY <1>1, <1>2, <1>3, <1>4

\* The functions and instructions of a program of two instructions.
LEMMA TwoInstructions ==
    ASSUME NEW p, NEW i, NEW j, p = OneFunction(<<i, j>>)
    PROVE  Len(p) = 1 /\ Len(p[1].insns) = 2 /\ p[1].insns[1] = i /\ p[1].insns[2] = j
BY DEF OneFunction

LEMMA OneAppended ==
    ASSUME NEW a, NEW b
    PROVE  Append(<<a>>, b) = <<a, b>>
<1> DEFINE S == {a, b}
           l == Append(<<a>>, b)
           r == <<a, b>>
<1>1. <<a>> \in Seq(S) /\ b \in S /\ r \in Seq(S)
  OBVIOUS
<1>2. l \in Seq(S) /\ Len(l) = 2 /\ l[1] = a /\ l[2] = b
  BY <1>1, AppendProperties
<1>3. Len(r) = 2 /\ r[1] = a /\ r[2] = b
  OBVIOUS
<1> HIDE DEF l, r, S
<1>4. l = r
  BY <1>1, <1>2, <1>3, SeqEqual
<1> QED  BY <1>4 DEF l, r

LEMMA EncodeInstructionStep == EInv /\ EncodeInstruction => EInv'
<1> SUFFICES ASSUME EInv, EncodeInstruction PROVE EInv'
  OBVIOUS
<1>1. /\ epc = "encode" /\ epc' = "encode" /\ fn <= Len(prog) /\ ins <= Len(prog[fn].insns)
      /\ prog_buff' = prog_buff \o encodeInstruction(prog[fn].insns[ins])
      /\ ins' = ins + 1 /\ UNCHANGED <<asked, prog>> /\ fn' = fn
  BY DEF EncodeInstruction
<1>2. asked.fn \notin CbpfRequests
  BY <1>1 DEF EInv
<1>3. ASSUME asked.fn \in Constructors \cup {"random"}
      PROVE  ComesFromRequest' /\ prog' = OneFunction(<<First', Exit>>) /\ EncodedSoFar'
  <2>1. ComesFromRequest /\ prog = OneFunction(<<First, Exit>>) /\ EncodedSoFar
    BY <1>1, <1>3 DEF EInv
  <2>2. Len(prog) = 1 /\ Len(prog[1].insns) = 2 /\ prog[1].insns[1] = First /\ prog[1].insns[2] = Exit
    BY <2>1, TwoInstructions
  <2>3. /\ First' = First /\ FirstWords' = FirstWords /\ BothWords' = BothWords
        /\ ComesFromRequest' <=> ComesFromRequest
    BY <1>1, SameProgram
  <2>4. \/ fn = 1 /\ ins = 1 /\ prog_buff = <<>>
        \/ fn = 1 /\ ins = 2 /\ prog_buff = FirstWords
    BY <1>1, <2>1, <2>2 DEF EncodedSoFar
  <2>5. EncodedSoFar'
    <3>1. CASE fn = 1 /\ ins = 1 /\ prog_buff = <<>>
      <4>1. prog_buff' = FirstWords
        BY <1>1, <2>2, <3>1, Zenon DEF FirstWords
      <4> QED  BY <1>1, <2>3, <3>1, <4>1 DEF EncodedSoFar
    <3>2. CASE fn = 1 /\ ins = 2 /\ prog_buff = FirstWords
      <4>1. prog_buff' = BothWords
        BY <1>1, <2>2, <3>2, Zenon DEF BothWords
      <4> QED  BY <1>1, <2>3, <3>2, <4>1 DEF EncodedSoFar
    <3> QED  BY <2>4, <3>1, <3>2
  <2>6. prog' = OneFunction(<<First', Exit>>)
    BY <1>1, <2>1, <2>3
  <2> QED  BY <2>1, <2>3, <2>5, <2>6
<1> QED  BY <1>1, <1>2, <1>3, Zenon DEF EInv

LEMMA EncodeFuncInfoStep == EInv /\ EncodeFuncInfo => EInv'
<1> SUFFICES ASSUME EInv, EncodeFuncInfo PROVE EInv'
  OBVIOUS
<1>1. /\ epc = "encode" /\ epc' = "encode" /\ fn <= Len(prog) /\ ins > Len(prog[fn].insns)
      /\ fn' = fn + 1 /\ UNCHANGED <<asked, prog>> /\ prog_buff' = prog_buff
  BY DEF EncodeFuncInfo
<1>2. asked.fn \notin CbpfRequests
  BY <1>1 DEF EInv
<1>3. ASSUME asked.fn \in Constructors \cup {"random"}
      PROVE  ComesFromRequest' /\ prog' = OneFunction(<<First', Exit>>) /\ EncodedSoFar'
  <2>1. ComesFromRequest /\ prog = OneFunction(<<First, Exit>>) /\ EncodedSoFar
    BY <1>1, <1>3 DEF EInv
  <2>2. Len(prog) = 1 /\ Len(prog[1].insns) = 2
    BY <2>1, TwoInstructions
  <2>3. /\ First' = First /\ FirstWords' = FirstWords /\ BothWords' = BothWords
        /\ ComesFromRequest' <=> ComesFromRequest
    BY <1>1, SameProgram
  <2>4. fn = 1 /\ prog_buff = BothWords
    BY <1>1, <2>1, <2>2, SMTT(30) DEF EncodedSoFar
  <2>5. EncodedSoFar'
    BY <1>1, <2>3, <2>4 DEF EncodedSoFar
  <2>6. prog' = OneFunction(<<First', Exit>>)
    BY <1>1, <2>1, <2>3
  <2> QED  BY <2>1, <2>3, <2>5, <2>6
<1> QED  BY <1>1, <1>2, <1>3, Zenon DEF EInv

LEMMA EncodeFilterStep == EInv /\ EncodeFilter => EInv'
<1> SUFFICES ASSUME EInv, EncodeFilter PROVE EInv'
  OBVIOUS
<1>1. /\ epc = "filters" /\ epc' = "filters" /\ ins <= Len(prog[1].insns)
      /\ prog_buff' = Append(prog_buff, C!Filter(prog[1].insns[ins]))
      /\ ins' = ins + 1 /\ UNCHANGED <<asked, prog>>
  BY DEF EncodeFilter
<1>2. asked.fn \in CbpfRequests
  BY <1>1 DEF EInv
<1>3. FilterComesFromRequest /\ prog = OneFunction(<<First, FooterFilter>>) /\ FilteredSoFar
  BY <1>1, <1>2 DEF EInv
<1>4. Len(prog[1].insns) = 2 /\ prog[1].insns[1] = First /\ prog[1].insns[2] = FooterFilter
  BY <1>3, TwoInstructions
<1>5. First' = First /\ (FilterComesFromRequest' <=> FilterComesFromRequest)
  BY <1>1, SameProgram
<1>6. FilteredSoFar'
  <2>1. CASE ins = 1 /\ prog_buff = <<>>
    <3>1. prog_buff' = <<C!Filter(First)>>
      BY <1>1, <1>4, <2>1
    <3> QED  BY <1>1, <1>5, <2>1, <3>1 DEF FilteredSoFar
  <2>2. CASE ins = 2 /\ prog_buff = <<C!Filter(First)>>
    <3>1. prog_buff' = Append(<<C!Filter(First)>>, C!Filter(FooterFilter))
      BY <1>1, <1>4, <2>2
    <3>2. \A a, b : Append(<<a>>, b) = <<a, b>>
      BY OneAppended
    <3>3. prog_buff' = <<C!Filter(First), C!Filter(FooterFilter)>>
      BY <3>1, <3>2, Zenon
    <3>4. FooterFilter' = FooterFilter
      BY DEF FooterFilter
    <3> QED  BY <1>1, <1>5, <2>2, <3>3, <3>4, 2 + 1 = 3 DEF FilteredSoFar
  <2> QED  BY <1>1, <1>3, <1>4, <2>1, <2>2 DEF FilteredSoFar
<1>7. prog' = OneFunction(<<First', FooterFilter'>>)
  BY <1>1, <1>3, <1>5 DEF FooterFilter
<1> QED  BY <1>1, <1>2, <1>3, <1>5, <1>6, <1>7, Zenon DEF EInv

LEMMA ReturnBuffersStep == EInv /\ ReturnBuffers => EInv'
<1> SUFFICES ASSUME EInv, ReturnBuffers PROVE EInv'
  OBVIOUS
<1>1. /\ epc \in {"encode", "filters"} /\ epc' = "done"
      /\ UNCHANGED <<asked, prog>> /\ fn' = fn /\ ins' = ins /\ prog_buff' = prog_buff
      /\ epc = "encode" => fn > Len(prog)
      /\ epc = "filters" => ins > Len(prog[1].insns)
  BY DEF ReturnBuffers
<1>2. /\ First' = First /\ FirstWords' = FirstWords /\ BothWords' = BothWords
      /\ (ComesFromRequest' <=> ComesFromRequest)
      /\ (FilterComesFromRequest' <=> FilterComesFromRequest)
  BY <1>1, SameProgram
<1>3. ASSUME asked.fn \in Constructors \cup {"random"}
      PROVE  ComesFromRequest' /\ prog' = OneFunction(<<First', Exit>>) /\ EncodedSoFar' /\ fn' = 2
  <2>1. epc = "encode"
    BY <1>1, <1>3 DEF EInv, CbpfRequests, Constructors
  <2>2. ComesFromRequest /\ prog = OneFunction(<<First, Exit>>) /\ EncodedSoFar
    BY <2>1, <1>3 DEF EInv
  <2>3. Len(prog) = 1
    BY <2>2, TwoInstructions
  <2>4. fn = 2 /\ prog_buff = BothWords
    BY <1>1, <2>1, <2>2, <2>3 DEF EncodedSoFar
  <2> QED  BY <1>1, <1>2, <2>2, <2>4 DEF EncodedSoFar
<1>4. ASSUME asked.fn \in CbpfRequests
      PROVE  FilterComesFromRequest' /\ prog' = OneFunction(<<First', FooterFilter'>>) /\ FilteredSoFar'
             /\ ins' = 3
  <2>1. epc = "filters"
    BY <1>1, <1>4 DEF EInv
  <2>2. FilterComesFromRequest /\ prog = OneFunction(<<First, FooterFilter>>) /\ FilteredSoFar
    BY <2>1, <1>4 DEF EInv
  <2>3. Len(prog[1].insns) = 2
    BY <2>2, TwoInstructions
  <2>4. ins = 3 /\ prog_buff = <<C!Filter(First), C!Filter(FooterFilter)>>
    BY <1>1, <2>1, <2>2, <2>3, SMTT(30) DEF FilteredSoFar
  <2>5. FilteredSoFar'
    BY <1>1, <1>2, <2>4 DEF FilteredSoFar
  <2> QED  BY <1>1, <1>2, <2>2, <2>4, <2>5 DEF FooterFilter
<1> QED  BY <1>1, <1>3, <1>4, Zenon DEF EInv

\* A request, a drawn instruction or a sequence begins at the beginning.
LEMMA BuildOneStep == EInv /\ BuildOne => EInv'
<1> SUFFICES ASSUME EInv, BuildOne PROVE EInv'
  OBVIOUS
<1>1. fn = 1 /\ ins = 1 /\ prog_buff = <<>>
  BY DEF EInv, BuildOne
<1>2. fn' = fn /\ ins' = ins /\ prog_buff' = prog_buff
  <2> DEFINE same == fn' = fn /\ ins' = ins /\ prog_buff' = prog_buff
  <2>1. ASSUME NEW what, NEW insns, Build(what, insns) PROVE same
    BY <2>1 DEF Build, Hand
  <2>2. ASSUME NEW what, NEW i, BuildFilter(what, i) PROVE same
    BY <2>2 DEF BuildFilter, Hand
  <2> HIDE DEF same
  <2>3. BuildAlu \/ BuildJmp \/ BuildStore \/ BuildLoad \/ BuildAtomic => same
    BY <2>1, Zenon DEF BuildAlu, BuildJmp, BuildStore, BuildLoad, BuildAtomic
  <2>4. BuildLookup \/ BuildSkbLoad \/ BuildLdImm \/ BuildControl \/ BuildRandom => same
    BY <2>1, Zenon DEF BuildLookup, BuildSkbLoad, BuildLdImm, BuildControl, BuildRandom
  <2>5. BuildCbpfAlu \/ BuildCbpfJmp \/ BuildCbpfMem \/ BuildCbpfRet \/ BuildCbpfMisc \/ BuildCbpfRandom => same
    BY <2>2, ZenonT(40) DEF BuildCbpfAlu, BuildCbpfJmp, BuildCbpfMem, BuildCbpfRet, BuildCbpfMisc, BuildCbpfRandom
  <2> QED  BY <2>3, <2>4, <2>5 DEF BuildOne, same
<1>3. CASE epc' = "panic" \/ (epc' = "encode" /\ Requested)
  <2>1. CASE epc' = "panic"
    BY <2>1 DEF EInv
  <2>2. CASE epc' = "encode" /\ Requested
    <3>1. PICK i : /\ asked'.fn \in Constructors /\ Asks(asked') /\ i = Made(asked') /\ i # Panics
                   /\ prog' = OneFunction(<<i, Exit>>)
      BY <2>2 DEF Requested
    <3>2. First' = i
      BY <3>1, TwoInstructions DEF First
    <3>3. ComesFromRequest'
      BY <3>1, <3>2, Zenon DEF ComesFromRequest
    <3>4. EncodedSoFar'
      BY <1>1, <1>2 DEF EncodedSoFar
    <3>5. asked'.fn \notin CbpfRequests
      BY <3>1 DEF Constructors, CbpfRequests
    <3> QED  BY <2>2, <3>1, <3>2, <3>3, <3>4, <3>5 DEF EInv
  <2> QED  BY <1>3, <2>1, <2>2
<1>4. CASE BuildRandom
  <2>1. /\ epc' = "panic" \/ epc' = "encode"
        /\ asked'.fn = "random"
        /\ \E i \in Drawn : prog' = OneFunction(<<i, Exit>>)
    BY <1>4, RandomIsDrawn
  <2>2. PICK i \in Drawn : prog' = OneFunction(<<i, Exit>>)
    BY <2>1
  <2>3. First' = i
    BY <2>2, TwoInstructions DEF First
  <2>4. ComesFromRequest'
    <3>1. Drawn' = Drawn
      BY DEF Drawn
    <3> QED  BY <2>1, <2>3, <3>1, Zenon DEF ComesFromRequest
  <2>5. EncodedSoFar'
    BY <1>1, <1>2 DEF EncodedSoFar
  <2> QED  BY <2>1, <2>2, <2>3, <2>4, <2>5 DEF EInv, CbpfRequests
<1>5. CASE BuildLookup \/ BuildSkbLoad
  BY <1>5, SequencesAreOther DEF EInv, CbpfRequests, Constructors
<1>6. CASE FilterRequested
  <2>1. FilteredSoFar'
    BY <1>1, <1>2 DEF FilteredSoFar
  <2>2. FooterFilter' = FooterFilter
    BY DEF FooterFilter
  <2>3. asked'.fn \notin Constructors \cup {"random"}
    BY <1>6 DEF FilterRequested, CbpfRequests, Constructors
  <2> QED  BY <1>6, <2>1, <2>2, <2>3 DEF EInv, FilterRequested
<1>7. \/ BuildAlu \/ BuildJmp \/ BuildStore \/ BuildLoad \/ BuildAtomic \/ BuildLookup \/ BuildSkbLoad
      \/ BuildLdImm \/ BuildControl \/ BuildRandom
      \/ BuildCbpfAlu \/ BuildCbpfJmp \/ BuildCbpfMem \/ BuildCbpfRet \/ BuildCbpfMisc \/ BuildCbpfRandom
  BY DEF BuildOne
<1> QED
  BY <1>3, <1>4, <1>5, <1>6, <1>7, AluIsRequest, JmpIsRequest, StoreIsRequest, LoadIsRequest,
     AtomicIsRequest, LdImmIsRequest, ControlIsRequest, CbpfAluIsRequest, CbpfJmpIsRequest,
     CbpfMemIsRequest, CbpfRetIsRequest, CbpfMiscIsRequest, CbpfRandomIsRequest, Zenon

\* The loop program has no part in the invariant.
LEMMA LoopProgramStep ==
    EInv /\ (GenerateProgram \/ AppendTurn \/ AppendFoo \/ GenerateBtf \/ ReturnProgram) => EInv'
<1>1. ASSUME EInv, GenerateProgram PROVE EInv'
  <2>1. asked'.fn = "loop" /\ epc' \in {"panic", "body"}
    BY <1>1 DEF GenerateProgram, Hand
  <2> QED  BY <2>1 DEF EInv
<1>2. ASSUME EInv, AppendTurn \/ AppendFoo \/ GenerateBtf PROVE EInv'
  <2>1. /\ epc \in {"body", "generate"} /\ epc' \in {"body", "generate"} /\ asked' = asked
    BY <1>2 DEF AppendTurn, AppendFoo, GenerateBtf, evars
  <2> QED  BY <1>2, <2>1 DEF EInv
<1>3. ASSUME EInv, ReturnProgram PROVE EInv'
  <2>1. epc = "generate" /\ epc' = "encode" /\ asked' = asked
    BY <1>3 DEF ReturnProgram
  <2>2. asked'.fn = "loop"
    BY <1>3, <2>1 DEF EInv
  <2> QED  BY <2>1, <2>2 DEF EInv, CbpfRequests, Constructors
<1> QED  BY <1>1, <1>2, <1>3

LEMMA EInvStep == EInv /\ [Next]_vars => EInv'
<1> SUFFICES ASSUME EInv, [Next]_vars PROVE EInv'
  OBVIOUS
<1>1. CASE Again
  BY <1>1 DEF Again, EInv
<1>2. CASE UNCHANGED evars
  <2>1. UNCHANGED <<epc, asked, prog, fn, ins, prog_buff>>
    BY <1>2 DEF evars
  <2>2. UNCHANGED <<asked, prog>>
    BY <2>1
  <2>3. /\ First' = First /\ FirstWords' = FirstWords /\ BothWords' = BothWords
        /\ (ComesFromRequest' <=> ComesFromRequest)
        /\ (FilterComesFromRequest' <=> FilterComesFromRequest)
    BY <2>2, SameProgram
  <2>4. (EncodedSoFar' <=> EncodedSoFar) /\ (FilteredSoFar' <=> FilteredSoFar)
    <3>1. FooterFilter' = FooterFilter
      BY DEF FooterFilter
    <3> QED  BY <2>1, <2>3, <3>1, Zenon DEF EncodedSoFar, FilteredSoFar
  <2>5. FooterFilter' = FooterFilter
    BY DEF FooterFilter
  <2> QED  BY <2>1, <2>3, <2>4, <2>5, Zenon DEF EInv
<1>3. CASE Ended
  BY <1>2, <1>3 DEF Ended
<1> QED
  BY <1>1, <1>2, <1>3, BuildOneStep, LoopProgramStep, EncodeInstructionStep, EncodeFuncInfoStep,
     EncodeFilterStep, ReturnBuffersStep DEF Next, vars, EncodingStep

LEMMA EncodingInvariant == Spec => []EInv
BY EInvInit, EInvStep, PTL DEF Spec

--------------------------------------------------------------------------------
(* The kernel reads what was asked for *)

\* The words of the finished program.
LEMMA FinishedWords ==
    ASSUME NEW n, First.pseudo = <<>> \/ First.pseudo = <<n>>, prog_buff = BothWords
    PROVE  /\ prog_buff[1] = EncodeWord(First) /\ Len(prog_buff) = 2 + Len(First.pseudo)
           /\ First.pseudo = <<n>> => prog_buff[2] = Second(n)
<1> DEFINE s == encodeInstruction(First)
           e == encodeInstruction(Exit)
<1>1. /\ s \in Seq(Words) /\ Len(s) = 1 + Len(First.pseudo) /\ s[1] = EncodeWord(First)
      /\ First.pseudo = <<n>> => s[2] = Second(n)
  BY EncodeShape
<1>2. e \in Seq(Words) /\ Len(e) = 1
  <2>1. Exit.pseudo = <<>>
    BY DEF Exit, newJmpInstruction, FromSrc, Imm, Instruction
  <2>2. Len(e) = 1 + Len(Exit.pseudo) /\ e \in Seq(Words)
    BY <2>1, EncodeShape
  <2> QED  BY <2>1, <2>2
<1>3. Len(First.pseudo) \in {0, 1} /\ (First.pseudo = <<n>> => Len(First.pseudo) = 1)
  OBVIOUS
<1> HIDE DEF s, e
<1>4. FirstWords = s
  BY <1>1, ConcatEmptySeq DEF FirstWords, s
<1>5. prog_buff = s \o e
  BY <1>4 DEF BothWords, e
<1>6. /\ Len(s \o e) = Len(s) + Len(e)
      /\ \A i \in 1 .. Len(s) + Len(e) : (s \o e)[i] = IF i <= Len(s) THEN s[i] ELSE e[i - Len(s)]
  BY <1>1, <1>2, ConcatProperties
<1> HIDE DEF First
<1>7. (s \o e)[1] = s[1] /\ Len(s \o e) = 2 + Len(First.pseudo)
      /\ (First.pseudo = <<n>> => (s \o e)[2] = s[2])
  BY <1>1, <1>2, <1>3, <1>6
<1> QED  BY <1>1, <1>5, <1>7

\* The instruction of a finished request, and what it holds.
LEMMA FinishedRequest ==
    ASSUME EInv, Program, Meaningful(asked)
    PROVE  /\ asked.fn \in Constructors /\ Asks(asked) /\ Holds(First, asked)
           /\ prog_buff[1] = EncodeWord(First)
           /\ KernelCode(asked) = 24 /\ asked.fn = "alu" => prog_buff[2] = Second(asked.src.hi)
<1>1. epc = "done" /\ asked.fn \in Constructors
  BY DEF Program, Meaningful, Constructors
<1>2. ComesFromRequest /\ EncodedSoFar /\ fn = 2
  BY <1>1 DEF EInv
<1>3. Asks(asked) /\ First = Made(asked) /\ First # Panics
  BY <1>1, <1>2 DEF ComesFromRequest, Constructors
<1>4. Holds(First, asked)
  BY <1>1, <1>3, MadeHolds
<1>5. prog_buff = BothWords
  BY <1>2 DEF EncodedSoFar
<1> DEFINE n == IF asked.fn = "ldimm" THEN 0 ELSE asked.src.hi
<1>6. First.pseudo = IF KernelCode(asked) # 24 THEN <<>> ELSE <<n>>
  BY <1>4 DEF Holds
<1>7. asked.fn = "alu" => n = asked.src.hi
  OBVIOUS
<1> HIDE DEF n, First
<1>8. /\ prog_buff[1] = EncodeWord(First)
      /\ First.pseudo = <<n>> => prog_buff[2] = Second(n)
  BY <1>5, <1>6, FinishedWords
<1> QED  BY <1>1, <1>3, <1>4, <1>6, <1>7, <1>8

\* The kernel reads the opcode, the registers, the offset and the immediate that a
\* caller asked the eBPF library for: for every operation, every one of the eleven
\* registers, every offset and every operand of the types the library takes.
THEOREM InstructionsAreRead == Spec => []KernelReadsInstruction
<1>1. EInv => KernelReadsInstruction
  <2> SUFFICES ASSUME EInv, Program, Meaningful(asked)
               PROVE  LET w == prog_buff[1]
                      IN  /\ Code(w) = Bits(KernelCode(asked))
                          /\ Dst(w) = Bits(asked.dst)
                          /\ Off(w) = Bits(asked.off) \cap 0 .. 15
                          /\ asked.src.type = "Reg" => SrcReg(w) = Bits(asked.src.lo)
                          /\ asked.fn = "atomic" => ImmOf(w) = Bits(asked.op)
                          /\ asked.fn = "ldimm" => SrcReg(w) = Bits(asked.op) /\ ImmOf(w) = Bits(asked.src.lo)
    BY DEF KernelReadsInstruction
  <2> DEFINE w == EncodeWord(First)
  <2>1. /\ asked.fn \in Constructors /\ Asks(asked) /\ Holds(First, asked)
        /\ prog_buff[1] = w
    BY FinishedRequest
  <2>2. /\ Code(w) = Opcode(First)
        /\ Dst(w) = Bits(First.dst) \cap 0 .. 3 /\ SrcReg(w) = Bits(First.src) \cap 0 .. 3
        /\ Off(w) = Bits(First.off) \cap 0 .. 15 /\ ImmOf(w) = Bits(First.imm)
    BY FieldsDoNotOverlap DEF Code, Dst, SrcReg, Off, ImmOf
  <2> HIDE DEF w
  <2>3. \A r \in 0 .. 10 : Bits(r) \cap 0 .. 3 = Bits(r)
    <3> TAKE r \in 0 .. 10
    <3>1. r \in Int /\ r \in 0 .. 15
      OBVIOUS
    <3>2. Bits(r) \subseteq 0 .. 3
      BY <3>1, SmallBits
    <3> QED  BY <3>2
  <2>4. asked.dst \in 0 .. 10 /\ asked.src \in AnyOperand
    BY <2>1 DEF Asks
  <2>5. Dst(w) = Bits(asked.dst)
    BY <2>1, <2>2, <2>3, <2>4, Zenon DEF Holds
  <2>6. asked.src.type = "Reg" => SrcReg(w) = Bits(asked.src.lo)
    <3> SUFFICES ASSUME asked.src.type = "Reg" PROVE SrcReg(w) = Bits(asked.src.lo)
      OBVIOUS
    <3>1. asked.src.lo \in 0 .. 10
      BY <2>4, OperandIs
    <3>2. First.src = asked.src.lo
      BY <2>1 DEF Holds
    <3> QED  BY <2>2, <2>3, <3>1, <3>2, Zenon
  <2>7. asked.fn = "ldimm" => SrcReg(w) = Bits(asked.op) /\ ImmOf(w) = Bits(asked.src.lo)
    <3> SUFFICES ASSUME asked.fn = "ldimm"
                 PROVE  SrcReg(w) = Bits(asked.op) /\ ImmOf(w) = Bits(asked.src.lo)
      OBVIOUS
    <3>1. asked.op \in 0 .. 10
      BY <2>1 DEF Asks
    <3>2. First.src = asked.op /\ First.imm = asked.src.lo
      BY <2>1 DEF Holds
    <3> QED  BY <2>2, <2>3, <3>1, <3>2, Zenon
  <2>8. Code(w) = Bits(KernelCode(asked)) /\ Off(w) = Bits(asked.off) \cap 0 .. 15
    BY <2>1, <2>2, Zenon DEF Holds
  <2>9. asked.fn = "atomic" => ImmOf(w) = Bits(asked.op)
    BY <2>1, <2>2, Zenon DEF Holds
  <2> QED  BY <2>1, <2>5, <2>6, <2>7, <2>8, <2>9, Zenon
<1> QED  BY <1>1, EncodingInvariant, PTL

\* No other instruction is taken for a load of 64 bits.
LEMMA NarrowCode ==
    ASSUME NEW c, Asks(c), c.fn \in {"alu", "jmp", "store"}, ~MovesMore(c)
    PROVE  Bits(KernelCode(c)) # LdDwImm
<1>1. 2 \notin Bits(24) /\ 6 \notin Bits(24)
  BY LowBits
<1>2. CASE c.fn \in {"alu", "jmp"}
  <2>1. PICK k \in 0 .. 13 : c.op = 16 * k
    BY <1>2 DEF Asks
  <2>2. PICK class \in {4, 5, 6, 7} : c.class = class
    BY <1>2 DEF Asks
  <2>3. PICK source \in {0, 8} : KernelCode(c) = class + 16 * k + source
    BY <1>2, <2>1, <2>2 DEF KernelCode, TakesTwoSlots
  <2>4. (class + 16 * k + source) \in Int /\ ((class + 16 * k + source) \div 4) % 2 = 1
    OBVIOUS
  <2>5. 2 \in Bits(KernelCode(c))
    BY <2>3, <2>4, LowBits
  <2> QED  BY <1>1, <2>5 DEF LdDwImm
<1>3. CASE c.fn = "store"
  <2>1. PICK k \in 0 .. 3 : c.op = 8 * k
    BY <1>3 DEF Asks
  <2>2. PICK class \in {2, 3} : KernelCode(c) = 96 + 8 * k + class
    BY <1>3, <2>1 DEF KernelCode, TakesTwoSlots
  <2>3. (96 + 8 * k + class) \in Int /\ ((96 + 8 * k + class) \div 64) % 2 = 1
    OBVIOUS
  <2>4. 6 \in Bits(KernelCode(c))
    BY <2>2, <2>3, LowBits
  <2> QED  BY <1>1, <2>4 DEF LdDwImm
<1> QED  BY <1>2, <1>3

\* An int32 is extended to 64 bits by its sign.
LEMMA SignExtension ==
    ASSUME NEW n \in Int
    PROVE  Extend(Bits(n)) = Bits(n) \cup Shl(Bits(Sign(n)), 32, 64)
<1>1. 31 \in Bits(n) <=> n < 0
  BY BitAt
<1>2. CASE n < 0
  <2>1. Bits(Sign(n)) = 0 .. 31
    BY <1>2, SignBits DEF Sign
  <2>2. Shl(0 .. 31, 32, 64) = 32 .. 63
    <3>1. \A b \in Int : b \in Shl(0 .. 31, 32, 64) <=> b \in 0 .. 63 /\ b - 32 \in 0 .. 31
      BY ShlMember
    <3>2. Shl(0 .. 31, 32, 64) \subseteq Int
      BY DEF Shl
    <3> QED  BY <3>1, <3>2
  <2> QED  BY <1>1, <1>2, <2>1, <2>2 DEF Extend
<1>3. CASE ~(n < 0)
  <2>1. Bits(Sign(n)) = {}
    BY <1>3, SignBits DEF Sign
  <2>2. Shl({}, 32, 64) = {}
    BY DEF Shl
  <2> QED  BY <1>1, <1>3, <2>1, <2>2 DEF Extend
<1> QED  BY <1>2, <1>3

\* A constant reaches the kernel with its value, over the whole range of int64: as an
\* immediate that the kernel extends by its sign, or in two slots.
THEOREM ConstantsArrive == Spec => []OperandArrives
<1>1. EInv => OperandArrives
  <2> SUFFICES ASSUME EInv, Program, Meaningful(asked), asked.src.type # "Reg",
                      \/ asked.fn = "alu" /\ asked.op = AluOps.Mov
                      \/ asked.fn \in {"alu", "jmp", "store"} /\ FitsInt32(asked.src)
               PROVE  KernelOperand(1) = Bits(asked.src.lo) \cup Shl(Bits(asked.src.hi), 32, 64)
    BY DEF OperandArrives
  <2>1. /\ asked.fn \in {"alu", "jmp", "store"} /\ Asks(asked) /\ Holds(First, asked)
        /\ prog_buff[1] = EncodeWord(First)
        /\ KernelCode(asked) = 24 /\ asked.fn = "alu" => prog_buff[2] = Second(asked.src.hi)
    BY FinishedRequest
  <2>2. First.imm = asked.src.lo /\ Opcode(First) = Bits(KernelCode(asked))
    BY <2>1 DEF Holds
  <2>3. Code(prog_buff[1]) = Bits(KernelCode(asked)) /\ ImmOf(prog_buff[1]) = Bits(asked.src.lo)
    BY <2>1, <2>2, FieldsDoNotOverlap DEF Code, ImmOf
  <2>4. CASE MovesMore(asked)
    <3>1. KernelCode(asked) = 24 /\ asked.fn = "alu"
      BY <2>4 DEF KernelCode, TakesTwoSlots, MovesMore
    <3>2. prog_buff[2] = Second(asked.src.hi)
      BY <2>1, <3>1
    <3>3. Mem(0, 0, 0, 0, 0, 0, asked.src.hi, <<>>).imm = asked.src.hi
      BY InstructionFields DEF Mem
    <3>4. ImmOf(prog_buff[2]) = Bits(asked.src.hi)
      BY <3>2, <3>3, FieldsDoNotOverlap, Zenon DEF ImmOf, Second
    <3> QED  BY <2>3, <3>1, <3>4, 1 + 1 = 2, Zenon DEF KernelOperand, LdDwImm
  <2>5. CASE ~MovesMore(asked)
    <3>1. FitsInt32(asked.src)
      BY <2>5 DEF MovesMore
    <3>2. asked.src.lo \in Int
      <4>1. asked.src \in Ints
        BY <2>1 DEF Asks, AnyOperand, Reg
      <4>2. Int32 \subseteq Int
        <5>1. \A lo, hi : lo .. hi \subseteq Int
          OBVIOUS
        <5> QED  BY <5>1, Zenon DEF Int32
      <4> QED  BY <4>1, <4>2 DEF Ints
    <3>3. Code(prog_buff[1]) # LdDwImm
      BY <2>1, <2>3, <2>5, NarrowCode
    <3>4. KernelOperand(1) = Extend(Bits(asked.src.lo))
      BY <2>3, <3>3, Zenon DEF KernelOperand
    <3>5. asked.src.hi = Sign(asked.src.lo)
      BY <3>1 DEF FitsInt32
    <3> QED  BY <3>2, <3>4, <3>5, SignExtension, Zenon
  <2> QED  BY <2>4, <2>5
<1> QED  BY <1>1, EncodingInvariant, PTL

--------------------------------------------------------------------------------
(* The kernel reads the filters that were asked for *)

LEMMA DrawsAreIntegers == Draws \subseteq Int
<1>1. \A lo, hi : lo .. hi \subseteq Int
  OBVIOUS
<1>2. Int32 \subseteq Int
  BY <1>1, Zenon DEF Int32
<1> QED  BY <1>2, EncodingAssumption

\* A remainder without its sign is below the divisor.
LEMMA Remainders ==
    ASSUME NEW v \in Int, NEW d \in {32, 64}
    PROVE  /\ Rem(v, d) \in Int
           /\ (IF Rem(v, d) < 0 THEN -Rem(v, d) ELSE Rem(v, d)) \in 0 .. (d - 1)
BY DEF Rem

\* A number of 4 bits is known by them.
LEMMA FourBits ==
    ASSUME NEW j \in 0 .. 15, NEW k \in 0 .. 15, Bits(j) = Bits(k)
    PROVE  j = k
<1>1. j % 2 = k % 2 /\ (j \div 2) % 2 = (k \div 2) % 2
  BY LowBits
<1>2. (j \div 4) % 2 = (k \div 4) % 2 /\ (j \div 8) % 2 = (k \div 8) % 2
  BY LowBits
<1> QED  BY <1>1, <1>2

\* The operation of an opcode.
LEMMA OperationField ==
    ASSUME NEW class \in 0 .. 7, NEW k \in 0 .. 15, NEW source \in {0, 8}
    PROVE  Field(Bits(class + 16 * k + source), 4, 4) = Bits(k)
<1> DEFINE n == class + 16 * k + source
<1>1. n \in Int /\ k \in Int
  OBVIOUS
<1>2. /\ (n \div 16) % 2 = k % 2 /\ (n \div 32) % 2 = (k \div 2) % 2
      /\ (n \div 64) % 2 = (k \div 4) % 2 /\ (n \div 128) % 2 = (k \div 8) % 2
  OBVIOUS
<1> HIDE DEF n
<1>3. /\ 4 \in Bits(n) <=> 0 \in Bits(k)
      /\ 5 \in Bits(n) <=> 1 \in Bits(k)
      /\ 6 \in Bits(n) <=> 2 \in Bits(k)
      /\ 7 \in Bits(n) <=> 3 \in Bits(k)
  BY <1>1, <1>2, LowBits
<1>4. Bits(k) \in SUBSET (0 .. (4 - 1))
  BY <1>1, SmallBits
<1>5. \A c \in 0 .. (4 - 1) : c + 4 \in Bits(n) <=> c \in Bits(k)
  BY <1>3
<1>6. Field(Bits(n), 4, 4) = Bits(k)
  BY <1>4, <1>5, FieldIs
<1> QED  BY <1>6 DEF n

\* The bits by which the classes of cBPF are told apart.
LEMMA ClassBits ==
    /\ 2 \in Bits(4) /\ 0 \notin Bits(4) /\ 2 \in Bits(5) /\ 0 \in Bits(5)
    /\ \A class \in 0 .. 3 : 2 \notin Bits(class)
BY LowBits

\* What a drawn filter is.
FilterLegal(f) ==
    /\ f.Opcode \cap 0 .. 2 = Bits(4) /\ 3 \notin f.Opcode
       /\ Field(f.Opcode, 4, 4) \in {Bits(6), Bits(7)} => f.K \subseteq 0 .. 4
    /\ f.Opcode \cap 0 .. 2 = Bits(5) => f.Jt = 0 /\ f.Jf \in {off % 256 : off \in JumpDraws}

LEMMA DrawnAluLegal ==
    ASSUME NEW i \in C!RandomAluInstruction(Draws)
    PROVE  FilterLegal(C!Filter(i))
<1>1. PICK k \in 0 .. 10 : \/ \E v \in Draws : i = C!generateImmAluInstruction(16 * k, v)
                           \/ i = C!newAluInstruction(16 * k, C!Reg(C!X))
  BY DEF C!RandomAluInstruction
<1>2. CASE i = C!newAluInstruction(16 * k, C!Reg(C!X))
  <2>1. i.opcode = C!Opcode(4, 8, 16 * k)
    BY <1>2, CbpfNumbers DEF C!newAluInstruction, C!Instruction, C!SrcType, C!Reg
  <2>2. i.opcode = Bits(4 + 16 * k + 8)
    BY <2>1, CbpfOpcodes
  <2>3. (4 + 16 * k + 8) \in Int /\ ((4 + 16 * k + 8) \div 8) % 2 = 1 /\ (4 + 16 * k + 8) % 2 = 0
    OBVIOUS
  <2>4. 3 \in i.opcode /\ 0 \notin i.opcode
    BY <2>2, <2>3, LowBits
  <2>5. C!Filter(i).Opcode = i.opcode \cap 0 .. 15
    BY DEF C!Filter
  <2>6. 3 \in C!Filter(i).Opcode /\ 0 \notin C!Filter(i).Opcode
    BY <2>4, <2>5
  <2> QED  BY <2>6, ClassBits DEF FilterLegal
<1>3. CASE \E v \in Draws : i = C!generateImmAluInstruction(16 * k, v)
  <2>1. PICK v \in Draws : i = C!generateImmAluInstruction(16 * k, v)
    BY <1>3
  <2> DEFINE imm == IF 16 * k \notin {112, 96} THEN v
                    ELSE IF Rem(v, 32) < 0 THEN -Rem(v, 32) ELSE Rem(v, 32)
  <2>2. i = C!newAluInstruction(16 * k, C!Imm(imm))
    BY <2>1, CbpfNumbers, CbpfIntegers DEF C!generateImmAluInstruction
  <2>3. k \in {6, 7} => imm \in 0 .. 31
    <3>1. v \in Int
      BY DrawsAreIntegers
    <3>2. (IF Rem(v, 32) < 0 THEN -Rem(v, 32) ELSE Rem(v, 32)) \in 0 .. 31
      BY <3>1, Remainders
    <3> QED  BY <3>2
  <2> HIDE DEF imm
  <2>4. i.opcode = C!Opcode(4, 0, 16 * k) /\ i.k = imm
    BY <2>2, CbpfNumbers DEF C!newAluInstruction, C!Instruction, C!SrcType, C!FieldK, C!Imm
  <2>5. i.opcode = Bits(4 + 16 * k + 0) /\ 4 + 16 * k + 0 \in 0 .. 255
    BY <2>4, CbpfOpcodes
  <2>6. i.opcode \subseteq 0 .. 7 /\ Field(i.opcode, 4, 4) = Bits(k)
    BY <2>5, SmallBits, OperationField
  <2>7. C!Filter(i).Opcode = i.opcode /\ C!Filter(i).K = Bits(imm)
    BY <2>4, <2>6, CbpfIntegers DEF C!Filter
  <2>8. (4 + 16 * k + 0) \in Int /\ (4 + 16 * k + 0) % 2 = 0
    OBVIOUS
  <2>9. 0 \notin i.opcode
    BY <2>5, <2>8, LowBits
  <2>10. Bits(k) \in {Bits(6), Bits(7)} => Bits(imm) \subseteq 0 .. 4
    <3> SUFFICES ASSUME Bits(k) \in {Bits(6), Bits(7)} PROVE Bits(imm) \subseteq 0 .. 4
      OBVIOUS
    <3>1. k \in {6, 7}
      BY FourBits
    <3> QED  BY <2>3, <3>1, SmallBits
  <2> QED  BY <2>6, <2>7, <2>9, <2>10, ClassBits DEF FilterLegal
<1> QED  BY <1>1, <1>2, <1>3

LEMMA DrawnJmpLegal ==
    ASSUME NEW i \in C!RandomJmpInstruction(JumpDraws, Draws)
    PROVE  FilterLegal(C!Filter(i))
<1>1. PICK k \in 1 .. 4, off \in JumpDraws, src \in {C!Imm(v) : v \in Draws} \cup {C!Reg(C!X)} :
        i = C!newJmpInstruction(16 * k, 0, C!Int8(off), src)
  BY DEF C!RandomJmpInstruction
<1>2. C!SrcType(src) \in {0, 8}
  BY CbpfOperandIs DEF CbpfOperands
<1>3. i.opcode = C!Opcode(5, C!SrcType(src), 16 * k) /\ i.jt = 0 /\ i.jf = Int8(off)
  BY <1>1, CbpfNumbers, CbpfIntegers DEF C!newJmpInstruction, C!Instruction
<1>4. i.opcode = Bits(5 + 16 * k + C!SrcType(src))
  BY <1>2, <1>3, CbpfOpcodes
<1>5. (5 + 16 * k + C!SrcType(src)) \in Int /\ (5 + 16 * k + C!SrcType(src)) % 2 = 1
  BY <1>2
<1>6. 0 \in i.opcode
  BY <1>4, <1>5, LowBits
<1>7. off \in JumpDraws /\ off \in Int
  BY EncodingAssumption
<1>8. Uint8(0) = 0 /\ Uint8(Int8(off)) = off % 256
  BY <1>7 DEF Uint8, Int8
<1>9. C!Filter(i).Opcode = i.opcode \cap 0 .. 15 /\ C!Filter(i).Jt = 0 /\ C!Filter(i).Jf = off % 256
  BY <1>3, <1>8, CbpfIntegers DEF C!Filter
<1>10. 0 \in C!Filter(i).Opcode
  BY <1>6, <1>9
<1> QED  BY <1>7, <1>9, <1>10, ClassBits DEF FilterLegal

\* Stores and loads are of other classes.
LEMMA DrawnMemLegal ==
    ASSUME NEW i \in C!RandomStoreInstruction({0, 512}) \cup C!RandomLoadInstruction({0, 64}, {0, 512})
    PROVE  FilterLegal(C!Filter(i))
<1>1. \E mode, size, imm : \E class \in 0 .. 3 : i = C!newStoreLoadOperation(mode, size, class, imm)
  <2>1. CASE i \in C!RandomStoreInstruction({0, 512})
    BY <2>1, CbpfNumbers DEF C!RandomStoreInstruction
  <2>2. CASE i \in C!RandomLoadInstruction({0, 64}, {0, 512})
    BY <2>2, CbpfNumbers DEF C!RandomLoadInstruction
  <2> QED  BY <2>1, <2>2
<1>2. PICK mode, size, imm : \E class \in 0 .. 3 : i = C!newStoreLoadOperation(mode, size, class, imm)
  BY <1>1
<1>3. PICK class \in 0 .. 3 : i = C!newStoreLoadOperation(mode, size, class, imm)
  BY <1>2
<1>4. i.opcode = (Bits(class) \cap 0 .. 2) \cup (Bits(size) \cap 3 .. 4) \cup (Bits(mode) \cap 5 .. 7)
  BY <1>3, CbpfIntegers DEF C!newStoreLoadOperation, C!Instruction
<1>5. 2 \notin i.opcode
  BY <1>4, ClassBits
<1>6. C!Filter(i).Opcode = i.opcode \cap 0 .. 15
  BY DEF C!Filter
<1> QED  BY <1>5, <1>6, ClassBits DEF FilterLegal

\* A byte is known by its bits.
LEMMA ByteBits ==
    ASSUME NEW j \in 0 .. 255, NEW k \in 0 .. 255, Bits(j) = Bits(k)
    PROVE  j = k
<1>1. /\ j % 2 = k % 2 /\ (j \div 2) % 2 = (k \div 2) % 2
      /\ (j \div 4) % 2 = (k \div 4) % 2 /\ (j \div 8) % 2 = (k \div 8) % 2
  BY LowBits
<1>2. /\ (j \div 16) % 2 = (k \div 16) % 2 /\ (j \div 32) % 2 = (k \div 32) % 2
      /\ (j \div 64) % 2 = (k \div 64) % 2 /\ (j \div 128) % 2 = (k \div 128) % 2
  BY LowBits
<1>3. \A n \in 0 .. 255 :
         n = (n % 2) + 2 * ((n \div 2) % 2) + 4 * ((n \div 4) % 2) + 8 * ((n \div 8) % 2) + 16 * (n \div 16)
  OBVIOUS
<1>4. j \div 16 = k \div 16
  BY <1>2
<1> QED  BY <1>1, <1>3, <1>4

\* The kernel takes what the caller of the cBPF library asked for but for the requests
\* Refused names, and reads its operation, operand and jumps, those of up to 255
\* instructions included; JmpJA never jumps; of what is drawn, shifts and jumps are as
\* KernelReadsFilter says, for every result of the random source.
THEOREM FiltersAreRead == Spec => []KernelReadsFilter
<1>1. EInv => KernelReadsFilter
  <2> SUFFICES ASSUME EInv, epc = "done", asked.fn \in CbpfRequests
               PROVE  LET f == prog_buff[1]
                          class == f.Opcode \cap 0 .. 2
                      IN  /\ Len(prog_buff) = 2
                          /\ asked.fn # "crandom" =>
                                /\ KernelTakes(f) <=> ~Refused(asked)
                                /\ f.Opcode = Bits(CbpfCode(asked))
                                /\ asked.src.type # "Reg" => f.K = Bits(asked.src.value)
                                /\ asked.fn = "cjmp" => KernelJump(f) = <<Bits(asked.dst), Bits(asked.off)>>
                                /\ asked.fn = "cja" => KernelJump(f) = <<{}, {}>>
                          /\ asked.fn = "crandom" /\ class = Bits(C!InsClass.Alu) /\ 3 \notin f.Opcode =>
                                (Field(f.Opcode, 4, 4) \in {Bits(6), Bits(7)} => f.K \subseteq 0 .. 4)
                          /\ asked.fn = "crandom" /\ class = Bits(C!InsClass.Jmp) =>
                                f.Jt = 0 /\ f.Jf \in {off % 256 : off \in JumpDraws}
    BY DEF KernelReadsFilter
  <2> DEFINE f == C!Filter(First)
  <2>1. FilterComesFromRequest /\ FilteredSoFar /\ ins = 3
    BY DEF EInv
  <2>2. prog_buff = <<f, C!Filter(FooterFilter)>>
    BY <2>1 DEF FilteredSoFar
  <2>3. Len(prog_buff) = 2 /\ prog_buff[1] = f
    <3> HIDE DEF f
    <3> QED  BY <2>2
  <2>4. f.Opcode = First.opcode \cap 0 .. 15 /\ f.Jt = Uint8(First.jt) /\ f.Jf = Uint8(First.jf)
        /\ f.K = Bits(First.k)
    BY CbpfIntegers DEF C!Filter
  <2> HIDE DEF f
  <2>5. CASE asked.fn # "crandom"
    <3>1. FilterHolds(First, asked)
      BY <2>1, <2>5 DEF FilterComesFromRequest
    <3> DEFINE n == CbpfCode(asked)
    <3>2. n \in 0 .. 255 /\ First.opcode = Bits(n) /\ First.opcode \subseteq 0 .. 7
      BY <3>1, SmallBits DEF FilterHolds
    <3>3. f.Opcode = Bits(n)
      BY <2>4, <3>2
    <3>4. KernelTakes(f) <=> ~Refused(asked)
      <4>1. n \in ClassicCodes <=> ~Refused(asked)
        BY <3>1 DEF FilterHolds
      <4>2. ClassicCodes \subseteq 0 .. 255
        BY DEF ClassicCodes
      <4> HIDE DEF n
      <4>3. KernelTakes(f) <=> n \in ClassicCodes
        BY <3>2, <3>3, <4>2, ByteBits DEF KernelTakes
      <4> QED  BY <4>1, <4>3
    <3>5. asked.src.type # "Reg" => f.K = Bits(asked.src.value)
      BY <2>4, <3>1 DEF FilterHolds
    <3>6. ASSUME asked.fn = "cjmp" PROVE KernelJump(f) = <<Bits(asked.dst), Bits(asked.off)>>
      <4>1. /\ n # 5 /\ First.jt = asked.dst /\ First.jf = asked.off
            /\ asked.dst \in 0 .. 255 /\ asked.off \in 0 .. 255
        BY <3>1, <3>6 DEF FilterHolds
      <4>2. \A m \in 0 .. 255 : Uint8(m) = m
        BY DEF Uint8
      <4>3. f.Jt = asked.dst /\ f.Jf = asked.off
        BY <2>4, <4>1, <4>2
      <4> HIDE DEF n
      <4>4. 5 \in 0 .. 255
        OBVIOUS
      <4>5. f.Opcode # Bits(5)
        BY <3>2, <3>3, <4>1, <4>4, ByteBits
      <4> QED  BY <4>3, <4>5 DEF KernelJump
    <3>7. ASSUME asked.fn = "cja" PROVE KernelJump(f) = <<{}, {}>>
      <4>1. n = 5 /\ First.k = 0
        BY <3>1, <3>7 DEF FilterHolds
      <4>2. f.K = {}
        BY <2>4, <4>1, SignBits
      <4>3. f.Opcode = Bits(5)
        BY <3>3, <4>1
      <4> QED  BY <4>2, <4>3 DEF KernelJump
    <3> QED  BY <2>3, <2>5, <3>3, <3>4, <3>5, <3>6, <3>7, Zenon
  <2>6. CASE asked.fn = "crandom"
    <3>1. First \in DrawnFilters
      BY <2>1, <2>6 DEF FilterComesFromRequest
    <3>2. FilterLegal(f)
      <4>1. \/ First \in C!RandomAluInstruction(Draws)
            \/ First \in C!RandomJmpInstruction(JumpDraws, Draws)
            \/ First \in C!RandomStoreInstruction({0, 512}) \cup C!RandomLoadInstruction({0, 64}, {0, 512})
        BY <3>1, ZenonT(40) DEF DrawnFilters
      <4>2. FilterLegal(C!Filter(First))
        <5> HIDE DEF First
        <5> QED  BY <4>1, DrawnAluLegal, DrawnJmpLegal, DrawnMemLegal, ZenonT(40)
      <4> QED  BY <4>2 DEF f
    <3> QED  BY <2>3, <2>6, <3>2, CbpfNumbers, Zenon DEF FilterLegal
  <2> QED  BY <2>5, <2>6
<1> QED  BY <1>1, EncodingInvariant, PTL

--------------------------------------------------------------------------------
(* What the random generators draw is legal *)

\* The class and the operation in a word.
LEMMA ClassField ==
    ASSUME NEW i
    PROVE  /\ Field(EncodeWord(i), 0, 3) = Opcode(i) \cap 0 .. 2
           /\ Field(EncodeWord(i), 4, 4) = Field(Opcode(i), 4, 4)
<1> DEFINE w == EncodeWord(i)
           o == Opcode(i)
<1>1. o \subseteq 0 .. 7 /\ \A b \in 0 .. 7 : b \in w <=> b \in o
  <2>1. \A b \in Int : b \in w <=>
                 \/ b \in 0 .. 7 /\ b \in o
                 \/ b \in 8 .. 11 /\ b - 8 \in Bits(i.dst)
                 \/ b \in 12 .. 15 /\ b - 12 \in Bits(i.src)
                 \/ b \in 16 .. 31 /\ b - 16 \in Bits(i.off)
                 \/ b \in 32 .. 63 /\ b - 32 \in Bits(i.imm)
    BY Parts
  <2> HIDE DEF w, o
  <2>2. o \subseteq 0 .. 7
    BY OpcodeRange DEF o
  <2> QED  BY <2>1, <2>2
<1> HIDE DEF w, o
<1>2. Field(w, 0, 3) = o \cap 0 .. 2
  <2>1. \A c \in 0 .. (3 - 1) : c + 0 \in w <=> c \in o \cap 0 .. 2
    BY <1>1
  <2>2. o \cap 0 .. 2 \in SUBSET (0 .. (3 - 1))
    OBVIOUS
  <2> QED  BY <2>1, <2>2, FieldIs
<1>3. w \cap 4 .. (4 + 4 - 1) = o \cap 4 .. (4 + 4 - 1)
  BY <1>1
<1>4. Field(w, 4, 4) = Field(o, 4, 4)
  BY <1>3, Zenon DEF Field
<1> QED  BY <1>2, <1>4 DEF w, o

\* The class in an opcode.
LEMMA ClassOfSum ==
    ASSUME NEW class \in 0 .. 7, NEW k \in 0 .. 31
    PROVE  Bits(class + 8 * k) \cap 0 .. 2 = Bits(class)
<1> DEFINE n == class + 8 * k
<1>1. n \in Int /\ class \in Int /\ class \in 0 .. 15
  OBVIOUS
<1>2. n % 2 = class % 2 /\ (n \div 2) % 2 = (class \div 2) % 2 /\ (n \div 4) % 2 = (class \div 4) % 2
      /\ (class \div 8) % 2 = 0
  OBVIOUS
<1> HIDE DEF n
<1>3. /\ 0 \in Bits(n) <=> 0 \in Bits(class)
      /\ 1 \in Bits(n) <=> 1 \in Bits(class)
      /\ 2 \in Bits(n) <=> 2 \in Bits(class)
      /\ 3 \notin Bits(class)
  BY <1>1, <1>2, LowBits
<1>4. Bits(class) \subseteq 0 .. 3
  BY <1>1, SmallBits
<1>5. Bits(n) \cap 0 .. 2 = Bits(class)
  BY <1>3, <1>4
<1> QED  BY <1>5 DEF n

\* What RandomInstructionsLegal asks of a word.
Legal(w) ==
    LET class == Field(w, 0, 3)
        shifts == {Field(Bits(AluOps[n]), 4, 4) : n \in {"Lsh", "Rsh", "Arsh"}}
    IN  /\ class \in {Bits(InsClass.Alu), Bits(InsClass.Alu64)} =>
              /\ Dst(w) # Bits(10)
              /\ Field(w, 4, 4) \in shifts /\ 3 \notin Code(w) =>
                    ImmOf(w) \subseteq 0 .. (IF class = Bits(InsClass.Alu) THEN 4 ELSE 5)
        /\ class \in {Bits(InsClass.Jmp), Bits(InsClass.Jmp32)} => Off(w) \in {Bits(1), Bits(2)}
        /\ class \in {Bits(InsClass.Ldx), Bits(InsClass.St), Bits(InsClass.Stx)} =>
              /\ Off(w) \cap Misaligned(Code(w)) = {}
              /\ 9 .. 15 \subseteq Off(w)
              /\ IF class = Bits(InsClass.Ldx) THEN SrcReg(w) = Bits(10) /\ Dst(w) # Bits(10)
                                               ELSE Dst(w) = Bits(10)

\* The shifts are the operations 6, 7 and 12.
LEMMA ShiftFields ==
    {Field(Bits(AluOps[n]), 4, 4) : n \in {"Lsh", "Rsh", "Arsh"}} = {Bits(6), Bits(7), Bits(12)}
<1>1. AluOps["Lsh"] = 0 + 16 * 6 + 0 /\ AluOps["Rsh"] = 0 + 16 * 7 + 0
      /\ AluOps["Arsh"] = 0 + 16 * 12 + 0
  BY DEF AluOps
<1>2. \A k \in 0 .. 15 : Field(Bits(0 + 16 * k + 0), 4, 4) = Bits(k)
  BY OperationField
<1>3. Field(Bits(AluOps["Lsh"]), 4, 4) = Bits(6)
  <2>1. Field(Bits(0 + 16 * 6 + 0), 4, 4) = Bits(6)
    BY <1>2
  <2> QED  BY <1>1, <2>1
<1>4. Field(Bits(AluOps["Rsh"]), 4, 4) = Bits(7)
  <2>1. Field(Bits(0 + 16 * 7 + 0), 4, 4) = Bits(7)
    BY <1>2
  <2> QED  BY <1>1, <2>1
<1>5. Field(Bits(AluOps["Arsh"]), 4, 4) = Bits(12)
  <2>1. Field(Bits(0 + 16 * 12 + 0), 4, 4) = Bits(12)
    BY <1>2
  <2> QED  BY <1>1, <2>1
<1> QED  BY <1>3, <1>4, <1>5, Zenon

LEMMA AluWordLegal ==
    ASSUME NEW i, i.form = "alu", NEW k \in 0 .. 12, i.op = 16 * k, NEW source \in {0, 8},
           i.source = source, NEW class \in {4, 7}, i.class = class, i.dst \in 0 .. 9,
           source = 0 /\ k \in {6, 7, 12} => i.imm \in 0 .. (IF class = 4 THEN 31 ELSE 63)
    PROVE  Legal(EncodeWord(i))
<1> DEFINE w == EncodeWord(i)
<1>0. class \in 0 .. 7 /\ k \in 0 .. 15 /\ class \in 0 .. 15
  OBVIOUS
<1>1. Opcode(i) = Bits(class + 16 * k + source)
  BY <1>0, AluJmpHolds
<1>2. Field(w, 0, 3) = Bits(class)
  <2>1. PICK j \in 0 .. 31 : class + 16 * k + source = class + 8 * j
    <3>1. CASE source = 0
      BY <3>1, 2 * k \in 0 .. 31
    <3>2. CASE source = 8
      BY <3>2, 2 * k + 1 \in 0 .. 31
    <3> QED  BY <3>1, <3>2
  <2>2. Bits(class + 16 * k + source) \cap 0 .. 2 = Bits(class)
    BY <1>0, <2>1, ClassOfSum
  <2> QED  BY <1>1, <2>2, ClassField
<1>3. Field(w, 4, 4) = Bits(k)
  BY <1>0, <1>1, ClassField, OperationField
<1>4. Code(w) = Opcode(i) /\ Dst(w) = Bits(i.dst) \cap 0 .. 3 /\ ImmOf(w) = Bits(i.imm)
  BY FieldsDoNotOverlap DEF Code, Dst, ImmOf
<1> HIDE DEF w
<1>5. Dst(w) # Bits(10)
  <2>1. i.dst \in Int /\ i.dst \in 0 .. 15 /\ i.dst # 10
    OBVIOUS
  <2>2. Bits(i.dst) \subseteq 0 .. 3
    BY <2>1, SmallBits
  <2>3. Bits(i.dst) # Bits(10)
    BY <2>1, FourBits
  <2> QED  BY <1>4, <2>2, <2>3
<1>6. source = 8 => 3 \in Code(w)
  <2> SUFFICES ASSUME source = 8 PROVE 3 \in Code(w)
    OBVIOUS
  <2>1. (class + 16 * k + 8) \in Int /\ ((class + 16 * k + 8) \div 8) % 2 = 1
    OBVIOUS
  <2> QED  BY <1>1, <1>4, <2>1, LowBits
<1>7. ASSUME Field(w, 4, 4) \in {Bits(6), Bits(7), Bits(12)}, 3 \notin Code(w)
      PROVE  ImmOf(w) \subseteq 0 .. (IF class = 4 THEN 4 ELSE 5)
  <2>1. k \in {6, 7, 12}
    BY <1>0, <1>3, <1>7, FourBits
  <2>2. source = 0
    BY <1>6, <1>7
  <2>3. i.imm \in 0 .. (IF class = 4 THEN 31 ELSE 63)
    BY <2>1, <2>2
  <2> QED  BY <1>4, <2>3, SmallBits
<1>8. class = 4 <=> Bits(class) = Bits(4)
  BY <1>0, FourBits
<1>9. Bits(class) \notin {Bits(5), Bits(6), Bits(1), Bits(2), Bits(3)}
  BY <1>0, FourBits
<1>10. Legal(w)
  BY <1>2, <1>5, <1>7, <1>8, <1>9, ShiftFields, Numbers DEF Legal
<1> QED  BY <1>10 DEF w

LEMMA JmpWordLegal ==
    ASSUME NEW i, i.form = "jmp", NEW k \in 0 .. 13, i.op = 16 * k, NEW source \in {0, 8},
           i.source = source, NEW class \in {5, 6}, i.class = class, i.off \in {1, 2}
    PROVE  Legal(EncodeWord(i))
<1> DEFINE w == EncodeWord(i)
<1>0. class \in 0 .. 7 /\ class \in 0 .. 15
  OBVIOUS
<1>1. Opcode(i) = Bits(class + 16 * k + source)
  BY <1>0, AluJmpHolds
<1>2. Field(w, 0, 3) = Bits(class)
  <2>1. PICK j \in 0 .. 31 : class + 16 * k + source = class + 8 * j
    <3>1. CASE source = 0
      BY <3>1, 2 * k \in 0 .. 31
    <3>2. CASE source = 8
      BY <3>2, 2 * k + 1 \in 0 .. 31
    <3> QED  BY <3>1, <3>2
  <2>2. Bits(class + 16 * k + source) \cap 0 .. 2 = Bits(class)
    BY <1>0, <2>1, ClassOfSum
  <2> QED  BY <1>1, <2>2, ClassField
<1>3. Off(w) = Bits(i.off) \cap 0 .. 15
  BY FieldsDoNotOverlap DEF Off
<1>4. Off(w) = Bits(i.off)
  <2>1. i.off \in Int /\ i.off \in 0 .. 15
    OBVIOUS
  <2> QED  BY <1>3, <2>1, SmallBits
<1> HIDE DEF w
<1>5. Bits(class) \notin {Bits(4), Bits(7), Bits(1), Bits(2), Bits(3)}
  BY <1>0, FourBits
<1>6. Legal(w)
  BY <1>2, <1>4, <1>5, Numbers DEF Legal
<1> QED  BY <1>6 DEF w

\* Aligning downwards stays within the 512 bytes below the frame pointer.
LEMMA OffsetsAreAligned ==
    ASSUME NEW s \in 0 .. 3, NEW off \in RandomOffset(8 * s, Draws)
    PROVE  /\ off \in (-512) .. (-1)
           /\ (s = 0 => off % 4 = 0) /\ (s = 1 => off % 2 = 0) /\ (s = 3 => off % 8 = 0)
<1>1. PICK draw \in Draws :
        LET r == Rem(Int16(draw), 512)
            below == IF r > 0 THEN -r ELSE r
        IN  r # 0 /\ off = below - (below % AlignmentForSize(8 * s))
  BY DEF RandomOffset
<1> DEFINE r == Rem(Int16(draw), 512)
           below == IF r > 0 THEN -r ELSE r
<1>2. Int16(draw) \in Int
  BY DrawsAreIntegers DEF Int16
<1>3. r \in (-511) .. 511
  BY <1>2 DEF Rem
<1>4. below \in (-511) .. (-1)
  <2> HIDE DEF r
  <2>1. r # 0
    BY <1>1 DEF r
  <2> QED  BY <1>3, <2>1
<1>5. AlignmentForSize(8 * s) = IF s = 2 THEN 1 ELSE IF s = 1 THEN 2 ELSE IF s = 0 THEN 4 ELSE 8
  BY DEF AlignmentForSize, StLdSize
<1>6. off = below - (below % AlignmentForSize(8 * s))
  BY <1>1
<1> HIDE DEF below
<1>7. CASE s = 0
  BY <1>4, <1>5, <1>6, <1>7
<1>8. CASE s = 1
  BY <1>4, <1>5, <1>6, <1>8
<1>9. CASE s = 2
  BY <1>4, <1>5, <1>6, <1>9
<1>10. CASE s = 3
  BY <1>4, <1>5, <1>6, <1>10
<1> QED  BY <1>7, <1>8, <1>9, <1>10

LEMMA MemWordLegal ==
    ASSUME NEW m \in {3, 6}, NEW s \in 0 .. 3, NEW class \in {1, 2, 3}, NEW dst \in 0 .. 10, NEW src,
           NEW off \in RandomOffset(8 * s, Draws), NEW imm,
           IF class = 1 THEN dst # 10 /\ src = 10 ELSE dst = 10
    PROVE  Legal(EncodeWord(Mem(32 * m, 8 * s, class, dst, src, off, imm, <<>>)))
<1> DEFINE i == Mem(32 * m, 8 * s, class, dst, src, off, imm, <<>>)
           w == EncodeWord(i)
<1>0. class \in 0 .. 7 /\ class \in 0 .. 15 /\ m \in 0 .. 7
  OBVIOUS
<1>1. Opcode(i) = Bits(class + 8 * s + 32 * m) /\ i.dst = dst /\ i.src = src /\ i.off = off
  BY <1>0, MemHolds
<1> HIDE DEF i
<1>2. Field(w, 0, 3) = Bits(class)
  <2>1. s + 4 * m \in 0 .. 31 /\ class + 8 * s + 32 * m = class + 8 * (s + 4 * m)
    OBVIOUS
  <2>2. Bits(class + 8 * s + 32 * m) \cap 0 .. 2 = Bits(class)
    BY <1>0, <2>1, ClassOfSum
  <2> QED  BY <1>1, <2>2, ClassField
<1>3. /\ Code(w) = Opcode(i) /\ Dst(w) = Bits(dst) \cap 0 .. 3 /\ SrcReg(w) = Bits(src) \cap 0 .. 3
      /\ Off(w) = Bits(off) \cap 0 .. 15
  BY <1>1, FieldsDoNotOverlap DEF Code, Dst, SrcReg, Off
<1> HIDE DEF w
<1>4. \A r \in 0 .. 10 : Bits(r) \cap 0 .. 3 = Bits(r)
  <2> TAKE r \in 0 .. 10
  <2>1. r \in Int /\ r \in 0 .. 15
    OBVIOUS
  <2> QED  BY <2>1, SmallBits
<1>5. IF class = 1 THEN SrcReg(w) = Bits(10) /\ Dst(w) # Bits(10) ELSE Dst(w) = Bits(10)
  BY <1>3, <1>4, FourBits, SMTT(30)
<1>6. off \in Int /\ off \in (-512) .. (-1)
      /\ (s = 0 => off % 4 = 0) /\ (s = 1 => off % 2 = 0) /\ (s = 3 => off % 8 = 0)
  BY OffsetsAreAligned
<1>7. 9 .. 15 \subseteq Off(w)
  BY <1>3, <1>6, SmallBits
<1>8. Off(w) \cap Misaligned(Code(w)) = {}
  <2> DEFINE n == class + 8 * s + 32 * m
  <2>1. n \in Int /\ ((n \div 8) % 2 = 1 <=> s \in {1, 3}) /\ ((n \div 16) % 2 = 1 <=> s \in {2, 3})
    OBVIOUS
  <2>2. Code(w) = Bits(n)
    BY <1>1, <1>3
  <2> HIDE DEF n
  <2>3. (3 \in Code(w) <=> s \in {1, 3}) /\ (4 \in Code(w) <=> s \in {2, 3})
    BY <2>1, <2>2, LowBits
  <2>4. /\ (0 \in Bits(off) <=> off % 2 = 1) /\ (1 \in Bits(off) <=> (off \div 2) % 2 = 1)
        /\ (2 \in Bits(off) <=> (off \div 4) % 2 = 1)
    BY <1>6, LowBits
  <2>5. CASE s = 0
    <3>1. Misaligned(Code(w)) = 0 .. 1
      <4>1. Code(w) \cap {3, 4} = {}
        BY <2>3, <2>5
      <4> QED  BY <4>1 DEF Misaligned
    <3>2. off % 2 # 1 /\ (off \div 2) % 2 # 1
      BY <1>6, <2>5
    <3> QED  BY <1>3, <2>4, <3>1, <3>2
  <2>6. CASE s = 1
    <3>1. Misaligned(Code(w)) = {0}
      <4>1. Code(w) \cap {3, 4} = {3}
        BY <2>3, <2>6
      <4> QED  BY <4>1 DEF Misaligned
    <3>2. off % 2 # 1
      BY <1>6, <2>6
    <3> QED  BY <1>3, <2>4, <3>1, <3>2
  <2>7. CASE s = 2
    <3>1. Misaligned(Code(w)) = {}
      <4>1. Code(w) \cap {3, 4} = {4}
        BY <2>3, <2>7
      <4> QED  BY <4>1 DEF Misaligned
    <3> QED  BY <3>1
  <2>8. CASE s = 3
    <3>1. Misaligned(Code(w)) = 0 .. 2
      <4>1. Code(w) \cap {3, 4} = {3, 4}
        BY <2>3, <2>8
      <4> QED  BY <4>1 DEF Misaligned
    <3>2. off % 2 # 1 /\ (off \div 2) % 2 # 1 /\ (off \div 4) % 2 # 1
      BY <1>6, <2>8
    <3> QED  BY <1>3, <2>4, <3>1, <3>2
  <2> QED  BY <2>5, <2>6, <2>7, <2>8
<1>9. class = 1 <=> Bits(class) = Bits(1)
  BY <1>0, FourBits
<1>10. Bits(class) \notin {Bits(4), Bits(5), Bits(6), Bits(7)}
  BY <1>0, FourBits
<1>11. Legal(w)
  BY <1>2, <1>5, <1>7, <1>8, <1>9, <1>10, Numbers DEF Legal
<1> QED  BY <1>11 DEF w, i

\* The registers that are drawn do not include the frame pointer.
LEMMA DrawnRegisters == Registers \ {10} \subseteq 0 .. 9
BY EncodingAssumption

\* An operand that is drawn is a register or an int32.
LEMMA DrawnOperands ==
    /\ \A r : Reg(r).type = "Reg"
    /\ \A v : [Imm(v) EXCEPT !.type = "int32"].type = "int32"
<1>1. \A r : Reg(r).type = "Reg"
  BY DEF Reg
<1>2. ASSUME NEW v PROVE [Imm(v) EXCEPT !.type = "int32"].type = "int32"
  BY DEF Imm
<1> QED  BY <1>1, <1>2

LEMMA RandomAluLegal ==
    ASSUME NEW i \in RandomAluInstruction(Registers \ {10}, Draws)
    PROVE  Legal(EncodeWord(i)) /\ i.pseudo = <<>>
<1>1. CASE i \in {generateImmAluInstruction(op, class, dst, value) :
                     op \in RandomAluOp, class \in {InsClass.Alu, InsClass.Alu64},
                     dst \in Registers \ {10}, value \in Draws}
  <2>1. PICK op \in RandomAluOp, class \in {InsClass.Alu, InsClass.Alu64},
             dst \in Registers \ {10}, value \in Draws : i = generateImmAluInstruction(op, class, dst, value)
    BY <1>1
  <2>2. PICK k \in 0 .. 12 : op = 16 * k
    BY DEF RandomAluOp
  <2>3. class \in {4, 7} /\ dst \in 0 .. 9 /\ value \in Int
    BY Numbers, DrawnRegisters, DrawsAreIntegers
  <2> DEFINE shift == Rem(value, IF class = InsClass.Alu THEN 32 ELSE 64)
             imm == CASE op \in {AluOps.Rsh, AluOps.Lsh, AluOps.Arsh} ->
                             IF shift < 0 THEN -shift ELSE shift
                      [] op = AluOps.Neg -> 0
                      [] OTHER -> value
             src == [Imm(imm) EXCEPT !.type = "int32"]
  <2>4. i = newAluInstruction(op, class, dst, src)
    BY <2>1 DEF generateImmAluInstruction
  <2>5. k \in {6, 7, 12} => imm \in 0 .. (IF class = 4 THEN 31 ELSE 63)
    <3> SUFFICES ASSUME k \in {6, 7, 12} PROVE imm \in 0 .. (IF class = 4 THEN 31 ELSE 63)
      OBVIOUS
    <3>1. AluOps.Rsh = 112 /\ AluOps.Lsh = 96 /\ AluOps.Arsh = 192
      BY DEF AluOps
    <3>2. op \in {AluOps.Rsh, AluOps.Lsh, AluOps.Arsh} /\ op # AluOps.Neg
      BY <2>2, <3>1 DEF AluOps
    <3> DEFINE d == IF class = 4 THEN 32 ELSE 64
    <3>3. shift = Rem(value, d) /\ d \in {32, 64}
      BY Numbers
    <3>4. imm = IF shift < 0 THEN -shift ELSE shift
      BY <3>2
    <3> HIDE DEF shift, imm, d
    <3>5. imm \in 0 .. (d - 1)
      BY <2>3, <3>3, <3>4, Remainders
    <3> QED  BY <3>5 DEF d
  <2> HIDE DEF imm
  <2>6. src.type = "int32" /\ src.lo = imm
    BY DEF Imm
  <2> HIDE DEF src
  <2>7. i = Instruction("alu", op, 0, class, dst, 0, 0, imm, <<>>)
    BY <2>4, <2>6, Numbers DEF newAluInstruction, FromSrc
  <2>8. /\ i.form = "alu" /\ i.op = 16 * k /\ i.source = 0 /\ i.class = class /\ i.dst = dst
        /\ i.imm = imm /\ i.pseudo = <<>>
    BY <2>2, <2>7, InstructionFields
  <2> QED  BY <2>3, <2>5, <2>8, AluWordLegal, ZenonT(40)
<1>2. CASE i \in {generateRegAluInstruction(op, class, dst, src) :
                     op \in RandomAluOp \ {AluOps.Neg}, class \in {InsClass.Alu, InsClass.Alu64},
                     dst \in Registers \ {10}, src \in Registers \ {10}}
  <2>1. PICK op \in RandomAluOp \ {AluOps.Neg}, class \in {InsClass.Alu, InsClass.Alu64},
             dst \in Registers \ {10}, src \in Registers \ {10} :
          i = newAluInstruction(op, class, dst, Reg(src))
    BY <1>2 DEF generateRegAluInstruction
  <2>2. PICK k \in 0 .. 12 : op = 16 * k
    BY DEF RandomAluOp
  <2>3. class \in {4, 7} /\ dst \in 0 .. 9
    BY Numbers, DrawnRegisters
  <2>4. i = Instruction("alu", op, 8, class, dst, src, 0, 0, <<>>)
    BY <2>1, Numbers DEF newAluInstruction, FromSrc, Reg
  <2>5. /\ i.form = "alu" /\ i.op = 16 * k /\ i.source = 8 /\ i.class = class /\ i.dst = dst
        /\ i.pseudo = <<>>
    BY <2>2, <2>4, InstructionFields
  <2> QED  BY <2>3, <2>5, AluWordLegal, SMTT(30)
<1> QED  BY <1>1, <1>2 DEF RandomAluInstruction

LEMMA RandomJmpLegal ==
    ASSUME NEW i \in RandomJmpInstruction(2, Registers \ {10}, Draws)
    PROVE  Legal(EncodeWord(i)) /\ i.pseudo = <<>>
<1>1. PICK op \in RandomJumpOp, class \in {InsClass.Jmp, InsClass.Jmp32}, dst \in Registers \ {10},
           src \in {Reg(r) : r \in Registers \ {10}} \cup {[Imm(v) EXCEPT !.type = "int32"] : v \in Draws},
           off \in 1 .. 2 : i = newJmpInstruction(op, class, dst, src, Int16(off))
  BY DEF RandomJmpInstruction
<1>2. PICK k \in 0 .. 13 : op = 16 * k
  BY DEF RandomJumpOp
<1>3. class \in {5, 6} /\ Int16(off) \in {1, 2}
  BY Numbers DEF Int16
<1>4. src.type \in {"Reg", "int32"}
  BY DrawnOperands
<1>5. \/ i = Instruction("jmp", op, 8, class, dst, src.lo, Int16(off), 0, <<>>)
      \/ i = Instruction("jmp", op, 0, class, dst, 0, Int16(off), src.lo, <<>>)
  BY <1>1, <1>4, Numbers DEF newJmpInstruction, FromSrc
<1>6. /\ i.form = "jmp" /\ i.op = 16 * k /\ i.source \in {0, 8} /\ i.class = class
      /\ i.off \in {1, 2} /\ i.pseudo = <<>>
  BY <1>2, <1>3, <1>5, InstructionFields
<1> QED  BY <1>3, <1>6, JmpWordLegal

LEMMA RandomMemLegal ==
    ASSUME NEW i \in RandomMemInstruction(Registers \ {10}, Draws)
    PROVE  Legal(EncodeWord(i)) /\ i.pseudo = <<>>
<1> DEFINE IsMem(m, s, class, dst, src, off, imm) ==
               i = Mem(32 * m, 8 * s, class, dst, src, off, imm, <<>>)
<1>0. StLdMode.MEM = 32 * 3 /\ StLdMode.ATOMIC = 32 * 6 /\ StLdSize.W = 8 * 0 /\ StLdSize.DW = 8 * 3
  BY DEF StLdMode, StLdSize
<1>1. ASSUME NEW m \in {3, 6}, NEW s \in 0 .. 3, NEW class \in {1, 2, 3}, NEW dst \in 0 .. 10, NEW src,
             NEW off \in RandomOffset(8 * s, Draws), NEW imm,
             IF class = 1 THEN dst # 10 /\ src = 10 ELSE dst = 10,
             IsMem(m, s, class, dst, src, off, imm)
      PROVE  Legal(EncodeWord(i)) /\ i.pseudo = <<>>
  <2>1. Legal(EncodeWord(Mem(32 * m, 8 * s, class, dst, src, off, imm, <<>>)))
    BY <1>1, MemWordLegal
  <2>2. i.pseudo = <<>>
    BY <1>1, InstructionFields DEF Mem
  <2> QED  BY <1>1, <2>1, <2>2
<1>2. CASE i \in RandomStoreInstruction(Registers \ {10}, Draws)
  <2> DEFINE srcs == {Reg(r) : r \in Registers \ {10}}
                         \cup {[Imm(v) EXCEPT !.type = "int32"] : v \in Draws}
  <2>0. PICK size \in RandomSize :
          \E src \in srcs, off \in RandomOffset(size, Draws) : i = newStoreOperation(size, 10, src, off)
    BY <1>2 DEF RandomStoreInstruction
  <2>1. PICK src \in srcs, off \in RandomOffset(size, Draws) : i = newStoreOperation(size, 10, src, off)
    BY <2>0
  <2>2. PICK s \in 0 .. 3 : size = 8 * s
    BY DEF RandomSize
  <2>3. src.type \in {"Reg", "int32"}
    BY DrawnOperands
  <2>4. \/ IsMem(3, s, 3, 10, src.lo, off, 0)
        \/ IsMem(3, s, 2, 10, 0, off, src.lo)
    BY <1>0, <2>1, <2>2, <2>3, Numbers DEF newStoreOperation, FromSrc
  <2>5. off \in RandomOffset(8 * s, Draws)
    BY <2>2
  <2> HIDE DEF IsMem
  <2>6. CASE IsMem(3, s, 3, 10, src.lo, off, 0)
    BY <1>1, <2>5, <2>6
  <2>7. CASE IsMem(3, s, 2, 10, 0, off, src.lo)
    BY <1>1, <2>5, <2>7
  <2> QED  BY <2>4, <2>6, <2>7
<1>3. CASE i \in RandomLoadInstruction(Registers \ {10}, Draws)
  <2>0. PICK size \in RandomSize :
          \E dst \in Registers \ {10}, off \in RandomOffset(size, Draws) :
              i = newLoadOperation(size, dst, 10, off)
    BY <1>3 DEF RandomLoadInstruction
  <2>1. PICK dst \in Registers \ {10}, off \in RandomOffset(size, Draws) :
          i = newLoadOperation(size, dst, 10, off)
    BY <2>0
  <2>2. PICK s \in 0 .. 3 : size = 8 * s
    BY DEF RandomSize
  <2>3. IsMem(3, s, 1, dst, 10, off, 0) /\ off \in RandomOffset(8 * s, Draws)
    BY <1>0, <2>1, <2>2, Numbers DEF newLoadOperation
  <2>4. dst \in 0 .. 10 /\ dst # 10
    BY DrawnRegisters
  <2> HIDE DEF IsMem
  <2> QED  BY <1>1, <2>3, <2>4
<1>4. CASE i \in RandomAtomicInstruction(Registers \ {10}, Draws)
  <2>0. PICK size \in {StLdSize.W, StLdSize.DW} :
          \E src \in Registers \ {10}, name \in AtomicOps, off \in RandomOffset(size, Draws) :
              i = newAtomicInstruction(10, src, size, off, AluOps[name])
    BY <1>4 DEF RandomAtomicInstruction
  <2>1. PICK src \in Registers \ {10}, name \in AtomicOps, off \in RandomOffset(size, Draws) :
          i = newAtomicInstruction(10, src, size, off, AluOps[name])
    BY <2>0
  <2>2. PICK s \in 0 .. 3 : size = 8 * s
    BY <1>0
  <2>3. IsMem(6, s, 3, 10, src, off, AluOps[name]) /\ off \in RandomOffset(8 * s, Draws)
    BY <1>0, <2>1, <2>2, Numbers DEF newAtomicInstruction
  <2> HIDE DEF IsMem
  <2> QED  BY <1>1, <2>3
<1> QED  BY <1>2, <1>3, <1>4 DEF RandomMemInstruction

\* What the random generators draw takes one slot, shifts by less than the width,
\* jumps over one or two instructions and touches aligned words of the stack only, for
\* every result of the random source.
THEOREM DrawnInstructionsAreLegal == Spec => []RandomInstructionsLegal
<1>1. EInv => RandomInstructionsLegal
  <2> SUFFICES ASSUME EInv, Program, asked.fn = "random"
               PROVE  Len(prog_buff) = 2 /\ Legal(prog_buff[1])
    BY Zenon DEF RandomInstructionsLegal, Legal
  <2>1. ComesFromRequest /\ EncodedSoFar /\ fn = 2
    BY DEF EInv, Program
  <2>2. First \in Drawn /\ prog_buff = BothWords
    BY <2>1 DEF ComesFromRequest, EncodedSoFar, Constructors
  <2>3. Legal(EncodeWord(First)) /\ First.pseudo = <<>>
    <3> HIDE DEF First
    <3> QED  BY <2>2, RandomAluLegal, RandomJmpLegal, RandomMemLegal DEF Drawn
  <2>4. prog_buff[1] = EncodeWord(First) /\ Len(prog_buff) = 2 + Len(First.pseudo)
    BY <2>2, <2>3, FinishedWords
  <2> QED  BY <2>3, <2>4
<1> QED  BY <1>1, EncodingInvariant, PTL

====================================================================================
