----------------------------- MODULE LoopProgramProofs -----------------------------
(***************************************************************************)
(* The kernel stays in step with every program, of whatever length, and      *)
(* finds the functions and the types of the loop program.                     *)
(***************************************************************************)
EXTENDS ProgramEncodingProofs, FiniteSetTheorems, NaturalsInduction, WellFoundedInduction

--------------------------------------------------------------------------------
(* The kernel's way through a buffer *)

\* S are the places at which a reader of the buffer finds an instruction: the first,
\* and every one that is not the second slot of an instruction.
Reads(buff, S) ==
    /\ S \subseteq 1 .. Len(buff)
    /\ \A p \in 1 .. Len(buff) :
          p \in S <=> p = 1 \/ ~(Code(buff[p - 1]) = LdDwImm /\ p - 1 \in S)

\* The last instruction has both its slots if it takes two.
Complete(buff, S) == ~(Len(buff) \in S /\ Code(buff[Len(buff)]) = LdDwImm)

\* A set of numbers has a least one.
LEMMA LeastNumber ==
    ASSUME NEW S \in SUBSET Nat, S # {}
    PROVE  \E i \in S : \A j \in S : i <= j
<1> DEFINE less == OpToRel(<, Nat)
<1>1. IsWellFoundedOn(less, Nat)
  BY NatLessThanWellFounded
<1>2. \A i, j \in Nat : <<i, j>> \in less <=> i < j
  BY DEF OpToRel
<1> HIDE DEF less
<1>3. PICK i \in S : \A j \in S : ~(<<j, i>> \in less)
  BY <1>1, WFMin
<1>4. \A j \in S : ~(j < i)
  BY <1>2, <1>3
<1> QED  BY <1>4

\* There is one way to read a buffer: at the least place where two readings differ
\* they would agree on the place before it.
LEMMA OneReading ==
    ASSUME NEW buff, Len(buff) \in Nat, NEW S, NEW T, Reads(buff, S), Reads(buff, T)
    PROVE  S = T
<1> DEFINE differ == {p \in 1 .. Len(buff) : ~(p \in S <=> p \in T)}
<1>1. differ = {} => S = T
  BY DEF Reads
<1>2. ASSUME differ # {} PROVE FALSE
  <2>1. PICK p \in differ : \A q \in differ : p <= q
    BY <1>2, differ \in SUBSET Nat, LeastNumber, Zenon
  <2>2. p \in 1 .. Len(buff) /\ p # 1
    BY <2>1 DEF Reads
  <2>3. p - 1 \in 1 .. Len(buff) /\ ~(p <= p - 1)
    BY <2>2
  <2>4. p - 1 \in S <=> p - 1 \in T
    BY <2>1, <2>3
  <2> QED  BY <2>1, <2>2, <2>4, Zenon DEF Reads
<1> QED  BY <1>1, <1>2

\* The kernel's reader is the reader.
LEMMA StartsAre ==
    ASSUME Len(prog_buff) \in Nat, NEW S, Reads(prog_buff, S)
    PROVE  Starts = S
<1> DEFINE P == 1 .. Len(prog_buff)
           Body(g) == [p \in P |-> p = 1 \/ (IF p > 1 /\ Code(prog_buff[p - 1]) = LdDwImm /\ g[p - 1]
                                           THEN FALSE ELSE TRUE)]
           f == CHOOSE g : g = Body(g)
           h == [p \in P |-> IF p \in S THEN TRUE ELSE FALSE]
<1>1. h = Body(h)
  <2>1. ASSUME NEW p \in P
        PROVE  h[p] = (p = 1 \/ (IF p > 1 /\ Code(prog_buff[p - 1]) = LdDwImm /\ h[p - 1]
                                 THEN FALSE ELSE TRUE))
    <3>1. p \in S <=> p = 1 \/ ~(Code(prog_buff[p - 1]) = LdDwImm /\ p - 1 \in S)
      BY DEF Reads
    <3>2. p = 1 \/ (p # 1 /\ p > 1 /\ p - 1 \in P)
      OBVIOUS
    <3>3. h[p] = IF p \in S THEN TRUE ELSE FALSE
      OBVIOUS
    <3>4. p > 1 /\ p - 1 \in P => h[p - 1] = IF p - 1 \in S THEN TRUE ELSE FALSE
      OBVIOUS
    <3> HIDE DEF h, P
    <3>5. CASE p = 1
      BY <3>1, <3>3, <3>5, Zenon
    <3>6. CASE p # 1 /\ p > 1 /\ p - 1 \in P
      <4>1. CASE p \in S
        <5>1. h[p] = TRUE /\ ~(Code(prog_buff[p - 1]) = LdDwImm /\ h[p - 1])
          BY <3>1, <3>3, <3>4, <3>6, <4>1, Zenon
        <5> QED  BY <5>1, Zenon
      <4>2. CASE p \notin S
        <5>1. h[p] = FALSE /\ Code(prog_buff[p - 1]) = LdDwImm /\ h[p - 1]
          BY <3>1, <3>3, <3>4, <3>6, <4>2, Zenon
        <5> QED  BY <3>6, <5>1, Zenon
      <4> QED  BY <4>1, <4>2
    <3> QED  BY <3>2, <3>5, <3>6
  <2> HIDE DEF h
  <2>2. Body(h) = [p \in P |-> h[p]]
    BY <2>1, Zenon
  <2>3. h = [p \in P |-> h[p]]
    BY DEF h
  <2> QED  BY <2>2, <2>3
<1> HIDE DEF h
<1>2. f = Body(f)
  BY <1>1, Zenon
<1>3. Starts = {p \in P : f[p]}
  BY DEF Starts
<1> DEFINE T == {p \in P : f[p]}
<1>4. Reads(prog_buff, T)
  <2> HIDE DEF f
  <2>1. \A p \in P : f[p] = (p = 1 \/ (IF p > 1 /\ Code(prog_buff[p - 1]) = LdDwImm /\ f[p - 1]
                                        THEN FALSE ELSE TRUE))
    BY <1>2, Zenon
  <2>2. ASSUME NEW p \in P PROVE p \in T <=> p = 1 \/ ~(Code(prog_buff[p - 1]) = LdDwImm /\ p - 1 \in T)
    <3>1. p = 1 \/ (p # 1 /\ p > 1 /\ p - 1 \in P)
      OBVIOUS
    <3>2. f[p] = (p = 1 \/ (IF p > 1 /\ Code(prog_buff[p - 1]) = LdDwImm /\ f[p - 1]
                            THEN FALSE ELSE TRUE))
      BY <2>1, Zenon
    <3>3. p \in T <=> f[p]
      OBVIOUS
    <3>4. p - 1 \in P => (p - 1 \in T <=> f[p - 1])
      OBVIOUS
    <3> HIDE DEF T, P
    <3>5. CASE p = 1
      BY <3>2, <3>3, <3>5, Zenon
    <3>6. CASE p # 1 /\ p > 1 /\ p - 1 \in P
      BY <3>2, <3>3, <3>4, <3>6, Zenon
    <3> QED  BY <3>1, <3>5, <3>6
  <2> QED  BY <2>2 DEF Reads
<1> QED  BY <1>3, <1>4, OneReading, Zenon

--------------------------------------------------------------------------------
(* One more instruction *)

\* An instruction has a second slot exactly if its opcode announces one.
OneSlot(i)    == i.pseudo = <<>> /\ Opcode(i) # LdDwImm
TwoSlots(i)   == \E n : i.pseudo = <<n>> /\ Opcode(i) = LdDwImm
WellFormed(i) == OneSlot(i) \/ TwoSlots(i)

\* The kernel reads an opcode as it was encoded.
LEMMA CodeOfWord == \A i : Code(EncodeWord(i)) = Opcode(i)
BY FieldsDoNotOverlap DEF Code

\* The words that encodeInstruction appends.
LEMMA WordsOf ==
    ASSUME NEW i, WellFormed(i)
    PROVE  LET e == encodeInstruction(i)
           IN  /\ e \in Seq(Words) /\ Len(e) = IF OneSlot(i) THEN 1 ELSE 2
               /\ e[1] = EncodeWord(i) /\ Code(e[1]) = Opcode(i)
<1>1. CASE OneSlot(i)
  <2>1. i.pseudo = <<>> /\ Len(i.pseudo) = 0
    BY <1>1 DEF OneSlot
  <2>2. /\ encodeInstruction(i) \in Seq(Words)
        /\ Len(encodeInstruction(i)) = 1 + Len(i.pseudo)
        /\ encodeInstruction(i)[1] = EncodeWord(i)
    BY <2>1, EncodeShape
  <2> QED  BY <1>1, <2>1, <2>2, CodeOfWord
<1>2. CASE ~OneSlot(i)
  <2>1. PICK n : i.pseudo = <<n>>
    BY <1>2 DEF WellFormed, TwoSlots
  <2>2. /\ encodeInstruction(i) \in Seq(Words)
        /\ Len(encodeInstruction(i)) = 1 + Len(i.pseudo)
        /\ encodeInstruction(i)[1] = EncodeWord(i)
    BY <2>1, EncodeShape
  <2>3. Len(i.pseudo) = 1
    BY <2>1
  <2> QED  BY <1>2, <2>2, <2>3, CodeOfWord
<1> QED  BY <1>1, <1>2

\* A reader that has come to the end of a buffer finds the next instruction behind
\* it, and then the end of the longer buffer.
LEMMA ReadsOneMore ==
    ASSUME NEW buff \in Seq(Words), NEW S, Reads(buff, S), Complete(buff, S), NEW i, WellFormed(i)
    PROVE  LET more == buff \o encodeInstruction(i)
               all  == S \cup {Len(buff) + 1}
           IN  /\ more \in Seq(Words) /\ Reads(more, all) /\ Complete(more, all)
               /\ IsFiniteSet(S) /\ Cardinality(S) \in Nat /\ Cardinality(all) = Cardinality(S) + 1
               /\ Len(more) = Len(buff) + (IF OneSlot(i) THEN 1 ELSE 2)
               /\ more[Len(buff) + 1] = EncodeWord(i)
               /\ \A p \in 1 .. Len(buff) : more[p] = buff[p]
<1> DEFINE e == encodeInstruction(i)
           more == buff \o e
           all  == S \cup {Len(buff) + 1}
           n == Len(buff)
<1>1. /\ e \in Seq(Words) /\ Len(e) = IF OneSlot(i) THEN 1 ELSE 2
      /\ e[1] = EncodeWord(i) /\ Code(e[1]) = Opcode(i)
  BY WordsOf
<1> HIDE DEF e
<1>2. /\ more \in Seq(Words) /\ Len(more) = n + Len(e)
      /\ \A p \in 1 .. n + Len(e) : more[p] = IF p <= n THEN buff[p] ELSE e[p - n]
  BY <1>1, ConcatProperties
<1>3. n \in Nat /\ Len(e) \in {1, 2} /\ S \subseteq 1 .. n
  BY <1>1 DEF Reads
<1> HIDE DEF more, n
<1>4. (\A p \in 1 .. n : more[p] = buff[p]) /\ more[n + 1] = e[1]
  <2>1. \A p \in 1 .. n : p \in 1 .. n + Len(e) /\ p <= n
    BY <1>3
  <2>2. n + 1 \in 1 .. n + Len(e) /\ ~(n + 1 <= n) /\ (n + 1) - n = 1
    BY <1>3
  <2> QED  BY <1>2, <2>1, <2>2, Zenon
<1>5. n = 0 \/ (n \in 1 .. n /\ ~(n \in S /\ Code(buff[n]) = LdDwImm))
  BY <1>3 DEF Complete, n
<1>6. Len(e) = 2 => Opcode(i) = LdDwImm
  BY <1>1 DEF WellFormed, TwoSlots
<1>7. Len(e) = 1 => Opcode(i) # LdDwImm
  BY <1>1 DEF OneSlot
<1> HIDE DEF all
<1>8. Reads(more, all)
  <2>1. all \subseteq 1 .. Len(more)
    <3>0. n \in Nat /\ (Len(more) = n + 1 \/ Len(more) = n + 2)
      BY <1>2, <1>3
    <3>1. n + 1 \in 1 .. Len(more)
      BY <3>0
    <3>2. \A p \in 1 .. n : p \in 1 .. Len(more)
      BY <3>0
    <3> QED  BY <1>3, <3>1, <3>2 DEF all, n
  <2>2. ASSUME NEW p \in 1 .. Len(more)
        PROVE  p \in all <=> p = 1 \/ ~(Code(more[p - 1]) = LdDwImm /\ p - 1 \in all)
    <3>1. CASE p \in 1 .. n
      <4>1. p \in S <=> p = 1 \/ ~(Code(buff[p - 1]) = LdDwImm /\ p - 1 \in S)
        BY <3>1 DEF Reads, n
      <4>2. p # 1 => p - 1 \in 1 .. n
        BY <1>3, <3>1
      <4>3. p # 1 => more[p - 1] = buff[p - 1] /\ (p - 1 \in all <=> p - 1 \in S)
        BY <1>3, <1>4, <4>2 DEF all, n
      <4>4. p \in all <=> p \in S
        BY <1>3, <3>1 DEF all, n
      <4> QED  BY <4>1, <4>3, <4>4, Zenon
    <3>2. CASE p = n + 1
      <4>1. p \in all
        BY <3>2 DEF all, n
      <4>2. n # 0 => more[p - 1] = buff[n] /\ p - 1 = n /\ (p - 1 \in all <=> n \in S)
        BY <1>3, <1>4, <1>5, <3>2 DEF all, n
      <4>3. n = 0 => p = 1
        BY <3>2
      <4> QED  BY <1>5, <4>1, <4>2, <4>3, Zenon
    <3>3. CASE p = n + 2
      <4>1. Len(e) = 2
        BY <1>1, <1>2, <1>3, <3>3
      <4>2. p \notin all /\ p # 1 /\ p - 1 = n + 1 /\ p - 1 \in all
        BY <1>3, <3>3 DEF all, n
      <4>3. Code(more[p - 1]) = LdDwImm
        BY <1>1, <1>4, <1>6, <4>1, <4>2
      <4> QED  BY <4>2, <4>3
    <3> QED  BY <1>2, <1>3, <3>1, <3>2, <3>3
  <2> QED  BY <2>1, <2>2 DEF Reads
<1>9. Complete(more, all)
  <2>1. CASE Len(e) = 1
    <3>1. Len(more) = n + 1
      BY <1>2, <2>1
    <3>2. Code(more[Len(more)]) # LdDwImm
      BY <1>1, <1>4, <1>7, <2>1, <3>1
    <3> QED  BY <3>2 DEF Complete
  <2>2. CASE Len(e) = 2
    <3>1. Len(more) = n + 2 /\ n + 2 \notin all
      BY <1>2, <1>3, <2>2 DEF all, n
    <3> QED  BY <3>1 DEF Complete
  <2> QED  BY <1>3, <2>1, <2>2
<1>10. IsFiniteSet(S) /\ Cardinality(S) \in Nat /\ Cardinality(all) = Cardinality(S) + 1
  <2>1. IsFiniteSet(1 .. n)
    BY <1>3, FS_Interval
  <2>2. IsFiniteSet(S)
    BY <1>3, <2>1, FS_Subset
  <2>3. n + 1 \notin S
    BY <1>3
  <2> QED  BY <2>2, <2>3, FS_AddElement, FS_CardinalityType DEF all, n
<1> QED  BY <1>1, <1>2, <1>4, <1>8, <1>9, <1>10, Zenon DEF more, all, n, e

--------------------------------------------------------------------------------
(* What the constructors return is well formed *)

\* No class but that of loads of constants is 0 modulo 8, as 24 is.
LEMMA OtherOpcodes ==
    ASSUME NEW n \in Int, n % 8 # 0
    PROVE  Bits(n) # LdDwImm
<1>1. n % 2 = 1 \/ (n \div 2) % 2 = 1 \/ (n \div 4) % 2 = 1
  OBVIOUS
<1>2. 0 \in Bits(n) \/ 1 \in Bits(n) \/ 2 \in Bits(n)
  BY <1>1, LowBits
<1>3. 24 % 2 # 1 /\ (24 \div 2) % 2 # 1 /\ (24 \div 4) % 2 # 1
  OBVIOUS
<1>4. 0 \notin Bits(24) /\ 1 \notin Bits(24) /\ 2 \notin Bits(24)
  BY <1>3, LowBits
<1> QED  BY <1>2, <1>4 DEF LdDwImm

LEMMA AluJmpOneSlot ==
    ASSUME NEW form \in {"alu", "jmp"}, NEW k \in 0 .. 13, NEW source \in {0, 8}, NEW class \in 4 .. 7,
           NEW dst, NEW src, NEW off, NEW imm
    PROVE  OneSlot(Instruction(form, 16 * k, source, class, dst, src, off, imm, <<>>))
<1> DEFINE i == Instruction(form, 16 * k, source, class, dst, src, off, imm, <<>>)
<1>1. i.form = form /\ i.op = 16 * k /\ i.source = source /\ i.class = class /\ i.pseudo = <<>>
  BY InstructionFields
<1> HIDE DEF i
<1>2. class \in 0 .. 7 /\ k \in 0 .. 15 /\ i.form # "mem"
  BY <1>1
<1>3. Opcode(i) = Bits(class + 16 * k + source)
  <2>1. Opcode(i) = encodeAluJmpOpcode(16 * k, class, source)
    BY <1>1, <1>2, Zenon DEF Opcode
  <2> QED  BY <1>2, <2>1, AluJmpSum
<1>4. class + 16 * k + source \in Int /\ (class + 16 * k + source) % 8 # 0
  OBVIOUS
<1>5. OneSlot(i)
  BY <1>1, <1>3, <1>4, OtherOpcodes DEF OneSlot
<1> QED  BY <1>5 DEF i

LEMMA MemOneSlot ==
    ASSUME NEW m \in 0 .. 7, NEW s \in 0 .. 3, NEW class \in 1 .. 3,
           NEW dst, NEW src, NEW off, NEW imm
    PROVE  OneSlot(Mem(32 * m, 8 * s, class, dst, src, off, imm, <<>>))
<1> DEFINE i == Mem(32 * m, 8 * s, class, dst, src, off, imm, <<>>)
<1>1. class \in 0 .. 7
  OBVIOUS
<1>2. Opcode(i) = Bits(class + 8 * s + 32 * m) /\ i.pseudo = <<>>
  BY <1>1, MemHolds
<1> HIDE DEF i
<1>3. class + 8 * s + 32 * m \in Int /\ (class + 8 * s + 32 * m) % 8 # 0
  OBVIOUS
<1>4. OneSlot(i)
  BY <1>2, <1>3, OtherOpcodes DEF OneSlot
<1> QED  BY <1>4 DEF i

LEMMA LoadTwoSlots ==
    ASSUME NEW dst, NEW src, NEW imm, NEW n
    PROVE  TwoSlots(Mem(0, 24, 0, dst, src, 0, imm, <<n>>))
<1> DEFINE i == Mem(32 * 0, 8 * 3, 0, dst, src, 0, imm, <<n>>)
<1>1. Opcode(i) = Bits(0 + 8 * 3 + 32 * 0) /\ i.pseudo = <<n>>
  BY MemHolds
<1>2. 0 + 8 * 3 + 32 * 0 = 24 /\ 32 * 0 = 0 /\ 8 * 3 = 24
  OBVIOUS
<1>3. i = Mem(0, 24, 0, dst, src, 0, imm, <<n>>)
  BY <1>2
<1> HIDE DEF i
<1>4. TwoSlots(i)
  BY <1>1, <1>2 DEF TwoSlots, LdDwImm
<1> QED  BY <1>3, <1>4

LEMMA PanicsOneSlot == OneSlot(Panics)
<1>1. Panics.form # "mem" /\ Panics.op = 0 /\ Panics.source = 0 /\ Panics.class = 0
      /\ Panics.pseudo = <<>>
  BY DEF Panics, Instruction
<1>2. Opcode(Panics) = encodeAluJmpOpcode(16 * 0, 0, 0)
  <2>1. 16 * 0 = 0
    OBVIOUS
  <2> QED  BY <1>1, <2>1, Zenon DEF Opcode
<1>3. encodeAluJmpOpcode(16 * 0, 0, 0) = Bits(0 + 16 * 0 + 0)
  BY AluJmpSum
<1>4. Opcode(Panics) = Bits(0)
  BY <1>2, <1>3
<1>5. 3 \in Bits(24)
  <2>1. (24 \div 8) % 2 = 1
    OBVIOUS
  <2> QED  BY <2>1, LowBits
<1> QED  BY <1>1, <1>4, <1>5, SignBits DEF OneSlot, LdDwImm

\* The type switch takes any operand to an instruction of one slot.
LEMMA FromSrcOneSlot ==
    ASSUME NEW src, NEW fromReg, NEW fromImm, OneSlot(fromReg), OneSlot(fromImm)
    PROVE  OneSlot(FromSrc(src, fromReg, fromImm))
<1>1. FromSrc(src, fromReg, fromImm) \in {fromReg, fromImm, Panics}
  BY DEF FromSrc
<1> QED  BY <1>1, PanicsOneSlot

LEMMA AluWellFormed ==
    ASSUME NEW k \in 0 .. 13, NEW class \in {4, 7}, NEW dst, NEW src
    PROVE  LET i == newAluInstruction(16 * k, class, dst, src)
           IN  WellFormed(i) /\ (src.type # "int64" => OneSlot(i))
<1> DEFINE i == newAluInstruction(16 * k, class, dst, src)
<1>0. class \in 4 .. 7 /\ StLdMode.IMM = 0 /\ StLdSize.DW = 24 /\ InsClass.Ld = 0
      /\ SrcOperand.RegSrc = 8 /\ SrcOperand.Immediate = 0
  BY Numbers
<1> DEFINE fromReg == Instruction("alu", 16 * k, SrcOperand.RegSrc, class, dst, src.lo, 0, 0, <<>>)
           fromImm == Instruction("alu", 16 * k, SrcOperand.Immediate, class, dst, 0, 0, src.lo, <<>>)
<1>1. OneSlot(fromReg) /\ OneSlot(fromImm)
  BY <1>0, AluJmpOneSlot
<1> HIDE DEF fromReg, fromImm
<1>2. OneSlot(FromSrc(src, fromReg, fromImm))
  BY <1>1, FromSrcOneSlot
<1>3. CASE src.type = "int64" /\ 16 * k = AluOps.Mov
  <2>1. i = Mem(0, 24, 0, dst, 0, 0, src.lo, <<src.hi>>)
    BY <1>0, <1>3 DEF newAluInstruction
  <2> QED  BY <1>3, <2>1, LoadTwoSlots DEF WellFormed
<1>4. CASE ~(src.type = "int64" /\ 16 * k = AluOps.Mov)
  <2>1. i = FromSrc(src, fromReg, fromImm)
    BY <1>4, Zenon DEF newAluInstruction, fromReg, fromImm
  <2> QED  BY <1>2, <2>1 DEF WellFormed
<1> QED  BY <1>3, <1>4

LEMMA JmpOneSlot ==
    ASSUME NEW k \in 0 .. 13, NEW class \in {5, 6}, NEW dst, NEW src, NEW off
    PROVE  OneSlot(newJmpInstruction(16 * k, class, dst, src, off))
<1>0. class \in 4 .. 7 /\ SrcOperand.RegSrc = 8 /\ SrcOperand.Immediate = 0
  BY Numbers
<1> DEFINE fromReg == Instruction("jmp", 16 * k, SrcOperand.RegSrc, class, dst, src.lo, off, 0, <<>>)
           fromImm == Instruction("jmp", 16 * k, SrcOperand.Immediate, class, dst, 0, off, src.lo, <<>>)
<1>1. OneSlot(fromReg) /\ OneSlot(fromImm)
  BY <1>0, AluJmpOneSlot
<1> HIDE DEF fromReg, fromImm
<1>2. OneSlot(FromSrc(src, fromReg, fromImm))
  BY <1>1, FromSrcOneSlot
<1> QED  BY <1>2, Zenon DEF newJmpInstruction, fromReg, fromImm

LEMMA StoreOneSlot ==
    ASSUME NEW s \in 0 .. 3, NEW dst, NEW src, NEW off
    PROVE  OneSlot(newStoreOperation(8 * s, dst, src, off))
<1>0. StLdMode.MEM = 32 * 3 /\ InsClass.Stx = 3 /\ InsClass.St = 2
  BY Numbers
<1> DEFINE fromReg == Mem(StLdMode.MEM, 8 * s, InsClass.Stx, dst, src.lo, off, 0, <<>>)
           fromImm == Mem(StLdMode.MEM, 8 * s, InsClass.St, dst, 0, off, src.lo, <<>>)
<1>1. OneSlot(fromReg) /\ OneSlot(fromImm)
  BY <1>0, MemOneSlot
<1> HIDE DEF fromReg, fromImm
<1>2. OneSlot(FromSrc(src, fromReg, fromImm))
  BY <1>1, FromSrcOneSlot
<1> QED  BY <1>2, Zenon DEF newStoreOperation, fromReg, fromImm

LEMMA LoadOneSlot ==
    ASSUME NEW s \in 0 .. 3, NEW dst, NEW src, NEW off, NEW op
    PROVE  /\ OneSlot(newLoadOperation(8 * s, dst, src, off))
           /\ OneSlot(newAtomicInstruction(dst, src, 8 * s, off, op))
<1>1. StLdMode.MEM = 32 * 3 /\ StLdMode.ATOMIC = 32 * 6 /\ InsClass.Stx = 3 /\ InsClass.Ldx = 1
  BY Numbers
<1>2. OneSlot(Mem(32 * 3, 8 * s, 1, dst, src, off, 0, <<>>))
  BY MemOneSlot
<1>3. OneSlot(Mem(32 * 6, 8 * s, 3, dst, src, off, op, <<>>))
  BY MemOneSlot
<1> QED  BY <1>1, <1>2, <1>3 DEF newLoadOperation, newAtomicInstruction

\* An operand that 32 bits can hold.
Narrow(src) == FitsInt32(src) /\ src.type # "int64"

LEMMA NarrowOperands == (\A r \in 0 .. 10 : Narrow(Reg(r))) /\ (\A n : Narrow(Imm(n)))
BY DEF Narrow, FitsInt32, Reg, Imm, Sign

LEMMA Mov64WellFormed ==
    ASSUME NEW dst, NEW src
    PROVE  WellFormed(Mov64(dst, src)) /\ (Narrow(src) => OneSlot(Mov64(dst, src)))
<1> DEFINE wide == IF FitsInt32(src) THEN src ELSE [src EXCEPT !.type = "int64"]
<1>1. AluOps.Mov = 16 * 11 /\ InsClass.Alu64 = 7
  BY Numbers
<1>2. Mov64(dst, src) = newAluInstruction(16 * 11, 7, dst, wide)
  BY <1>1 DEF Mov64
<1>3. Narrow(src) => wide = src /\ src.type # "int64"
  BY DEF Narrow
<1> HIDE DEF wide
<1>4. /\ WellFormed(newAluInstruction(16 * 11, 7, dst, wide))
      /\ wide.type # "int64" => OneSlot(newAluInstruction(16 * 11, 7, dst, wide))
  BY AluWellFormed
<1> QED  BY <1>2, <1>3, <1>4

LEMMA NamedAluWellFormed ==
    ASSUME NEW name \in DOMAIN AluOps, NEW class \in {4, 7}, NEW dst, NEW src
    PROVE  WellFormed(Alu(name, class, dst, src)) /\ (Narrow(src) => OneSlot(Alu(name, class, dst, src)))
<1>1. PICK k \in 0 .. 13 : AluOps[name] = 16 * k
  BY OpNumbers
<1>2. /\ WellFormed(newAluInstruction(16 * k, class, dst, src))
      /\ src.type # "int64" => OneSlot(newAluInstruction(16 * k, class, dst, src))
  BY AluWellFormed
<1> QED  BY <1>1, <1>2 DEF Alu, Narrow

LEMMA Add64WellFormed ==
    ASSUME NEW dst, NEW src
    PROVE  /\ WellFormed(Add64(dst, src)) /\ (Narrow(src) => OneSlot(Add64(dst, src)))
           /\ WellFormed(Mov(dst, src)) /\ (Narrow(src) => OneSlot(Mov(dst, src)))
<1>1. "Add" \in DOMAIN AluOps /\ "Mov" \in DOMAIN AluOps
  BY DEF AluOps
<1>2. InsClass.Alu64 \in {4, 7} /\ InsClass.Alu \in {4, 7}
  BY Numbers
<1> QED  BY <1>1, <1>2, NamedAluWellFormed DEF Add64, Mov

LEMMA NamedOneSlot ==
    /\ \A size \in DOMAIN StLdSize : \A dst, src, off : OneSlot(St(size, dst, src, off))
                                                        /\ OneSlot(Ld(size, dst, src, off))
    /\ \A dst, src, off : OneSlot(JmpNE(dst, src, off))
    /\ (\A n : OneSlot(Call(n)) /\ OneSlot(Jmp(n))) /\ OneSlot(Exit)
<1>1. ASSUME NEW size \in DOMAIN StLdSize, NEW dst, NEW src, NEW off
      PROVE  OneSlot(St(size, dst, src, off)) /\ OneSlot(Ld(size, dst, src, off))
  <2>1. PICK s \in 0 .. 3 : StLdSize[size] = 8 * s
    BY OpNumbers
  <2>2. OneSlot(newStoreOperation(8 * s, dst, src, off)) /\ OneSlot(newLoadOperation(8 * s, dst, src, off))
    BY StoreOneSlot, LoadOneSlot
  <2> QED  BY <2>1, <2>2 DEF St, Ld
<1>2. JmpOps["JNE"] = 16 * 5 /\ JmpOps.CALL = 16 * 8 /\ JmpOps.JA = 16 * 0 /\ JmpOps.Exit = 16 * 9
      /\ InsClass.Jmp = 5
  BY DEF JmpOps, InsClass
<1>3. \A k \in {0, 5, 8, 9} : \A dst, src, off : OneSlot(newJmpInstruction(16 * k, 5, dst, src, off))
  BY JmpOneSlot
<1>4. \A dst, src, off : OneSlot(JmpNE(dst, src, off))
  BY <1>2, <1>3 DEF JmpNE, JmpIf
<1>5. (\A n : OneSlot(Call(n)) /\ OneSlot(Jmp(n))) /\ OneSlot(Exit)
  BY <1>2, <1>3 DEF Call, Jmp, Exit
<1> QED  BY <1>1, <1>4, <1>5, Zenon

LEMMA LdImmTwoSlots == \A dst, n : TwoSlots(LdMapByFd(dst, n)) /\ TwoSlots(LdFunctionPtr(n))
<1>1. StLdMode.IMM = 0 /\ StLdSize.DW = 24 /\ InsClass.Ld = 0
  BY Numbers
<1>2. \A dst, src, n : TwoSlots(Mem(0, 24, 0, dst, src, 0, n, <<0>>))
  BY LoadTwoSlots
<1> QED  BY <1>1, <1>2 DEF LdMapByFd, LdFunctionPtr, newLoadImmOperation

--------------------------------------------------------------------------------
(* Programs *)

\* A sequence of well formed instructions, or of instructions of one slot.
Sound(s)        == \E S : s \in Seq(S) /\ \A i \in S : WellFormed(i)
Slim(s)         == \E S : s \in Seq(S) /\ \A i \in S : OneSlot(i)
EndsWithExit(s) == Len(s) \in Nat /\ Len(s) >= 1 /\ s[Len(s)] = Exit

LEMMA SoundSlim ==
    ASSUME NEW S, NEW s \in Seq(S)
    PROVE  /\ (\A i \in S : WellFormed(i)) => Sound(s)
           /\ (\A i \in S : OneSlot(i)) => Slim(s)
BY DEF Sound, Slim

LEMMA SoundIs ==
    ASSUME NEW s, Sound(s)
    PROVE  Len(s) \in Nat /\ \A k \in 1 .. Len(s) : WellFormed(s[k])
<1>1. PICK S : s \in Seq(S) /\ \A i \in S : WellFormed(i)
  BY DEF Sound
<1>2. Len(s) \in Nat /\ \A k \in 1 .. Len(s) : s[k] \in S
  BY <1>1
<1> QED  BY <1>1, <1>2

LEMMA SlimIs ==
    ASSUME NEW s, Slim(s)
    PROVE  Sound(s) /\ Len(s) \in Nat /\ \A k \in 1 .. Len(s) : OneSlot(s[k])
<1>1. PICK S : s \in Seq(S) /\ \A i \in S : OneSlot(i)
  BY DEF Slim
<1>2. Len(s) \in Nat /\ \A k \in 1 .. Len(s) : s[k] \in S
  BY <1>1
<1>3. Sound(s)
  BY <1>1 DEF Sound, WellFormed
<1> QED  BY <1>1, <1>2, <1>3

\* The lengths and the places of two sequences put together.
Joined(s, t) ==
    /\ Len(s \o t) = Len(s) + Len(t)
    /\ \A k \in 1 .. Len(s) : (s \o t)[k] = s[k]
    /\ \A k \in 1 .. Len(t) : (s \o t)[Len(s) + k] = t[k]

LEMMA ConcatJoined ==
    ASSUME NEW S, NEW s \in Seq(S), NEW T, NEW t \in Seq(T)
    PROVE  s \o t \in Seq(S \cup T) /\ Len(s) \in Nat /\ Len(t) \in Nat /\ Joined(s, t)
<1> DEFINE U == S \cup T
           c == s \o t
<1>1. Len(s) \in Nat /\ Len(t) \in Nat /\ s \in Seq(U) /\ t \in Seq(U)
  <2>1. \A A, B : \A x \in Seq(A) : A \subseteq B => x \in Seq(B)
    OBVIOUS
  <2> QED  BY <2>1
<1> HIDE DEF U
<1>2. /\ c \in Seq(U) /\ Len(c) = Len(s) + Len(t)
      /\ \A k \in 1 .. Len(s) + Len(t) : c[k] = IF k <= Len(s) THEN s[k] ELSE t[k - Len(s)]
  BY <1>1, ConcatProperties
<1> HIDE DEF c
<1>3. \A k \in 1 .. Len(s) : c[k] = s[k]
  BY <1>1, <1>2
<1>4. ASSUME NEW k \in 1 .. Len(t) PROVE c[Len(s) + k] = t[k]
  <2>1. Len(s) + k \in 1 .. Len(s) + Len(t) /\ ~(Len(s) + k <= Len(s)) /\ (Len(s) + k) - Len(s) = k
    BY <1>1
  <2> QED  BY <1>2, <2>1, Zenon
<1> QED  BY <1>1, <1>2, <1>3, <1>4 DEF c, U, Joined

LEMMA SoundConcat ==
    ASSUME NEW s, NEW t, Sound(s), Sound(t)
    PROVE  Sound(s \o t) /\ Joined(s, t)
<1>1. PICK S : s \in Seq(S) /\ \A i \in S : WellFormed(i)
  BY DEF Sound
<1>2. PICK T : t \in Seq(T) /\ \A i \in T : WellFormed(i)
  BY DEF Sound
<1>3. s \o t \in Seq(S \cup T) /\ Joined(s, t)
  BY <1>1, <1>2, ConcatJoined
<1> QED  BY <1>1, <1>2, <1>3 DEF Sound

LEMMA SlimConcat ==
    ASSUME NEW s, NEW t, Slim(s), Slim(t)
    PROVE  Slim(s \o t) /\ Joined(s, t)
<1>1. PICK S : s \in Seq(S) /\ \A i \in S : OneSlot(i)
  BY DEF Slim
<1>2. PICK T : t \in Seq(T) /\ \A i \in T : OneSlot(i)
  BY DEF Slim
<1>3. s \o t \in Seq(S \cup T) /\ Joined(s, t)
  BY <1>1, <1>2, ConcatJoined
<1> QED  BY <1>1, <1>2, <1>3 DEF Slim

\* The shortest program.
LEMMA SoundExit == Slim(<<Exit>>) /\ Sound(<<Exit>>) /\ EndsWithExit(<<Exit>>)
<1> DEFINE s == <<Exit>>
           S == {Exit}
<1>1. s \in Seq(S) /\ Len(s) = 1 /\ s[1] = Exit
  OBVIOUS
<1>2. \A i \in S : OneSlot(i)
  BY NamedOneSlot
<1> HIDE DEF s, S
<1>3. Slim(s)
  BY <1>1, <1>2, SoundSlim
<1>4. Slim(s) /\ Sound(s) /\ EndsWithExit(s)
  BY <1>1, <1>3, SlimIs DEF EndsWithExit
<1> QED  BY <1>4 DEF s

LEMMA SoundBeforeExit ==
    ASSUME NEW s, Sound(s)
    PROVE  Sound(s \o <<Exit>>) /\ EndsWithExit(s \o <<Exit>>)
<1> DEFINE e == <<Exit>>
<1>1. Sound(e) /\ Len(e) = 1 /\ e[1] = Exit
  BY SoundExit
<1> HIDE DEF e
<1>2. Sound(s \o e) /\ Joined(s, e) /\ Len(s) \in Nat
  BY <1>1, SoundConcat, SoundIs
<1>3. Len(s \o e) = Len(s) + 1 /\ (s \o e)[Len(s) + 1] = Exit
  BY <1>1, <1>2 DEF Joined
<1> QED  BY <1>2, <1>3 DEF EndsWithExit, e

LEMMA SoundOne ==
    ASSUME NEW i, WellFormed(i)
    PROVE  Sound(<<i, Exit>>) /\ EndsWithExit(<<i, Exit>>)
<1> DEFINE s == <<i, Exit>>
           S == {i, Exit}
<1>1. s \in Seq(S) /\ Len(s) = 2 /\ s[2] = Exit
  OBVIOUS
<1>2. \A j \in S : WellFormed(j)
  BY NamedOneSlot DEF WellFormed
<1> HIDE DEF s, S
<1>3. Sound(s) /\ EndsWithExit(s)
  BY <1>1, <1>2, SoundSlim DEF EndsWithExit
<1> QED  BY <1>3 DEF s

--------------------------------------------------------------------------------
(* What the callers of the library build *)

Built == \E insns : prog' = OneFunction(insns) /\ Sound(insns) /\ EndsWithExit(insns)

LEMMA BuiltOne ==
    ASSUME NEW what, NEW i, WellFormed(i), Build(what, <<i, Exit>>)
    PROVE  Built
<1>1. Sound(<<i, Exit>>) /\ EndsWithExit(<<i, Exit>>)
  BY SoundOne
<1>2. prog' = OneFunction(<<i, Exit>>)
  BY BuildHands
<1> QED  BY <1>1, <1>2, Zenon DEF Built

LEMMA AluJmpBuilt ==
    ASSUME BuildAlu \/ BuildJmp \/ BuildControl
    PROVE  Built
<1>1. CASE BuildAlu
  <2>1. PICK name \in DOMAIN AluOps, class \in {InsClass.Alu, InsClass.Alu64},
             dst \in Registers, src \in Operands :
          Build(Wanted("alu", AluOps[name], class, dst, src, 0),
                <<IF name = "Mov" /\ class = InsClass.Alu64 THEN Mov64(dst, src)
                  ELSE Alu(name, class, dst, src), Exit>>)
    BY <1>1 DEF BuildAlu
  <2> DEFINE i == IF name = "Mov" /\ class = InsClass.Alu64 THEN Mov64(dst, src)
                  ELSE Alu(name, class, dst, src)
  <2>2. class \in {4, 7}
    BY Numbers
  <2>3. WellFormed(Mov64(dst, src)) /\ WellFormed(Alu(name, class, dst, src))
    BY <2>2, Mov64WellFormed, NamedAluWellFormed
  <2>4. WellFormed(i)
    BY <2>3
  <2> HIDE DEF i
  <2> QED  BY <2>1, <2>4, BuiltOne DEF i
<1>2. CASE BuildJmp
  <2>1. PICK name \in JmpEqToSge \cup JmpLtToSle, class \in {InsClass.Jmp, InsClass.Jmp32},
             dst \in Registers, src \in Operands, off \in Offsets :
          Build(Wanted("jmp", JmpOps[name], class, dst, src, off),
                <<JmpIf(name, class, dst, src, off), Exit>>)
    BY <1>2 DEF BuildJmp
  <2>2. PICK k \in 0 .. 13 : JmpOps[name] = 16 * k
    BY OpNumbers
  <2>3. class \in {5, 6}
    BY Numbers
  <2>4. OneSlot(newJmpInstruction(16 * k, class, dst, src, off))
    BY <2>3, JmpOneSlot
  <2>5. WellFormed(JmpIf(name, class, dst, src, off))
    BY <2>2, <2>4 DEF JmpIf, WellFormed
  <2> QED  BY <2>1, <2>5, BuiltOne, Zenon
<1>3. CASE BuildControl
  <2>1. \A n : WellFormed(Jmp(n)) /\ WellFormed(Call(n))
    BY NamedOneSlot DEF WellFormed
  <2> QED  BY <1>3, <2>1, BuiltOne, Zenon DEF BuildControl
<1> QED  BY <1>1, <1>2, <1>3

LEMMA MemBuilt ==
    ASSUME BuildStore \/ BuildLoad \/ BuildAtomic \/ BuildLdImm
    PROVE  Built
<1>1. \A size \in DOMAIN StLdSize : \A dst, src, off :
          WellFormed(St(size, dst, src, off)) /\ WellFormed(Ld(size, dst, src, off))
  BY NamedOneSlot DEF WellFormed
<1>2. CASE BuildStore
  BY <1>1, <1>2, BuiltOne, Zenon DEF BuildStore
<1>3. CASE BuildLoad
  BY <1>1, <1>3, BuiltOne, Zenon DEF BuildLoad
<1>4. CASE BuildAtomic
  <2>1. \A size \in {"W", "DW"} : size \in DOMAIN StLdSize
    BY DEF StLdSize
  <2>2. ASSUME NEW size \in {"W", "DW"}, NEW name, NEW dst, NEW src, NEW off
        PROVE  WellFormed(MemAlu(name, size, dst, src, off))
    <3>1. PICK s \in 0 .. 3 : StLdSize[size] = 8 * s
      BY <2>1, OpNumbers
    <3>2. OneSlot(newAtomicInstruction(dst, src, 8 * s, off, AluOps[name]))
      BY LoadOneSlot
    <3> QED  BY <3>1, <3>2 DEF MemAlu, WellFormed
  <2> QED  BY <1>4, <2>2, BuiltOne, Zenon DEF BuildAtomic
<1>5. CASE BuildLdImm
  <2>1. \A dst, n : WellFormed(LdMapByFd(dst, n)) /\ WellFormed(LdFunctionPtr(n))
    BY LdImmTwoSlots DEF WellFormed
  <2> QED  BY <1>5, <2>1, BuiltOne, Zenon DEF BuildLdImm
<1> QED  BY <1>2, <1>3, <1>4, <1>5

\* The sequences: a lookup in a map and a load from a socket buffer.
LEMMA SequencesBuilt ==
    ASSUME BuildLookup \/ BuildSkbLoad
    PROVE  Built
<1>1. ASSUME NEW what, NEW S, NEW s \in Seq(S), \A i \in S : WellFormed(i), Build(what, s \o <<Exit>>)
      PROVE  Built
  <2>1. Sound(s)
    BY <1>1, SoundSlim
  <2>2. Sound(s \o <<Exit>>) /\ EndsWithExit(s \o <<Exit>>)
    BY <2>1, SoundBeforeExit
  <2>3. prog' = OneFunction(s \o <<Exit>>)
    BY <1>1 DEF Build, Hand
  <2> QED  BY <2>2, <2>3, Zenon DEF Built
<1>2. \A dst, src : WellFormed(Mov64(dst, src)) /\ WellFormed(Add64(dst, src))
  BY Mov64WellFormed, Add64WellFormed
<1>3. \A n : WellFormed(Call(n))
  BY NamedOneSlot DEF WellFormed
<1>4. CASE BuildLookup
  <2>1. PICK keyPtr \in Registers, element \in Draws, off \in Offsets :
          Build(Wanted("lookup", 0, 0, keyPtr, Imm(element), off),
                LdMapElement(9, element, keyPtr, off) \o <<Exit>>)
    BY <1>4 DEF BuildLookup
  <2> DEFINE a == Mov64(1, Reg(9))
             b == St("W", keyPtr, Imm(element), off)
             c == Mov64(2, Reg(keyPtr))
             d == Add64(2, Imm(off))
             e == Call(MapLookup)
             s == <<a, b, c, d, e>>
             S == {a, b, c, d, e}
  <2>2. LdMapElement(9, element, keyPtr, off) = s
    BY DEF LdMapElement
  <2>3. WellFormed(b)
    <3>1. "W" \in DOMAIN StLdSize
      BY DEF StLdSize
    <3> QED  BY <3>1, NamedOneSlot DEF WellFormed
  <2>4. WellFormed(a) /\ WellFormed(c) /\ WellFormed(d) /\ WellFormed(e)
    BY <1>2, <1>3, Zenon
  <2> HIDE DEF a, b, c, d, e
  <2>5. s \in Seq(S) /\ \A i \in S : WellFormed(i)
    BY <2>3, <2>4
  <2> HIDE DEF s, S
  <2> QED  BY <1>1, <2>1, <2>2, <2>5, Zenon
<1>5. CASE BuildSkbLoad
  <2>1. PICK src \in {o \in Operands : o.type # "Reg"} :
          Build(Wanted("skb", 0, 0, 10, src, 0), CallSkbLoadBytesRelative(6, src, 10, src, src, src) \o <<Exit>>)
    BY <1>5 DEF BuildSkbLoad
  <2> DEFINE a == Mov64(1, Reg(6))
             b == Mov64(2, src)
             c == Mov64(3, Reg(10))
             d == Add64(3, src)
             e == Mov64(4, src)
             f == Mov64(5, src)
             g == Call(SkbLoadBytesRelative)
             s == <<a, b, c, d, e, f, g>>
             S == {a, b, c, d, e, f, g}
  <2>2. CallSkbLoadBytesRelative(6, src, 10, src, src, src) = s
    BY DEF CallSkbLoadBytesRelative
  <2>3. /\ WellFormed(a) /\ WellFormed(b) /\ WellFormed(c) /\ WellFormed(d) /\ WellFormed(e)
        /\ WellFormed(f) /\ WellFormed(g)
    BY <1>2, <1>3, Zenon
  <2> HIDE DEF a, b, c, d, e, f, g
  <2>4. s \in Seq(S) /\ \A i \in S : WellFormed(i)
    BY <2>3
  <2> HIDE DEF s, S
  <2> QED  BY <1>1, <2>1, <2>2, <2>4, Zenon
<1> QED  BY <1>4, <1>5

\* What is drawn takes one slot.
LEMMA DrawnOneSlot ==
    /\ \A i \in RandomAluInstruction(Registers \ {10}, Draws) : OneSlot(i)
    /\ \A n : \A i \in RandomJmpInstruction(n, Registers \ {10}, Draws) : OneSlot(i)
    /\ \A i \in RandomMemInstruction(Registers \ {10}, Draws) : OneSlot(i)
<1>1. ASSUME NEW i \in RandomAluInstruction(Registers \ {10}, Draws) PROVE OneSlot(i)
  <2>0. ASSUME NEW op \in RandomAluOp, NEW class \in {InsClass.Alu, InsClass.Alu64}, NEW dst, NEW src,
               src.type # "int64"
        PROVE  OneSlot(newAluInstruction(op, class, dst, src))
    <3>1. PICK k \in 0 .. 13 : op = 16 * k
      BY DEF RandomAluOp
    <3>2. class \in {4, 7}
      BY Numbers
    <3> QED  BY <2>0, <3>1, <3>2, AluWellFormed, Zenon
  <2>1. CASE i \in {generateImmAluInstruction(op, class, dst, value) :
                       op \in RandomAluOp, class \in {InsClass.Alu, InsClass.Alu64},
                       dst \in Registers \ {10}, value \in Draws}
    <3>1. PICK op \in RandomAluOp, class \in {InsClass.Alu, InsClass.Alu64},
               dst \in Registers \ {10}, value \in Draws :
            i = generateImmAluInstruction(op, class, dst, value)
      BY <2>1
    <3>2. \A v : [Imm(v) EXCEPT !.type = "int32"].type # "int64"
      BY DrawnOperands
    <3> QED  BY <2>0, <3>1, <3>2, Zenon DEF generateImmAluInstruction
  <2>2. CASE i \in {generateRegAluInstruction(op, class, dst, src) :
                       op \in RandomAluOp \ {AluOps.Neg}, class \in {InsClass.Alu, InsClass.Alu64},
                       dst \in Registers \ {10}, src \in Registers \ {10}}
    <3>1. PICK op \in RandomAluOp \ {AluOps.Neg}, class \in {InsClass.Alu, InsClass.Alu64},
               dst \in Registers \ {10}, src \in Registers \ {10} :
            i = newAluInstruction(op, class, dst, Reg(src))
      BY <2>2 DEF generateRegAluInstruction
    <3>2. Reg(src).type # "int64"
      BY DrawnOperands
    <3> QED  BY <2>0, <3>1, <3>2, Zenon
  <2> QED  BY <2>1, <2>2 DEF RandomAluInstruction
<1>2. ASSUME NEW n, NEW i \in RandomJmpInstruction(n, Registers \ {10}, Draws) PROVE OneSlot(i)
  <2>1. PICK op \in RandomJumpOp, class \in {InsClass.Jmp, InsClass.Jmp32}, dst \in Registers \ {10},
             src \in {Reg(r) : r \in Registers \ {10}} \cup {[Imm(v) EXCEPT !.type = "int32"] : v \in Draws},
             off \in 1 .. n : i = newJmpInstruction(op, class, dst, src, Int16(off))
    BY DEF RandomJmpInstruction
  <2>2. class \in {5, 6}
    BY Numbers
  <2>3. PICK k \in 0 .. 13 : op = 16 * k
    BY DEF RandomJumpOp
  <2> QED  BY <2>1, <2>2, <2>3, JmpOneSlot, Zenon
<1>3. ASSUME NEW i \in RandomMemInstruction(Registers \ {10}, Draws) PROVE OneSlot(i)
  <2>0. \A size \in RandomSize \cup {StLdSize.W, StLdSize.DW} : \E s \in 0 .. 3 : size = 8 * s
    BY DEF RandomSize, StLdSize
  <2>1. \A size \in RandomSize \cup {StLdSize.W, StLdSize.DW} : \A dst, src, off, op :
            /\ OneSlot(newStoreOperation(size, dst, src, off))
            /\ OneSlot(newLoadOperation(size, dst, src, off))
            /\ OneSlot(newAtomicInstruction(dst, src, size, off, op))
    BY <2>0, StoreOneSlot, LoadOneSlot, Zenon
  <2>2. CASE i \in RandomStoreInstruction(Registers \ {10}, Draws)
    <3>1. PICK size \in RandomSize :
            \E src \in {Reg(r) : r \in Registers \ {10}} \cup {[Imm(v) EXCEPT !.type = "int32"] : v \in Draws},
               off \in RandomOffset(size, Draws) : i = newStoreOperation(size, 10, src, off)
      BY <2>2 DEF RandomStoreInstruction
    <3>2. PICK src \in {Reg(r) : r \in Registers \ {10}} \cup {[Imm(v) EXCEPT !.type = "int32"] : v \in Draws},
               off \in RandomOffset(size, Draws) : i = newStoreOperation(size, 10, src, off)
      BY <3>1
    <3>3. OneSlot(newStoreOperation(size, 10, src, off))
      BY <2>1, Zenon
    <3> QED  BY <3>2, <3>3, Zenon
  <2>3. CASE i \in RandomLoadInstruction(Registers \ {10}, Draws)
    <3>1. PICK size \in RandomSize :
            \E dst \in Registers \ {10}, off \in RandomOffset(size, Draws) :
                i = newLoadOperation(size, dst, 10, off)
      BY <2>3 DEF RandomLoadInstruction
    <3> QED  BY <2>1, <3>1, Zenon
  <2>4. CASE i \in RandomAtomicInstruction(Registers \ {10}, Draws)
    <3>1. PICK size \in {StLdSize.W, StLdSize.DW} :
            \E src \in Registers \ {10}, name \in AtomicOps, off \in RandomOffset(size, Draws) :
                i = newAtomicInstruction(10, src, size, off, AluOps[name])
      BY <2>4 DEF RandomAtomicInstruction
    <3> QED  BY <2>1, <3>1, Zenon
  <2> QED  BY <2>2, <2>3, <2>4 DEF RandomMemInstruction
<1> QED  BY <1>1, <1>2, <1>3

LEMMA RandomBuilt ==
    ASSUME BuildRandom PROVE Built
<1>1. PICK i \in Drawn : Build([fn |-> "random"], <<i, Exit>>)
  BY DEF BuildRandom, Drawn
<1>2. WellFormed(i)
  BY DrawnOneSlot DEF Drawn, WellFormed
<1> QED  BY <1>1, <1>2, BuiltOne

--------------------------------------------------------------------------------
(* The two functions of the loop program *)

\* Instructions of one slot but for some places.
WideAt(s, places) == Sound(s) /\ \A k \in 1 .. Len(s) : k \notin places => OneSlot(s[k])

\* What is appended to the first instruction of main's body leaves it where it is.
LEMMA WideConcat ==
    ASSUME NEW s, NEW t, WideAt(s, {1}), Len(s) >= 1, Slim(t)
    PROVE  WideAt(s \o t, {1}) /\ Joined(s, t) /\ Len(s \o t) >= 1 /\ (s \o t)[1] = s[1]
<1>1. Sound(s) /\ Sound(t) /\ Len(s) \in Nat /\ Len(t) \in Nat /\ \A k \in 1 .. Len(t) : OneSlot(t[k])
  BY SlimIs, SoundIs DEF WideAt
<1>2. Sound(s \o t) /\ Joined(s, t)
  BY <1>1, SoundConcat
<1> DEFINE c == s \o t
<1>3. /\ Len(c) = Len(s) + Len(t)
      /\ \A k \in 1 .. Len(s) : c[k] = s[k]
      /\ \A k \in 1 .. Len(t) : c[Len(s) + k] = t[k]
  BY <1>2 DEF Joined
<1> HIDE DEF c
<1>4. ASSUME NEW k \in 1 .. Len(c), k # 1 PROVE OneSlot(c[k])
  <2>1. CASE k \in 1 .. Len(s)
    BY <1>3, <1>4, <2>1 DEF WideAt
  <2>2. CASE k \notin 1 .. Len(s)
    <3>1. k - Len(s) \in 1 .. Len(t) /\ Len(s) + (k - Len(s)) = k
      BY <1>1, <1>3, <2>2
    <3>2. c[k] = t[k - Len(s)]
      BY <1>3, <3>1, Zenon
    <3> QED  BY <1>1, <3>1, <3>2
  <2> QED  BY <2>1, <2>2
<1>5. Len(c) >= 1 /\ c[1] = s[1]
  BY <1>1, <1>3
<1> QED  BY <1>2, <1>4, <1>5 DEF WideAt, c

\* The sizes of stores and loads, and the operands, that the strategy writes down.
LEMMA WrittenOperands ==
    /\ "W" \in DOMAIN StLdSize /\ "DW" \in DOMAIN StLdSize /\ "B" \in DOMAIN StLdSize
    /\ "And" \in DOMAIN AluOps /\ "Mul" \in DOMAIN AluOps
    /\ \A dst, n : OneSlot(Mov64(dst, Imm(n))) /\ OneSlot(Add64(dst, Imm(n))) /\ OneSlot(Mov(dst, Imm(n)))
    /\ \A dst : \A r \in 0 .. 10 : OneSlot(Mov64(dst, Reg(r))) /\ OneSlot(Add64(dst, Reg(r)))
<1>1. "W" \in DOMAIN StLdSize /\ "DW" \in DOMAIN StLdSize /\ "B" \in DOMAIN StLdSize
  BY DEF StLdSize
<1>2. "And" \in DOMAIN AluOps /\ "Mul" \in DOMAIN AluOps
  BY DEF AluOps
<1>3. \A dst, n : OneSlot(Mov64(dst, Imm(n))) /\ OneSlot(Add64(dst, Imm(n))) /\ OneSlot(Mov(dst, Imm(n)))
  BY NarrowOperands, Mov64WellFormed, Add64WellFormed, Zenon
<1>4. \A dst : \A r \in 0 .. 10 : OneSlot(Mov64(dst, Reg(r))) /\ OneSlot(Add64(dst, Reg(r)))
  BY NarrowOperands, Mov64WellFormed, Add64WellFormed, Zenon
<1> QED  BY <1>1, <1>2, <1>3, <1>4, Zenon

LEMMA LookupSlim == \A key : Slim(lookup(key)) /\ Len(lookup(key)) = 7
<1> SUFFICES ASSUME NEW key PROVE Slim(lookup(key)) /\ Len(lookup(key)) = 7
  OBVIOUS
<1> DEFINE a == St("W", 10, Imm(key), -4)
           b == Mov64(2, Reg(10))
           c == Add64(2, Imm(-4))
           d == Mov64(1, Reg(9))
           e == Call(MapLookup)
           f == JmpNE(0, Imm(0), 1)
           s == <<a, b, c, d, e, f, Exit>>
           S == {a, b, c, d, e, f, Exit}
<1>1. OneSlot(a) /\ OneSlot(e) /\ OneSlot(f) /\ OneSlot(Exit)
  BY WrittenOperands, NamedOneSlot, Zenon
<1>2. 9 \in 0 .. 10 /\ 10 \in 0 .. 10
  OBVIOUS
<1>3. OneSlot(b) /\ OneSlot(c) /\ OneSlot(d)
  BY <1>2, WrittenOperands, Zenon
<1>4. lookup(key) = s
  BY DEF lookup
<1> HIDE DEF a, b, c, d, e, f
<1>5. s \in Seq(S) /\ Len(s) = 7 /\ \A i \in S : OneSlot(i)
  BY <1>1, <1>3
<1> HIDE DEF s, S
<1> QED  BY <1>4, <1>5, SoundSlim

\* The first of main's body is a load of two slots, and no other of it.
LEMMA MainBody ==
    ASSUME NEW mapFd
    PROVE  /\ WideAt(mainBody(mapFd), {1}) /\ Len(mainBody(mapFd)) = 21
           /\ mainBody(mapFd)[1] = LdMapByFd(9, mapFd) /\ EndsWithExit(mainBody(mapFd))
<1> DEFINE l == LdMapByFd(9, mapFd)
           b1 == <<l>>
           k0 == lookup(0)
           k1 == lookup(1)
           b2 == b1 \o k0
           st == St("DW", 0, Imm(51966), 0)
           one == <<st>>
           b3 == b2 \o one
           b4 == b3 \o k1
           u == Ld("W", 8, 10, -12)
           v == Add64(0, Reg(8))
           w == St("W", 0, Reg(8), 0)
           x == Mov64(0, Imm(0))
           t == <<u, v, w, x, Exit>>
           b5 == b4 \o t
<1>1. mainBody(mapFd) = b5
  BY DEF mainBody
<1>2. /\ OneSlot(st) /\ OneSlot(u) /\ OneSlot(v) /\ OneSlot(w) /\ OneSlot(x) /\ OneSlot(Exit)
  <2>1. 8 \in 0 .. 10
    OBVIOUS
  <2>2. OneSlot(v) /\ OneSlot(x)
    BY <2>1, WrittenOperands, Zenon
  <2>3. OneSlot(st)
    <3>1. \A src : OneSlot(St("DW", 0, src, 0))
      BY WrittenOperands, NamedOneSlot, Zenon
    <3> QED  BY <3>1
  <2>5. OneSlot(u)
    BY WrittenOperands, NamedOneSlot, Zenon
  <2>4. OneSlot(w) /\ OneSlot(Exit)
    BY WrittenOperands, NamedOneSlot, Zenon
  <2> QED  BY <2>2, <2>3, <2>4, <2>5
<1>3. TwoSlots(l)
  BY LdImmTwoSlots
<1>0. Slim(k0) /\ Len(k0) = 7 /\ Slim(k1) /\ Len(k1) = 7
  BY LookupSlim
<1> HIDE DEF l, st, u, v, w, x, k0, k1
<1>4. WideAt(b1, {1}) /\ Len(b1) = 1 /\ b1[1] = l
  <2> DEFINE S == {l}
  <2>1. b1 \in Seq(S) /\ Len(b1) = 1 /\ b1[1] = l
    OBVIOUS
  <2>2. \A i \in S : WellFormed(i)
    BY <1>3 DEF WellFormed
  <2> HIDE DEF b1, S
  <2>3. Sound(b1)
    BY <2>1, <2>2, SoundSlim
  <2> QED  BY <2>1, <2>3 DEF WideAt
<1>5. Slim(one) /\ Len(one) = 1
  <2> DEFINE S == {st}
  <2>1. one \in Seq(S) /\ Len(one) = 1 /\ \A i \in S : OneSlot(i)
    BY <1>2
  <2> HIDE DEF one, S
  <2> QED  BY <2>1, SoundSlim
<1>6. Slim(t) /\ Len(t) = 5 /\ t[5] = Exit
  <2> DEFINE S == {u, v, w, x, Exit}
  <2>1. t \in Seq(S) /\ Len(t) = 5 /\ t[5] = Exit /\ \A i \in S : OneSlot(i)
    BY <1>2
  <2> HIDE DEF t, S
  <2> QED  BY <2>1, SoundSlim
<1> HIDE DEF b1, one, t
<1>7. WideAt(b2, {1}) /\ Len(b2) = 8 /\ b2[1] = l
  <2>1. Len(b1) >= 1
    BY <1>4
  <2>2. WideAt(b2, {1}) /\ Joined(b1, k0) /\ b2[1] = b1[1]
    BY <1>0, <1>4, <2>1, WideConcat
  <2> QED  BY <1>0, <1>4, <2>2 DEF Joined
<1> HIDE DEF b2
<1>8. WideAt(b3, {1}) /\ Len(b3) = 9 /\ b3[1] = l
  <2>1. Len(b2) >= 1
    BY <1>7
  <2>2. WideAt(b3, {1}) /\ Joined(b2, one) /\ b3[1] = b2[1]
    BY <1>5, <1>7, <2>1, WideConcat
  <2> QED  BY <1>5, <1>7, <2>2 DEF Joined
<1> HIDE DEF b3
<1>9. WideAt(b4, {1}) /\ Len(b4) = 16 /\ b4[1] = l
  <2>1. Len(b3) >= 1
    BY <1>8
  <2>2. WideAt(b4, {1}) /\ Joined(b3, k1) /\ b4[1] = b3[1]
    BY <1>0, <1>8, <2>1, WideConcat
  <2> QED  BY <1>0, <1>8, <2>2 DEF Joined
<1> HIDE DEF b4
<1>10. WideAt(b5, {1}) /\ Len(b5) = 21 /\ b5[1] = l /\ b5[21] = Exit
  <2>1. Len(b4) >= 1
    BY <1>9
  <2>2. WideAt(b5, {1}) /\ Joined(b4, t) /\ b5[1] = b4[1]
    BY <1>6, <1>9, <2>1, WideConcat
  <2>3. Len(b5) = 16 + 5 /\ b5[16 + 5] = t[5]
    BY <1>6, <1>9, <2>2 DEF Joined
  <2> QED  BY <1>6, <1>9, <2>2, <2>3
<1> HIDE DEF b5
<1> QED  BY <1>1, <1>10 DEF EndsWithExit, l

LEMMA MainHeader ==
    ASSUME NEW funcPtr
    PROVE  /\ WideAt(mainHeader(funcPtr), {7}) /\ Len(mainHeader(funcPtr)) = 8
           /\ mainHeader(funcPtr)[7] = LdFunctionPtr(funcPtr)
<1> DEFINE a == St("W", 10, Imm(0), -4)
           b == St("W", 10, Imm(0), -12)
           c == Mov64(3, Reg(10))
           d == Add64(3, Imm(-8))
           e == Mov(1, Imm(10))
           f == Mov(4, Imm(0))
           g == LdFunctionPtr(funcPtr)
           h == Call(181)
           s == <<a, b, c, d, e, f, g, h>>
           S == {a, b, c, d, e, f, g, h}
<1>1. mainHeader(funcPtr) = s
  BY DEF mainHeader
<1>2. OneSlot(a) /\ OneSlot(b) /\ OneSlot(h)
  BY WrittenOperands, NamedOneSlot, Zenon
<1>3. OneSlot(c) /\ OneSlot(d) /\ OneSlot(e) /\ OneSlot(f)
  <2>1. 10 \in 0 .. 10
    OBVIOUS
  <2> QED  BY <2>1, WrittenOperands, Zenon
<1>4. TwoSlots(g)
  BY LdImmTwoSlots
<1> HIDE DEF a, b, c, d, e, f, g, h
<1>5. s \in Seq(S) /\ Len(s) = 8 /\ s[7] = g /\ \A i \in S : WellFormed(i)
  BY <1>2, <1>3, <1>4 DEF WellFormed
<1>6. \A k \in 1 .. 8 : k \notin {7} => OneSlot(s[k])
  BY <1>2, <1>3
<1> HIDE DEF s, S
<1>7. Sound(s)
  BY <1>5, SoundSlim
<1>8. WideAt(s, {7})
  BY <1>5, <1>6, <1>7 DEF WideAt
<1> QED  BY <1>1, <1>5, <1>8 DEF g

\* main has 29 instructions, of which the seventh, the function pointer, and the
\* ninth, the map, take two slots; the function pointer is 24.
LEMMA MainShape ==
    ASSUME NEW mapFd
    PROVE  /\ WideAt(main(mapFd), {7, 9}) /\ Len(main(mapFd)) = 29 /\ EndsWithExit(main(mapFd))
           /\ main(mapFd)[7] = LdFunctionPtr(24) /\ main(mapFd)[9] = LdMapByFd(9, mapFd)
<1> DEFINE b == mainBody(mapFd)
           h == mainHeader(24)
           m == h \o b
<1>1. WideAt(b, {1}) /\ Len(b) = 21 /\ b[1] = LdMapByFd(9, mapFd) /\ b[21] = Exit
  BY MainBody DEF EndsWithExit
<1>2. WideAt(h, {7}) /\ Len(h) = 8 /\ h[7] = LdFunctionPtr(24)
  BY MainHeader
<1>3. main(mapFd) = m
  <2>1. Len(b) + 3 = 24
    BY <1>1
  <2> QED  BY <2>1, Zenon DEF main
<1> HIDE DEF b, h
<1>4. Sound(m) /\ Joined(h, b)
  BY <1>1, <1>2, SoundConcat DEF WideAt
<1>5. /\ Len(m) = 8 + 21
      /\ \A k \in 1 .. 8 : m[k] = h[k]
      /\ \A k \in 1 .. 21 : m[8 + k] = b[k]
  BY <1>1, <1>2, <1>4 DEF Joined
<1> HIDE DEF m
<1>6. m[7] = h[7] /\ m[8 + 1] = b[1] /\ m[8 + 21] = b[21]
  BY <1>5
<1>7. ASSUME NEW k \in 1 .. 29, k \notin {7, 9} PROVE OneSlot(m[k])
  <2>1. CASE k \in 1 .. 8
    BY <1>2, <1>5, <1>7, <2>1 DEF WideAt
  <2>2. CASE k \notin 1 .. 8
    <3>1. k - 8 \in 1 .. 21 /\ k - 8 \notin {1} /\ 8 + (k - 8) = k
      BY <1>7, <2>2
    <3>2. m[k] = b[k - 8]
      BY <1>5, <3>1, Zenon
    <3> QED  BY <1>1, <3>1, <3>2 DEF WideAt
  <2> QED  BY <2>1, <2>2
<1>8. Len(m) = 29 /\ m[7] = LdFunctionPtr(24) /\ m[9] = LdMapByFd(9, mapFd) /\ m[29] = Exit
  BY <1>1, <1>2, <1>5, <1>6
<1> QED  BY <1>3, <1>4, <1>7, <1>8 DEF WideAt, EndsWithExit

\* A loop function whose instructions take one slot each, and begins as its head does.
LoopInsns(s) == Slim(s) /\ Len(s) >= 1 /\ s[1] = loopFuncHead[1]

\* So it stays when more such instructions are appended.
LEMMA LoopInsnsGrow ==
    ASSUME NEW s, NEW t, LoopInsns(s), Slim(t)
    PROVE  LoopInsns(s \o t) /\ Joined(s, t) /\ Len(s) \in Nat /\ Len(t) \in Nat
<1>1. Slim(s \o t) /\ Joined(s, t) /\ Len(s) \in Nat /\ Len(t) \in Nat
  BY SlimConcat, SlimIs DEF LoopInsns
<1>2. Len(s) >= 1 /\ s[1] = loopFuncHead[1]
  BY DEF LoopInsns
<1>3. Len(s \o t) = Len(s) + Len(t) /\ \A k \in 1 .. Len(s) : (s \o t)[k] = s[k]
  BY <1>1 DEF Joined
<1> DEFINE c == s \o t
<1> HIDE DEF c
<1>4. Len(c) >= 1 /\ c[1] = loopFuncHead[1]
  BY <1>1, <1>2, <1>3 DEF c
<1> QED  BY <1>1, <1>4 DEF LoopInsns, c

LEMMA LoopFunctionBegins ==
    ASSUME NEW value
    PROVE  LoopInsns(loopFuncHead \o loopFuncBody(value))
<1> DEFINE a == St("DW", 10, Reg(2), -8)
           h == <<a>>
           b == loopFuncBody(value)
<1>1. OneSlot(a)
  BY WrittenOperands, NamedOneSlot, Zenon
<1>2. loopFuncHead = h
  BY DEF loopFuncHead
<1> HIDE DEF a
<1>3. LoopInsns(h)
  <2> DEFINE S == {a}
  <2>1. h \in Seq(S) /\ Len(h) = 1 /\ h[1] = a /\ \A i \in S : OneSlot(i)
    BY <1>1
  <2> HIDE DEF h, S
  <2>2. Slim(h)
    BY <2>1, SoundSlim
  <2>3. h[1] = loopFuncHead[1]
    BY <1>2
  <2> QED  BY <2>1, <2>2, <2>3 DEF LoopInsns
<1>4. Slim(b)
  <2> DEFINE S == {Mov64(dst, Imm(value)) : dst \in 0 .. 9}
  <2>1. \A i \in S : OneSlot(i)
    BY WrittenOperands, Zenon
  <2>2. \A k \in 1 .. 9 : (IF k = 1 THEN 0 ELSE k) \in 0 .. 9
    OBVIOUS
  <2>3. \A k \in 1 .. 9 : Mov64(IF k = 1 THEN 0 ELSE k, Imm(value)) \in S
    BY <2>2, Zenon
  <2> HIDE DEF S
  <2>4. b \in Seq(S)
    BY <2>3 DEF loopFuncBody
  <2> HIDE DEF b
  <2> QED  BY <2>1, <2>4, SoundSlim
<1> HIDE DEF h, b
<1>5. LoopInsns(h \o b)
  BY <1>3, <1>4, LoopInsnsGrow
<1> QED  BY <1>2, <1>5, Zenon DEF b

\* What a turn appends takes one slot for each instruction.
LEMMA TurnsSlim ==
    ASSUME NEW left, NEW turn \in Turns(left)
    PROVE  Slim(turn)
<1>1. CASE turn \in {PointerBlock(randReg, -1) : randReg \in Registers \ {1, 2, 10}}
  <2>1. PICK r \in Registers \ {1, 2, 10} : turn = PointerBlock(r, -1)
    BY <1>1
  <2>2. r \in 0 .. 10
    BY OperandTypes
  <2> DEFINE a == Ld("DW", 2, 10, -8)
             b == Alu("And", InsClass.Alu, r, Imm(63))
             c == Alu("Mul", InsClass.Alu64, r, Imm(-1))
             d == Add64(2, Reg(r))
             e == St("B", 2, Imm(16), 0)
             f == Mov64(2, Imm(-1))
             s == <<a, b, c, d, e, f>>
             S == {a, b, c, d, e, f}
  <2>3. turn = s
    BY <2>1 DEF PointerBlock
  <2>4. OneSlot(a)
    BY WrittenOperands, NamedOneSlot, Zenon
  <2>5. OneSlot(e)
    BY WrittenOperands, NamedOneSlot, Zenon
  <2>6. OneSlot(d) /\ OneSlot(f)
    BY <2>2, WrittenOperands, Zenon
  <2>7. \A name \in DOMAIN AluOps : \A class \in {4, 7} : \A dst, n : OneSlot(Alu(name, class, dst, Imm(n)))
    BY NarrowOperands, NamedAluWellFormed, Zenon
  <2>8. InsClass.Alu \in {4, 7} /\ InsClass.Alu64 \in {4, 7}
    BY Numbers
  <2>9. OneSlot(b) /\ OneSlot(c)
    BY <2>7, <2>8, WrittenOperands
  <2> HIDE DEF a, b, c, d, e, f
  <2>10. s \in Seq(S) /\ \A i \in S : OneSlot(i)
    BY <2>4, <2>5, <2>6, <2>9
  <2> HIDE DEF s, S
  <2> QED  BY <2>3, <2>10, SoundSlim
<1>2. CASE turn \in {<<i>> : i \in {j \in TurnInstructions : j.form = "jmp" => j.off \in 1 .. left}}
  <2>1. PICK i \in TurnInstructions : turn = <<i>>
    BY <1>2
  <2>2. OneSlot(i)
    BY TurnsAssumption, DrawnOneSlot DEF RandomMemInstruction
  <2> DEFINE s == <<i>>
             S == {i}
  <2>3. s \in Seq(S) /\ \A j \in S : OneSlot(j)
    BY <2>2
  <2> HIDE DEF s, S
  <2>4. Slim(s)
    BY <2>3, SoundSlim
  <2> QED  BY <2>1, <2>4 DEF s
<1> QED  BY <1>1, <1>2 DEF Turns

LEMMA FooSlim == Slim(loopFuncFoo) /\ Len(loopFuncFoo) = 2 /\ loopFuncFoo[2] = Exit
<1> DEFINE a == Mov(0, Imm(0))
           t == <<a, Exit>>
           S == {a, Exit}
<1>1. OneSlot(a) /\ OneSlot(Exit)
  BY WrittenOperands, NamedOneSlot, Zenon
<1>2. loopFuncFoo = t
  BY DEF loopFuncFoo
<1> HIDE DEF a
<1>3. t \in Seq(S) /\ Len(t) = 2 /\ t[2] = Exit /\ \A i \in S : OneSlot(i)
  BY <1>1
<1> HIDE DEF t, S
<1> QED  BY <1>2, <1>3, SoundSlim

LEMMA FooEnds ==
    ASSUME NEW s, LoopInsns(s)
    PROVE  EndsWithExit(s \o loopFuncFoo)
<1> DEFINE t == loopFuncFoo
<1>1. Slim(t) /\ Len(t) = 2 /\ t[2] = Exit
  BY FooSlim
<1> HIDE DEF t
<1>2. Joined(s, t) /\ Len(s) \in Nat
  BY <1>1, LoopInsnsGrow
<1>3. Len(s \o t) = Len(s) + 2 /\ (s \o t)[Len(s) + 2] = Exit
  BY <1>1, <1>2 DEF Joined
<1> QED  BY <1>2, <1>3 DEF EndsWithExit, t

\* The program of the two functions.
LoopFunctions(mapFd, body) ==
    <<[insns |-> main(mapFd), info |-> [InsnOff |-> 0, TypeId |-> 2]],
      [insns |-> body, info |-> func_info_loop(main(mapFd))]>>

LEMMA LoopFunctionsAre ==
    ASSUME NEW mapFd, NEW body, NEW p, p = LoopFunctions(mapFd, body)
    PROVE  /\ Len(p) = 2 /\ p[1].insns = main(mapFd) /\ p[2].insns = body
           /\ p[1].info = [InsnOff |-> 0, TypeId |-> 2] /\ p[2].info = [InsnOff |-> 31, TypeId |-> 7]
<1> DEFINE m == main(mapFd)
<1>1. func_info_loop(m) = [InsnOff |-> 31, TypeId |-> 7]
  <2>1. Len(m) = 29
    BY MainShape
  <2> HIDE DEF m
  <2> QED  BY <2>1 DEF func_info_loop
<1> HIDE DEF m
<1>2. /\ Len(p) = 2 /\ p[1].insns = m /\ p[2].insns = body
      /\ p[1].info = [InsnOff |-> 0, TypeId |-> 2] /\ p[2].info = func_info_loop(m)
  BY DEF LoopFunctions, m
<1> QED  BY <1>1, <1>2 DEF m

\* What is appended to the second function.
Appended(p, more) == [p EXCEPT ![2].insns = @ \o more]

LEMMA LoopFunctionsGrow ==
    ASSUME NEW mapFd, NEW body, NEW more, NEW p, p = LoopFunctions(mapFd, body)
    PROVE  Appended(p, more) = LoopFunctions(mapFd, body \o more)
<1> DEFINE m == main(mapFd)
           f == [insns |-> m, info |-> [InsnOff |-> 0, TypeId |-> 2]]
           g(b) == [insns |-> b, info |-> func_info_loop(m)]
           c == body \o more
<1>1. \A b : LoopFunctions(mapFd, b) = <<f, g(b)>>
  BY DEF LoopFunctions
<1> HIDE DEF m
<1>2. \A b, d : g(b).insns = b /\ [g(b) EXCEPT !.insns = d] = g(d)
  <2>1. \A x, y, d : [[insns |-> x, info |-> y] EXCEPT !.insns = d] = [insns |-> d, info |-> y]
    OBVIOUS
  <2> QED  BY <2>1
<1> HIDE DEF f, g
<1>3. \A x, y, z : [<<x, y>> EXCEPT ![2] = z] = <<x, z>>
  OBVIOUS
<1>4. p = <<f, g(body)>> /\ p[2] = g(body)
  BY <1>1
<1>5. p[2].insns \o more = c
  BY <1>2, <1>4
<1> HIDE DEF c
<1>6. Appended(p, more) = [p EXCEPT ![2] = [p[2] EXCEPT !.insns = c]]
  BY <1>5 DEF Appended
<1>7. [p[2] EXCEPT !.insns = c] = g(c)
  BY <1>2, <1>4
<1>8. Appended(p, more) = <<f, g(c)>>
  <2>1. [<<f, g(body)>> EXCEPT ![2] = g(c)] = <<f, g(c)>>
    BY <1>3
  <2>2. Appended(p, more) = [p EXCEPT ![2] = g(c)]
    BY <1>6, <1>7
  <2>3. Appended(p, more) = [<<f, g(body)>> EXCEPT ![2] = g(c)]
    BY <1>4, <2>2
  <2> QED  BY <2>1, <2>3
<1> QED  BY <1>1, <1>8 DEF c

--------------------------------------------------------------------------------
(* The way of EncodeInstructions through a program *)

\* One or two functions, each of them ending with an exit.
ProgramSound(p) ==
    Len(p) \in {1, 2} /\ \A f \in 1 .. Len(p) : Sound(p[f].insns) /\ EndsWithExit(p[f].insns)

\* Function f and instruction i are next.
Place(p, f, i) ==
    /\ f \in 1 .. (Len(p) + 1) /\ i \in Nat \ {0}
    /\ f <= Len(p) => i <= Len(p[f].insns) + 1
    /\ f = Len(p) + 1 => i = 1

\* The instructions before that place.
Encoded(p, f, i) ==
    IF f = 1 THEN i - 1
    ELSE Len(p[1].insns) + (IF f = 2 THEN i - 1 ELSE Len(p[2].insns))

AtEnd(p, f, i) == (f = Len(p) /\ i = Len(p[f].insns) + 1) \/ f = Len(p) + 1

\* The kernel would find as many instructions in the buffer as were encoded, and
\* the exit of the last function once all of them are.
Counted(p, f, i, buff) ==
    \E S : /\ Reads(buff, S) /\ Complete(buff, S) /\ Cardinality(S) = Encoded(p, f, i)
           /\ AtEnd(p, f, i) => Len(buff) \in S /\ buff[Len(buff)] = EncodeWord(Exit)

Walk(p, f, i, buff) == ProgramSound(p) /\ buff \in Seq(Words) /\ Place(p, f, i) /\ Counted(p, f, i, buff)

\* The lengths of the functions.
LEMMA ProgramLengths ==
    ASSUME NEW p, ProgramSound(p)
    PROVE  /\ Len(p) \in {1, 2}
           /\ \A f \in 1 .. Len(p) : /\ Len(p[f].insns) \in Nat \ {0}
                                     /\ p[f].insns[Len(p[f].insns)] = Exit
                                     /\ \A i \in 1 .. Len(p[f].insns) : WellFormed(p[f].insns[i])
<1>1. Len(p) \in {1, 2} /\ \A f \in 1 .. Len(p) : Sound(p[f].insns) /\ EndsWithExit(p[f].insns)
  BY DEF ProgramSound
<1>2. \A s : EndsWithExit(s) => Len(s) \in Nat \ {0} /\ s[Len(s)] = Exit
  BY DEF EndsWithExit
<1>3. \A s : Sound(s) => \A i \in 1 .. Len(s) : WellFormed(s[i])
  BY SoundIs
<1> QED  BY <1>1, <1>2, <1>3, Zenon

LEMMA WalkBegins ==
    ASSUME NEW p, ProgramSound(p)
    PROVE  Walk(p, 1, 1, <<>>)
<1>1. Len(p) \in {1, 2} /\ 1 \in 1 .. Len(p)
  BY DEF ProgramSound
<1>2. Len(p[1].insns) \in Nat \ {0}
  BY <1>1, ProgramLengths
<1>3. Place(p, 1, 1) /\ ~AtEnd(p, 1, 1) /\ Encoded(p, 1, 1) = 0
  BY <1>1, <1>2 DEF Place, AtEnd, Encoded
<1>4. Reads(<<>>, {}) /\ Complete(<<>>, {})
  BY DEF Reads, Complete
<1>5. Cardinality({}) = 0
  BY FS_EmptySet
<1>6. Counted(p, 1, 1, <<>>)
  BY <1>3, <1>4, <1>5, Zenon DEF Counted
<1>7. <<>> \in Seq(Words)
  OBVIOUS
<1> QED  BY <1>3, <1>6, <1>7 DEF Walk

\* A turn of the inner loop.
LEMMA WalkInstruction ==
    ASSUME NEW p, NEW f, NEW i, NEW buff, Walk(p, f, i, buff), f <= Len(p), i <= Len(p[f].insns)
    PROVE  /\ Walk(p, f, i + 1, buff \o encodeInstruction(p[f].insns[i]))
           /\ f \in 1 .. Len(p) /\ i \in 1 .. Len(p[f].insns)
<1>0. ProgramSound(p) /\ buff \in Seq(Words) /\ Place(p, f, i)
  BY DEF Walk
<1>1. PICK S : Reads(buff, S) /\ Complete(buff, S) /\ Cardinality(S) = Encoded(p, f, i)
  BY DEF Walk, Counted
<1> DEFINE x == p[f].insns[i]
           more == buff \o encodeInstruction(x)
           all == S \cup {Len(buff) + 1}
           n == Len(p[f].insns)
<1>2. Len(p) \in {1, 2} /\ f \in 1 .. Len(p) /\ i \in Nat \ {0}
  BY <1>0 DEF Place, ProgramSound
<1>3. n \in Nat \ {0} /\ p[f].insns[n] = Exit /\ i \in 1 .. n
  BY <1>0, <1>2, ProgramLengths
<1>4. WellFormed(x)
  BY <1>0, <1>2, <1>3, ProgramLengths
<1> HIDE DEF x
<1>5. /\ more \in Seq(Words) /\ Reads(more, all) /\ Complete(more, all)
      /\ Cardinality(S) \in Nat /\ Cardinality(all) = Cardinality(S) + 1
      /\ Len(more) = Len(buff) + (IF OneSlot(x) THEN 1 ELSE 2)
      /\ more[Len(buff) + 1] = EncodeWord(x)
  BY <1>0, <1>1, <1>4, ReadsOneMore
<1> HIDE DEF more, all, n
<1>6. Place(p, f, i + 1)
  BY <1>2, <1>3 DEF Place, n
<1>7. Cardinality(all) = Encoded(p, f, i + 1)
  <2>1. Encoded(p, f, i + 1) = Encoded(p, f, i) + 1
    <3>1. CASE f = 1
      BY <1>2, <3>1 DEF Encoded
    <3>2. CASE f # 1
      <4>1. f = 2 /\ 1 \in 1 .. Len(p)
        BY <1>2, <3>2
      <4>2. Len(p[1].insns) \in Nat
        BY <1>0, <4>1, ProgramLengths
      <4> QED  BY <1>2, <4>1, <4>2 DEF Encoded
    <3> QED  BY <3>1, <3>2
  <2> QED  BY <1>1, <1>5, <2>1
<1>8. ASSUME AtEnd(p, f, i + 1) PROVE Len(more) \in all /\ more[Len(more)] = EncodeWord(Exit)
  <2>1. i = n
    BY <1>2, <1>3, <1>8 DEF AtEnd, n
  <2>2. x = Exit /\ OneSlot(x)
    BY <1>3, <2>1, NamedOneSlot DEF x
  <2>3. Len(more) = Len(buff) + 1
    BY <1>5, <2>2
  <2> QED  BY <1>5, <2>2, <2>3 DEF all
<1>9. Counted(p, f, i + 1, more)
  BY <1>5, <1>7, <1>8, Zenon DEF Counted
<1> QED  BY <1>0, <1>2, <1>3, <1>5, <1>6, <1>9 DEF Walk, more, x, n

\* The end of a turn of the outer loop.
LEMMA WalkFunction ==
    ASSUME NEW p, NEW f, NEW i, NEW buff, Walk(p, f, i, buff), f <= Len(p), i > Len(p[f].insns)
    PROVE  Walk(p, f + 1, 1, buff) /\ f \in 1 .. Len(p) /\ i = Len(p[f].insns) + 1
<1>0. ProgramSound(p) /\ buff \in Seq(Words) /\ Place(p, f, i)
  BY DEF Walk
<1>1. PICK S : /\ Reads(buff, S) /\ Complete(buff, S) /\ Cardinality(S) = Encoded(p, f, i)
               /\ AtEnd(p, f, i) => Len(buff) \in S /\ buff[Len(buff)] = EncodeWord(Exit)
  BY DEF Walk, Counted
<1>2. Len(p) \in {1, 2} /\ f \in 1 .. Len(p) /\ i \in Nat \ {0}
  BY <1>0 DEF Place, ProgramSound
<1>3. \A k \in 1 .. Len(p) : Len(p[k].insns) \in Nat \ {0}
  BY <1>0, ProgramLengths
<1>4. i = Len(p[f].insns) + 1
  BY <1>0, <1>2, <1>3 DEF Place
<1>5. Place(p, f + 1, 1)
  <2>1. f + 1 \in 1 .. (Len(p) + 1) /\ (f + 1 <= Len(p) => f + 1 \in 1 .. Len(p))
    BY <1>2
  <2>2. f + 1 <= Len(p) => 1 <= Len(p[f + 1].insns) + 1
    BY <1>3, <2>1
  <2> QED  BY <2>1, <2>2 DEF Place
<1>6. Encoded(p, f + 1, 1) = Encoded(p, f, i)
  <2>1. CASE f = 1
    <3>1. Len(p[1].insns) \in Nat
      BY <1>2, <1>3, <2>1
    <3> QED  BY <1>4, <2>1, <3>1 DEF Encoded
  <2>2. CASE f = 2
    <3>1. Len(p[1].insns) \in Nat /\ Len(p[2].insns) \in Nat
      BY <1>2, <1>3, <2>2
    <3> QED  BY <1>4, <2>2, <3>1 DEF Encoded
  <2> QED  BY <1>2, <2>1, <2>2
<1>7. AtEnd(p, f + 1, 1) => AtEnd(p, f, i)
  <2>1. f + 1 = Len(p) /\ 1 = Len(p[f + 1].insns) + 1 => FALSE
    <3>1. f + 1 = Len(p) => f + 1 \in 1 .. Len(p)
      BY <1>2
    <3>2. f + 1 = Len(p) => Len(p[f + 1].insns) \in Nat \ {0}
      BY <1>3, <3>1
    <3> QED  BY <3>2
  <2>2. f + 1 = Len(p) + 1 => f = Len(p)
    BY <1>2
  <2> QED  BY <1>4, <2>1, <2>2, Zenon DEF AtEnd
<1>8. Counted(p, f + 1, 1, buff)
  BY <1>1, <1>6, <1>7, Zenon DEF Counted
<1> QED  BY <1>0, <1>2, <1>4, <1>5, <1>8, Zenon DEF Walk

\* What is known once both loops have ended.
LEMMA WalkEnds ==
    ASSUME NEW p, NEW f, NEW i, NEW buff, Walk(p, f, i, buff), f > Len(p)
    PROVE  f = Len(p) + 1
BY DEF Walk, ProgramSound, Place

--------------------------------------------------------------------------------
(* The kernel stays in step *)

Fresh == fn = 1 /\ ins = 1 /\ prog_buff = <<>> /\ func_buff = <<>>

\* The program of the loop strategy, complete once its body is.
LoopPart ==
    \E mapFd, body : /\ prog = LoopFunctions(mapFd, body) /\ LoopInsns(body)
                     /\ epc # "body" => EndsWithExit(body)

\* The inductive invariant.
KInv ==
    /\ epc \in {"call", "body", "generate"} => Fresh
    /\ epc \in {"body", "generate", "encode", "done"} /\ asked.fn = "loop" => LoopPart
    /\ epc \in {"encode", "done"} /\ asked.fn \notin CbpfRequests =>
          Walk(prog, fn, ins, prog_buff) /\ (epc = "done" => fn = Len(prog) + 1)

LEMMA KInvInit == Init => KInv
BY DEF Init, EncodingInit, KInv, Fresh

\* What the caller of the library built is a program to go through.
LEMMA BuiltSound ==
    ASSUME Built
    PROVE  ProgramSound(prog')
<1>1. PICK insns : prog' = OneFunction(insns) /\ Sound(insns) /\ EndsWithExit(insns)
  BY DEF Built
<1>2. Len(prog') = 1 /\ prog'[1].insns = insns
  BY <1>1 DEF OneFunction
<1>3. \A f \in 1 .. Len(prog') : f = 1
  BY <1>2
<1> QED  BY <1>1, <1>2, <1>3 DEF ProgramSound

\* So is that of the loop strategy.
LEMMA LoopSound ==
    ASSUME NEW mapFd, NEW body, LoopInsns(body), EndsWithExit(body)
    PROVE  ProgramSound(LoopFunctions(mapFd, body))
<1> DEFINE p == LoopFunctions(mapFd, body)
<1>1. Len(p) = 2 /\ p[1].insns = main(mapFd) /\ p[2].insns = body
  BY LoopFunctionsAre
<1>2. Sound(main(mapFd)) /\ EndsWithExit(main(mapFd))
  BY MainShape DEF WideAt
<1>3. Sound(body)
  BY SlimIs DEF LoopInsns
<1> HIDE DEF p
<1>4. \A f \in 1 .. Len(p) : f = 1 \/ f = 2
  BY <1>1
<1>5. ProgramSound(p)
  BY <1>1, <1>2, <1>3, <1>4, Zenon DEF ProgramSound
<1> QED  BY <1>5 DEF p

\* The encoding begins.
LEMMA EncodingBegins ==
    ASSUME Fresh, UNCHANGED <<fn, ins, prog_buff>>, ProgramSound(prog')
    PROVE  Walk(prog', fn', ins', prog_buff')
<1>1. fn' = 1 /\ ins' = 1 /\ prog_buff' = <<>>
  BY DEF Fresh
<1>2. Walk(prog', 1, 1, <<>>)
  BY WalkBegins
<1> QED  BY <1>1, <1>2, Zenon

\* Only the loop strategy asks for the loop program.
LEMMA BuiltOrFilter ==
    ASSUME BuildOne
    PROVE  epc' = "panic" \/ FilterRequested \/ (Built /\ asked'.fn # "loop")
<1>1. CASE epc' # "panic" /\ (\/ BuildAlu \/ BuildJmp \/ BuildStore \/ BuildLoad \/ BuildAtomic
                              \/ BuildLdImm \/ BuildControl)
  <2>1. Requested
    BY <1>1, AluIsRequest, JmpIsRequest, StoreIsRequest, LoadIsRequest, AtomicIsRequest,
       LdImmIsRequest, ControlIsRequest, Zenon
  <2>2. asked'.fn # "loop"
    BY <2>1 DEF Requested, Constructors
  <2>3. Built
    BY <1>1, AluJmpBuilt, MemBuilt, Zenon
  <2> QED  BY <2>2, <2>3
<1>2. CASE BuildLookup \/ BuildSkbLoad \/ BuildRandom
  <2>1. asked'.fn \in {"lookup", "skb", "random"}
    BY <1>2, SequencesAreOther, RandomIsDrawn
  <2>2. Built
    BY <1>2, SequencesBuilt, RandomBuilt
  <2> QED  BY <2>1, <2>2
<1>3. CASE BuildCbpfAlu \/ BuildCbpfJmp \/ BuildCbpfMem \/ BuildCbpfRet \/ BuildCbpfMisc \/ BuildCbpfRandom
  BY <1>3, CbpfAluIsRequest, CbpfJmpIsRequest, CbpfMemIsRequest, CbpfRetIsRequest, CbpfMiscIsRequest,
     CbpfRandomIsRequest, Zenon
<1> QED  BY <1>1, <1>2, <1>3, Zenon DEF BuildOne

LEMMA BuildOneInStep == KInv /\ BuildOne => KInv'
<1> SUFFICES ASSUME KInv, BuildOne PROVE KInv'
  OBVIOUS
<1>1. Fresh
  BY DEF KInv, BuildOne
<1>2. fn' = fn /\ ins' = ins /\ prog_buff' = prog_buff /\ epc' \in {"panic", "encode", "filters"}
  <2> DEFINE same == fn' = fn /\ ins' = ins /\ prog_buff' = prog_buff
                     /\ epc' \in {"panic", "encode", "filters"}
  <2>1. ASSUME NEW what, NEW insns, Build(what, insns) PROVE same
    BY <2>1 DEF Build, Hand
  <2>2. ASSUME NEW what, NEW i, BuildFilter(what, i) PROVE same
    BY <2>2 DEF BuildFilter, Hand
  <2> HIDE DEF same
  <2>3. BuildAlu \/ BuildJmp \/ BuildStore \/ BuildLoad \/ BuildAtomic => same
    BY <2>1, Zenon DEF BuildAlu, BuildJmp, BuildStore, BuildLoad, BuildAtomic
  <2>4. BuildLookup \/ BuildSkbLoad \/ BuildLdImm \/ BuildControl \/ BuildRandom => same
    BY <2>1, Zenon DEF BuildLookup, BuildSkbLoad, BuildLdImm, BuildControl, BuildRandom
  <2>5. BuildCbpfAlu \/ BuildCbpfJmp \/ BuildCbpfMem \/ BuildCbpfRet \/ BuildCbpfMisc \/ BuildCbpfRandom => same
    BY <2>2, ZenonT(40) DEF BuildCbpfAlu, BuildCbpfJmp, BuildCbpfMem, BuildCbpfRet, BuildCbpfMisc, BuildCbpfRandom
  <2> QED  BY <2>3, <2>4, <2>5 DEF BuildOne, same
<1>3. CASE epc' = "panic"
  BY <1>3 DEF KInv
<1>4. CASE FilterRequested
  <2>1. asked'.fn \in CbpfRequests /\ asked'.fn # "loop"
    BY <1>4 DEF FilterRequested, CbpfRequests
  <2> QED  BY <1>2, <2>1 DEF KInv
<1>5. CASE Built /\ asked'.fn # "loop"
  <2>1. ProgramSound(prog')
    BY <1>5, BuiltSound
  <2>2. Walk(prog', fn', ins', prog_buff')
    BY <1>1, <1>2, <2>1, EncodingBegins
  <2> QED  BY <1>2, <1>5, <2>2 DEF KInv
<1> QED  BY <1>3, <1>4, <1>5, BuiltOrFilter

LEMMA LoopInStep ==
    EInv /\ KInv /\ (GenerateProgram \/ AppendTurn \/ AppendFoo \/ GenerateBtf \/ ReturnProgram) => KInv'
<1> SUFFICES ASSUME EInv, KInv PROVE GenerateProgram \/ AppendTurn \/ AppendFoo \/ GenerateBtf
                                     \/ ReturnProgram => KInv'
  OBVIOUS
<1>1. ASSUME GenerateProgram PROVE KInv'
  <2>1. PICK mapFd \in MapFds, value \in Draws :
            Hand([fn |-> "loop"], LoopFunctions(mapFd, loopFuncHead \o loopFuncBody(value)), "body")
    BY <1>1 DEF GenerateProgram, LoopFunctions
  <2> DEFINE body == loopFuncHead \o loopFuncBody(value)
  <2>2. prog' = LoopFunctions(mapFd, body) /\ epc' \in {"panic", "body"}
        /\ UNCHANGED <<fn, ins, prog_buff, func_buff>>
    BY <2>1 DEF Hand
  <2>3. LoopInsns(body)
    BY LoopFunctionBegins
  <2> HIDE DEF body
  <2>4. Fresh'
    BY <1>1, <2>2 DEF KInv, GenerateProgram, Fresh
  <2>5. epc' = "body" => LoopPart'
    BY <2>2, <2>3, Zenon DEF LoopPart, LoopInsns, LoopFunctions
  <2> QED  BY <2>2, <2>4, <2>5 DEF KInv
<1>2. ASSUME epc = "body", epc' \in {"body", "generate"}, UNCHANGED <<asked, fn, ins, prog_buff, func_buff>>,
             NEW more, prog' = [prog EXCEPT ![2].insns = @ \o more], Slim(more),
             epc' = "generate" => \A s : LoopInsns(s) => EndsWithExit(s \o more)
      PROVE  KInv'
  <2>1. asked.fn = "loop" /\ Fresh /\ LoopPart
    BY <1>2 DEF EInv, KInv
  <2>2. PICK mapFd, body : prog = LoopFunctions(mapFd, body) /\ LoopInsns(body)
    BY <2>1 DEF LoopPart
  <2>3. prog' = LoopFunctions(mapFd, body \o more)
    <3>1. prog' = Appended(prog, more)
      BY <1>2 DEF Appended
    <3> QED  BY <2>2, <3>1, LoopFunctionsGrow
  <2>4. LoopInsns(body \o more) /\ (epc' # "body" => EndsWithExit(body \o more))
    BY <1>2, <2>2, LoopInsnsGrow
  <2>5. Fresh'
    BY <1>2, <2>1 DEF Fresh
  <2>6. LoopPart'
    BY <2>3, <2>4, Zenon DEF LoopPart, LoopInsns, LoopFunctions
  <2> QED  BY <1>2, <2>5, <2>6 DEF KInv
<1>3. ASSUME AppendTurn PROVE KInv'
  <2>1. PICK turn \in Turns(instructionCount') : prog' = [prog EXCEPT ![2].insns = @ \o turn]
    BY <1>3 DEF AppendTurn
  <2>2. Slim(turn)
    BY TurnsSlim
  <2>3. epc = "body" /\ epc' = "body" /\ UNCHANGED <<asked, fn, ins, prog_buff, func_buff>>
    BY <1>3 DEF AppendTurn
  <2> QED  BY <1>2, <2>1, <2>2, <2>3
<1>4. ASSUME AppendFoo PROVE KInv'
  <2>1. epc = "body" /\ epc' = "generate" /\ UNCHANGED <<asked, fn, ins, prog_buff, func_buff>>
        /\ prog' = [prog EXCEPT ![2].insns = @ \o loopFuncFoo]
    BY <1>4 DEF AppendFoo
  <2>2. Slim(loopFuncFoo) /\ \A s : LoopInsns(s) => EndsWithExit(s \o loopFuncFoo)
    BY FooSlim, FooEnds
  <2> QED  BY <1>2, <2>1, <2>2
<1>5. ASSUME GenerateBtf PROVE KInv'
  <2>1. UNCHANGED <<epc, asked, prog, fn, ins, prog_buff, func_buff>>
    BY <1>5 DEF GenerateBtf, evars
  <2> QED  BY <2>1 DEF KInv, Fresh, LoopPart
<1>6. ASSUME ReturnProgram PROVE KInv'
  <2>1. epc = "generate" /\ epc' = "encode" /\ UNCHANGED <<asked, prog, fn, ins, prog_buff, func_buff>>
    BY <1>6 DEF ReturnProgram
  <2>2. asked.fn = "loop" /\ Fresh /\ LoopPart
    BY <2>1 DEF EInv, KInv
  <2>3. PICK mapFd, body : prog = LoopFunctions(mapFd, body) /\ LoopInsns(body) /\ EndsWithExit(body)
    BY <2>1, <2>2 DEF LoopPart
  <2>4. ProgramSound(prog')
    BY <2>1, <2>3, LoopSound
  <2>5. Walk(prog', fn', ins', prog_buff')
    BY <2>1, <2>2, <2>4, EncodingBegins
  <2>6. LoopPart'
    BY <2>1, <2>3, Zenon DEF LoopPart, LoopInsns, LoopFunctions
  <2> QED  BY <2>1, <2>5, <2>6 DEF KInv
<1> QED  BY <1>1, <1>3, <1>4, <1>5, <1>6

\* The encoder leaves the program alone.
LEMMA SameLoop ==
    ASSUME epc \in {"body", "generate", "encode", "done"}, asked.fn = "loop" => LoopPart,
           epc = "body" => epc' = "body", UNCHANGED <<asked, prog>>
    PROVE  asked'.fn = "loop" => LoopPart'
<1> SUFFICES ASSUME asked'.fn = "loop" PROVE LoopPart'
  OBVIOUS
<1>1. PICK mapFd, body : /\ prog = LoopFunctions(mapFd, body) /\ LoopInsns(body)
                         /\ epc # "body" => EndsWithExit(body)
  BY DEF LoopPart
<1>2. prog' = LoopFunctions(mapFd, body) /\ (epc' # "body" => EndsWithExit(body))
  BY <1>1
<1> QED  BY <1>1, <1>2, Zenon DEF LoopPart, LoopInsns, LoopFunctions

LEMMA EncodingInStep == EInv /\ KInv /\ EncodingStep => KInv'
<1> SUFFICES ASSUME EInv, KInv, EncodingStep PROVE KInv'
  OBVIOUS
<1>1. CASE EncodeInstruction
  <2>1. /\ epc = "encode" /\ epc' = "encode" /\ UNCHANGED <<asked, prog>> /\ fn' = fn
        /\ fn <= Len(prog) /\ ins <= Len(prog[fn].insns) /\ ins' = ins + 1
        /\ prog_buff' = prog_buff \o encodeInstruction(prog[fn].insns[ins])
    BY <1>1 DEF EncodeInstruction
  <2>2. Walk(prog, fn, ins, prog_buff)
    BY <2>1 DEF EInv, KInv
  <2>3. Walk(prog, fn, ins + 1, prog_buff \o encodeInstruction(prog[fn].insns[ins]))
    BY <2>1, <2>2, WalkInstruction, Zenon
  <2>4. Walk(prog', fn', ins', prog_buff')
    BY <2>1, <2>3
  <2> QED  BY <2>1, <2>4, SameLoop DEF KInv
<1>2. CASE EncodeFuncInfo
  <2>1. /\ epc = "encode" /\ epc' = "encode" /\ UNCHANGED <<asked, prog, prog_buff>>
        /\ fn <= Len(prog) /\ ins > Len(prog[fn].insns) /\ fn' = fn + 1 /\ ins' = 1
    BY <1>2 DEF EncodeFuncInfo
  <2>2. Walk(prog, fn, ins, prog_buff)
    BY <2>1 DEF EInv, KInv
  <2>3. Walk(prog, fn + 1, 1, prog_buff)
    BY <2>1, <2>2, WalkFunction, Zenon
  <2>4. Walk(prog', fn', ins', prog_buff')
    BY <2>1, <2>3
  <2> QED  BY <2>1, <2>4, SameLoop DEF KInv
<1>3. CASE ReturnBuffers
  <2>1. /\ epc \in {"encode", "filters"} /\ epc' = "done" /\ (epc = "encode" => fn > Len(prog))
        /\ UNCHANGED <<asked, prog, fn, ins, prog_buff>>
    BY <1>3 DEF ReturnBuffers
  <2>2. CASE epc = "encode"
    <3>1. Walk(prog, fn, ins, prog_buff)
      BY <2>2 DEF EInv, KInv
    <3>2. fn = Len(prog) + 1
      BY <2>1, <2>2, <3>1, WalkEnds
    <3> QED  BY <2>1, <2>2, <3>1, <3>2, SameLoop DEF KInv
  <2>3. CASE epc = "filters"
    <3>1. asked'.fn \in CbpfRequests /\ asked'.fn # "loop"
      BY <2>1, <2>3 DEF EInv, CbpfRequests
    <3> QED  BY <2>1, <3>1 DEF KInv
  <2> QED  BY <2>1, <2>2, <2>3
<1>4. CASE EncodeFilter
  BY <1>4 DEF EncodeFilter, KInv
<1>5. CASE Again
  BY <1>5 DEF Again, KInv, Fresh
<1>6. CASE Ended
  BY <1>6 DEF Ended, KInv, evars
<1> QED  BY <1>1, <1>2, <1>3, <1>4, <1>5, <1>6 DEF EncodingStep

LEMMA KInvStep == EInv /\ KInv /\ [Next]_vars => KInv'
<1> SUFFICES ASSUME EInv, KInv, [Next]_vars PROVE KInv'
  OBVIOUS
<1>1. CASE UNCHANGED vars
  BY <1>1 DEF vars, evars, KInv, Fresh, LoopPart
<1> QED
  BY <1>1, BuildOneInStep, LoopInStep, EncodingInStep DEF Next

LEMMA InStepInvariant == Spec => [](EInv /\ KInv)
BY EInvInit, EInvStep, KInvInit, KInvStep, PTL DEF Spec

\* The kernel reads an exit where the exit is.
LEMMA ExitWord ==
    /\ EncodeWord(Exit) = Bits(InsClass.Jmp + JmpOps.Exit) /\ Opcode(Exit) # LdDwImm
<1>1. InsClass.Jmp = 5 /\ JmpOps.Exit = 144 /\ SrcOperand.Immediate = 0
  BY DEF InsClass, JmpOps, SrcOperand
<1> DEFINE x == Instruction("jmp", 144, 0, 5, 0, 0, 0, 0, <<>>)
<1>2. Exit = x
  BY <1>1 DEF Exit, newJmpInstruction, FromSrc, Imm
<1>3. /\ x.form = "jmp" /\ x.op = 144 /\ x.source = 0 /\ x.class = 5 /\ x.dst = 0 /\ x.src = 0
      /\ x.off = 0 /\ x.imm = 0
  BY InstructionFields
<1> HIDE DEF x
<1>4. Opcode(x) = Bits(149)
  <2>1. Opcode(x) = encodeAluJmpOpcode(144, 5, 0)
    BY <1>3, Zenon DEF Opcode
  <2>2. encodeAluJmpOpcode(16 * 9, 5, 0) = Bits(5 + 16 * 9 + 0)
    BY AluJmpSum
  <2> QED  BY <2>1, <2>2
<1>5. Bits(149) \subseteq 0 .. 7
  BY SmallBits
<1>6. \A b \in Int : b \in EncodeWord(x) <=> b \in Bits(149)
  <2>1. \A b \in Int : b \in EncodeWord(x) <=>
                 \/ b \in 0 .. 7 /\ b \in Opcode(x)
                 \/ b \in 8 .. 11 /\ b - 8 \in Bits(x.dst)
                 \/ b \in 12 .. 15 /\ b - 12 \in Bits(x.src)
                 \/ b \in 16 .. 31 /\ b - 16 \in Bits(x.off)
                 \/ b \in 32 .. 63 /\ b - 32 \in Bits(x.imm)
    BY Parts
  <2> QED  BY <1>3, <1>4, <1>5, <2>1, SignBits
<1>7. EncodeWord(x) = Bits(149)
  <2>1. \A b \in EncodeWord(x) : b \in Int
    BY WordType DEF Words
  <2>2. \A b \in Bits(149) : b \in Int
    BY <1>5
  <2> QED  BY <1>6, <2>1, <2>2, Zenon
<1>8. OneSlot(Exit)
  BY NamedOneSlot
<1> QED  BY <1>1, <1>2, <1>7, <1>8 DEF OneSlot

\* The instructions of a program, added up.
LEMMA InstructionsOf ==
    ASSUME ProgramSound(prog)
    PROVE  (LET upTo[f \in 0 .. Len(prog)] == IF f = 0 THEN 0 ELSE upTo[f - 1] + Len(prog[f].insns)
            IN  upTo[Len(prog)]) = Encoded(prog, Len(prog) + 1, 1)
<1> DEFINE D == 0 .. Len(prog)
           Body(g) == [f \in D |-> IF f = 0 THEN 0 ELSE g[f - 1] + Len(prog[f].insns)]
           u == CHOOSE g : g = Body(g)
           h == [f \in D |-> IF f = 0 THEN 0 ELSE IF f = 1 THEN Len(prog[1].insns)
                             ELSE Len(prog[1].insns) + Len(prog[2].insns)]
<1>1. Len(prog) \in {1, 2} /\ \A f \in 1 .. Len(prog) : Len(prog[f].insns) \in Nat
  BY ProgramLengths
<1>2. h = Body(h)
  <2>1. ASSUME NEW f \in D PROVE h[f] = IF f = 0 THEN 0 ELSE h[f - 1] + Len(prog[f].insns)
    <3>1. f = 0 \/ f = 1 \/ (f = 2 /\ Len(prog) = 2)
      BY <1>1
    <3>2. h[0] = 0 /\ h[1] = Len(prog[1].insns) /\ Len(prog[1].insns) \in Nat
      BY <1>1
    <3>3. Len(prog) = 2 => h[2] = Len(prog[1].insns) + Len(prog[2].insns)
      BY <1>1
    <3> HIDE DEF h, D
    <3>4. CASE f = 0
      BY <3>2, <3>4
    <3>5. CASE f = 1
      <4>1. f # 0 /\ f - 1 = 0
        BY <3>5
      <4>2. h[f - 1] = 0
        BY <3>2, <4>1
      <4>3. 0 + Len(prog[1].insns) = Len(prog[1].insns)
        BY <3>2
      <4> QED  BY <3>2, <3>5, <4>1, <4>2, <4>3, Zenon
    <3>6. CASE f = 2 /\ Len(prog) = 2
      <4>1. f # 0 /\ f - 1 = 1
        BY <3>6
      <4>2. h[f - 1] = Len(prog[1].insns)
        BY <3>2, <4>1
      <4> QED  BY <3>3, <3>6, <4>1, <4>2, Zenon
    <3> QED  BY <3>1, <3>4, <3>5, <3>6
  <2>2. h = [f \in D |-> h[f]]
    OBVIOUS
  <2> HIDE DEF h, D
  <2>3. [f \in D |-> h[f]] = Body(h)
    BY <2>1, Zenon
  <2> QED  BY <2>2, <2>3, Zenon
<1> HIDE DEF h
<1>3. u = Body(u)
  BY <1>2, Zenon
<1> HIDE DEF u
<1>4. \A f \in D : u[f] = IF f = 0 THEN 0 ELSE u[f - 1] + Len(prog[f].insns)
  BY <1>3, Zenon
<1>5. u[Len(prog)] = Encoded(prog, Len(prog) + 1, 1)
  <2>1. 0 \in D /\ 1 \in D /\ (Len(prog) = 2 => 2 \in D)
    BY <1>1
  <2>2. 1 - 1 = 0 /\ 2 - 1 = 1 /\ 1 # 0 /\ 2 # 0
    OBVIOUS
  <2>3. u[0] = 0 /\ u[1] = u[0] + Len(prog[1].insns)
    BY <1>4, <2>1, <2>2, Zenon
  <2>4. Len(prog) = 2 => u[2] = u[1] + Len(prog[2].insns)
    BY <1>4, <2>1, <2>2, Zenon
  <2>5. Len(prog[1].insns) \in Nat
    BY <1>1
  <2>6. u[1] = Len(prog[1].insns)
    BY <2>3, <2>5
  <2>7. CASE Len(prog) = 1
    <3>1. Encoded(prog, 2, 1) = Len(prog[1].insns)
      BY <2>5 DEF Encoded
    <3>2. Len(prog) + 1 = 2
      BY <2>7
    <3> QED  BY <2>6, <2>7, <3>1, <3>2, Zenon
  <2>8. CASE Len(prog) = 2
    <3>1. Encoded(prog, 3, 1) = Len(prog[1].insns) + Len(prog[2].insns)
      BY DEF Encoded
    <3>2. Len(prog) + 1 = 3
      BY <2>8
    <3> QED  BY <2>4, <2>6, <2>8, <3>1, <3>2, Zenon
  <2> QED  BY <1>1, <2>7, <2>8
<1> QED  BY <1>5, Zenon DEF u

\* The kernel finds as many instructions as the caller put into the program, one
\* of the library, a sequence or the two functions of the loop strategy, whatever
\* is drawn for it and however long its body is, and ends with the exit.
THEOREM KernelKeepsStep == Spec => []KernelStaysInStep
<1>1. ASSUME KInv, Program PROVE KernelStaysInStep
  <2>1. Walk(prog, fn, ins, prog_buff) /\ fn = Len(prog) + 1
    BY <1>1 DEF KInv, Program, CbpfRequests
  <2>2. ProgramSound(prog) /\ prog_buff \in Seq(Words) /\ Len(prog_buff) \in Nat
    BY <2>1 DEF Walk
  <2>3. ins = 1 /\ AtEnd(prog, fn, ins)
    BY <2>1 DEF Walk, Place, AtEnd
  <2>4. PICK S : /\ Reads(prog_buff, S) /\ Cardinality(S) = Encoded(prog, fn, ins)
                 /\ Len(prog_buff) \in S /\ prog_buff[Len(prog_buff)] = EncodeWord(Exit)
    BY <2>1, <2>3 DEF Walk, Counted
  <2>5. Starts = S
    BY <2>2, <2>4, StartsAre
  <2>6. Cardinality(Starts) =
           LET upTo[f \in 0 .. Len(prog)] == IF f = 0 THEN 0 ELSE upTo[f - 1] + Len(prog[f].insns)
           IN  upTo[Len(prog)]
    BY <2>1, <2>2, <2>3, <2>4, <2>5, InstructionsOf, Zenon
  <2> QED  BY <2>4, <2>5, <2>6, ExitWord, Zenon DEF KernelStaysInStep
<1>2. KInv => KernelStaysInStep
  BY <1>1 DEF KernelStaysInStep
<1> QED  BY <1>2, InStepInvariant, PTL

--------------------------------------------------------------------------------
(* The kernel reads the type information *)

\* Where the types begin, and the section ends.
Begins == <<0, 3, 6, 10, 16, 19, 26, 29>>

Halves == SUBSET (0 .. 31)

\* Type t is written behind word p.
TypeAt(buff, p, t) ==
    /\ p + 3 + Len(t.extra) <= Len(buff)
    /\ buff[p + 1] = Bits(t.name_off) /\ buff[p + 2] = encodeTypeInfo(t)
    /\ buff[p + 3] = Bits(t.size_or_type)
    /\ \A k \in 1 .. Len(t.extra) : buff[p + 3 + k] = Bits(t.extra[k])

\* The kernel's rules for one type, with the names inside the string section.
TypeSound(t) ==
    /\ t.name_off \in 0 .. 12 /\ t.vlen \in 0 .. 7 /\ t.kind \in 0 .. 15
    /\ Len(t.extra) = CASE t.kind = 1 -> 1 [] t.kind = 4 -> 3 * t.vlen [] t.kind = 13 -> 2 * t.vlen
                        [] OTHER -> 0
    /\ t.kind \in {2, 12, 13} => t.size_or_type \in 0 .. 7
    /\ t.kind = 4 => \A n \in 1 .. t.vlen : t.extra[3 * n - 2] \in 0 .. 12 /\ t.extra[3 * n - 1] \in 0 .. 7
    /\ t.kind = 13 => \A n \in 1 .. t.vlen : t.extra[2 * n - 1] \in 0 .. 12 /\ t.extra[2 * n] \in 0 .. 7

LEMMA TypeTable ==
    /\ Len(types) = 7
    /\ \A id \in 1 .. 7 : /\ TypeSound(types[id]) /\ Begins[id] \in Nat /\ Len(types[id].extra) \in Nat
                          /\ Begins[id + 1] = Begins[id] + 3 + Len(types[id].extra)
    /\ \A id \in 1 .. 7 : types[id].kind = 12 =>
          types[id].size_or_type \in 1 .. 7 /\ types[types[id].size_or_type].kind = 13
    /\ types[2].kind = 12 /\ types[7].kind = 12
<1>1. /\ Len(types) = 7
      /\ types[1] = BtfType(0, 0, "FUNCPROTO", 0, <<>>)
      /\ types[2] = BtfType(1, 0, "FUNC", 1, <<>>)
      /\ types[3] = BtfType(1, 0, "INT", 4, <<16777248>>)
      /\ types[4] = BtfType(1, 1, "STRUCT", 4, <<1, 3, 0>>)
      /\ types[5] = BtfType(0, 0, "PTR", 4, <<>>)
      /\ types[6] = BtfType(0, 2, "FUNCPROTO", 3, <<1, 3, 1, 5>>)
      /\ types[7] = BtfType(1, 0, "FUNC", 6, <<>>)
  BY DEF types
<1>2. /\ BtfKind["FUNCPROTO"] = 13 /\ BtfKind["FUNC"] = 12 /\ BtfKind["INT"] = 1
      /\ BtfKind["STRUCT"] = 4 /\ BtfKind["PTR"] = 2
  BY DEF BtfKind
<1>3. \A name, vlen, kind, of, extra :
         LET t == BtfType(name, vlen, kind, of, extra)
         IN  /\ t.name_off = name /\ t.vlen = vlen /\ t.kind = BtfKind[kind] /\ t.size_or_type = of
             /\ t.extra = extra
  BY DEF BtfType
<1>4. TypeSound(types[1]) /\ types[1].kind = 13 /\ Len(types[1].extra) = 0
  <2>1. /\ types[1].name_off = 0 /\ types[1].vlen = 0 /\ types[1].kind = 13
        /\ types[1].size_or_type = 0 /\ types[1].extra = <<>>
    BY <1>1, <1>2, <1>3
  <2> QED  BY <2>1 DEF TypeSound
<1>5. TypeSound(types[2]) /\ types[2].kind = 12 /\ types[2].size_or_type = 1 /\ Len(types[2].extra) = 0
  <2>1. /\ types[2].name_off = 1 /\ types[2].vlen = 0 /\ types[2].kind = 12
        /\ types[2].size_or_type = 1 /\ types[2].extra = <<>>
    BY <1>1, <1>2, <1>3
  <2> QED  BY <2>1 DEF TypeSound
<1>6. TypeSound(types[3]) /\ types[3].kind = 1 /\ Len(types[3].extra) = 1
  <2>1. /\ types[3].name_off = 1 /\ types[3].vlen = 0 /\ types[3].kind = 1
        /\ types[3].size_or_type = 4 /\ types[3].extra = <<16777248>>
    BY <1>1, <1>2, <1>3
  <2> QED  BY <2>1 DEF TypeSound
<1>7. TypeSound(types[4]) /\ types[4].kind = 4 /\ Len(types[4].extra) = 3
  <2>1. /\ types[4].name_off = 1 /\ types[4].vlen = 1 /\ types[4].kind = 4
        /\ types[4].size_or_type = 4 /\ types[4].extra = <<1, 3, 0>>
    BY <1>1, <1>2, <1>3
  <2> QED  BY <2>1 DEF TypeSound
<1>8. TypeSound(types[5]) /\ types[5].kind = 2 /\ Len(types[5].extra) = 0
  <2>1. /\ types[5].name_off = 0 /\ types[5].vlen = 0 /\ types[5].kind = 2
        /\ types[5].size_or_type = 4 /\ types[5].extra = <<>>
    BY <1>1, <1>2, <1>3
  <2> QED  BY <2>1 DEF TypeSound
<1>9. TypeSound(types[6]) /\ types[6].kind = 13 /\ Len(types[6].extra) = 4
  <2>1. /\ types[6].name_off = 0 /\ types[6].vlen = 2 /\ types[6].kind = 13
        /\ types[6].size_or_type = 3 /\ types[6].extra = <<1, 3, 1, 5>>
    BY <1>1, <1>2, <1>3
  <2>2. \A n \in 1 .. 2 : n = 1 \/ n = 2
    OBVIOUS
  <2>3. \A n \in 1 .. 2 : types[6].extra[2 * n - 1] \in 0 .. 12 /\ types[6].extra[2 * n] \in 0 .. 7
    BY <2>1, <2>2
  <2> QED  BY <2>1, <2>3 DEF TypeSound
<1>10. TypeSound(types[7]) /\ types[7].kind = 12 /\ types[7].size_or_type = 6 /\ Len(types[7].extra) = 0
  <2>1. /\ types[7].name_off = 1 /\ types[7].vlen = 0 /\ types[7].kind = 12
        /\ types[7].size_or_type = 6 /\ types[7].extra = <<>>
    BY <1>1, <1>2, <1>3
  <2> QED  BY <2>1 DEF TypeSound
<1>11. /\ Begins[1] = 0 /\ Begins[2] = 3 /\ Begins[3] = 6 /\ Begins[4] = 10 /\ Begins[5] = 16
       /\ Begins[6] = 19 /\ Begins[7] = 26 /\ Begins[8] = 29
  BY DEF Begins
<1>12. ASSUME NEW id \in 1 .. 7
       PROVE  /\ TypeSound(types[id]) /\ Begins[id] \in Nat /\ Len(types[id].extra) \in Nat
              /\ Begins[id + 1] = Begins[id] + 3 + Len(types[id].extra)
  <2>1. id = 1 \/ id = 2 \/ id = 3 \/ id = 4 \/ id = 5 \/ id = 6 \/ id = 7
    OBVIOUS
  <2>2. TypeSound(types[id])
    BY <1>4, <1>5, <1>6, <1>7, <1>8, <1>9, <1>10, <2>1
  <2>3. Begins[id + 1] = Begins[id] + 3 + Len(types[id].extra)
    <3>1. CASE id = 1
      <4>1. id + 1 = 2 /\ 3 = 0 + 3 + 0
        BY <3>1
      <4> QED  BY <1>4, <1>11, <3>1, <4>1, Zenon
    <3>2. CASE id = 2
      <4>1. id + 1 = 3 /\ 6 = 3 + 3 + 0
        BY <3>2
      <4> QED  BY <1>5, <1>11, <3>2, <4>1, Zenon
    <3>3. CASE id = 3
      <4>1. id + 1 = 4 /\ 10 = 6 + 3 + 1
        BY <3>3
      <4> QED  BY <1>6, <1>11, <3>3, <4>1, Zenon
    <3>4. CASE id = 4
      <4>1. id + 1 = 5 /\ 16 = 10 + 3 + 3
        BY <3>4
      <4> QED  BY <1>7, <1>11, <3>4, <4>1, Zenon
    <3>5. CASE id = 5
      <4>1. id + 1 = 6 /\ 19 = 16 + 3 + 0
        BY <3>5
      <4> QED  BY <1>8, <1>11, <3>5, <4>1, Zenon
    <3>6. CASE id = 6
      <4>1. id + 1 = 7 /\ 26 = 19 + 3 + 4
        BY <3>6
      <4> QED  BY <1>9, <1>11, <3>6, <4>1, Zenon
    <3>7. CASE id = 7
      <4>1. id + 1 = 8 /\ 29 = 26 + 3 + 0
        BY <3>7
      <4> QED  BY <1>10, <1>11, <3>7, <4>1, Zenon
    <3> QED  BY <2>1, <3>1, <3>2, <3>3, <3>4, <3>5, <3>6, <3>7
  <2>4. Len(types[id].extra) \in Nat
    BY <1>4, <1>5, <1>6, <1>7, <1>8, <1>9, <1>10, <2>1
  <2>5. Begins[id] \in Nat
    BY <1>11, <2>1
  <2> QED  BY <2>2, <2>3, <2>4, <2>5
<1>13. ASSUME NEW id \in 1 .. 7, types[id].kind = 12
       PROVE  types[id].size_or_type \in 1 .. 7 /\ types[types[id].size_or_type].kind = 13
  <2>1. id = 1 \/ id = 2 \/ id = 3 \/ id = 4 \/ id = 5 \/ id = 6 \/ id = 7
    OBVIOUS
  <2> QED  BY <1>4, <1>5, <1>6, <1>7, <1>8, <1>9, <1>10, <1>13, <2>1
<1> QED  BY <1>1, <1>5, <1>10, <1>12, <1>13

\* The info word holds the number of members and the kind.
LEMMA InfoFields ==
    ASSUME NEW t, t.vlen \in 0 .. 7, t.kind \in 0 .. 15
    PROVE  /\ encodeTypeInfo(t) \in Halves
           /\ Field(encodeTypeInfo(t), 0, 16) = Bits(t.vlen)
           /\ Field(encodeTypeInfo(t), 24, 5) = Bits(t.kind)
<1> DEFINE v == Bits(t.vlen)
           k == Bits(t.kind)
           s == Shl(k, 24, 32)
           w == v \cup s
<1>1. v \subseteq 0 .. 3 /\ k \subseteq 0 .. 3
  BY SmallBits
<1>2. w = encodeTypeInfo(t)
  BY DEF encodeTypeInfo
<1> HIDE DEF v, k
<1>3. \A b \in Int : b \in s <=> b - 24 \in k /\ b \in 0 .. 31
  BY <1>1 DEF Shl
<1>4. s \subseteq 0 .. 31
  BY DEF Shl
<1> HIDE DEF s
<1>5. w \in Halves
  BY <1>1, <1>4 DEF Halves
<1>6. Field(w, 0, 16) = v
  <2>1. v \in SUBSET (0 .. (16 - 1))
    BY <1>1
  <2>2. \A c \in 0 .. (16 - 1) : c + 0 \in w <=> c \in v
    BY <1>1, <1>3
  <2> HIDE DEF w
  <2> QED  BY <2>1, <2>2, FieldIs
<1>7. Field(w, 24, 5) = k
  <2>1. k \in SUBSET (0 .. (5 - 1))
    BY <1>1
  <2>2. \A c \in 0 .. (5 - 1) : c + 24 \in w <=> c \in k
    BY <1>1, <1>3
  <2>3. 24 \in Nat /\ 5 \in Nat
    OBVIOUS
  <2> HIDE DEF w
  <2>4. \A word, part : /\ part \in SUBSET (0 .. (5 - 1))
                        /\ \A c \in 0 .. (5 - 1) : c + 24 \in word <=> c \in part
                        => Field(word, 24, 5) = part
    BY <2>3, FieldIs, Zenon
  <2> QED  BY <2>1, <2>2, <2>4, Zenon
<1> HIDE DEF w
<1> QED  BY <1>2, <1>5, <1>6, <1>7 DEF v, k

\* One more type behind those that are written.
LEMMA TypeAppended ==
    ASSUME NEW buff \in Seq(Halves), NEW t, t.vlen \in 0 .. 7, t.kind \in 0 .. 15, Len(t.extra) \in Nat,
           NEW more, more = buff \o <<Bits(t.name_off), encodeTypeInfo(t), Bits(t.size_or_type)>>
                                 \o [k \in 1 .. Len(t.extra) |-> Bits(t.extra[k])]
    PROVE  /\ more \in Seq(Halves) /\ Len(more) = Len(buff) + 3 + Len(t.extra)
           /\ TypeAt(more, Len(buff), t)
           /\ \A p \in 1 .. Len(buff) : more[p] = buff[p]
<1> DEFINE a == Bits(t.name_off)
           b == encodeTypeInfo(t)
           c == Bits(t.size_or_type)
           head == <<a, b, c>>
           tail == [k \in 1 .. Len(t.extra) |-> Bits(t.extra[k])]
           most == buff \o head
<1>1. a \in Halves /\ b \in Halves /\ c \in Halves
  BY InfoFields, BitsRange DEF Halves
<1>2. tail \in Seq(Halves) /\ Len(tail) = Len(t.extra) /\ \A k \in 1 .. Len(t.extra) : tail[k] = Bits(t.extra[k])
  <2>1. \A k \in 1 .. Len(t.extra) : Bits(t.extra[k]) \in Halves
    BY BitsRange DEF Halves
  <2> QED  BY <2>1
<1> HIDE DEF a, b, c, tail
<1>3. head \in Seq(Halves) /\ Len(head) = 3 /\ head[1] = a /\ head[2] = b /\ head[3] = c
  BY <1>1
<1> HIDE DEF head
<1>4. most \in Seq(Halves \cup Halves) /\ Len(buff) \in Nat /\ Joined(buff, head)
  BY <1>3, ConcatJoined
<1>5. Halves \cup Halves = Halves
  OBVIOUS
<1>6. /\ most \in Seq(Halves) /\ Len(most) = Len(buff) + 3
      /\ \A p \in 1 .. Len(buff) : most[p] = buff[p]
      /\ most[Len(buff) + 1] = a /\ most[Len(buff) + 2] = b /\ most[Len(buff) + 3] = c
  BY <1>3, <1>4, <1>5 DEF Joined
<1> HIDE DEF most
<1>7. more = most \o tail
  BY DEF most, head, tail, a, b, c
<1>8. most \o tail \in Seq(Halves \cup Halves) /\ Joined(most, tail)
  BY <1>2, <1>6, ConcatJoined
<1>9. /\ more \in Seq(Halves) /\ Len(more) = Len(most) + Len(tail)
      /\ \A p \in 1 .. Len(most) : more[p] = most[p]
      /\ \A k \in 1 .. Len(tail) : more[Len(most) + k] = tail[k]
  BY <1>5, <1>7, <1>8 DEF Joined
<1> DEFINE n == Len(buff)
           e == Len(t.extra)
<1>10. n \in Nat /\ e \in Nat /\ Len(most) = n + 3 /\ Len(tail) = e /\ Len(more) = (n + 3) + e
  BY <1>2, <1>4, <1>6, <1>9
<1>11. /\ \A p \in 1 .. (n + 3) : more[p] = most[p]
       /\ \A k \in 1 .. e : more[(n + 3) + k] = tail[k]
  BY <1>9, <1>10, Zenon
<1> HIDE DEF n, e
<1>12. /\ \A p \in 1 .. n : p \in 1 .. (n + 3)
       /\ n + 1 \in 1 .. (n + 3) /\ n + 2 \in 1 .. (n + 3) /\ n + 3 \in 1 .. (n + 3)
       /\ (n + 3) + e <= (n + 3) + e
  BY <1>10
<1>13. /\ \A p \in 1 .. n : more[p] = buff[p]
       /\ more[n + 1] = a /\ more[n + 2] = b /\ more[n + 3] = c
       /\ \A k \in 1 .. e : more[(n + 3) + k] = Bits(t.extra[k])
  <2>1. \A p \in 1 .. n : more[p] = buff[p]
    BY <1>6, <1>11, <1>12, Zenon DEF n
  <2>2. more[n + 1] = a /\ more[n + 2] = b /\ more[n + 3] = c
    BY <1>6, <1>11, <1>12, Zenon DEF n
  <2>3. \A k \in 1 .. e : more[(n + 3) + k] = Bits(t.extra[k])
    BY <1>2, <1>11, Zenon DEF e
  <2> QED  BY <2>1, <2>2, <2>3
<1> QED  BY <1>9, <1>10, <1>12, <1>13, Zenon DEF TypeAt, a, b, c, n, e

\* A type that is written stays where it is when more are.
LEMMA TypeStays ==
    ASSUME NEW buff, Len(buff) \in Nat, NEW more, Len(more) \in Nat, Len(buff) <= Len(more),
           \A p \in 1 .. Len(buff) : more[p] = buff[p],
           NEW p \in Nat, NEW t, Len(t.extra) \in Nat, TypeAt(buff, p, t)
    PROVE  TypeAt(more, p, t)
<1>1. p + 3 + Len(t.extra) <= Len(buff)
  BY DEF TypeAt
<1>2. \A n, m, e \in Nat : p + 3 + e <= n /\ n <= m =>
         /\ p + 1 \in 1 .. n /\ p + 2 \in 1 .. n /\ p + 3 \in 1 .. n
         /\ \A k \in 1 .. e : p + 3 + k \in 1 .. n
         /\ p + 3 + e <= m
  <2>1. p \in Nat
    OBVIOUS
  <2> QED  BY ONLY <2>1
<1>3. /\ p + 1 \in 1 .. Len(buff) /\ p + 2 \in 1 .. Len(buff) /\ p + 3 \in 1 .. Len(buff)
      /\ \A k \in 1 .. Len(t.extra) : p + 3 + k \in 1 .. Len(buff)
      /\ p + 3 + Len(t.extra) <= Len(more)
  BY <1>1, <1>2, Zenon
<1> QED  BY <1>3, Zenon DEF TypeAt

TypesWritten(buff, n) ==
    /\ buff \in Seq(Halves) /\ Len(buff) = Begins[n + 1]
    /\ \A id \in 1 .. n : TypeAt(buff, Begins[id], types[id])

\* Only the end matters: the first and the last byte are 0.
StringsWritten(buff, n) ==
    buff \in Seq(Nat) /\ Len(buff) = 1 + 2 * n /\ buff[1] = 0 /\ buff[1 + 2 * n] = 0

\* The header before and after its lengths are filled in.
EarlyHeader == [HdrLen |-> 24, TypeOff |-> 0, TypeLen |-> 0, StrOff |-> 0, StrLen |-> 0]
FinalHeader == [HdrLen |-> 24, TypeOff |-> 0, TypeLen |-> 116, StrOff |-> 116, StrLen |-> 13]

\* The inductive invariant of generateBTF.
BInv ==
    /\ bpc = "types" => written \in 0 .. 7 /\ TypesWritten(types_buff, written) /\ header = EarlyHeader
    /\ bpc = "strings" => /\ written \in 0 .. 6 /\ TypesWritten(types_buff, 7)
                          /\ StringsWritten(string_buff, written) /\ header = EarlyHeader
    /\ bpc \in {"done", "returned"} => /\ TypesWritten(types_buff, 7) /\ StringsWritten(string_buff, 6)
                                       /\ header = FinalHeader

LEMMA BInvInit == Init => BInv
BY DEF Init, BtfIdle, BInv

LEMMA BtfStepKeeps ==
    ASSUME BInv, BtfStep \/ SetHeaderSection \/ ReturnBuffer
    PROVE  BInv'
<1>1. CASE SetHeaderSection
  <2>1. bpc' = "types" /\ written' = 0 /\ types_buff' = <<>> /\ header' = EarlyHeader
    BY <1>1 DEF SetHeaderSection, NoHeader, EarlyHeader
  <2>2. TypesWritten(<<>>, 0)
    BY DEF TypesWritten, Begins
  <2> QED  BY <2>1, <2>2 DEF BInv
<1>2. CASE AppendType
  <2> DEFINE id == written + 1
             t == types[id]
  <2>1. /\ bpc = "types" /\ bpc' = "types" /\ written < Len(types) /\ written' = written + 1
        /\ header' = header
        /\ types_buff' = types_buff \o <<Bits(t.name_off), encodeTypeInfo(t), Bits(t.size_or_type)>>
                                    \o [k \in 1 .. Len(t.extra) |-> Bits(t.extra[k])]
    BY <1>2 DEF AppendType
  <2>2. written \in 0 .. 7 /\ TypesWritten(types_buff, written) /\ header = EarlyHeader
    BY <2>1 DEF BInv
  <2>3. id \in 1 .. 7 /\ written' \in 0 .. 7
    <3>1. Len(types) = 7
      BY TypeTable
    <3> QED  BY <2>1, <2>2, <3>1
  <2>4. /\ TypeSound(t) /\ Begins[id] \in Nat /\ Len(t.extra) \in Nat
        /\ Begins[id + 1] = Begins[id] + 3 + Len(t.extra)
    BY <2>3, TypeTable
  <2>5. t.vlen \in 0 .. 7 /\ t.kind \in 0 .. 15
    BY <2>4 DEF TypeSound
  <2>6. types_buff \in Seq(Halves) /\ Len(types_buff) = Begins[id]
    BY <2>2 DEF TypesWritten
  <2> HIDE DEF t
  <2>7. /\ types_buff' \in Seq(Halves) /\ Len(types_buff') = Len(types_buff) + 3 + Len(t.extra)
        /\ TypeAt(types_buff', Len(types_buff), t)
        /\ \A p \in 1 .. Len(types_buff) : types_buff'[p] = types_buff[p]
    BY <2>1, <2>4, <2>5, <2>6, TypeAppended, ZenonT(40)
  <2>8. Len(types_buff') = Begins[written' + 1]
    BY <2>1, <2>4, <2>6, <2>7
  <2>9. ASSUME NEW k \in 1 .. written' PROVE TypeAt(types_buff', Begins[k], types[k])
    <3>1. CASE k = id
      BY <2>6, <2>7, <3>1 DEF t
    <3>2. CASE k # id
      <4>1. k \in 1 .. written /\ k \in 1 .. 7
        BY <2>1, <2>2, <3>2
      <4>2. TypeAt(types_buff, Begins[k], types[k])
        BY <2>2, <4>1 DEF TypesWritten
      <4>3. Begins[k] \in Nat /\ Len(types[k].extra) \in Nat
        BY <4>1, TypeTable
      <4>4. Len(types_buff) \in Nat /\ Len(types_buff') \in Nat /\ Len(types_buff) <= Len(types_buff')
        BY <2>4, <2>6, <2>7
      <4> QED  BY <2>7, <4>2, <4>3, <4>4, TypeStays
    <3> QED  BY <3>1, <3>2
  <2>10. TypesWritten(types_buff', written')
    BY <2>7, <2>8, <2>9 DEF TypesWritten
  <2> QED  BY <2>1, <2>2, <2>3, <2>10 DEF BInv
<1>3. CASE BeginStrings
  <2>1. /\ bpc = "types" /\ bpc' = "strings" /\ written = 7 /\ written' = 0 /\ string_buff' = <<0>>
        /\ types_buff' = types_buff /\ header' = header
    BY <1>3, TypeTable DEF BeginStrings
  <2>2. StringsWritten(<<0>>, 0)
    BY DEF StringsWritten
  <2> QED  BY <2>1, <2>2 DEF BInv
<1>4. CASE AppendCharacter
  <2>1. /\ bpc = "strings" /\ bpc' = "strings" /\ written < Len(Str) /\ written' = written + 1
        /\ string_buff' = string_buff \o <<Str[written + 1], 0>>
        /\ types_buff' = types_buff /\ header' = header
    BY <1>4 DEF AppendCharacter
  <2>2. written \in 0 .. 6 /\ TypesWritten(types_buff, 7) /\ StringsWritten(string_buff, written)
        /\ header = EarlyHeader
    BY <2>1 DEF BInv
  <2> DEFINE c == Str[written + 1]
             two == <<c, 0>>
             more == string_buff \o two
  <2>3. c \in Nat /\ written + 1 \in 0 .. 6
    BY <2>1, <2>2 DEF Str
  <2> HIDE DEF c
  <2>4. two \in Seq(Nat) /\ Len(two) = 2 /\ two[2] = 0
    BY <2>3
  <2> HIDE DEF two
  <2>5. /\ string_buff \in Seq(Nat) /\ Len(string_buff) = 1 + 2 * written /\ string_buff[1] = 0
    BY <2>2 DEF StringsWritten
  <2>6. more \in Seq(Nat \cup Nat) /\ Joined(string_buff, two)
    BY <2>4, <2>5, ConcatJoined
  <2>7. more \in Seq(Nat)
    BY <2>6
  <2>8. Len(more) = 1 + 2 * (written + 1) /\ more[1] = 0 /\ more[1 + 2 * (written + 1)] = 0
    <3>1. 1 + 2 * (written + 1) = Len(string_buff) + 2 /\ 1 \in 1 .. Len(string_buff)
      BY <2>2, <2>5
    <3>2. Len(more) = Len(string_buff) + 2 /\ more[1] = string_buff[1] /\ more[Len(string_buff) + 2] = two[2]
      BY <2>4, <2>6, <3>1 DEF Joined
    <3> QED  BY <2>4, <2>5, <3>1, <3>2
  <2>9. StringsWritten(string_buff', written')
    BY <2>1, <2>7, <2>8 DEF StringsWritten, two, c
  <2> QED  BY <2>1, <2>2, <2>3, <2>9 DEF BInv
<1>5. CASE FillHeader
  <2>1. /\ bpc = "strings" /\ bpc' = "done" /\ written = Len(Str) /\ UNCHANGED <<types_buff, string_buff>>
        /\ header' = [header EXCEPT !.TypeLen = 4 * Len(types_buff), !.StrOff = 4 * Len(types_buff),
                                    !.StrLen = Len(string_buff)]
    BY <1>5 DEF FillHeader
  <2>2. /\ written = 6 /\ TypesWritten(types_buff, 7) /\ StringsWritten(string_buff, 6)
        /\ header = EarlyHeader
    BY <2>1 DEF BInv, Str
  <2>3. Len(types_buff) = 29 /\ Len(string_buff) = 13
    BY <2>2 DEF TypesWritten, StringsWritten, Begins
  <2>4. header' = FinalHeader
    <3>1. 4 * Len(types_buff) = 116
      BY <2>3
    <3>2. header' = [header EXCEPT !.TypeLen = 116, !.StrOff = 116, !.StrLen = 13]
      BY <2>1, <2>3, <3>1
    <3> QED  BY <2>2, <3>2 DEF EarlyHeader, FinalHeader
  <2> QED  BY <2>1, <2>2, <2>4 DEF BInv
<1>6. CASE ReturnBuffer
  BY <1>6 DEF ReturnBuffer, BInv
<1> QED  BY <1>1, <1>2, <1>3, <1>4, <1>5, <1>6 DEF BtfStep

LEMMA BInvStep == BInv /\ [Next]_vars => BInv'
<1> SUFFICES ASSUME BInv, [Next]_vars PROVE BInv'
  OBVIOUS
<1>1. CASE UNCHANGED bvars
  BY <1>1 DEF bvars, BInv
<1>2. BtfStep \/ SetHeaderSection \/ ReturnBuffer \/ UNCHANGED bvars
  BY DEF Next, GenerateProgram, AppendTurn, AppendFoo, GenerateBtf, ReturnProgram, vars
<1> QED  BY <1>1, <1>2, BtfStepKeeps

LEMMA BtfInvariant == Spec => []BInv
BY BInvInit, BInvStep, PTL DEF Spec

\* What the kernel reads of a type.
LEMMA TypeRead ==
    ASSUME NEW p \in Nat, NEW t, TypeAt(types_buff, p, t), TypeSound(t)
    PROVE  /\ Vlen(p) = t.vlen /\ Ref(p) = Bits(t.size_or_type)
           /\ Is(p, "INT") <=> t.kind = 1
           /\ Is(p, "PTR") <=> t.kind = 2
           /\ Is(p, "STRUCT") <=> t.kind = 4
           /\ Is(p, "FUNC") <=> t.kind = 12
           /\ Is(p, "FUNCPROTO") <=> t.kind = 13
<1>1. t.vlen \in 0 .. 7 /\ t.kind \in 0 .. 15
  BY DEF TypeSound
<1>2. Field(Info(p), 0, 16) = Bits(t.vlen) /\ Field(Info(p), 24, 5) = Bits(t.kind)
  BY <1>1, InfoFields DEF Info, TypeAt
<1>3. Vlen(p) = t.vlen
  <2>1. \A n \in 0 .. 7 : Bits(n) = Bits(t.vlen) <=> n = t.vlen
    <3>1. \A n \in 0 .. 7 : n \in 0 .. 15
      OBVIOUS
    <3> QED  BY <1>1, <3>1, FourBits, Zenon
  <2>2. Vlen(p) = CHOOSE n \in 0 .. 7 : Bits(n) = Bits(t.vlen)
    BY <1>2, Zenon DEF Vlen
  <2> QED  BY <1>1, <2>1, <2>2, Zenon
<1>4. \A k \in 0 .. 15 : Bits(t.kind) = Bits(k) <=> t.kind = k
  BY <1>1, FourBits, Zenon
<1>5. /\ BtfKind["FUNCPROTO"] = 13 /\ BtfKind["FUNC"] = 12 /\ BtfKind["INT"] = 1
      /\ BtfKind["STRUCT"] = 4 /\ BtfKind["PTR"] = 2
  BY DEF BtfKind
<1>6. 13 \in 0 .. 15 /\ 12 \in 0 .. 15 /\ 1 \in 0 .. 15 /\ 4 \in 0 .. 15 /\ 2 \in 0 .. 15
  OBVIOUS
<1>7. \A kind : Is(p, kind) <=> Bits(t.kind) = Bits(BtfKind[kind])
  BY <1>2 DEF Is
<1>8. Ref(p) = Bits(t.size_or_type)
  BY DEF Ref, TypeAt
<1>9. /\ Is(p, "INT") <=> t.kind = 1
      /\ Is(p, "PTR") <=> t.kind = 2
      /\ Is(p, "STRUCT") <=> t.kind = 4
  BY <1>4, <1>5, <1>6, <1>7, Zenon
<1>10. /\ Is(p, "FUNC") <=> t.kind = 12
       /\ Is(p, "FUNCPROTO") <=> t.kind = 13
  BY <1>4, <1>5, <1>6, <1>7, Zenon
<1> QED  BY <1>3, <1>8, <1>9, <1>10, Zenon

\* A type announces the words it has.
LEMMA SizeRead ==
    ASSUME NEW p \in Nat, NEW t, TypeAt(types_buff, p, t), TypeSound(t)
    PROVE  Size(p) = 3 + Len(t.extra)
<1>1. /\ Vlen(p) = t.vlen /\ (Is(p, "INT") <=> t.kind = 1) /\ (Is(p, "STRUCT") <=> t.kind = 4)
      /\ (Is(p, "FUNCPROTO") <=> t.kind = 13)
  BY TypeRead
<1>2. /\ t.kind \in 0 .. 15
      /\ Len(t.extra) = CASE t.kind = 1 -> 1 [] t.kind = 4 -> 3 * t.vlen [] t.kind = 13 -> 2 * t.vlen
                          [] OTHER -> 0
  BY DEF TypeSound
<1>3. 1 # 4 /\ 1 # 13 /\ 4 # 13
  OBVIOUS
<1>4. CASE t.kind = 1
  BY <1>1, <1>2, <1>4 DEF Size
<1>5. CASE t.kind = 4
  BY <1>1, <1>2, <1>5 DEF Size
<1>6. CASE t.kind = 13
  BY <1>1, <1>2, <1>6 DEF Size
<1>7. CASE t.kind \notin {1, 4, 13}
  BY <1>1, <1>2, <1>7 DEF Size
<1> QED  BY <1>4, <1>5, <1>6, <1>7

\* Its names are in the string section, and it refers to types there are.
LEMMA NamesAndRefs ==
    ASSUME NEW p \in Nat, NEW t, TypeAt(types_buff, p, t), TypeSound(t)
    PROVE  /\ \A name \in Names(p) : \E n \in 0 .. 12 : name = Bits(n)
           /\ \A ref \in Refs(p) : \E n \in 0 .. 7 : ref = Bits(n)
<1>1. /\ Vlen(p) = t.vlen /\ Ref(p) = Bits(t.size_or_type)
      /\ (Is(p, "PTR") <=> t.kind = 2) /\ (Is(p, "STRUCT") <=> t.kind = 4)
      /\ (Is(p, "FUNC") <=> t.kind = 12) /\ (Is(p, "FUNCPROTO") <=> t.kind = 13)
  BY TypeRead
<1>2. /\ t.name_off \in 0 .. 12 /\ t.vlen \in 0 .. 7
      /\ t.kind \in {2, 12, 13} => t.size_or_type \in 0 .. 7
      /\ types_buff[p + 1] = Bits(t.name_off)
  BY DEF TypeSound, TypeAt
<1>3. ASSUME t.kind = 4, NEW n \in 1 .. t.vlen
      PROVE  /\ \E m \in 0 .. 12 : types_buff[p + 1 + 3 * n] = Bits(m)
             /\ \E m \in 0 .. 7 : types_buff[p + 2 + 3 * n] = Bits(m)
  <2>1. /\ Len(t.extra) = 3 * t.vlen
        /\ t.extra[3 * n - 2] \in 0 .. 12 /\ t.extra[3 * n - 1] \in 0 .. 7
    BY <1>3 DEF TypeSound
  <2>2. /\ 3 * n - 2 \in 1 .. (3 * t.vlen) /\ p + 1 + 3 * n = p + 3 + (3 * n - 2)
        /\ 3 * n - 1 \in 1 .. (3 * t.vlen) /\ p + 2 + 3 * n = p + 3 + (3 * n - 1)
    BY <1>2
  <2>3. \A k \in 1 .. (3 * t.vlen) : types_buff[p + 3 + k] = Bits(t.extra[k])
    BY <2>1 DEF TypeAt
  <2>4. /\ types_buff[p + 1 + 3 * n] = Bits(t.extra[3 * n - 2])
        /\ types_buff[p + 2 + 3 * n] = Bits(t.extra[3 * n - 1])
    BY <2>2, <2>3, Zenon
  <2> QED  BY <2>1, <2>4, Zenon
<1>4. ASSUME t.kind = 13, NEW n \in 1 .. t.vlen
      PROVE  /\ \E m \in 0 .. 12 : types_buff[p + 2 + 2 * n] = Bits(m)
             /\ \E m \in 0 .. 7 : types_buff[p + 3 + 2 * n] = Bits(m)
  <2>1. /\ Len(t.extra) = 2 * t.vlen
        /\ t.extra[2 * n - 1] \in 0 .. 12 /\ t.extra[2 * n] \in 0 .. 7
    BY <1>4 DEF TypeSound
  <2>2. /\ 2 * n - 1 \in 1 .. (2 * t.vlen) /\ p + 2 + 2 * n = p + 3 + (2 * n - 1)
        /\ 2 * n \in 1 .. (2 * t.vlen)
    BY <1>2
  <2>3. \A k \in 1 .. (2 * t.vlen) : types_buff[p + 3 + k] = Bits(t.extra[k])
    BY <2>1 DEF TypeAt
  <2>4. /\ types_buff[p + 2 + 2 * n] = Bits(t.extra[2 * n - 1])
        /\ types_buff[p + 3 + 2 * n] = Bits(t.extra[2 * n])
    BY <2>2, <2>3, Zenon
  <2> QED  BY <2>1, <2>4, Zenon
<1>5. ASSUME NEW name \in Names(p) PROVE \E n \in 0 .. 12 : name = Bits(n)
  <2>1. \/ name = types_buff[p + 1]
        \/ Is(p, "STRUCT") /\ \E n \in 1 .. Vlen(p) : name = types_buff[p + 1 + 3 * n]
        \/ Is(p, "FUNCPROTO") /\ \E n \in 1 .. Vlen(p) : name = types_buff[p + 2 + 2 * n]
    BY DEF Names
  <2> QED  BY <1>1, <1>2, <1>3, <1>4, <2>1, Zenon
<1>6. ASSUME NEW ref \in Refs(p) PROVE \E n \in 0 .. 7 : ref = Bits(n)
  <2>1. \/ (Is(p, "PTR") \/ Is(p, "FUNC") \/ Is(p, "FUNCPROTO")) /\ ref = Ref(p)
        \/ Is(p, "STRUCT") /\ \E n \in 1 .. Vlen(p) : ref = types_buff[p + 2 + 3 * n]
        \/ Is(p, "FUNCPROTO") /\ \E n \in 1 .. Vlen(p) : ref = types_buff[p + 3 + 2 * n]
    BY DEF Refs
  <2>2. CASE (Is(p, "PTR") \/ Is(p, "FUNC") \/ Is(p, "FUNCPROTO")) /\ ref = Ref(p)
    BY <1>1, <1>2, <2>2
  <2> QED  BY <1>1, <1>3, <1>4, <2>1, <2>2, ZenonT(40)
<1> QED  BY <1>5, <1>6

\* Going from type to type, the kernel finds each where it was written.
LEMMA StartIs ==
    ASSUME TypesWritten(types_buff, 7)
    PROVE  \A id \in 1 .. 8 : Start[id] = Begins[id]
<1> DEFINE D == 1 .. (Len(types) + 1)
           Body(g) == [id \in D |-> IF id = 1 THEN 0 ELSE LET p == g[id - 1] IN p + Size(p)]
           u == CHOOSE g : g = Body(g)
           h == [id \in D |-> Begins[id]]
<1>1. Len(types) = 7
  BY TypeTable
<1>2. D = 1 .. 8
  BY <1>1
<1>3. Begins[1] = 0
  BY DEF Begins
<1>4. ASSUME NEW id \in 1 .. 7 PROVE Begins[id + 1] = Begins[id] + Size(Begins[id])
  <2>1. /\ TypeSound(types[id]) /\ Begins[id] \in Nat /\ Len(types[id].extra) \in Nat
        /\ Begins[id + 1] = Begins[id] + 3 + Len(types[id].extra)
    BY TypeTable
  <2>2. TypeAt(types_buff, Begins[id], types[id])
    BY DEF TypesWritten
  <2>3. Size(Begins[id]) = 3 + Len(types[id].extra)
    BY <2>1, <2>2, SizeRead
  <2>4. \A a, b \in Nat : a + 3 + b = a + (3 + b)
    OBVIOUS
  <2> QED  BY <2>1, <2>3, <2>4, ZenonT(40)
<1> HIDE DEF D
<1>5. h = Body(h)
  <2>1. ASSUME NEW id \in D PROVE Begins[id] = IF id = 1 THEN 0 ELSE LET p == h[id - 1] IN p + Size(p)
    <3>1. CASE id = 1
      BY <1>3, <3>1
    <3>2. CASE id # 1
      <4>1. id - 1 \in 1 .. 7 /\ id - 1 \in D /\ (id - 1) + 1 = id
        BY <1>2, <3>2
      <4>2. h[id - 1] = Begins[id - 1]
        BY <4>1
      <4>3. Begins[id] = Begins[id - 1] + Size(Begins[id - 1])
        BY <1>4, <4>1, Zenon
      <4> HIDE DEF h
      <4> QED  BY <3>2, <4>2, <4>3, Zenon
    <3> QED  BY <3>1, <3>2
  <2> QED  BY <2>1, Zenon
<1> HIDE DEF h
<1>6. u = Body(u)
  BY <1>5, Zenon
<1>7. Start = u
  BY Zenon DEF Start, D
<1> HIDE DEF u
<1>8. \A id \in D : u[id] = IF id = 1 THEN 0 ELSE LET p == u[id - 1] IN p + Size(p)
  BY <1>6, Zenon
<1>9. ASSUME NEW id \in 1 .. 7, u[id] = Begins[id] PROVE u[id + 1] = Begins[id + 1]
  <2>1. id + 1 \in D /\ id + 1 # 1 /\ (id + 1) - 1 = id
    BY <1>2
  <2>2. u[id + 1] = LET p == u[id] IN p + Size(p)
    BY <1>8, <2>1, Zenon
  <2>3. u[id + 1] = Begins[id] + Size(Begins[id])
    BY <1>9, <2>2, Zenon
  <2> QED  BY <1>4, <2>3
<1>10. u[1] = Begins[1]
  <2>1. 1 \in D
    BY <1>2
  <2> QED  BY <1>3, <1>8, <2>1, Zenon
<1>11. u[1 + 1] = Begins[1 + 1]
  BY <1>9, <1>10
<1>12. u[2 + 1] = Begins[2 + 1]
  BY <1>9, <1>11
<1>13. u[3 + 1] = Begins[3 + 1]
  BY <1>9, <1>12
<1>14. u[4 + 1] = Begins[4 + 1]
  BY <1>9, <1>13
<1>15. u[5 + 1] = Begins[5 + 1]
  BY <1>9, <1>14
<1>16. u[6 + 1] = Begins[6 + 1]
  BY <1>9, <1>15
<1>17. u[7 + 1] = Begins[7 + 1]
  BY <1>9, <1>16
<1>18. \A id \in 1 .. 8 : id = 1 \/ id = 1 + 1 \/ id = 2 + 1 \/ id = 3 + 1 \/ id = 4 + 1 \/ id = 5 + 1
                          \/ id = 6 + 1 \/ id = 7 + 1
  OBVIOUS
<1> QED  BY <1>7, <1>10, <1>11, <1>12, <1>13, <1>14, <1>15, <1>16, <1>17, <1>18, Zenon

\* A function's prototype is one.
LEMMA FunctionsHavePrototypes ==
    ASSUME TypesWritten(types_buff, 7), NEW id \in 1 .. 7
    PROVE  /\ Is(Start[id], "FUNC") <=> types[id].kind = 12
           /\ types[id].kind = 12 => IsFunction(id)
<1>1. \A k \in 1 .. 7 : /\ Start[k] = Begins[k] /\ Begins[k] \in Nat /\ TypeSound(types[k])
                        /\ TypeAt(types_buff, Begins[k], types[k])
  <2>1. \A k \in 1 .. 7 : k \in 1 .. 8
    OBVIOUS
  <2>2. \A k \in 1 .. 7 : Start[k] = Begins[k]
    BY <2>1, StartIs, Zenon
  <2> QED  BY <2>2, TypeTable, Zenon DEF TypesWritten
<1>2. ASSUME NEW k \in 1 .. 7
      PROVE  /\ Ref(Start[k]) = Bits(types[k].size_or_type)
             /\ Is(Start[k], "FUNC") <=> types[k].kind = 12
             /\ Is(Start[k], "FUNCPROTO") <=> types[k].kind = 13
  <2>1. /\ Start[k] = Begins[k] /\ Begins[k] \in Nat /\ TypeSound(types[k])
        /\ TypeAt(types_buff, Begins[k], types[k])
    BY <1>1
  <2> QED  BY <2>1, TypeRead
<1>3. ASSUME types[id].kind = 12 PROVE IsFunction(id)
  <2>1. types[id].size_or_type \in 1 .. 7 /\ types[types[id].size_or_type].kind = 13
    BY <1>3, TypeTable, Zenon
  <2>2. Ids = 1 .. 7
    BY TypeTable DEF Ids
  <2> QED  BY <1>2, <1>3, <2>1, <2>2, Zenon DEF IsFunction
<1> QED  BY <1>2, <1>3

\* The kernel accepts the type information of every loop program.
THEOREM TypesAreAccepted == Spec => []BtfAccepted
<1>1. ASSUME BInv, bpc = "done" PROVE BtfAccepted
  <2>1. TypesWritten(types_buff, 7) /\ StringsWritten(string_buff, 6) /\ header = FinalHeader
    BY <1>1 DEF BInv
  <2>2. Len(types_buff) = 29 /\ Begins[8] = 29
    BY <2>1 DEF TypesWritten, Begins
  <2>3. /\ header.HdrLen = 24 /\ header.TypeOff = 0 /\ header.TypeLen = 116 /\ header.StrOff = 116
        /\ header.StrLen = 13
    BY <2>1 DEF FinalHeader
  <2>4. Len(string_buff) = 13 /\ string_buff[1] = 0 /\ string_buff[13] = 0
    BY <2>1 DEF StringsWritten
  <2>5. SectionsFit
    BY <2>2, <2>3, <2>4 DEF SectionsFit, HeaderSize
  <2>6. Len(types) + 1 = 8 /\ Ids = 1 .. 7
    BY TypeTable DEF Ids
  <2>7. Start[Len(types) + 1] = Len(types_buff)
    <3>1. 8 \in 1 .. 8
      OBVIOUS
    <3> QED  BY <2>1, <2>2, <2>6, <3>1, StartIs, Zenon
  <2>8. ASSUME NEW id \in 1 .. 7
        PROVE  /\ \A name \in Names(Start[id]) : \E n \in 0 .. (header.StrLen - 1) : name = Bits(n)
               /\ \A ref \in Refs(Start[id]) : \E n \in Ids \cup {0} : ref = Bits(n)
               /\ Is(Start[id], "FUNC") => IsFunction(id)
    <3>1. id \in 1 .. 8
      OBVIOUS
    <3>2. Start[id] = Begins[id] /\ Begins[id] \in Nat /\ TypeSound(types[id])
          /\ TypeAt(types_buff, Begins[id], types[id])
      BY <2>1, <3>1, StartIs, TypeTable, Zenon DEF TypesWritten
    <3>3. /\ \A name \in Names(Start[id]) : \E n \in 0 .. 12 : name = Bits(n)
          /\ \A ref \in Refs(Start[id]) : \E n \in 0 .. 7 : ref = Bits(n)
      BY <3>2, NamesAndRefs
    <3>4. header.StrLen - 1 = 12
      BY <2>3
    <3>5. \A n \in 0 .. 7 : n \in Ids \cup {0}
      BY <2>6
    <3>6. Is(Start[id], "FUNC") => IsFunction(id)
      BY <2>1, FunctionsHavePrototypes
    <3> QED  BY <3>3, <3>4, <3>5, <3>6, Zenon
  <2> QED  BY <2>5, <2>6, <2>7, <2>8, Zenon DEF BtfAccepted
<1>2. BInv => BtfAccepted
  BY <1>1 DEF BtfAccepted
<1> QED  BY <1>2, BtfInvariant, PTL

--------------------------------------------------------------------------------
(* The kernel finds the loop function *)

\* Where the k-th instruction of main begins: the seventh and the ninth take two slots.
Slot(k) == k + (IF k > 7 THEN 1 ELSE 0) + (IF k > 9 THEN 1 ELSE 0)

LEMMA Slots ==
    /\ Slot(1) = 1 /\ Slot(7) = 7 /\ Slot(9) = 10 /\ Slot(29) = 31 /\ Slot(30) = 32
    /\ \A i \in 1 .. 29 : /\ Slot(i) \in Nat /\ Slot(i + 1) \in Nat
                          /\ Slot(i + 1) = Slot(i) + (IF i \in {7, 9} THEN 2 ELSE 1)
    /\ \A i \in 1 .. 30 : \A k \in 1 .. (i - 1) : Slot(k) \in 1 .. (Slot(i) - 1)
    /\ \A p \in 1 .. 31 : p \notin {8, 11} =>
          \E k \in 1 .. 29 : p = Slot(k) /\ (k = 7 <=> p = 7) /\ (k = 9 <=> p = 10)
<1>1. Slot(1) = 1 /\ Slot(7) = 7 /\ Slot(9) = 10 /\ Slot(29) = 31 /\ Slot(30) = 32
  BY DEF Slot
<1>2. \A i \in 1 .. 29 : /\ Slot(i) \in Nat /\ Slot(i + 1) \in Nat
                         /\ Slot(i + 1) = Slot(i) + (IF i \in {7, 9} THEN 2 ELSE 1)
  BY DEF Slot
<1>3. \A i \in 1 .. 30 : \A k \in 1 .. (i - 1) : Slot(k) \in 1 .. (Slot(i) - 1)
  BY DEF Slot
<1>4. ASSUME NEW p \in 1 .. 31, p \notin {8, 11}
      PROVE  \E k \in 1 .. 29 : p = Slot(k) /\ (k = 7 <=> p = 7) /\ (k = 9 <=> p = 10)
  <2> DEFINE k == p - (IF p > 8 THEN 1 ELSE 0) - (IF p > 11 THEN 1 ELSE 0)
  <2>1. k \in 1 .. 29 /\ p = Slot(k) /\ (k = 7 <=> p = 7) /\ (k = 9 <=> p = 10)
    BY <1>4 DEF Slot
  <2> HIDE DEF k
  <2> QED  BY <2>1
<1> QED  BY <1>1, <1>2, <1>3, <1>4

\* The words of the first n instructions of main, and of the loop function.
MainWords(p, buff, n) == \A k \in 1 .. n : buff[Slot(k)] = EncodeWord(p[1].insns[k])
BodyWords(p, buff)    == \A j \in 1 .. (Len(buff) - 31) : buff[31 + j] = EncodeWord(p[2].insns[j])

\* What the buffer holds when function f and instruction i are next.
LoopWords(p, f, i, buff) ==
    /\ f = 1 => Len(buff) = Slot(i) - 1 /\ MainWords(p, buff, i - 1)
    /\ f \in {2, 3} => /\ Len(buff) = 31 + (IF f = 2 THEN i - 1 ELSE Len(p[2].insns))
                       /\ MainWords(p, buff, 29) /\ BodyWords(p, buff)

LEMMA LoopWordsBegin == \A p : LoopWords(p, 1, 1, <<>>)
BY Slots DEF LoopWords, MainWords

LEMMA LoopWordsInstruction ==
    ASSUME NEW p, NEW mapFd, NEW body, p = LoopFunctions(mapFd, body), LoopInsns(body),
           NEW f, NEW i, NEW buff, Walk(p, f, i, buff), LoopWords(p, f, i, buff),
           f <= Len(p), i <= Len(p[f].insns)
    PROVE  LoopWords(p, f, i + 1, buff \o encodeInstruction(p[f].insns[i]))
<1> DEFINE x == p[f].insns[i]
           more == buff \o encodeInstruction(x)
<1>1. f \in 1 .. Len(p) /\ i \in 1 .. Len(p[f].insns) /\ ProgramSound(p) /\ buff \in Seq(Words)
  BY WalkInstruction DEF Walk
<1>2. Len(p) = 2 /\ p[1].insns = main(mapFd) /\ p[2].insns = body
  BY LoopFunctionsAre
<1>3. PICK S : Reads(buff, S) /\ Complete(buff, S)
  BY DEF Walk, Counted
<1>4. WellFormed(x)
  BY <1>1, ProgramLengths
<1> HIDE DEF x
<1>5. /\ Len(more) = Len(buff) + (IF OneSlot(x) THEN 1 ELSE 2)
      /\ more[Len(buff) + 1] = EncodeWord(x) /\ Len(buff) \in Nat
      /\ \A k \in 1 .. Len(buff) : more[k] = buff[k]
  <2>1. Len(buff) \in Nat
    BY <1>1
  <2>2. /\ Len(more) = Len(buff) + (IF OneSlot(x) THEN 1 ELSE 2)
        /\ more[Len(buff) + 1] = EncodeWord(x)
        /\ \A k \in 1 .. Len(buff) : more[k] = buff[k]
    BY <1>1, <1>3, <1>4, ReadsOneMore, Zenon
  <2> QED  BY <2>1, <2>2
<1> HIDE DEF more
<1>6. CASE f = 1
  <2>1. i \in 1 .. 29 /\ x = main(mapFd)[i]
    BY <1>1, <1>2, <1>6, MainShape DEF x
  <2>2. OneSlot(x) <=> i \notin {7, 9}
    <3>1. WideAt(main(mapFd), {7, 9}) /\ Len(main(mapFd)) = 29
      BY MainShape
    <3>2. i \notin {7, 9} => OneSlot(x)
      BY <2>1, <3>1 DEF WideAt
    <3>3. i \in {7, 9} => TwoSlots(x)
      <4>1. main(mapFd)[7] = LdFunctionPtr(24) /\ main(mapFd)[9] = LdMapByFd(9, mapFd)
        BY MainShape
      <4> QED  BY <2>1, <4>1, LdImmTwoSlots
    <3>4. TwoSlots(x) => ~OneSlot(x)
      BY DEF TwoSlots, OneSlot
    <3> QED  BY <3>2, <3>3, <3>4
  <2>3. Len(buff) = Slot(i) - 1 /\ MainWords(p, buff, i - 1)
    BY <1>6 DEF LoopWords
  <2>4. /\ Slot(i) \in Nat /\ Slot(i + 1) = Slot(i) + (IF i \in {7, 9} THEN 2 ELSE 1)
        /\ \A k \in 1 .. (i - 1) : Slot(k) \in 1 .. (Slot(i) - 1)
    <3>1. i \in 1 .. 30
      BY <2>1
    <3> QED  BY <2>1, <3>1, Slots, Zenon
  <2>5. Len(more) = Slot(i + 1) - 1
    BY <1>5, <2>2, <2>3, <2>4
  <2>6. ASSUME NEW k \in 1 .. ((i + 1) - 1) PROVE more[Slot(k)] = EncodeWord(p[1].insns[k])
    <3>1. CASE k = i
      <4>1. Slot(k) = Len(buff) + 1
        BY <2>3, <2>4, <3>1
      <4> QED  BY <1>5, <1>6, <3>1, <4>1 DEF x
    <3>2. CASE k # i
      <4>1. k \in 1 .. (i - 1)
        BY <2>1, <3>2
      <4>2. Slot(k) \in 1 .. Len(buff)
        BY <2>3, <2>4, <4>1
      <4>3. more[Slot(k)] = buff[Slot(k)]
        BY <1>5, <4>2
      <4> QED  BY <2>3, <4>1, <4>3 DEF MainWords
    <3> QED  BY <3>1, <3>2
  <2>7. MainWords(p, more, (i + 1) - 1)
    BY <2>6, Zenon DEF MainWords
  <2>8. f \notin {2, 3}
    BY <1>6
  <2>9. LoopWords(p, f, i + 1, more)
    BY <2>5, <2>7, <2>8, Zenon DEF LoopWords
  <2> QED  BY <2>9 DEF more, x
<1>7. CASE f = 2
  <2>1. /\ Len(buff) = 31 + (i - 1) /\ MainWords(p, buff, 29) /\ BodyWords(p, buff)
    BY <1>7 DEF LoopWords
  <2>2. OneSlot(x)
    <3>1. x = body[i] /\ i \in 1 .. Len(body)
      BY <1>1, <1>2, <1>7 DEF x
    <3> QED  BY <3>1, SlimIs DEF LoopInsns
  <2>3. Len(more) = 31 + ((i + 1) - 1) /\ i \in Nat \ {0} /\ Len(more) = Len(buff) + 1
    BY <1>1, <1>5, <2>1, <2>2
  <2>4. MainWords(p, more, 29)
    <3>1. \A k \in 1 .. 29 : Slot(k) \in 1 .. 31
      <4>1. 30 \in 1 .. 30 /\ \A k \in 1 .. 29 : k \in 1 .. (30 - 1)
        OBVIOUS
      <4>2. \A k \in 1 .. 29 : Slot(k) \in 1 .. (Slot(30) - 1)
        BY <4>1, Slots, Zenon
      <4>3. Slot(30) - 1 = 31
        BY Slots
      <4> QED  BY <4>2, <4>3, Zenon
    <3>2. \A q \in 1 .. 31 : q \in 1 .. Len(buff)
      BY <2>1, <2>3
    <3> QED  BY <1>5, <2>1, <3>1, <3>2, Zenon DEF MainWords
  <2>5. ASSUME NEW j \in 1 .. (Len(more) - 31) PROVE more[31 + j] = EncodeWord(p[2].insns[j])
    <3>1. CASE j = i
      <4>1. 31 + j = Len(buff) + 1
        BY <2>1, <2>3, <3>1
      <4> QED  BY <1>5, <1>7, <3>1, <4>1 DEF x
    <3>2. CASE j # i
      <4>1. j \in 1 .. (Len(buff) - 31) /\ 31 + j \in 1 .. Len(buff)
        BY <2>1, <2>3, <3>2
      <4> QED  BY <1>5, <2>1, <4>1 DEF BodyWords
    <3> QED  BY <3>1, <3>2
  <2> QED  BY <1>7, <2>3, <2>4, <2>5 DEF LoopWords, BodyWords, more, x
<1> QED  BY <1>1, <1>2, <1>6, <1>7

LEMMA LoopWordsFunction ==
    ASSUME NEW p, NEW mapFd, NEW body, p = LoopFunctions(mapFd, body), LoopInsns(body),
           NEW f, NEW i, NEW buff, Walk(p, f, i, buff), LoopWords(p, f, i, buff),
           f <= Len(p), i > Len(p[f].insns)
    PROVE  LoopWords(p, f + 1, 1, buff)
<1>1. f \in 1 .. Len(p) /\ i = Len(p[f].insns) + 1
  BY WalkFunction
<1>2. Len(p) = 2 /\ p[1].insns = main(mapFd) /\ p[2].insns = body /\ Len(main(mapFd)) = 29
      /\ Len(body) \in Nat
  BY LoopFunctionsAre, MainShape, SlimIs DEF LoopInsns
<1>3. CASE f = 1
  <2>1. i = 30
    <3>1. Len(p[f].insns) = 29
      BY <1>2, <1>3, Zenon
    <3> QED  BY <1>1, <3>1
  <2>2. Len(buff) = 31 /\ MainWords(p, buff, 29)
    <3>1. Slot(30) - 1 = 31 /\ 30 - 1 = 29
      BY Slots
    <3>2. Len(buff) = Slot(i) - 1 /\ MainWords(p, buff, i - 1)
      BY <1>3, Zenon DEF LoopWords
    <3> QED  BY <2>1, <3>1, <3>2, Zenon
  <2>3. BodyWords(p, buff)
    BY <2>2 DEF BodyWords
  <2> QED  BY <1>3, <2>2, <2>3 DEF LoopWords
<1>4. CASE f = 2
  <2>1. Len(buff) = 31 + Len(p[2].insns) /\ MainWords(p, buff, 29) /\ BodyWords(p, buff)
    BY <1>1, <1>2, <1>4 DEF LoopWords
  <2> QED  BY <1>4, <2>1 DEF LoopWords
<1> QED  BY <1>1, <1>2, <1>3, <1>4

\* The types of the functions that were gone through, in their order.
InfosWritten(p, f, infos) ==
    /\ f = 1 => infos = <<>>
    /\ f = 2 => infos = <<p[1].info>>
    /\ f = 3 => infos = <<p[1].info, p[2].info>>

LEMMA InfosGrow ==
    ASSUME NEW p, NEW f \in 1 .. 2, NEW infos, InfosWritten(p, f, infos)
    PROVE  InfosWritten(p, f + 1, Append(infos, p[f].info))
<1>1. CASE f = 1
  <2>1. infos = <<>> /\ f + 1 = 2
    BY <1>1 DEF InfosWritten
  <2>2. Append(<<>>, p[1].info) = <<p[1].info>>
    OBVIOUS
  <2> QED  BY <1>1, <2>1, <2>2 DEF InfosWritten
<1>2. CASE f = 2
  <2>1. infos = <<p[1].info>> /\ f + 1 = 3
    BY <1>2 DEF InfosWritten
  <2>2. Append(<<p[1].info>>, p[2].info) = <<p[1].info, p[2].info>>
    BY OneAppended
  <2> QED  BY <1>2, <2>1, <2>2 DEF InfosWritten
<1> QED  BY <1>1, <1>2

\* While the loop program is encoded, and when it is.
LInv ==
    epc \in {"encode", "done"} /\ asked.fn = "loop" =>
        /\ LoopWords(prog, fn, ins, prog_buff) /\ InfosWritten(prog, fn, func_buff)
        /\ bpc = "returned"

LEMMA LInvBegins == ASSUME EInv, KInv, ReturnProgram PROVE LInv'
<1>1. epc = "generate" /\ UNCHANGED <<fn, ins, prog_buff, func_buff>> /\ bpc' = "returned"
  BY DEF ReturnProgram, ReturnBuffer
<1>2. fn' = 1 /\ ins' = 1 /\ prog_buff' = <<>> /\ func_buff' = <<>>
  BY <1>1 DEF KInv, Fresh
<1>3. LoopWords(prog', 1, 1, <<>>)
  BY LoopWordsBegin
<1>4. InfosWritten(prog', 1, <<>>)
  BY DEF InfosWritten
<1> QED  BY <1>1, <1>2, <1>3, <1>4, Zenon DEF LInv

LEMMA LInvInstruction == ASSUME EInv, KInv, LInv, EncodeInstruction, UNCHANGED bvars PROVE LInv'
<1> SUFFICES ASSUME asked'.fn = "loop" PROVE LInv'
  BY DEF LInv
<1>1. /\ epc = "encode" /\ UNCHANGED <<asked, prog, fn, func_buff, bpc>> /\ ins' = ins + 1
      /\ fn <= Len(prog) /\ ins <= Len(prog[fn].insns)
      /\ prog_buff' = prog_buff \o encodeInstruction(prog[fn].insns[ins])
  BY DEF EncodeInstruction, bvars
<1>2. asked.fn = "loop" /\ asked.fn \notin CbpfRequests
  BY <1>1 DEF CbpfRequests
<1>3. LoopWords(prog, fn, ins, prog_buff) /\ InfosWritten(prog, fn, func_buff) /\ bpc = "returned"
  BY <1>1, <1>2 DEF LInv
<1>4. Walk(prog, fn, ins, prog_buff) /\ LoopPart
  BY <1>1, <1>2 DEF KInv
<1>5. PICK mapFd, body : prog = LoopFunctions(mapFd, body) /\ LoopInsns(body)
  BY <1>4 DEF LoopPart
<1>6. LoopWords(prog, fn, ins + 1, prog_buff \o encodeInstruction(prog[fn].insns[ins]))
  BY <1>1, <1>3, <1>4, <1>5, LoopWordsInstruction, Zenon
<1>7. LoopWords(prog', fn', ins', prog_buff')
  BY <1>1, <1>6, Zenon
<1>8. InfosWritten(prog', fn', func_buff') /\ bpc' = "returned"
  BY <1>1, <1>3
<1> QED  BY <1>7, <1>8 DEF LInv

LEMMA LInvFuncInfo == ASSUME EInv, KInv, LInv, EncodeFuncInfo, UNCHANGED bvars PROVE LInv'
<1> SUFFICES ASSUME asked'.fn = "loop" PROVE LInv'
  BY DEF LInv
<1>1. /\ epc = "encode" /\ UNCHANGED <<asked, prog, prog_buff, bpc>> /\ ins' = 1 /\ fn' = fn + 1
      /\ fn <= Len(prog) /\ ins > Len(prog[fn].insns)
      /\ func_buff' = IF prog[fn].info = NoInfo THEN func_buff ELSE Append(func_buff, prog[fn].info)
  BY DEF EncodeFuncInfo, bvars
<1>2. asked.fn = "loop" /\ asked.fn \notin CbpfRequests
  BY <1>1 DEF CbpfRequests
<1>3. LoopWords(prog, fn, ins, prog_buff) /\ InfosWritten(prog, fn, func_buff) /\ bpc = "returned"
  BY <1>1, <1>2 DEF LInv
<1>4. Walk(prog, fn, ins, prog_buff) /\ LoopPart
  BY <1>1, <1>2 DEF KInv
<1>5. PICK mapFd, body : prog = LoopFunctions(mapFd, body) /\ LoopInsns(body)
  BY <1>4 DEF LoopPart
<1>6. LoopWords(prog, fn + 1, 1, prog_buff)
  BY <1>1, <1>3, <1>4, <1>5, LoopWordsFunction, Zenon
<1>7. LoopWords(prog', fn', ins', prog_buff')
  BY <1>1, <1>6, Zenon
<1>8. /\ Len(prog) = 2 /\ prog[1].info = [InsnOff |-> 0, TypeId |-> 2]
      /\ prog[2].info = [InsnOff |-> 31, TypeId |-> 7]
  BY <1>5, LoopFunctionsAre
<1>9. fn \in 1 .. 2
  BY <1>1, <1>4, <1>8 DEF Walk, Place
<1>10. prog[fn].info # NoInfo
  <2>1. [InsnOff |-> 0, TypeId |-> 2] # NoInfo /\ [InsnOff |-> 31, TypeId |-> 7] # NoInfo
    BY DEF NoInfo
  <2>2. fn = 1 \/ fn = 2
    BY <1>9
  <2> QED  BY <1>8, <2>1, <2>2, Zenon
<1>11. InfosWritten(prog, fn + 1, Append(func_buff, prog[fn].info))
  BY <1>3, <1>9, InfosGrow, Zenon
<1>12. InfosWritten(prog', fn', func_buff') /\ bpc' = "returned"
  BY <1>1, <1>3, <1>10, <1>11, Zenon
<1> QED  BY <1>7, <1>12 DEF LInv

LEMMA LInvStep == EInv /\ KInv /\ LInv /\ [Next]_vars => LInv'
<1> SUFFICES ASSUME EInv, KInv, LInv, [Next]_vars PROVE LInv'
  OBVIOUS
<1>1. CASE UNCHANGED vars
  BY <1>1 DEF vars, evars, bvars, LInv
<1>2. CASE GenerateProgram
  <2>1. epc' \in {"panic", "body"}
    BY <1>2 DEF GenerateProgram, Hand
  <2> QED  BY <2>1 DEF LInv
<1>3. CASE AppendTurn \/ AppendFoo
  <2>1. epc' \in {"body", "generate"}
    BY <1>3 DEF AppendTurn, AppendFoo
  <2> QED  BY <2>1 DEF LInv
<1>4. CASE GenerateBtf
  <2>1. epc' = "generate"
    BY <1>4 DEF GenerateBtf, evars
  <2> QED  BY <2>1 DEF LInv
<1>5. CASE BuildOne
  <2>1. epc' = "panic" \/ FilterRequested \/ asked'.fn # "loop"
    BY <1>5, BuiltOrFilter
  <2>2. FilterRequested => asked'.fn # "loop"
    BY DEF FilterRequested, CbpfRequests
  <2> QED  BY <2>1, <2>2 DEF LInv
<1>6. CASE ReturnBuffers /\ UNCHANGED bvars
  <2>1. epc \in {"encode", "filters"} /\ UNCHANGED <<asked, prog, fn, ins, prog_buff, func_buff, bpc>>
    BY <1>6 DEF ReturnBuffers, bvars
  <2>2. epc = "filters" => asked'.fn # "loop"
    BY <2>1 DEF EInv, CbpfRequests
  <2> QED  BY <2>1, <2>2 DEF LInv
<1>7. CASE EncodeFilter \/ Again \/ Ended
  <2>1. epc' \in {"filters", "call", "panic"}
    BY <1>7 DEF EncodeFilter, Again, Ended, evars
  <2> QED  BY <2>1 DEF LInv
<1> QED
  BY <1>1, <1>2, <1>3, <1>4, <1>5, <1>6, <1>7, LInvBegins, LInvInstruction, LInvFuncInfo
  DEF Next, EncodingStep

LEMMA LoopInvariant == Spec => [](EInv /\ KInv /\ LInv /\ BInv)
<1>1. Init => LInv
  BY DEF Init, EncodingInit, LInv
<1>2. Spec => [](EInv /\ KInv)
  BY InStepInvariant
<1>3. Spec => []BInv
  BY BtfInvariant
<1> QED  BY <1>1, <1>2, <1>3, LInvStep, PTL DEF Spec

\* The words by which the kernel tells a function from a map, and finds it.
LEMMA ConstantWords ==
    /\ Code(EncodeWord(LdFunctionPtr(24))) = LdDwImm
    /\ SrcReg(EncodeWord(LdFunctionPtr(24))) = Bits(4) /\ ImmOf(EncodeWord(LdFunctionPtr(24))) = Bits(24)
    /\ \A dst, fd : /\ Code(EncodeWord(LdMapByFd(dst, fd))) = LdDwImm
                    /\ SrcReg(EncodeWord(LdMapByFd(dst, fd))) # Bits(4)
<1>1. ASSUME NEW dst, NEW src \in 0 .. 15, NEW imm
      PROVE  LET w == EncodeWord(Mem(0, 24, 0, dst, src, 0, imm, <<0>>))
             IN  Code(w) = LdDwImm /\ SrcReg(w) = Bits(src) /\ ImmOf(w) = Bits(imm)
  <2> DEFINE i == Mem(32 * 0, 8 * 3, 0, dst, src, 0, imm, <<0>>)
  <2>1. Opcode(i) = Bits(0 + 8 * 3 + 32 * 0) /\ i.src = src /\ i.imm = imm
    BY MemHolds
  <2>2. 0 + 8 * 3 + 32 * 0 = 24 /\ 32 * 0 = 0 /\ 8 * 3 = 24
    OBVIOUS
  <2>3. i = Mem(0, 24, 0, dst, src, 0, imm, <<0>>)
    BY <2>2
  <2> HIDE DEF i
  <2>4. Bits(src) \cap 0 .. 3 = Bits(src)
    <3>1. src \in Int
      OBVIOUS
    <3>2. Bits(src) \subseteq 0 .. 3
      BY <3>1, SmallBits
    <3> QED  BY <3>2
  <2>5. Code(EncodeWord(i)) = LdDwImm
    BY <2>1, <2>2, CodeOfWord DEF LdDwImm
  <2>6. SrcReg(EncodeWord(i)) = Bits(src)
    BY <2>1, <2>4, FieldsDoNotOverlap DEF SrcReg
  <2>7. ImmOf(EncodeWord(i)) = Bits(imm)
    BY <2>1, FieldsDoNotOverlap DEF ImmOf
  <2> QED  BY <2>3, <2>5, <2>6, <2>7, Zenon
<1>2. StLdMode.IMM = 0 /\ StLdSize.DW = 24 /\ InsClass.Ld = 0
  BY Numbers
<1>3. \A imm : LdFunctionPtr(imm) = Mem(0, 24, 0, 2, 4, 0, imm, <<0>>)
  BY <1>2 DEF LdFunctionPtr
<1>4. \A dst, fd : LdMapByFd(dst, fd) = Mem(0, 24, 0, dst, 1, 0, fd, <<0>>)
  BY <1>2 DEF LdMapByFd, newLoadImmOperation
<1>5. Bits(1) # Bits(4) /\ 1 \in 0 .. 15 /\ 4 \in 0 .. 15
  BY FourBits
<1>6. ASSUME NEW imm
      PROVE  LET w == EncodeWord(LdFunctionPtr(imm))
             IN  Code(w) = LdDwImm /\ SrcReg(w) = Bits(4) /\ ImmOf(w) = Bits(imm)
  <2>1. LET w == EncodeWord(Mem(0, 24, 0, 2, 4, 0, imm, <<0>>))
        IN  Code(w) = LdDwImm /\ SrcReg(w) = Bits(4) /\ ImmOf(w) = Bits(imm)
    BY <1>1, <1>5
  <2> QED  BY <1>3, <2>1, Zenon
<1>7. ASSUME NEW dst, NEW fd
      PROVE  LET w == EncodeWord(LdMapByFd(dst, fd))
             IN  Code(w) = LdDwImm /\ SrcReg(w) # Bits(4)
  <2>1. LET w == EncodeWord(Mem(0, 24, 0, dst, 1, 0, fd, <<0>>))
        IN  Code(w) = LdDwImm /\ SrcReg(w) = Bits(1)
    BY <1>1, <1>5
  <2> QED  BY <1>4, <1>5, <2>1, Zenon
<1> QED  BY <1>6, <1>7, Zenon

\* What the words of an encoded loop program say to the kernel.
LEMMA LoopRead ==
    ASSUME NEW mapFd, NEW body, LoopInsns(body), NEW p, p = LoopFunctions(mapFd, body),
           NEW buff, MainWords(p, buff, 29), BodyWords(p, buff), Len(buff) = 31 + Len(body),
           NEW S, Reads(buff, S)
    PROVE  /\ Code(buff[7]) = LdDwImm /\ SrcReg(buff[7]) = Bits(4) /\ ImmOf(buff[7]) = Bits(24)
           /\ 7 \in S /\ 32 \in S
           /\ \A q \in S : Code(buff[q]) = LdDwImm /\ SrcReg(buff[q]) = Bits(4) => q = 7
           /\ buff[31] = EncodeWord(Exit) /\ buff[32] = EncodeWord(loopFuncHead[1])
<1> DEFINE m == main(mapFd)
<1>1. p[1].insns = m /\ p[2].insns = body
  BY LoopFunctionsAre
<1>2. WideAt(m, {7, 9}) /\ Len(m) = 29 /\ m[7] = LdFunctionPtr(24) /\ m[9] = LdMapByFd(9, mapFd)
      /\ EndsWithExit(m)
  BY MainShape
<1> HIDE DEF m
<1>3. Len(body) \in Nat \ {0} /\ body[1] = loopFuncHead[1] /\ \A j \in 1 .. Len(body) : OneSlot(body[j])
  BY SlimIs DEF LoopInsns
<1>4. \A k \in 1 .. 29 : buff[Slot(k)] = EncodeWord(m[k])
  BY <1>1, Zenon DEF MainWords
<1>5. \A j \in 1 .. Len(body) : buff[31 + j] = EncodeWord(body[j])
  <2>1. Len(buff) - 31 = Len(body)
    BY <1>3
  <2> QED  BY <1>1, <2>1, Zenon DEF BodyWords
<1>6. \A k \in 1 .. 29 : k \notin {7, 9} => Code(EncodeWord(m[k])) # LdDwImm
  <2>1. \A k \in 1 .. 29 : k \notin {7, 9} => OneSlot(m[k])
    BY <1>2 DEF WideAt
  <2> QED  BY <2>1, CodeOfWord DEF OneSlot
<1>7. \A j \in 1 .. Len(body) : Code(buff[31 + j]) # LdDwImm
  <2> SUFFICES ASSUME NEW j \in 1 .. Len(body) PROVE Code(buff[31 + j]) # LdDwImm
    OBVIOUS
  <2>1. buff[31 + j] = EncodeWord(body[j]) /\ OneSlot(body[j])
    BY <1>3, <1>5, Zenon
  <2> QED  BY <2>1, CodeOfWord DEF OneSlot
<1>8. Slot(6) = 6 /\ Slot(7) = 7 /\ Slot(8) = 9 /\ Slot(9) = 10 /\ Slot(29) = 31
  BY DEF Slot
<1>9. /\ Code(buff[6]) # LdDwImm /\ Code(buff[9]) # LdDwImm /\ Code(buff[31]) # LdDwImm
      /\ buff[7] = EncodeWord(LdFunctionPtr(24)) /\ buff[10] = EncodeWord(LdMapByFd(9, mapFd))
      /\ buff[31] = EncodeWord(Exit)
  <2>1. /\ buff[Slot(6)] = EncodeWord(m[6]) /\ buff[Slot(7)] = EncodeWord(m[7])
        /\ buff[Slot(8)] = EncodeWord(m[8]) /\ buff[Slot(9)] = EncodeWord(m[9])
        /\ buff[Slot(29)] = EncodeWord(m[29])
    BY <1>4
  <2>2. /\ Code(EncodeWord(m[6])) # LdDwImm /\ Code(EncodeWord(m[8])) # LdDwImm
        /\ Code(EncodeWord(m[29])) # LdDwImm
    BY <1>6
  <2>3. m[29] = Exit
    BY <1>2 DEF EndsWithExit
  <2> QED  BY <1>2, <1>8, <2>1, <2>2, <2>3
<1>10. /\ Code(buff[7]) = LdDwImm /\ SrcReg(buff[7]) = Bits(4) /\ ImmOf(buff[7]) = Bits(24)
       /\ Code(buff[10]) = LdDwImm /\ SrcReg(buff[10]) # Bits(4)
  BY <1>9, ConstantWords, Zenon
<1>11. 7 \in S /\ 8 \notin S /\ 10 \in S /\ 11 \notin S /\ 32 \in S /\ S \subseteq 1 .. Len(buff)
  <2>1. \A q \in 1 .. 32 : q \in 1 .. Len(buff)
    BY <1>3
  <2>2. \A q \in 2 .. 32 : q \in S <=> ~(Code(buff[q - 1]) = LdDwImm /\ q - 1 \in S)
    <3>1. \A q \in 2 .. 32 : q \in 1 .. 32 /\ q # 1
      OBVIOUS
    <3> QED  BY <2>1, <3>1, Zenon DEF Reads
  <2>3. 7 \in S <=> ~(Code(buff[6]) = LdDwImm /\ 6 \in S)
    BY <2>2
  <2>4. 8 \in S <=> ~(Code(buff[7]) = LdDwImm /\ 7 \in S)
    BY <2>2
  <2>5. 10 \in S <=> ~(Code(buff[9]) = LdDwImm /\ 9 \in S)
    BY <2>2
  <2>6. 11 \in S <=> ~(Code(buff[10]) = LdDwImm /\ 10 \in S)
    BY <2>2
  <2>7. 32 \in S <=> ~(Code(buff[31]) = LdDwImm /\ 31 \in S)
    BY <2>2
  <2>8. S \subseteq 1 .. Len(buff)
    BY DEF Reads
  <2> QED  BY <1>9, <1>10, <2>3, <2>4, <2>5, <2>6, <2>7, <2>8, Zenon
<1>12. ASSUME NEW q \in S, Code(buff[q]) = LdDwImm, SrcReg(buff[q]) = Bits(4) PROVE q = 7
  <2>1. q \in 1 .. Len(buff) /\ q # 8 /\ q # 11 /\ q # 10
    BY <1>10, <1>11, <1>12
  <2>2. CASE q \in 1 .. 31
    <3>1. PICK k \in 1 .. 29 : q = Slot(k) /\ (k = 7 <=> q = 7) /\ (k = 9 <=> q = 10)
      <4>1. q \notin {8, 11}
        BY <2>1
      <4> QED  BY <2>2, <4>1, Slots, Zenon
    <3>2. Code(EncodeWord(m[k])) = LdDwImm
      BY <1>4, <1>12, <3>1, Zenon
    <3>3. k \in {7, 9}
      BY <1>6, <3>2, Zenon
    <3> QED  BY <2>1, <3>1, <3>3
  <2>3. CASE q \notin 1 .. 31
    <3>1. q - 31 \in 1 .. Len(body) /\ 31 + (q - 31) = q
      BY <1>3, <2>1, <2>3
    <3> QED  BY <1>7, <1>12, <3>1
  <2> QED  BY <2>2, <2>3
<1>13. buff[32] = EncodeWord(loopFuncHead[1])
  <2>1. 1 \in 1 .. Len(body) /\ 31 + 1 = 32
    BY <1>3
  <2>2. buff[31 + 1] = EncodeWord(body[1])
    BY <1>5, <2>1, Zenon
  <2> QED  BY <1>3, <2>1, <2>2
<1> QED  BY <1>9, <1>10, <1>11, <1>12, <1>13, Zenon

\* The kernel finds the loop function of every loop program, however many turns its
\* body has and whatever they append: main's function pointer and func_info lead
\* behind main's exit to the function's first instruction, and their types are
\* functions.
THEOREM LoopFunctionFound == Spec => []FunctionsAreFound
<1>1. ASSUME EInv, KInv, LInv, BInv, epc = "done", asked.fn = "loop" PROVE FunctionsAreFound
  <2>1. LoopWords(prog, fn, ins, prog_buff) /\ InfosWritten(prog, fn, func_buff) /\ bpc = "returned"
    BY <1>1 DEF LInv
  <2>2. LoopPart /\ Walk(prog, fn, ins, prog_buff) /\ fn = Len(prog) + 1
    <3>1. asked.fn \notin CbpfRequests
      BY <1>1 DEF CbpfRequests
    <3> QED  BY <1>1, <3>1 DEF KInv
  <2>3. PICK mapFd, body : prog = LoopFunctions(mapFd, body) /\ LoopInsns(body)
    BY <2>2 DEF LoopPart
  <2>4. /\ Len(prog) = 2 /\ prog[2].insns = body
        /\ prog[1].info = [InsnOff |-> 0, TypeId |-> 2] /\ prog[2].info = [InsnOff |-> 31, TypeId |-> 7]
    BY <2>3, LoopFunctionsAre
  <2>5. fn = 3
    BY <2>2, <2>4
  <2>6. func_buff = <<prog[1].info, prog[2].info>>
    BY <2>1, <2>5 DEF InfosWritten
  <2>7. /\ Len(func_buff) = 2 /\ func_buff[1].InsnOff = 0 /\ func_buff[1].TypeId = 2
        /\ func_buff[2].InsnOff = 31 /\ func_buff[2].TypeId = 7
    BY <2>4, <2>6
  <2>8. Len(prog_buff) = 31 + Len(body) /\ MainWords(prog, prog_buff, 29) /\ BodyWords(prog, prog_buff)
    BY <2>1, <2>4, <2>5 DEF LoopWords
  <2>9. PICK S : Reads(prog_buff, S)
    BY <2>2 DEF Walk, Counted
  <2>10. Starts = S
    <3>1. Len(prog_buff) \in Nat
      BY <2>2 DEF Walk
    <3> QED  BY <2>9, <3>1, StartsAre, Zenon
  <2>11. /\ Code(prog_buff[7]) = LdDwImm /\ SrcReg(prog_buff[7]) = Bits(4) /\ ImmOf(prog_buff[7]) = Bits(24)
         /\ 7 \in S /\ 32 \in S
         /\ \A q \in S : Code(prog_buff[q]) = LdDwImm /\ SrcReg(prog_buff[q]) = Bits(4) => q = 7
         /\ prog_buff[31] = EncodeWord(Exit) /\ prog_buff[32] = EncodeWord(loopFuncHead[1])
    BY <2>3, <2>8, <2>9, LoopRead
  <2>12. IsFunction(2) /\ IsFunction(7)
    <3>1. TypesWritten(types_buff, 7)
      BY <1>1, <2>1 DEF BInv
    <3>2. 2 \in 1 .. 7 /\ 7 \in 1 .. 7
      OBVIOUS
    <3> QED  BY <3>1, <3>2, FunctionsHavePrototypes, TypeTable, Zenon
  <2>13. \A k \in 1 .. 2 : IsFunction(func_buff[k].TypeId)
    <3>1. \A k \in 1 .. 2 : k = 1 \/ k = 2
      OBVIOUS
    <3> QED  BY <2>7, <2>12, <3>1, Zenon
  <2> DEFINE pointers == {q \in Starts : Code(prog_buff[q]) = LdDwImm /\ SrcReg(prog_buff[q]) = Bits(4)}
  <2>14. pointers = {7}
    BY <2>10, <2>11, Zenon
  <2> HIDE DEF pointers
  <2>15. 31 - 7 = 24 /\ 31 + 1 = 32
    OBVIOUS
  <2>16. pointers # {} /\ \A q \in pointers : ImmOf(prog_buff[q]) = Bits(31 - q)
    BY <2>11, <2>14, <2>15, Zenon
  <2>17. 31 + 1 \in Starts /\ prog_buff[31] = EncodeWord(Exit)
         /\ prog_buff[31 + 1] = EncodeWord(loopFuncHead[1])
    BY <2>10, <2>11, <2>15
  <2> DEFINE Agree(start) ==
             /\ Len(func_buff) = 2 /\ func_buff[1].InsnOff = 0
             /\ pointers # {} /\ \A q \in pointers : ImmOf(prog_buff[q]) = Bits(start - q)
             /\ start + 1 \in Starts /\ prog_buff[start] = EncodeWord(Exit)
             /\ prog_buff[start + 1] = EncodeWord(loopFuncHead[1])
             /\ \A k \in 1 .. 2 : IsFunction(func_buff[k].TypeId)
  <2>18. Agree(31)
    BY <2>7, <2>13, <2>16, <2>17, Zenon
  <2> HIDE DEF Agree
  <2>19. Agree(func_buff[2].InsnOff)
    BY <2>7, <2>18
  <2> QED  BY <2>19, ZenonT(40) DEF FunctionsAreFound, Agree, pointers
<1>2. EInv /\ KInv /\ LInv /\ BInv => FunctionsAreFound
  BY <1>1 DEF FunctionsAreFound
<1> QED  BY <1>2, LoopInvariant, PTL

=====================================================================================
