------------------------------ MODULE EncodingProofs ------------------------------
(***************************************************************************)
(* The fields of an encoded eBPF instruction do not run into each other.      *)
(***************************************************************************)
EXTENDS EbpfInstructions, TLAPS

\* A word of an int32 has 32 bits.
LEMMA BitsRange == \A n : Bits(n) \subseteq 0 .. 31
BY DEF Bits

\* An opcode has 8 bits.
LEMMA OpcodeRange == \A i : Opcode(i) \subseteq 0 .. 7
BY DEF Opcode, encodeMemOpcode, encodeAluJmpOpcode

\* A shift to the left moves every bit up, and drops those beyond the type.
LEMMA ShlMember ==
    ASSUME NEW word \in SUBSET Int, NEW k \in Nat, NEW width \in Nat
    PROVE  \A b \in Int : b \in Shl(word, k, width) <=> b \in 0 .. (width - 1) /\ b - k \in word
BY DEF Shl

\* The parts encodeInstruction ors together lie in bits 0 to 7, 8 to 11, 12 to 15,
\* 16 to 31 and 32 to 63, and hold what was shifted there.
LEMMA Parts ==
    ASSUME NEW i
    PROVE  \A b \in Int :
              b \in EncodeWord(i) <=>
                 \/ b \in 0 .. 7 /\ b \in Opcode(i)
                 \/ b \in 8 .. 11 /\ b - 8 \in Bits(i.dst)
                 \/ b \in 12 .. 15 /\ b - 12 \in Bits(i.src)
                 \/ b \in 16 .. 31 /\ b - 16 \in Bits(i.off)
                 \/ b \in 32 .. 63 /\ b - 32 \in Bits(i.imm)
<1> DEFINE low  == Bits(i.dst) \cap 0 .. 3
           high == Shl(Bits(i.src) \cap 0 .. 3, 4, 8)
           off  == Shl(Bits(i.off), 16, 32)
           imm  == Shl(Extend(Bits(i.imm)), 32, 64)
<1>1. \A b \in Int : b \in Shl(low \cup high, 8, 16) <=>
          \/ b \in 8 .. 11 /\ b - 8 \in Bits(i.dst)
          \/ b \in 12 .. 15 /\ b - 12 \in Bits(i.src)
  <2>1. \A c \in Int : c \in high <=> c \in 0 .. 7 /\ c - 4 \in Bits(i.src) \cap 0 .. 3
    BY ShlMember
  <2>2. low \cup high \in SUBSET Int
    BY DEF Shl
  <2> DEFINE both == low \cup high
  <2>3. \A b \in Int : b \in Shl(both, 8, 16) <=> b \in 0 .. 15 /\ b - 8 \in both
    <3> HIDE DEF both
    <3>1. both \in SUBSET Int
      BY <2>2 DEF both
    <3> QED  BY <3>1, ShlMember
  <2>4. \A c \in Int : c \in both <=> (c \in 0 .. 3 /\ c \in Bits(i.dst))
                                       \/ (c \in 4 .. 7 /\ c - 4 \in Bits(i.src))
    <3> HIDE DEF high
    <3> QED  BY <2>1
  <2> HIDE DEF low, high, both
  <2>5. ASSUME NEW b \in Int
        PROVE  b \in Shl(both, 8, 16) <=> (b \in 8 .. 11 /\ b - 8 \in Bits(i.dst))
                                           \/ (b \in 12 .. 15 /\ b - 12 \in Bits(i.src))
    <3>1. b \in Shl(both, 8, 16) <=> b \in 0 .. 15 /\ b - 8 \in both
      BY <2>3
    <3>2. b - 8 \in both <=> (b - 8 \in 0 .. 3 /\ b - 8 \in Bits(i.dst))
                              \/ (b - 8 \in 4 .. 7 /\ (b - 8) - 4 \in Bits(i.src))
      BY <2>4, b - 8 \in Int
    <3>3. (b - 8) - 4 = b - 12
      OBVIOUS
    <3> QED  BY <3>1, <3>2, <3>3
  <2> QED  BY <2>5 DEF both
<1>2. \A b \in Int : b \in off <=> b \in 16 .. 31 /\ b - 16 \in Bits(i.off)
  BY BitsRange DEF Shl
<1>3. \A b \in Int : b \in imm <=> b \in 32 .. 63 /\ b - 32 \in Bits(i.imm)
  <2>1. \A c \in Int : c \in Extend(Bits(i.imm)) /\ c < 32 <=> c \in Bits(i.imm)
    BY BitsRange DEF Extend
  <2>2. Extend(Bits(i.imm)) \subseteq 0 .. 63
    BY BitsRange DEF Extend
  <2>3. \A b \in Int : b \in imm <=> b \in 0 .. 63 /\ b - 32 \in Extend(Bits(i.imm))
    BY <2>2 DEF Shl
  <2> QED  BY <2>1, <2>2, <2>3
<1>4. EncodeWord(i) = Opcode(i) \cup Shl(low \cup high, 8, 16) \cup off \cup imm
  BY DEF EncodeWord
<1> HIDE DEF low, high, off, imm
<1> QED  BY <1>1, <1>2, <1>3, <1>4, OpcodeRange

\* A field is a part of the word if the two agree on its bits.
LEMMA FieldIs ==
    ASSUME NEW word, NEW lo \in Nat, NEW n \in Nat, NEW part \in SUBSET (0 .. (n - 1)),
           \A c \in 0 .. (n - 1) : c + lo \in word <=> c \in part
    PROVE  Field(word, lo, n) = part
<1>1. ASSUME NEW c \in Field(word, lo, n) PROVE c \in part
  <2>1. PICK b \in word \cap lo .. (lo + n - 1) : c = b - lo
    BY DEF Field
  <2>2. c \in 0 .. (n - 1) /\ c + lo = b
    BY <2>1
  <2> QED  BY <2>1, <2>2
<1>2. ASSUME NEW c \in part PROVE c \in Field(word, lo, n)
  <2>1. c + lo \in word \cap lo .. (lo + n - 1) /\ (c + lo) - lo = c
    OBVIOUS
  <2> QED  BY <2>1 DEF Field
<1> QED  BY <1>1, <1>2

\* For every instruction whatever, the kernel's struct bpf_insn holds what the
\* encoder was given: the opcode, 4 bits of each register, 16 of the offset, and
\* the whole immediate; no sign of the one spills into the other.
THEOREM FieldsDoNotOverlap ==
    ASSUME NEW i
    PROVE  /\ Field(EncodeWord(i), 0, 8) = Opcode(i)
           /\ Field(EncodeWord(i), 8, 4) = Bits(i.dst) \cap 0 .. 3
           /\ Field(EncodeWord(i), 12, 4) = Bits(i.src) \cap 0 .. 3
           /\ Field(EncodeWord(i), 16, 16) = Bits(i.off) \cap 0 .. 15
           /\ Field(EncodeWord(i), 32, 32) = Bits(i.imm)
<1>1. \A b \in Int : b \in EncodeWord(i) <=>
                 \/ b \in 0 .. 7 /\ b \in Opcode(i)
                 \/ b \in 8 .. 11 /\ b - 8 \in Bits(i.dst)
                 \/ b \in 12 .. 15 /\ b - 12 \in Bits(i.src)
                 \/ b \in 16 .. 31 /\ b - 16 \in Bits(i.off)
                 \/ b \in 32 .. 63 /\ b - 32 \in Bits(i.imm)
  BY Parts
<1>2. Field(EncodeWord(i), 0, 8) = Opcode(i)
  <2>1. \A c \in 0 .. (8 - 1) : c + 0 \in EncodeWord(i) <=> c \in Opcode(i)
    BY <1>1, OpcodeRange
  <2>2. Opcode(i) \in SUBSET (0 .. (8 - 1))
    BY OpcodeRange
  <2> QED  BY <2>1, <2>2, FieldIs
<1>3. Field(EncodeWord(i), 8, 4) = (Bits(i.dst) \cap 0 .. 3)
  <2>1. \A c \in 0 .. (4 - 1) : c + 8 \in EncodeWord(i) <=> c \in (Bits(i.dst) \cap 0 .. 3)
    BY <1>1
  <2>2. (Bits(i.dst) \cap 0 .. 3) \in SUBSET (0 .. (4 - 1))
    OBVIOUS
  <2> QED  BY <2>1, <2>2, FieldIs
<1>4. Field(EncodeWord(i), 12, 4) = (Bits(i.src) \cap 0 .. 3)
  <2>1. \A c \in 0 .. (4 - 1) : c + 12 \in EncodeWord(i) <=> c \in (Bits(i.src) \cap 0 .. 3)
    BY <1>1
  <2>2. (Bits(i.src) \cap 0 .. 3) \in SUBSET (0 .. (4 - 1))
    OBVIOUS
  <2> QED  BY <2>1, <2>2, FieldIs
<1>5. Field(EncodeWord(i), 16, 16) = (Bits(i.off) \cap 0 .. 15)
  <2>1. \A c \in 0 .. (16 - 1) : c + 16 \in EncodeWord(i) <=> c \in (Bits(i.off) \cap 0 .. 15)
    BY <1>1
  <2>2. (Bits(i.off) \cap 0 .. 15) \in SUBSET (0 .. (16 - 1))
    OBVIOUS
  <2> QED  BY <2>1, <2>2, FieldIs
<1>6. Field(EncodeWord(i), 32, 32) = Bits(i.imm)
  <2>1. \A c \in 0 .. (32 - 1) : c + 32 \in EncodeWord(i) <=> c \in Bits(i.imm)
    BY <1>1, BitsRange
  <2>2. Bits(i.imm) \in SUBSET (0 .. (32 - 1))
    BY BitsRange
  <2> QED  BY <2>1, <2>2, FieldIs
<1> QED  BY <1>2, <1>3, <1>4, <1>5, <1>6

--------------------------------------------------------------------------------
(* What is in a word *)

\* The powers of two that an int32 can be divided by.
LEMMA PowerAt ==
    ASSUME NEW i \in Int
    PROVE
      /\ (i = 0 => 2^i = 1) /\ (i = 1 => 2^i = 2) /\ (i = 2 => 2^i = 4) /\ (i = 3 => 2^i = 8)
      /\ (i = 4 => 2^i = 16) /\ (i = 5 => 2^i = 32) /\ (i = 6 => 2^i = 64) /\ (i = 7 => 2^i = 128)
      /\ (i = 8 => 2^i = 256) /\ (i = 9 => 2^i = 512) /\ (i = 10 => 2^i = 1024) /\ (i = 11 => 2^i = 2048)
      /\ (i = 12 => 2^i = 4096) /\ (i = 13 => 2^i = 8192) /\ (i = 14 => 2^i = 16384) /\ (i = 15 => 2^i = 32768)
      /\ (i = 16 => 2^i = 65536) /\ (i = 17 => 2^i = 131072) /\ (i = 18 => 2^i = 262144) /\ (i = 19 => 2^i = 524288)
      /\ (i = 20 => 2^i = 1048576) /\ (i = 21 => 2^i = 2097152) /\ (i = 22 => 2^i = 4194304) /\ (i = 23 => 2^i = 8388608)
      /\ (i = 24 => 2^i = 16777216) /\ (i = 25 => 2^i = 33554432) /\ (i = 26 => 2^i = 67108864) /\ (i = 27 => 2^i = 134217728)
      /\ (i = 28 => 2^i = 268435456) /\ (i = 29 => 2^i = 536870912) /\ (i = 30 => 2^i = 1073741824)
<1>0. i = 0 => 2^i = 1  OBVIOUS
<1>1. i = 1 => 2^i = 2  OBVIOUS
<1>2. i = 2 => 2^i = 4  OBVIOUS
<1>3. i = 3 => 2^i = 8  OBVIOUS
<1>4. i = 4 => 2^i = 16  OBVIOUS
<1>5. i = 5 => 2^i = 32  OBVIOUS
<1>6. i = 6 => 2^i = 64  OBVIOUS
<1>7. i = 7 => 2^i = 128  OBVIOUS
<1>8. i = 8 => 2^i = 256  OBVIOUS
<1>9. i = 9 => 2^i = 512  OBVIOUS
<1>10. i = 10 => 2^i = 1024  OBVIOUS
<1>11. i = 11 => 2^i = 2048  OBVIOUS
<1>12. i = 12 => 2^i = 4096  OBVIOUS
<1>13. i = 13 => 2^i = 8192  OBVIOUS
<1>14. i = 14 => 2^i = 16384  OBVIOUS
<1>15. i = 15 => 2^i = 32768  OBVIOUS
<1>16. i = 16 => 2^i = 65536  OBVIOUS
<1>17. i = 17 => 2^i = 131072  OBVIOUS
<1>18. i = 18 => 2^i = 262144  OBVIOUS
<1>19. i = 19 => 2^i = 524288  OBVIOUS
<1>20. i = 20 => 2^i = 1048576  OBVIOUS
<1>21. i = 21 => 2^i = 2097152  OBVIOUS
<1>22. i = 22 => 2^i = 4194304  OBVIOUS
<1>23. i = 23 => 2^i = 8388608  OBVIOUS
<1>24. i = 24 => 2^i = 16777216  OBVIOUS
<1>25. i = 25 => 2^i = 33554432  OBVIOUS
<1>26. i = 26 => 2^i = 67108864  OBVIOUS
<1>27. i = 27 => 2^i = 134217728  OBVIOUS
<1>28. i = 28 => 2^i = 268435456  OBVIOUS
<1>29. i = 29 => 2^i = 536870912  OBVIOUS
<1>30. i = 30 => 2^i = 1073741824  OBVIOUS
<1> QED
  BY <1>0, <1>1, <1>2, <1>3, <1>4, <1>5, <1>6, <1>7, <1>8, <1>9, <1>10, <1>11, <1>12,
     <1>13, <1>14, <1>15, <1>16, <1>17, <1>18, <1>19, <1>20, <1>21, <1>22, <1>23, <1>24,
     <1>25, <1>26, <1>27, <1>28, <1>29, <1>30

\* They grow, as far as the lemmas below need it.
LEMMA PowersGrow ==
    \A i \in 0 .. 30 : /\ 2^i \in Nat \ {0}
                       /\ (i >= 4 => 2^i >= 16) /\ (i >= 5 => 2^i >= 32)
                       /\ (i >= 6 => 2^i >= 64) /\ (i >= 8 => 2^i >= 256)
                       /\ (i >= 9 => 2^i >= 512)
BY PowerAt

\* The definition of Bits, bit by bit.
LEMMA BitAt ==
    \A n \in Int : /\ \A i \in 0 .. 30 : i \in Bits(n) <=> (n \div 2^i) % 2 = 1
                   /\ 31 \in Bits(n) <=> n < 0
BY DEF Bits

\* The bits of the low byte.
LEMMA LowBits ==
    ASSUME NEW n \in Int
    PROVE  /\ 0 \in Bits(n) <=> n % 2 = 1
           /\ 1 \in Bits(n) <=> (n \div 2) % 2 = 1
           /\ 2 \in Bits(n) <=> (n \div 4) % 2 = 1
           /\ 3 \in Bits(n) <=> (n \div 8) % 2 = 1
           /\ 4 \in Bits(n) <=> (n \div 16) % 2 = 1
           /\ 5 \in Bits(n) <=> (n \div 32) % 2 = 1
           /\ 6 \in Bits(n) <=> (n \div 64) % 2 = 1
           /\ 7 \in Bits(n) <=> (n \div 128) % 2 = 1
BY BitAt, PowerAt

\* Division by more than the number itself leaves its sign.
LEMMA DivByLarger ==
    ASSUME NEW p \in Nat \ {0}, NEW n \in Int
    PROVE  /\ n \in 0 .. (p - 1) => n \div p = 0
           /\ n < 0 /\ n >= -p => n \div p = -1
OBVIOUS

\* A bit beyond the number itself is its sign.
LEMMA BitBeyond ==
    ASSUME NEW n \in Int, NEW i \in 0 .. 30
    PROVE  /\ n \in 0 .. (2^i - 1) => i \notin Bits(n)
           /\ n < 0 /\ n >= -(2^i) => i \in Bits(n)
<1>1. 2^i \in Nat \ {0}
  BY PowersGrow
<1>2. /\ n \in 0 .. (2^i - 1) => n \div 2^i = 0
      /\ n < 0 /\ n >= -(2^i) => n \div 2^i = -1
  BY <1>1, DivByLarger
<1>3. i \in Bits(n) <=> (n \div 2^i) % 2 = 1
  BY BitAt
<1>4. \A m \in Int : (m = 0 => m % 2 = 0) /\ (m = -1 => m % 2 = 1)
  OBVIOUS
<1> HIDE DEF Bits
<1> QED  BY <1>2, <1>3, <1>4

\* Zero has no bits, and minus one has them all.
LEMMA SignBits == Bits(0) = {} /\ Bits(-1) = 0 .. 31
<1>1. \A i \in 0 .. 30 : i \notin Bits(0) /\ i \in Bits(-1)
  BY BitBeyond, PowersGrow
<1>2. 31 \notin Bits(0) /\ 31 \in Bits(-1)
  BY BitAt
<1> QED  BY <1>1, <1>2, BitsRange

\* A small number has few bits, and a small negative one is all ones above them.
LEMMA SmallBits ==
    ASSUME NEW n \in Int
    PROVE  /\ n \in 0 .. 15 => Bits(n) \subseteq 0 .. 3
           /\ n \in 0 .. 31 => Bits(n) \subseteq 0 .. 4
           /\ n \in 0 .. 63 => Bits(n) \subseteq 0 .. 5
           /\ n \in 0 .. 255 => Bits(n) \subseteq 0 .. 7
           /\ n \in (-512) .. (-1) => 9 .. 31 \subseteq Bits(n)
<1>1. n >= 0 => Bits(n) \subseteq 0 .. 30
  BY DEF Bits
<1>2. n \in 0 .. 15 => Bits(n) \subseteq 0 .. 3
  BY <1>1, BitBeyond, PowersGrow
<1>3. n \in 0 .. 31 => Bits(n) \subseteq 0 .. 4
  BY <1>1, BitBeyond, PowersGrow
<1>4. n \in 0 .. 63 => Bits(n) \subseteq 0 .. 5
  BY <1>1, BitBeyond, PowersGrow
<1>5. n \in 0 .. 255 => Bits(n) \subseteq 0 .. 7
  BY <1>1, BitBeyond, PowersGrow
<1>6. n \in (-512) .. (-1) => 9 .. 31 \subseteq Bits(n)
  BY BitBeyond, BitAt, PowersGrow
<1> QED  BY <1>2, <1>3, <1>4, <1>5, <1>6

\* The fourth bit of a source operand, the low three of a class and the high four of
\* an operation make up their sum: what encodeAluJmpOpcode masks out of them.
LEMMA AluJmpSum ==
    ASSUME NEW class \in 0 .. 7, NEW source \in {0, 8}, NEW k \in 0 .. 15
    PROVE  encodeAluJmpOpcode(16 * k, class, source) = Bits(class + 16 * k + source)
<1> DEFINE n == class + 16 * k + source
<1>1. n \in 0 .. 255
  OBVIOUS
<1>2. Bits(n) \subseteq 0 .. 7
  BY <1>1, SmallBits
<1>3. \A b \in 0 .. 2 : b \in Bits(n) <=> b \in Bits(class)
  BY LowBits, SMTT(30)
<1>4. 3 \in Bits(n) <=> 3 \in Bits(source)
  BY LowBits
<1>5. \A b \in 4 .. 7 : b \in Bits(n) <=> b \in Bits(16 * k)
  BY LowBits, SMTT(30)
<1> HIDE DEF n
<1>6. encodeAluJmpOpcode(16 * k, class, source) = Bits(n)
  BY <1>2, <1>3, <1>4, <1>5 DEF encodeAluJmpOpcode
<1> QED  BY <1>6 DEF n

\* The same of a class, a size and a mode, and encodeMemOpcode.
LEMMA MemSum ==
    ASSUME NEW class \in 0 .. 7, NEW s \in 0 .. 3, NEW m \in 0 .. 7
    PROVE  encodeMemOpcode(32 * m, 8 * s, class) = Bits(class + 8 * s + 32 * m)
<1> DEFINE n == class + 8 * s + 32 * m
<1>1. n \in 0 .. 255
  OBVIOUS
<1>2. Bits(n) \subseteq 0 .. 7
  BY <1>1, SmallBits
<1>3. \A b \in 0 .. 2 : b \in Bits(n) <=> b \in Bits(class)
  BY LowBits, SMTT(30)
<1>4. \A b \in 3 .. 4 : b \in Bits(n) <=> b \in Bits(8 * s)
  BY LowBits, SMTT(30)
<1>5. \A b \in 5 .. 7 : b \in Bits(n) <=> b \in Bits(32 * m)
  BY LowBits
<1> HIDE DEF n
<1>6. encodeMemOpcode(32 * m, 8 * s, class) = Bits(n)
  BY <1>2, <1>3, <1>4, <1>5 DEF encodeMemOpcode
<1> QED  BY <1>6 DEF n

================================================================================
