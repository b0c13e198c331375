-------------------------------- MODULE GoIntegers --------------------------------
(***************************************************************************)
(* Conversions between Go's integer types, and machine words.  A word is    *)
(* the set of the positions of its one bits: | is union, & with a mask is    *)
(* intersection, and words of 64 bits need no integers of 64 bits.          *)
(***************************************************************************)
EXTENDS Integers

\* The values of an int32, without leaving them.
Int32 == (-(2^30) - 2^30) .. (2^30 - 1 + 2^30)

\* uint8(n), int8(n) and int16(n): the low bits, read without or with a sign.
Uint8(n) == n % 256
Int8(n)  == IF n % 256 >= 128 THEN (n % 256) - 256 ELSE n % 256
Int16(n) == IF n % 65536 >= 32768 THEN (n % 65536) - 65536 ELSE n % 65536

\* a % b, whose result has the sign of a.
Rem(a, b) == IF a < 0 /\ a % b # 0 THEN (a % b) - b ELSE a % b

\* An int32 in two's complement.
Bits(n) == {i \in 0 .. 30 : (n \div 2^i) % 2 = 1} \cup (IF n < 0 THEN {31} ELSE {})

\* word << k in a type of `width` bits.
Shl(word, k, width) == {i + k : i \in word} \cap 0 .. (width - 1)

\* uint64(x) of an int32 x, which repeats the sign.
Extend(word) == word \cup (IF 31 \in word THEN 32 .. 63 ELSE {})

\* The n bits from position lo on, as a word of their own.
Field(word, lo, n) == {i - lo : i \in word \cap lo .. (lo + n - 1)}

================================================================================
