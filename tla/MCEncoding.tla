-------------------------------- MODULE MCEncoding --------------------------------
(* The numbers at which signs, fields and remainders change. *)
EXTENDS LoopProgram

MostNegative == -2147483647 - 1

TriedDraws == {MostNegative, -513, -64, -1, 0, 7, 512, 2147483647}

TriedOffsets == {-32768, -1, 0, 1, 32767}

TriedJumpFields == {0, 1, 127, 128, 255}

\* A jump of 256 has nothing left in its 8 bits; 998 is the most that is drawn.
TriedJumpDraws == {1, 127, 128, 255, 256, 998}

\* Registers; int32 and int of 32 bits; int and int64 beyond them, among them
\* 2^32 - 1, 2^31, -2^31 - 1 and the smallest int64.
TriedOperands ==
    {Reg(0), Reg(7), Reg(10)}
    \cup {[Imm(n) EXCEPT !.type = t] : n \in {MostNegative, -1, 0, 7, 2147483647},
                                       t \in {"int32", "int", "int64"}}
    \cup [type : {"int", "int64"}, hi : {0}, lo : {-1, MostNegative}]
    \cup [type : {"int", "int64"}, hi : {-1}, lo : {0, 2147483647}]
    \cup [type : {"int", "int64"}, hi : {MostNegative, 1}, lo : {0}]

\* One of each kind: a load, an operation with a constant and one with a register,
\* and jumps, of which the farther one is for the first of three turns.
TriedTurnInstructions ==
    {newLoadOperation(StLdSize.DW, 7, 10, -64),
     newAluInstruction(AluOps.Arsh, InsClass.Alu64, 0, [Imm(7) EXCEPT !.type = "int32"]),
     newAluInstruction(AluOps.Mov, InsClass.Alu, 7, Reg(0)),
     newJmpInstruction(JmpOps.JSLE, InsClass.Jmp32, 7, Reg(0), 1),
     newJmpInstruction(JmpOps.JSET, InsClass.Jmp, 0, [Imm(-1) EXCEPT !.type = "int32"], 2)}

================================================================================
