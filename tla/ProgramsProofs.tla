------------------------------ MODULE ProgramsProofs ------------------------------
(***************************************************************************)
(* What module Programs says of the jumps of generated programs, for every    *)
(* number of instructions RandInt() % 1000 can give and every number of        *)
(* mutations.                                                                *)
(***************************************************************************)
EXTENDS Programs, SequenceTheorems, TLAPS

--------------------------------------------------------------------------------
(* Programs written from scratch *)

\* The jump that is followed goes ahead and stays inside what has been appended
\* together with the turns that are left, each of which appends at least one
\* instruction; the source of random numbers has not panicked.
RbInv ==
    /\ RbTypeOK
    /\ pc # "panic"
    /\ pc = "done" => count = 0
    /\ jump # NoJump => jump.ahead /\ jump.to <= len + count

\* The conversions of RandomJmpInstruction and of the encoders never make an
\* offset longer, and never make it negative.
LEMMA JumpFieldBound ==
    ASSUME NEW off \in 1 .. 998
    PROVE  JumpField(off) \in 0 .. off
<1>1. Uint8(Int8(off)) = off % 256
  BY DEF Uint8, Int8
<1>2. off % 256 \in 0 .. off
  OBVIOUS
<1>3. Int16(off) = off
  BY DEF Int16
<1> QED  BY <1>1, <1>2, <1>3 DEF JumpField, CbpfJumpField, EbpfJumpField

LEMMA RbInitInv == RbInit => RbInv
<1> SUFFICES ASSUME RbInit PROVE RbInv
  OBVIOUS
<1>1. Counts[strat] \subseteq 0 .. 999
  BY CountsAssumption DEF RbInit
<1> QED  BY <1>1 DEF RbInit, RbInv, RbTypeOK, NoJump, BodyStrategies

LEMMA RbIdleInv == RbIdle => RbInv
  BY DEF RbIdle, RbInv, RbTypeOK, NoJump, BodyStrategies

LEMMA PlainKeeps ==
    ASSUME NEW n \in Nat \ {0}, RbInv, AppendPlain(n)
    PROVE  RbInv'
<1>1. jump' # NoJump => jump.to <= len + count /\ jump.ahead /\ jump' = jump
  BY DEF RbInv, AppendPlain
<1>2. len' + count' >= len + count /\ len' \in Nat /\ count' \in 0 .. 999
  BY DEF RbInv, RbTypeOK, AppendPlain
<1>3. jump' \in [to : Int, ahead : BOOLEAN] /\ jump' = jump
  BY DEF RbInv, RbTypeOK, AppendPlain
<1>4. jump' # NoJump => jump'.to <= len' + count' /\ jump'.ahead
  <2>1. jump.to \in Int /\ len + count \in Int /\ len' + count' \in Int
    BY <1>2, <1>3 DEF RbInv, RbTypeOK
  <2>2. jump.to <= len + count => jump.to <= len' + count'
    BY <2>1, <1>2
  <2> QED  BY <2>2, <1>1, <1>3, Zenon
<1> QED  BY <1>2, <1>3, <1>4 DEF RbInv, RbTypeOK, AppendPlain

LEMMA JumpKeeps ==
    ASSUME RbInv, JumpTurn
    PROVE  RbInv'
<1>1. count \in 2 .. 999 /\ count' = count - 1 /\ len' = len + 1 /\ len \in Nat
  BY DEF RbInv, RbTypeOK, JumpTurn, MayJump
<1>2. pc' = "loop"
  BY <1>1 DEF JumpTurn, RangeIsEmpty
<1>3. /\ jump' \in [to : Int, ahead : BOOLEAN]
      /\ jump' # NoJump => jump'.ahead /\ jump'.to <= len' + count'
  <2>1. CASE UNCHANGED jump
    BY <1>1, <2>1 DEF RbInv, RbTypeOK
  <2>2. CASE \E off \in 1 .. (count - 1) : Follow(off)
    <3>1. PICK off \in 1 .. (count - 1) : Follow(off)
      BY <2>2
    <3>2. off \in 1 .. 998
      BY <1>1
    <3>3. JumpField(off) \in 0 .. off
      BY <3>2, JumpFieldBound, ZenonT(40)
    <3> DEFINE to == len + 1 + JumpField(off)
    <3>4. to \in Int /\ to > len /\ to <= len' + count'
      BY <1>1, <3>1, <3>3
    <3>5. jump' = [to |-> to, ahead |-> to > len]
      BY <3>1 DEF Follow
    <3> HIDE DEF to
    <3>6. jump' = [to |-> to, ahead |-> TRUE]
      BY <3>4, <3>5
    <3> QED  BY <3>4, <3>6
  <2> QED  BY <2>1, <2>2 DEF JumpTurn
<1> QED  BY <1>1, <1>2, <1>3 DEF RbInv, RbTypeOK, JumpTurn

LEMMA RbStepInv ==
    ASSUME RbInv, [RbNext]_rbvars
    PROVE  RbInv'
<1>1. CASE PlainTurn
  BY <1>1, PlainKeeps DEF PlainTurn
<1>2. CASE BlockTurn
  BY <1>2, PlainKeeps DEF BlockTurn
<1>3. CASE JumpTurn
  BY <1>3, JumpKeeps
<1>4. CASE Finish
  BY <1>4 DEF Finish, RbInv, RbTypeOK
<1>5. CASE NextProgram
  <2>1. strat \in BodyStrategies
    BY <1>5 DEF NextProgram, RbInv, RbTypeOK
  <2>2. count' \in 0 .. 999
    BY <1>5, <2>1, CountsAssumption DEF NextProgram
  <2> QED  BY <1>5, <2>1, <2>2 DEF NextProgram, RbInv, RbTypeOK, NoJump
<1>6. CASE UNCHANGED rbvars
  BY <1>6 DEF rbvars, RbInv, RbTypeOK
<1> QED  BY <1>1, <1>2, <1>3, <1>4, <1>5, <1>6 DEF RbNext

--------------------------------------------------------------------------------
(* Mutated programs *)

PmInv == PmTypeOK /\ MutantsReachFooter

\* What an insertion in the middle makes of the program: the instruction at pos
\* gives way to two of the new one.
LEMMA InsertShape ==
    ASSUME body \in Seq(Instructions), NEW pos \in 1 .. (Len(body) - 1), NEW new \in Instructions
    PROVE  /\ InsertAt(pos, new) \in Seq(Instructions)
           /\ Len(InsertAt(pos, new)) = Len(body) + 1
           /\ \A i \in 1 .. (Len(body) + 1) :
                 InsertAt(pos, new)[i] = IF i <= pos THEN body[i]
                                         ELSE IF i <= pos + 2 THEN new ELSE body[i - 1]
<1> DEFINE array == [body EXCEPT ![pos + 1] = new]
           front == SubSeq(array, 1, pos + 1)
           back  == SubSeq(array, pos + 1, Len(body))
<1>1. array \in Seq(Instructions) /\ Len(array) = Len(body)
  OBVIOUS
<1>2. \A i \in 1 .. Len(body) : array[i] = IF i = pos + 1 THEN new ELSE body[i]
  OBVIOUS
<1> HIDE DEF array
<1>3. front \in Seq(Instructions) /\ Len(front) = pos + 1 /\ \A i \in 1 .. (pos + 1) : front[i] = array[i]
  BY <1>1
<1>4. /\ back \in Seq(Instructions) /\ Len(back) = Len(body) - pos
      /\ \A i \in 1 .. (Len(body) - pos) : back[i] = array[pos + i]
  BY <1>1
<1>5. InsertAt(pos, new) = front \o back
  BY DEF InsertAt, array
<1> HIDE DEF front, back
<1>6. /\ front \o back \in Seq(Instructions) /\ Len(front \o back) = Len(front) + Len(back)
      /\ \A i \in 1 .. Len(front) + Len(back) :
            (front \o back)[i] = IF i <= Len(front) THEN front[i] ELSE back[i - Len(front)]
  BY <1>3, <1>4, ConcatProperties
<1>7. ASSUME NEW i \in 1 .. (Len(body) + 1)
      PROVE  (front \o back)[i] = IF i <= pos THEN body[i]
                                  ELSE IF i <= pos + 2 THEN new ELSE body[i - 1]
  <2>1. CASE i <= pos + 1
    <3>1. (front \o back)[i] = array[i]
      BY <1>3, <1>4, <1>6, <2>1
    <3> QED  BY <3>1, <1>2, <2>1
  <2>2. CASE i > pos + 1
    <3>1. (front \o back)[i] = back[i - (pos + 1)] /\ i - (pos + 1) \in 1 .. (Len(body) - pos)
      BY <1>3, <1>4, <1>6, <2>2, SMTT(30)
    <3>2. back[i - (pos + 1)] = array[pos + (i - (pos + 1))]
      BY <3>1, <1>4
    <3>3. pos + (i - (pos + 1)) = i - 1 /\ i - 1 \in 1 .. Len(body) /\ Len(body) \in Nat
      BY <2>2
    <3> QED  BY <3>1, <3>2, <3>3, <1>2, <2>2
  <2>3. i <= pos + 1 \/ i > pos + 1
    BY Len(body) \in Nat
  <2> QED  BY <2>1, <2>2, <2>3, Zenon
<1> QED  BY <1>3, <1>4, <1>5, <1>6, <1>7

LEMMA RandomInstructionType ==
    ASSUME made \in Nat, NEW maxJmp \in Nat, NEW new \in RandomInstruction(maxJmp)
    PROVE  new \in Instructions /\ new.jmp \in 0 .. maxJmp
BY DEF RandomInstruction, Instructions

LEMMA PmStepInv ==
    ASSUME PmInv, [PmNext]_pmvars
    PROVE  PmInv'
<1>0. /\ body \in Seq(Instructions) /\ made \in Nat /\ active \in BOOLEAN
      /\ \A i \in 1 .. Len(body) : i + body[i].jmp <= Len(body) /\ body[i].jmp \in Nat
  <2>1. body \in Seq(Instructions) /\ made \in Nat
    BY MaxMutationsAssumption DEF PmInv, PmTypeOK
  <2>2. \A i \in 1 .. Len(body) : body[i].jmp \in Nat
    <3>1. \A i \in 1 .. Len(body) : body[i] \in Instructions
      BY <2>1
    <3> QED  BY <3>1 DEF Instructions
  <2> QED  BY <2>1, <2>2, Zenon DEF PmInv, PmTypeOK, MutantsReachFooter
<1>m. Mutable /\ made' = made + 1 => made' \in 0 .. MaxMutations
  BY MaxMutationsAssumption, made \in 0 .. MaxMutations DEF Mutable, PmInv, PmTypeOK
<1>1. CASE AddFirst
  <2>1. PICK new \in RandomInstruction(IF body = <<>> THEN 0 ELSE Len(body) - 1) : body' = <<new>> \o body
    BY <1>1 DEF AddFirst
  <2>2. body = <<>> \/ Len(body) - 1 \in Nat
    BY <1>0
  <2>3. new \in Instructions /\ new.jmp \in 0 .. (IF body = <<>> THEN 0 ELSE Len(body) - 1)
    BY <1>0, <2>1, <2>2, RandomInstructionType
  <2>4. /\ body' \in Seq(Instructions) /\ Len(body') = Len(body) + 1
        /\ body'[1] = new /\ \A i \in 2 .. Len(body') : body'[i] = body[i - 1]
    BY <1>0, <2>1, <2>3
  <2>5. \A i \in 1 .. Len(body') : i + body'[i].jmp <= Len(body')
    <3> SUFFICES ASSUME NEW i \in 1 .. Len(body') PROVE i + body'[i].jmp <= Len(body')
      OBVIOUS
    <3>1. CASE i = 1
      BY <3>1, <1>0, <2>3, <2>4
    <3>2. CASE i # 1
      <4>1. i - 1 \in 1 .. Len(body) /\ body'[i] = body[i - 1]
        BY <3>2, <1>0, <2>4
      <4> QED  BY <4>1, <1>0, <2>4
    <3> QED  BY <3>1, <3>2
  <2> QED  BY <1>1, <1>m, <1>0, <2>4, <2>5, Zenon DEF AddFirst, PmInv, PmTypeOK, MutantsReachFooter
<1>2. CASE AddLast
  <2>1. PICK new \in RandomInstruction(0) : body' = Append(body, new)
    BY <1>2 DEF AddLast
  <2>2. new \in Instructions /\ new.jmp = 0
    BY <1>0, <2>1, RandomInstructionType
  <2>3. /\ body' \in Seq(Instructions) /\ Len(body') = Len(body) + 1
        /\ body'[Len(body')] = new /\ \A i \in 1 .. Len(body) : body'[i] = body[i]
    BY <1>0, <2>1, <2>2
  <2>4. \A i \in 1 .. Len(body') : i + body'[i].jmp <= Len(body')
    BY <1>0, <2>2, <2>3
  <2> QED  BY <1>2, <1>m, <1>0, <2>3, <2>4, Zenon DEF AddLast, PmInv, PmTypeOK, MutantsReachFooter
<1>3. CASE AddMiddle
  <2>0. PICK pos \in 1 .. (Len(body) - 1) :
            \E new \in RandomInstruction(Len(body) - pos - 1) : body' = InsertAt(pos, new)
    BY <1>3 DEF AddMiddle
  <2>1. PICK new \in RandomInstruction(Len(body) - pos - 1) : body' = InsertAt(pos, new)
    BY <2>0
  <2>2. new \in Instructions /\ new.jmp \in 0 .. (Len(body) - pos - 1)
    BY <1>0, <2>1, RandomInstructionType
  <2>3. /\ body' \in Seq(Instructions) /\ Len(body') = Len(body) + 1
        /\ \A i \in 1 .. (Len(body) + 1) :
              body'[i] = IF i <= pos THEN body[i] ELSE IF i <= pos + 2 THEN new ELSE body[i - 1]
    BY <1>0, <2>1, <2>2, InsertShape
  <2>4. ASSUME NEW i \in 1 .. Len(body')
        PROVE  i + body'[i].jmp <= Len(body')
    <3>1. CASE i <= pos
      <4>1. i \in 1 .. Len(body) /\ body'[i] = body[i]
        BY <3>1, <1>0, <2>3
      <4>2. i + body[i].jmp <= Len(body) /\ body[i].jmp \in Nat
        BY <4>1, <1>0
      <4> QED  BY <4>1, <4>2, <1>0, <2>3
    <3>2. CASE i > pos /\ i <= pos + 2
      BY <3>2, <1>0, <2>2, <2>3
    <3>3. CASE i > pos + 2
      <4>1. i - 1 \in 1 .. Len(body) /\ body'[i] = body[i - 1]
        BY <3>3, <1>0, <2>3
      <4>2. (i - 1) + body[i - 1].jmp <= Len(body) /\ body[i - 1].jmp \in Nat
        BY <4>1, <1>0
      <4> QED  BY <4>1, <4>2, <1>0, <2>3
    <3> QED  BY <3>1, <3>2, <3>3, <1>0
  <2> QED  BY <1>3, <1>m, <1>0, <2>3, <2>4, Zenon DEF AddMiddle, PmInv, PmTypeOK, MutantsReachFooter
<1>4. CASE Modify
  <2>0. PICK pos \in 0 .. (Len(body) - 1) :
            \E new \in RandomInstruction(Len(body) - pos - 1) : body' = [body EXCEPT ![pos + 1] = new]
    BY <1>4 DEF Modify
  <2>1. PICK new \in RandomInstruction(Len(body) - pos - 1) : body' = [body EXCEPT ![pos + 1] = new]
    BY <2>0
  <2>2. new \in Instructions /\ new.jmp \in 0 .. (Len(body) - pos - 1)
    BY <1>0, <2>1, RandomInstructionType
  <2>3. /\ body' \in Seq(Instructions) /\ Len(body') = Len(body)
        /\ \A i \in 1 .. Len(body) : body'[i] = IF i = pos + 1 THEN new ELSE body[i]
    BY <1>0, <2>1, <2>2
  <2>4. \A i \in 1 .. Len(body') : i + body'[i].jmp <= Len(body')
    BY <1>0, <2>2, <2>3
  <2> QED  BY <1>4, <1>m, <1>0, <2>3, <2>4, Zenon DEF Modify, PmInv, PmTypeOK, MutantsReachFooter
<1>5. CASE FromDefault
  <2>1. body' \in Seq(Instructions) /\ \A i \in 1 .. Len(body') : i + body'[i].jmp <= Len(body')
    BY <1>5 DEF FromDefault
  <2>2. made' \in 0 .. MaxMutations
    BY <1>5, MaxMutationsAssumption DEF FromDefault
  <2> QED  BY <1>5, <1>0, <2>1, <2>2, Zenon DEF FromDefault, PmInv, PmTypeOK, MutantsReachFooter
<1>6. CASE UNCHANGED pmvars
  BY <1>6 DEF pmvars, PmInv, PmTypeOK, MutantsReachFooter
<1> QED  BY <1>1, <1>2, <1>3, <1>4, <1>5, <1>6 DEF PmNext

--------------------------------------------------------------------------------
(* The composition *)

LEMMA InitInv == Init => RbInv /\ PmInv
<1>1. PmInit \/ PmIdle => PmInv
  <2>1. ASSUME body = <<>> PROVE body \in Seq(Instructions) /\ MutantsReachFooter
    BY <2>1 DEF MutantsReachFooter
  <2>2. ASSUME made = 0 PROVE made \in 0 .. MaxMutations
    BY <2>2, MaxMutationsAssumption
  <2> QED  BY <2>1, <2>2, Zenon DEF PmInit, PmIdle, PmInv, PmTypeOK
<1> QED  BY <1>1, RbInitInv, RbIdleInv DEF Init

LEMMA StepInv == RbInv /\ PmInv /\ [Next]_vars => RbInv' /\ PmInv'
<1> SUFFICES ASSUME RbInv, PmInv, [Next]_vars PROVE RbInv' /\ PmInv'
  OBVIOUS
<1>1. [RbNext]_rbvars /\ [PmNext]_pmvars
  BY DEF Next, vars, rbvars, pmvars
<1> QED  BY <1>1, RbStepInv, PmStepInv

LEMMA Invariants == Spec => [](RbInv /\ PmInv)
  BY InitInv, StepInv, PTL DEF Spec

\* Type correctness of both generators, the strategy and the state of its loop
\* included.
THEOREM ProgramsTypeCorrect == Spec => [](RbTypeOK /\ PmTypeOK)
<1>1. RbInv /\ PmInv => RbTypeOK /\ PmTypeOK
  BY DEF RbInv, PmInv
<1> QED  BY <1>1, Invariants, PTL

\* However many instructions a strategy appends, up to the 999 the code allows, a
\* jump of a finished program goes forward and at most to the footer.
THEOREM BodyJumpsReachFooter == Spec => []JumpsReachFooter
<1>1. RbInv => JumpsReachFooter
  <2> SUFFICES ASSUME RbInv, pc = "done", jump # NoJump PROVE jump.ahead /\ jump.to <= len
    BY DEF JumpsReachFooter
  <2>1. count = 0
    BY DEF RbInv
  <2> QED  BY <2>1 DEF RbInv, RbTypeOK
<1> QED  BY <1>1, Invariants, PTL

\* No program makes the random source draw from an empty range.
THEOREM NoEmptyDraw == Spec => []NeverDrawsFromNothing
<1>1. RbInv => NeverDrawsFromNothing
  BY DEF RbInv, NeverDrawsFromNothing
<1> QED  BY <1>1, Invariants, PTL

\* However often a program is mutated, its jumps stay before or at the footer.
THEOREM MutationKeepsJumpsInside == Spec => []MutantsReachFooter
<1>1. PmInv => MutantsReachFooter
  BY DEF PmInv
<1> QED  BY <1>1, Invariants, PTL

--------------------------------------------------------------------------------
(* What a mutation costs *)

\* AddFirst and AddLast cost nothing, AddMiddle and Modify the instruction at pos.
LEMMA MutationKeeps ==
    ASSUME PmInv, PmNext, made' = made + 1
    PROVE  \E lost \in 0 .. Len(body), gap \in 1 .. (Len(body) + 1) : KeepsAllBut(lost, gap)
<1>0. body \in Seq(Instructions) /\ made \in Nat /\ Len(body) \in Nat
  BY MaxMutationsAssumption DEF PmInv, PmTypeOK
<1>1. CASE AddFirst
  <2>1. PICK new \in RandomInstruction(IF body = <<>> THEN 0 ELSE Len(body) - 1) : body' = <<new>> \o body
    BY <1>1 DEF AddFirst
  <2>2. new \in Instructions /\ new.name = made'
    BY <1>0, <1>1, <2>1, RandomInstructionType DEF RandomInstruction, AddFirst
  <2>3. /\ Len(body') = Len(body) + 1
        /\ body'[1] = new /\ \A i \in 1 .. Len(body) : body'[i + 1] = body[i]
    BY <1>0, <2>1, <2>2
  <2>4. ASSUME NEW j \in 1 .. Len(body')
        PROVE  body'[j].name = made' \/ \E i \in (1 .. Len(body)) \ {0} : j = i + 1
    <3>1. CASE j = 1
      BY <3>1, <2>2, <2>3
    <3>2. CASE j # 1
      <4>1. j - 1 \in (1 .. Len(body)) \ {0} /\ j = (j - 1) + 1
        BY <3>2, <1>0, <2>3
      <4> QED  BY <4>1
    <3> QED  BY <3>1, <3>2
  <2>5. KeepsAllBut(0, 1)
    BY <1>0, <2>3, <2>4 DEF KeepsAllBut
  <2> QED  BY <1>0, <2>5
<1>2. CASE AddLast
  <2>1. PICK new \in RandomInstruction(0) : body' = Append(body, new)
    BY <1>2 DEF AddLast
  <2>2. new \in Instructions /\ new.name = made'
    BY <1>0, <1>2, <2>1, RandomInstructionType DEF RandomInstruction, AddLast
  <2>3. /\ Len(body') = Len(body) + 1
        /\ body'[Len(body')] = new /\ \A i \in 1 .. Len(body) : body'[i] = body[i]
    BY <1>0, <2>1, <2>2
  <2>4. KeepsAllBut(0, Len(body) + 1)
    BY <1>0, <2>2, <2>3 DEF KeepsAllBut
  <2> QED  BY <1>0, <2>4
<1>3. CASE AddMiddle
  <2>0. PICK pos \in 1 .. (Len(body) - 1) :
            \E new \in RandomInstruction(Len(body) - pos - 1) : body' = InsertAt(pos, new)
    BY <1>3 DEF AddMiddle
  <2>1. PICK new \in RandomInstruction(Len(body) - pos - 1) : body' = InsertAt(pos, new)
    BY <2>0
  <2>2. new \in Instructions /\ new.name = made'
    BY <1>0, <1>3, <2>1, RandomInstructionType DEF RandomInstruction, AddMiddle
  <2>3. /\ Len(body') = Len(body) + 1
        /\ \A i \in 1 .. (Len(body) + 1) :
              body'[i] = IF i <= pos THEN body[i] ELSE IF i <= pos + 2 THEN new ELSE body[i - 1]
    BY <1>0, <2>1, <2>2, InsertShape
  <2> DEFINE kept  == (1 .. Len(body)) \ {pos + 1}
             at(i) == IF i < pos + 1 THEN i ELSE i + 1
  <2>4. \A i \in kept : body'[at(i)] = body[i]
    BY <1>0, <2>3
  <2>5. ASSUME NEW j \in 1 .. Len(body')
        PROVE  body'[j].name = made' \/ \E i \in kept : j = at(i)
    <3>1. CASE j <= pos
      <4>1. j \in kept /\ j = at(j)
        BY <3>1, <1>0
      <4> QED  BY <4>1
    <3>2. CASE j > pos /\ j <= pos + 2
      BY <3>2, <1>0, <2>2, <2>3
    <3>3. CASE j > pos + 2
      <4>1. j - 1 \in kept /\ j = at(j - 1)
        BY <3>3, <1>0, <2>3
      <4> QED  BY <4>1
    <3> QED  BY <3>1, <3>2, <3>3, <1>0
  <2>6. KeepsAllBut(pos + 1, pos + 1)
    BY <1>0, <2>3, <2>4, <2>5 DEF KeepsAllBut
  <2> QED  BY <1>0, <2>6
<1>4. CASE Modify
  <2>0. PICK pos \in 0 .. (Len(body) - 1) :
            \E new \in RandomInstruction(Len(body) - pos - 1) : body' = [body EXCEPT ![pos + 1] = new]
    BY <1>4 DEF Modify
  <2>1. PICK new \in RandomInstruction(Len(body) - pos - 1) : body' = [body EXCEPT ![pos + 1] = new]
    BY <2>0
  <2>2. new \in Instructions /\ new.name = made'
    BY <1>0, <1>4, <2>1, RandomInstructionType DEF RandomInstruction, Modify
  <2>3. /\ Len(body') = Len(body)
        /\ \A i \in 1 .. Len(body) : body'[i] = IF i = pos + 1 THEN new ELSE body[i]
    BY <1>0, <2>1, <2>2
  <2>4. KeepsAllBut(pos + 1, 1)
    BY <1>0, <2>2, <2>3 DEF KeepsAllBut
  <2> QED  BY <1>0, <2>4
<1>5. CASE FromDefault
  BY <1>0, <1>5 DEF FromDefault
<1> QED  BY <1>1, <1>2, <1>3, <1>4, <1>5 DEF PmNext

\* However long the line of descent, no mutation loses more than one instruction
\* of its parent or changes the order of the others (mutateProgram).
THEOREM MutationLosesAtMostOne == Spec => LosesAtMostOne
<1> DEFINE Keeps == made' = made + 1 =>
               \E lost \in 0 .. Len(body), gap \in 1 .. (Len(body) + 1) : KeepsAllBut(lost, gap)
<1>1. RbInv /\ PmInv /\ [Next]_vars => [Keeps]_pmvars
  BY MutationKeeps DEF Next, vars, rbvars, pmvars
<1>2. Spec => [][Keeps]_pmvars
  <2> HIDE DEF Keeps
  <2> QED  BY <1>1, Invariants, PTL DEF Spec
<1> QED  BY <1>2 DEF LosesAtMostOne

================================================================================
