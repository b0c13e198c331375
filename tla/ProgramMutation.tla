------------------------------ MODULE ProgramMutation -----------------------------
(***************************************************************************)
(* mutateProgram of the coverage-based strategy (coverage_based.go).  A       *)
(* program taken from the queue is copied, the instructions after its fixed   *)
(* head are mutated once, and the result may be queued and taken again: the   *)
(* model follows one line of descent.                                        *)
(*                                                                           *)
(* An instruction is its jump offset, 0 if it is not a jump, and a name for   *)
(* telling instructions apart.  Indices are one above the code's.            *)
(***************************************************************************)
EXTENDS Integers, Sequences

CONSTANT MaxMutations     \* bound: mutations between two fresh starts

ASSUME MaxMutationsAssumption == MaxMutations \in Nat

VARIABLES body,      \* the program without head and footer
          made,      \* random instructions made so far, the name of the last one
          active     \* FALSE if another strategy is running

pmvars == <<body, made, active>>

Instructions == [name : Nat, jmp : Nat]

PmInit == body = <<>> /\ made = 0 /\ active = TRUE

--------------------------------------------------------------------------------

\* newRandomInstruction: a jump by 1 to maxJmp, or something else; with a maxJmp
\* of 0 never a jump.
RandomInstruction(maxJmp) == {[name |-> made + 1, jmp |-> off] : off \in 0 .. maxJmp}

Mutable == active /\ made < MaxMutations

\* handleAddInstruction, pos = 0: a new slice.
AddFirst ==
    /\ Mutable
    /\ \E new \in RandomInstruction(IF body = <<>> THEN 0 ELSE Len(body) - 1) :
          body' = <<new>> \o body
    /\ made' = made + 1
    /\ UNCHANGED active

\* handleAddInstruction, pos = len(prog): no jump, nothing is left to jump over.
AddLast ==
    /\ Mutable /\ body # <<>>
    /\ \E new \in RandomInstruction(0) : body' = Append(body, new)
    /\ made' = made + 1
    /\ UNCHANGED active

\* append(prog[:pos], newInstr) has room in prog's own array and writes there, so
\* that prog[pos:], appended next, begins with the new instruction and not with
\* the one that stood at pos.
InsertAt(pos, new) ==
    LET array == [body EXCEPT ![pos + 1] = new]
    IN  SubSeq(array, 1, pos + 1) \o SubSeq(array, pos + 1, Len(body))

\* The mistake of a jump that is measured from the beginning of the program.
AddMiddleTooFar ==
    /\ Mutable
    /\ \E pos \in 1 .. (Len(body) - 1) : \E new \in RandomInstruction(Len(body)) :
          body' = InsertAt(pos, new)
    /\ made' = made + 1
    /\ UNCHANGED active

\* handleAddInstruction in between.
AddMiddle ==
    /\ Mutable
    /\ \E pos \in 1 .. (Len(body) - 1) : \E new \in RandomInstruction(Len(body) - pos - 1) :
          body' = InsertAt(pos, new)
    /\ made' = made + 1
    /\ UNCHANGED active

\* The mistake of putting the program together from the wrong parts.
ModifyDropsRest ==
    /\ Mutable
    /\ \E pos \in 0 .. (Len(body) - 1) : \E new \in RandomInstruction(Len(body) - pos - 1) :
          body' = Append(SubSeq(body, 1, pos), new)
    /\ made' = made + 1
    /\ UNCHANGED active

\* handleModifyInstruction; an empty program is left to handleAddInstruction.
Modify ==
    /\ Mutable
    /\ \E pos \in 0 .. (Len(body) - 1) : \E new \in RandomInstruction(Len(body) - pos - 1) :
          body' = [body EXCEPT ![pos + 1] = new]
    /\ made' = made + 1
    /\ UNCHANGED active

\* The queue is empty: GenerateProgram goes back to defaultProg.
FromDefault ==
    /\ active
    /\ body' = <<>> /\ made' = 0
    /\ UNCHANGED active

PmNext == AddFirst \/ AddLast \/ AddMiddle \/ Modify \/ FromDefault

PmSpec == PmInit /\ [][PmNext]_pmvars

--------------------------------------------------------------------------------
(* Properties *)

PmTypeOK == body \in Seq(Instructions) /\ made \in 0 .. MaxMutations /\ active \in BOOLEAN

\* However often a program is mutated, each of its jumps goes at most to the
\* first instruction of the footer: an insertion moves jumps and what they jump
\* over, the offset of a new jump is computed from the length before the
\* insertion, and the copy that the shared array makes of it stands one further.
MutantsReachFooter ==
    \A i \in 1 .. Len(body) : i + body[i].jmp <= Len(body)

\* body' is body with the instruction at lost left out (none if it is 0), the
\* others in their order, and in the places between them the new instruction.
KeepsAllBut(lost, gap) ==
    LET kept  == (1 .. Len(body)) \ {lost}
        at(i) == IF i < gap THEN i ELSE i + (Len(body') - Len(body))
    IN  /\ Len(body') >= Len(body)
        /\ \A i \in kept : body'[at(i)] = body[i]
        /\ \A j \in 1 .. Len(body') : body'[j].name = made' \/ \E i \in kept : j = at(i)

\* A mutation never costs more than one instruction of its parent, and keeps
\* the others in their order: the shared array of an insertion (prog[pos:] read
\* after it was written) loses the instruction at pos and no other.
LosesAtMostOne ==
    [][made' = made + 1 =>
          \E lost \in 0 .. Len(body), gap \in 1 .. (Len(body) + 1) : KeepsAllBut(lost, gap)]_pmvars

================================================================================
