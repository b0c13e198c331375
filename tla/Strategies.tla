------------------------------- MODULE Strategies -------------------------------
(***************************************************************************)
(* The fuzzing strategies as the control unit sees them: for each callback  *)
(* of the Strategy interface, the set of answers an implementation can give *)
(* in a situation.  What a program consists of is abstracted away; what a   *)
(* strategy does with descriptors while it generates one is in FuzzLoop.    *)
(* "custom_ebpf" and "custom_cbpf" stand for an arbitrary implementation of *)
(* the interface: it answers as it likes.                                   *)
(***************************************************************************)

EXTENDS Integers

CONSTANT Values   \* what a map cell can hold: 64-bit numbers

CAFE == 51966     \* 0xCAFE

ASSUME ValuesAssumption == {0, CAFE} \subseteq Values

EbpfStrategies == {"pointer_arithmetic", "loop_pointer_arithmetic",
                   "coverage_based", "playground"}
CbpfStrategies == {"cbpf_playground", "cbpf_random_instruction"}
Custom         == {"custom_ebpf", "custom_cbpf"}
AllStrategies  == EbpfStrategies \cup CbpfStrategies \cup Custom

\* The strategies whose programs are classic BPF (prog.Program.(type)).
IsCbpf(s) == s \in CbpfStrategies \cup {"custom_cbpf"}

\* The strategies that report through a BPF map, and the ones that close the
\* old map before they create the new one.
UsesMap(s)        == s \in {"pointer_arithmetic", "loop_pointer_arithmetic", "coverage_based"}
ClosesMapFirst(s) == s \in {"pointer_arithmetic", "coverage_based"}

\* The keys of the map a strategy creates (CreateMapArray(2), CreateMapArray(1)),
\* and what the kernel puts into a new one.
MapKeys(s)  == IF s = "coverage_based" THEN {0} ELSE {0, 1}
BlankMap(s) == [k \in MapKeys(s) |-> 0]

\* Only the loop strategy attaches a BTF section; the others send an empty one.
MayHaveBtf(s) == s \in {"loop_pointer_arithmetic", "custom_ebpf"}

\* The mistake of a constructor that leaves mapFd at its zero value.
InitialMapFdZero(s) == 0

\* mapFd is the zero value of an int unless the constructor sets it to -1.
InitialMapFd(s) == IF s \in {"pointer_arithmetic", "loop_pointer_arithmetic"} THEN 0 ELSE -1

--------------------------------------------------------------------------------
\* OnVerifyDone: run is the answer, done the strategy's isFinished afterwards.

\* The two random eBPF strategies and the random cBPF one only count.
CountingOnVerifyDone(finished) == [run : {TRUE}, done : {finished}]

\* The mistake of a playground that does not end.
PlaygroundOnVerifyDoneForgets == [run : {TRUE}, done : {FALSE}]

\* One program, whatever the verifier said of it.
PlaygroundOnVerifyDone == [run : {TRUE}, done : {TRUE}]

\* Invalid, or no coverage: drop it.  Otherwise run it when it shows a new
\* address or a new fingerprint, which depends on all that came before.
CoverageBasedOnVerifyDone(isValid, covered, finished) ==
    [run : IF isValid /\ covered THEN BOOLEAN ELSE {FALSE}, done : {finished}]

OnVerifyDone(s, isValid, covered, finished) ==
    IF s \in Custom THEN [run : BOOLEAN, done : BOOLEAN]
    ELSE IF s = "coverage_based" THEN CoverageBasedOnVerifyDone(isValid, covered, finished)
    ELSE IF s \in {"playground", "cbpf_playground"} THEN PlaygroundOnVerifyDone
    ELSE CountingOnVerifyDone(finished)

--------------------------------------------------------------------------------
\* OnExecuteDone: ok is the answer.  None of the oracles looks at did_succeed:
\* they read the map (got: "cells", "empty" or "undecodable") and compare its
\* cells, whoever wrote them.

\* A failed lookup leaves an empty element list and no error, and indexing it
\* panics.  An undecodable answer is an error, which coverage_based drops.
PanicsOn(s, got) == got = "empty" \/ (got = "undecodable" /\ s = "coverage_based")

\* Elements[0] == Elements[1]; an error counts as expected.
PointerArithmeticOnExecuteDone(got, cells, finished) ==
    [ok : {got = "undecodable" \/ cells[0] = cells[1]}, done : {finished}]

\* Elements[1] == 0; an error counts as expected.
LoopOnExecuteDone(got, cells, finished) ==
    [ok : {got = "undecodable" \/ cells[1] = 0}, done : {finished}]

\* Elements[0] == 0xCAFE, and anything else ends the fuzzing.
CoverageBasedOnExecuteDone(cells) == [ok : {cells[0] = CAFE}, done : {cells[0] # CAFE}]

OnExecuteDone(s, got, cells, finished) ==
    IF s \in Custom THEN [ok : BOOLEAN, done : BOOLEAN]
    ELSE IF s = "pointer_arithmetic" THEN PointerArithmeticOnExecuteDone(got, cells, finished)
    ELSE IF s = "loop_pointer_arithmetic" THEN LoopOnExecuteDone(got, cells, finished)
    ELSE IF s = "coverage_based" THEN CoverageBasedOnExecuteDone(cells)
    ELSE [ok : {TRUE}, done : {finished}]

--------------------------------------------------------------------------------
\* OnError: every strategy in the repository asks to halt.
OnError(s) == IF s \in Custom THEN BOOLEAN ELSE {FALSE}

================================================================================
