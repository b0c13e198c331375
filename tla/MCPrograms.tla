-------------------------------- MODULE MCPrograms --------------------------------
(* Bodies of no, one, two and a few instructions, and one that is longer than
   the 255 instructions a cBPF jump can skip. *)
EXTENDS Programs

TriedCounts ==
    [s \in BodyStrategies |->
        IF s = "cbpf_random_instruction" THEN {0, 1, 2, 300} ELSE 0 .. 12]

================================================================================
