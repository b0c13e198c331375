--------------------------------- MODULE Programs ---------------------------------
(***************************************************************************)
(* GenerateProgram of the strategies with random bodies: one is chosen with   *)
(* -strategy and runs, either one that writes each program from scratch       *)
(* (RandomBody) or the one that mutates earlier ones (ProgramMutation).       *)
(***************************************************************************)
EXTENDS RandomBody, ProgramMutation

vars == <<rbvars, pmvars>>

RbIdle == strat = "coverage_based" /\ pc = "idle" /\ count = 0 /\ len = 0 /\ jump = NoJump
PmIdle == body = <<>> /\ made = 0 /\ active = FALSE

Init == (RbInit /\ PmIdle) \/ (PmInit /\ RbIdle)

Next ==
    \/ RbNext /\ UNCHANGED pmvars
    \/ PmNext /\ UNCHANGED rbvars

Spec == Init /\ [][Next]_vars

================================================================================
