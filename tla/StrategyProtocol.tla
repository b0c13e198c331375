---------------------------- MODULE StrategyProtocol -----------------------------
(***************************************************************************)
(* What the control unit promises to an implementation of the Strategy      *)
(* interface: the order in which its callbacks are called.  A program is    *)
(* executed only if the verifier accepted it and OnVerifyDone agreed; only  *)
(* an execution is judged, and it is judged once; nothing is generated      *)
(* while an error waits for an answer of OnError.                           *)
(***************************************************************************)

VARIABLES phase,   \* the callback the strategy is in or will be asked next
          ok       \* the verifier accepted the program of this turn

pvars == <<phase, ok>>

Phases == {"ask", "generate", "validate", "decide", "execute", "judge", "error", "stop"}

Init == phase = "ask" /\ ok = FALSE

\* Every step that leaves a turn forgets its program.
Leave(to) == phase' = to /\ ok' = FALSE

\* IsFuzzingDone
Ask == phase = "ask" /\ (Leave("generate") \/ Leave("stop"))

\* GenerateProgram
Generated == phase = "generate" /\ (Leave("validate") \/ Leave("error"))

Validated ==
    /\ phase = "validate"
    /\ \/ phase' = "decide" /\ ok' \in BOOLEAN
       \/ Leave("error")

\* OnVerifyDone
Decided ==
    /\ phase = "decide"
    /\ \/ ok /\ phase' = "execute" /\ ok' = ok
       \/ Leave("ask")

Executed ==
    /\ phase = "execute"
    /\ \/ phase' = "judge" /\ ok' = ok
       \/ Leave("error")
       \/ Leave("stop")

\* OnExecuteDone
Judged == phase = "judge" /\ (Leave("ask") \/ Leave("stop"))

\* OnError
Answered == phase = "error" /\ (Leave("ask") \/ Leave("stop"))

Next == Ask \/ Generated \/ Validated \/ Decided \/ Executed \/ Judged \/ Answered

Spec == Init /\ [][Next]_pvars

================================================================================
