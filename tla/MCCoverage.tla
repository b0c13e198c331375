------------------------------- MODULE MCCoverage --------------------------------
(* Four addresses: two on one line, one on another line, one unresolvable. *)
EXTENDS CoverageManager, TLC

CONSTANTS a1, a2, a3, a4, l1, l2

FourAddrs == {a1, a2, a3, a4}
TwoLines  == {l1, l2}
Answers   == (a1 :> l1) @@ (a2 :> l1) @@ (a3 :> l2) @@ (a4 :> Unparsable)
OneReader == {"r1"}

================================================================================
