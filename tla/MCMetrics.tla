-------------------------------- MODULE MCMetrics ---------------------------------
(* One address that resolves and one that does not, one verdict, and a handler
   that serves any page. *)
EXTENDS Metrics, TLC

CONSTANTS a1, a2, l1

TwoAddrs    == {a1, a2}
OneLine     == {l1}
Answers     == (a1 :> l1) @@ (a2 :> Unparsable)
OneHandler  == {"h1"}
OneVerdict  == {"v1"}

================================================================================
