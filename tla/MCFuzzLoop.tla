------------------------------ MODULE MCFuzzLoop --------------------------------
(* The instances of FuzzLoop that TLC checks: which strategies are started. *)
EXTENDS FuzzLoop

CbpfAndCustom == CbpfStrategies \cup Custom
OnlyCoverage  == {"coverage_based"}

=================================================================================
