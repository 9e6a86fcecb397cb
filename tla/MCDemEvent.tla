----------------------------- MODULE MCDemEvent -----------------------------
(* Instances of DemEvent for TLC: two events compete for one entry.  Both   *)
(* are reported in the DEM's own cycle, so that reports before Dem_Init     *)
(* count; the second one ages in a cycle of its own.                        *)
EXTENDS DemEvent, TLC

TwoPriorities == 1 :> 1 @@ 2 :> 2
ActiveCycles == 1 :> "ACTIVE" @@ 2 :> "ACTIVE"
OwnAgingCycle == 1 :> "ACTIVE" @@ 2 :> "POWER"
TwoThenOne == 1 :> 2 @@ 2 :> 1
=============================================================================
