------------------------------ MODULE MCDemNvM ------------------------------
(* Instances of DemNvM for TLC: two blocks with the same handle, as        *)
(* DEM_NVMBLOCK_PERMANENT and DEM_NVMBLOCK_IUMPR have.  Blocks of          *)
(* different handles share nothing but the turn of the main function.      *)
EXTENDS DemNvM, TLC

CONSTANT h1

OneHandle == {h1}
BothShared == 1 :> h1 @@ 2 :> h1
=============================================================================
