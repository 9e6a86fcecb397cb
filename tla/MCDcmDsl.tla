----------------------------- MODULE MCDcmDsl ------------------------------
(* Instances of DcmDsl for TLC. *)
EXTENDS DcmDsl, TLC

(* One UDS protocol with a physical (1) and a functional (2) receive PDU. *)
OneProtocolOf == 1 :> 1 @@ 2 :> 1
OnePriority == 1 :> 5

(* Two protocols with one receive PDU each; the second one is preferred. *)
TwoProtocolOf == 1 :> 1 @@ 2 :> 2
TwoPriority == 1 :> 5 @@ 2 :> 3

(* The same with the first one preferred. *)
FirstPriority == 1 :> 1 @@ 2 :> 3

(* The cycle makes progress: every request handed to the DSD is answered,  *)
(* or rejected when P2 is over (DslMain), and gives its buffer back, unless *)
(* a service forces responsePending for ever (DslDsdSendResponsePending).   *)
EveryRequestEnds == <>[][~DspForcesResponsePending]_vars => Request!Progress
=============================================================================
