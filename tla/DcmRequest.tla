----------------------------- MODULE DcmRequest -----------------------------
(***************************************************************************)
(* What the session layer promises for one protocol: a request goes        *)
(* through its buffer, its service and its response in that order, one at  *)
(* a time, and never stays in service or in transmission for ever.         *)
(***************************************************************************)

VARIABLE stage   \* of the request that occupies the protocol's buffers

Stages == {"free", "receiving", "serving", "answered", "sending"}

Init == stage = "free"

Receive == stage = "free" /\ stage' = "receiving"

(* A reception ends in a request, or in nothing to serve. *)
Indicate == stage = "receiving" /\ stage' \in {"serving", "free"}

(* A service ends in a response, or in none: suppressed or rejected. *)
Serve == stage = "serving" /\ stage' \in {"answered", "free"}

(* The transport layer takes the response, or refuses it. *)
Send == stage = "answered" /\ stage' \in {"sending", "free"}

Confirm == stage = "sending" /\ stage' = "free"

Next == Receive \/ Indicate \/ Serve \/ Send \/ Confirm

Spec == Init /\ [][Next]_stage

(* A request in service, answered or in transmission goes on. *)
Progress == WF_stage(Serve) /\ WF_stage(Send) /\ WF_stage(Confirm)
=============================================================================
