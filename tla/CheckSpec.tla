----------------------------- MODULE CheckSpec -----------------------------
(***************************************************************************)
(* What one check of `guardian verify` promises, whatever it polls: the    *)
(* result semantics of docs/ARCHITECTURE.md as far as the code keeps them. *)
(*                                                                         *)
(* sampled and satisfied say what SigNoz holds: enough in-window telemetry *)
(* of the run, and enough of it to satisfy the requirement.  Telemetry is  *)
(* only ever added.  The check decides once.  PASS needs a satisfied       *)
(* requirement, FAIL needs sufficient samples, and a check whose context   *)
(* is done can only be INCONCLUSIVE.                                       *)
(***************************************************************************)
VARIABLES sampled, satisfied, canceled, outcome

vars == <<sampled, satisfied, canceled, outcome>>

Outcome == {"NONE", "PASS", "FAIL", "INCONCLUSIVE"}

Init == /\ sampled \in BOOLEAN /\ satisfied \in BOOLEAN
        /\ canceled = FALSE
        /\ outcome = "NONE"

TelemetryArrives ==
  /\ sampled => sampled'
  /\ satisfied => satisfied'
  /\ sampled' \in BOOLEAN /\ satisfied' \in BOOLEAN
  /\ UNCHANGED <<canceled, outcome>>

ContextEnds ==
  /\ canceled' = TRUE
  /\ UNCHANGED <<sampled, satisfied, outcome>>

Pass == ~canceled /\ sampled /\ satisfied /\ outcome' = "PASS"
Fail == ~canceled /\ sampled /\ outcome' = "FAIL"
Inconclusive == outcome' = "INCONCLUSIVE"

Decide ==
  /\ outcome = "NONE"
  /\ Pass \/ Fail \/ Inconclusive
  /\ UNCHANGED <<sampled, satisfied, canceled>>

Next == TelemetryArrives \/ ContextEnds \/ Decide

Spec == Init /\ [][Next]_vars
=============================================================================
