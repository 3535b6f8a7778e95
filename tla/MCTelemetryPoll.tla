-------------------------- MODULE MCTelemetryPoll --------------------------
(* Small instances of TelemetryPoll. *)
EXTENDS TelemetryPoll, TLC

\* The identities of the spans are interchangeable.
SpanSymmetry == Permutations(Spans)
=============================================================================
