------------------------------ MODULE Verdicts ------------------------------
(***************************************************************************)
(* The overall state of a verdict and the exit code it stands for          *)
(* (internal/evidence/evidence.go), and the state internal/report demands  *)
(* of a verdict before it renders one (internal/report/report.go).         *)
(* "ERROR" stands for the error aggregateReportState returns, "OTHER" for  *)
(* every string that is not a state.                                       *)
(***************************************************************************)
EXTENDS Naturals, Sequences, SequencesExt

State == {"PASS", "FAIL", "INCONCLUSIVE"}

\* Mutant: a violation outweighs an inconclusive check.
AggregateStepWorst(overall, state) ==
  IF overall = "FAIL" \/ state = "FAIL" THEN "FAIL"
  ELSE IF state = "PASS" THEN overall ELSE "INCONCLUSIVE"

\* evidence.Aggregate; the early returns make INCONCLUSIVE absorbing.
AggregateStep(overall, state) ==
  IF overall = "INCONCLUSIVE" \/ state \notin {"PASS", "FAIL"}
  THEN "INCONCLUSIVE"
  ELSE IF state = "FAIL" THEN "FAIL" ELSE overall

Aggregate(states) ==
  IF states = << >> THEN "INCONCLUSIVE"
                    ELSE FoldLeft(AggregateStep, "PASS", states)

ExitCode(overall) ==
  IF overall = "PASS" THEN 0 ELSE IF overall = "FAIL" THEN 1 ELSE 2

\* report.aggregateReportState
ReportStep(overall, state) ==
  IF overall = "ERROR" \/ state \notin State THEN "ERROR"
  ELSE IF state = "PASS" \/ overall = "INCONCLUSIVE" THEN overall
  ELSE state

AggregateReportState(states) ==
  IF states = << >> THEN "ERROR" ELSE FoldLeft(ReportStep, "PASS", states)
=============================================================================
