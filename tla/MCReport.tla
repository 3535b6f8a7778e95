------------------------------ MODULE MCReport ------------------------------
(***************************************************************************)
(* Two requirements; two panels of one dashboard and an alert.  Verdicts   *)
(* may also name a requirement and a consumer that the contract has not.   *)
(***************************************************************************)
EXTENDS Report

MCDashboard == <<1, 1, NoDashboard>>
MCIds == 1..3
Ghost == 4

\* The second contract is the first one, mined again with another panel.
MCContracts ==
  {[consumers |-> {1, 3}, needs |-> <<{1}, {1, 3}>>],
   [consumers |-> 1..3, needs |-> <<{1, 2}, {1, 3}>>]}
MCAffected == {{}, {1}, {1, 2}, {1, 3}, {3, Ghost}}
=============================================================================
