---------------------------- MODULE MCAlertHistory ----------------------------
(***************************************************************************)
(* Events for TLC: one that fired inside the window, stamped with the older *)
(* field; one outside it, which has no time of its own but the one of its  *)
(* creation; and one whose time does not parse.                            *)
(***************************************************************************)
EXTENDS AlertHistory

MCEvents ==
  {[timestamp |-> "", unixMilli |-> "inWindow", createdAt |-> "",
    state |-> "firing"],
   [timestamp |-> "zero", unixMilli |-> "inWindow", createdAt |-> "outside",
    state |-> "firing"],
   [timestamp |-> "malformed", unixMilli |-> "", createdAt |-> "inWindow",
    state |-> "firing"]}

=============================================================================
