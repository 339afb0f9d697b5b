--------------------------- MODULE MCLiveSupervisor ---------------------------
(***************************************************************************)
(* One instrument, two requests of the operator API and three ways to      *)
(* spend the incidents: an operator acting twice; an operator and a fault  *)
(* (an outage, a stall or a crash); a fault while check-emergency runs and *)
(* two fills.                                                              *)
(***************************************************************************)
EXTENDS LiveSupervisor

MCInstruments == <<"btc">>

Budget(operator, fault, monitor, fills) ==
    [operator |-> operator, fault |-> fault, monitor |-> monitor, fills |-> fills]

MCBudgets == {Budget(2, 0, 0, 1), Budget(1, 1, 0, 1), Budget(0, 1, 1, 2)}
=============================================================================
