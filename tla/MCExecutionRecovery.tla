------------------------- MODULE MCExecutionRecovery -------------------------
(***************************************************************************)
(* TLC instances of ExecutionRecovery.                                     *)
(***************************************************************************)
EXTENDS ExecutionRecovery, TLC

CONSTANTS o1, o2, m1

\* One order and a manual trade of another size.
MCManual == o1 :> 2 @@ m1 :> 1

\* Two orders of different sizes.
MCTwo == o1 :> 1 @@ o2 :> 2

\* Two orders of one lot each.
MCEqual == o1 :> 1 @@ o2 :> 1

\* One order of two lots, which the venue may fill in two parts.
MCSplit == o1 :> 2
=============================================================================
