---------------------------- MODULE OrderLifecycle ----------------------------
(***************************************************************************)
(* What the persisted record of one order promises to whoever reads it:    *)
(* it moves only along the canonical state machine, its filled quantity    *)
(* changes only on a step into PARTIALLY_FILLED or FILLED, a partial fill  *)
(* is a proper part of the order and FILLED means all of it.               *)
(***************************************************************************)
EXTENDS Naturals, OrderStates

CONSTANT Quantity

VARIABLES state, filled

lifecycleVars == <<state, filled>>

LifecycleInit == state = "NONE" /\ filled = 0

Create == /\ state = "NONE"
          /\ state' \in {"CANDIDATE", "ORDER_INTENT"}
          /\ UNCHANGED filled

Advance == /\ is_valid_order_transition(state, state')
           /\ state' \notin {"PARTIALLY_FILLED", "FILLED"}
           /\ UNCHANGED filled

PartialFill == /\ is_valid_order_transition(state, "PARTIALLY_FILLED")
               /\ state' = "PARTIALLY_FILLED"
               /\ filled' \in 1 .. Quantity - 1

CompleteFill == /\ is_valid_order_transition(state, "FILLED")
                /\ state' = "FILLED"
                /\ filled' = Quantity

LifecycleNext == Create \/ Advance \/ PartialFill \/ CompleteFill

LifecycleSpec == LifecycleInit /\ [][LifecycleNext]_lifecycleVars
=============================================================================
