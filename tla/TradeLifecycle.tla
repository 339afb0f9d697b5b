--------------------------- MODULE TradeLifecycle ---------------------------
(***************************************************************************)
(* What the trade_lifecycles table promises whoever reads it: the row of a *)
(* trace appears in one of its two first states and then only follows the  *)
(* canonical machine of core/domain/state_machines.py.                     *)
(***************************************************************************)
CONSTANT Traces

VARIABLE state

TradeLifecycleState ==
    {"RESEARCHING", "SIGNAL_FUSED", "PROPOSED", "RISK_REJECTED", "RISK_APPROVED",
     "ORDER_CREATED", "ORDER_REJECTED", "POSITION_OPEN", "POSITION_CLOSED",
     "REVIEWED", "FAILED"}

TRADE_LIFECYCLE_TRANSITIONS ==
    [s \in TradeLifecycleState |->
        CASE s = "RESEARCHING"     -> {"SIGNAL_FUSED", "FAILED"}
          [] s = "SIGNAL_FUSED"    -> {"PROPOSED", "FAILED"}
          [] s = "PROPOSED"        -> {"RISK_REJECTED", "RISK_APPROVED", "FAILED"}
          [] s = "RISK_APPROVED"   -> {"ORDER_CREATED", "FAILED"}
          [] s = "ORDER_CREATED"   -> {"ORDER_REJECTED", "POSITION_OPEN",
                                       "POSITION_CLOSED", "FAILED"}
          [] s = "POSITION_OPEN"   -> {"POSITION_CLOSED", "FAILED"}
          [] s = "POSITION_CLOSED" -> {"REVIEWED"}
          [] OTHER                 -> {}]

\* save_lifecycle: an ingest cycle starts at RESEARCHING, an exit at PROPOSED.
Create(t) ==
    /\ state[t] = "NONE"
    /\ \E s \in {"RESEARCHING", "PROPOSED"} : state' = [state EXCEPT ![t] = s]

Advance(t) ==
    /\ state[t] \in TradeLifecycleState
    /\ \E s \in TRADE_LIFECYCLE_TRANSITIONS[state[t]] : state' = [state EXCEPT ![t] = s]

Init == state = [t \in Traces |-> "NONE"]
Next == \E t \in Traces : Create(t) \/ Advance(t)
Spec == Init /\ [][Next]_state
=============================================================================
