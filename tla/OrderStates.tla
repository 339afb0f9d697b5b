----------------------------- MODULE OrderStates -----------------------------
(***************************************************************************)
(* The order states and the canonical order state machine                  *)
(* (core/domain/state_machines.py), with the two sets of states the        *)
(* execution engine reasons with (core/schemas/execution.py).  "NONE"      *)
(* stands for an order_intent_id without a persisted record.               *)
(***************************************************************************)

OrderState ==
    {"CANDIDATE", "RISK_REJECTED", "APPROVED", "ORDER_INTENT", "SUBMITTED",
     "ACKNOWLEDGED", "PARTIALLY_FILLED", "FILLED", "CANCELLED", "REJECTED",
     "RECONCILED", "CLOSED", "REVIEWED"}

\* The edges of ORDER_STATE_TRANSITIONS, as a set of pairs.
ORDER_STATE_TRANSITIONS ==
    {<<"CANDIDATE", "RISK_REJECTED">>, <<"CANDIDATE", "APPROVED">>,
     <<"APPROVED", "ORDER_INTENT">>,
     <<"ORDER_INTENT", "SUBMITTED">>, <<"ORDER_INTENT", "CANCELLED">>,
     <<"SUBMITTED", "ACKNOWLEDGED">>, <<"SUBMITTED", "REJECTED">>,
     <<"SUBMITTED", "CANCELLED">>,
     <<"ACKNOWLEDGED", "PARTIALLY_FILLED">>, <<"ACKNOWLEDGED", "FILLED">>,
     <<"ACKNOWLEDGED", "REJECTED">>, <<"ACKNOWLEDGED", "CANCELLED">>,
     <<"PARTIALLY_FILLED", "PARTIALLY_FILLED">>, <<"PARTIALLY_FILLED", "FILLED">>,
     <<"PARTIALLY_FILLED", "REJECTED">>, <<"PARTIALLY_FILLED", "CANCELLED">>,
     <<"FILLED", "RECONCILED">>, <<"FILLED", "CLOSED">>,
     <<"CANCELLED", "RECONCILED">>, <<"REJECTED", "RECONCILED">>,
     <<"RECONCILED", "CLOSED">>, <<"CLOSED", "REVIEWED">>}

is_valid_order_transition(current, target) ==
    <<current, target>> \in ORDER_STATE_TRANSITIONS

\* The order may still be working, or in flight, at the venue.
LIVE_ORDER_STATES == {"SUBMITTED", "ACKNOWLEDGED", "PARTIALLY_FILLED"}

\* The order is over at the venue and awaits reconciliation.
VENUE_TERMINAL_STATES == {"FILLED", "CANCELLED", "REJECTED"}

\* The order has been reconciled, or a later stage has closed it.
SettledStates == {"RECONCILED", "CLOSED", "REVIEWED"}

\* The order has not been handed to the venue yet.
PreSubmitStates ==
    {"NONE", "CANDIDATE", "RISK_REJECTED", "APPROVED", "ORDER_INTENT"}
=============================================================================
