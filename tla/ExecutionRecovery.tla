-------------------------- MODULE ExecutionRecovery --------------------------
(***************************************************************************)
(* Submission, event application and restart reconciliation composed:      *)
(* ExecutionService (engines/execution/service.py), BrokerReconciler       *)
(* (reconciler.py), SAFE_MODE (safe_mode.py) and the supervisor's loop     *)
(* (apps/live_supervisor/supervisor.py), against a venue that works,       *)
(* fills and closes on its own.                                            *)
(*                                                                         *)
(* Two processes use the store: the supervisor, which may die between any  *)
(* two steps, and the reconcile-once command, which the operations manual  *)
(* schedules hourly beside it.  Both run the same reconciliation, whose    *)
(* broker view and database snapshot grow old while it works.              *)
(*                                                                         *)
(* A call of the applier is one step here; OrderApplier has its inner      *)
(* steps.  All orders share one instrument and side, the case in which     *)
(* the reconciler's matching by quantity has to tell them apart.           *)
(* Abstracted: prices, notes, audit, sequence numbers (Mt4Link has them).  *)
(***************************************************************************)
EXTENDS Integers, Sequences, FiniteSets, OrderStates

CONSTANTS
    Orders,        \* order intents
    Manual,        \* tickets a human opened at the broker
    Qty,           \* lots of each order and manual ticket
    PartialFills,  \* whether the venue splits a market order in two fills
    MaxCrashes,    \* bound on the crashes of the supervisor
    CliRuns        \* bound on the runs of reconcile-once

Tickets == Orders \cup Manual

ASSUME RecoveryAssumption ==
    /\ Orders \cap Manual = {}
    /\ Qty \in [Tickets -> Nat \ {0}]
    /\ PartialFills \in BOOLEAN
    /\ MaxCrashes \in Nat
    /\ CliRuns \in Nat

VARIABLES
    orders,     \* execution_orders: state and filled quantity
    positions,  \* execution_positions
    safe,       \* safe_mode_state.active
    sup,        \* where the supervisor is, and the order it is submitting
    rec,        \* the reconciliation each process is running
    wire,       \* submit frames the bridge has not handled
    reply,      \* the reply waiting for the supervisor
    venue,      \* orders at the broker
    events,     \* pushed events not drained yet
    sent,       \* how often each submit frame was sent
    crashes,
    cli         \* runs of reconcile-once so far

recoveryVars == <<orders, positions, safe, sup, rec, wire, reply, venue, events,
                  sent, crashes, cli>>

Processes == {"supervisor", "cli"}
NoOrder == "none"

OrderRow == [state : OrderState \cup {"NONE"}, filled : Nat]

\* An ExecutionPosition: order is its order_intent_id, open that closed_at is
\* None.  Quantity 0 stands for no row.
Position == [quantity : Nat, order : Orders \cup {NoOrder}, open : BOOLEAN]
NoPosition == [quantity |-> 0, order |-> NoOrder, open |-> FALSE]

\* An order at the broker; a ticket with a filled quantity is a position
\* while open.
VenueOrder == [status : {"unknown", "working", "filled", "rejected"},
               filled : Nat, open : BOOLEAN]

Event == [kind : {"fill"}, order : Orders, quantity : Nat]
           \cup [kind : {"snapshot"}, held : [Tickets -> Nat]]

\* A BrokerView: the lots of each open position, and open_order_intent_ids.
BrokerView == [held : [Tickets -> Nat], working : SUBSET Orders]

Idle == [step |-> "idle"]

\* db_orders and db_positions are the snapshots taken before step 1; todo is
\* what the current loop has left, submitted the orders live_orders() listed as
\* SUBMITTED; material and blamed are what the discrepancies found so far say
\* of the run and of single orders.
Reconciliation ==
    {Idle} \cup [step : {"load"}, view : BrokerView]
           \cup [step : {"positions", "orders", "conclude"}, view : BrokerView,
                 db_orders : [Orders -> OrderRow], db_positions : [Tickets -> Position],
                 todo : SUBSET Tickets, submitted : SUBSET Orders,
                 material : BOOLEAN, blamed : SUBSET Orders]

TypeOK ==
    /\ orders \in [Orders -> OrderRow]
    /\ positions \in [Tickets -> Position]
    /\ safe \in BOOLEAN
    /\ sup \in [at : {"down", "starting", "up", "intent", "submitted", "await"},
                order : Orders \cup {NoOrder}]
    /\ rec \in [Processes -> Reconciliation]
    /\ wire \subseteq Orders
    /\ reply \in {"none", "ack", "reject"}
    /\ venue \in [Tickets -> VenueOrder]
    /\ events \in Seq(Event)
    /\ sent \in [Orders -> Nat]
    /\ crashes \in 0 .. MaxCrashes
    /\ cli \in 0 .. CliRuns

Supervisor(at) == [at |-> at, order |-> NoOrder]

Init ==
    /\ orders = [o \in Orders |-> [state |-> "NONE", filled |-> 0]]
    /\ positions = [t \in Tickets |-> NoPosition]
    /\ safe = FALSE
    /\ sup = Supervisor("starting")
    /\ rec = [p \in Processes |-> Idle]
    /\ wire = {} /\ reply = "none"
    /\ venue = [t \in Tickets |-> [status |-> "unknown", filled |-> 0, open |-> FALSE]]
    /\ events = <<>>
    /\ sent = [o \in Orders |-> 0]
    /\ crashes = 0 /\ cli = 0
-----------------------------------------------------------------------------
(* What one call of the applier leaves in the row.                         *)

Over == VENUE_TERMINAL_STATES \cup SettledStates

MutReplyStatus(r) == [r EXCEPT !.state = "MODIFIED"]

record_acknowledged(r) == IF r.state = "SUBMITTED" THEN [r EXCEPT !.state = "ACKNOWLEDGED"] ELSE r
record_rejected(r) == IF r.state \in Over THEN r ELSE [r EXCEPT !.state = "REJECTED"]
record_cancelled(r) == IF r.state \in Over THEN r ELSE [r EXCEPT !.state = "CANCELLED"]
mark_reconciled(r) == IF r.state \in SettledStates THEN r ELSE [r EXCEPT !.state = "RECONCILED"]

\* _record_fill raises ExecutionDivergenceError.
Diverges(o, quantity) ==
    \/ orders[o].state \in {"CANCELLED", "REJECTED"} \cup SettledStates
    \/ orders[o].filled + quantity > Qty[o]

record_fill(o, quantity) ==
    LET cumulative == orders[o].filled + quantity
    IN  [state |-> IF cumulative = Qty[o] THEN "FILLED" ELSE "PARTIALLY_FILLED",
         filled |-> cumulative]

\* The process is gone: its reconciliation and the reply it waited for too.
Dies == /\ sup' = Supervisor("down")
        /\ rec' = [rec EXCEPT !["supervisor"] = Idle]
        /\ reply' = "none"
-----------------------------------------------------------------------------
(* ExecutionService.submit.                                                *)

\* The gates, and record_order_intent: an intent already handed to the venue
\* cannot go back to ORDER_INTENT.  A refusal leaves through the loop.
submit(o) ==
    /\ sup.at = "up"
    /\ IF safe \/ orders[o].state \notin {"NONE", "ORDER_INTENT"}
       THEN Dies /\ UNCHANGED orders
       ELSE /\ orders' = [orders EXCEPT ![o].state = "ORDER_INTENT"]
            /\ sup' = [at |-> "intent", order |-> o]
            /\ UNCHANGED <<rec, reply>>
    /\ UNCHANGED <<positions, safe, wire, venue, events, sent, crashes, cli>>

MutSendFirst ==
    /\ sup.at = "intent"
    /\ sup' = [sup EXCEPT !.at = "submitted"]
    /\ UNCHANGED <<orders, positions, safe, rec, wire, reply, venue, events, sent, crashes, cli>>

record_submitted ==
    /\ sup.at = "intent"
    /\ orders' = [orders EXCEPT ![sup.order].state = "SUBMITTED"]
    /\ sup' = [sup EXCEPT !.at = "submitted"]
    /\ UNCHANGED <<positions, safe, rec, wire, reply, venue, events, sent, crashes, cli>>

submit_order ==
    /\ sup.at = "submitted"
    /\ wire' = wire \cup {sup.order}
    /\ sent' = [sent EXCEPT ![sup.order] = @ + 1]
    /\ sup' = [sup EXCEPT !.at = "await"]
    /\ UNCHANGED <<orders, positions, safe, rec, reply, venue, events, crashes, cli>>

apply_reply ==
    /\ sup.at = "await" /\ reply # "none"
    /\ orders' = [orders EXCEPT ![sup.order] = IF reply = "ack" THEN record_acknowledged(@)
                                               ELSE record_rejected(@)]
    /\ reply' = "none"
    /\ sup' = Supervisor("up")
    /\ UNCHANGED <<positions, safe, rec, wire, venue, events, sent, crashes, cli>>


\* Mt4ProtocolError leaves submit and the supervisor's loop.
RequestTimeout ==
    /\ sup.at = "await"
    /\ Dies
    /\ UNCHANGED <<orders, positions, safe, wire, venue, events, sent, crashes, cli>>
-----------------------------------------------------------------------------
(* ExecutionService.drain_events, one event.                               *)

apply_fill(e) ==
    IF Diverges(e.order, e.quantity)
    THEN safe' = TRUE /\ Dies /\ UNCHANGED <<orders, positions>>
    ELSE /\ orders' = [orders EXCEPT ![e.order] = record_fill(e.order, e.quantity)]
         /\ UNCHANGED <<positions, safe, sup, rec, reply>>

\* Provenance names the order of every ticket the bridge opened.
Provenance(t) == IF t \in Orders THEN t ELSE NoOrder

apply_snapshot(e) ==
    /\ positions' = [t \in Tickets |->
                       IF e.held[t] = 0 THEN positions[t]
                       ELSE [quantity |-> e.held[t], order |-> Provenance(t), open |-> TRUE]]
    /\ UNCHANGED <<orders, safe, sup, rec, reply>>

drain_events ==
    /\ sup.at = "up" /\ events # <<>>
    /\ events' = Tail(events)
    /\ \/ Head(events).kind = "fill" /\ apply_fill(Head(events))
       \/ Head(events).kind = "snapshot" /\ apply_snapshot(Head(events))
    /\ UNCHANGED <<wire, venue, sent, crashes, cli>>
-----------------------------------------------------------------------------
(* startup_reconciliation and BrokerReconciler.reconcile.                  *)

Held(t) == IF venue[t].open THEN venue[t].filled ELSE 0

CurrentView == [held |-> [t \in Tickets |-> Held(t)],
                working |-> {o \in Orders : venue[o].status = "working"}]

\* A process reaches step 2 of the procedure: the supervisor behind its startup
\* gate, or a run of reconcile-once.
Querying(p) == /\ rec[p] = Idle
               /\ IF p = "cli" THEN cli < CliRuns /\ cli' = cli + 1
                  ELSE sup.at = "starting" /\ UNCHANGED cli

query(p) ==
    /\ Querying(p)
    /\ rec' = [rec EXCEPT ![p] = [step |-> "load", view |-> CurrentView]]
    /\ UNCHANGED <<orders, positions, safe, sup, wire, reply, venue, events, sent, crashes>>

\* The query fails, or the bridge answers that the broker is disconnected.
BrokerUnreachable(p) ==
    /\ Querying(p)
    /\ safe' = TRUE
    /\ UNCHANGED <<orders, positions, sup, rec, wire, reply, venue, events, sent, crashes>>

\* Snapshots of the store, and step 1: orders open at the broker that the
\* platform does not hold live.
load(p) ==
    /\ rec[p].step = "load"
    /\ LET view == rec[p].view
           unexpected == {o \in view.working : orders[o].state \notin LIVE_ORDER_STATES}
       IN  rec' = [rec EXCEPT ![p] =
                     [step |-> "positions", view |-> view,
                      db_orders |-> orders, db_positions |-> positions,
                      todo |-> {t \in Tickets : view.held[t] > 0}, submitted |-> {},
                      material |-> unexpected # {}, blamed |-> unexpected]]
    /\ UNCHANGED <<orders, positions, safe, sup, wire, reply, venue, events, sent, crashes, cli>>

Material(p, t, who) ==
    /\ rec' = [rec EXCEPT ![p].todo = @ \ {t}, ![p].material = TRUE,
                          ![p].blamed = @ \cup who]
    /\ UNCHANGED <<orders, positions>>

adopt(p, t, o) ==
    /\ positions' = [positions EXCEPT ![t] =
                        [quantity |-> rec[p].view.held[t], order |-> o, open |-> TRUE]]
    /\ rec' = [rec EXCEPT ![p].todo = @ \ {t}]


\* live_orders() that match the position t: all share instrument and side.
candidates(p, t) == {o \in Orders : /\ orders[o].state \in LIVE_ORDER_STATES
                                    /\ Qty[o] - orders[o].filled = rec[p].view.held[t]}

compare_known_position(p, t) ==
    IF rec[p].view.held[t] # rec[p].db_positions[t].quantity
    THEN Material(p, t, {})
    ELSE rec' = [rec EXCEPT ![p].todo = @ \ {t}] /\ UNCHANGED <<orders, positions>>

\* Step 2, one broker position.
reconcile_position(p, t) ==
    /\ rec[p].step = "positions" /\ t \in rec[p].todo
    /\ LET r == rec[p]
       IN  IF r.db_positions[t].open THEN compare_known_position(p, t)
           ELSE IF t \in Orders /\ r.db_orders[t].state = "FILLED"
           THEN IF r.db_orders[t].filled # r.view.held[t] THEN Material(p, t, {t})
                ELSE adopt(p, t, t) /\ UNCHANGED orders
           ELSE IF Cardinality(candidates(p, t)) = 1
           THEN \E o \in candidates(p, t) :
                   /\ orders' = [orders EXCEPT ![o] = record_fill(o, r.view.held[t])]
                   /\ adopt(p, t, o)
           ELSE Material(p, t, {})
    /\ UNCHANGED <<safe, sup, wire, reply, venue, events, sent, crashes, cli>>

\* Step 3 lists the live orders again, after the adoptions.
live_orders(p) ==
    LET live == {o \in Orders : orders[o].state \in LIVE_ORDER_STATES}
    IN  /\ rec[p].step = "positions" /\ rec[p].todo = {}
        /\ rec' = [rec EXCEPT ![p].step = "orders", ![p].todo = live,
                              ![p].submitted = {o \in live : orders[o].state = "SUBMITTED"}]
        /\ UNCHANGED <<orders, positions, safe, sup, wire, reply, venue, events, sent,
                       crashes, cli>>

\* Step 3, one live order: ACK lost, never acknowledged, or missing.
reconcile_order(p, o) ==
    /\ rec[p].step = "orders" /\ o \in rec[p].todo
    /\ IF o \in rec[p].submitted \/ o \in rec[p].view.working
       THEN /\ orders' = [orders EXCEPT ![o] =
                            IF o \notin rec[p].submitted THEN @
                            ELSE IF o \in rec[p].view.working THEN record_acknowledged(@)
                            ELSE mark_reconciled(record_cancelled(@))]
            /\ rec' = [rec EXCEPT ![p].todo = @ \ {o}]
            /\ UNCHANGED positions
       ELSE Material(p, o, {o})
    /\ UNCHANGED <<safe, sup, wire, reply, venue, events, sent, crashes, cli>>

MutKeepAbsent(p) ==
    /\ rec[p].step = "orders" /\ rec[p].todo = {}
    /\ rec' = [rec EXCEPT ![p].step = "conclude"]
    /\ UNCHANGED <<orders, positions, safe, sup, wire, reply, venue, events, sent, crashes, cli>>

\* Step 4: positions open in the snapshot and gone at the broker.
close_positions(p) ==
    LET r == rec[p]
        gone == {t \in Tickets : r.db_positions[t].open /\ r.view.held[t] = 0}
    IN  /\ r.step = "orders" /\ r.todo = {}
        /\ positions' = [t \in Tickets |-> IF t \in gone
                                           THEN [r.db_positions[t] EXCEPT !.open = FALSE]
                                           ELSE positions[t]]
        /\ rec' = [rec EXCEPT ![p].step = "conclude"]
        /\ UNCHANGED <<orders, safe, sup, wire, reply, venue, events, sent, crashes, cli>>

\* Step 5, and the posture the service takes: SAFE_MODE is entered or left.
conclude(p) ==
    LET r == rec[p]
        settled == {o \in Orders : r.db_orders[o].state \in VENUE_TERMINAL_STATES} \ r.blamed
    IN  /\ r.step = "conclude"
        /\ orders' = [o \in Orders |-> IF o \in settled THEN mark_reconciled(orders[o])
                                       ELSE orders[o]]
        /\ safe' = r.material
        /\ rec' = [rec EXCEPT ![p] = Idle]
        /\ sup' = IF p = "supervisor" /\ ~ r.material THEN Supervisor("up") ELSE sup
        /\ UNCHANGED <<positions, wire, reply, venue, events, sent, crashes, cli>>

Reconcile(p) == \/ load(p) \/ live_orders(p) \/ close_positions(p) \/ conclude(p)
                \/ \E t \in Tickets : reconcile_position(p, t)
                \/ \E o \in Orders : reconcile_order(p, o)
-----------------------------------------------------------------------------
(* The venue and the bridge in front of it.                                *)

\* The bridge handles a submit frame, even one whose sender is gone.
HandleSubmit(o) ==
    /\ o \in wire
    /\ wire' = wire \ {o}
    /\ \E accepted \in BOOLEAN :
         /\ venue' = [venue EXCEPT ![o].status = IF accepted THEN "working" ELSE "rejected"]
         /\ reply' = IF sup.at = "await" /\ sup.order = o
                     THEN IF accepted THEN "ack" ELSE "reject" ELSE reply
    /\ UNCHANGED <<orders, positions, safe, sup, rec, events, sent, crashes, cli>>

\* The lots a fill may take: what remains or, once, a part of it.
FillSizes(o) ==
    {Qty[o] - venue[o].filled}
      \cup (IF PartialFills /\ venue[o].filled = 0 THEN 1 .. Qty[o] - 1 ELSE {})

\* A fill pushes a fill and a position snapshot.  Each may be lost: dropped by
\* a full socket, delivered to the other process's socket, or gone with the
\* process that had received it.
Fill(o) ==
    /\ venue[o].status = "working"
    /\ \E n \in FillSizes(o) :
         LET after == [venue EXCEPT ![o] =
                         [status |-> IF @.filled + n = Qty[o] THEN "filled" ELSE "working",
                          filled |-> @.filled + n, open |-> TRUE]]
             fill == [kind |-> "fill", order |-> o, quantity |-> n]
             snapshot == [kind |-> "snapshot",
                          held |-> [t \in Tickets |-> IF after[t].open THEN after[t].filled ELSE 0]]
         IN  /\ venue' = after
             /\ \E pushed \in {<<>>, <<fill>>, <<snapshot>>, <<fill, snapshot>>} :
                   events' = events \o pushed
    /\ UNCHANGED <<orders, positions, safe, sup, rec, wire, reply, sent, crashes, cli>>

\* Stop loss, take profit or a manual close at the broker: no event.
ClosePosition(t) ==
    /\ venue[t].open /\ venue[t].status = "filled"
    /\ venue' = [venue EXCEPT ![t].open = FALSE]
    /\ UNCHANGED <<orders, positions, safe, sup, rec, wire, reply, events, sent, crashes, cli>>

open_manual_position(t) ==
    /\ venue[t].status = "unknown"
    /\ venue' = [venue EXCEPT ![t] = [status |-> "filled", filled |-> Qty[t], open |-> TRUE]]
    /\ UNCHANGED <<orders, positions, safe, sup, rec, wire, reply, events, sent, crashes, cli>>

Venue == \/ \E o \in Orders : HandleSubmit(o) \/ Fill(o)
         \/ \E t \in Tickets : ClosePosition(t)
         \/ \E t \in Manual : open_manual_position(t)
-----------------------------------------------------------------------------
Crash ==
    /\ sup.at # "down" /\ crashes < MaxCrashes
    /\ crashes' = crashes + 1
    /\ Dies
    /\ UNCHANGED <<orders, positions, safe, wire, venue, events, sent, cli>>

Restart ==
    /\ sup.at = "down"
    /\ sup' = Supervisor("starting")
    /\ UNCHANGED <<orders, positions, safe, rec, wire, reply, venue, events, sent, crashes, cli>>

\* The steps the supervisor takes without anything happening to it.
Progress == \/ record_submitted \/ submit_order \/ apply_reply \/ RequestTimeout
            \/ Restart \/ query("supervisor") \/ Reconcile("supervisor")

Next == \/ Progress \/ drain_events \/ Crash \/ Venue
        \/ query("cli") \/ Reconcile("cli")
        \/ \E p \in Processes : BrokerUnreachable(p)
        \/ \E o \in Orders : submit(o)

Spec == Init /\ [][Next]_recoveryVars

FairSpec == Spec /\ WF_recoveryVars(Progress)
-----------------------------------------------------------------------------
(* Properties.                                                             *)

\* Crash safety of the write-before-send contract: whatever the bridge has
\* been sent is on record as submitted, and an intent is sent at most once
\* however often submit is called for it and wherever the process dies.
WriteBeforeSend ==
    \A o \in Orders : /\ sent[o] <= 1
                      /\ sent[o] = 1 => orders[o].state \notin PreSubmitStates
                      /\ o \in wire \/ venue[o].status # "unknown" => sent[o] = 1

\* The inductive form of WriteBeforeSend: the order being submitted has not
\* been sent, and is recorded before it is.
SubmitInv ==
    /\ orders = [o \in Orders |-> [state |-> orders[o].state, filled |-> orders[o].filled]]
    /\ sent \in [Orders -> Nat]
    /\ sup.at \in {"intent", "submitted", "await"} => sup.order \in Orders
    /\ sup.at \in {"intent", "submitted"} => sent[sup.order] = 0
    /\ sup.at = "submitted" => orders[sup.order].state \notin PreSubmitStates
    /\ \A o \in Orders : orders[o].state \in PreSubmitStates => sent[o] = 0
    /\ WriteBeforeSend


\* SAFE_MODE is left only when the store agrees with the broker view that
\* was compared: same open positions and lots, every live order open there.
SafeExitAgrees ==
    [][safe /\ ~ safe' =>
         LET view == rec["supervisor"].view
         IN  /\ \A t \in Tickets : view.held[t] = IF positions'[t].open
                                                  THEN positions'[t].quantity ELSE 0
             /\ \A o \in Orders : orders'[o].state \in LIVE_ORDER_STATES => o \in view.working
      ]_recoveryVars


\* "submitted order left no trace at the broker -- nothing executable"
\* (engines/execution/reconciler.py): an order closed without a fill has not
\* been executed.
NothingExecutable ==
    \A o \in Orders : orders[o].state = "RECONCILED" /\ orders[o].filled = 0
                        => venue[o].filled = 0
=============================================================================
