----------------------- MODULE ExecutionRecoveryProofs -----------------------
(***************************************************************************)
(* The write-before-send contract of ExecutionService.submit, for any      *)
(* number of orders, crashes, lost events and reconciliation runs.         *)
(***************************************************************************)
EXTENDS ExecutionRecovery, TLAPS

\* Steps that leave the submission alone: they send nothing, do not enter a
\* submission, and move no row into a state before SUBMITTED.
Quiet ==
    /\ orders' = [o \in Orders |-> [state |-> orders'[o].state, filled |-> orders'[o].filled]]
    /\ \A o \in Orders : orders'[o].state \in PreSubmitStates =>
                           orders[o].state \in PreSubmitStates
    /\ sup' = sup \/ sup'.at \in {"down", "starting", "up"}
    /\ sent' = sent
    /\ wire' \subseteq wire
    /\ \A t \in Orders : venue'[t].status # "unknown" =>
                           venue[t].status # "unknown" \/ t \in wire

\* A quiet step keeps what is known of the submission.
LEMMA QuietStep == SubmitInv /\ Quiet => SubmitInv'
  <1> SUFFICES ASSUME SubmitInv, Quiet PROVE SubmitInv'
    OBVIOUS
  <1> USE DEF SubmitInv, Quiet
  <1>1. sup'.at \in {"intent", "submitted", "await"} => sup' = sup
    OBVIOUS
  <1>2. sup'.at \in {"intent", "submitted", "await"} => sup'.order \in Orders
    BY <1>1
  <1>3. sup'.at \in {"intent", "submitted"} => sent'[sup'.order] = 0
    BY <1>1
  <1>4. sup'.at = "submitted" => orders'[sup'.order].state \notin PreSubmitStates
    BY <1>1
  <1>5. \A o \in Orders : orders'[o].state \in PreSubmitStates => sent'[o] = 0
    OBVIOUS
  <1>6. WriteBeforeSend'
    BY DEF WriteBeforeSend
  <1> QED BY <1>2, <1>3, <1>4, <1>5, <1>6

\* submit either dies or opens a submission of an order never sent.
LEMMA SubmitStep == ASSUME NEW o \in Orders, SubmitInv, submit(o) PROVE SubmitInv'
  <1>1. CASE safe \/ orders[o].state \notin {"NONE", "ORDER_INTENT"}
    <2>1. Quiet
      BY <1>1, SMTT(30) DEF submit, Dies, Supervisor, Quiet, SubmitInv
    <2> QED BY <2>1, QuietStep
  <1>2. CASE ~ (safe \/ orders[o].state \notin {"NONE", "ORDER_INTENT"})
    <2> USE <1>2 DEF SubmitInv
    <2>1. orders[o].state \in PreSubmitStates /\ sent[o] = 0
      BY DEF PreSubmitStates
    <2>2. /\ orders' = [orders EXCEPT ![o].state = "ORDER_INTENT"]
          /\ sup' = [at |-> "intent", order |-> o]
          /\ sent' = sent /\ wire' = wire /\ venue' = venue
      BY DEF submit
    <2>3. \A x \in Orders : orders'[x] = [state |-> orders'[x].state, filled |-> orders'[x].filled]
      BY <2>2
    <2>4. \A x \in Orders : x # o => orders'[x] = orders[x]
      BY <2>2
    <2>5. orders' = [x \in Orders |-> [state |-> orders'[x].state, filled |-> orders'[x].filled]]
      BY <2>2, <2>3
    <2>6. WriteBeforeSend'
      BY <2>1, <2>2, <2>4 DEF WriteBeforeSend
    <2>7. \A x \in Orders : orders'[x].state \in PreSubmitStates => sent'[x] = 0
      BY <2>1, <2>2, <2>4, SMTT(30)
    <2> QED BY <2>1, <2>2, <2>5, <2>6, <2>7
  <1> QED BY <1>1, <1>2

\* SUBMITTED is persisted while the frame is still unsent.
LEMMA RecordStep == SubmitInv /\ record_submitted => SubmitInv'
  <1> SUFFICES ASSUME SubmitInv, record_submitted PROVE SubmitInv'
    OBVIOUS
  <1> USE DEF SubmitInv, record_submitted
  <1> DEFINE o == sup.order
  <1>1. o \in Orders /\ sent[o] = 0
    OBVIOUS
  <1>2. /\ orders'[o].state = "SUBMITTED"
        /\ \A x \in Orders : x # o => orders'[x] = orders[x]
    BY <1>1
  <1>3. orders' = [x \in Orders |-> [state |-> orders'[x].state, filled |-> orders'[x].filled]]
    BY <1>1
  <1>4. sup'.at = "submitted" /\ sup'.order = o
    OBVIOUS
  <1>5. orders'[o].state \notin PreSubmitStates
    BY <1>2 DEF PreSubmitStates
  <1>6. WriteBeforeSend'
    BY <1>1, <1>2, <1>5 DEF WriteBeforeSend
  <1>7. \A x \in Orders : orders'[x].state \in PreSubmitStates => sent'[x] = 0
    BY <1>2, <1>5
  <1> QED BY <1>1, <1>3, <1>4, <1>5, <1>6, <1>7

\* The frame goes out once, for a recorded order.
LEMMA SendStep == SubmitInv /\ submit_order => SubmitInv'
  <1> SUFFICES ASSUME SubmitInv, submit_order PROVE SubmitInv'
    OBVIOUS
  <1> USE DEF SubmitInv, submit_order
  <1> DEFINE o == sup.order
  <1>1. o \in Orders /\ sent[o] = 0 /\ orders[o].state \notin PreSubmitStates
    OBVIOUS
  <1>2. sent'[o] = 1 /\ \A x \in Orders : x # o => sent'[x] = sent[x]
    BY <1>1
  <1>3. sup'.at = "await" /\ sup'.order = o
    OBVIOUS
  <1>4. WriteBeforeSend'
    BY <1>1, <1>2 DEF WriteBeforeSend
  <1>5. \A x \in Orders : orders'[x].state \in PreSubmitStates => sent'[x] = 0
    BY <1>1, <1>2
  <1>6. sent' \in [Orders -> Nat]
    BY <1>1
  <1> QED BY <1>1, <1>3, <1>4, <1>5, <1>6

Shaped(r) == r = [state |-> r.state, filled |-> r.filled]

\* A row stays a row, and does not return to a state before SUBMITTED.
Onward(r, s) == /\ Shaped(s)
                /\ s.state \in PreSubmitStates => r.state \in PreSubmitStates

\* Every update of the applier moves a row onward.
LEMMA RowSteps ==
    ASSUME NEW r, Shaped(r)
    PROVE  /\ Onward(r, r)
           /\ Onward(r, record_acknowledged(r)) /\ Onward(r, record_rejected(r))
           /\ Onward(r, record_cancelled(r)) /\ Onward(r, mark_reconciled(r))
           /\ Onward(r, mark_reconciled(record_cancelled(r)))
  <1> USE DEF Shaped, Onward, PreSubmitStates
  <1>1. Onward(r, r) /\ Onward(r, record_acknowledged(r))
    BY DEF record_acknowledged
  <1>2. Onward(r, record_rejected(r)) /\ Onward(r, mark_reconciled(r))
    BY DEF record_rejected, mark_reconciled
  <1>3. Onward(r, record_cancelled(r))
    BY DEF record_cancelled
  <1>4. Onward(r, mark_reconciled(record_cancelled(r)))
    BY DEF record_cancelled, mark_reconciled
  <1> QED BY <1>1, <1>2, <1>3, <1>4

\* So does a fill.
LEMMA FillRow == ASSUME NEW o, NEW n PROVE Onward(orders[o], record_fill(o, n))
  BY DEF Onward, Shaped, record_fill, PreSubmitStates

\* One row moves onward, or none does.
LEMMA OneRow ==
    ASSUME SubmitInv, NEW o, NEW s, o \in Orders => Onward(orders[o], s),
           orders' = [orders EXCEPT ![o] = s]
    PROVE  /\ orders' = [x \in Orders |-> [state |-> orders'[x].state, filled |-> orders'[x].filled]]
           /\ \A x \in Orders : orders'[x].state \in PreSubmitStates =>
                                  orders[x].state \in PreSubmitStates
  BY DEF SubmitInv, Onward, Shaped

\* A step that leaves the rows alone.
LEMMA NoRow ==
    ASSUME SubmitInv, orders' = orders
    PROVE  /\ orders' = [x \in Orders |-> [state |-> orders'[x].state, filled |-> orders'[x].filled]]
           /\ \A x \in Orders : orders'[x].state \in PreSubmitStates =>
                                  orders[x].state \in PreSubmitStates
  BY DEF SubmitInv

\* Every row has the two fields modelled.
LEMMA RowsShaped == SubmitInv => \A o \in Orders : Shaped(orders[o])
  BY DEF SubmitInv, Shaped

\* The reply, the timeout, the crash and the restart.
LEMMA SupervisorStep ==
    SubmitInv /\ (apply_reply \/ RequestTimeout \/ Crash \/ Restart) => SubmitInv'
  <1> SUFFICES ASSUME SubmitInv PROVE apply_reply \/ RequestTimeout \/ Crash \/ Restart => Quiet
    BY QuietStep
  <1>1. ASSUME apply_reply PROVE Quiet
    <2> DEFINE o == sup.order
               s == IF reply = "ack" THEN record_acknowledged(orders[o]) ELSE record_rejected(orders[o])
    <2>1. o \in Orders /\ Shaped(orders[o])
      BY <1>1, RowsShaped DEF apply_reply, SubmitInv
    <2>2. Onward(orders[o], s)
      BY <2>1, RowSteps
    <2>3. orders' = [orders EXCEPT ![o] = s]
      BY <1>1 DEF apply_reply
    <2>4. sup' = [at |-> "up", order |-> NoOrder] /\ UNCHANGED <<sent, wire, venue>>
      BY <1>1 DEF apply_reply, Supervisor
    <2> HIDE DEF o, s
    <2> QED BY <2>1, <2>2, <2>3, <2>4, OneRow DEF Quiet
  <1>2. ASSUME RequestTimeout \/ Crash \/ Restart PROVE Quiet
    BY <1>2, NoRow DEF RequestTimeout, Crash, Restart, Dies, Supervisor, Quiet
  <1> QED BY <1>1, <1>2

\* Draining an event.
LEMMA DrainStep == SubmitInv /\ drain_events => SubmitInv'
  <1> SUFFICES ASSUME SubmitInv, drain_events PROVE Quiet
    BY QuietStep
  <1> DEFINE e == Head(events)
  <1>1. UNCHANGED <<sent, wire, venue>>
    BY DEF drain_events
  <1>2. ASSUME orders' = orders, sup' = sup \/ sup'.at = "down" PROVE Quiet
    BY <1>1, <1>2, NoRow DEF Quiet
  <1>3. ASSUME apply_fill(e) PROVE Quiet
    <2>1. CASE Diverges(e.order, e.quantity)
      BY <1>2, <1>3, <2>1 DEF apply_fill, Dies, Supervisor
    <2>2. CASE ~ Diverges(e.order, e.quantity)
      <3>1. /\ orders' = [orders EXCEPT ![e.order] = record_fill(e.order, e.quantity)]
            /\ sup' = sup
        BY <1>3, <2>2 DEF apply_fill
      <3>2. Onward(orders[e.order], record_fill(e.order, e.quantity))
        BY FillRow
      <3> HIDE DEF e
      <3> QED BY <1>1, <3>1, <3>2, OneRow DEF Quiet
    <2> QED BY <2>1, <2>2
  <1>4. ASSUME apply_snapshot(e) PROVE Quiet
    BY <1>2, <1>4 DEF apply_snapshot
  <1> QED BY <1>3, <1>4 DEF drain_events

\* A reconciliation, step by step, of either process.
LEMMA ReconcileStep ==
    ASSUME SubmitInv, NEW p \in Processes,
           query(p) \/ BrokerUnreachable(p) \/ Reconcile(p)
    PROVE  SubmitInv'
  <1> SUFFICES Quiet
    BY QuietStep
  <1>1. ASSUME UNCHANGED <<orders, sup, sent, wire, venue>> PROVE Quiet
    BY <1>1, NoRow DEF Quiet
  <1>2. CASE query(p) \/ BrokerUnreachable(p)
    BY <1>1, <1>2 DEF query, BrokerUnreachable
  <1>3. CASE load(p) \/ live_orders(p) \/ close_positions(p)
    BY <1>1, <1>3 DEF load, live_orders, close_positions
  <1>4. ASSUME NEW t \in Tickets, reconcile_position(p, t) PROVE Quiet
    <2>1. UNCHANGED <<sup, sent, wire, venue>>
      BY <1>4, SMTT(30) DEF reconcile_position
    <2>2. \/ orders' = orders
          \/ \E o \in Orders : orders' = [orders EXCEPT ![o] = record_fill(o, rec[p].view.held[t])]
      BY <1>4, SMTT(30) DEF reconcile_position, compare_known_position, Material, candidates
    <2>3. ASSUME NEW o \in Orders, orders' = [orders EXCEPT ![o] = record_fill(o, rec[p].view.held[t])]
          PROVE  Quiet
      <3>1. Onward(orders[o], record_fill(o, rec[p].view.held[t]))
        BY FillRow
      <3> QED BY <2>1, <2>3, <3>1, OneRow DEF Quiet
    <2> QED BY <1>1, <2>1, <2>2, <2>3
  <1>5. ASSUME NEW o \in Orders, reconcile_order(p, o) PROVE Quiet
    <2> DEFINE s == IF o \notin rec[p].submitted THEN orders[o]
                    ELSE IF o \in rec[p].view.working THEN record_acknowledged(orders[o])
                    ELSE mark_reconciled(record_cancelled(orders[o]))
    <2>1. UNCHANGED <<sup, sent, wire, venue>>
      BY <1>5 DEF reconcile_order
    <2>2. orders' = orders \/ orders' = [orders EXCEPT ![o] = s]
      BY <1>5 DEF reconcile_order, Material
    <2>3. Onward(orders[o], s)
      BY RowsShaped, RowSteps
    <2> HIDE DEF s
    <2> QED BY <1>1, <2>1, <2>2, <2>3, OneRow DEF Quiet
  <1>6. CASE conclude(p)
    <2>1. PICK settled : orders' = [o \in Orders |-> IF o \in settled THEN mark_reconciled(orders[o])
                                                   ELSE orders[o]]
      BY <1>6 DEF conclude
    <2>2. UNCHANGED <<sent, wire, venue>> /\ (sup' = sup \/ sup'.at = "up")
      BY <1>6 DEF conclude, Supervisor
    <2>3. \A o \in Orders : Onward(orders[o], orders'[o])
      BY <2>1, RowsShaped, RowSteps
    <2>4. \A o \in Orders : /\ orders'[o] = [state |-> orders'[o].state, filled |-> orders'[o].filled]
                            /\ orders'[o].state \in PreSubmitStates => orders[o].state \in PreSubmitStates
      BY <2>3 DEF Onward, Shaped
    <2>5. orders' = [o \in Orders |-> [state |-> orders'[o].state, filled |-> orders'[o].filled]]
      BY <2>1, <2>4
    <2> QED BY <2>2, <2>4, <2>5 DEF Quiet
  <1> QED BY <1>2, <1>3, <1>4, <1>5, <1>6 DEF Reconcile

\* The venue and the bridge: only a frame on the wire becomes an order.
LEMMA VenueStep == SubmitInv /\ Venue => SubmitInv'
  <1> SUFFICES ASSUME SubmitInv, Venue PROVE Quiet
    BY QuietStep
  <1> DEFINE Kept == /\ wire' \subseteq wire
                     /\ \A t \in Orders : venue'[t].status # "unknown" =>
                                            venue[t].status # "unknown" \/ t \in wire
  <1>1. UNCHANGED <<orders, sup, sent>>
    BY DEF Venue, HandleSubmit, Fill, ClosePosition, open_manual_position
  <1>2. ASSUME NEW o \in Orders, HandleSubmit(o) PROVE Kept
    BY <1>2 DEF HandleSubmit
  <1>3. ASSUME NEW o \in Orders, Fill(o) PROVE Kept
    BY <1>3 DEF Fill
  <1>4. ASSUME NEW t \in Tickets, ClosePosition(t) PROVE Kept
    BY <1>4 DEF ClosePosition
  <1>5. ASSUME NEW t \in Manual, open_manual_position(t) PROVE Kept
    BY <1>5, RecoveryAssumption DEF open_manual_position
  <1>6. Kept
    BY <1>2, <1>3, <1>4, <1>5 DEF Venue
  <1> QED BY <1>1, <1>6, NoRow DEF Quiet

\* Nothing has been submitted initially.
LEMMA SubmitInit == Init => SubmitInv
  BY DEF Init, SubmitInv, WriteBeforeSend, Supervisor, PreSubmitStates, Tickets

\* Every step keeps the submission invariant.
LEMMA SubmitNext == SubmitInv /\ [Next]_recoveryVars => SubmitInv'
  <1> SUFFICES ASSUME SubmitInv, [Next]_recoveryVars PROVE SubmitInv'
    OBVIOUS
  <1>1. CASE Progress
    BY <1>1, RecordStep, SendStep, SupervisorStep, ReconcileStep DEF Progress, Processes
  <1>2. CASE drain_events \/ Crash \/ Venue
    BY <1>2, DrainStep, SupervisorStep, VenueStep
  <1>3. CASE query("cli") \/ Reconcile("cli") \/ \E p \in Processes : BrokerUnreachable(p)
    BY <1>3, ReconcileStep DEF Processes
  <1>4. CASE \E o \in Orders : submit(o)
    BY <1>4, SubmitStep
  <1>5. CASE UNCHANGED recoveryVars
    BY <1>5, NoRow, QuietStep DEF recoveryVars, Quiet
  <1> QED BY <1>1, <1>2, <1>3, <1>4, <1>5 DEF Next

\* The write-before-send contract of ExecutionService.submit: for any orders,
\* crashes, lost events, reconciliation runs and manual trades, a frame is sent
\* only after SUBMITTED was persisted, and at most once per intent.
THEOREM SentIsRecorded == Spec => []WriteBeforeSend
  <1>1. SubmitInv => WriteBeforeSend
    BY DEF SubmitInv
  <1> QED BY <1>1, SubmitInit, SubmitNext, PTL DEF Spec
=============================================================================
