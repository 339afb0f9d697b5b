-------------------------- MODULE OrderApplierProofs --------------------------
(***************************************************************************)
(* Proofs about OrderApplier, for any number of writers, any set of fill   *)
(* events, any order quantity and any retry and fingerprint bounds.        *)
(***************************************************************************)
EXTENDS OrderApplier, SequenceTheorems, TLAPS

\* The step of the order lifecycle from row r to row t.
LifecycleStep(r, t) ==
    \/ r.state = t.state /\ r.filled = t.filled
    \/ r.state = "NONE" /\ t.state \in {"CANDIDATE", "ORDER_INTENT"} /\ t.filled = r.filled
    \/ /\ is_valid_order_transition(r.state, t.state)
       /\ t.state \notin {"PARTIALLY_FILLED", "FILLED"} /\ t.filled = r.filled
    \/ /\ is_valid_order_transition(r.state, "PARTIALLY_FILLED")
       /\ t.state = "PARTIALLY_FILLED" /\ t.filled \in 1 .. Quantity - 1
    \/ /\ is_valid_order_transition(r.state, "FILLED")
       /\ t.state = "FILLED" /\ t.filled = Quantity

\* Stamping a fingerprint keeps a sequence of fingerprints: _stamp_event's
\* slice is a sequence of events whatever its bound.
LEMMA StampType ==
    ASSUME NEW s \in Seq(Event), NEW e \in Event
    PROVE  stamp_event(s, e) \in Seq(Event)
<1>1. Append(s, e) \in Seq(Event)
  OBVIOUS
<1>2. CASE Len(Append(s, e)) <= MaxProcessed
  BY <1>1, <1>2 DEF stamp_event
<1>3. CASE ~ (Len(Append(s, e)) <= MaxProcessed)
  <2> DEFINE all == Append(s, e)
             m == Len(all) - MaxProcessed + 1
  <2>1. Len(all) \in Nat /\ \A i \in 1 .. Len(all) : all[i] \in Event
    BY <1>1
  <2>2. m \in Int /\ m >= 1
    BY <1>3, <2>1, ApplierAssumption
  <2>3. \A i \in m .. Len(all) : all[i] \in Event
    BY <2>1, <2>2
  <2> HIDE DEF all, m
  <2>4. SubSeq(all, m, Len(all)) \in Seq(Event)
    BY <2>1, <2>2, <2>3, SubSeqProperties
  <2> QED
    BY <1>3, <2>4 DEF stamp_event, all, m
<1> QED
  BY <1>2, <1>3

\* A legal request applied to a consistent row gives a consistent row with the
\* next version, and is a step of the order lifecycle: what _transition
\* guarantees of the record it copies.
LEMMA TransitionStep ==
    ASSUME NEW r \in Record, r.state # "NONE", RowConsistent(r),
           NEW q \in Request, RequestConsistent(q), Legal(r, q)
    PROVE  /\ transition(r, q) \in Record
           /\ transition(r, q).state # "NONE"
           /\ transition(r, q).version = r.version + 1
           /\ RowConsistent(transition(r, q))
           /\ LifecycleStep(r, transition(r, q))
<1> DEFINE t == transition(r, q)
<1>1. t.processed \in Seq(Event)
  <2>1. CASE q.event = NoEvent
    BY <2>1 DEF transition, Record
  <2>2. CASE q.event # NoEvent
    <3>1. q.event \in Event /\ r.processed \in Seq(Event)
      BY <2>2 DEF Request, Record
    <3> QED
      BY <2>2, <3>1, StampType DEF transition
  <2> QED
    BY <2>1, <2>2
<1>2. /\ t.state = IF q.target = KeepState THEN r.state ELSE q.target
      /\ t.filled = IF q.fill = NoFill THEN r.filled ELSE q.fill
      /\ t.remaining = IF q.fill = NoFill THEN r.remaining ELSE Quantity - q.fill
      /\ t.version = r.version + 1
  BY DEF transition
<1>3. r.state \in OrderState /\ r.filled \in Nat /\ r.remaining \in Nat /\ r.version \in Nat
  BY DEF Record
<1>4. q.target \in OrderState \cup {KeepState} /\ q.fill \in Nat \cup {NoFill}
  BY DEF Request
<1>5. t.state \in OrderState /\ t.state # "NONE"
  BY <1>2, <1>3, <1>4 DEF OrderState, KeepState
<1>6. t.filled \in Nat /\ t.remaining \in Nat /\ t.version \in Nat
  BY <1>2, <1>3, <1>4, ApplierAssumption DEF RequestConsistent, NoFill
<1>7. t \in Record
  BY <1>1, <1>5, <1>6 DEF transition, Record
<1>8. CASE q.fill = NoFill
  <2>1. q.target \notin {"PARTIALLY_FILLED", "FILLED"} /\ t.filled = r.filled
        /\ t.remaining = r.remaining
    BY <1>2, <1>8 DEF RequestConsistent
  <2>2. CASE q.target = KeepState
    BY <1>2, <1>5, <1>7, <2>1, <2>2 DEF RowConsistent, LifecycleStep
  <2>3. CASE q.target # KeepState
    <3>1. t.state = q.target /\ is_valid_order_transition(r.state, t.state)
      BY <1>2, <2>3 DEF Legal
    <3>2. LifecycleStep(r, t)
      BY <2>1, <3>1 DEF LifecycleStep
    <3>3. RowConsistent(t)
      BY <1>3, <2>1, <3>1, ApplierAssumption
         DEF RowConsistent, is_valid_order_transition, ORDER_STATE_TRANSITIONS,
             PreSubmitStates
    <3> QED
      BY <1>2, <1>5, <1>7, <3>2, <3>3
  <2> QED
    BY <2>2, <2>3
<1>9. CASE q.fill # NoFill
  <2>1. /\ q.fill \in 1 .. Quantity
        /\ q.target = IF q.fill = Quantity THEN "FILLED" ELSE "PARTIALLY_FILLED"
    BY <1>9 DEF RequestConsistent
  <2>2. /\ t.state = q.target /\ t.filled = q.fill /\ t.remaining = Quantity - q.fill
        /\ is_valid_order_transition(r.state, q.target)
    BY <1>2, <1>9, <2>1 DEF Legal, KeepState
  <2>3. RowConsistent(t)
    BY <2>1, <2>2, ApplierAssumption DEF RowConsistent, PreSubmitStates
  <2>4. LifecycleStep(r, t)
    BY <2>1, <2>2, ApplierAssumption DEF LifecycleStep
  <2> QED
    BY <1>2, <1>5, <1>7, <2>3, <2>4
<1> QED
  BY <1>8, <1>9

\* What every step must establish: the invariants again, and a lifecycle step.
Preserved == TypeOK' /\ ApplierInv' /\ LifecycleStep(order, order')

\* Every plain request is well formed and consistent.
LEMMA ReqType ==
    ASSUME NEW target \in OrderState \cup {KeepState}, NEW event \in Event \cup {NoEvent},
           target \notin {"PARTIALLY_FILLED", "FILLED"}
    PROVE  Req(target, event) \in Request /\ RequestConsistent(Req(target, event))
BY DEF Req, Request, RequestConsistent, NoFill

\* No request is pending before the first call and between two calls.
LEMMA IdleType ==
    /\ Idle \in Call
    /\ Idle.pc = "idle"
    /\ RequestConsistent(Idle.req)
    /\ NoRecord \in Record
<1>1. NoRecord \in Record
  BY DEF NoRecord, Record
<1>2. Req(KeepState, NoEvent) \in Request /\ RequestConsistent(Req(KeepState, NoEvent))
  BY ReqType DEF KeepState
<1> QED
  BY <1>1, <1>2 DEF Idle, Call

\* A step that leaves the row alone and puts one call in a good local state.
LEMMA LocalStep ==
    ASSUME TypeOK, ApplierInv, NEW w \in Writers, NEW c \in Call,
           RequestConsistent(c.req), ReadCurrent(c),
           call' = [call EXCEPT ![w] = c], order' = order, outcome' \in Outcome
    PROVE  Preserved
<1>1. TypeOK'
  BY DEF TypeOK
<1>2. ASSUME NEW v \in Writers
      PROVE  (RequestConsistent(call[v].req) /\ ReadCurrent(call[v]))'
  <2>1. CASE v = w
    BY <2>1 DEF TypeOK, ReadCurrent, RequestConsistent
  <2>2. CASE v # w
    BY <2>2 DEF TypeOK, ApplierInv, ReadCurrent, RequestConsistent
  <2> QED
    BY <2>1, <2>2
<1>3. ApplierInv'
  BY <1>2 DEF ApplierInv, PersistedRowConsistent, RowConsistent
<1> QED
  BY <1>1, <1>3 DEF Preserved, LifecycleStep

\* Start: a method decides and enters _apply.
LEMMA StartStep ==
    ASSUME TypeOK, ApplierInv, NEW w \in Writers,
           NEW q \in Request, RequestConsistent(q), Start(w, q), order.state # "NONE"
    PROVE  Preserved
<1> DEFINE c == [Idle EXCEPT !.pc = "read", !.req = q]
<1>1. c \in Call /\ c.pc = "read" /\ c.req = q
  BY IdleType DEF Idle, Call
<1>2. ReadCurrent(c)
  BY <1>1 DEF ReadCurrent
<1>3. call' = [call EXCEPT ![w] = c] /\ order' = order /\ outcome' \in Outcome
  BY DEF Start, TypeOK
<1> HIDE DEF c
<1> QED
  BY <1>1, <1>2, <1>3, LocalStep

\* Return: a method ends, normally or with an exception, without a write.
LEMMA ReturnStep ==
    ASSUME TypeOK, ApplierInv, NEW w \in Writers,
           NEW result \in {"ok", "noop", "duplicate", "invalid", "stale", "divergence"},
           NEW event \in Event \cup {NoEvent}, Return(w, result, event)
    PROVE  Preserved
<1>1. call' = [call EXCEPT ![w] = Idle] /\ order' = order /\ outcome' \in Outcome
  BY DEF Return, Outcome
<1>2. ReadCurrent(Idle)
  BY IdleType DEF ReadCurrent
<1> QED
  BY <1>1, <1>2, IdleType, LocalStep

\* A write: the row becomes a consistent row with the next version, and the
\* writing call leaves its write state.  The copies other calls hold are older
\* than the new row, so their compare-and-set will fail.
LEMMA WriteStep ==
    ASSUME TypeOK, ApplierInv, NEW w \in Writers, NEW c \in Call,
           RequestConsistent(c.req), c.pc # "write",
           call' = [call EXCEPT ![w] = c], outcome' \in Outcome,
           order' \in Record, order'.state # "NONE", RowConsistent(order'),
           order'.version = order.version + 1, LifecycleStep(order, order')
    PROVE  Preserved
<1>1. TypeOK'
  BY DEF TypeOK
<1>2. ASSUME NEW v \in Writers
      PROVE  (RequestConsistent(call[v].req) /\ ReadCurrent(call[v]))'
  <2>1. CASE v = w
    BY <2>1 DEF TypeOK, ReadCurrent, RequestConsistent
  <2>2. CASE v # w
    <3>1. call'[v] = call[v] /\ call[v] \in Call
      BY <2>2 DEF TypeOK
    <3>2. RequestConsistent(call[v].req) /\ ReadCurrent(call[v])
      BY DEF ApplierInv
    <3>3. call[v].read.version \in Nat /\ order.version \in Nat
      BY <3>1 DEF TypeOK, Call, Record
    <3>4. ReadCurrent(call[v])'
      BY <3>1, <3>2, <3>3 DEF ReadCurrent, Legal, FillBeforeAck
    <3> QED
      BY <3>1, <3>2, <3>4 DEF RequestConsistent
  <2> QED
    BY <2>1, <2>2
<1>3. ApplierInv'
  BY <1>2 DEF ApplierInv, PersistedRowConsistent, RowConsistent
<1> QED
  BY <1>1, <1>3 DEF Preserved

\* A new version-1 row is consistent and starts the lifecycle.
LEMMA NewRecordStep ==
    ASSUME TypeOK, order.state = "NONE", ApplierInv,
           NEW s \in {"CANDIDATE", "ORDER_INTENT"}, order' = NewRecord(s),
           NEW w \in Writers, call' = [call EXCEPT ![w] = Idle] \/ call' = call,
           outcome' \in Outcome
    PROVE  TypeOK' /\ ApplierInv'
<1>1. NewRecord(s) \in Record /\ RowConsistent(NewRecord(s)) /\ NewRecord(s).state # "NONE"
  BY ApplierAssumption DEF NewRecord, Record, OrderState, RowConsistent, PreSubmitStates
<1>2. \A v \in Writers : call[v] \in Call /\ RequestConsistent(call[v].req)
                         /\ call[v].pc # "write"
  BY DEF TypeOK, ApplierInv, ReadCurrent
<1>3. \A v \in Writers : call'[v] \in Call /\ RequestConsistent(call'[v].req)
                         /\ call'[v].pc # "write"
  BY <1>2, IdleType DEF TypeOK
<1>4. TypeOK'
  BY <1>1, IdleType, SMTT(30) DEF TypeOK
<1>5. ApplierInv'
  BY <1>1, <1>3 DEF ApplierInv, PersistedRowConsistent, RowConsistent, ReadCurrent,
                    RequestConsistent
<1> QED
  BY <1>4, <1>5

\* _record_fill builds a consistent request from the row it read.
LEMMA FillStep ==
    ASSUME TypeOK, ApplierInv, order.state # "NONE", NEW w \in Writers,
           NEW event \in Event \cup {NoEvent}, NEW qty \in 1 .. Quantity,
           NEW healing \in BOOLEAN, record_fill_of(w, event, qty, healing)
    PROVE  Preserved
<1> DEFINE cumulative == order.filled + qty
           q == [target |-> IF cumulative = Quantity THEN "FILLED" ELSE "PARTIALLY_FILLED",
                 event |-> event, fill |-> cumulative, note |-> healing]
<1>1. Return(w, "divergence", event) \/ Return(w, "duplicate", event)
      \/ (cumulative <= Quantity /\ Start(w, q))
  <2>1. order.filled \in Nat
    BY DEF TypeOK, Record
  <2> QED
    BY <2>1, ApplierAssumption DEF record_fill_of
<1>2. CASE cumulative <= Quantity /\ Start(w, q)
  <2>1. order.filled \in Nat
    BY DEF TypeOK, Record
  <2>2. cumulative \in 1 .. Quantity
    BY <1>2, <2>1, ApplierAssumption
  <2>3. q \in Request /\ RequestConsistent(q)
    <3> HIDE DEF cumulative
    <3> QED
      BY <2>2, ApplierAssumption DEF Request, RequestConsistent, NoFill, OrderState
  <2> HIDE DEF q
  <2> QED
    BY <1>2, <2>3, StartStep
<1> HIDE DEF q, cumulative
<1> QED
  BY <1>1, <1>2, ReturnStep

\* Every call the service makes before the venue answers keeps the invariant.
LEMMA UpstreamStep ==
    ASSUME TypeOK, ApplierInv, NEW w \in Writers, Upstream(w)
    PROVE  Preserved
<1>1. CASE record_candidate(w)
  <2>1. CASE order.state = "NONE"
    <3>1. order' = NewRecord("CANDIDATE") /\ call' = call /\ outcome' \in Outcome
      BY <1>1, <2>1 DEF record_candidate, Outcome
    <3>2. TypeOK' /\ ApplierInv'
      BY <2>1, <3>1, NewRecordStep
    <3>3. order.filled = 0
      BY <2>1 DEF ApplierInv, PersistedRowConsistent, NoRecord
    <3> QED
      BY <2>1, <3>1, <3>2, <3>3 DEF Preserved, LifecycleStep, NewRecord
  <2>2. CASE order.state # "NONE"
    BY <1>1, <2>2, ReturnStep DEF record_candidate
  <2> QED
    BY <2>1, <2>2
<1>2. CASE record_plain(w)
  <2>1. PICK target \in PlainTargets : Start(w, Req(target, NoEvent))
    BY <1>2 DEF record_plain
  <2>2. Req(target, NoEvent) \in Request /\ RequestConsistent(Req(target, NoEvent))
    BY ReqType DEF PlainTargets, OrderState
  <2>3. order.state # "NONE"
    BY <1>2 DEF record_plain
  <2> QED
    BY <2>1, <2>2, <2>3, StartStep
<1>3. CASE record_order_intent(w)
  <2>1. CASE order.state = "NONE"
    <3> DEFINE c == [Idle EXCEPT !.pc = "insert"]
    <3>1. c \in Call /\ c.pc = "insert" /\ c.req = Idle.req
      BY IdleType DEF Idle, Call
    <3>2. ReadCurrent(c) /\ RequestConsistent(c.req)
      BY <3>1, IdleType DEF ReadCurrent
    <3>3. call' = [call EXCEPT ![w] = c] /\ order' = order /\ outcome' \in Outcome
      BY <1>3, <2>1 DEF record_order_intent, TypeOK
    <3> HIDE DEF c
    <3> QED
      BY <3>1, <3>2, <3>3, LocalStep
  <2>2. CASE order.state = "ORDER_INTENT"
    BY <1>3, <2>2, ReturnStep DEF record_order_intent
  <2>3. CASE order.state \notin {"NONE", "ORDER_INTENT"}
    BY <1>3, <2>3, StartStep, ReqType DEF record_order_intent, OrderState
  <2> QED
    BY <2>1, <2>2, <2>3
<1>4. CASE save_order(w)
  <2>1. CASE order.state = "NONE"
    <3>1. order' = NewRecord("ORDER_INTENT") /\ call' = [call EXCEPT ![w] = Idle]
          /\ outcome' \in Outcome
      BY <1>4, <2>1 DEF save_order, Outcome, Return
    <3>2. TypeOK' /\ ApplierInv'
      BY <2>1, <3>1, NewRecordStep
    <3>3. order.filled = 0
      BY <2>1 DEF ApplierInv, PersistedRowConsistent, NoRecord
    <3> QED
      BY <2>1, <3>1, <3>2, <3>3 DEF Preserved, LifecycleStep, NewRecord
  <2>2. CASE order.state # "NONE"
    BY <1>4, <2>2, ReturnStep DEF save_order
  <2> QED
    BY <2>1, <2>2
<1>5. CASE record_submitted(w)
  BY <1>5, StartStep, ReturnStep, ReqType DEF record_submitted, OrderState
<1> QED
  BY <1>1, <1>2, <1>3, <1>4, <1>5 DEF Upstream

\* Every call made for a venue event keeps the invariant.
LEMMA VenueEventStep ==
    ASSUME TypeOK, ApplierInv, NEW w \in Writers, VenueEvent(w)
    PROVE  Preserved
<1>1. {"ack", "cancel", "reject"} \subseteq Event
  BY DEF Event
<1>2. CASE record_acknowledged(w)
  BY <1>1, <1>2, StartStep, ReturnStep, ReqType
     DEF record_acknowledged, OrderState, AtVenue, PreSubmitStates
<1>3. CASE record_cancelled(w)
  BY <1>1, <1>3, StartStep, ReturnStep, ReqType
     DEF record_cancelled, OrderState, AtVenue, PreSubmitStates
<1>4. CASE record_rejected(w)
  BY <1>1, <1>4, StartStep, ReturnStep, ReqType
     DEF record_rejected, OrderState, AtVenue, PreSubmitStates
<1>5. CASE record_fill(w)
  <2>1. PICK e \in FillEvents : record_fill_of(w, e, QtyOf[e], FALSE)
    BY <1>5 DEF record_fill
  <2>2. e \in Event \cup {NoEvent} /\ QtyOf[e] \in 1 .. Quantity
    BY ApplierAssumption DEF Event
  <2>3. order.state # "NONE"
    BY <1>5 DEF record_fill, AtVenue, PreSubmitStates
  <2> QED
    BY <2>1, <2>2, <2>3, FillStep
<1> QED
  BY <1>2, <1>3, <1>4, <1>5 DEF VenueEvent

\* Every call of the reconciler keeps the invariant.
LEMMA HealingStep ==
    ASSUME TypeOK, ApplierInv, NEW w \in Writers, Healing(w)
    PROVE  Preserved
<1>1. CASE heal_acknowledged(w)
  BY <1>1, StartStep, ReturnStep, ReqType DEF heal_acknowledged, OrderState
<1>2. CASE heal_fill(w)
  <2>1. PICK qty \in HealQty : record_fill_of(w, NoEvent, qty, TRUE)
    BY <1>2 DEF heal_fill
  <2>2. qty \in 1 .. Quantity
    BY ApplierAssumption
  <2>3. order.state # "NONE"
    BY <1>2 DEF heal_fill, AtVenue, PreSubmitStates
  <2> QED
    BY <2>1, <2>2, <2>3, FillStep
<1>3. CASE adopt_position(w)
  BY <1>3, StartStep, ReqType DEF adopt_position, KeepState
<1>4. CASE mark_reconciled(w)
  BY <1>4, StartStep, ReturnStep, ReqType DEF mark_reconciled, OrderState
<1> QED
  BY <1>1, <1>2, <1>3, <1>4 DEF Healing

\* The local effect of Retry: the loop re-reads, or the call ends.
LEMMA RetryCall ==
    ASSUME TypeOK, ApplierInv, NEW w \in Writers, call[w].pc = "write", Retry(w)
    PROVE  \E c \in Call : /\ RequestConsistent(c.req) /\ c.pc # "write"
                           /\ c.pc = "read" => order.state # "NONE"
                           /\ call' = [call EXCEPT ![w] = c]
                           /\ outcome' \in Outcome
<1> DEFINE tries == call[w].tries + 1
           again == [call[w] EXCEPT !.pc = "read", !.tries = tries]
<1>1. call[w] \in Call /\ call \in [Writers -> Call] /\ outcome \in Outcome
  BY DEF TypeOK
<1>2. CASE tries < MaxAttempts
  <2>0. call[w].tries \in Nat /\ tries \in Nat
    BY <1>1 DEF Call
  <2>1. again \in Call /\ again.req = call[w].req /\ again.pc = "read"
    <3> HIDE DEF tries
    <3> QED
      BY <1>1, <2>0 DEF Call
  <2>2. call' = [call EXCEPT ![w] = again] /\ outcome' = outcome
    BY <1>1, <1>2 DEF Retry
  <2>3. RequestConsistent(again.req)
    BY <2>1 DEF ApplierInv
  <2>4. order.state # "NONE"
    BY DEF ApplierInv, ReadCurrent
  <2> HIDE DEF again
  <2> QED
    BY <1>1, <2>1, <2>2, <2>3, <2>4
<1>3. CASE ~ (tries < MaxAttempts)
  <2>1. call' = [call EXCEPT ![w] = Idle]
        /\ outcome' = [result |-> "stale", event |-> call[w].req.event]
    BY <1>3 DEF Retry
  <2>2. outcome' \in Outcome
    BY <1>1, <2>1 DEF Outcome, Call, Request
  <2> QED
    BY <2>1, <2>2, IdleType
<1> QED
  BY <1>2, <1>3

\* A loop step that does not write.
LEMMA RetryStep ==
    ASSUME TypeOK, ApplierInv, NEW w \in Writers, call[w].pc = "write", Retry(w),
           order' = order
    PROVE  Preserved
<1>1. PICK c \in Call : /\ RequestConsistent(c.req) /\ c.pc # "write"
                        /\ c.pc = "read" => order.state # "NONE"
                        /\ call' = [call EXCEPT ![w] = c]
                        /\ outcome' \in Outcome
  BY RetryCall
<1>2. ReadCurrent(c)
  BY <1>1 DEF ReadCurrent
<1> QED
  BY <1>1, <1>2, LocalStep

\* A compare-and-set that succeeds writes over the very row that was read.
LEMMA CasReadsRow ==
    ASSUME TypeOK, ApplierInv, NEW w \in Writers, call[w].pc = "write",
           update_order(call[w].read.version)
    PROVE  /\ call[w].read = order /\ order \in Record /\ order.state # "NONE"
           /\ RowConsistent(order)
           /\ call[w].req \in Request /\ RequestConsistent(call[w].req)
BY DEF TypeOK, ApplierInv, ReadCurrent, update_order, PersistedRowConsistent, Call

\* Every step of the compare-and-set loop keeps the invariant.
LEMMA LoopStep ==
    ASSUME TypeOK, ApplierInv, NEW w \in Writers, Loop(w)
    PROVE  Preserved
<1>0. call[w] \in Call /\ call[w].req \in Request
  BY DEF TypeOK, Call
<1>1. CASE apply_read(w)
  <2> DEFINE q == call[w].req
             c == [call[w] EXCEPT !.pc = "write", !.read = order]
  <2>1. q.event \in Event \cup {NoEvent}
    BY <1>0 DEF Request
  <2>2. CASE Return(w, "duplicate", q.event) \/ Return(w, "invalid", q.event)
    BY <2>1, <2>2, ReturnStep
  <2>3. CASE /\ Legal(order, q) \/ FillBeforeAck(order, q)
             /\ call' = [call EXCEPT ![w].pc = "write", ![w].read = order]
             /\ UNCHANGED <<order, outcome>>
    <3>1. c \in Call /\ c.req = q /\ c.read = order /\ c.pc = "write"
      BY <1>0 DEF Call, TypeOK
    <3>2. order.state # "NONE"
      BY <1>1 DEF apply_read, ApplierInv, ReadCurrent
    <3>3. ReadCurrent(c) /\ RequestConsistent(c.req)
      BY <2>3, <3>1, <3>2 DEF ReadCurrent, ApplierInv, TypeOK, Record
    <3>4. call' = [call EXCEPT ![w] = c] /\ order' = order /\ outcome' \in Outcome
      BY <2>3 DEF TypeOK
    <3> HIDE DEF c
    <3> QED
      BY <3>1, <3>3, <3>4, LocalStep
  <2> QED
    BY <1>1, <2>2, <2>3 DEF apply_read
<1>2. CASE apply_write(w)
  <2>1. CASE update_order(call[w].read.version)
    <3> DEFINE c == IF call[w].req.note THEN [Idle EXCEPT !.pc = "read"] ELSE Idle
    <3>1. c \in Call /\ c.pc # "write" /\ RequestConsistent(c.req)
      BY IdleType DEF Idle, Call
    <3>2. /\ call[w].pc = "write" /\ Legal(call[w].read, call[w].req)
          /\ order' = transition(call[w].read, call[w].req)
          /\ call' = [call EXCEPT ![w] = c]
          /\ outcome' = [result |-> "ok", event |-> call[w].req.event]
      BY <1>2, <2>1 DEF apply_write
    <3>3. outcome' \in Outcome
      BY <1>0, <3>2 DEF Outcome, Request
    <3>4. /\ order' \in Record /\ order'.state # "NONE" /\ RowConsistent(order')
          /\ order'.version = order.version + 1 /\ LifecycleStep(order, order')
      BY <2>1, <3>2, CasReadsRow, TransitionStep
    <3> HIDE DEF c
    <3> QED
      BY <3>1, <3>2, <3>3, <3>4, WriteStep
  <2>2. CASE ~ update_order(call[w].read.version)
    BY <1>2, <2>2, RetryStep DEF apply_write
  <2> QED
    BY <2>1, <2>2
<1>3. CASE apply_synthesize_ack(w)
  <2>1. CASE update_order(call[w].read.version)
    <3> DEFINE q == Req("ACKNOWLEDGED", NoEvent)
    <3>1. PICK c \in Call : /\ RequestConsistent(c.req) /\ c.pc # "write"
                            /\ call' = [call EXCEPT ![w] = c]
                            /\ outcome' \in Outcome
      BY <1>3, RetryCall DEF apply_synthesize_ack
    <3>2. /\ call[w].pc = "write" /\ ~ Legal(call[w].read, call[w].req)
          /\ order' = transition(call[w].read, q)
      BY <1>3, <2>1 DEF apply_synthesize_ack
    <3>3. order.state = "SUBMITTED"
      BY <2>1, <3>2, CasReadsRow DEF ApplierInv, ReadCurrent, FillBeforeAck
    <3>4. q \in Request /\ RequestConsistent(q)
      BY ReqType DEF OrderState
    <3>5. Legal(order, q)
      BY <3>3 DEF Legal, Req, is_valid_order_transition, ORDER_STATE_TRANSITIONS
    <3> HIDE DEF q
    <3>6. /\ order' \in Record /\ order'.state # "NONE" /\ RowConsistent(order')
          /\ order'.version = order.version + 1 /\ LifecycleStep(order, order')
      BY <2>1, <3>2, <3>4, <3>5, CasReadsRow, TransitionStep, SMTT(30)
    <3> QED
      BY <3>1, <3>6, WriteStep
  <2>2. CASE ~ update_order(call[w].read.version)
    BY <1>3, <2>2, RetryStep DEF apply_synthesize_ack
  <2> QED
    BY <2>1, <2>2
<1> QED
  BY <1>1, <1>2, <1>3 DEF Loop

\* The invariant holds of the empty store.
LEMMA InitStep == Init => TypeOK /\ ApplierInv
<1> SUFFICES ASSUME Init PROVE TypeOK /\ ApplierInv
  OBVIOUS
<1>1. TypeOK
  BY IdleType, SMTT(30) DEF Init, TypeOK, Outcome
<1>2. ApplierInv
  BY IdleType DEF Init, ApplierInv, PersistedRowConsistent, ReadCurrent, NoRecord
<1> QED
  BY <1>1, <1>2

\* Every step keeps the invariant.
LEMMA NextStep ==
    ASSUME TypeOK, ApplierInv, [Next]_applierVars
    PROVE  Preserved
<1>1. CASE Next
  <2>1. PICK w \in Writers : Upstream(w) \/ VenueEvent(w) \/ Healing(w) \/ Loop(w)
    BY <1>1 DEF Next
  <2> QED
    BY <2>1, UpstreamStep, VenueEventStep, HealingStep, LoopStep
<1>2. CASE UNCHANGED applierVars
  <2>1. order' = order /\ call' = call /\ outcome' = outcome
    BY <1>2 DEF applierVars
  <2>2. TypeOK'
    BY <2>1, SMTT(30) DEF TypeOK
  <2>3. ApplierInv'
    BY <2>1 DEF ApplierInv, PersistedRowConsistent, RowConsistent, RequestConsistent,
                ReadCurrent, Legal, FillBeforeAck
  <2> QED
    BY <2>1, <2>2, <2>3 DEF Preserved, LifecycleStep
<1> QED
  BY <1>1, <1>2

\* The applier's state is well typed and its inductive invariant holds in
\* every reachable state, for any number of writers and events.
THEOREM ApplierInvariant == Spec => [](TypeOK /\ ApplierInv)
<1>1. Init => TypeOK /\ ApplierInv
  BY InitStep
<1>2. (TypeOK /\ ApplierInv) /\ [Next]_applierVars => (TypeOK /\ ApplierInv)'
  BY NextStep DEF Preserved
<1> QED
  BY <1>1, <1>2, PTL DEF Spec

\* The persisted row is always consistent: FILLED means the whole quantity, a
\* live order always has a remainder, quantities always add up, whatever reads
\* and compare-and-set writes of whatever writers are interleaved.
THEOREM RowAlwaysConsistent == Spec => []PersistedRowConsistent
<1>1. ApplierInv => PersistedRowConsistent
  BY DEF ApplierInv
<1> QED
  BY <1>1, ApplierInvariant, PTL

\* The applier implements the order lifecycle: every step of every writer is a
\* step of OrderLifecycle on the persisted row, or leaves it alone.
THEOREM ApplierRefinesLifecycle == Spec => ImplementsLifecycle
<1>1. Init => Lifecycle!LifecycleInit
  BY DEF Init, NoRecord, Lifecycle!LifecycleInit
<1>2. (TypeOK /\ ApplierInv) /\ [Next]_applierVars
         => [Lifecycle!LifecycleNext]_(Lifecycle!lifecycleVars)
  <2> SUFFICES ASSUME TypeOK, ApplierInv, [Next]_applierVars
               PROVE  [Lifecycle!LifecycleNext]_(Lifecycle!lifecycleVars)
    OBVIOUS
  <2>1. LifecycleStep(order, order')
    BY NextStep DEF Preserved
  <2> QED
    BY <2>1 DEF LifecycleStep, Lifecycle!LifecycleNext, Lifecycle!lifecycleVars,
                Lifecycle!Create, Lifecycle!Advance, Lifecycle!PartialFill,
                Lifecycle!CompleteFill, is_valid_order_transition,
                Lifecycle!is_valid_order_transition, ORDER_STATE_TRANSITIONS,
                Lifecycle!ORDER_STATE_TRANSITIONS
<1> QED
  BY <1>1, <1>2, ApplierInvariant, PTL DEF Spec, ImplementsLifecycle, Lifecycle!LifecycleSpec
=============================================================================
