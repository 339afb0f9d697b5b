----------------------------- MODULE OrderApplier -----------------------------
(***************************************************************************)
(* OrderStateApplier (engines/execution/applier.py) on the versioned order *)
(* row of the execution store (engines/execution/persistence.py).          *)
(*                                                                         *)
(* One order_intent_id is modelled: every method takes exactly one, and    *)
(* rows do not interact.  The store is shared by several processes (the    *)
(* live supervisor draining events, the reconcile-once command, the API),  *)
(* the Writers.  A method call is NOT atomic: it reads the row, decides,   *)
(* re-reads it in _apply or _update_fields, and writes with a compare-     *)
(* and-set on the version, at most MaxAttempts times.  Each store access   *)
(* is one step here, so calls of different writers interleave.             *)
(*                                                                         *)
(* Abstracted: prices, commission, timestamps, notes and venue order ids.  *)
(***************************************************************************)
EXTENDS Integers, Sequences, OrderStates

CONSTANTS
    Writers,       \* processes holding an OrderStateApplier on the store
    FillEvents,    \* fingerprints of the fill events the venue emits
    QtyOf,         \* incremental quantity of each fill event
    Quantity,      \* requested_quantity of the order, in lots
    HealQty,       \* quantities the reconciler may infer from a position
    MaxProcessed,  \* max_processed_event_ids
    MaxAttempts,   \* the 4 of range(4) in _apply and _update_fields
    MaxVersion     \* bound: healing calls start only below this version

ASSUME ApplierAssumption ==
    /\ Quantity \in Nat \ {0}
    /\ QtyOf \in [FillEvents -> 1 .. Quantity]
    /\ HealQty \subseteq 1 .. Quantity
    /\ MaxProcessed \in Nat \ {0}
    /\ MaxAttempts \in Nat \ {0}
    /\ MaxVersion \in Nat
    /\ FillEvents \cap {"ack", "cancel", "reject", "no_event"} = {}

VARIABLES
    order,    \* the persisted row
    call,     \* the method call each writer is executing
    outcome   \* how the last completed call ended, and for which event

applierVars == <<order, call, outcome>>

NoEvent == "no_event"
NoFill == -1
KeepState == "KEEP"

\* Acknowledgements, cancels and rejects carry fingerprints too.
Event == FillEvents \cup {"ack", "cancel", "reject"}

Record == [state : OrderState \cup {"NONE"}, filled : Nat, remaining : Nat,
           version : Nat, processed : Seq(Event)]

NoRecord == [state |-> "NONE", filled |-> 0, remaining |-> 0, version |-> 0,
             processed |-> <<>>]

\* A version-1 record, as record_candidate and record_order_intent build it.
NewRecord(state) == [state |-> state, filled |-> 0, remaining |-> Quantity,
                     version |-> 1, processed |-> <<>>]

\* The arguments of _apply: target, event_id, the filled_quantity update if
\* any, and whether heal_fill follows up with _update_fields.  Target KeepState is a call of _update_fields.
Request == [target : OrderState \cup {KeepState}, event : Event \cup {NoEvent},
            fill : Nat \cup {NoFill}, note : BOOLEAN]

Req(target, event) == [target |-> target, event |-> event, fill |-> NoFill,
                       note |-> FALSE]

Outcome == [result : {"ok", "noop", "duplicate", "invalid", "stale", "divergence"},
            event : Event \cup {NoEvent}]

Idle == [pc |-> "idle", req |-> Req(KeepState, NoEvent), read |-> NoRecord, tries |-> 0]

Call == [pc : {"idle", "insert", "read", "write"}, req : Request,
         read : Record, tries : Nat]

TypeOK == /\ order \in Record
          /\ call \in [Writers -> Call]
          /\ outcome \in Outcome

Init == /\ order = NoRecord
        /\ call = [w \in Writers |-> Idle]
        /\ outcome = [result |-> "ok", event |-> NoEvent]
-----------------------------------------------------------------------------
(* Helpers of the applier.                                                 *)

Ids(s) == {s[i] : i \in 1 .. Len(s)}

MutNeverProcessed(r, event) == FALSE

AlreadyProcessed(r, event) == event \in Ids(r.processed)


stamp_event(processed, event) ==
    LET all == Append(processed, event)
    IN  IF Len(all) <= MaxProcessed THEN all
        ELSE SubSeq(all, Len(all) - MaxProcessed + 1, Len(all))

MutSubtractCumulative(r, q) ==
    [state |-> IF q.target = KeepState THEN r.state ELSE q.target,
     filled |-> IF q.fill = NoFill THEN r.filled ELSE q.fill,
     remaining |-> IF q.fill = NoFill THEN r.remaining ELSE r.remaining - q.fill,
     version |-> r.version + 1,
     processed |-> IF q.event = NoEvent THEN r.processed
                   ELSE stamp_event(r.processed, q.event)]

MutVersionKept(r, q) ==
    [MutSubtractCumulative(r, q) EXCEPT
        !.version = r.version,
        !.remaining = IF q.fill = NoFill THEN r.remaining ELSE Quantity - q.fill]

\* The row a request writes over the row r it re-read.
transition(r, q) ==
    [state     |-> IF q.target = KeepState THEN r.state ELSE q.target,
     filled    |-> IF q.fill = NoFill THEN r.filled ELSE q.fill,
     remaining |-> IF q.fill = NoFill THEN r.remaining ELSE Quantity - q.fill,
     version   |-> r.version + 1,
     processed |-> IF q.event = NoEvent THEN r.processed
                   ELSE stamp_event(r.processed, q.event)]

MutAnyTransition(r, q) == TRUE

Legal(r, q) ==
    q.target = KeepState \/ is_valid_order_transition(r.state, q.target)

\* A fill that overtook the acknowledgement.
FillBeforeAck(r, q) ==
    q.target \in {"PARTIALLY_FILLED", "FILLED"} /\ r.state = "SUBMITTED"

Start(w, q) == /\ call' = [call EXCEPT ![w] = [Idle EXCEPT !.pc = "read", !.req = q]]
               /\ UNCHANGED <<order, outcome>>

Return(w, result, event) ==
    /\ call' = [call EXCEPT ![w] = Idle]
    /\ outcome' = [result |-> result, event |-> event]
    /\ UNCHANGED order

\* update_order: the compare-and-set of the store succeeds.
update_order(expected) == order.state # "NONE" /\ order.version = expected
-----------------------------------------------------------------------------
(* Upstream stages and the write-before-send contract.                     *)

record_candidate(w) ==
    /\ call[w].pc = "idle"
    /\ \/ /\ order.state = "NONE"
          /\ order' = NewRecord("CANDIDATE")
          /\ outcome' = [result |-> "ok", event |-> NoEvent]
          /\ UNCHANGED call
       \/ /\ order.state # "NONE"                 \* save_order: row exists
          /\ Return(w, "stale", NoEvent)

\* Methods that call _apply directly.
PlainTargets == {"RISK_REJECTED", "APPROVED", "CLOSED", "REVIEWED"}

record_plain(w) ==
    /\ call[w].pc = "idle"
    /\ order.state # "NONE"
    /\ \E target \in PlainTargets : Start(w, Req(target, NoEvent))

record_order_intent(w) ==
    /\ call[w].pc = "idle"
    /\ CASE order.state = "NONE" ->
                /\ call' = [call EXCEPT ![w] = [Idle EXCEPT !.pc = "insert"]]
                /\ UNCHANGED <<order, outcome>>
         [] order.state = "ORDER_INTENT" -> Return(w, "noop", NoEvent)
         [] OTHER -> Start(w, Req("ORDER_INTENT", NoEvent))

\* save_order, after the read found no row: it fails if one appeared since.
save_order(w) ==
    /\ call[w].pc = "insert"
    /\ \/ /\ order.state = "NONE"
          /\ order' = NewRecord("ORDER_INTENT")
          /\ call' = [call EXCEPT ![w] = Idle]
          /\ outcome' = [result |-> "ok", event |-> NoEvent]
       \/ /\ order.state # "NONE"
          /\ Return(w, "stale", NoEvent)

record_submitted(w) ==
    /\ call[w].pc = "idle"
    /\ order.state # "NONE"
    /\ IF order.state = "SUBMITTED" THEN Return(w, "noop", NoEvent)
       ELSE Start(w, Req("SUBMITTED", NoEvent))
-----------------------------------------------------------------------------
(* Venue events.  The venue knows the order only after SUBMITTED was       *)
(* persisted; any writer may be handed any event, any number of times.     *)

AtVenue == order.state \notin PreSubmitStates

record_acknowledged(w) ==
    /\ call[w].pc = "idle"
    /\ AtVenue
    /\ IF order.state # "SUBMITTED" THEN Return(w, "noop", "ack")
       ELSE Start(w, Req("ACKNOWLEDGED", "ack"))

record_cancelled(w) ==
    /\ call[w].pc = "idle"
    /\ AtVenue
    /\ IF order.state \in VENUE_TERMINAL_STATES \cup SettledStates
       THEN Return(w, "noop", "cancel")
       ELSE Start(w, Req("CANCELLED", "cancel"))

record_rejected(w) ==
    /\ call[w].pc = "idle"
    /\ AtVenue
    /\ IF order.state \in VENUE_TERMINAL_STATES \cup SettledStates
       THEN Return(w, "noop", "reject")
       ELSE Start(w, Req("REJECTED", "reject"))

MutFillCompletes(w, event, qty, healing) ==
    IF AlreadyProcessed(order, event) \/ order.filled + qty > Quantity
    THEN Return(w, "duplicate", event)
    ELSE Start(w, [target |-> "FILLED", event |-> event,
                   fill |-> order.filled + qty, note |-> healing])

\* The cumulative quantity is computed from this read; _apply re-reads the row
\* but writes these updates.
record_fill_of(w, event, qty, healing) ==
    LET cumulative == order.filled + qty
    IN  IF order.state \in {"CANCELLED", "REJECTED"} \cup SettledStates
        THEN Return(w, "divergence", event)
        ELSE IF event # NoEvent /\ AlreadyProcessed(order, event)
        THEN Return(w, "duplicate", event)
        ELSE IF cumulative > Quantity
        THEN Return(w, "divergence", event)
        ELSE Start(w, [target |-> IF cumulative = Quantity THEN "FILLED"
                                  ELSE "PARTIALLY_FILLED",
                       event |-> event, fill |-> cumulative, note |-> healing])

record_fill(w) ==
    /\ call[w].pc = "idle"
    /\ AtVenue
    /\ \E e \in FillEvents : record_fill_of(w, e, QtyOf[e], FALSE)
-----------------------------------------------------------------------------
(* Healing calls of the reconciler.                                        *)

heal_acknowledged(w) ==
    /\ call[w].pc = "idle"
    /\ order.state # "NONE"
    /\ IF order.state = "SUBMITTED" THEN Start(w, Req("ACKNOWLEDGED", NoEvent))
       ELSE Return(w, "noop", NoEvent)

heal_fill(w) ==
    /\ call[w].pc = "idle"
    /\ AtVenue /\ order.version < MaxVersion
    /\ \E qty \in HealQty : record_fill_of(w, NoEvent, qty, TRUE)

adopt_position(w) ==
    /\ call[w].pc = "idle"
    /\ order.state = "FILLED" /\ order.version < MaxVersion
    /\ Start(w, Req(KeepState, NoEvent))

mark_reconciled(w) ==
    /\ call[w].pc = "idle"
    /\ order.state # "NONE"
    /\ IF order.state \in SettledStates THEN Return(w, "noop", NoEvent)
       ELSE IF order.state \in LIVE_ORDER_STATES THEN Return(w, "invalid", NoEvent)
       ELSE Start(w, Req("RECONCILED", NoEvent))
-----------------------------------------------------------------------------
(* _apply and _update_fields: re-read, then compare-and-set, then retry.   *)

\* The end of one attempt of the retry loop.
Retry(w) ==
    LET tries == call[w].tries + 1
    IN  IF tries < MaxAttempts
        THEN /\ call' = [call EXCEPT ![w].pc = "read", ![w].tries = tries]
             /\ UNCHANGED outcome
        ELSE /\ call' = [call EXCEPT ![w] = Idle]
             /\ outcome' = [result |-> "stale", event |-> call[w].req.event]

apply_read(w) ==
    LET q == call[w].req
    IN  /\ call[w].pc = "read"
        /\ IF q.event # NoEvent /\ AlreadyProcessed(order, q.event)
           THEN Return(w, "duplicate", q.event)
           ELSE IF ~ Legal(order, q) /\ ~ FillBeforeAck(order, q)
           THEN Return(w, "invalid", q.event)
           ELSE /\ call' = [call EXCEPT ![w].pc = "write", ![w].read = order]
                /\ UNCHANGED <<order, outcome>>

\* The write of the requested row, and heal_fill's follow-up _update_fields.
apply_write(w) ==
    LET c == call[w]
    IN  /\ c.pc = "write"
        /\ Legal(c.read, c.req)
        /\ IF update_order(c.read.version)
           THEN /\ order' = transition(c.read, c.req)
                /\ call' = [call EXCEPT ![w] =
                              IF c.req.note
                              THEN [Idle EXCEPT !.pc = "read"]
                              ELSE Idle]
                /\ outcome' = [result |-> "ok", event |-> c.req.event]
           ELSE Retry(w) /\ UNCHANGED order

\* The synthesized acknowledgement, after which the loop re-evaluates.
apply_synthesize_ack(w) ==
    LET c == call[w]
    IN  /\ c.pc = "write"
        /\ ~ Legal(c.read, c.req)
        /\ IF update_order(c.read.version)
           THEN order' = transition(c.read, Req("ACKNOWLEDGED", NoEvent))
           ELSE UNCHANGED order
        /\ Retry(w)

Upstream(w) == \/ record_candidate(w) \/ record_plain(w) \/ record_order_intent(w)
               \/ save_order(w) \/ record_submitted(w)

VenueEvent(w) == \/ record_acknowledged(w) \/ record_cancelled(w)
                 \/ record_rejected(w) \/ record_fill(w)

Healing(w) == \/ heal_acknowledged(w) \/ heal_fill(w)
              \/ adopt_position(w) \/ mark_reconciled(w)

Loop(w) == apply_read(w) \/ apply_write(w) \/ apply_synthesize_ack(w)

Next == \E w \in Writers : Upstream(w) \/ VenueEvent(w) \/ Healing(w) \/ Loop(w)

Spec == Init /\ [][Next]_applierVars
-----------------------------------------------------------------------------
(* Properties.                                                             *)

\* The row agrees with itself: quantities add up and the state says exactly
\* how much is filled.  It is stronger than OrderRecord._check_shape, which
\* validates every row read back from PostgreSQL.
RowConsistent(r) ==
    /\ r.filled + r.remaining = Quantity
    /\ r.state \in PreSubmitStates \cup {"SUBMITTED", "ACKNOWLEDGED"} => r.filled = 0
    /\ r.state = "PARTIALLY_FILLED" => r.filled \in 1 .. Quantity - 1
    /\ r.state = "FILLED" => r.filled = Quantity
    /\ r.state \in {"CANCELLED", "REJECTED"} => r.filled < Quantity

\* Whatever the writers interleave, the persisted row is always consistent:
\* a live order never has a zero remainder, FILLED never has a positive one
\* (the updates of _record_fill keep state and quantities together even when
\* _apply writes them over a row that has moved on).
PersistedRowConsistent ==
    IF order.state = "NONE" THEN order = NoRecord ELSE RowConsistent(order)

\* The arguments _apply was called with: a filled_quantity update comes with
\* the fill target that matches it, and no other target changes quantities.
RequestConsistent(q) ==
    IF q.fill = NoFill THEN q.target \notin {"PARTIALLY_FILLED", "FILLED"}
    ELSE /\ q.fill \in 1 .. Quantity
         /\ q.target = IF q.fill = Quantity THEN "FILLED" ELSE "PARTIALLY_FILLED"

\* A call about to write holds a copy of the row it read: older than the row,
\* or the row itself if the version has not moved.
ReadCurrent(c) ==
    /\ c.pc \in {"read", "write"} => order.state # "NONE"
    /\ c.pc = "write" => /\ c.read.version <= order.version
                         /\ c.read.version = order.version => c.read = order
                         /\ Legal(c.read, c.req) \/ FillBeforeAck(c.read, c.req)

\* The inductive invariant: what makes a compare-and-set that succeeds write
\* a legal successor of the row it replaces, whichever writers ran in between.
ApplierInv == /\ PersistedRowConsistent
              /\ \A w \in Writers : RequestConsistent(call[w].req) /\ ReadCurrent(call[w])

Lifecycle == INSTANCE OrderLifecycle WITH state <- order.state, filled <- order.filled

\* The applier implements the order lifecycle: with every read, decision and
\* write of every writer interleaved, the persisted row only ever moves along
\* ORDER_STATE_TRANSITIONS and fills only on fill transitions.
ImplementsLifecycle == Lifecycle!LifecycleSpec

=============================================================================
