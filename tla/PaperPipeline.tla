---------------------------- MODULE PaperPipeline ----------------------------
(***************************************************************************)
(* The autonomous PAPER pipeline (apps/worker): the scheduler and one      *)
(* thread per stage, joined by a Redis stream that delivers at least once, *)
(* with the run ledger, the lifecycles, the orders, the positions and the  *)
(* account in PostgreSQL.                                                  *)
(*                                                                         *)
(* All threads live in one process, which may die between any two steps;   *)
(* a restart rebuilds the ledger from the persisted positions.  A stage    *)
(* may also fail with an exception, and its message stays in the pending   *)
(* entries list (PEL) of its group until it is reclaimed or dead-lettered. *)
(*                                                                         *)
(* One instrument.  A trace is an ingest cycle (1 .. MaxCycles) or an exit *)
(* the positions stage opened (the numbers after).  Quantities are in the  *)
(* size of one entry.  A group only sees the events its stage consumes:    *)
(* the others are acknowledged unread, and events no stage consumes are    *)
(* left out.  The states of an order before SUBMITTED are one state (no    *)
(* reader tells them apart), and the paper venue answers with one full     *)
(* fill or a rejection.  Abstracted: prices, context fragments, the        *)
(* reviews' content, audit.                                                *)
(***************************************************************************)
EXTENDS Integers, Sequences, FiniteSets, SequencesExt

CONSTANTS
    MaxCycles,      \* bound on the ingest cycles
    MaxExits,       \* bound on the exits the positions stage opens
    Signals,        \* fused directions, out of LONG, SHORT and FLAT
    MaxDecisions,   \* bound on the different risk decisions for one trace
    MaxDeliveries,  \* bus.max_deliveries
    MaxCrashes,     \* bound on the crashes of the worker process
    MaxFailures,    \* bound on the exceptions of a store or of the venue
    Failing,        \* stages in which those exceptions may happen
    MaxUnrecorded   \* bound on the threads that have done all but record SUCCEEDED

Traces == 1 .. MaxCycles + MaxExits
Exits == MaxCycles + 1 .. MaxCycles + MaxExits

\* An order intent is named after the risk decision it executes: the trace and
\* the number of the decision.
Intents == Traces \X (1 .. MaxDecisions)

ASSUME PipelineAssumption ==
    /\ MaxCycles \in Nat /\ MaxExits \in Nat
    /\ Signals \subseteq {"LONG", "SHORT", "FLAT"}
    /\ MaxDecisions \in Nat /\ MaxDeliveries \in Nat /\ MaxCrashes \in Nat /\ MaxFailures \in Nat
    /\ MaxUnrecorded \in Nat

VARIABLES
    lifecycle,  \* trade_lifecycles: state, direction, position_id
    runs,       \* pipeline_runs that SUCCEEDED
    orders,     \* execution_orders: state, side, quantity
    position,   \* the net position, persisted and in the ledger
    account,    \* how often the outcome of each closing order was added to the balance
    reviews,    \* closing orders whose outcome has a stored review
    queue,      \* what each group has still to read from the stream
    pel,        \* what each group has read and not acknowledged
    dead,       \* the dead-letter streams
    batch,      \* messages each thread has yet to handle, the current one first
    hand,       \* what each thread is doing
    snap,       \* the process holds a market snapshot
    published,  \* every message ever added to the stream
    venue,      \* how often each order reached the paper venue
    crashes,
    failures

store == <<lifecycle, orders, position, account, reviews>>
bus == <<queue, pel, dead, published>>
bounds == <<crashes, failures>>
pipelineVars == <<store, runs, bus, batch, hand, snap, venue, bounds>>

Groups == {"RESEARCH", "FUSION", "PROPOSAL", "RISK", "ORDER_INTENT", "EXECUTION",
           "POSITIONS", "ACCOUNTING", "POSTTRADE"}
Threads == Groups \cup {"SCHEDULER"}

Consumes(g) ==
    CASE g = "RESEARCH"     -> {"research.requested"}
      [] g = "FUSION"       -> {"research.bundle.created"}
      [] g = "PROPOSAL"     -> {"signal.fused"}
      [] g = "RISK"         -> {"trade.proposal.created"}
      [] g = "ORDER_INTENT" -> {"risk.approved"}
      [] g = "EXECUTION"    -> {"order.intent.created"}
      [] g = "POSITIONS"    -> {"market.snapshot.created"}
      [] g = "ACCOUNTING"   -> {"trade.closed", "position.updated"}
      [] g = "POSTTRADE"    -> {"trade.closed"}

Side == {"LONG", "SHORT"}
NoIntent == <<>>

NoPosition == [quantity |-> 0, side |-> "LONG", id |-> NoIntent, intents |-> {},
               last |-> NoIntent, levels |-> FALSE]
NoOrder == [state |-> "NONE", side |-> "LONG", quantity |-> 0]
NoLifecycle == [state |-> "NONE", direction |-> "LONG", position |-> NoIntent]
Idle == [step |-> "idle"]

Message(e, t, b) == [event |-> e, trace |-> t, body |-> b]

L == INSTANCE TradeLifecycle WITH state <- [t \in Traces |-> lifecycle[t].state]

OrderState == {"NONE", "ORDER_INTENT", "SUBMITTED", "FILLED", "REJECTED", "CLOSED",
               "REVIEWED"}

TypeOK ==
    /\ lifecycle \in [Traces -> [state : L!TradeLifecycleState \cup {"NONE"},
                                 direction : Side, position : Intents \cup {NoIntent}]]
    /\ runs \subseteq Traces \X Groups
    /\ orders \in [Intents -> [state : OrderState, side : Side, quantity : Nat]]
    /\ position \in [quantity : Nat, side : Side, id : Intents \cup {NoIntent},
                     intents : SUBSET Intents, last : Intents \cup {NoIntent},
                     levels : BOOLEAN]
    /\ account \in [Intents -> Nat]
    /\ reviews \subseteq Intents
    /\ \A g \in Groups :
          /\ \A i \in DOMAIN queue[g] : queue[g][i].event \in Consumes(g)
          /\ \A i \in DOMAIN pel[g] : pel[g][i].message.event \in Consumes(g)
          /\ hand[g] # Idle => batch[g] # <<>>
    /\ snap \in BOOLEAN
    /\ venue \in [Intents -> Nat]

Init ==
    /\ lifecycle = [t \in Traces |-> NoLifecycle]
    /\ runs = {}
    /\ orders = [i \in Intents |-> NoOrder]
    /\ position = NoPosition
    /\ account = [i \in Intents |-> 0]
    /\ reviews = {}
    /\ queue = [g \in Groups |-> <<>>] /\ pel = [g \in Groups |-> <<>>]
    /\ dead = {} /\ published = {}
    /\ batch = [g \in Groups |-> <<>>]
    /\ hand = [g \in Threads |-> Idle]
    /\ snap = FALSE
    /\ venue = [i \in Intents |-> 0]
    /\ crashes = 0 /\ failures = 0
-----------------------------------------------------------------------------
(* Stream, consumer groups and run ledger.                                 *)

\* Append to the stream: every group that consumes the event will read it.
publish(m) ==
    /\ queue' = [g \in Groups |-> IF m.event \in Consumes(g) THEN Append(queue[g], m)
                                  ELSE queue[g]]
    /\ published' = published \cup {m}

has_succeeded(t, g) == <<t, g>> \in runs

\* The message a thread works on.
Received(g) == Head(batch[g])
At(g, step) == hand[g].step = step

\* The process may still die, or the store fail the thread.
StoreMayFail(g) == g \in Failing /\ failures < MaxFailures
Interruptible(g) == crashes < MaxCrashes \/ StoreMayFail(g)

\* The thread goes on at step, with the events process returned so far.
Goto(g, step, out) ==
    /\ hand' = [hand EXCEPT ![g] = [step |-> step, out |-> out]]
    /\ UNCHANGED runs

\* process raised: the run is FAILED and the message stays unacknowledged.
raise(g) == hand' = [hand EXCEPT ![g] = Idle] /\ UNCHANGED runs

\* The end of Stage.handle, SUCCEEDED.
succeed(g, t) == hand' = [hand EXCEPT ![g] = Idle] /\ runs' = runs \cup {<<t, g>>}

Unrecorded == {g \in Groups : At(g, "publish") /\ hand[g].out = <<>>}

\* process returned: Stage.handle publishes out and then records SUCCEEDED.  Only
\* the thread itself sees that last write: it is joined to the step before, or
\* else it is a step of its own that a crash or an exception may precede.
Return(g, t, out) ==
    \/ out # <<>> /\ Goto(g, "publish", out)
    \/ out = <<>> /\ succeed(g, t)
    \/ /\ out = <<>> /\ Interruptible(g) /\ Cardinality(Unrecorded) < MaxUnrecorded
       /\ Goto(g, "publish", out)

\* The PEL p without the entry of m.
Acked(p, m) == RemoveAt(p, SelectInSeq(p, LAMBDA e : e.message = m))

MutSettleBatch(g, b, p) ==
    /\ pel' = [pel EXCEPT ![g] = IF <<Head(b).trace, g>> \in runs' THEN Acked(p, Head(b)) ELSE p]
    /\ batch' = [batch EXCEPT ![g] = Tail(b)]

MutSettle(g, b, p) ==
    /\ pel' = [pel EXCEPT ![g] = IF hand'[g] = Idle THEN Acked(p, Head(b)) ELSE p]
    /\ batch' = [batch EXCEPT ![g] = IF hand'[g] = Idle THEN Tail(b) ELSE b]

\* handle_message after the stage: the first message of the batch b is
\* acknowledged in the PEL p if the stage has succeeded, and a thread that is
\* done with it, one way or the other, goes on with the rest.
Settle(g, b, p) ==
    /\ pel' = [pel EXCEPT ![g] = IF <<Head(b).trace, g>> \in runs' THEN Acked(p, Head(b)) ELSE p]
    /\ batch' = [batch EXCEPT ![g] = IF hand'[g] = Idle THEN Tail(b) ELSE b]

PublishOutput(g) ==
    /\ At(g, "publish") /\ hand[g].out # <<>>
    /\ publish(Head(hand[g].out))
    /\ Return(g, Received(g).trace, Tail(hand[g].out))
    /\ Settle(g, batch[g], pel[g])
    /\ UNCHANGED <<store, dead, snap, venue, bounds>>

Succeed(g) ==
    /\ At(g, "publish") /\ hand[g].out = <<>>
    /\ succeed(g, Received(g).trace)
    /\ Settle(g, batch[g], pel[g])
    /\ UNCHANGED <<store, queue, dead, published, snap, venue, bounds>>

\* A query or write of the store raises: PostgreSQL stayed away for all attempts
\* of _retry.  (Publishing is retried forever.)
StoreFails(g) == StoreMayFail(g) /\ raise(g) /\ failures' = failures + 1

Fail(g) ==
    /\ hand[g] # Idle /\ (At(g, "publish") => hand[g].out = <<>>)
    /\ StoreFails(g)
    /\ Settle(g, batch[g], pel[g])
    /\ UNCHANGED <<store, queue, dead, published, snap, venue, crashes>>
-----------------------------------------------------------------------------
(* Research to order intent: what the stages do with a message m, up to    *)
(* the first write another thread or a restart can see.                    *)

MutCanMove(t, s) == lifecycle[t].state # "NONE"

\* transition: to the same state it is a no-op, elsewhere the canonical
\* machine decides, and an invalid move raises.
CanMove(t, s) ==
    s = lifecycle[t].state \/ s \in L!TRADE_LIFECYCLE_TRANSITIONS[lifecycle[t].state]

Move(t, s) == lifecycle' = [lifecycle EXCEPT ![t].state = s]

\* Advance the trace and pass the decision on.
Advance(g, t, s, out) ==
    IF CanMove(t, s) THEN Move(t, s) /\ Return(g, t, out)
    ELSE raise(g) /\ UNCHANGED lifecycle

\* IngestOrchestrator.start_cycle, its two events then published by the
\* scheduler's loop.
start_cycle(t) ==
    /\ At("SCHEDULER", "idle")
    /\ t \in 1 .. MaxCycles /\ lifecycle[t].state = "NONE"
    /\ \A u \in 1 .. t - 1 : lifecycle[u].state # "NONE"
    /\ Move(t, "RESEARCHING")
    /\ snap' = TRUE
    /\ Goto("SCHEDULER", "publish",
            <<Message("market.snapshot.created", t, [side |-> "FLAT"]),
              Message("research.requested", t, [side |-> "FLAT"])>>)
    /\ UNCHANGED <<orders, position, account, reviews, bus, batch, venue, bounds>>

\* The scheduler publishes both before it goes on.
publish_cycle ==
    /\ At("SCHEDULER", "publish")
    /\ LET out == hand["SCHEDULER"].out IN
       /\ publish(Head(out))
       /\ IF Len(out) = 1 THEN raise("SCHEDULER") ELSE Goto("SCHEDULER", "publish", Tail(out))
    /\ UNCHANGED <<store, pel, dead, batch, snap, venue, bounds>>

\* A failed LLM only weakens the bundle, unless it is required: then there is
\* none.  The direction the fusion engine will compute is settled here.
research(m) ==
    /\ \/ \E d \in Signals :
             Return("RESEARCH", m.trace,
                    <<Message("research.bundle.created", m.trace, [side |-> d])>>)
       \/ Return("RESEARCH", m.trace, <<>>)
    /\ snap' = TRUE
    /\ UNCHANGED store

fusion(m) ==
    /\ Advance("FUSION", m.trace, "SIGNAL_FUSED",
               IF m.body.side = "FLAT" THEN <<>>
               ELSE <<Message("signal.fused", m.trace, m.body)>>)
    /\ UNCHANGED <<orders, position, account, reviews, snap>>

\* An entry of one unit.  Without a snapshot _build raises.
proposal(m) ==
    /\ LET t == m.trace
           out == <<Message("trade.proposal.created", t,
                            [side |-> m.body.side, quantity |-> 1])>>
       IN CASE m.body.side = "FLAT" -> Return("PROPOSAL", t, <<>>) /\ UNCHANGED lifecycle
            [] m.body.side # "FLAT" /\ ~ snap -> raise("PROPOSAL") /\ UNCHANGED lifecycle
            [] m.body.side # "FLAT" /\ snap /\ lifecycle[t].state = "SIGNAL_FUSED" ->
                 /\ lifecycle' = [lifecycle EXCEPT ![t].state = "PROPOSED",
                                                   ![t].direction = m.body.side]
                 /\ Return("PROPOSAL", t, out)
            [] OTHER -> Advance("PROPOSAL", t, "PROPOSED", out)
    /\ UNCHANGED <<orders, position, account, reviews, snap>>

\* What risk has decided for a trace, as far as anyone has seen.
Decisions(t) == {m \in published : m.event = "risk.approved" /\ m.trace = t}

\* The Risk Engine approves all or part of the quantity, or rejects; without a
\* snapshot it always rejects.  Decided again on the same inputs it is the same
\* decision, on others a new one.
risk(m) ==
    /\ LET t == m.trace
           approve(d) == Advance("RISK", t, "RISK_APPROVED", <<d>>)
           n == Cardinality(Decisions(t)) + 1
       IN \/ Advance("RISK", t, "RISK_REJECTED", <<>>)
          \/ \E d \in Decisions(t) : approve(d)
          \/ /\ snap /\ n <= MaxDecisions
             /\ \E q \in 1 .. m.body.quantity :
                   approve(Message("risk.approved", t, [intent |-> <<t, n>>, quantity |-> q]))
    /\ UNCHANGED <<orders, position, account, reviews, snap>>

MinOf(a, b) == IF a <= b THEN a ELSE b

IsClose(side) == position.quantity > 0 /\ position.side # side

\* record_candidate, record_approved and record_order_intent, unless the order
\* exists: then the redelivery is taken for done.
order_intent(m) ==
    /\ LET side == lifecycle[m.trace].direction
           units == IF IsClose(side) THEN MinOf(m.body.quantity, position.quantity)
                    ELSE m.body.quantity
       IN IF orders[m.body.intent].state # "NONE"
          THEN Return("ORDER_INTENT", m.trace, <<>>) /\ UNCHANGED orders
          ELSE /\ orders' = [orders EXCEPT ![m.body.intent] =
                                [state |-> "ORDER_INTENT", side |-> side,
                                 quantity |-> units]]
               /\ Goto("ORDER_INTENT", "created", <<>>)
    /\ UNCHANGED <<lifecycle, position, account, reviews, snap>>

order_created ==
    /\ At("ORDER_INTENT", "created")
    /\ LET m == Received("ORDER_INTENT") IN
       Advance("ORDER_INTENT", m.trace, "ORDER_CREATED",
               <<Message("order.intent.created", m.trace, [intent |-> m.body.intent])>>)
    /\ UNCHANGED <<orders, position, account, reviews, snap, venue, bounds>>
-----------------------------------------------------------------------------
(* Execution and ledger.                                                   *)

SetOrder(i, s) == orders' = [orders EXCEPT ![i].state = s]


\* The order record has already left ORDER_INTENT.
AlreadyExecuted(i) == orders[i].state # "ORDER_INTENT"

\* record_submitted, before the snapshot is looked up and the venue is called.
execution(m) ==
    /\ IF AlreadyExecuted(m.body.intent)
       THEN Return("EXECUTION", m.trace, <<>>) /\ UNCHANGED orders
       ELSE /\ SetOrder(m.body.intent, "SUBMITTED")
            /\ IF snap THEN Goto("EXECUTION", "submit", <<>>) ELSE raise("EXECUTION")
    /\ UNCHANGED <<lifecycle, position, account, reviews, snap>>

Executing == Received("EXECUTION").body.intent

\* The venue call and its reports: a rejection ends the trace.
submit ==
    /\ At("EXECUTION", "submit")
    /\ venue' = [venue EXCEPT ![Executing] = @ + 1]
    /\ \/ SetOrder(Executing, "FILLED") /\ Goto("EXECUTION", "filled", <<>>)
       \/ SetOrder(Executing, "REJECTED") /\ Goto("EXECUTION", "rejected", <<>>)
    /\ UNCHANGED <<lifecycle, position, account, reviews, snap, bounds>>

order_rejected ==
    /\ At("EXECUTION", "rejected")
    /\ Advance("EXECUTION", Received("EXECUTION").trace, "ORDER_REJECTED", <<>>)
    /\ UNCHANGED <<orders, position, account, reviews, snap, venue, bounds>>

record_closed ==
    /\ At("EXECUTION", "filled")
    /\ SetOrder(Executing, "CLOSED")
    /\ Goto("EXECUTION", "closed", <<>>)
    /\ UNCHANGED <<lifecycle, position, account, reviews, snap, venue, bounds>>

\* What is left of the position after a closing fill.
Remaining(quantity) == position.quantity - quantity

Mutnew_position_id(i) == <<1, 1>>

\* Every opening has an id of its own.
new_position_id(i) == i

MutCloseEvents(closed, updated) == <<updated, closed>>

\* The outcome is published before the position: accounting runs once for the
\* trace, on the first of the two.
CloseEvents(closed, updated) == <<closed, updated>>

\* PaperLedger.apply_fill, and the stop levels of the intent that the stage then
\* attaches to any position that stays open.  A partial close keeps the
\* position's intents and has no outcome.
apply_fill ==
    /\ At("EXECUTION", "closed")
    /\ LET t == Received("EXECUTION").trace
           i == Executing
           order == orders[i]
           updated == Message("position.updated", t, [intent |-> i])
           closed == Message("trade.closed", t,
                             [intent |-> i, position |-> position.id, side |-> position.side,
                              intents |-> position.intents \cup {i}])
       IN IF ~ IsClose(order.side)
          THEN /\ position' = [quantity |-> position.quantity + order.quantity,
                               side |-> order.side,
                               id |-> IF position.quantity = 0 THEN new_position_id(i) ELSE position.id,
                               intents |-> position.intents \cup {i}, last |-> i,
                               levels |-> TRUE]
               /\ Goto("EXECUTION", "opened", <<updated>>)
          ELSE IF Remaining(order.quantity) > 0
          THEN /\ position' = [position EXCEPT !.quantity = Remaining(order.quantity),
                                               !.levels = TRUE]
               /\ Goto("EXECUTION", "opened", <<updated>>)
          ELSE /\ position' = NoPosition
               /\ Goto("EXECUTION", "outcome", CloseEvents(closed, updated))
    /\ UNCHANGED <<lifecycle, orders, account, reviews, snap, venue, bounds>>

\* The lifecycle then follows: POSITION_CLOSED with an outcome, else
\* POSITION_OPEN with the id of the position.
position_closed ==
    /\ At("EXECUTION", "outcome")
    /\ Advance("EXECUTION", Received("EXECUTION").trace, "POSITION_CLOSED",
               hand["EXECUTION"].out)
    /\ UNCHANGED <<orders, position, account, reviews, snap, venue, bounds>>

position_open ==
    /\ At("EXECUTION", "opened")
    /\ lifecycle' = [lifecycle EXCEPT ![Received("EXECUTION").trace] =
                        [@ EXCEPT !.state = "POSITION_OPEN", !.position = position.id]]
    /\ Return("EXECUTION", Received("EXECUTION").trace, hand["EXECUTION"].out)
    /\ UNCHANGED <<orders, position, account, reviews, snap, venue, bounds>>
-----------------------------------------------------------------------------
(* Exits, accounting and the review.                                       *)

OrdersInFlight == \E i \in Intents : orders[i].state \in {"ORDER_INTENT", "SUBMITTED"}

MutCloseChainInFlight == FALSE

CloseChainInFlight ==
    \E t \in Traces : lifecycle[t].state \in {"PROPOSED", "RISK_APPROVED", "ORDER_CREATED"}

First(S) == CHOOSE t \in S : \A u \in S : t <= u

\* _reattach_stop_levels: a position without levels takes those of a lifecycle
\* that is POSITION_OPEN.
Reattached ==
    [position EXCEPT !.levels = @ \/ /\ position.quantity > 0
                                     /\ \E t \in Traces : lifecycle[t].state = "POSITION_OPEN"]

Opposite(side) == IF side = "LONG" THEN "SHORT" ELSE "LONG"

\* A snapshot may cross a level of the position; unless an order is in flight
\* the stage goes on with the position it read.
positions(m) ==
    /\ snap' = TRUE
    /\ position' = Reattached
    /\ \/ Return("POSITIONS", m.trace, <<>>)
       \/ /\ position.quantity > 0 /\ Reattached.levels
          /\ ~ OrdersInFlight
          /\ Goto("POSITIONS", "crossed", <<position>>)
    /\ UNCHANGED <<lifecycle, orders, account, reviews>>

\* A close chain in flight blocks the exit too, in a second query.  The position
\* may have been closed since it was read, with whatever size it had by then.
propose_exit ==
    /\ At("POSITIONS", "crossed")
    /\ LET t == Received("POSITIONS").trace
           p == hand["POSITIONS"].out[1]
           unused == {x \in Exits : lifecycle[x].state = "NONE"}
           x == First(unused)
           sizes == IF position.id = p.id THEN {position.quantity} ELSE 1 .. MaxCycles
       IN IF CloseChainInFlight \/ unused = {}
          THEN Return("POSITIONS", t, <<>>) /\ UNCHANGED lifecycle
          ELSE /\ lifecycle' = [lifecycle EXCEPT ![x] =
                                   [state |-> "PROPOSED", direction |-> Opposite(p.side),
                                    position |-> NoIntent]]
               /\ \E q \in sizes :
                     Return("POSITIONS", t,
                            <<Message("trade.proposal.created", x,
                                      [side |-> Opposite(p.side), quantity |-> q])>>)
    /\ UNCHANGED <<orders, position, account, reviews, snap, venue, bounds>>

\* The outcome is added to the balance; position.updated only refreshes the
\* equity.  One row, one write, before the run is recorded.
accounting(m) ==
    /\ account' = IF m.event = "trade.closed" THEN [account EXCEPT ![m.body.intent] = @ + 1]
                  ELSE account
    /\ Return("ACCOUNTING", m.trace, <<>>)
    /\ UNCHANGED <<lifecycle, orders, position, reviews, snap>>

\* Every order of the trade is closed.
require_reconciled(m) == \A i \in m.body.intents : orders[i].state \in {"CLOSED", "REVIEWED"}

\* If not, the message waits.  A review that exists is not written again.
posttrade(m) ==
    /\ IF require_reconciled(m)
       THEN reviews' = reviews \cup {m.body.intent} /\ Goto("POSTTRADE", "reviewed", <<>>)
       ELSE raise("POSTTRADE") /\ UNCHANGED reviews
    /\ UNCHANGED <<lifecycle, orders, position, account, snap>>

record_reviewed ==
    /\ At("POSTTRADE", "reviewed")
    /\ LET m == Received("POSTTRADE") IN
       orders' = [i \in Intents |-> IF i \in m.body.intents
                                    THEN [orders[i] EXCEPT !.state = "REVIEWED"]
                                    ELSE orders[i]]
    /\ Goto("POSTTRADE", "closing", <<>>)
    /\ UNCHANGED <<lifecycle, position, account, reviews, snap, venue, bounds>>

\* One transition of a transition_chain to REVIEWED.
ChainStep(t) ==
    Move(t, IF lifecycle[t].state = "POSITION_CLOSED" THEN "REVIEWED" ELSE "POSITION_CLOSED")

closing_lifecycle ==
    /\ At("POSTTRADE", "closing")
    /\ LET t == Received("POSTTRADE").trace IN
       IF lifecycle[t].state \in {"ORDER_CREATED", "POSITION_CLOSED"}
       THEN ChainStep(t) /\ UNCHANGED <<hand, runs>>
       ELSE Goto("POSTTRADE", "entry", <<>>) /\ UNCHANGED lifecycle
    /\ UNCHANGED <<orders, position, account, reviews, snap, venue, bounds>>

\* _entry_lifecycle: the oldest lifecycle with the position's id and direction.
EntryOf(m) == {t \in Traces : /\ lifecycle[t].position = m.body.position
                              /\ lifecycle[t].direction = m.body.side}

entry_lifecycle ==
    /\ At("POSTTRADE", "entry")
    /\ LET S == EntryOf(Received("POSTTRADE")) IN
       IF S # {} /\ lifecycle[First(S)].state = "POSITION_OPEN"
       THEN ChainStep(First(S)) /\ Goto("POSTTRADE", "entry_closed", <<>>)
       ELSE Return("POSTTRADE", Received("POSTTRADE").trace, <<>>) /\ UNCHANGED lifecycle
    /\ UNCHANGED <<orders, position, account, reviews, snap, venue, bounds>>

entry_reviewed ==
    /\ At("POSTTRADE", "entry_closed")
    /\ ChainStep(First(EntryOf(Received("POSTTRADE"))))
    /\ Return("POSTTRADE", Received("POSTTRADE").trace, <<>>)
    /\ UNCHANGED <<orders, position, account, reviews, snap, venue, bounds>>
-----------------------------------------------------------------------------
(* The threads.                                                            *)

process(g, m) ==
    CASE g = "RESEARCH"     -> research(m)
      [] g = "FUSION"       -> fusion(m)
      [] g = "PROPOSAL"     -> proposal(m)
      [] g = "RISK"         -> risk(m)
      [] g = "ORDER_INTENT" -> order_intent(m)
      [] g = "EXECUTION"    -> execution(m)
      [] g = "POSITIONS"    -> positions(m)
      [] g = "ACCOUNTING"   -> accounting(m)
      [] g = "POSTTRADE"    -> posttrade(m)

\* handle_message, with b the batch that starts with the message and p the PEL.
\* A stage that has already succeeded for the trace is not run again and the
\* message is acknowledged.
handle(g, b, p) ==
    /\ IF has_succeeded(Head(b).trace, g) THEN UNCHANGED <<hand, runs, store, snap, failures>>
       ELSE \/ process(g, Head(b)) /\ UNCHANGED failures
            \/ StoreFails(g) /\ UNCHANGED <<store, snap>>
    /\ Settle(g, b, p)

handle_message(g) ==
    /\ At(g, "idle") /\ batch[g] # <<>>
    /\ handle(g, batch[g], pel[g])
    /\ UNCHANGED <<queue, dead, published, venue, crashes>>

\* The whole PEL is claimed, and delivered once more.
claim_stale(r) ==
    [r EXCEPT !.batch = @ \o [i \in DOMAIN r.pel |-> r.pel[i].message],
              !.pel = [i \in DOMAIN @ |-> [@[i] EXCEPT !.deliveries = @ + 1]]]

Mutdead_letter(r, g, m) == [r EXCEPT !.dead = @ \cup {<<g, m>>}]

dead_letter(r, g, m) ==
    [r EXCEPT !.dead = @ \cup {<<g, m>>}, !.pel = Acked(@, m)]

\* recover goes through the PEL as it was at the start: an entry delivered too
\* often is dead-lettered, and any other has the PEL claimed.
recover(g) ==
    FoldLeft(LAMBDA r, entry : IF entry.deliveries > MaxDeliveries
                               THEN dead_letter(r, g, entry.message)
                               ELSE claim_stale(r),
             [pel |-> pel[g], batch |-> <<>>, dead |-> dead], pel[g])

\* run_iteration: recover, read all that is new, and start on the first message.
run_iteration(g) ==
    /\ At(g, "idle") /\ batch[g] = <<>>
    /\ queue[g] # <<>> \/ pel[g] # <<>>
    /\ LET r == recover(g)
           b == r.batch \o queue[g]
           p == r.pel \o [i \in DOMAIN queue[g] |-> [message |-> queue[g][i], deliveries |-> 1]]
       IN /\ dead' = r.dead
          /\ IF b # <<>> THEN handle(g, b, p)
             ELSE /\ pel' = [pel EXCEPT ![g] = p]
                  /\ UNCHANGED <<hand, batch, runs, store, snap, failures>>
    /\ queue' = [queue EXCEPT ![g] = <<>>]
    /\ UNCHANGED <<published, venue, crashes>>

\* The later writes of a stage, each a step of its own.
Resume(g) ==
    /\ \/ g = "ORDER_INTENT" /\ order_created
       \/ g = "EXECUTION" /\ (submit \/ order_rejected \/ record_closed \/ apply_fill
                                \/ position_closed \/ position_open)
       \/ g = "POSITIONS" /\ propose_exit
       \/ g = "POSTTRADE" /\ (record_reviewed \/ closing_lifecycle \/ entry_lifecycle
                                \/ entry_reviewed)
    /\ Settle(g, batch[g], pel[g])
    /\ UNCHANGED <<queue, dead, published>>

\* The process dies and starts again: rebuild_ledger finds the open position,
\* but only the last of its intents and none of its levels.
Crash ==
    /\ crashes < MaxCrashes
    /\ hand' = [g \in Threads |-> Idle] /\ batch' = [g \in Groups |-> <<>>]
    /\ snap' = FALSE
    /\ position' = IF position.quantity = 0 THEN position
                   ELSE [position EXCEPT !.intents = {position.last}, !.levels = FALSE]
    /\ crashes' = crashes + 1
    /\ UNCHANGED <<lifecycle, runs, orders, account, reviews, bus, venue, failures>>

Worker(g) ==
    \/ run_iteration(g)
    \/ handle_message(g)
    \/ Resume(g)
    \/ PublishOutput(g)
    \/ Succeed(g)

Scheduler ==
    \/ \E t \in Traces : start_cycle(t)
    \/ publish_cycle

Next ==
    \/ \E g \in Groups : Worker(g) \/ Fail(g)
    \/ Scheduler
    \/ Crash

Spec == Init /\ [][Next]_pipelineVars

\* Each thread keeps looping; nothing else is guaranteed to happen.
FairSpec == Spec /\ \A g \in Groups : WF_pipelineVars(Worker(g))
-----------------------------------------------------------------------------
(* Properties.                                                             *)


\* A published message is never silently dropped: until its stage has succeeded
\* for the trace, each consuming group has still to read it, holds it in its
\* PEL, or has dead-lettered it (StageWorker.handle_message and recover).
NeverDropped ==
    \A m \in published, g \in Groups :
        m.event \in Consumes(g) =>
            \/ has_succeeded(m.trace, g)
            \/ <<g, m>> \in dead
            \/ \E i \in DOMAIN queue[g] : queue[g][i] = m
            \/ \E i \in DOMAIN pel[g] : pel[g][i].message = m

\* Double-close protection: two exits of the positions stage are never on
\* their way to the venue together (PositionsStage._close_in_flight).
ExitsExclusive ==
    \A x, y \in Exits :
        /\ lifecycle[x].state \in {"PROPOSED", "RISK_APPROVED", "ORDER_CREATED"}
        /\ lifecycle[y].state \in {"PROPOSED", "RISK_APPROVED", "ORDER_CREATED"}
        => x = y

\* A trade is reviewed only when it is over: the position a REVIEWED lifecycle
\* opened or added to is not the one that is open (PosttradeStage bookkeeping).
ReviewedIsFlat ==
    \A t \in Traces :
        lifecycle[t].state = "REVIEWED" /\ position.quantity > 0
            => lifecycle[t].position # position.id

Quiet == \A g \in Groups : hand[g] = Idle /\ queue[g] = <<>> /\ pel[g] = <<>>

\* A trade that closed is settled once the threads are idle, when nothing failed:
\* its outcome is in the balance exactly once and has its review, and its orders
\* and the closing lifecycle are REVIEWED (AccountingStage and PosttradeStage).
TradesSettled ==
    Quiet => \A m \in published : m.event = "trade.closed" =>
                /\ account[m.body.intent] = 1
                /\ m.body.intent \in reviews
                /\ \A i \in m.body.intents : orders[i].state = "REVIEWED"
                /\ lifecycle[m.trace].state = "REVIEWED"

\* Lifecycles only move along the canonical machine, redeliveries included
\* (apps/worker/lifecycle.py).
ImplementsTradeLifecycle == L!Spec

\* No message is replayed forever: every PEL empties again, by acknowledgement
\* or dead-lettering (StageWorker.recover).
PendingDrains == \A g \in Groups : []<>(pel[g] = <<>>)

\* A crash after a side effect does not repeat it: the outcome of a trade is
\* added to the account balance at most once (AccountingStage.process).
AccountedOnce == \A i \in Intents : account[i] <= 1
=============================================================================
