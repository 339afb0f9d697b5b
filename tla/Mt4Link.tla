------------------------------- MODULE Mt4Link -------------------------------
(***************************************************************************)
(* The command channel to the MT4 bridge, for one strategy namespace: the  *)
(* REQ side (Mt4ExecutionClient, adapters/mt4/client.py), the wire, and    *)
(* the REP side (Mt4Emulator._handle_command with CommandGate,             *)
(* IntentLedger and SequenceTracker), in front of the SimulatedBroker.     *)
(*                                                                         *)
(* Faults: a command is lost or arbitrarily delayed, its reply comes after *)
(* the request timeout, the client drops its sockets or its whole process  *)
(* restarts, the bridge answers when the client is gone.  The gate and the *)
(* broker survive (tests/chaos: "sockets die, broker + gate state          *)
(* survive").                                                              *)
(*                                                                         *)
(* Abstracted: quantities and prices; a fingerprint is one of a few values *)
(* (valid_until fixes expires_at, without it every call has a fresh one).  *)
(***************************************************************************)
EXTENDS Integers

CONSTANTS
    Intents,       \* order_intent_ids of one strategy
    Kinds,         \* order commands in use: submit, cancel, perhaps modify
    Fingerprints,  \* command contents an intent may be sent with
    MaxSeq,        \* bound: sequences a client issues
    MaxConn        \* bound: connections opened, over all client processes

ASSUME LinkAssumption == /\ {"submit", "cancel"} \subseteq Kinds
                         /\ Kinds \subseteq {"submit", "cancel", "modify"}
                         /\ MaxSeq \in Nat /\ MaxConn \in Nat \ {0}

VARIABLES
    seq,       \* client._sequences[strategy_id]
    sock,      \* the REQ socket: ready, waiting for a reply, or wedged
    conn,      \* number of the current connection
    cmd,       \* the last order command built, which a caller may send again
    wire,      \* commands sent and not yet handled by the bridge
    reply,     \* reply in the buffer of the current connection
    last,      \* SequenceTracker._last[strategy_id]
    ledger,    \* IntentLedger._records
    venue,     \* the broker's order for each intent
    executed,  \* how often process_submit accepted each intent
    told       \* the last reply the client received per (intent, kind)

clientVars == <<seq, sock, conn, cmd, told>>
bridgeVars == <<last, ledger, venue, executed>>
linkVars == <<seq, sock, conn, cmd, wire, reply, last, ledger, venue,
              executed, told>>

Keys == Intents \X Kinds

Command == [kind : Kinds, intent : Intents, fp : Fingerprints, seq : Nat]
Query == [kind : {"reconcile"}]
NoCommand == [kind |-> "none"]

Decision == {"ack", "reject"}
NoRecord == [fp |-> "none", decision |-> "none"]
IntentRecord == [fp : Fingerprints, decision : Decision] \cup {NoRecord}

NoReply == [kind |-> "none"]
Reply == [kind : {"decision"}, of : Keys, decision : Decision]
         \cup [kind : {"view"}, last : Nat] \cup {NoReply}

TypeOK ==
    /\ seq \in Nat /\ last \in Nat /\ conn \in Nat
    /\ sock \in {"ready", "waiting", "wedged"}
    /\ cmd \in Command \cup {NoCommand}
    /\ wire \subseteq [conn : Nat, cmd : Command \cup Query]
    /\ reply \in Reply
    /\ ledger \in [Keys -> IntentRecord]
    /\ venue \in [Intents -> {"none", "working", "filled", "cancelled"}]
    /\ executed \in [Intents -> Nat]
    /\ told \in [Keys -> Decision \cup {"none"}]

Init ==
    /\ seq = 0 /\ last = 0 /\ conn = 1
    /\ sock = "ready" /\ cmd = NoCommand /\ wire = {} /\ reply = NoReply
    /\ ledger = [k \in Keys |-> NoRecord]
    /\ venue = [i \in Intents |-> "none"]
    /\ executed = [i \in Intents |-> 0]
    /\ told = [k \in Keys |-> "none"]
-----------------------------------------------------------------------------
(* The client.                                                             *)

\* send_command up to the wait for the reply.  The monitor may be DOWN at any
\* call, which sends nothing; neither does a REQ socket whose reply was never
\* received (ZeroMQ's EFSM: no option relaxing that is set on it).
send_command(c) ==
    \/ UNCHANGED <<sock, wire>>
    \/ /\ sock = "ready"
       /\ sock' = "waiting"
       /\ wire' = wire \cup {[conn |-> conn, cmd |-> c]}

\* submit_order, cancel_order and modify_order: _next_sequence is taken while
\* the command is built, before anything is sent.
order_command(kind, i, fp) ==
    LET c == [kind |-> kind, intent |-> i, fp |-> fp, seq |-> seq + 1]
    IN  /\ sock # "waiting"
        /\ seq < MaxSeq
        /\ seq' = seq + 1
        /\ cmd' = c
        /\ send_command(c)
        /\ UNCHANGED <<conn, reply, told, bridgeVars>>

\* A caller sends the very same command again.
RetryCommand ==
    /\ sock # "waiting"
    /\ cmd # NoCommand
    /\ send_command(cmd)
    /\ UNCHANGED <<seq, conn, cmd, reply, told, bridgeVars>>

\* reconcile() numbers its query in the namespace "CORE".
reconcile ==
    /\ sock # "waiting"
    /\ send_command([kind |-> "reconcile"])
    /\ UNCHANGED <<seq, conn, cmd, reply, told, bridgeVars>>

\* recv_frame returns no reply within the request timeout.
Timeout ==
    /\ sock = "waiting" /\ reply = NoReply
    /\ sock' = "wedged"
    /\ UNCHANGED <<seq, conn, cmd, wire, reply, told, bridgeVars>>

ReceiveDecision ==
    /\ sock = "waiting" /\ reply.kind = "decision"
    /\ sock' = "ready" /\ reply' = NoReply
    /\ told' = [told EXCEPT ![reply.of] = reply.decision]
    /\ UNCHANGED <<seq, conn, cmd, wire, bridgeVars>>

MutAdoptOffByOne(a, b) == b - 1

MaxOf(a, b) == IF a >= b THEN a ELSE b

\* The reconciliation response arrives and the caller adopts last_sequences.
resync_sequences ==
    /\ sock = "waiting" /\ reply.kind = "view"
    /\ sock' = "ready" /\ reply' = NoReply
    /\ seq' = MaxOf(seq, reply.last)
    /\ UNCHANGED <<conn, cmd, wire, told, bridgeVars>>

\* close() and connect() on the same client object, or (restart) a new process
\* with a fresh client: its sequences start from nothing.
connect(restart) ==
    /\ sock # "waiting" \/ restart
    /\ conn < MaxConn
    /\ conn' = conn + 1
    /\ sock' = "ready" /\ reply' = NoReply
    /\ IF restart THEN /\ seq' = 0
                       /\ cmd' = NoCommand
                  ELSE UNCHANGED <<seq, cmd>>
    /\ UNCHANGED <<wire, told, bridgeVars>>
-----------------------------------------------------------------------------
(* The bridge.                                                             *)

\* The reply reaches the client only on the connection the command came from,
\* and is of use only while the client still waits.
Answer(m, r) ==
    /\ wire' = wire \ {m}
    /\ reply' = IF m.conn = conn /\ sock = "waiting" THEN r ELSE reply

DecisionReply(c, d) == [kind |-> "decision", of |-> <<c.intent, c.kind>>, decision |-> d]

Lose(m) ==
    /\ wire' = wire \ {m}
    /\ UNCHANGED <<reply, clientVars, bridgeVars>>

handle_reconcile(m) ==
    /\ m.cmd.kind = "reconcile"
    /\ Answer(m, [kind |-> "view", last |-> last])
    /\ UNCHANGED <<clientVars, bridgeVars>>

\* Refused before the ledger is consulted: checksum, bridge SAFE_MODE, expiry.
handle_refused(m) ==
    /\ m.cmd.kind \in Kinds
    /\ Answer(m, DecisionReply(m.cmd, "reject"))
    /\ UNCHANGED <<clientVars, bridgeVars>>

MutKeyedByContent(c) ==
    LET record == ledger[<<c.intent, c.kind>>]
    IN  IF record.fp = c.fp THEN record.decision
        ELSE IF c.seq # last + 1 THEN "reject"
        ELSE "accept"

MutReplayAcks(c) ==
    LET record == ledger[<<c.intent, c.kind>>]
    IN  IF record = NoRecord THEN IF c.seq # last + 1 THEN "reject" ELSE "accept"
        ELSE "ack"

\* CommandGate.evaluate: an identical command replays the recorded outcome, a
\* different submit or cancel of the intent is INTENT_CONFLICT, then the
\* sequence must be exactly the next one.
evaluate(c) ==
    LET record == ledger[<<c.intent, c.kind>>]
    IN  IF record # NoRecord /\ record.fp = c.fp THEN record.decision
        ELSE IF record # NoRecord /\ c.kind # "modify" THEN "reject"
        ELSE IF c.seq # last + 1 THEN "reject"
        ELSE "accept"

handle_duplicate_or_violation(m) ==
    /\ m.cmd.kind \in Kinds
    /\ evaluate(m.cmd) # "accept"
    /\ Answer(m, DecisionReply(m.cmd, evaluate(m.cmd)))
    /\ UNCHANGED <<clientVars, bridgeVars>>

\* CommandGate.record: ledger entry with its reply, then the sequence.
record(c, decision) ==
    /\ ledger' = [ledger EXCEPT ![<<c.intent, c.kind>>] =
                     [fp |-> c.fp, decision |-> decision]]
    /\ last' = c.seq

MutAnyOrder(c) == TRUE

\* An order of the intent the broker still works.
Working(c) == venue[c.intent] = "working"

\* process_submit, process_cancel and process_modify; venue checks may refuse
\* any submit or modify.
Dispatch(c, decision) ==
    CASE decision = "ack" /\ c.kind = "submit" ->
            /\ venue' = [venue EXCEPT ![c.intent] = "working"]
            /\ executed' = [executed EXCEPT ![c.intent] = @ + 1]
      [] decision = "ack" /\ c.kind = "cancel" ->
            /\ Working(c)
            /\ venue' = [venue EXCEPT ![c.intent] = "cancelled"]
            /\ UNCHANGED executed
      [] decision = "ack" /\ c.kind = "modify" ->
            Working(c) /\ UNCHANGED <<venue, executed>>
      [] OTHER -> /\ c.kind = "cancel" => ~ Working(c)
                  /\ UNCHANGED <<venue, executed>>

handle_accepted(m) ==
    /\ m.cmd.kind \in Kinds
    /\ evaluate(m.cmd) = "accept"
    /\ \E decision \in Decision :
          /\ Dispatch(m.cmd, decision)
          /\ record(m.cmd, decision)
          /\ Answer(m, DecisionReply(m.cmd, decision))
    /\ UNCHANGED clientVars

\* advance: a touched order fills completely (partial fills keep it working).
Fill(i) ==
    /\ venue[i] = "working"
    /\ venue' = [venue EXCEPT ![i] = "filled"]
    /\ UNCHANGED <<wire, reply, clientVars, last, ledger, executed>>

Client ==
    \/ \E kind \in Kinds, i \in Intents, fp \in Fingerprints : order_command(kind, i, fp)
    \/ RetryCommand
    \/ reconcile
    \/ Timeout
    \/ ReceiveDecision
    \/ resync_sequences
    \/ \E restart \in BOOLEAN : connect(restart)

Bridge ==
    \/ \E m \in wire : \/ Lose(m)
                       \/ handle_reconcile(m)
                       \/ handle_refused(m)
                       \/ handle_duplicate_or_violation(m)
                       \/ handle_accepted(m)
    \/ \E i \in Intents : Fill(i)

Next == Client \/ Bridge

Spec == Init /\ [][Next]_linkVars
-----------------------------------------------------------------------------
(* Properties.                                                             *)

\* An intent is executed at most once, however often, with whatever contents
\* and on however many connections its submit is sent, delayed or repeated
\* (order_intent_id is the idempotency key of CommandGate).
AtMostOnce == \A i \in Intents : executed[i] <= 1

\* What the client was told is true of the venue: an acknowledged submit was
\* executed, an acknowledged cancel left the order cancelled for good (no late
\* copy of the submit re-opens it, no fill follows).
AckTruthful ==
    \A i \in Intents, kind \in Kinds :
        told[<<i, kind>>] = "ack" =>
            /\ kind = "submit" => executed[i] = 1
            /\ kind = "cancel" => venue[i] = "cancelled"

\* The gate's memory and the broker agree: an intent has an order exactly when
\* the ledger records an acknowledged submit, and an acknowledged cancel means
\* the order is cancelled.
LedgerMirrorsVenue ==
    \A i \in Intents :
        /\ executed[i] = IF ledger[<<i, "submit">>].decision = "ack" THEN 1 ELSE 0
        /\ venue[i] = "none" <=> executed[i] = 0
        /\ ledger[<<i, "cancel">>].decision = "ack" <=> venue[i] = "cancelled"

\* A reply under way, or already received, is the recorded decision whenever it
\* is an acknowledgement.
AckRecorded ==
    /\ \A k \in Keys : told[k] = "ack" /\ k[2] # "modify" => ledger[k].decision = "ack"
    /\ reply.kind = "decision" /\ reply.decision = "ack" /\ reply.of[2] # "modify"
          => ledger[reply.of].decision = "ack"

\* The inductive invariant behind AtMostOnce and AckTruthful.
LinkInv == LedgerMirrorsVenue /\ AckRecorded
=============================================================================
