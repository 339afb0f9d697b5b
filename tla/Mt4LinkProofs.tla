---------------------------- MODULE Mt4LinkProofs ----------------------------
(* LinkInv is inductive: proofs that the command channel executes an intent *)
(* at most once and acknowledges only what the venue did.                   *)
EXTENDS Mt4Link, TLAPS

\* Type correctness and LinkInv together.
IInv == TypeOK /\ LinkInv

\* The steps that leave the gate, the ledger and the broker alone keep the
\* invariant if what they tell the client was already recorded.
LEMMA ClientTypes ==
    ASSUME TypeOK, Client
    PROVE  TypeOK'
<1>1. /\ seq \in Nat /\ last \in Nat /\ conn \in Nat
      /\ sock \in {"ready", "waiting", "wedged"}
      /\ cmd \in Command \cup {NoCommand}
      /\ wire \subseteq [conn : Nat, cmd : Command \cup Query]
      /\ reply \in Reply
      /\ told \in [Keys -> Decision \cup {"none"}]
  BY DEF TypeOK
<1>2. ASSUME NEW c \in Command \cup Query, send_command(c)
      PROVE  /\ sock' \in {"ready", "waiting", "wedged"}
             /\ wire' \subseteq [conn : Nat, cmd : Command \cup Query]
  <2>1. [conn |-> conn, cmd |-> c] \in [conn : Nat, cmd : Command \cup Query]
    BY <1>1, <1>2
  <2> QED  BY <1>1, <1>2, <2>1 DEF send_command, TypeOK
<1>3. ASSUME NEW kind \in Kinds, NEW i \in Intents, NEW fp \in Fingerprints,
             order_command(kind, i, fp)
      PROVE  TypeOK'
  <2> DEFINE c == [kind |-> kind, intent |-> i, fp |-> fp, seq |-> seq + 1]
  <2>1. c \in Command  BY <1>1 DEF Command
  <2>2. seq' \in Nat /\ cmd' = c /\ send_command(c)
    BY <1>1, <1>3 DEF order_command
  <2> HIDE DEF c
  <2>3. /\ sock' \in {"ready", "waiting", "wedged"}
        /\ wire' \subseteq [conn : Nat, cmd : Command \cup Query]
    BY <1>2, <2>1, <2>2
  <2> QED  BY <1>3, <2>1, <2>2, <2>3 DEF order_command, TypeOK, bridgeVars
<1>4. CASE RetryCommand
  <2>1. cmd \in Command  BY <1>1, <1>4 DEF RetryCommand
  <2>2. /\ sock' \in {"ready", "waiting", "wedged"}
        /\ wire' \subseteq [conn : Nat, cmd : Command \cup Query]
    BY <1>2, <1>4, <2>1 DEF RetryCommand
  <2> QED  BY <1>4, <2>2 DEF RetryCommand, TypeOK, bridgeVars
<1>5. CASE reconcile
  <2>1. [kind |-> "reconcile"] \in Query  BY DEF Query
  <2>2. /\ sock' \in {"ready", "waiting", "wedged"}
        /\ wire' \subseteq [conn : Nat, cmd : Command \cup Query]
    BY <1>2, <1>5, <2>1 DEF reconcile
  <2> QED  BY <1>5, <2>2 DEF reconcile, TypeOK, bridgeVars
<1>6. CASE Timeout
  BY <1>6 DEF Timeout, TypeOK, bridgeVars
<1>7. CASE ReceiveDecision
  <2>1. reply.of \in Keys /\ reply.decision \in Decision
    BY <1>1, <1>7 DEF ReceiveDecision, Reply, NoReply
  <2>2. told' \in [Keys -> Decision \cup {"none"}]
    BY <1>1, <1>7, <2>1 DEF ReceiveDecision
  <2>3. reply' \in Reply  BY <1>7 DEF ReceiveDecision, Reply
  <2> QED  BY <1>7, <2>2, <2>3 DEF ReceiveDecision, TypeOK, bridgeVars
<1>8. CASE resync_sequences
  <2>1. reply.last \in Nat
    BY <1>1, <1>8 DEF resync_sequences, Reply, NoReply
  <2>2. seq' \in Nat /\ reply' \in Reply
    BY <1>1, <1>8, <2>1 DEF resync_sequences, MaxOf, Reply
  <2> QED  BY <1>8, <2>2 DEF resync_sequences, TypeOK, bridgeVars
<1>9. ASSUME NEW restart \in BOOLEAN, connect(restart)
      PROVE  TypeOK'
  <2>1. reply' \in Reply  BY <1>9 DEF connect, Reply
  <2>2. seq' \in {0, seq} /\ cmd' \in {NoCommand, cmd}
    BY <1>9, Zenon DEF connect
  <2>3. /\ conn' = conn + 1 /\ sock' = "ready"
        /\ UNCHANGED <<wire, told, bridgeVars>>
    BY <1>9, Zenon DEF connect
  <2>5. /\ seq' \in Nat /\ conn' \in Nat
        /\ sock' \in {"ready", "waiting", "wedged"}
        /\ cmd' \in Command \cup {NoCommand}
    BY <1>1, <2>2, <2>3
  <2> QED  BY <2>1, <2>3, <2>5, Zenon DEF TypeOK, bridgeVars
<1> QED  BY <1>3, <1>4, <1>5, <1>6, <1>7, <1>8, <1>9 DEF Client

\* The client's steps change neither the ledger nor the broker, and what a
\* reply tells the client was recorded when it was sent.
LEMMA ClientStep ==
    ASSUME IInv, Client
    PROVE  IInv'
<1>1. TypeOK /\ LinkInv  BY DEF IInv
<1>2. TypeOK'  BY <1>1, ClientTypes
<1>3. UNCHANGED bridgeVars
  BY DEF Client, order_command, RetryCommand, reconcile, Timeout, ReceiveDecision,
         resync_sequences, connect
<1>4. LedgerMirrorsVenue'
  BY <1>1, <1>3 DEF LinkInv, LedgerMirrorsVenue, bridgeVars
<1>5. ASSUME UNCHANGED told, reply' \in {reply, NoReply}
      PROVE  AckRecorded'
  BY <1>1, <1>3, <1>5 DEF LinkInv, AckRecorded, bridgeVars, NoReply
<1>6. ASSUME ReceiveDecision PROVE AckRecorded'
  <2>1. reply.of \in Keys /\ reply.kind = "decision"
    BY <1>1, <1>6 DEF TypeOK, ReceiveDecision, Reply, NoReply
  <2>2. reply' = NoReply /\ told' = [told EXCEPT ![reply.of] = reply.decision]
    BY <1>6 DEF ReceiveDecision
  <2>3. ASSUME NEW k \in Keys, told'[k] = "ack", k[2] # "modify"
        PROVE  ledger'[k].decision = "ack"
    <3>1. CASE k = reply.of
      BY <1>1, <1>3, <2>1, <2>2, <2>3, <3>1 DEF LinkInv, AckRecorded, bridgeVars, TypeOK
    <3>2. CASE k # reply.of
      BY <1>1, <1>3, <2>1, <2>2, <2>3, <3>2 DEF LinkInv, AckRecorded, bridgeVars, TypeOK
    <3> QED  BY <3>1, <3>2
  <2> QED  BY <2>2, <2>3 DEF AckRecorded, NoReply
<1>7. ASSUME ~ ReceiveDecision PROVE AckRecorded'
  BY <1>5, <1>7 DEF Client, order_command, RetryCommand, reconcile, Timeout,
                    resync_sequences, connect
<1> QED  BY <1>2, <1>4, <1>6, <1>7 DEF IInv, LinkInv

\* Answering one message keeps the types, and any acknowledgement under way is
\* either the old one or the answer.
LEMMA AnswerStep ==
    ASSUME TypeOK, NEW m, NEW r \in Reply, Answer(m, r)
    PROVE  /\ wire' \subseteq [conn : Nat, cmd : Command \cup Query]
           /\ reply' \in Reply
           /\ reply' \in {reply, r}
BY DEF TypeOK, Answer

\* A refused, replayed or conflicting command and the reconciliation query
\* leave the gate and the broker alone; an acknowledgement they return is the
\* recorded one.
LEMMA QuietStep ==
    ASSUME IInv, NEW m \in wire,
           \/ Lose(m) \/ handle_reconcile(m) \/ handle_refused(m)
           \/ handle_duplicate_or_violation(m)
    PROVE  IInv'
<1>1. TypeOK /\ LinkInv  BY DEF IInv
<1>2. m.cmd \in Command \cup Query
  BY <1>1 DEF TypeOK
<1>3. UNCHANGED <<clientVars, bridgeVars>>
  BY DEF Lose, handle_reconcile, handle_refused, handle_duplicate_or_violation
<1>4. ASSUME m.cmd.kind \in Kinds, NEW d \in Decision
      PROVE  /\ DecisionReply(m.cmd, d) \in Reply
             /\ DecisionReply(m.cmd, d).of = <<m.cmd.intent, m.cmd.kind>>
             /\ <<m.cmd.intent, m.cmd.kind>> \in Keys
             /\ DecisionReply(m.cmd, d).decision = d
  <2>1. m.cmd \in Command
    BY <1>2, <1>4, LinkAssumption DEF Query
  <2>2. <<m.cmd.intent, m.cmd.kind>> \in Keys
    BY <2>1 DEF Command, Keys
  <2> QED  BY <2>2 DEF DecisionReply, Reply
<1>5. /\ wire' \subseteq [conn : Nat, cmd : Command \cup Query]
      /\ reply' \in Reply
      /\ reply'.kind = "decision" /\ reply'.decision = "ack" /\ reply'.of[2] # "modify"
            => ledger[reply'.of].decision = "ack"
  <2>1. CASE Lose(m)
    BY <1>1, <2>1 DEF Lose, TypeOK, LinkInv, AckRecorded
  <2>2. CASE handle_reconcile(m)
    <3>1. [kind |-> "view", last |-> last] \in Reply  BY <1>1 DEF TypeOK, Reply
    <3> QED  BY <1>1, <2>2, <3>1, AnswerStep DEF handle_reconcile, LinkInv, AckRecorded
  <2>3. CASE handle_refused(m)
    <3>1. m.cmd.kind \in Kinds  BY <2>3 DEF handle_refused
    <3>2. "reject" \in Decision  BY DEF Decision
    <3> QED  BY <1>1, <1>4, <2>3, <3>1, <3>2, AnswerStep
             DEF handle_refused, LinkInv, AckRecorded
  <2>4. CASE handle_duplicate_or_violation(m)
    <3> DEFINE k == <<m.cmd.intent, m.cmd.kind>>
    <3>1. m.cmd.kind \in Kinds  BY <2>4 DEF handle_duplicate_or_violation
    <3>2. "reject" \in Decision  BY DEF Decision
    <3>3. k \in Keys  BY <1>4, <3>1, <3>2
    <3>4. ledger[k] \in IntentRecord  BY <1>1, <3>3, SMTT(30) DEF TypeOK
    <3>5. /\ evaluate(m.cmd) \in Decision
          /\ evaluate(m.cmd) = "ack" => ledger[k].decision = "ack"
      BY <2>4, <3>4 DEF handle_duplicate_or_violation, evaluate, IntentRecord, Decision
    <3>6. Answer(m, DecisionReply(m.cmd, evaluate(m.cmd)))
      BY <2>4 DEF handle_duplicate_or_violation
    <3> QED  BY <1>1, <1>4, <3>1, <3>5, <3>6, AnswerStep DEF LinkInv, AckRecorded
  <2> QED  BY <2>1, <2>2, <2>3, <2>4
<1>6. TypeOK'
  BY <1>1, <1>3, <1>5 DEF TypeOK, clientVars, bridgeVars
<1>7. LinkInv'
  BY <1>1, <1>3, <1>5 DEF LinkInv, LedgerMirrorsVenue, AckRecorded, clientVars, bridgeVars
<1> QED  BY <1>6, <1>7 DEF IInv

\* An accepted command: the gate had no submit (or cancel) of the intent on
\* record, so the broker has executed none, and what it does now is recorded.
LEMMA AcceptStep ==
    ASSUME IInv, NEW m \in wire, handle_accepted(m)
    PROVE  IInv'
<1> DEFINE c == m.cmd
           k == <<c.intent, c.kind>>
<1>1. TypeOK /\ LinkInv  BY DEF IInv
<1>2. PICK d \in Decision : Dispatch(c, d) /\ record(c, d) /\ Answer(m, DecisionReply(c, d))
  BY DEF handle_accepted
<1>3. c.kind \in Kinds /\ evaluate(c) = "accept" /\ UNCHANGED clientVars
  BY DEF handle_accepted
<1>4. c \in Command
  BY <1>1, <1>3, LinkAssumption DEF TypeOK, Query
<1>5. c.intent \in Intents /\ c.fp \in Fingerprints /\ c.seq \in Nat /\ k \in Keys
  BY <1>4 DEF Command, Keys
<1>6. ledger[k] \in IntentRecord /\ (c.kind # "modify" => ledger[k] = NoRecord)
  BY <1>1, <1>3, <1>5 DEF TypeOK, evaluate, IntentRecord, Decision, NoRecord
<1>7. DecisionReply(c, d) \in Reply
  BY <1>5 DEF DecisionReply, Reply
<1>8. /\ ledger' = [ledger EXCEPT ![k] = [fp |-> c.fp, decision |-> d]]
      /\ last' = c.seq
  BY <1>2 DEF record
<1>9. [fp |-> c.fp, decision |-> d] \in IntentRecord
  BY <1>5 DEF IntentRecord
<1>10. /\ wire' \subseteq [conn : Nat, cmd : Command \cup Query]
       /\ reply' \in Reply
       /\ reply' \in {reply, DecisionReply(c, d)}
  BY <1>1, <1>2, <1>7, AnswerStep
<1>11. /\ venue' \in [Intents -> {"none", "working", "filled", "cancelled"}]
       /\ executed' \in [Intents -> Nat]
  BY <1>1, <1>2, <1>5 DEF Dispatch, TypeOK
<1> HIDE DEF c, k
<1>12. TypeOK'
  BY <1>1, <1>3, <1>5, <1>8, <1>9, <1>10, <1>11 DEF TypeOK, clientVars
<1>13. LedgerMirrorsVenue'
  <2> SUFFICES ASSUME NEW i \in Intents
               PROVE  /\ executed'[i] = IF ledger'[<<i, "submit">>].decision = "ack"
                                        THEN 1 ELSE 0
                      /\ venue'[i] = "none" <=> executed'[i] = 0
                      /\ ledger'[<<i, "cancel">>].decision = "ack"
                            <=> venue'[i] = "cancelled"
    BY DEF LedgerMirrorsVenue
  <2>1. /\ executed[i] = IF ledger[<<i, "submit">>].decision = "ack" THEN 1 ELSE 0
        /\ venue[i] = "none" <=> executed[i] = 0
        /\ ledger[<<i, "cancel">>].decision = "ack" <=> venue[i] = "cancelled"
        /\ <<i, "submit">> \in Keys /\ <<i, "cancel">> \in Keys
    BY <1>1, LinkAssumption DEF LinkInv, LedgerMirrorsVenue, Keys
  <2>2. ledger \in [Keys -> IntentRecord] /\ executed \in [Intents -> Nat]
        /\ venue \in [Intents -> {"none", "working", "filled", "cancelled"}]
    BY <1>1 DEF TypeOK
  <2>3. ASSUME NEW key \in Keys, key # k PROVE ledger'[key] = ledger[key]
    BY <1>8, <2>2, <2>3
  <2>4. ledger'[k].decision = d
    BY <1>5, <1>8, <2>2 DEF k
  <2>5. CASE i # c.intent
    <3>1. <<i, "submit">> # k /\ <<i, "cancel">> # k  BY <2>5 DEF k
    <3>2. executed'[i] = executed[i] /\ venue'[i] = venue[i]
      BY <1>2, <1>5, <2>2, <2>5 DEF Dispatch
    <3> QED  BY <2>1, <2>3, <3>1, <3>2
  <2>6. CASE i = c.intent /\ c.kind = "submit"
    <3>1. <<i, "submit">> = k /\ <<i, "cancel">> # k  BY <2>6 DEF k
    <3>2. executed[i] = 0 /\ venue[i] = "none"
      BY <1>6, <2>1, <2>6, <3>1 DEF NoRecord
    <3>3. IF d = "ack" THEN executed'[i] = 1 /\ venue'[i] = "working"
          ELSE executed'[i] = 0 /\ venue'[i] = "none"
      BY <1>2, <1>5, <2>2, <2>6, <3>2 DEF Dispatch
    <3> QED  BY <2>1, <2>3, <2>4, <3>1, <3>2, <3>3
  <2>7. CASE i = c.intent /\ c.kind = "cancel"
    <3>1. <<i, "cancel">> = k /\ <<i, "submit">> # k  BY <2>7 DEF k
    <3>2. venue[i] # "cancelled" /\ executed' = executed
      BY <1>2, <1>6, <2>1, <2>7, <3>1 DEF NoRecord, Dispatch
    <3>3. IF d = "ack" THEN venue[i] = "working" /\ venue'[i] = "cancelled"
          ELSE venue'[i] = venue[i]
      BY <1>2, <1>5, <2>2, <2>7 DEF Dispatch, Working
    <3> QED  BY <2>1, <2>3, <2>4, <3>1, <3>2, <3>3
  <2>8. CASE i = c.intent /\ c.kind = "modify"
    <3>1. <<i, "cancel">> # k /\ <<i, "submit">> # k  BY <2>8 DEF k
    <3>2. executed' = executed /\ venue' = venue
      BY <1>2, <2>8 DEF Dispatch
    <3> QED  BY <2>1, <2>3, <3>1, <3>2
  <2> QED  BY <1>3, <2>5, <2>6, <2>7, <2>8, LinkAssumption DEF c
<1>14. AckRecorded'
  <2>1. ledger \in [Keys -> IntentRecord]  BY <1>1 DEF TypeOK
  <2>2. ASSUME NEW key \in Keys, key[2] # "modify", ledger[key].decision = "ack"
        PROVE  ledger'[key].decision = "ack"
    <3>1. key # k  BY <1>6, <2>2 DEF k, NoRecord
    <3> QED  BY <1>8, <2>1, <2>2, <3>1
  <2>3. ledger'[k].decision = d  BY <1>5, <1>8, <2>1 DEF k
  <2>4. told' = told  BY <1>3 DEF clientVars
  <2>5. \A key \in Keys : told'[key] = "ack" /\ key[2] # "modify"
                              => ledger'[key].decision = "ack"
    BY <1>1, <2>2, <2>4 DEF LinkInv, AckRecorded
  <2>6. CASE reply' = reply
    <3>1. reply.kind = "decision" => reply.of \in Keys
      BY <1>1 DEF TypeOK, Reply, NoReply
    <3> QED  BY <1>1, <2>2, <2>5, <2>6, <3>1 DEF LinkInv, AckRecorded
  <2>7. CASE reply' = DecisionReply(c, d)
    <3>1. reply'.of = k /\ reply'.decision = d  BY <2>7 DEF DecisionReply, k
    <3> QED  BY <2>3, <2>5, <3>1 DEF AckRecorded
  <2> QED  BY <1>10, <2>6, <2>7
<1> QED  BY <1>12, <1>13, <1>14 DEF IInv, LinkInv

\* A fill moves a working order only.
LEMMA FillStep ==
    ASSUME IInv, NEW i \in Intents, Fill(i)
    PROVE  IInv'
BY DEF IInv, TypeOK, LinkInv, LedgerMirrorsVenue, AckRecorded, Fill, clientVars

\* The invariant holds initially.
LEMMA InitStep == Init => IInv
<1> SUFFICES ASSUME Init PROVE IInv
  OBVIOUS
<1>1. TypeOK
  BY DEF Init, TypeOK, NoCommand, IntentRecord, Reply
<1>2. \A i \in Intents : <<i, "submit">> \in Keys /\ <<i, "cancel">> \in Keys
  BY LinkAssumption DEF Keys
<1>3. \A k \in Keys : ledger[k].decision = "none" /\ told[k] = "none"
  BY DEF Init, NoRecord
<1>4. \A i \in Intents : executed[i] = 0 /\ venue[i] = "none"
  BY DEF Init
<1>5. LedgerMirrorsVenue
  BY <1>2, <1>3, <1>4 DEF LedgerMirrorsVenue
<1>6. AckRecorded
  BY <1>3 DEF Init, AckRecorded, NoReply
<1> QED  BY <1>1, <1>5, <1>6 DEF IInv, LinkInv

\* LinkInv and the types are invariant, for any intents, contents and bounds.
THEOREM LinkInvariant == Spec => [](TypeOK /\ LinkInv)
<1>1. Init => IInv  BY InitStep
<1>2. ASSUME IInv, [Next]_linkVars PROVE IInv'
  <2>1. CASE Client  BY <1>2, <2>1, ClientStep
  <2>2. CASE Bridge
    BY <1>2, <2>2, QuietStep, AcceptStep, FillStep DEF Bridge
  <2>3. CASE UNCHANGED linkVars
    BY <1>2, <2>3 DEF IInv, TypeOK, LinkInv, LedgerMirrorsVenue, AckRecorded, linkVars
  <2> QED  BY <1>2, <2>1, <2>2, <2>3 DEF Next
<1>3. IInv <=> TypeOK /\ LinkInv  BY DEF IInv
<1> QED  BY <1>1, <1>2, <1>3, PTL DEF Spec

\* However often a submit is sent, delayed, repeated or replayed after client
\* restarts, the broker executes an intent at most once.
THEOREM ExecutedAtMostOnce == Spec => []AtMostOnce
<1>1. LinkInv => AtMostOnce
  <2> SUFFICES ASSUME LinkInv, NEW i \in Intents PROVE executed[i] <= 1
    BY DEF AtMostOnce
  <2>1. executed[i] = 0 \/ executed[i] = 1  BY DEF LinkInv, LedgerMirrorsVenue
  <2> QED  BY <2>1
<1> QED  BY <1>1, LinkInvariant, PTL

\* An acknowledgement the client received is true of the venue, for good.
THEOREM AcknowledgementsTruthful == Spec => []AckTruthful
<1>1. LinkInv => AckTruthful
  <2> SUFFICES ASSUME LinkInv, NEW i \in Intents, NEW kind \in Kinds,
                      told[<<i, kind>>] = "ack"
               PROVE  /\ kind = "submit" => executed[i] = 1
                      /\ kind = "cancel" => venue[i] = "cancelled"
    BY DEF AckTruthful
  <2>1. <<i, kind>> \in Keys /\ <<i, kind>>[2] = kind  BY DEF Keys
  <2>2. kind # "modify" => ledger[<<i, kind>>].decision = "ack"
    BY <2>1 DEF LinkInv, AckRecorded
  <2> QED  BY <2>2 DEF LinkInv, LedgerMirrorsVenue
<1> QED  BY <1>1, LinkInvariant, PTL
=============================================================================
