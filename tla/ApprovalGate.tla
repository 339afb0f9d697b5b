---------------------------- MODULE ApprovalGate ----------------------------
(***************************************************************************)
(* HumanApprovalGate (engines/execution/live_gate.py) on the approval row  *)
(* of one OrderIntent in PostgresApprovalStore, shared by the API process  *)
(* (operators approve and reject) and by execution processes (executors    *)
(* request, consume, revalidate and transmit).                             *)
(*                                                                         *)
(* The lock inside a gate serialises only the calls of its own process, so *)
(* a method is two steps: it reads the row and decides, then the store     *)
(* executes one write, which is a compare-and-put on the status in approve *)
(* and consume and an unconditional put everywhere else.                   *)
(*                                                                         *)
(* Abstracted: a price context is one of a few prices and any two differ   *)
(* materially; revalidate draws a new approval_id and binds the intent to  *)
(* a new risk decision, and one number stands for both.  Calls refused for *)
(* exposure or a stale quote change nothing and are left out.              *)
(***************************************************************************)
EXTENDS Integers, FiniteSets

CONSTANTS
    Operators,   \* API sessions
    Executors,   \* execution processes
    Prices,      \* materially different market observations
    Ttl,         \* approval_ttl
    ValidUntil,  \* intent.valid_until
    MaxTime,     \* bound on the clock
    MaxIds       \* bound on the approval ids generated

ASSUME GateAssumption ==
    /\ IsFiniteSet(Executors)
    /\ Operators \cap Executors = {}
    /\ Ttl \in Nat \ {0} /\ ValidUntil \in Nat /\ MaxTime \in Nat /\ MaxIds \in Nat

VARIABLES
    row,            \* the persisted ApprovalRecord
    ids,            \* approval ids generated so far
    now,            \* the clock
    kill,           \* some kill switch covering the intent is active
    call,           \* the write each caller is about to ask of the store
    seen,           \* approval ids displayed to each operator
    signed,         \* terms a human signed, with the operator
    approvals,      \* successful calls of approve
    consumptions,   \* successful calls of consume
    transmissions   \* commands that passed the MT4 boundary check

gateVars == <<row, ids, now, kill, call, seen, signed, approvals, consumptions,
              transmissions>>
history == <<seen, signed, approvals, consumptions, transmissions>>

Callers == Operators \cup Executors

ApprovalStatus == {"WAITING_FOR_HUMAN", "APPROVED", "CONSUMED", "EXPIRED",
                   "REVALIDATION_REQUIRED", "REJECTED"}
ApprovalRecord == [status : ApprovalStatus, id : Nat, price : Prices, expires : Nat]
NoRow == [status |-> "NONE"]

\* What approve, consume, reject and revalidate ask of the store.
Write == [op : {"compare_and_put"}, expected : {"WAITING_FOR_HUMAN", "APPROVED"},
          record : ApprovalRecord]
         \cup [op : {"put"}, record : ApprovalRecord]
Idle == [op |-> "idle"]

\* An executor that consumed, about to submit its intent to MT4.
Authorized(d) == [op |-> "authorized", decision |-> d]

Terms(r) == [id |-> r.id, price |-> r.price]

TypeOK ==
    /\ row \in ApprovalRecord \cup {NoRow}
    /\ ids \in Nat /\ now \in Nat /\ kill \in BOOLEAN
    /\ call \in [Callers -> Write \cup {Idle} \cup [op : {"authorized"}, decision : Nat]]
    /\ seen \subseteq Operators \X Nat
    /\ signed \subseteq [by : Operators, terms : [id : Nat, price : Prices]]
    /\ approvals \in Nat /\ consumptions \in Nat /\ transmissions \in Nat

Init ==
    /\ row = NoRow /\ ids = 0 /\ now = 0 /\ kill = FALSE
    /\ call = [c \in Callers |-> Idle]
    /\ seen = {} /\ signed = {}
    /\ approvals = 0 /\ consumptions = 0 /\ transmissions = 0

put(c, r) ==
    /\ call' = [call EXCEPT ![c] = [op |-> "put", record |-> r]]
    /\ UNCHANGED <<row, ids, now, kill, history>>

compare_and_put(c, expected, r) ==
    /\ call' = [call EXCEPT ![c] =
                   [op |-> "compare_and_put", expected |-> expected, record |-> r]]
    /\ UNCHANGED <<row, ids, now, kill, history>>

MutRemaining(a, b) == a - b

MinOf(a, b) == IF a <= b THEN a ELSE b
-----------------------------------------------------------------------------
(* The methods, up to their write.                                         *)

\* put_if_absent is one insert: a second lifecycle of the intent is refused.
request_approval(x, price) ==
    /\ call[x] = Idle
    /\ ~ kill /\ now < ValidUntil /\ ids < MaxIds
    /\ row = NoRow
    /\ row' = [status |-> "WAITING_FOR_HUMAN", id |-> ids + 1, price |-> price,
               expires |-> MinOf(now + Ttl, ValidUntil)]
    /\ ids' = ids + 1
    /\ UNCHANGED <<now, kill, call, history>>

\* The operator's screen; approve() itself takes only the order_intent_id.
get_approval(o) ==
    /\ call[o] = Idle
    /\ row # NoRow
    /\ seen' = seen \cup {<<o, row.id>>}
    /\ UNCHANGED <<row, ids, now, kill, call, signed, approvals, consumptions, transmissions>>

\* An operator answers what the screen showed them, at that time or earlier.
approve(o) ==
    /\ call[o] = Idle
    /\ \E s \in seen : s[1] = o
    /\ row.status = "WAITING_FOR_HUMAN"
    /\ IF now >= row.expires THEN put(o, [row EXCEPT !.status = "EXPIRED"])
       ELSE compare_and_put(o, "WAITING_FOR_HUMAN", [row EXCEPT !.status = "APPROVED"])

reject(o) ==
    /\ call[o] = Idle
    /\ row.status = "WAITING_FOR_HUMAN"
    /\ put(o, [row EXCEPT !.status = "REJECTED"])

MutConsumeAtAnyPrice(x, d, price) ==
    /\ call[x] = Idle
    /\ ~ kill
    /\ row.status = "APPROVED"
    /\ IF now >= row.expires THEN put(x, [row EXCEPT !.status = "EXPIRED"])
       ELSE compare_and_put(x, "APPROVED", [row EXCEPT !.status = "CONSUMED", !.price = price])

\* The caller's intent is bound to risk decision d, its quote shows price.
consume(x, d, price) ==
    /\ call[x] = Idle
    /\ ~ kill
    /\ row.status = "APPROVED"
    /\ IF now >= row.expires THEN put(x, [row EXCEPT !.status = "EXPIRED"])
       ELSE /\ d = row.id                          \* _matches_intent
            /\ IF price # row.price                \* _materially_changed
               THEN put(x, [row EXCEPT !.status = "REVALIDATION_REQUIRED"])
               ELSE compare_and_put(x, "APPROVED", [row EXCEPT !.status = "CONSUMED"])

revalidate(x, price, riskRejects) ==
    /\ call[x] = Idle
    /\ row.status = "REVALIDATION_REQUIRED"
    /\ IF riskRejects
       THEN put(x, [row EXCEPT !.status = "REJECTED"])
       ELSE /\ ids < MaxIds
            /\ ids' = ids + 1
            /\ call' = [call EXCEPT ![x] =
                 [op |-> "put",
                  record |-> [status |-> "WAITING_FOR_HUMAN", id |-> ids + 1,
                              price |-> price, expires |-> now + Ttl]]]
            /\ UNCHANGED <<row, now, kill, history>>
-----------------------------------------------------------------------------
(* The store.                                                              *)

Put(c) ==
    /\ call[c].op = "put"
    /\ row' = call[c].record
    /\ call' = [call EXCEPT ![c] = Idle]
    /\ UNCHANGED <<ids, now, kill, history>>

MutUnguarded(c) == row # NoRow

\* The WHERE clause of compare_and_put.
Matches(c) == row.status = call[c].expected

CompareAndPut(c) ==
    /\ call[c].op = "compare_and_put"
    /\ IF Matches(c)
       THEN /\ row' = call[c].record
            /\ IF call[c].record.status = "APPROVED"
               THEN /\ approvals' = approvals + 1
                    /\ signed' = signed \cup {[by |-> c, terms |-> Terms(call[c].record)]}
                    /\ call' = [call EXCEPT ![c] = Idle]
                    /\ UNCHANGED consumptions
               ELSE /\ consumptions' = consumptions + 1
                    /\ call' = [call EXCEPT ![c] = Authorized(call[c].record.id)]
                    /\ UNCHANGED <<approvals, signed>>
       ELSE /\ call' = [call EXCEPT ![c] = Idle]   \* changed concurrently
            /\ UNCHANGED <<row, signed, approvals, consumptions>>
    /\ UNCHANGED <<ids, now, kill, seen, transmissions>>

\* The second boundary check, in the MT4 client just before it sends.
assert_consumed_authorization(x) ==
    /\ row.status = "CONSUMED"
    /\ now < row.expires
    /\ row.id = call[x].decision                   \* _matches_intent
    /\ ~ kill

Transmit(x) ==
    /\ call[x].op = "authorized"
    /\ transmissions' = IF assert_consumed_authorization(x) THEN transmissions + 1
                        ELSE transmissions
    /\ call' = [call EXCEPT ![x] = Idle]
    /\ UNCHANGED <<row, ids, now, kill, seen, signed, approvals, consumptions>>

\* activate_kill and clear_kill.
set_kill(active) ==
    /\ kill # active
    /\ kill' = active
    /\ UNCHANGED <<row, ids, now, call, history>>

Tick ==
    /\ now < MaxTime
    /\ now' = now + 1
    /\ UNCHANGED <<row, ids, kill, call, history>>

Operator(o) == get_approval(o) \/ approve(o) \/ reject(o)

Executor(x) == \/ \E price \in Prices : request_approval(x, price)
               \/ \E d \in 1 .. MaxIds, price \in Prices : consume(x, d, price)
               \/ \E price \in Prices, rejects \in BOOLEAN : revalidate(x, price, rejects)
               \/ Transmit(x)

Next == \/ \E o \in Operators : Operator(o)
        \/ \E x \in Executors : Executor(x)
        \/ \E c \in Callers : Put(c) \/ CompareAndPut(c)
        \/ \E active \in BOOLEAN : set_kill(active)
        \/ Tick

Spec == Init /\ [][Next]_gateVars
-----------------------------------------------------------------------------
(* Properties.                                                             *)

\* One human signature lets at most one order through: in any interleaving of
\* approvals, rejections, revalidations and consumptions of any number of
\* processes, orders transmitted never outnumber signatures given.
OneOrderPerSignature == transmissions <= consumptions /\ consumptions <= approvals

\* A row that authorizes an order (APPROVED or CONSUMED) carries exactly the
\* terms, approval id and price context, that some human signed.
AuthorityIsSigned ==
    row.status \in {"APPROVED", "CONSUMED"} => \E s \in signed : s.terms = Terms(row)

\* The counts behind OneOrderPerSignature: every consumption, and the row while
\* it is APPROVED, has a signature of its own; every transmission, and every
\* executor that is about to transmit, a consumption of its own.
InHand == {x \in Executors : call[x].op = "authorized"}

SignatureBudget ==
    /\ consumptions + (IF row.status = "APPROVED" THEN 1 ELSE 0) <= approvals
    /\ transmissions + Cardinality(InHand) <= consumptions

\* Writes under way that would authorize: an APPROVED record is only ever put
\* by compare-and-put on WAITING_FOR_HUMAN, a CONSUMED one only on APPROVED,
\* and with terms a human signed.
PendingSigned ==
    \A c \in Callers :
        /\ call[c].op = "put" => call[c].record.status \notin {"APPROVED", "CONSUMED"}
        /\ call[c].op = "compare_and_put" =>
              \/ /\ call[c].expected = "WAITING_FOR_HUMAN"
                 /\ call[c].record.status = "APPROVED"
                 /\ c \in Operators
              \/ /\ call[c].expected = "APPROVED"
                 /\ call[c].record.status = "CONSUMED"
                 /\ c \in Executors
                 /\ \E s \in signed : s.terms = Terms(call[c].record)

\* The inductive invariant of the proofs.
GateInv == AuthorityIsSigned /\ SignatureBudget /\ PendingSigned
=============================================================================
