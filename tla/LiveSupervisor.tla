---------------------------- MODULE LiveSupervisor ----------------------------
(***************************************************************************)
(* Unattended trading: the live supervisor (apps/live_supervisor), the     *)
(* emergency controls, the LIVE_AUTO registry, the check-emergency command *)
(* cron runs beside it, and the operator API, over one database and one    *)
(* MT4 bridge.                                                             *)
(*                                                                         *)
(* The supervisor trades one strategy, Own.  It dies on every exception    *)
(* its loop does not catch and is started again.  Heartbeats are PUSHed    *)
(* to whichever connected process is next, so the cron monitor takes some  *)
(* of those meant for the supervisor.                                      *)
(*                                                                         *)
(* Abstracted: prices, signals, sizes and the risk decision, which may     *)
(* stop a cycle for any instrument; the reconciliation itself              *)
(* (ExecutionRecovery), of which only whether it is clean remains; order   *)
(* rows; the SAFE_MODE check of a submission, which the startup gate has   *)
(* left off.  Entries are BUY orders; the SELL case is symmetric.          *)
(***************************************************************************)
EXTENDS EmergencyControls, LiveAutoRegistry, Sequences, SequencesExt

CONSTANTS
    Own,            \* the strategy the supervisor runs
    Instruments,    \* the instruments of its configuration, in order
    max_positions,
    DownAfter,      \* down_after_seconds of the connection monitor
    Pause,          \* the shortest sleep of the loops, in ticks
    MaxTickets,     \* bound: tickets the broker ever opens
    Budgets         \* bounds: how often a behaviour meets each kind of incident

ASSUME SupervisorAssumption ==
    /\ Own \in Strategies
    /\ DownAfter \in 1 .. Horizon
    /\ Pause \in Nat \ {0}
    /\ Processes = {"supervisor", "monitor"}
    /\ MaxTickets \in Nat
    /\ Budgets \subseteq [operator : Nat, fault : Nat, monitor : Nat, fills : 0 .. MaxTickets]

Tickets == 1 .. MaxTickets

VARIABLES
    link,       \* whether the bridge is up and reachable
    inbox,      \* per process: the newest queued heartbeat, and fills
    heard,      \* age of the last heartbeat the supervisor's client received
    sock,       \* its REQ socket
    sup,        \* where the supervisor is
    mon,        \* where check-emergency is
    broker,     \* open tickets at the broker: instrument and side
    known,      \* open positions of the database
    diverged,   \* the broker holds something the platform cannot explain
    flatten,    \* policy: flatten_on_heartbeat_loss
    standing,   \* history: obstacles that held ever since they were last looked for
    budget      \* operator requests, faults, monitor runs and fills still to come

supervisorVars == <<link, inbox, heard, sock, sup, mon, broker, known, diverged,
                    flatten, standing, budget>>
vars == <<emergencyVars, registryVars, supervisorVars>>
Down == [at |-> "down", then |-> "down", todo |-> {}, open |-> {}, queue |-> <<>>, left |-> 0]
NoBeat == -1
Empty == [beat |-> NoBeat, fills |-> {}]

\* Where check_emergency and drain_events are called from, and what follows.
AfterCheck == [start |-> "start_request", gate |-> "gate_request", loop |-> "drain",
               drained |-> "request", submit |-> "assert", submitted |-> "cycle"]
AfterDrain == [drain |-> "drained", sent |-> "submitted"]
AfterRead == [active |-> "ceilings", ceilings |-> "loss", loss |-> "record",
              wire_active |-> "wire_ceilings", wire_ceilings |-> "wire_loss",
              wire_loss |-> "send"]
Gate == {"start", "start_request", "gate", "gate_request", "gate_sleep"}
Steps == Gate \cup DOMAIN AfterCheck \cup DOMAIN AfterDrain \cup DOMAIN AfterRead
           \cup {"down", "flatten", "request", "cycle", "assert", "record", "send",
                 "sleep"}

TypeOK ==
    /\ EmergencyTypeOK /\ RegistryTypeOK
    /\ link \in BOOLEAN /\ diverged \in BOOLEAN /\ flatten \in BOOLEAN
    /\ inbox \in [Processes -> [beat : NoBeat .. Horizon, fills : SUBSET Tickets]]
    /\ heard \in 0 .. Horizon
    /\ sock \in {"ready", "wedged"}
    /\ sup \in [at : Steps, then : Steps, todo : SUBSET Tickets,
                open : SUBSET ToSet(Instruments), queue : Seq(ToSet(Instruments)),
                left : 0 .. Pause]
    /\ mon \in {"idle", "drain", "check", "report"}
    /\ broker \in [Tickets -> [state : {"new", "open", "closed"},
                               instrument : ToSet(Instruments), side : {"LONG", "SHORT"}]]
    /\ known \subseteq Tickets
    /\ budget \in [operator : Nat, fault : Nat, monitor : Nat, fills : 0 .. MaxTickets]

Init ==
    /\ EmergencyInit
    /\ strategies = [s \in Strategies |-> IF s = Own THEN [active |-> TRUE, capital |-> 1]
                                          ELSE NoRecord]
    /\ pnl = 0
    /\ requests = [r \in Requests |-> NoRequest]
    /\ link = TRUE /\ diverged \in BOOLEAN /\ flatten \in BOOLEAN
    /\ inbox = [p \in Processes |-> Empty]
    /\ heard = 0 /\ sock = "ready"
    /\ sup = Down /\ mon = "idle"
    /\ broker = [t \in Tickets |-> [state |-> "new", instrument |-> Head(Instruments),
                                    side |-> "LONG"]]
    /\ known = {}
    /\ standing = {}
    /\ budget \in Budgets
-----------------------------------------------------------------------------
(* Which gates have been closed all along, for the properties.            *)

\* What should stop an entry on the instrument, now.
RegistryObstacles ==
    {o \in {"INACTIVE", "CEILING", "LOSS"} :
        CASE o = "INACTIVE" -> ~active_record(Own)
          [] o = "CEILING" -> \/ Cardinality(Active) > max_strategies
                              \/ Allocated > max_capital
          [] OTHER -> pnl <= -max_loss} \X {"registry"}

Obstacles(instrument) ==
    RegistryObstacles
      \cup {c \in controls : c \in {<<"STRATEGY_KILL", Own>>, <<"INSTRUMENT_KILL", instrument>>,
                                    <<"NO_NEW_POSITIONS", "platform">>,
                                    <<"EMERGENCY_KILL", "platform">>}}
      \cup (IF safe THEN {<<"HEARTBEAT_LOST", "platform">>} ELSE {})

Submitting == {"submit", "flatten", "assert", "active", "ceilings", "loss", "record"}
AtWire == {"wire_active", "wire_ceilings", "wire_loss", "send"}

History ==
    standing' =
        CASE sup.at = "cycle" /\ sup'.at = "submit" -> Obstacles(Head(sup.queue))'
          [] sup.at = "record" /\ sup'.at = "wire_active" -> RegistryObstacles'
          [] sup'.at \in Submitting \cup AtWire /\ sup'.queue # <<>> ->
               standing \cap Obstacles(Head(sup.queue))'
          [] OTHER -> {}
-----------------------------------------------------------------------------
(* The bridge and the broker.                                              *)

Fresh == {t \in Tickets : broker[t].state = "new"}
Open == {t \in Tickets : broker[t].state = "open"}
Connected == {p \in Processes : IF p = "supervisor" THEN sup.at # "down" ELSE mon # "idle"}

Spend(kind) == budget[kind] > 0 /\ budget' = [budget EXCEPT ![kind] = @ - 1]

\* A tick that finds a process between two steps is a stall of that process;
\* the time the others take is negligible.
Stalled == sup.at \notin {"down", "sleep", "gate_sleep"} \/ mon \in {"check", "report"}

\* Time passes.  The bridge pushes a heartbeat to one connected process.
Tick ==
    /\ IF Stalled THEN Spend("fault") ELSE UNCHANGED budget
    /\ ref' = [p \in Processes |-> IF p \in Connected THEN Older(ref[p]) ELSE ref[p]]
    /\ heard' = IF "supervisor" \in Connected THEN Older(heard) ELSE heard
    /\ sup' = [sup EXCEPT !.left = IF @ > 0 THEN @ - 1 ELSE 0]
    /\ LET aged == [p \in Processes |->
                   [inbox[p] EXCEPT !.beat = IF @ = NoBeat THEN @ ELSE Older(@)]]
       IN  IF link /\ Connected # {}
           THEN \E p \in Connected :
                  inbox' = [aged EXCEPT ![p].beat = 0]
           ELSE inbox' = aged
    /\ UNCHANGED <<controls, safe, registryVars, link, sock, mon, broker, known,
                   diverged, flatten>>
    /\ History

\* process_submit of a MARKET order: always a new ticket, of the order's side,
\* and a position snapshot pushed to one connected process.
Fill(instrument, side) ==
    LET t == Min(Fresh)
    IN  /\ Fresh # {} /\ Spend("fills")
        /\ broker' = [broker EXCEPT ![t] =
             [state |-> "open", instrument |-> instrument, side |-> side]]
        /\ \E p \in Connected : inbox' = [inbox EXCEPT ![p].fills = @ \cup {t}]

\* The broker closes a ticket at its stop or target.
VenueClose(t) ==
    /\ t \in Open
    /\ broker' = [broker EXCEPT ![t].state = "closed"]
    /\ UNCHANGED <<emergencyVars, registryVars, link, inbox, heard, sock, sup, mon,
                   known, diverged, flatten, budget>>
    /\ History

Outage ==
    /\ link /\ Spend("fault")
    /\ link' = FALSE
    /\ UNCHANGED <<emergencyVars, registryVars, inbox, heard, sock, sup, mon, broker,
                   known, diverged, flatten>>
    /\ History

\* The bridge is back, or an operator explained the divergence.
Repair ==
    /\ \/ ~link /\ link' = TRUE /\ UNCHANGED diverged
       \/ diverged /\ diverged' = FALSE /\ UNCHANGED link
    /\ UNCHANGED <<emergencyVars, registryVars, inbox, heard, sock, sup, mon, broker,
                   known, flatten, budget>>
    /\ History
-----------------------------------------------------------------------------
(* Calls the supervisor makes from several places.                         *)

At(step) == sup' = [sup EXCEPT !.at = step]

\* The process is gone, its sockets and its controller with it; the ages of
\* those of the next one start from 0.
Dies ==
    /\ sup' = Down
    /\ Arm("supervisor") /\ heard' = 0 /\ sock' = "ready"
    /\ inbox' = [inbox EXCEPT !["supervisor"] = Empty]

\* send_command refuses while no heartbeat was received for DownAfter.
Blocked == heard >= DownAfter

\* A request is answered.
Answered == ~Blocked /\ sock = "ready" /\ link

\* check_dead_man, and the positions its flattener reads when it engages.
check_emergency ==
    /\ sup.at \in DOMAIN AfterCheck
    /\ check_dead_man("supervisor")
    /\ LET next == AfterCheck[sup.at]
       IN  sup' = IF flatten /\ Engages("supervisor") /\ known # {}
                  THEN [sup EXCEPT !.at = "flatten", !.then = next, !.todo = known]
                  ELSE [sup EXCEPT !.at = next]
    /\ UNCHANGED <<controls, ref, registryVars, link, inbox, heard, sock, mon, broker,
                   known, diverged, flatten, budget>>
    /\ History

\* The queued heartbeats and fills, whichever process drains them.
Applied(p) ==
    /\ IF inbox[p].beat = NoBeat THEN UNCHANGED <<ref, safe>>
                                 ELSE on_heartbeat(p, inbox[p].beat)
    /\ known' = known \cup inbox[p].fills
    /\ inbox' = [inbox EXCEPT ![p] = Empty]

drain_events ==
    /\ sup.at \in DOMAIN AfterDrain
    /\ Applied("supervisor")
    /\ heard' = IF inbox["supervisor"].beat = NoBeat THEN heard ELSE 0
    /\ At(AfterDrain[sup.at])
    /\ UNCHANGED <<controls, registryVars, link, sock, mon, broker, diverged, flatten,
                   budget>>
    /\ History

\* An offsetting MARKET order for position t, stamped CORE-EMERGENCY.  Its
\* authorizer wants the emergency still active and the position still open.
flatten_position(t) ==
    /\ sup.at = "flatten" /\ t \in sup.todo
    /\ LET left == sup.todo \ {t}
           authorized == /\ safe \/ <<"EMERGENCY_KILL", "platform">> \in controls
                         /\ t \in known
       IN  IF authorized /\ Answered
           THEN /\ \/ Fill(broker[t].instrument, IF broker[t].side = "LONG" THEN "SHORT" ELSE "LONG")
                   \/ UNCHANGED <<broker, inbox, budget>>  \* rejected by the venue
                /\ sup' = [sup EXCEPT !.todo = left, !.at = IF left = {} THEN sup.then ELSE @]
                /\ UNCHANGED <<ref, heard, sock>>
           ELSE Dies /\ UNCHANGED <<broker, budget>>
    /\ UNCHANGED <<controls, safe, registryVars, link, mon, known, diverged, flatten>>
    /\ History
-----------------------------------------------------------------------------
(* Starting: serve up to the end of the startup gate.                      *)

Start ==
    /\ sup.at = "down"
    /\ sup' = [Down EXCEPT !.at = "start"]
    /\ UNCHANGED <<emergencyVars, registryVars, link, inbox, heard, sock, mon, broker,
                   known, diverged, flatten, budget>>
    /\ History

\* The request of startup_reconciliation.  A refused or unanswered one is
\* caught and leaves SAFE_MODE on; a send on a socket that still waits for a
\* reply is not.  The outcome of the first one is dropped.
startup_reconciliation ==
    /\ sup.at \in {"start_request", "gate_request"}
    /\ IF ~Blocked /\ sock = "wedged"
       THEN Dies /\ UNCHANGED known
       ELSE /\ known' = IF Answered THEN Open ELSE known
            /\ sock' = IF Blocked \/ link THEN sock ELSE "wedged"
            /\ sup' = CASE sup.at = "start_request" -> [sup EXCEPT !.at = "gate"]
                        [] sup.at = "gate_request" /\ Answered /\ ~diverged -> [sup EXCEPT !.at = "loop"]
                        [] OTHER -> [sup EXCEPT !.at = "gate_sleep", !.left = Pause]
            /\ UNCHANGED <<ref, heard, inbox>>
    /\ UNCHANGED <<controls, safe, registryVars, link, mon, broker, diverged, flatten, budget>>
    /\ History

\* time.sleep is over.
Wake ==
    /\ sup.at \in {"gate_sleep", "sleep"}
    /\ sup.left = 0
    /\ At(IF sup.at = "sleep" THEN "loop" ELSE "gate")
    /\ UNCHANGED <<emergencyVars, registryVars, link, inbox, heard, sock, mon, broker,
                   known, diverged, flatten, budget>>
    /\ History
-----------------------------------------------------------------------------
(* One cycle of the loop.                                                  *)


\* client.reconcile: the portfolio of this cycle is the broker's now.
Reconcile ==
    /\ sup.at = "request"
    /\ IF Answered
       THEN /\ sup' = [sup EXCEPT !.at = "cycle", !.queue = Instruments,
                                  !.open = {broker[t].instrument : t \in Open}]
            /\ UNCHANGED <<ref, heard, sock, inbox>>
       ELSE Dies
    /\ UNCHANGED <<controls, safe, registryVars, link, mon, broker, known, diverged,
                   flatten, budget>>
    /\ History

\* _cycle_one: no quote, no signal or no approval ends it for any instrument.
cycle_one ==
    /\ sup.at = "cycle"
    /\ IF sup.queue = <<>>
       THEN sup' = [sup EXCEPT !.at = "sleep", !.left = Pause]
       ELSE \/ sup' = [sup EXCEPT !.queue = Tail(@)]
            \/ /\ Head(sup.queue) \notin sup.open
               /\ Cardinality(sup.open) < max_positions
               /\ At("submit")
    /\ UNCHANGED <<emergencyVars, registryVars, link, inbox, heard, sock, mon, broker,
                   known, diverged, flatten, budget>>
    /\ History
-----------------------------------------------------------------------------
(* ExecutionService.submit.  A refusal is an exception nothing catches.    *)

\* The supervisor goes on when the gate is open and dies when it is not.
Pass(open, step) ==
    /\ IF open THEN At(step) /\ UNCHANGED <<ref, heard, sock, inbox>> ELSE Dies
    /\ UNCHANGED <<controls, safe, registryVars, link, mon, broker, known, diverged,
                   flatten, budget>>
    /\ History

assert_can_enter ==
    /\ sup.at = "assert"
    /\ Pass(blocked_reasons(Own, Head(sup.queue)) = {}, "active")

MutAssertAuthorized ==
    /\ sup.at \in DOMAIN AfterRead
    /\ Pass(CASE sup.at \in {"active", "wire_active"} -> active_record(Own)
              [] sup.at \in {"ceilings", "wire_ceilings"} -> assert_ceilings
              [] sup.at = "loss" -> assert_loss_limit
              [] OTHER -> TRUE,
            AfterRead[sup.at])

\* One read of the registry, of the submission or of the wire re-check.
assert_authorized ==
    /\ sup.at \in DOMAIN AfterRead
    /\ Pass(CASE sup.at \in {"active", "wire_active"} -> active_record(Own)
              [] sup.at \in {"ceilings", "wire_ceilings"} -> assert_ceilings
              [] OTHER -> assert_loss_limit,
            AfterRead[sup.at])

\* What the intent and the risk decision fix between them (quantity, budget,
\* quote age) holds or not; then record_order_intent and record_submitted.
record_submitted ==
    /\ sup.at = "record"
    /\ \E accepted \in BOOLEAN : Pass(accepted, "wire_active")

\* The command is sent and answered by a fill or a rejection, or not sent.
submit_order ==
    /\ sup.at = "send"
    /\ IF Answered
       THEN /\ \/ Fill(Head(sup.queue), "LONG")
               \/ UNCHANGED <<broker, inbox, budget>>
            /\ sup' = [sup EXCEPT !.at = "sent", !.queue = Tail(@)]
            /\ UNCHANGED <<ref, heard, sock>>
       ELSE Dies /\ UNCHANGED <<broker, budget>>
    /\ UNCHANGED <<controls, safe, registryVars, link, mon, known, diverged, flatten>>
    /\ History

Crash ==
    /\ sup.at # "down" /\ Spend("fault")
    /\ Dies
    /\ UNCHANGED <<controls, safe, registryVars, link, mon, broker, known, diverged, flatten>>
    /\ History
-----------------------------------------------------------------------------
(* check-emergency: a controller of its own, armed when it starts.         *)

MonitorStart ==
    /\ mon = "idle" /\ mon' = "drain" /\ Spend("monitor")
    /\ UNCHANGED <<emergencyVars, registryVars, link, inbox, heard, sock, sup, broker,
                   known, diverged, flatten>>
    /\ History

MonitorDrain ==
    /\ mon = "drain" /\ mon' = "check"
    /\ Applied("monitor")
    /\ UNCHANGED <<controls, registryVars, link, heard, sock, sup, broker, diverged,
                   flatten, budget>>
    /\ History

\* drain_events ends with a check, and the command makes another; what its
\* socket still holds when it closes is lost.
MonitorCheck ==
    /\ mon \in {"check", "report"}
    /\ mon' = IF mon = "check" THEN "report" ELSE "idle"
    /\ check_dead_man("monitor")
    /\ IF mon = "report" THEN Arm("monitor") /\ inbox' = [inbox EXCEPT !["monitor"] = Empty]
                         ELSE UNCHANGED <<ref, inbox>>
    /\ UNCHANGED <<controls, registryVars, link, heard, sock, sup, broker, known,
                   diverged, flatten, budget>>
    /\ History
-----------------------------------------------------------------------------
(* The operator API.                                                       *)

OperatorControl(c) ==
    /\ \/ c \notin controls /\ Spend("operator") /\ activate(c)
       \/ c \in controls /\ deactivate(c) /\ UNCHANGED budget
    /\ UNCHANGED <<safe, ref, registryVars, link, inbox, heard, sock, sup, mon, broker,
                   known, diverged, flatten>>
    /\ History

OperatorRegistry ==
    /\ \/ /\ Spend("operator")
          /\ \/ \E r \in Requests, s \in Strategies :
                  Demote(r, s) \/ \E capital \in Allocations : Promote(r, s, capital)
             \/ \E s \in Strategies, amount \in {-1, 1} : record_realized_pnl(s, amount)
       \/ \E r \in Requests : (PromoteCeilings(r) \/ save_strategy(r)) /\ UNCHANGED budget
    /\ UNCHANGED <<emergencyVars, link, inbox, heard, sock, sup, mon, broker, known,
                   diverged, flatten>>
    /\ History
-----------------------------------------------------------------------------
SupervisorStep ==
    \/ Start \/ Wake
    \/ check_emergency \/ drain_events \/ startup_reconciliation \/ Reconcile \/ cycle_one
    \/ assert_can_enter \/ assert_authorized \/ record_submitted \/ submit_order
    \/ \E t \in Tickets : flatten_position(t)

MonitorStep == MonitorDrain \/ MonitorCheck

Next ==
    \/ SupervisorStep \/ MonitorStep \/ MonitorStart
    \/ Tick \/ Outage \/ Repair \/ Crash
    \/ \E t \in Tickets : VenueClose(t)
    \/ \E c \in Control : OperatorControl(c)
    \/ OperatorRegistry

Spec == Init /\ [][Next]_vars
FairSpec == Spec /\ WF_vars(SupervisorStep) /\ WF_vars(MonitorStep) /\ WF_vars(Tick)
-----------------------------------------------------------------------------
(* Properties.                                                             *)

\* An order of the supervisor is recorded only if every gate was open at some
\* moment of its submission: no kill switch, no lost heartbeat, no demotion,
\* ceiling or loss limit stood in its way from the start of submit to
\* record_order_intent.  An operator's request in the middle of the
\* submission is the only one that may come too late.
EntryChecked == sup.at = "record" => standing = {}

\* assert_wire_authorized looks again: what the registry forbids from the
\* moment the order is recorded SUBMITTED stops it at the wire.
WireChecked == sup.at = "send" => standing = {}



\* With the bridge back for good and a supervisor past its startup gate, the
\* safe execution state does not last: a drained heartbeat lifts it.
SafeStateLifts == <>[](link /\ sup.at \notin Gate \cup {"down"}) => []<>~safe

\* supervisor.py: the startup gate refuses to trade until the state is clean,
\* so with the bridge up and nothing left to explain it opens.
GateOpens == <>[](link /\ ~diverged) => ~<>[](sup.at \in Gate)
=============================================================================
