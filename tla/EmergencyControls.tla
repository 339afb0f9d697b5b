--------------------------- MODULE EmergencyControls ---------------------------
(***************************************************************************)
(* The emergency controls of engines/execution/emergency.py: the kill      *)
(* switches an operator sets, and the dead man switch that blocks entries  *)
(* when the heartbeat of the MT4 bridge is lost.                           *)
(*                                                                         *)
(* The controls and the safe execution state are rows of PostgreSQL that   *)
(* every process shares; the time of the last heartbeat is a field of each *)
(* process's own EmergencyController.  Times are kept as ages: how many    *)
(* ticks ago.  From Horizon on, ages are not told apart.                   *)
(*                                                                         *)
(* Abstracted: actors, reasons, audit, events and alerts.  The dead man    *)
(* switch is enabled, as it is by default.                                 *)
(***************************************************************************)
EXTENDS Integers, FiniteSets

CONSTANTS
    Names,      \* the strategies and instruments a control may target
    Processes,  \* processes that own an EmergencyController with a link
    Timeout,    \* EmergencyPolicy.heartbeat_timeout
    Horizon     \* bound: the greatest age

ASSUME EmergencyAssumption ==
    /\ Timeout \in Nat
    /\ Horizon \in Nat
    /\ Timeout < Horizon

VARIABLES
    controls,  \* the active emergency controls
    safe,      \* dead_man_switch_state.safe_execution_state
    ref        \* per process, the age of its last heartbeat or of its start

emergencyVars == <<controls, safe, ref>>

\* A level and its target (_validate_target).
Control == ({"STRATEGY_KILL", "INSTRUMENT_KILL"} \X Names)
             \cup ({"NO_NEW_POSITIONS", "EMERGENCY_KILL"} \X {"platform"})


Older(age) == IF age < Horizon THEN age + 1 ELSE age

EmergencyTypeOK ==
    /\ controls \subseteq Control
    /\ safe \in BOOLEAN
    /\ ref \in [Processes -> 0 .. Horizon]

EmergencyInit ==
    /\ controls = {}
    /\ safe = FALSE
    /\ ref = [p \in Processes |-> 0]
-----------------------------------------------------------------------------
(* Operator controls.  Both writes are upserts of one row.                 *)

activate(c) == controls' = controls \cup {c}
deactivate(c) == controls' = controls \ {c}

MutBlockedReasons(strategy, instrument) ==
    {c \in controls : c = <<"STRATEGY_KILL", strategy>> \/ c = <<"INSTRUMENT_KILL", instrument>>}
      \cup (IF safe THEN {<<"HEARTBEAT_LOST", "platform">>} ELSE {})

blocked_reasons(strategy, instrument) ==
    {c \in controls : \/ c = <<"STRATEGY_KILL", strategy>>
                      \/ c = <<"INSTRUMENT_KILL", instrument>>
                      \/ c[1] \in {"NO_NEW_POSITIONS", "EMERGENCY_KILL"}}
      \cup (IF safe THEN {<<"HEARTBEAT_LOST", "platform">>} ELSE {})
-----------------------------------------------------------------------------
(* The dead man switch, evaluated by process p.                            *)


Lost(p) == ref[p] > Timeout

\* check_dead_man engages; its flattening is the caller's next step.
Engages(p) == ~safe /\ Lost(p)

check_dead_man(p) == safe' = (safe \/ Lost(p))

MutOnHeartbeat(p, age) ==
    /\ ref' = [ref EXCEPT ![p] = age]
    /\ UNCHANGED safe

\* A heartbeat stamped age ticks ago restores the safe state, however old it is.
on_heartbeat(p, age) ==
    /\ ref' = [ref EXCEPT ![p] = age]
    /\ safe' = FALSE

\* A new process starts its own controller.
Arm(p) == ref' = [ref EXCEPT ![p] = 0]
=============================================================================
