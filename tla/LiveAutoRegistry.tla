--------------------------- MODULE LiveAutoRegistry ---------------------------
(***************************************************************************)
(* The LIVE_AUTO registry (engines/live_auto/registry.py, persistence.py): *)
(* which strategies may trade unattended, with how much capital, and the   *)
(* ledger of what they realized.  The operator API serves each request on  *)
(* a thread of its own, so a promotion reads the registry, and writes it   *)
(* later, while other requests do the same.                                *)
(*                                                                         *)
(* Abstracted: risk budgets and quantities, which the intent and the risk  *)
(* decision fix between them, versions, evidence, actors and audit.  The   *)
(* capability is enabled and every limit set (assert_enabled).             *)
(***************************************************************************)
EXTENDS Integers, FiniteSets, FiniteSetsExt

CONSTANTS
    Strategies,
    Allocations,     \* capital a promotion may ask for
    max_strategies,
    max_capital,
    max_loss,
    Requests,        \* requests of the operator API
    MaxPnl           \* bound on the absolute value of the ledger's total

ASSUME RegistryAssumption ==
    /\ Allocations \subseteq Nat \ {0}
    /\ max_strategies \in Nat \ {0}
    /\ max_capital \in Nat \ {0}
    /\ max_loss \in Nat \ {0}
    /\ MaxPnl \in Nat

VARIABLES
    strategies,  \* live_auto_strategies; capital 0 stands for no row
    pnl,         \* the total of live_auto_pnl_ledger
    requests     \* promotions and demotions being served

registryVars == <<strategies, pnl, requests>>

Record == [active : BOOLEAN, capital : Allocations \cup {0}]
NoRecord == [active |-> FALSE, capital |-> 0]
NoRequest == [at |-> "new"]
Served == [at |-> "served"]

RegistryTypeOK ==
    /\ strategies \in [Strategies -> Record]
    /\ pnl \in -MaxPnl .. MaxPnl
    /\ requests \in [Requests ->
         {NoRequest, Served} \cup [at : {"promote", "save"}, strategy : Strategies,
                                   record : Record]]

Active == {s \in Strategies : strategies[s].active}
Allocated == MapThenSumSet(LAMBDA s : strategies[s].capital, Active)
-----------------------------------------------------------------------------
(* Governance actions.                                                     *)

\* promote, up to get_strategy: the strategy is not active yet.
Promote(r, s, capital) ==
    /\ requests[r] = NoRequest
    /\ ~strategies[s].active
    /\ requests' = [requests EXCEPT ![r] =
         [at |-> "promote", strategy |-> s, record |-> [active |-> TRUE, capital |-> capital]]]
    /\ UNCHANGED <<strategies, pnl>>

\* promote: the ceilings, on the list of strategies read now.  A refusal is
\* the end of the request.
PromoteCeilings(r) ==
    /\ requests[r].at = "promote"
    /\ requests' = [requests EXCEPT ![r] =
         IF /\ Cardinality(Active) < max_strategies
            /\ Allocated + @.record.capital <= max_capital
         THEN [@ EXCEPT !.at = "save"] ELSE Served]
    /\ UNCHANGED <<strategies, pnl>>

\* demote, up to get_strategy.
Demote(r, s) ==
    /\ requests[r] = NoRequest
    /\ strategies[s].active
    /\ requests' = [requests EXCEPT ![r] =
         [at |-> "save", strategy |-> s, record |-> [strategies[s] EXCEPT !.active = FALSE]]]
    /\ UNCHANGED <<strategies, pnl>>

\* save_strategy, of either request: an unconditional upsert.
save_strategy(r) ==
    /\ requests[r].at = "save"
    /\ strategies' = [strategies EXCEPT ![requests[r].strategy] = requests[r].record]
    /\ requests' = [requests EXCEPT ![r] = Served]
    /\ UNCHANGED pnl

record_realized_pnl(s, amount) ==
    /\ strategies[s] # NoRecord
    /\ amount # 0
    /\ pnl + amount \in -MaxPnl .. MaxPnl
    /\ pnl' = pnl + amount
    /\ UNCHANGED <<strategies, requests>>
-----------------------------------------------------------------------------
(* The reads of assert_submission_authorized and assert_wire_authorized.   *)

active_record(s) == strategies[s].active

assert_ceilings == /\ Cardinality(Active) <= max_strategies
                   /\ Allocated <= max_capital

assert_loss_limit == pnl > -max_loss
=============================================================================
