--------------------------- MODULE MCApprovalGate ---------------------------
(* ApprovalGate on a few operators and execution processes.                *)
EXTENDS ApprovalGate, TLC

CONSTANTS o1, o2, x1, x2, p1, p2

MCOperators == {o1, o2}
MCExecutors == {x1, x2}
MCPrices == {p1, p2}

\* Operators, executors and prices are interchangeable among themselves.
MCSymmetry == Permutations(MCOperators) \cup Permutations(MCExecutors)
              \cup Permutations(MCPrices)
=============================================================================
