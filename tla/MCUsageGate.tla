----------------------------- MODULE MCUsageGate -----------------------------
(***************************************************************************)
(* Instances of UsageGate for TLC.                                         *)
(***************************************************************************)
EXTENDS UsageGate, TLC

PerWindow(limit, per) ==
  [kind |-> "rate", limit |-> limit, per |-> per, lifetimeTtl |-> 1]
Lifetime(limit, ttl) ==
  [kind |-> "spend", limit |-> limit, per |-> None, lifetimeTtl |-> ttl]

\* A rate limit, then a budget whose counter two idle ticks forget.
RateAndBudget == <<PerWindow(1, 1), Lifetime(2, 2)>>
\* A budget that is forgotten after two idle ticks.
ShortBudget == <<Lifetime(1, 2)>>

\* A refund, and a call of cost 1.
CallCosts == {-1, 1}

Symmetry == Permutations(Calls)
===============================================================================
