---------------------------- MODULE MCIdempotency ----------------------------
(***************************************************************************)
(* Instances of Idempotency for TLC.                                       *)
(***************************************************************************)
EXTENDS Idempotency, TLC

On(store) == [store |-> store, requireKey |-> FALSE, fallBack |-> TRUE, recorded |-> TRUE]
Strict(store) == [On(store) EXCEPT !.requireKey = TRUE, !.recorded = FALSE]

Unkeyed(store) == [On(store) EXCEPT !.fallBack = FALSE]

\* Calls without a key fall back to their record, run unprotected, or are refused.
AllDeployments == {On("memory"), Unkeyed("memory"), Strict("redis")}
InMemory == {On("memory")}

Symmetry == Permutations(Deliveries)
===============================================================================
