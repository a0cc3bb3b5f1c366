----------------------------- MODULE MCFetchCache -----------------------------
(***************************************************************************)
(* Instances of FetchCache for TLC: two interchangeable threads.           *)
(***************************************************************************)
EXTENDS FetchCache, TLC

\* Deployments are configured with what each issuer published first.
FirstVersion == {d \in Document : d.version = 1 /\ d.seal = 1}

Symmetry == Permutations(Threads)
===============================================================================
