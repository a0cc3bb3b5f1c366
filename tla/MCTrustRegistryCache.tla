------------------------- MODULE MCTrustRegistryCache -------------------------
(***************************************************************************)
(* Instances of TrustRegistryCache for TLC.                                *)
(***************************************************************************)
EXTENDS TrustRegistryCache, TLC

CONSTANT k1   \* the issuer whose source is configured

FirstVersion == {d \in Document : d.version = 1 /\ d.seal = 1}

FirstOfK1 == {d \in FirstVersion : d.key = k1}

Symmetry == Permutations(Threads)
===============================================================================
