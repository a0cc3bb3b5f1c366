------------------------------ MODULE Reliance ------------------------------
(***************************************************************************)
(* What the enforcement point promises about human approvals (R10), with   *)
(* no pipeline, clock or ledger: an approval is relied upon by at most one *)
(* call, and a call whose verdict is given relies on nothing more.         *)
(***************************************************************************)
CONSTANTS Callers, Approvals

VARIABLES
  reliance,  \* the approvals each call has relied upon
  settled    \* the calls whose verdict is given

vars == <<reliance, settled>>

Init ==
  /\ reliance = [c \in Callers |-> {}]
  /\ settled = {}

Rely(c, e) ==
  /\ c \notin settled
  /\ \A d \in Callers : e \notin reliance[d]
  /\ reliance' = [reliance EXCEPT ![c] = @ \cup {e}]
  /\ UNCHANGED settled

Settle(c) ==
  /\ c \notin settled
  /\ settled' = settled \cup {c}
  /\ UNCHANGED reliance

Next == \E c \in Callers : Settle(c) \/ \E e \in Approvals : Rely(c, e)

Spec == Init /\ [][Next]_vars
=============================================================================
