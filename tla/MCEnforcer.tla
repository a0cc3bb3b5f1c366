----------------------------- MODULE MCEnforcer -----------------------------
(***************************************************************************)
(* Small instances of Enforcer for TLC.                                    *)
(***************************************************************************)
EXTENDS Enforcer, TLC

CONSTANTS c1, c2, s1, s2, p1, a1, t1, t2, u1

Approval == "approval"

\* A token whose tool t1 needs both an anchor's and an approver's approval.
TwoGates == [agent |-> a1, tools |-> {t1}, principal |-> p1,
             gates |-> {<<Approval, t1>>, <<ApprovalKey, t1>>}, expires |-> 9]
OneGate == [TwoGates EXCEPT !.gates = {<<Approval, t1>>}]
Ungated == [TwoGates EXCEPT !.gates = {}, !.expires = 1]
Plain == [Ungated EXCEPT !.principal = None]
NoPrincipal == [Plain EXCEPT !.tools = {t1, t2}]

ByAnchor(id, expires) ==
  [id |-> id, tool |-> t1, principal |-> p1, approver |-> None, expires |-> expires]
ByKey(id, expires) == [ByAnchor(id, expires) EXCEPT !.approver = u1]

E1 == ByAnchor(1, 2)
E2 == ByKey(2, 2)
E3 == ByAnchor(3, 3)
ForNobody == [ByAnchor(4, 3) EXCEPT !.principal = None]

RelianceEvidence == {E1, E2, E3}
RelianceCarried == {{E1, E2}, {E2, E3}}
AdmissionEvidence == {E1, E2, ForNobody}
AdmissionCarried == {{E1}, {E1, E2}, {ForNobody, E2}}
OnePairEvidence == {E1, E2}
OnePairCarried == {{E1, E2}}
OneEvidence == {E1}
OneCarried == {{E1}}
NoEvidence == {}
NoCarried == {{}}

TwoGateTokens == {TwoGates}
OneGateTokens == {OneGate}
AdmissionTokens == {[TwoGates EXCEPT !.principal = None], NoPrincipal}
PlainTokens == {Plain}
BoundTokens == {Ungated}

AllKinds == {Approval, ApprovalKey, "intent-alignment"}
KnownKinds == {Approval, ApprovalKey}
AllServices == Services
OpenServices == {"policy", "usage"}

Symmetry == Permutations(Calls)
=============================================================================
