----------------------------- MODULE MCDelegation -----------------------------
(***************************************************************************)
(* Finite instances of Delegation.  The chain instance varies tools,       *)
(* resources, gates, depth and principal; the spend instance varies        *)
(* budgets and per-action caps.                                            *)
(***************************************************************************)
EXTENDS Delegation

MCCredential(subject, tools, budget, depth, ttl, expires, bounded, resources,
             principal, authority, gates) ==
  [subject |-> subject, tools |-> tools, budget |-> budget, depth |-> depth,
   ttl |-> ttl, expires |-> expires, bounded |-> bounded,
   resources |-> resources,
   principal |-> principal, authority |-> authority, gates |-> gates]

MCScope(tools, budget, cap, depth, resources, gates) ==
  [tools |-> tools, budget |-> budget, cap |-> cap, depth |-> depth,
   resources |-> resources, gates |-> gates]

-------------------------------------------------------------------------------
(* Chain instance *)
ChainCredentials ==
  { MCCredential("a1", {"pay", "read"}, None, 2, 1, 2, FALSE, {}, None, {},
                 {<<Approval, "pay">>}),
    MCCredential("a1", {"read"}, None, 1, 2, 2, TRUE, {"r1"}, "alice", {"r1"}, {}) }

ChainScopes ==
  { MCScope({"pay", "read"}, None, None, 2, {}, {}),
    MCScope({"pay", "read"}, None, None, 2, {"r1"}, {<<ApprovalKey, "read">>}),
    MCScope({"pay", "read"}, None, None, 1, {"r1", "r2"}, {}),
    MCScope({"pay"}, None, None, 2, {}, {<<"intent", "pay">>}),
    MCScope({"read"}, None, None, 1, {"r1"}, {}),
    MCScope({"read"}, None, None, 0, {}, {<<ApprovalKey, "read">>}) }

ChainActions ==
  { [tool |-> tool, resource |-> resource, actingFor |-> p, cost |-> None] :
      tool \in {"pay", "read"}, resource \in {None, "r1", "r2"},
      p \in {None, "alice"} }

ChainViews ==
  { [tools |-> {"pay", "read"}, resources |-> {}, budget |-> 2,
     cap |-> None, expires |-> 2] }

NoViews == {}

-------------------------------------------------------------------------------
(* Spend instance *)
SpendCredentials ==
  { MCCredential("a1", {"spend"}, 2, 2, 1, 1, FALSE, {}, None, {}, {}),
    MCCredential("a1", {"spend"}, None, 2, 1, 1, FALSE, {}, None, {}, {}) }

SpendScopes ==
  { MCScope({"spend"}, budget, cap, 2, {}, {}) :
      budget \in {None, 1, 2}, cap \in {None, 1, 2, 3} }

SpendActions ==
  { [tool |-> "spend", resource |-> None, actingFor |-> None, cost |-> cost] :
      cost \in {None, 1, 2, 3} }

(* Both: a scope of one is never within a credential of the other. *)
AllCredentials == ChainCredentials \cup SpendCredentials
AllScopes ==
  ChainScopes \cup {MCScope({"spend"}, amounts[1], amounts[2], 2, {}, {}) :
                     amounts \in {<<None, None>>, <<2, 1>>, <<None, 3>>}}
AllActions ==
  {a \in ChainActions : a.tool = "pay" => a.resource = None}
    \cup {a \in SpendActions : a.cost # 2}

===============================================================================
