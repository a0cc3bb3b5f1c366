------------------------------ MODULE Delegation ------------------------------
(***************************************************************************)
(* The delegation token of agentcreds-core (src/delegation/mod.rs): a      *)
(* capability credential is minted into a token, every hop attenuates it,  *)
(* and a relying party verifies an action against it.                      *)
(*                                                                         *)
(* A token is an immutable value and every operation returns a new one, so *)
(* the module follows ONE lineage: root, blocks and hops are the token the *)
(* holder has now.  Block 1 is the Biscuit's authority block, block k > 1  *)
(* the third-party block appended at hop k; the signatures over them are   *)
(* taken as sound.  hops is the audit view that travels beside the         *)
(* Biscuit, which the wire does not protect.                               *)
(***************************************************************************)
EXTENDS Integers, Sequences, FiniteSets

CONSTANTS
  Agents,       \* agent DIDs
  Tools,        \* tool identifiers
  Resources,    \* resource identifiers
  Principals,   \* human principals
  GateKinds,    \* gate kinds that may be designated
  Recognized,   \* the kinds this relying party lists as recognized
  Credentials,  \* the anchor-issued credentials in circulation
  Scopes,       \* the scopes callers pass to mint and attenuate
  Actions,      \* the actions relying parties are asked about
  Ttls,         \* the lifetimes callers ask for
  Horizon,      \* bound of the clock
  ViewEdits,    \* audit views that may be substituted on the wire
  QueryReadsEveryBlock, \* what Authorizer::query can see (external)
  None          \* Option::None

(***************************************************************************)
(* Handlers exist for two gate kinds only; Gate::INTENT has none.          *)
(***************************************************************************)
Approval == "approval"
ApprovalKey == "approval-key"
Handled == {Approval, ApprovalKey}

Optional(S) == S \cup {None}
Gate == GateKinds \X Tools

Scope == [tools: SUBSET Tools, budget: Optional(Nat), cap: Optional(Nat),
          depth: Nat, resources: SUBSET Resources, gates: SUBSET Gate]

\* bounded says whether the claim names resources at all; resources is the set
\* its patterns cover.
Credential == [subject: Agents, tools: SUBSET Tools, budget: Optional(Nat),
               depth: Nat, ttl: Nat, expires: Nat,
               bounded: BOOLEAN, resources: SUBSET Resources,
               principal: Optional(Principals),
               authority: SUBSET Resources, gates: SUBSET Gate]

Action == [tool: Tools, resource: Optional(Resources),
           actingFor: Optional(Principals), cost: Optional(Nat)]

Root == [vc: Credentials, subject: Agents, depth: Nat,
         budget: Optional(Nat), principal: Optional(Principals)]

Block == [signer: Agents, tools: SUBSET Tools, expires: Nat,
          resources: SUBSET Resources, cap: Optional(Nat),
          gates: SUBSET Gate]

Hop == [agent: Agents, tools: SUBSET Tools, resources: SUBSET Resources,
        budget: Optional(Nat), cap: Optional(Nat), issued: Nat, expires: Nat,
        depth: Nat]

View == [tools: SUBSET Tools, resources: SUBSET Resources,
         budget: Optional(Nat), cap: Optional(Nat), expires: Nat]

ASSUME DelegationAssumption ==
  /\ None \notin Nat \cup Agents \cup Resources \cup Principals
  /\ Credentials \subseteq Credential
  /\ Scopes \subseteq Scope
  /\ Actions \subseteq Action
  /\ ViewEdits \subseteq View
  /\ Ttls \subseteq Nat
  /\ Horizon \in Nat
  /\ None \notin Credentials
  /\ QueryReadsEveryBlock \in BOOLEAN

VARIABLES
  root,      \* the authority block's facts, None before the token is minted
  blocks,    \* the checks each block adds
  hops,      \* the audit view, one entry per block
  now,       \* seconds
  asserted   \* history: the scopes the token was minted and attenuated with

vars == <<root, blocks, hops, now, asserted>>

-------------------------------------------------------------------------------
(***************************************************************************)
(* Scope comparison and the values read back from the Biscuit.             *)
(***************************************************************************)
AtMost(child, parent) == child # None /\ parent # None => child <= parent

\* "A per-action cap can only tighten, and REMOVING one is widening."
CapNarrows(child, parent) ==
  /\ parent.cap # None => child.cap # None
  /\ AtMost(child.cap, parent.cap)

\* Faulty: a cap is not held against the parent's budget.
CapUnfunded(child, parent) == TRUE

CapWithinBudget(child, parent) == AtMost(child.cap, parent.budget)

IsSubsetOf(child, parent) ==
  /\ child.tools \subseteq parent.tools
  /\ AtMost(child.budget, parent.budget)
  /\ child.depth <= parent.depth
  /\ CapNarrows(child, parent)
  /\ CapWithinBudget(child, parent)

\* What a query over the token's facts can see (hydrate's az.query).
Queried == IF QueryReadsEveryBlock THEN DOMAIN blocks ELSE {1}

\* Faulty: only the gates of the newest block are read.
NewestGates == blocks[Len(blocks)].gates

Gates == UNION {blocks[k].gates : k \in Queried}

\* root_max_action_cost_cache: the least cap among the queried facts.
EffectiveCap ==
  LET caps == {blocks[k].cap : k \in Queried} \ {None}
  IN IF caps = {} THEN None ELSE CHOOSE c \in caps : \A d \in caps : c <= d

CredentialScope(vc) ==
  [tools |-> vc.tools, budget |-> vc.budget, cap |-> None, depth |-> vc.depth]

RootScope == [tools |-> blocks[1].tools, budget |-> root.budget,
              cap |-> EffectiveCap, depth |-> root.depth]

Leaf == hops[Len(hops)]
Depth == Len(hops) - 1
Earlier(a, b) == IF a <= b THEN a ELSE b

-------------------------------------------------------------------------------
(***************************************************************************)
(* Minting and attenuating.                                                *)
(***************************************************************************)
BlockOf(agent, scope, expires, gates) ==
  [signer |-> agent, tools |-> scope.tools, expires |-> expires,
   resources |-> scope.resources, cap |-> scope.cap, gates |-> gates]

HopOf(agent, scope, expires, depth) ==
  [agent |-> agent, tools |-> scope.tools, resources |-> scope.resources,
   budget |-> scope.budget, cap |-> scope.cap, issued |-> now,
   expires |-> expires, depth |-> depth]

\* Faulty: the autonomy ceiling is not applied to the requested lifetime.
GrantsAnyTtl(vc, scope, ttl, agent) ==
  /\ now <= vc.expires
  /\ agent = vc.subject
  /\ IsSubsetOf(scope, CredentialScope(vc))
  /\ vc.bounded => scope.resources \subseteq vc.resources
  /\ vc.principal # None /\ vc.authority # {}
       => scope.resources \subseteq vc.authority

\* The checks mint makes before it builds anything.
Grants(vc, scope, ttl, agent) ==
  /\ now <= vc.expires
  /\ agent = vc.subject
  /\ ttl <= vc.ttl
  /\ IsSubsetOf(scope, CredentialScope(vc))
  /\ vc.bounded => scope.resources \subseteq vc.resources
  /\ vc.principal # None /\ vc.authority # {}
       => scope.resources \subseteq vc.authority

Mint(vc, scope, ttl, agent) ==
  LET expires == Earlier(vc.expires, now + ttl) IN
  /\ root = None
  /\ Grants(vc, scope, ttl, agent)
  /\ root' = [vc |-> vc, subject |-> vc.subject, depth |-> scope.depth,
              budget |-> scope.budget, principal |-> vc.principal]
  /\ blocks' = <<BlockOf(agent, scope, expires, scope.gates \cup vc.gates)>>
  /\ hops' = <<HopOf(agent, scope, expires, 0)>>
  /\ asserted' = <<scope>>
  /\ UNCHANGED now

(***************************************************************************)
(* attenuate compares the narrower scope with the LEAF's audit view, its   *)
(* depth clamped first; only tools, expiry, resources, cap and gates go    *)
(* into the block.                                                         *)
(***************************************************************************)
ParentScope ==
  [tools |-> Leaf.tools, budget |-> Leaf.budget, cap |-> EffectiveCap,
   depth |-> IF Leaf.depth <= root.depth THEN root.depth - Leaf.depth ELSE 0]

Clamped(scope) ==
  [scope EXCEPT !.depth = Earlier(scope.depth, ParentScope.depth)]

\* Faulty: the child's expiry is not capped at its parent's.
ChildFreshExpiry(ttl) == now + ttl

ChildExpiry(ttl) == Earlier(Leaf.expires, now + ttl)

Attenuate(narrow, ttl, agent) ==
  LET expires == ChildExpiry(ttl) IN
  /\ root # None
  /\ Depth < root.depth
  /\ IsSubsetOf(Clamped(narrow), ParentScope)
  /\ blocks' = Append(blocks, BlockOf(agent, narrow, expires, narrow.gates))
  /\ hops' = Append(hops, HopOf(agent, narrow, expires, Leaf.depth + 1))
  /\ asserted' = Append(asserted, narrow)
  /\ UNCHANGED <<root, now>>

\* The wire form carries hops unprotected: a round trip may replace the
\* advisory fields of any hop (its agent and key are checked on verify).
EditView(k, view) ==
  /\ root # None
  /\ k \in DOMAIN hops
  /\ hops' = [hops EXCEPT ![k] =
                [@ EXCEPT !.tools = view.tools, !.resources = view.resources,
                          !.budget = view.budget, !.cap = view.cap,
                          !.expires = view.expires]]
  /\ UNCHANGED <<root, blocks, now, asserted>>

Tick ==
  /\ now < Horizon
  /\ now' = now + 1
  /\ UNCHANGED <<root, blocks, hops, asserted>>

Init ==
  /\ root = None
  /\ blocks = <<>>
  /\ hops = <<>>
  /\ now = 0
  /\ asserted = <<>>

Next ==
  \/ \E vc \in Credentials, scope \in Scopes, ttl \in Ttls, agent \in Agents :
       Mint(vc, scope, ttl, agent)
  \/ \E narrow \in Scopes, ttl \in Ttls, agent \in Agents :
       Attenuate(narrow, ttl, agent)
  \/ \E k \in 1..Len(hops), view \in ViewEdits : EditView(k, view)
  \/ Tick

Spec == Init /\ [][Next]_vars

-------------------------------------------------------------------------------
(***************************************************************************)
(* The relying party's checks, as the predicates they return Ok on.        *)
(***************************************************************************)
ChainAuthentic ==
  /\ Len(blocks) = Len(hops)
  /\ root.subject = hops[1].agent
  /\ \A k \in DOMAIN hops : blocks[k].signer = hops[k].agent

\* One block's Datalog checks over the facts of the request.
BlockPermits(block, act) ==
  /\ act.tool \in block.tools
  /\ now <= block.expires
  /\ block.resources # {} => act.resource \in block.resources
  /\ block.cap # None => act.cost # None
  /\ AtMost(act.cost, block.cap)

\* Faulty: only the leaf's checks are run.
LeafAuthorizes(act) == BlockPermits(blocks[Len(blocks)], act)

\* The Biscuit authorizer: every block's checks must pass (external).
BlocksAuthorize(act) == \A k \in DOMAIN blocks : BlockPermits(blocks[k], act)

Verify(act) ==
  /\ root # None
  /\ ChainAuthentic
  /\ Depth <= root.depth
  /\ \A k \in DOMAIN hops : now <= hops[k].expires
  /\ root.principal # None => act.actingFor = root.principal
  /\ BlocksAuthorize(act)

VerifyRooted(vc, act) ==
  /\ Verify(act)
  /\ now <= vc.expires
  /\ root.vc = vc
  /\ root.subject = vc.subject
  /\ IsSubsetOf(RootScope, CredentialScope(vc))
  /\ root.principal = vc.principal
  /\ vc.principal # None /\ vc.authority # {}
       => blocks[1].resources \subseteq vc.authority

\* satisfied: the gate kinds for which valid evidence accompanies the request.
VerifyRootedGated(vc, act, satisfied) ==
  /\ VerifyRooted(vc, act)
  /\ \A gate \in Gates \cup vc.gates :
       gate[2] = act.tool => gate[1] \in Recognized \cap Handled \cap satisfied

-------------------------------------------------------------------------------
TypeOK ==
  /\ root \in Optional(Root)
  /\ blocks \in Seq(Block)
  /\ hops \in Seq(Hop)
  /\ now \in Nat
  /\ asserted \in Seq(Scope)

(***************************************************************************)
(* Whatever chain of mint, attenuate and wire edits produced the token, an *)
(* action verify_rooted accepts against a credential is one that           *)
(* credential grants: its tools, its lifetime, its depth, its principal    *)
(* and, for a capped token, its budget as a bound on the single action     *)
(* (mod.rs: "tampering with them cannot widen authority").                 *)
(***************************************************************************)
AuthorityWithinCredential ==
  \A vc \in Credentials, act \in Actions :
    VerifyRooted(vc, act) =>
      /\ act.tool \in vc.tools
      /\ now <= vc.expires
      /\ Depth <= vc.depth
      /\ vc.principal # None => act.actingFor = vc.principal
      /\ blocks[1].cap # None => act.cost # None /\ AtMost(act.cost, vc.budget)

(***************************************************************************)
(* The autonomy ceiling "holds the bound down the whole chain": no token   *)
(* verifies later than the ceiling after it was minted, however often it   *)
(* was attenuated and whatever its audit view says.                        *)
(***************************************************************************)
AutonomyCeilingHolds ==
  \A vc \in Credentials, act \in Actions :
    VerifyRooted(vc, act) => now <= hops[1].issued + vc.ttl

Edited(hop) ==
  \E view \in ViewEdits :
    /\ hop.tools = view.tools /\ hop.resources = view.resources
    /\ hop.budget = view.budget /\ hop.cap = view.cap /\ hop.expires = view.expires

Untouched == \A k \in DOMAIN hops : ~Edited(hops[k])

(***************************************************************************)
(* As long as nobody rewrote the audit view, the leaf hop the relying      *)
(* party shows is the authority the blocks enforce: every tool it names is *)
(* allowed by all blocks, and no block expires before it says.             *)
(***************************************************************************)
LeafViewIsEffective ==
  root # None /\ Untouched =>
    \A k \in DOMAIN blocks :
      /\ Leaf.tools \subseteq blocks[k].tools
      /\ Leaf.expires <= blocks[k].expires

(***************************************************************************)
(* A gate ANY hop added is demanded: "A sub-delegator may add execution-   *)
(* time gates" and they "travel" in append-only facts.                     *)
(***************************************************************************)
AddedGatesDesignate ==
  \A vc \in Credentials, act \in Actions, satisfied \in SUBSET GateKinds :
    VerifyRootedGated(vc, act, satisfied) =>
      \A k \in DOMAIN blocks : \A gate \in blocks[k].gates :
        gate[2] = act.tool => gate[1] \in satisfied

(***************************************************************************)
(* attenuate does not "report success against a bound the verifier will    *)
(* then refuse": the cap a hop asserts is the one the chain enforces.      *)
(***************************************************************************)
AssertedCapIsEnforced ==
  root # None /\ asserted[Len(asserted)].cap # None =>
    \A k \in DOMAIN blocks :
      AtMost(asserted[Len(asserted)].cap, blocks[k].cap)

(***************************************************************************)
(* Attenuation only narrows: whatever the child token is accepted for, its *)
(* parent would have been accepted for at the same instant.                *)
(***************************************************************************)
AttenuationOnlyNarrows ==
  [][root # None /\ Len(blocks') > Len(blocks) =>
       \A vc \in Credentials, act \in Actions :
         VerifyRooted(vc, act)' => VerifyRooted(vc, act)]_vars

(***************************************************************************)
(* R10, monotone designation: neither an attenuation by any hop nor an     *)
(* edit of the view on the wire sheds a gate.  Whatever evidence lets an   *)
(* action through after the step let it through before, if the token was   *)
(* good for that action at all.                                            *)
(***************************************************************************)
EvidenceOnlyGrows ==
  [][root # None =>
       \A vc \in Credentials, act \in Actions :
         VerifyRooted(vc, act) =>
           \A satisfied \in SUBSET GateKinds :
             VerifyRootedGated(vc, act, satisfied)'
               => VerifyRootedGated(vc, act, satisfied)]_vars

(***************************************************************************)
(* is_subset_of: "Budget can only decrease", along the whole chain.        *)
(***************************************************************************)
BudgetOnlyDecreases ==
  \A i, j \in DOMAIN asserted :
    i < j => AtMost(asserted[j].budget, asserted[i].budget)

(***************************************************************************)
(* Scope::max_depth is the "Maximum remaining delegation depth": below a   *)
(* hop that was given depth d there are at most d further hops.            *)
(***************************************************************************)
HopDepthHonoured ==
  \A i \in DOMAIN asserted : Len(asserted) - i <= asserted[i].depth

(***************************************************************************)
(* CapabilityClaims::resources are the namespaces "the agent may reach":   *)
(* no action on another resource verifies against that credential.         *)
(***************************************************************************)
ResourceCeilingHolds ==
  \A vc \in Credentials, act \in Actions :
    VerifyRooted(vc, act) /\ vc.bounded /\ act.resource # None =>
      act.resource \in vc.resources
===============================================================================
