--------------------------- MODULE DelegationProofs ---------------------------
(***************************************************************************)
(* Proofs about Delegation, for every set of credentials, scopes, actions, *)
(* view edits and lifetimes.                                               *)
(***************************************************************************)
EXTENDS Delegation, TLAPS

(***************************************************************************)
(* The facts about the authority block that minting establishes and that   *)
(* no later operation touches: it is there, each hop has its block, it     *)
(* does not outlive the autonomy ceiling, its cap is within the budget.    *)
(***************************************************************************)
ChainInv ==
  root # None =>
    /\ Len(blocks) > 0
    /\ Len(hops) = Len(blocks)
    /\ blocks[1].expires <= hops[1].issued + root.vc.ttl
    /\ AtMost(blocks[1].cap, root.vc.budget)

-------------------------------------------------------------------------------
(* Type correctness *)

(***************************************************************************)
(* The constants range over the declared record types.                     *)
(***************************************************************************)
LEMMA ConstantTypes ==
  /\ Credentials \subseteq Credential
  /\ Scopes \subseteq Scope
  /\ ViewEdits \subseteq View
  /\ Ttls \subseteq Nat
  /\ Actions \subseteq Action
  /\ None \notin Nat
BY DelegationAssumption

(***************************************************************************)
(* A block or hop built from a well-formed scope is well formed.           *)
(***************************************************************************)
LEMMA BlockType ==
  ASSUME NEW agent \in Agents, NEW scope \in Scope, NEW expires \in Nat,
         NEW gates \in SUBSET Gate
  PROVE  BlockOf(agent, scope, expires, gates) \in Block
BY DEF BlockOf, Block, Scope

LEMMA HopType ==
  ASSUME NEW agent \in Agents, NEW scope \in Scope, NEW expires \in Nat,
         NEW depth \in Nat, now \in Nat
  PROVE  HopOf(agent, scope, expires, depth) \in Hop
BY DEF HopOf, Hop, Scope

(***************************************************************************)
(* Mint yields a well-formed one-block token.                              *)
(***************************************************************************)
LEMMA MintType ==
  ASSUME TypeOK, NEW vc \in Credentials, NEW scope \in Scopes, NEW ttl \in Ttls,
         NEW agent \in Agents, Mint(vc, scope, ttl, agent)
  PROVE  TypeOK'
<1> DEFINE expires == Earlier(vc.expires, now + ttl)
<1>1. vc \in Credential /\ scope \in Scope /\ ttl \in Nat /\ now \in Nat
  BY ConstantTypes DEF TypeOK
<1>2. expires \in Nat
  BY <1>1 DEF Credential, Earlier
<1>3. scope.gates \cup vc.gates \in SUBSET Gate
  BY <1>1 DEF Scope, Credential
<1>4. blocks' \in Seq(Block)
  <2>1. BlockOf(agent, scope, expires, scope.gates \cup vc.gates) \in Block
    BY <1>1, <1>2, <1>3, BlockType
  <2>2. QED BY <2>1 DEF Mint
<1>5. hops' \in Seq(Hop)
  <2>1. HopOf(agent, scope, expires, 0) \in Hop
    BY <1>1, <1>2, HopType
  <2>2. QED BY <2>1 DEF Mint
<1>6. root' \in Optional(Root)
  BY <1>1 DEF Mint, Root, Optional, Credential, Scope
<1>7. asserted' \in Seq(Scope) /\ now' \in Nat
  BY <1>1 DEF Mint
<1>8. QED BY <1>4, <1>5, <1>6, <1>7 DEF TypeOK

(***************************************************************************)
(* Attenuate needs the leaf to exist, which ChainInv gives.                *)
(***************************************************************************)
LEMMA LeafType ==
  ASSUME TypeOK, ChainInv, root # None
  PROVE  Leaf \in Hop
<1>1. Len(hops) \in DOMAIN hops
  BY DEF TypeOK, ChainInv
<1>2. QED BY <1>1 DEF TypeOK, Leaf

LEMMA AttenuateType ==
  ASSUME TypeOK, ChainInv, NEW narrow \in Scopes, NEW ttl \in Ttls,
         NEW agent \in Agents, Attenuate(narrow, ttl, agent)
  PROVE  TypeOK'
<1> DEFINE expires == ChildExpiry(ttl)
<1>1. narrow \in Scope /\ ttl \in Nat /\ now \in Nat
  BY ConstantTypes DEF TypeOK
<1>2. Leaf \in Hop
  BY LeafType DEF Attenuate
<1>3. expires \in Nat /\ Leaf.depth + 1 \in Nat
  BY <1>1, <1>2 DEF Hop, Earlier, ChildExpiry
<1>4. blocks' \in Seq(Block)
  <2>1. BlockOf(agent, narrow, expires, narrow.gates) \in Block
    BY <1>1, <1>3, BlockType DEF Scope
  <2>2. QED BY <2>1 DEF Attenuate, TypeOK
<1>5. hops' \in Seq(Hop)
  <2>1. HopOf(agent, narrow, expires, Leaf.depth + 1) \in Hop
    BY <1>1, <1>3, HopType
  <2>2. QED BY <2>1 DEF Attenuate, TypeOK
<1>6. asserted' \in Seq(Scope) /\ UNCHANGED <<root, now>>
  BY <1>1 DEF Attenuate, TypeOK
<1>7. QED BY <1>4, <1>5, <1>6 DEF TypeOK

LEMMA EditViewType ==
  ASSUME TypeOK, NEW k \in 1..Len(hops), NEW view \in ViewEdits,
         EditView(k, view)
  PROVE  TypeOK'
<1>1. view \in View
  BY ConstantTypes
<1>2. hops[k] \in Hop
  BY DEF TypeOK
<1>3. [hops[k] EXCEPT !.tools = view.tools, !.resources = view.resources,
                      !.budget = view.budget, !.cap = view.cap,
                      !.expires = view.expires] \in Hop
  BY <1>1, <1>2 DEF Hop, View
<1>4. hops' \in Seq(Hop)
  BY <1>3 DEF EditView, TypeOK
<1>5. QED BY <1>4 DEF EditView, TypeOK

-------------------------------------------------------------------------------
(* The authority block is never touched again *)

LEMMA MintChain ==
  ASSUME TypeOK, NEW vc \in Credentials, NEW scope \in Scopes, NEW ttl \in Ttls,
         NEW agent \in Agents, Mint(vc, scope, ttl, agent)
  PROVE  ChainInv'
<1> DEFINE expires == Earlier(vc.expires, now + ttl)
<1>1. vc \in Credential /\ scope \in Scope /\ ttl \in Nat /\ now \in Nat
  BY ConstantTypes DEF TypeOK
<1>2. Len(blocks') = 1 /\ Len(hops') = 1
  BY DEF Mint
<1>3. /\ blocks'[1].expires = expires
      /\ blocks'[1].cap = scope.cap
      /\ hops'[1].issued = now
      /\ root'.vc = vc
  BY DEF Mint, BlockOf, HopOf
<1>4. expires <= now + vc.ttl
  BY <1>1 DEF Mint, Grants, Earlier, Credential
<1>5. AtMost(scope.cap, vc.budget)
  BY DEF Mint, Grants, IsSubsetOf, CapWithinBudget, CredentialScope
<1>6. QED BY <1>2, <1>3, <1>4, <1>5 DEF ChainInv, AtMost

LEMMA AttenuateChain ==
  ASSUME TypeOK, ChainInv, NEW narrow \in Scopes, NEW ttl \in Ttls,
         NEW agent \in Agents, Attenuate(narrow, ttl, agent)
  PROVE  /\ ChainInv'
         /\ Len(blocks') = Len(blocks) + 1
         /\ Len(hops') = Len(hops) + 1
         /\ \A k \in DOMAIN blocks : blocks'[k] = blocks[k]
         /\ \A k \in DOMAIN hops : hops'[k] = hops[k]
<1>1. root # None /\ root' = root
  BY DEF Attenuate
<1>2. Len(blocks) > 0 /\ Len(hops) = Len(blocks)
  BY <1>1 DEF ChainInv
<1>3. Len(blocks') = Len(blocks) + 1 /\ Len(hops') = Len(hops) + 1
  BY DEF Attenuate, TypeOK
<1>4. \A k \in DOMAIN blocks : blocks'[k] = blocks[k]
  BY DEF Attenuate, TypeOK
<1>5. \A k \in DOMAIN hops : hops'[k] = hops[k]
  BY DEF Attenuate, TypeOK
<1>6. blocks'[1] = blocks[1] /\ hops'[1] = hops[1]
  BY <1>2, <1>4, <1>5 DEF TypeOK
<1>7. ChainInv'
  BY <1>1, <1>2, <1>3, <1>6 DEF ChainInv, AtMost, TypeOK
<1>8. QED BY <1>3, <1>4, <1>5, <1>7

LEMMA EditViewChain ==
  ASSUME TypeOK, ChainInv, NEW k \in 1..Len(hops), NEW view \in ViewEdits,
         EditView(k, view)
  PROVE  ChainInv'
<1>1. hops[1] \in Hop /\ hops[k] \in Hop
  BY DEF TypeOK
<1>2. Len(hops') = Len(hops) /\ hops'[1].issued = hops[1].issued
  BY SMTT(30), <1>1 DEF EditView, TypeOK, Hop
<1>3. QED BY <1>2 DEF EditView, ChainInv, AtMost

(***************************************************************************)
(* Every reachable token is well formed and keeps the authority block it   *)
(* was minted with.                                                        *)
(***************************************************************************)
THEOREM ChainSound == Spec => [](TypeOK /\ ChainInv)
<1>1. Init => TypeOK /\ ChainInv
  BY DelegationAssumption DEF Init, TypeOK, ChainInv, Optional
<1>2. TypeOK /\ ChainInv /\ [Next]_vars => TypeOK' /\ ChainInv'
  <2> SUFFICES ASSUME TypeOK, ChainInv, [Next]_vars
               PROVE  TypeOK' /\ ChainInv'
    OBVIOUS
  <2>1. ASSUME NEW vc \in Credentials, NEW scope \in Scopes, NEW ttl \in Ttls,
               NEW agent \in Agents, Mint(vc, scope, ttl, agent)
        PROVE  TypeOK' /\ ChainInv'
    BY <2>1, MintType, MintChain
  <2>2. ASSUME NEW narrow \in Scopes, NEW ttl \in Ttls, NEW agent \in Agents,
               Attenuate(narrow, ttl, agent)
        PROVE  TypeOK' /\ ChainInv'
    BY <2>2, AttenuateType, AttenuateChain
  <2>3. ASSUME NEW k \in 1..Len(hops), NEW view \in ViewEdits, EditView(k, view)
        PROVE  TypeOK' /\ ChainInv'
    BY <2>3, EditViewType, EditViewChain
  <2>4. CASE Tick
    BY <2>4 DEF Tick, TypeOK, ChainInv, AtMost
  <2>5. CASE UNCHANGED vars
    BY <2>5 DEF vars, TypeOK, ChainInv, AtMost
  <2>6. QED BY <2>1, <2>2, <2>3, <2>4, <2>5 DEF Next
<1>3. QED BY <1>1, <1>2, PTL DEF Spec

THEOREM TypeCorrect == Spec => []TypeOK
BY ChainSound, PTL

-------------------------------------------------------------------------------
(* What a successful verify_rooted means *)

(***************************************************************************)
(* verify_rooted compares the queried root scope with the credential, so   *)
(* tools, lifetime, depth and principal follow from its own checks; the    *)
(* spending bound needs ChainInv, because the audit view's budget is not   *)
(* protected and the queried cap may be another block's.                   *)
(***************************************************************************)
LEMMA VerifiedAuthority ==
  ASSUME TypeOK, ChainInv
  PROVE  AuthorityWithinCredential
<1> SUFFICES ASSUME NEW vc \in Credentials, NEW act \in Actions,
                    VerifyRooted(vc, act)
             PROVE  /\ act.tool \in vc.tools
                    /\ now <= vc.expires
                    /\ Depth <= vc.depth
                    /\ vc.principal # None => act.actingFor = vc.principal
                    /\ blocks[1].cap # None
                         => act.cost # None /\ AtMost(act.cost, vc.budget)
  BY DEF AuthorityWithinCredential
<1>1. /\ vc \in Credential /\ act \in Action /\ None \notin Nat
      /\ root # None /\ root.vc = vc /\ root.principal = vc.principal
  BY ConstantTypes DEF VerifyRooted, Verify, BlocksAuthorize
<1>2. 1 \in DOMAIN blocks /\ blocks[1] \in Block
  BY <1>1 DEF ChainInv, TypeOK
<1>3. BlockPermits(blocks[1], act)
  BY <1>2 DEF VerifyRooted, Verify, BlocksAuthorize
<1>4. IsSubsetOf(RootScope, CredentialScope(vc))
  BY DEF VerifyRooted
<1>5. act.tool \in vc.tools
  BY <1>3, <1>4 DEF BlockPermits, IsSubsetOf, RootScope, CredentialScope
<1>6. Depth <= vc.depth
  <2>1. Depth <= root.depth /\ root.depth <= vc.depth
    BY <1>4 DEF VerifyRooted, Verify, BlocksAuthorize, IsSubsetOf, RootScope, CredentialScope
  <2>2. root.depth \in Nat /\ vc.depth \in Nat /\ Depth \in Int
    BY <1>1 DEF TypeOK, Optional, Root, Credential, Depth
  <2>3. QED BY <2>1, <2>2
<1>7. ASSUME blocks[1].cap # None
      PROVE  act.cost # None /\ AtMost(act.cost, vc.budget)
  <2>1. act.cost # None /\ AtMost(act.cost, blocks[1].cap)
    BY <1>3, <1>7 DEF BlockPermits
  <2>2. AtMost(blocks[1].cap, vc.budget)
    BY <1>1 DEF ChainInv
  <2>3. act.cost \in Nat /\ blocks[1].cap \in Nat /\ vc.budget \in Optional(Nat)
    BY <1>1, <1>2, <1>7, <2>1 DEF Action, Block, Credential, Optional
  <2>4. QED BY <1>1, <1>7, <2>1, <2>2, <2>3 DEF AtMost, Optional
<1>8. now <= vc.expires /\ (vc.principal # None => act.actingFor = vc.principal)
  BY <1>1 DEF VerifyRooted, Verify, BlocksAuthorize
<1>9. QED BY <1>5, <1>6, <1>7, <1>8

LEMMA VerifiedCeiling ==
  ASSUME TypeOK, ChainInv
  PROVE  AutonomyCeilingHolds
<1> SUFFICES ASSUME NEW vc \in Credentials, NEW act \in Actions,
                    VerifyRooted(vc, act)
             PROVE  now <= hops[1].issued + vc.ttl
  BY DEF AutonomyCeilingHolds
<1>1. vc \in Credential /\ root # None /\ root.vc = vc
  BY ConstantTypes DEF VerifyRooted, Verify, BlocksAuthorize
<1>2. /\ 1 \in DOMAIN blocks /\ blocks[1] \in Block /\ hops[1] \in Hop
      /\ blocks[1].expires <= hops[1].issued + vc.ttl
  BY <1>1 DEF ChainInv, TypeOK
<1>3. now <= blocks[1].expires
  BY <1>2 DEF VerifyRooted, Verify, BlocksAuthorize, BlockPermits
<1>4. QED BY <1>1, <1>2, <1>3 DEF TypeOK, Block, Hop, Credential

(***************************************************************************)
(* The relying party's guarantees: whatever the chain, verify_rooted and   *)
(* verify_rooted_gated accept only what the credential grants, no later    *)
(* than the autonomy ceiling.                                              *)
(***************************************************************************)
THEOREM AuthoritySafe == Spec => []AuthorityWithinCredential
<1>1. TypeOK /\ ChainInv => AuthorityWithinCredential
  BY VerifiedAuthority
<1>2. QED BY <1>1, ChainSound, PTL

THEOREM CeilingSafe == Spec => []AutonomyCeilingHolds
<1>1. TypeOK /\ ChainInv => AutonomyCeilingHolds
  BY VerifiedCeiling
<1>2. QED BY <1>1, ChainSound, PTL

-------------------------------------------------------------------------------
(* Attenuation narrows *)

(***************************************************************************)
(* While queries read the authority block only, the queried cap is fixed   *)
(* at mint, so the child token keeps every check of its parent and adds    *)
(* its own.                                                                *)
(***************************************************************************)
LEMMA AttenuateNarrows ==
  ASSUME QueryReadsEveryBlock = FALSE, TypeOK, ChainInv,
         NEW narrow \in Scopes, NEW ttl \in Ttls, NEW agent \in Agents,
         Attenuate(narrow, ttl, agent),
         NEW vc \in Credentials, NEW act \in Actions, VerifyRooted(vc, act)'
  PROVE  VerifyRooted(vc, act)
<1>1. /\ root # None /\ root' = root /\ now' = now
      /\ Len(blocks) > 0 /\ Len(hops) = Len(blocks)
      /\ Len(blocks') = Len(blocks) + 1 /\ Len(hops') = Len(hops) + 1
      /\ \A k \in DOMAIN blocks : blocks'[k] = blocks[k]
      /\ \A k \in DOMAIN hops : hops'[k] = hops[k]
  BY AttenuateChain DEF Attenuate, ChainInv
<1>2. /\ DOMAIN blocks \subseteq DOMAIN blocks' /\ DOMAIN hops \subseteq DOMAIN hops'
      /\ 1 \in DOMAIN blocks /\ 1 \in DOMAIN hops
      /\ Len(hops) \in Nat /\ Depth' = Depth + 1 /\ Depth \in Int
  <2>1. blocks' \in Seq(Block) /\ hops' \in Seq(Hop)
    BY AttenuateType DEF TypeOK
  <2>2. QED BY <1>1, <2>1 DEF TypeOK, Depth
<1>3. RootScope' = RootScope
  <2>1. Queried = {1} /\ Queried' = {1}
    BY DEF Queried
  <2>2. blocks'[1] = blocks[1]
    BY <1>1, <1>2
  <2>3. {blocks[k].cap : k \in Queried}' = {blocks[k].cap : k \in Queried}
    BY <2>1, <2>2
  <2>4. EffectiveCap' = EffectiveCap
    <3> DEFINE Least(caps) ==
                 IF caps = {} THEN None
                 ELSE CHOOSE c \in caps : \A d \in caps : c <= d
               caps0 == {blocks[k].cap : k \in Queried} \ {None}
    <3>1. EffectiveCap = Least(caps0)
      BY DEF EffectiveCap
    <3>2. EffectiveCap' = Least(caps0')
      BY DEF EffectiveCap
    <3>3. caps0' = caps0
      BY <2>3
    <3> HIDE DEF Least, caps0
    <3>4. QED BY <3>1, <3>2, <3>3
  <2>5. QED BY <1>1, <2>2, <2>4 DEF RootScope
<1>4. IsSubsetOf(RootScope, CredentialScope(vc))
  <2>1. IsSubsetOf(RootScope', CredentialScope(vc))
    BY DEF VerifyRooted, CredentialScope
  <2>2. QED BY <1>3, <2>1
<1>5. ChainAuthentic
  <2>1. ChainAuthentic'
    BY DEF VerifyRooted, Verify, BlocksAuthorize
  <2>2. root.subject = hops[1].agent
    BY <1>1, <1>2, <2>1 DEF ChainAuthentic
  <2>3. \A k \in DOMAIN hops : blocks[k].signer = hops[k].agent
    <3>1. DOMAIN hops = DOMAIN blocks
      BY <1>1 DEF TypeOK
    <3>2. QED BY <1>1, <1>2, <2>1, <3>1 DEF ChainAuthentic
  <2>4. QED BY <1>1, <2>2, <2>3 DEF ChainAuthentic
<1>6. Depth <= root.depth
  <2>1. Depth' <= root.depth
    BY <1>1 DEF VerifyRooted, Verify, BlocksAuthorize
  <2>2. root.depth \in Nat
    BY <1>1 DEF TypeOK, Optional, Root
  <2>3. QED BY <1>2, <2>1, <2>2
<1>7. \A k \in DOMAIN hops : now <= hops[k].expires
  BY <1>1, <1>2 DEF VerifyRooted, Verify, BlocksAuthorize
<1>8. \A k \in DOMAIN blocks : BlockPermits(blocks[k], act)
  BY <1>1, <1>2 DEF VerifyRooted, Verify, BlocksAuthorize, BlockPermits
<1>9. Verify(act)
  BY <1>1, <1>5, <1>6, <1>7, <1>8 DEF VerifyRooted, Verify, BlocksAuthorize
<1>10. QED BY <1>1, <1>2, <1>4, <1>9 DEF VerifyRooted

THEOREM NarrowingSafe ==
  ASSUME QueryReadsEveryBlock = FALSE
  PROVE  Spec => AttenuationOnlyNarrows
<1>1. TypeOK /\ ChainInv /\ [Next]_vars =>
        [root # None /\ Len(blocks') > Len(blocks) =>
           \A vc \in Credentials, act \in Actions :
             VerifyRooted(vc, act)' => VerifyRooted(vc, act)]_vars
  <2> SUFFICES ASSUME TypeOK, ChainInv, Next, root # None,
                      Len(blocks') > Len(blocks),
                      NEW vc \in Credentials, NEW act \in Actions,
                      VerifyRooted(vc, act)'
               PROVE  VerifyRooted(vc, act)
    OBVIOUS
  <2>1. PICK narrow \in Scopes, ttl \in Ttls, agent \in Agents :
          Attenuate(narrow, ttl, agent)
    <3>1. ~\E v \in Credentials, scope \in Scopes, ttl \in Ttls, agent \in Agents :
             Mint(v, scope, ttl, agent)
      BY DEF Mint
    <3>2. Len(blocks) \in Nat
      BY DEF TypeOK
    <3>3. ~\E k \in 1..Len(hops), view \in ViewEdits : EditView(k, view)
      <4> SUFFICES ASSUME NEW k \in 1..Len(hops), NEW view \in ViewEdits,
                          EditView(k, view)
                   PROVE  FALSE
        OBVIOUS
      <4>1. blocks' = blocks
        BY DEF EditView
      <4>2. QED BY <3>2, <4>1
    <3>4. ~Tick
      BY <3>2 DEF Tick
    <3>5. QED BY <3>1, <3>3, <3>4 DEF Next
  <2>2. QED BY <2>1, AttenuateNarrows
<1>2. QED BY <1>1, ChainSound, PTL DEF Spec, AttenuationOnlyNarrows

-------------------------------------------------------------------------------
(* Gates *)

(***************************************************************************)
(* Once minted, no step drops a gate a query over the token can see: the   *)
(* blocks are append-only and the view carries no gates.                   *)
(***************************************************************************)
LEMMA GatesPersist ==
  ASSUME TypeOK, ChainInv, root # None, [Next]_vars
  PROVE  Gates \subseteq Gates'
<1>1. /\ Len(blocks) \in Nat /\ Len(blocks) > 0
      /\ DOMAIN blocks = 1..Len(blocks)
  BY DEF TypeOK, ChainInv
<1>2. CASE blocks' = blocks
  BY <1>2 DEF Gates, Queried
<1>3. ASSUME NEW narrow \in Scopes, NEW ttl \in Ttls, NEW agent \in Agents,
             Attenuate(narrow, ttl, agent)
      PROVE  Gates \subseteq Gates'
  <2>1. /\ Len(blocks') = Len(blocks) + 1
        /\ \A k \in DOMAIN blocks : blocks'[k] = blocks[k]
    BY <1>3, AttenuateChain DEF Attenuate, ChainInv
  <2>2. DOMAIN blocks' = 1..(Len(blocks) + 1)
    BY <1>3, <2>1, AttenuateType DEF TypeOK
  <2>3. Queried \subseteq Queried' /\ Queried \subseteq DOMAIN blocks
    BY <1>1, <2>2 DEF Queried
  <2>4. QED BY <2>1, <2>3 DEF Gates
<1>4. CASE UNCHANGED vars
  BY <1>2, <1>4 DEF vars
<1>5. QED BY <1>2, <1>3, <1>4 DEF Next, Mint, EditView, Tick

(***************************************************************************)
(* Monotone designation, for any chain, view and set of gate kinds,        *)
(* whatever a query over the token can see.                                *)
(***************************************************************************)
THEOREM EvidenceAlwaysGrows == Spec => EvidenceOnlyGrows
<1>1. TypeOK /\ ChainInv /\ [Next]_vars =>
        [root # None =>
           \A vc \in Credentials, act \in Actions :
             VerifyRooted(vc, act) =>
               \A satisfied \in SUBSET GateKinds :
                 VerifyRootedGated(vc, act, satisfied)'
                   => VerifyRootedGated(vc, act, satisfied)]_vars
  <2> SUFFICES ASSUME TypeOK, ChainInv, [Next]_vars, root # None,
                      NEW vc \in Credentials, NEW act \in Actions,
                      VerifyRooted(vc, act), NEW satisfied \in SUBSET GateKinds,
                      VerifyRootedGated(vc, act, satisfied)'
               PROVE  VerifyRootedGated(vc, act, satisfied)
    OBVIOUS
  <2>1. Gates \subseteq Gates'
    BY GatesPersist
  <2>2. \A gate \in Gates' \cup vc.gates :
          gate[2] = act.tool => gate[1] \in Recognized \cap Handled \cap satisfied
    BY DEF VerifyRootedGated
  <2>3. QED BY <2>1, <2>2 DEF VerifyRootedGated
<1>2. QED BY <1>1, ChainSound, PTL DEF Spec, EvidenceOnlyGrows

-------------------------------------------------------------------------------
(* The leaf view *)

LEMMA MintLeaf ==
  ASSUME TypeOK, NEW vc \in Credentials, NEW scope \in Scopes, NEW ttl \in Ttls,
         NEW agent \in Agents, Mint(vc, scope, ttl, agent)
  PROVE  LeafViewIsEffective'
<1> DEFINE expires == Earlier(vc.expires, now + ttl)
<1>1. expires \in Nat
  BY ConstantTypes DEF TypeOK, Credential, Earlier
<1>2. /\ DOMAIN blocks' = {1}
      /\ blocks'[1].tools = scope.tools /\ blocks'[1].expires = expires
      /\ Leaf'.tools = scope.tools /\ Leaf'.expires = expires
  BY DEF Mint, BlockOf, HopOf, Leaf
<1>3. QED BY <1>1, <1>2 DEF LeafViewIsEffective

LEMMA UntouchedPrefix ==
  ASSUME \A k \in DOMAIN hops : hops'[k] = hops[k],
         hops \in Seq(Hop), Len(hops') = Len(hops) + 1,
         DOMAIN hops' = 1..Len(hops'), Untouched'
  PROVE  Untouched
BY DEF Untouched, Edited

LEMMA AttenuateLeaf ==
  ASSUME TypeOK, ChainInv, LeafViewIsEffective,
         NEW narrow \in Scopes, NEW ttl \in Ttls, NEW agent \in Agents,
         Attenuate(narrow, ttl, agent)
  PROVE  LeafViewIsEffective'
<1> SUFFICES ASSUME Untouched'
             PROVE  LeafViewIsEffective'
  BY DEF LeafViewIsEffective
<1> DEFINE expires == ChildExpiry(ttl)
<1>0. Untouched
  <2>1. hops' \in Seq(Hop)
    BY AttenuateType DEF TypeOK
  <2>2. QED BY <2>1, AttenuateChain, UntouchedPrefix DEF TypeOK
<1>1. /\ root # None /\ Leaf \in Hop /\ ttl \in Nat /\ now \in Nat
      /\ narrow \in Scope
  BY LeafType, ConstantTypes DEF Attenuate, TypeOK
<1>2. expires \in Nat /\ expires <= Leaf.expires
  BY <1>1 DEF Earlier, Hop, ChildExpiry
<1>3. narrow.tools \subseteq Leaf.tools
  BY <1>1 DEF Attenuate, IsSubsetOf, Clamped, ParentScope, Scope
<1>4. /\ DOMAIN blocks' = DOMAIN blocks \cup {Len(blocks) + 1}
      /\ blocks'[Len(blocks) + 1] = BlockOf(agent, narrow, expires, narrow.gates)
      /\ Leaf' = HopOf(agent, narrow, expires, Leaf.depth + 1)
  BY DEF Attenuate, TypeOK, Leaf
<1>5. Leaf'.tools = narrow.tools /\ Leaf'.expires = expires
  BY <1>4 DEF HopOf
<1>6. ASSUME NEW k \in DOMAIN blocks'
      PROVE  Leaf'.tools \subseteq blocks'[k].tools /\ Leaf'.expires <= blocks'[k].expires
  <2>1. CASE k \in DOMAIN blocks
    <3>1. blocks'[k] = blocks[k] /\ blocks[k] \in Block
      BY <2>1, AttenuateChain DEF TypeOK
    <3>2. Leaf.tools \subseteq blocks[k].tools /\ Leaf.expires <= blocks[k].expires
      BY <1>0, <1>1, <2>1 DEF LeafViewIsEffective
    <3>3. Leaf.expires \in Nat /\ blocks[k].expires \in Nat
      BY <1>1, <3>1 DEF Hop, Block
    <3>4. QED BY <1>2, <1>3, <1>5, <3>1, <3>2, <3>3
  <2>2. CASE k = Len(blocks) + 1
    BY <1>2, <1>4, <1>5, <2>2 DEF BlockOf
  <2>3. QED BY <1>4, <2>1, <2>2
<1>7. QED BY <1>6 DEF LeafViewIsEffective

(***************************************************************************)
(* Replacing a hop's advisory fields leaves a touched view.                *)
(***************************************************************************)
LEMMA EditTouches ==
  ASSUME TypeOK, NEW k \in 1..Len(hops), NEW view \in ViewEdits,
         EditView(k, view)
  PROVE  ~Untouched'
<1>1. hops[k] \in Hop /\ k \in DOMAIN hops
  BY DEF TypeOK
<1>2. /\ k \in DOMAIN hops'
      /\ hops'[k] = [hops[k] EXCEPT !.tools = view.tools,
                        !.resources = view.resources, !.budget = view.budget,
                        !.cap = view.cap, !.expires = view.expires]
  BY <1>1 DEF EditView, TypeOK
<1>3. /\ hops'[k].tools = view.tools /\ hops'[k].resources = view.resources
      /\ hops'[k].budget = view.budget /\ hops'[k].cap = view.cap
      /\ hops'[k].expires = view.expires
  BY <1>1, <1>2 DEF Hop
<1>4. QED BY <1>2, <1>3 DEF Untouched, Edited

(***************************************************************************)
(* While the audit view is as the holders built it, its leaf hop is the    *)
(* authority the Biscuit enforces.                                         *)
(***************************************************************************)
THEOREM LeafSafe == Spec => []LeafViewIsEffective
<1>1. Init => LeafViewIsEffective
  BY DEF Init, LeafViewIsEffective
<1>2. TypeOK /\ ChainInv /\ LeafViewIsEffective /\ [Next]_vars
        => LeafViewIsEffective'
  <2> SUFFICES ASSUME TypeOK, ChainInv, LeafViewIsEffective, [Next]_vars
               PROVE  LeafViewIsEffective'
    OBVIOUS
  <2>1. ASSUME NEW vc \in Credentials, NEW scope \in Scopes, NEW ttl \in Ttls,
               NEW agent \in Agents, Mint(vc, scope, ttl, agent)
        PROVE  LeafViewIsEffective'
    BY <2>1, MintLeaf
  <2>2. ASSUME NEW narrow \in Scopes, NEW ttl \in Ttls, NEW agent \in Agents,
               Attenuate(narrow, ttl, agent)
        PROVE  LeafViewIsEffective'
    BY <2>2, AttenuateLeaf
  <2>3. ASSUME NEW k \in 1..Len(hops), NEW view \in ViewEdits, EditView(k, view)
        PROVE  LeafViewIsEffective'
    BY <2>3, EditTouches DEF LeafViewIsEffective
  <2>4. CASE Tick
    BY <2>4 DEF Tick, LeafViewIsEffective, Leaf, Untouched, Edited
  <2>5. CASE UNCHANGED vars
    BY <2>5 DEF vars, LeafViewIsEffective, Leaf, Untouched, Edited
  <2>6. QED BY <2>1, <2>2, <2>3, <2>4, <2>5 DEF Next
<1>3. QED BY <1>1, <1>2, ChainSound, PTL DEF Spec
===============================================================================
