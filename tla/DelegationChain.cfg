\* Chains of up to three hops over tools, resources, gates and principals, and
\* over budgets and per-action caps, with the audit view rewritten on the wire.
SPECIFICATION Spec
CONSTANTS
  Agents = {"a1", "a2"}
  Tools = {"pay", "read", "spend"}
  Resources = {"r1", "r2"}
  Principals = {"alice"}
  GateKinds = {"approval", "approval-key", "intent"}
  Recognized = {"approval", "approval-key", "intent"}
  Credentials <- AllCredentials
  Scopes <- AllScopes
  Actions <- AllActions
  Ttls = {1, 2}
  Horizon = 2
  ViewEdits <- ChainViews
  QueryReadsEveryBlock = FALSE
  None = None
INVARIANTS AuthorityWithinCredential AutonomyCeilingHolds LeafViewIsEffective
PROPERTIES AttenuationOnlyNarrows EvidenceOnlyGrows
CHECK_DEADLOCK FALSE
