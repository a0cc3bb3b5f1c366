\* Two calls race for the same two approvals, with one proof in one or two encodings.
SPECIFICATION Spec
CONSTANTS
  c1 = c1
  c2 = c2
  s1 = s1
  s2 = s2
  p1 = p1
  a1 = a1
  t1 = t1
  t2 = t2
  u1 = u1
  Calls = {c1, c2}
  Sessions = {s1}
  Principals = {p1}
  Agents = {a1}
  Tools = {t1}
  Approvers = {u1}
  Tokens <- TwoGateTokens
  Evidence <- OnePairEvidence
  Encodings = {1, 2}
  Carried <- OnePairCarried
  GateKinds <- AllKinds
  Recognized <- KnownKinds
  Flagged = {}
  RequireBinding = TRUE
  Guarded = TRUE
  ReplayTtl = 2
  MaxAge = 1
  SessionTtl = 3
  Ledger = "memory"
  Limit = 2
  Timeout = 1
  GrantTtl = 1
  MayFail = {}
  FailOpen = {}
  Stalls = FALSE
  Res = 1
  Horizon = 2
  MaxNonces = 1
  None = None
INVARIANT SingleUse
INVARIANT AtMostOnceRelied
PROPERTY KeepsPromise
CHECK_DEADLOCK FALSE
