\* The Redis ledger, with a clock of half seconds.
SPECIFICATION Spec
CONSTANTS
  c1 = c1
  c2 = c2
  s1 = s1
  s2 = s2
  p1 = p1
  a1 = a1
  t1 = t1
  t2 = t2
  u1 = u1
  Calls = {c1}
  Sessions = {s1}
  Principals = {p1}
  Agents = {a1}
  Tools = {t1}
  Approvers = {u1}
  Tokens <- OneGateTokens
  Evidence <- OneEvidence
  Encodings = {1}
  Carried <- OneCarried
  GateKinds <- AllKinds
  Recognized <- KnownKinds
  Flagged = {}
  RequireBinding = TRUE
  Guarded = FALSE
  ReplayTtl = 2
  MaxAge = 3
  SessionTtl = 3
  Ledger = "redis"
  Limit = 2
  Timeout = 1
  GrantTtl = 1
  MayFail = {}
  FailOpen = {}
  Stalls = FALSE
  Res = 2
  Horizon = 4
  MaxNonces = 1
  None = None
INVARIANT RememberedWhileVerifiable
CHECK_DEADLOCK FALSE
