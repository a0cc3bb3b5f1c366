\* One call against every mix of session, token, proof and evidence.
SPECIFICATION Spec
CONSTANTS
  c1 = c1
  c2 = c2
  s1 = s1
  s2 = s2
  p1 = p1
  a1 = a1
  t1 = t1
  t2 = t2
  u1 = u1
  Calls = {c1}
  Sessions = {s1, s2}
  Principals = {p1}
  Agents = {a1}
  Tools = {t1, t2}
  Approvers = {u1}
  Tokens <- AdmissionTokens
  Evidence <- AdmissionEvidence
  Encodings = {1}
  Carried <- AdmissionCarried
  GateKinds <- AllKinds
  Recognized <- KnownKinds
  Flagged = {t2}
  RequireBinding = TRUE
  Guarded = FALSE
  ReplayTtl = 2
  MaxAge = 0
  SessionTtl = 1
  Ledger = "memory"
  Limit = 2
  Timeout = 1
  GrantTtl = 1
  MayFail <- AllServices
  FailOpen <- OpenServices
  Stalls = FALSE
  Res = 1
  Horizon = 0
  MaxNonces = 2
  None = None
INVARIANT AdmissionIsAuthorized
INVARIANT RevokedIsRefused
CHECK_DEADLOCK FALSE
