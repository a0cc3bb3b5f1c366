SPECIFICATION Spec
CONSTANTS
  Threads = {t1, t2}
  Flows = {f1, f2}
  QueueMax = 1
  Anchor = "org"
  MaxRecords = 3
  MaxSigned = 2
  MaxLives = 2
  None = None
  Orgs = {"orgA", "orgB"}
  Rank <- MCRank
  Parties = {p1, p2}
  Times = {0, 1, 2}
  PerSecond = 2
  MaxLog = 2
  MaxSalts = 2
  MaxPublished = 3
  MaxBatch = 2
  Intents <- MCIntents
  Judgements <- MCJudgements
  Actions = {"pay", "read"}
  Agents = {"agent", "other"}
  Org = "org"
  Policy <- MCPolicy
  Teams = {"team"}
  Rosters <- MCRosters
  Salts = {"long", "short"}
  LongSalts = {"long"}
  Failures = {"ConsentViolation"}
  Auditee = "org"
  MaxRevisions = 2
  MaxGranted = 1
  MaxDecided = 2
  MaxEdits = 1
  EndOfTime = 2
  MaxEvidence = 2
SYMMETRY Perms
INVARIANT
  CheckpointsAgree
  LossIsCounted
  BundleFollowsStream
  RootsAgree
  AlignedIsJudged
  AnswersAreAsIssued
CHECK_DEADLOCK FALSE
