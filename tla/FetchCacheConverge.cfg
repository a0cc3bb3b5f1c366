\* Two threads work through one issuer's source; the newest config never lapses and
\* nothing is seeded once the cache runs.
CONSTANTS
  k1 = k1
  t1 = t1
  t2 = t2
  None = None
  Keys = {k1}
  Sources = {k1}
  Threads = {t1, t2}
  MaxVersion = 2
  MaxSeals = 1
  Heartbeat = TRUE
  Configured = {}
SPECIFICATION FairSpec
PROPERTY UpdatesConverge
CHECK_DEADLOCK FALSE
