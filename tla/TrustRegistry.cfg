\* Two requests race for a registry of two versions.
CONSTANTS
  k1 = k1
  k2 = k2
  t1 = t1
  t2 = t2
  None = None
  Keys = {k1, k2}
  Sources = {k1}
  Threads = {t1, t2}
  MaxVersion = 2
  MaxSeals = 1
  Heartbeat = TRUE
  Configured <- FirstOfK1
SYMMETRY Symmetry
SPECIFICATION RegistrySpec
INVARIANTS ReadsSeeAdmitted OffboardedStayOut
PROPERTY NeverRollsBack
CHECK_DEADLOCK FALSE
