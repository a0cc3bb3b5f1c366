\* Three deliveries, keyed or not, over stores that may fail; keys optional or required.
CONSTANTS
  d1 = d1
  d2 = d2
  d3 = d3
  o1 = o1
  o2 = o2
  None = None
  Deliveries = {d1, d2, d3}
  Operations = {o1, o2}
  Keyed = {TRUE, FALSE}
  Deployments <- AllDeployments
  Breaks = TRUE
  LapsesWhileHeld = FALSE
  ResultForms = {"object"}
SPECIFICATION FairSpec
INVARIANTS OneRunning ReturnedOnce
PROPERTY ClaimsReleased
CHECK_DEADLOCK FALSE
