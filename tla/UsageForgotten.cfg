\* A lifetime budget that idles past its TTL.
CONSTANTS
  c1 = c1
  c2 = c2
  None = None
  Calls = {c1, c2}
  Rules <- ShortBudget
  Stores = {"memory"}
  Breaks = FALSE
  Costs = {1}
  Horizon = 3
SPECIFICATION Spec
PROPERTY LifetimeIsMetered
CHECK_DEADLOCK FALSE
