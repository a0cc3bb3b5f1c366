\* Three calls over a store that may fail: a rate limit and a lifetime budget.
CONSTANTS
  c1 = c1
  c2 = c2
  c3 = c3
  None = None
  Calls = {c1, c2, c3}
  Rules <- RateAndBudget
  Stores = {"memory", "redis"}
  Breaks = TRUE
  Costs <- CallCosts
  Horizon = 2
SYMMETRY Symmetry
SPECIFICATION Spec
INVARIANTS NeverOverdrawn
CHECK_DEADLOCK FALSE
