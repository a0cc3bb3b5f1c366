\* A budget left out at one hop.
SPECIFICATION Spec
CONSTANTS
  Agents = {"a1", "a2"}
  Tools = {"pay", "read", "spend"}
  Resources = {"r1", "r2"}
  Principals = {"alice"}
  GateKinds = {"approval", "approval-key", "intent"}
  Recognized = {"approval", "approval-key", "intent"}
  Credentials <- SpendCredentials
  Scopes <- SpendScopes
  Actions <- SpendActions
  Ttls = {1}
  Horizon = 0
  ViewEdits <- NoViews
  QueryReadsEveryBlock = FALSE
  None = None
INVARIANT BudgetOnlyDecreases

CHECK_DEADLOCK FALSE
