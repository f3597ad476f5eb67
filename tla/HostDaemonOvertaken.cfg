CONSTANTS
  Nodes = {n1, n2}
  Strategies <- NoSurge
  Burst = 2
  HistoryLimit = 0
  MaxPods = 8
  MaxTemplate = 3
  Gone = Gone
  NewBudgets <- NoPlans
  Budgets <- TwoChanges
SPECIFICATION Spec
INVARIANT UnavailableLimited
CHECK_DEADLOCK FALSE
