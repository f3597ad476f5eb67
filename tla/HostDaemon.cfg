CONSTANTS
  Nodes = {n1, n2}
  Strategies <- Limits
  Burst = 2
  HistoryLimit = 0
  MaxPods = 8
  MaxTemplate = 2
  Gone = Gone
  NewBudgets <- NewPlans
  Budgets <- Plans
SPECIFICATION Spec
INVARIANTS OnePerNode SurgeLimited
PROPERTY Converges
CHECK_DEADLOCK FALSE
