CONSTANTS
  m1 = m1
  w1 = w1
  v1 = v1
  v2 = v2
  None = None
  Leaf = {m1, w1}
  Masters = {m1}
  Capacity = 2
  LeafStates <- States
  LeafInit <- Start
  Configs <- Models
  FailureRounds = 2
  LeaseRounds = 3
  Budgets <- Plans
SPECIFICATION Spec
PROPERTIES HeldBack NoFalseExpiry Converges
