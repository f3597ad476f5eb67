CONSTANTS
  c1 = c1
  c2 = c2
  a1 = a1
  a2 = a2
  k1 = k1
  k2 = k2
  n1 = n1
  n2 = n2
  Clusters = {c1, c2}
  Names = {a1, a2}
  Actual <- Own
  Nodes = {k1, k2, n1, n2}
  NodeOf <- Virtual
  NamedAs <- Plain
  Enabled = {c1, c2}
  Confs = {g1, g2, bad}
  BadConfs = {bad}
  None = None
  Budgets <- Rough
SPECIFICATION Spec
INVARIANTS OneManager NothingOutlives
PROPERTIES Converges DeletedGoes
CHECK_DEADLOCK FALSE
