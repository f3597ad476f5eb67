CONSTANTS
  Leafs = {c1}
  NoPod = NoPod
  MaxUid = 1
  MaxEdit = 1
  Lag = {}
  Budgets <- PassingOrCalm
  p1 = p1
  p2 = p2
  host = host
  leafA = leafA
  nodeB = nodeB
  ca = ca
  cb = cb
  v1 = v1
  v2 = v2
  NoOne = NoOne
  SchedPods = {p1, p2}
  Nodes = {host, leafA, nodeB}
  Claims = {ca, cb}
  Pvs = {v1, v2}
  Setups <- MCSetups
SPECIFICATION MCSpec
INVARIANT AssumedAccounted
PROPERTIES Converges LandsRight AllPlaced
CHECK_DEADLOCK FALSE
