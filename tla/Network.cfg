CONSTANTS
  A = A
  B = B
  a1 = a1
  a2 = a2
  b1 = b1
  podA = podA
  podB = podB
  podB6 = podB6
  svc = svc
  svcB = svcB
  Families = {4, 6}
  Width = 3
  Overlaps = {}
  None = None
  Family <- MCFamily
  Clusters = {A, B}
  Nodes = {a1, a2, b1}
  Home <- MCHome
  Specs <- MCSpecs
  Addrs <- MCAddrs
  PodNets <- MCPodNets
  Tags = {1, 2}
  Budgets <- Plans
SPECIFICATION Spec
INVARIANTS Forwards OnlyKeptLinger
PROPERTIES Converges
CHECK_DEADLOCK FALSE
