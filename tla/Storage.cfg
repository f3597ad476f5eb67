CONSTANTS
  c1 = c1
  c2 = c2
  None = None
  Clusters = {c1, c2}
  Kinds = {"data", "claim", "oneway"}
  Home = c1
  MaxData = 2
  Budgets <- Plans
  here = here
  m1 = m1
  Unknown = Unknown
  Members = {here, m1}
  Here = here
  Nets = {1, 2, 3}
  Meets <- Equal
  ServiceNamed = {}
  Configs <- HereConfigs
  Contents <- MemberContents
  PoolBudgets <- PoolPlans
SPECIFICATION MCSpec
INVARIANTS VolumeKept NoEcho
PROPERTIES ForeignNotOverwritten Converges CidrsSettle
CHECK_DEADLOCK FALSE
