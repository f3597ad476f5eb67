CONSTANTS
  d1 = d1
  route = route
  bcast = bcast
  nat = nat
  Devices = {d1}
  Rules = {route, bcast, nat}
  Attrs = {"v1", "v2"}
  NoDev = NoDev
  DevOf <- MCDevOf
  Sticky = {bcast}
  Published <- MCPublished
  NoConfig = NoConfig
  AgentBudgets <- Disturbed
  c1 = c1
  c2 = c2
  x = x
  p = p
  None = None
  Clusters = {c1, c2}
  Names = {x}
  Cidrs = {p}
  Adapter = "common"
  MaxRetries = 1
  Budgets <- Plans
SPECIFICATION MCSpec
INVARIANT TwoPassesSuffice
PROPERTIES AgentConverges NoLostUpdate Converges
