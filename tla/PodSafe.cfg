CONSTANTS
  Leafs = {c1, c2}
  NoPod = NoPod
  MaxUid = 2
  MaxEdit = 1
  Lag = {c1, c2}
  Budgets <- Unsafe
SPECIFICATION Spec
INVARIANTS OneHome
PROPERTIES ForeignNeverOverwritten ImplementsPlacement
CHECK_DEADLOCK FALSE
