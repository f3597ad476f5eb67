CONSTANTS
  Clusters = {c1}
  Host = Host
  MaxSpec = 2
  MaxUid = 8
  None = None
  Cases <- Plans
SPECIFICATION Spec
PROPERTY Converges
CHECK_DEADLOCK FALSE
