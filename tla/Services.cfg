CONSTANTS
  c1 = c1
  c2 = c2
  s1 = s1
  None = None
  Clusters = {c1, c2}
  Slices = {s1}
  Late = {c2}
  MaxVer = 1
  MaxRetries = 1
  Scenarios <- Plans
SPECIFICATION MCSSpec
PROPERTIES CleanBeforeGone 
CHECK_DEADLOCK FALSE
