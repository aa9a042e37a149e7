SPECIFICATION Spec
CONSTANTS
  c1 = c1
  c2 = c2
  Conns = {c1, c2}
  Configurations <- MCConfigurations
PROPERTIES
  SendReachesRunner
CHECK_DEADLOCK FALSE
