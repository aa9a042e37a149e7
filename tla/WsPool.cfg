SPECIFICATION Spec
CONSTANTS
  c1 = c1
  c2 = c2
  Conns = {c1, c2}
  Configurations <- MCConfigurations
INVARIANTS
  TypeOK
  TrackedHaveRunners
  StateFollowsSocket
  MissedPongIsReal
PROPERTIES
  DeadPeerIsLeft
  ShutdownIsObserved
CHECK_DEADLOCK FALSE
