SPECIFICATION Spec
CONSTANTS
  Pairs = {p1, p2}
  Legs = {o1, o2, o3}
  NoLeg = NoLeg
  Statuses <- MCStatuses
  MaxPairs = 3
INVARIANTS
  TypeOK
  HedgeOfferedUnlessExpired
  SettledCountedOnce
  LegsAreMapped
PROPERTIES
  SettledIsFinal
SYMMETRY ArbitrageSymmetry
CHECK_DEADLOCK FALSE
