SPECIFICATION Spec
CONSTANTS
  Orders = {o1, o2}
  arb = arb
  plain = plain
  NoSignal = NoSignal
  Signals <- MCSignals
  ArbSignals <- MCArbSignals
  Quantity <- MCQuantity
  FillQuantities <- MCFillQuantities
  MaxExecuted = 3
  MaxCancelled = 3
INVARIANTS
  TypeOK
  BookFollowsMachine
  FillsMatchExecuted
  LiveOrderReachable
  ValidatedHasOnePlace
  EndsCountedOnce
  ActiveCountBounded
PROPERTIES
  ImplementsLifecycle
CHECK_DEADLOCK FALSE
