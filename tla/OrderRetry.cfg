SPECIFICATION FairSpec
CONSTANTS
  Orders = {o1, o2}
  arb = arb
  plain = plain
  NoSignal = NoSignal
  Signals <- MCSignals
  ArbSignals <- MCArbSignals
  Quantity <- MCQuantity
  FillQuantities <- MCFillQuantities
  MaxExecuted = 3
  MaxCancelled = 3
PROPERTIES
  RetryIsSubmitted
CHECK_DEADLOCK FALSE
