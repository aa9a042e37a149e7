SPECIFICATION Spec
CONSTANTS
  high = high
  low = low
  rise = rise
  Signals = {high, low, rise}
  Kind <- MCKind
  Direction <- MCDirection
  HighSpread = {high}
  StrongRate = {rise}
  Sources = {s1, s2}
  SignalCapacity = 2
  EventCapacity = 1
  MaxSignals = 3
INVARIANTS
  TypeOK
  EventsAccounted
  EventsInOrder
  SourceOrderKept
PROPERTIES
  SubscribersUnblocked
CHECK_DEADLOCK FALSE
