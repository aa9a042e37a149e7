SPECIFICATION Spec
CONSTANTS
  small = small
  second = second
  large = large
  full = full
  partial = partial
  broken = broken
  name = name
  other = other
  ticker = ticker
  NoSignal = NoSignal
  NoReport = NoReport
  Names = {name, other}
  Tickers = {ticker}
  Signals <- MCSignals
  SymbolOf <- MCSymbolOf
  QuantityOf <- MCQuantityOf
  InitSignals <- MCInitSignals
  RequestOf <- MCRequestOf
  MaxHistory = 3
  Reports <- MCReports
  MaxLots = 2
  MaxSignals = 4
  MaxReports = 2
INVARIANTS
  TypeOK
  SignalsAccounted
  BooksMatchReports
  ExposureIsCurrent
  InitsExplainRiskState
  MetricsMatchHistory
PROPERTIES
  NoOrderWhenExposed
  SignalsDrain
CHECK_DEADLOCK FALSE
