SPECIFICATION Spec
CONSTANTS
  market1 = market1
  market2 = market2
  funding = funding
  book = book
  MarketSources <- MCMarketSources
  FundingSources <- MCFundingSources
  OrderBookSources <- MCOrderBookSources
  Main = Main
  Capacity = 2
  MaxCount = 1
PROPERTIES
  TerminationHonoured
  SourcesServed
CHECK_DEADLOCK FALSE
