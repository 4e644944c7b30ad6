SPECIFICATION FairSpec
CONSTANTS
  okx = okx
  binance = binance
  None = None
  Private <- OnePrivate
  Public <- OnePublic
  Prices <- TwoPrices
  Threshold = 2
  Fresh = 1
  MaxDelay = 1
  MaxRetries = 2
  MaxChanges = 1
  MaxFaults = 1
PROPERTIES
  SetbacksAreMended
  TickersCatchUp
