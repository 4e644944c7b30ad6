SPECIFICATION AlertSpec
CONSTANTS
  binance = binance
  okx = okx
  NoBalance = NoBalance
  Exchanges <- TwoExchanges
  Cooldown <- ShortCooldown
  Interval = 1
  Channels = 2
  MaxFailures = 2
  LossLimit = 1
  LossWarning = 1
  Pnls <- LossAndProfit
  Low = 1
  Balances <- SomeBalances
  MaxSend = 1
  MaxEvents = 2
  MaxFaults = 1
SYMMETRY Interchangeable
INVARIANTS
  BlockIsReported
