SPECIFICATION Spec
CONSTANTS
  a = a
  b = b
  e1 = e1
  e2 = e2
  btc = btc
  cross = cross
  NoOrder = NoOrder
  Callers <- TwoCallers
  Exchanges <- TwoExchanges
  Symbols <- OneSymbol
  Strategies <- OneStrategy
  Scopes <- BreakerOnE1
  Notionals <- OneNotional
  Configs <- SomeConfigs
  Choices <- SomeChoices
  Threshold = 2
  MaxFailures = 2
  MaxSmall = 1
  MaxLive = 2
  MaxExchange = 3
  MaxSymbol = 6
  MaxUsed = 4
  MaxFaults = 1
SYMMETRY Interchangeable
INVARIANTS
  ClosedIsBelowThreshold
  DailyOvershootIsBounded
  GatesAgree
PROPERTIES
  OpenHolds
