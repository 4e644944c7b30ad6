SPECIFICATION InventoryFairSpec
CONSTANTS
  e1 = e1
  e2 = e2
  e3 = e3
  x1 = x1
  x2 = x2
  h1 = h1
  None = None
  Exchanges <- ThreeExchanges
  Assets <- OneAsset
  Executions <- TwoExecutions
  Hooks <- OneHook
  ReportsZero = TRUE
  Initial = {1}
  MaxHeld = 2
  MaxChanges = 1
  MaxFaults = 1
  Stablecoins = {"usdt"}
  UsdtPrice <- MCUsdtPrice
  BtcPrice <- MCBtcPrice
  Bitcoin = 3
  Threshold = 5
INVARIANTS
  ViewsAgree
PROPERTIES
  CacheCatchesUp
