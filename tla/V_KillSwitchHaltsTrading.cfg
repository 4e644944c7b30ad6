SPECIFICATION AutoSpec
CONSTANTS
  t1 = t1
  t2 = t2
  t3 = t3
  r1 = r1
  btc = btc
  NoScan = NoScan
  Scans <- ThreeScans
  Requests <- OneRequest
  Symbols <- OneSymbol
  Cooldown = 1
  MaxTime = 3
PROPERTY KillSwitchHaltsTrading
