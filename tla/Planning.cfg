CONSTANTS
    None = None
    MaxOrderValue = 12
    MaxSlippage = 10
    MinProfitPct = 5
    MinProfitUsdt = 1
    MinDepth = 6
    MaxPosition = 30
    Whitelist = {"BTC/USDT"}
    Rates <- MCRates
    Books <- MCBooks
    FirstBooks <- MCFirstBooks
    Amounts = {4, 20}
    Exposures = {20}
    Sizes = {0, 4, 6}
    Depths = {0, 6}
    FeeSet = {0, 10}
    PaperSize = 10
    StartAmount = 8
    Symbol = "BTC/USDT"
    JoinedSymbol = "BTC/USDT>ETH/BTC>ETH/USDT"
    MaxChanges = 1
    DefaultFeePct = 1
    DefaultStart = 10
    DefaultQty = 1
    Slip = 5
    TakerFee = 1
SPECIFICATION Spec
CHECK_DEADLOCK FALSE
INVARIANTS PlanIsCovered OnlyWalkedOnesPass
PROPERTIES SimulationIsNoBetter
