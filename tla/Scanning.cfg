\* Two exchanges and the three tasks that scan.
CONSTANTS
    Venues = {binance, okx}
    Missing = Missing
    Quotes <- MCQuotes
    Books <- MCBooks
    PairSets <- MCPairSets
    RateTables <- MCRateTables
    Starts = {"USDT"}
    FeeAnswers = {0}
    DefaultFee = 10
    MinProfit = 5
    MaxValue = 18
    MinDepth = 6
    Dust = 1
    Slip = 5
    TakerFee = 10
    MaxMarketMoves = 1
SPECIFICATION FairScanSpec
INVARIANTS EstimatesHold TrianglesPay
PROPERTIES QuoteHolds SpreadIsPublished
