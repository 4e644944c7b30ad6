----------------------------- MODULE MCScanning -----------------------------
(* Two exchanges; prices 1 to 3, the asks' quantities multiples of 6. *)
EXTENDS Scanning

Level(p, q) == [price |-> p, qty |-> q]
Quote(bid, ask, bidSize, askSize) ==
    [bid |-> bid, ask |-> ask, bidSize |-> bidSize, askSize |-> askSize]
Pair(base, quote) == [base |-> base, quote |-> quote]

\* A cheap one, a dear one, and one that lacks its ask.
MCQuotes == {Quote(1, 1, 6, 6), Quote(2, 3, 0, 6), Quote(2, 0, 6, 6)}

MCBooks == {
    [asks |-> <<Level(1, 6), Level(2, 6)>>, bids |-> <<>>],
    [asks |-> <<Level(2, 6), Level(3, 12)>>, bids |-> <<Level(3, 6), Level(2, 4)>>]}

BTCUSDT == Pair("BTC", "USDT")
ETHBTC == Pair("ETH", "BTC")
ETHUSDT == Pair("ETH", "USDT")
MCPairSets == {{BTCUSDT, ETHBTC, ETHUSDT}}

Rate(bid, ask) == [bid |-> bid, ask |-> ask]
MCRateTables == {
    (BTCUSDT :> Rate(3, 3) @@ ETHBTC :> Rate(2, 2) @@ ETHUSDT :> Rate(2, 3))}
=============================================================================
