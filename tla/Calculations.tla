---------------------------- MODULE Calculations ----------------------------
(***************************************************************************)
(* core/calculations.py: pure functions over two order books.  Averages    *)
(* and percentages are left as fractions <<numerator, denominator>>.       *)
(***************************************************************************)
EXTENDS OrderBooks

Truncated(q, step) == IF step > 0 THEN (q \div step) * step ELSE q

\* compute_executable_quantity, its constraints one after the other.
BuyMax(asks, quote) == Spend(asks, quote).qty
SellMax(bids, base) == Lesser(Depth(bids), base)
Candidate(asks, bids, quote, base) == Lesser(BuyMax(asks, quote), SellMax(bids, base))

\* The cap is estimated at the best ask.
Capped(asks, q, notional) ==
    IF q > 0 /\ asks # <<>> THEN Lesser(q, notional \div asks[1].price) ELSE q

LimitedBy(asks, bids, quote, base, notional) ==
    LET q == Candidate(asks, bids, quote, base) IN
    CASE q > Capped(asks, q, notional) -> "max_notional"
      [] q = Capped(asks, q, notional) /\ BuyMax(asks, quote) <= SellMax(bids, base) ->
            IF BuyMax(asks, quote) < Depth(asks) THEN "balance" ELSE "buy_depth"
      [] OTHER ->
            IF SellMax(bids, base) < Depth(bids) THEN "balance" ELSE "sell_depth"

Executable(asks, bids, quote, base, notional, minimum, step) ==
    LET q == Truncated(Capped(asks, Candidate(asks, bids, quote, base), notional), step)
    IN  IF 0 < q /\ q < minimum
        THEN [qty |-> 0, buy |-> Nothing, sell |-> Nothing, limitedBy |-> "min_quantity"]
        ELSE [qty |-> q, buy |-> WalkDepth(asks, q), sell |-> WalkDepth(bids, q),
              limitedBy |-> LimitedBy(asks, bids, quote, base, notional)]

-----------------------------------------------------------------------------
\* estimate_slippage of a fill, times its quantity, without the buffer; none
\* when the best price is missing.
Magnitude(n) == IF n < 0 THEN -n ELSE n

SlippageCost(fill, best) == IF best > 0 THEN Magnitude(fill.cost - fill.qty * best) ELSE 0

\* estimate_fee of both fills, whose rate is a fraction.
Fees(buy, sell, rate) == (buy.cost + sell.cost) * rate[1]

\* compute_net_profit, times the denominator of the rate.  Missing best prices
\* fall back to the averages, from which nothing slips.
NetProfit(buy, sell, bestAsk, bestBid, rate) ==
    (sell.cost - buy.cost - SlippageCost(buy, bestAsk) - SlippageCost(sell, bestBid)) * rate[2]
      - Fees(buy, sell, rate)

\* compute_spread: the difference and its percentage of the ask, a fraction
Spread(bid, ask) == [abs |-> bid - ask, pct |-> IF ask > 0 THEN <<(bid - ask) * 100, ask>> ELSE <<0, 1>>]

-----------------------------------------------------------------------------
(***************************************************************************)
(* Triangles: an amount goes through three legs [side, price].             *)
(***************************************************************************)
Through(amount, leg) ==
    IF leg.side = "BUY" THEN <<amount[1], amount[2] * leg.price>>
                        ELSE <<amount[1] * leg.price, amount[2]>>

Charged(amount, fee) == <<amount[1] * (fee[2] - fee[1]), amount[2] * fee[2]>>

\* compute_triangular_profit: with fees, and "implied_rate"
TriangularEnd(legs, fee) ==
    FoldLeft(LAMBDA a, l : Charged(Through(a, l), fee), <<1, 1>>, legs)

Equal(a, b) == a[1] * b[2] = b[1] * a[2]
=============================================================================
