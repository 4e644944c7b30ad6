------------------------------ MODULE Scanning ------------------------------
(***************************************************************************)
(* services/scanner.py: the search for spreads between exchanges and       *)
(* through triangles of one exchange, over the tickers and books that      *)
(* MarketDataService keeps.                                                *)
(*                                                                         *)
(* Three tasks scan: the loop of CrossExchangeScanner, the loop of         *)
(* TriangularScanner, and an API request that runs both one after the      *)
(* other, whether the loops run or not.  A scan chooses its exchanges from *)
(* one snapshot of the tickers, waits twice for fees, and reads the books  *)
(* as they are then; the publication waits for every subscriber.           *)
(*                                                                         *)
(* One symbol is quoted by every exchange; the pairs of the triangles are  *)
(* quoted by one, and their rates do not move.                             *)
(***************************************************************************)
EXTENDS Triangles, Simulation

CONSTANTS
    Venues,
    Quotes,        \* tickers [bid, ask, bidSize, askSize]; 0: no price or size
    Books,         \* order books [asks, bids]
    PairSets,      \* enabled_pairs, one set of [base, quote] per configuration
    RateTables,    \* tickers of all pairs, [pair -> [bid, ask]]
    FeeAnswers,    \* what get_fees may answer, in percent
    MaxMarketMoves,  \* bound: movements of the market
    Missing

\* The settings: _default_taker_fee_pct, min_profit_threshold_pct,
\* max_order_value_usdt, min_depth_usdt; Dust is the 0.001 of a missing size.
CONSTANTS DefaultFee, MinProfit, MaxValue, MinDepth, Dust

\* What the exchanges send: the cheapest ask comes first, and no bid is above
\* its ask.  A pair trades one asset for another.
ASSUME ScanningAssumption ==
    /\ \A b \in Books : {b.asks, b.bids} \subseteq Levels /\ Ascending(b.asks)
    /\ \A ps \in PairSets, rt \in RateTables : \A p \in ps :
          /\ p.base # p.quote
          /\ rt[p] \in [bid : Nat, ask : Nat]
          /\ rt[p].ask > 0 => rt[p].bid <= rt[p].ask
    /\ {MaxValue, Dust, MaxMarketMoves} \subseteq Nat

VARIABLES
    running,     \* the loops run
    ticker,      \* [Venues -> Quotes \cup {Missing}]
    book,        \* [Venues -> Books \cup {Missing}]
    stale,       \* what is_data_stale says of an exchange's ticker
    pairs,       \* enabled_pairs
    rates,       \* the tickers of the pairs, always fresh
    paths,       \* _paths
    scan,        \* [Scans -> Position]
    marketMoves

scanVars == <<running, ticker, book, stale, pairs, rates, paths, scan, marketMoves>>

Scans == {"cross", "triangular", "api"}
Loops == Scans \ {"api"}

Idle == [at |-> "idle"]
-----------------------------------------------------------------------------
(***************************************************************************)
(* A scan between exchanges.                                               *)
(***************************************************************************)
Fresh == {e \in Venues \ stale : ticker[e] # Missing}

BidOf(e) == Positive(ticker[e].bid)
AskOf(e) == Positive(ticker[e].ask)

\* max(..., key = bid): any of the highest, as the order of the dict decides.
BestBids == {e \in Fresh : \A f \in Fresh : BidOf(f) <= BidOf(e)}

AnyLowest == {e \in Fresh : \A f \in Fresh : ticker[e].ask <= ticker[f].ask}
                                                     \* mutant: a missing ask wins

\* min(..., key = ask or infinity)
BestAsks ==
    {e \in Fresh : \A f \in Fresh : AskOf(f) > 0 => 0 < AskOf(e) /\ AskOf(e) <= AskOf(f)}

\* The exchanges with a spread worth asking for the fees.
Candidates ==
    {c \in BestAsks \X BestBids :
        /\ c[1] # c[2]
        /\ AskOf(c[1]) > 0
        /\ BidOf(c[2]) > AskOf(c[1])}

SizeOr(size) == IF size > 0 THEN size ELSE Dust

Plus(a, b) == <<a[1] * b[2] + b[1] * a[2], a[2] * b[2]>>

\* How much worse than the best level a fill is, as a percentage.
Above(fill, best) ==
    IF best > 0 THEN <<(fill.cost - best * fill.qty) * 100, best * fill.qty>> ELSE <<0, 1>>
Below(fill, best) ==
    IF best > 0 THEN <<(best * fill.qty - fill.cost) * 100, best * fill.qty>> ELSE <<0, 1>>

DeepEnough(asks, bids) ==
    asks # <<>> /\ bids # <<>> /\ DepthUsdt(asks) >= MinDepth /\ DepthUsdt(bids) >= MinDepth

WholePurchase(bought, sold) == bought.qty            \* mutant: the quantity of the asks alone
Quantity(bought, sold) == Lesser(bought.qty, sold.qty)

\* _compute_executable_quantity of two books; no quantity when one is too thin.
Walk(asks, bids) ==
    IF ~DeepEnough(asks, bids)
    THEN [qty |-> 0, bought |-> Nothing, sold |-> Nothing, slip |-> <<0, 1>>]
    ELSE LET bought == Spend(asks, MaxValue)
             sold   == WalkBook(bids, bought.qty)
         IN  [qty |-> Quantity(bought, sold), bought |-> bought, sold |-> sold,
              slip |-> Plus(Above(bought, asks[1].price), Below(sold, bids[1].price))]

\* A function, so that TLC computes it once for every two books.
WalkOf == [b \in Books |-> [c \in Books |-> Walk(b.asks, c.bids)]]

Walks(deal) ==
    /\ book[deal.buy] # Missing /\ book[deal.sell] # Missing
    /\ WalkOf[book[deal.buy]][book[deal.sell]].qty > 0

\* The quantity of an opportunity and its average prices as fills: those of the
\* books, or the sizes and prices of the tickers.
Opportunity(deal) ==
    IF Walks(deal) THEN WalkOf[book[deal.buy]][book[deal.sell]]
    ELSE LET q == Lesser(SizeOr(deal.askSize), SizeOr(deal.bidSize))
         IN  [qty |-> q, bought |-> Add(Nothing, q, deal.ask), sold |-> Add(Nothing, q, deal.bid),
              slip |-> <<0, 1>>]

\* estimated_net_profit_pct >= min_profit_threshold_pct
EnoughProfit(deal, slip, sellFee) ==
    (deal.bid - deal.ask) * 100 * slip[2]
      >= ((deal.buyFee + sellFee + MinProfit) * slip[2] + slip[1]) * deal.ask

-----------------------------------------------------------------------------
ScanTypeOK ==
    /\ running \in BOOLEAN
    /\ ticker \in [Venues -> Quotes \cup {Missing}]
    /\ book \in [Venues -> Books \cup {Missing}]
    /\ stale \subseteq Venues
    /\ pairs \in PairSets
    /\ rates \in RateTables
    /\ paths \in {{}, BuildPaths(pairs)}
    /\ \A s \in Scans : scan[s].at \in {"idle", "buyFee", "sellFee", "publishing", "paths", "path"}
    /\ marketMoves \in 0..MaxMarketMoves

\* The application starts its scanners after MarketDataService has begun to
\* fill its cache.
ScanInit ==
    /\ running = FALSE
    /\ ticker \in [Venues -> Quotes \cup {Missing}]
    /\ book \in [Venues -> Books \cup {Missing}]
    /\ stale = {}
    /\ pairs \in PairSets
    /\ rates \in RateTables
    /\ paths = {}
    /\ scan = [s \in Scans |-> Idle]
    /\ marketMoves = 0

\* ArbitrageScanner.start, once: the paths are built before the loops run.
Start ==
    /\ ~running /\ paths = {}
    /\ running' = TRUE
    /\ paths' = BuildPaths(pairs)
    /\ UNCHANGED <<ticker, book, stale, pairs, rates, scan, marketMoves>>

\* ArbitrageScanner.stop cancels the loops wherever they wait, and with them
\* the subscribers they are waiting for.
Stop ==
    /\ running
    /\ running' = FALSE
    /\ scan' = [s \in Scans |-> IF s \in Loops THEN Idle ELSE scan[s]]
    /\ UNCHANGED <<ticker, book, stale, pairs, rates, paths, marketMoves>>

Moves(s, position) ==
    /\ scan' = [scan EXCEPT ![s] = position]
    /\ UNCHANGED <<running, ticker, book, stale, pairs, rates, paths, marketMoves>>

\* The snapshot all_tickers: the paths that are worth publishing by it.
WorthOf == [ps \in PairSets |-> [rt \in RateTables |->
    {p \in BuildPaths(ps) : WorthPublishing(p, rt, DefaultFee, MinProfit)}]]

WorthIt == WorthOf[pairs][rates] \cap paths

\* What follows a scan between exchanges: the request goes on with the
\* triangles, a loop sleeps.
AfterCross(s) == IF s = "api" THEN [at |-> "paths", left |-> WorthIt] ELSE Idle

\* CrossExchangeScanner.scan_once up to the first get_fees
CrossBegins(s) ==
    /\ scan[s] = Idle
    /\ s = "api" \/ (s = "cross" /\ running)
    /\ \/ Candidates = {} /\ Moves(s, AfterCross(s))
       \/ \E c \in Candidates :
            Moves(s, [at |-> "buyFee", buy |-> c[1], sell |-> c[2],
                      ask |-> ticker[c[1]].ask, bid |-> ticker[c[2]].bid,
                      askSize |-> ticker[c[1]].askSize, bidSize |-> ticker[c[2]].bidSize,
                      buyFee |-> DefaultFee])

\* get_fees of the buyer: an error leaves the default.
BuyFee(s) ==
    /\ scan[s].at = "buyFee"
    /\ \E fee \in FeeAnswers \cup {DefaultFee} :
        Moves(s, [scan[s] EXCEPT !.at = "sellFee", !.buyFee = fee])

\* get_fees of the seller, and the rest without a pause up to the publication.
SellFee(s) ==
    /\ scan[s].at = "sellFee"
    /\ LET o == Opportunity(scan[s]) IN
       \E fee \in FeeAnswers \cup {DefaultFee} :
        IF EnoughProfit(scan[s], o.slip, fee)
        THEN Moves(s, [at |-> "publishing", buy |-> scan[s].buy, sell |-> scan[s].sell,
                       opportunity |-> o])
        ELSE Moves(s, AfterCross(s))

\* Every subscriber has returned or raised.
Published(s) ==
    /\ scan[s].at = "publishing"
    /\ Moves(s, AfterCross(s))

\* TriangularScanner.scan_once: one snapshot, then a publication per path.
TrianglesBegin ==
    /\ scan["triangular"] = Idle
    /\ running
    /\ Moves("triangular", [at |-> "paths", left |-> WorthIt])

NextPath(s) ==
    /\ scan[s].at = "paths"
    /\ IF scan[s].left = {}
       THEN Moves(s, Idle)
       ELSE \E p \in scan[s].left :
                Moves(s, [at |-> "path", path |-> p, left |-> scan[s].left \ {p}])

PathPublished(s) ==
    /\ scan[s].at = "path"
    /\ Moves(s, [at |-> "paths", left |-> scan[s].left])

-----------------------------------------------------------------------------
\* The market: a new ticker or book, or an exchange that falls silent or comes back.
MarketMoves ==
    /\ marketMoves < MaxMarketMoves
    /\ marketMoves' = marketMoves + 1
    /\ \/ \E e \in Venues, q \in Quotes :
            /\ ticker' = [ticker EXCEPT ![e] = q]
            /\ stale' = stale \ {e}
            /\ UNCHANGED book
       \/ \E e \in Venues, b \in Books :
            /\ book' = [book EXCEPT ![e] = b]
            /\ UNCHANGED <<ticker, stale>>
       \/ \E e \in {e \in Venues \ stale : ticker[e] # Missing} :
            /\ stale' = stale \cup {e}
            /\ UNCHANGED <<ticker, book>>
    /\ UNCHANGED <<running, pairs, rates, paths, scan>>

Step(s) ==
    CrossBegins(s) \/ BuyFee(s) \/ SellFee(s) \/ Published(s) \/ NextPath(s) \/ PathPublished(s)

ScanNext ==
    \/ Start \/ Stop \/ MarketMoves \/ TrianglesBegin
    \/ \E s \in Scans : Step(s)

ScanSpec == ScanInit /\ [][ScanNext]_scanVars

\* The loops are tasks: they go on as long as they run; exchanges answer or
\* fail, and subscribers return.  Requests come as they like.
FairScanSpec == ScanSpec /\ WF_scanVars(Step("cross")) /\ WF_scanVars(TrianglesBegin \/ Step("triangular"))
-----------------------------------------------------------------------------
\* What was quoted from the books can be traded on them: the quantity is there
\* on both sides and within max_order_value_usdt, buying it costs no more than
\* the quoted average, and selling it brings exactly the quoted average, though
\* the two averages were computed for different quantities.
Quoted(s) ==
    LET o == scan'[s].opportunity
        buying == Market(book[scan'[s].buy].asks, o.qty)
        selling == Market(book[scan'[s].sell].bids, o.qty)
    IN  /\ buying.qty = o.qty /\ selling.qty = o.qty
        /\ buying.cost * o.bought.qty <= o.bought.cost * o.qty
        /\ selling.cost * o.sold.qty = o.sold.cost * o.qty
        /\ o.qty * o.bought.cost <= MaxValue * o.bought.qty

QuoteHolds ==
    [][\A s \in Scans :
        scan[s].at = "sellFee" /\ scan'[s].at = "publishing" /\ Walks(scan[s]) => Quoted(s)]_scanVars

\* A simulation over two books that calls a trade feasible is right: the
\* quantity bought and sold on the market leaves money after both fees.  What
\* compute_net_profit calls profitable is a spread, and leaves money even when
\* only part of it can be sold.
Gain(cost, revenue) == (revenue - cost) * Hundred - (cost + revenue) * TakerFee

BestPrice(levels) == IF levels = <<>> THEN 0 ELSE levels[1].price

SimulationHolds(b, c) ==
    \A q \in 1..MaxValue :
        LET sim == CrossExchange(q, 1, 1, TRUE, b.asks, TRUE, c.bids)
            bought == Market(b.asks, sim.qty)
            sold == Market(c.bids, sim.qty)
        IN  Feasible(sim) => /\ bought.qty = sim.qty /\ sold.qty = sim.qty
                             /\ Gain(bought.cost, sold.cost) > 0

EstimateHolds(b, c) ==
    \A q \in 1..MaxValue :
        LET bought == WalkDepth(b.asks, q)
            sold == WalkDepth(c.bids, bought.qty)
            net == NetProfit(bought, sold, BestPrice(b.asks), BestPrice(c.bids), <<TakerFee, Hundred>>)
        IN  net > 0 => /\ Gain(Market(b.asks, q).cost, Market(c.bids, q).cost) >= net
                       /\ Spread(BestPrice(c.bids), BestPrice(b.asks)).abs > 0

\* The walks of the three modules agree with the market; what
\* compute_executable_quantity allows fits in both books, the balance of the
\* seller and that of the buyer, is a multiple of the step and no smaller than
\* it could be: one step more breaks a limit.
Allowed(asks, bids, money, base, notional, q) ==
    /\ Market(asks, q).qty = q /\ Market(asks, q).cost <= money
    /\ Market(bids, q).qty = q /\ q <= base
    /\ asks # <<>> => q * asks[1].price <= notional

WalksHold(b, c) ==
    /\ \A q \in 0..MaxValue :
        /\ WalkDepth(b.asks, q) = Market(b.asks, q)
        /\ WalkBook(b.asks, q) = Market(b.asks, q)
        /\ Spend(b.asks, Market(b.asks, q).cost) = Market(b.asks, q)
    /\ \A money \in {MaxValue \div 2, MaxValue}, base \in {Dust, MaxValue},
          notional \in {MaxValue \div 3, MaxValue}, step \in {1, 2} :
        LET x == Executable(b.asks, c.bids, money, base, notional, 0, step)
        IN  /\ Allowed(b.asks, c.bids, money, base, notional, x.qty)
            /\ x.qty % step = 0
            /\ x.buy.qty = x.qty /\ x.sell.qty = x.qty
            /\ ~Allowed(b.asks, c.bids, money, base, notional, x.qty + step)

EstimatesOf == [b \in Books |-> [c \in Books |->
    WalksHold(b, c) /\ SimulationHolds(b, c) /\ EstimateHolds(b, c)]]

\* What the modules compute from the books of any two exchanges is right.
BookedPairs == {c \in Venues \X Venues : book[c[1]] # Missing /\ book[c[2]] # Missing}

EstimatesHold ==
    \A c \in BookedPairs : EstimatesOf[book[c[1]]][book[c[2]]]

\* A published triangle is one: it leaves an asset, passes two others and comes
\* back, each pair traded in the direction that leads there.  Its gain is the
\* one compute_triangular_profit finds, and the way round is not published too.
From(hop) == IF hop.side = "BUY" THEN hop.pair.quote ELSE hop.pair.base
To(hop) == IF hop.side = "BUY" THEN hop.pair.base ELSE hop.pair.quote

IsTriangle(path) ==
    /\ From(path[1]) \in Starts
    /\ To(path[1]) = From(path[2]) /\ To(path[2]) = From(path[3]) /\ To(path[3]) = From(path[1])
    /\ Cardinality({From(path[i]) : i \in 1..3}) = 3

Legs(path) == [i \in 1..3 |->
    [side |-> path[i].side,
     price |-> LET r == rates[path[i].pair] IN IF path[i].side = "BUY" THEN r.ask ELSE r.bid]]

WayRound(path, other) == \A i \in 1..3 : path[i].pair = other[4 - i].pair

TrianglesPay ==
    \A s \in Scans : scan[s].at = "path" =>
        LET p == scan[s].path IN
        /\ IsTriangle(p)
        /\ Equal(AmountAfter(p, rates), TriangularEnd(Legs(p), <<0, 1>>))
        /\ \A q \in WorthIt : ~WayRound(p, q)

\* While two exchanges keep quoting a spread that pays its fees, fresh and
\* uncrossed, with no depth that could make it slip, the loop publishes a
\* spread again and again.
Uncrossed == \A e \in Venues : ticker[e] # Missing =>
                BidOf(e) = 0 \/ AskOf(e) = 0 \/ BidOf(e) <= AskOf(e)

HighestFee == Max(FeeAnswers \cup {DefaultFee})

Pays(e, f) ==
    /\ 0 < AskOf(e)
    /\ (BidOf(f) - AskOf(e)) * 100 >= (2 * HighestFee + MinProfit) * AskOf(e)

LastingSpread ==
    /\ running
    /\ Uncrossed
    /\ \A e \in Venues : book[e] = Missing
    /\ \E e, f \in Fresh : Pays(e, f)

SpreadIsPublished == <>[]LastingSpread => []<>(scan["cross"].at = "publishing")
=============================================================================
