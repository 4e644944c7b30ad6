------------------------------ MODULE Planning ------------------------------
(***************************************************************************)
(* services/execution_planner.py: from an opportunity to a plan.  The      *)
(* planner takes a snapshot of the balances, has the risk engine decide,   *)
(* which waits for Redis three times, and then bounds the quantity, lays   *)
(* out the legs and asks the simulation, without another pause.  While it  *)
(* waits, balances, tickers and order books change, and the automatic      *)
(* execution may relax the rules for an execution of its own.              *)
(*                                                                         *)
(* The opportunities come from the scanners, from the automatic execution, *)
(* which sizes them for paper trading, and from the API, for which the     *)
(* coordinator makes them up.                                              *)
(*                                                                         *)
(* One pair is traded on two exchanges, "buyer" and "seller"; the triangle *)
(* is on the buyer and starts with that pair.  Amounts, prices and         *)
(* percentages are whole numbers; a division is rounded down, so that an   *)
(* amount stays a multiple of the unit.                                    *)
(***************************************************************************)
EXTENDS RiskRules, Calculations, Simulation

CONSTANTS
    Rates,         \* tickers [bid, ask]
    Books,         \* order books [asks, bids]
    FirstBooks,    \* what MarketDataService has cached at first, per market
    Amounts,       \* what may be free of an asset
    Exposures,     \* what the holdings on an exchange may be worth
    Sizes,         \* quantities a scanner finds, or a request asks for; 0: not said
    Depths,        \* depths in USDT that a scanner saw; 0: no book
    FeeSet,        \* fees of the exchanges
    PaperSize,     \* paper_trade_size_usdt
    StartAmount,   \* start_amount of a request
    Symbol,        \* the pair's name
    JoinedSymbol,  \* the name of the path: its three pairs
    MaxChanges,    \* bound: changes of the surroundings
    None

\* Constants of the code: _DEFAULT_FEE_PCT, the 100.0 of a triangle without a
\* value, the 0.001 of a request without a quantity.
CONSTANTS DefaultFeePct, DefaultStart, DefaultQty

\* Tickers hold no negative numbers, and neither do balances and settings; the
\* amount of a request is any number.  A book has the highest bid first.
ASSUME PlanningAssumption ==
    /\ Rates \subseteq [bid : Nat, ask : Nat]
    /\ \A b \in Books : {b.asks, b.bids} \subseteq Levels /\ Descending(b.bids)
    /\ None \notin Books
    /\ Amounts \cup Exposures \cup Sizes \cup Depths \cup FeeSet \subseteq Nat
    /\ {DefaultFeePct, DefaultStart, DefaultQty} \subseteq Nat
    /\ PaperSize \in Nat \ {0} /\ StartAmount \in Int /\ MaxChanges \in Nat

\* enabled_pairs lists pairs, and three of them joined are not a pair.
ASSUME SymbolAssumption == JoinedSymbol \notin Whitelist

Path == <<"buy", "second", "third">>
Markets == Range(Path) \cup {"sell"}
Holdings == {"quote", "base"}
Places == {"buyer", "seller"}

ASSUME FirstBooksAssumption == FirstBooks \subseteq [Markets -> Books \cup {None}]

VARIABLES
    rate,        \* the cached tickers of the markets, or None
    book,        \* the cached order books, or None
    stale,       \* the markets whose ticker is older than five seconds
    free,        \* InventoryManager's entries: the quote asset of the buyer, the
                 \* base asset of the seller, or None
    exposure,    \* the value of the holdings on an exchange
    blocked,     \* the rules that refuse on what Redis holds
    relaxed,     \* the rules are relaxed for an execution on paper
    changes,
    at,          \* "idle", "asking" or "recording"
    opp,         \* the opportunity
    snapshot,    \* of the balances and the exposure
    turn,        \* the rule that asks Redis
    checked, violations,   \* RiskDecision.results
    plan

surroundings == <<rate, book, stale, free, exposure, blocked, relaxed, changes>>
planning == <<at, opp, snapshot, turn, checked, violations, plan>>
vars == <<surroundings, planning>>

-----------------------------------------------------------------------------
(***************************************************************************)
(* Opportunities.                                                          *)
(***************************************************************************)
Cross(buyPrice, sellPrice, qty, netPct, fee, depth) ==
    [strategy |-> "cross", symbol |-> Symbol, exchanges |-> Places, markets |-> {"buy", "sell"},
     buyPrice |-> buyPrice, sellPrice |-> sellPrice, qty |-> qty, value |-> qty * buyPrice,
     netPct |-> netPct, slipPct |-> 0, buyFee |-> fee, sellFee |-> fee,
     depthBuy |-> depth, depthSell |-> depth]

SpreadPct(buyPrice, sellPrice) == ((sellPrice - buyPrice) * 100) \div buyPrice

\* What the scanner between exchanges publishes: it has skipped missing prices
\* and a loss.
ScannedCross ==
    {o \in {Cross(r.ask, s.bid, q, SpreadPct(r.ask, s.bid) - 2 * f, f, d) :
              r \in {t \in Rates : t.ask > 0}, s \in Rates,
              q \in Sizes \ {0}, f \in FeeSet, d \in Depths} :
        o.sellPrice > o.buyPrice /\ o.netPct >= MinProfitPct}

\* The gain through the three tickers, which all have to be there, in percent;
\* zero when one lacks a price.
TickersThere == \A m \in Range(Path) : rate[m] # None

GainPct ==
    LET end == rate["third"].bid  cost == rate["buy"].ask * rate["second"].ask
    IN  IF end > 0 /\ cost > 0 THEN ((end - cost) * 100) \div cost ELSE 0

Triangle(qty, value) ==
    [strategy |-> "triangular", symbol |-> JoinedSymbol, exchanges |-> {"buyer"},
     markets |-> Range(Path), buyPrice |-> rate["buy"].ask, sellPrice |-> rate["third"].bid,
     qty |-> qty, value |-> value,
     netPct |-> GainPct - 3 * DefaultFeePct, slipPct |-> 0, buyFee |-> 3 * DefaultFeePct,
     sellFee |-> 0, depthBuy |-> 0, depthSell |-> 0]

\* The triangular scanner skips a triangle without a gain, and leaves quantity,
\* value and depth at zero.
ScannedTriangle ==
    IF TickersThere /\ GainPct > 0 /\ Triangle(0, 0).netPct >= MinProfitPct
    THEN {Triangle(0, 0)} ELSE {}

\* _on_opportunity on paper
Sized(o) == [o EXCEPT !.qty = PaperSize \div o.buyPrice, !.value = PaperSize]

\* execute_cross_exchange: without a quantity a tenth of what is free.
RequestedQty(q) ==
    CASE q > 0 -> q
      [] free["quote"] # None -> free["quote"] \div (10 * rate["buy"].ask)
      [] OTHER -> DefaultQty

RequestedCross ==
    IF rate["buy"] = None \/ rate["sell"] = None THEN {}
    ELSE IF rate["buy"].ask <= 0 \/ rate["sell"].bid <= 0 THEN {}
    ELSE LET ask == rate["buy"].ask  bid == rate["sell"].bid
         IN  {Cross(ask, bid, RequestedQty(q), SpreadPct(ask, bid) - 2 * DefaultFeePct,
                    DefaultFeePct, 0) : q \in Sizes}

\* execute_triangular
RequestedTriangle ==
    IF ~TickersThere THEN {}
    ELSE IF rate["buy"].ask > 0 THEN {Triangle(StartAmount \div rate["buy"].ask, StartAmount)}
    ELSE {Triangle(0, StartAmount)}

Scanned == ScannedCross \cup ScannedTriangle

Opportunities ==
    Scanned \cup {Sized(o) : o \in Scanned} \cup RequestedCross \cup RequestedTriangle

-----------------------------------------------------------------------------
(***************************************************************************)
(* The plan.  A quantity is a fraction, since a triangle divides.          *)
(***************************************************************************)
Leg(market, side, price, qty) == [market |-> market, side |-> side, price |-> price, qty |-> qty]

BoughtOnly(o) ==                                     \* mutant: bounded by the buyer alone
    IF snapshot.free["quote"] # None /\ o.buyPrice > 0
    THEN Lesser(o.qty, snapshot.free["quote"] \div o.buyPrice) ELSE o.qty

\* Step 4 of build_cross_exchange_plan
TargetQty(o) ==
    LET buyable == IF snapshot.free["quote"] # None /\ o.buyPrice > 0
                   THEN {snapshot.free["quote"] \div o.buyPrice} ELSE {}
        sellable == IF snapshot.free["base"] # None THEN {snapshot.free["base"]} ELSE {}
    IN  Min({o.qty} \cup buyable \cup sellable)

FeeOr(fee) == IF fee > 0 THEN fee ELSE DefaultFeePct

\* planned_net_profit, times 100
NetOfCross(o, q) ==
    (o.sellPrice - o.buyPrice) * q * 100
      - q * o.buyPrice * FeeOr(o.buyFee) - q * o.sellPrice * FeeOr(o.sellFee)

\* The reference price of simulate_order
Reference(market, side) ==
    IF rate[market] = None THEN 0 ELSE IF side = "BUY" THEN rate[market].ask ELSE rate[market].bid

\* The levels it walks when there is a book.
Side(market, side) ==
    IF book[market] = None THEN <<>> ELSE IF side = "BUY" THEN book[market].asks ELSE book[market].bids

CrossPlan(o, approved) ==
    LET q == TargetQty(o)
        sim == CrossExchange(o.qty, Reference("buy", "BUY"), Reference("sell", "SELL"),
                             book["buy"] # None, Side("buy", "BUY"),
                             book["sell"] # None, Side("sell", "SELL"))
    IN  [strategy |-> "cross", approved |-> approved,
         legs |-> <<Leg("buy", "BUY", o.buyPrice, <<q, 1>>), Leg("sell", "SELL", o.sellPrice, <<q, 1>>)>>,
         start |-> q, net |-> NetOfCross(o, q), feasible |-> Feasible(sim)]

\* build_triangular_plan
Sides == <<"BUY", "BUY", "SELL">>

Start(o) ==
    LET wanted == IF o.value <= 0 THEN DefaultStart ELSE o.value
    IN  IF snapshot.free["quote"] # None THEN Lesser(wanted, snapshot.free["quote"]) ELSE wanted

\* The price of a leg: of the ticker, else of the opportunity, else 1.
LegPrice(o, i) ==
    LET known == IF rate[Path[i]] # None THEN Reference(Path[i], Sides[i])
                 ELSE IF i = 1 THEN o.buyPrice ELSE o.sellPrice
    IN  IF known > 0 THEN known ELSE 1

PlannedLeg(o, i) == [side |-> Sides[i], price |-> LegPrice(o, i)]

\* current_amount behind the first n legs of the path
AmountThrough(o, n) ==
    LET start  == <<Start(o), 1>>
        first  == Through(start, PlannedLeg(o, 1))
        second == Through(first, PlannedLeg(o, 2))
    IN  CASE n = 0 -> start
          [] n = 1 -> first
          [] n = 2 -> second
          [] n = 3 -> Through(second, PlannedLeg(o, 3))

LegQty(o, i) == IF Sides[i] = "BUY" THEN AmountThrough(o, i) ELSE AmountThrough(o, i - 1)

\* simulate_triangular starts with the whole value and fills one leg after the
\* other.  What it buys it orders by the ticker, and fills from the book where
\* there is one; an amount is a fraction, so that a book is counted in its parts.
SimulatedStart(o) == IF o.value > 0 THEN o.value ELSE DefaultStart

Scaled(levels, parts) ==
    [i \in DOMAIN levels |-> [price |-> levels[i].price, qty |-> levels[i].qty * parts]]

Ordered(amount, i) ==
    IF Sides[i] = "BUY" THEN <<amount[1], amount[2] * Reference(Path[i], "BUY")>> ELSE amount

OppositeFill(amount, i) ==                           \* mutant: sells into the asks
    LET order == Ordered(amount, i)
        other == IF Sides[i] = "BUY" THEN "SELL" ELSE "BUY"
    IN  Simulated(Sides[i], order[1], Reference(Path[i], Sides[i]),
                  book[Path[i]] # None, Scaled(Side(Path[i], other), order[2]))

SimulatedFill(amount, i) ==
    LET order == Ordered(amount, i)
    IN  Simulated(Sides[i], order[1], Reference(Path[i], Sides[i]),
                  book[Path[i]] # None, Scaled(Side(Path[i], Sides[i]), order[2]))

\* The quantity bought, or the money of the sale.
SimulatedThrough(amount, i) ==
    LET fill == SimulatedFill(amount, i)
    IN  IF Sides[i] = "BUY" THEN <<fill.qty, Ordered(amount, i)[2]>>
                            ELSE <<fill.cost, amount[2] * Hundred>>

\* The end of a simulation that every ticker has a price for and every order fills.
SimulatedEnd(o) ==
    LET first  == SimulatedThrough(<<SimulatedStart(o), 1>>, 1)
        second == SimulatedThrough(first, 2)
    IN  IF \/ \E i \in 1..3 : Reference(Path[i], Sides[i]) <= 0
           \/ 0 \in {first[1], second[1], SimulatedFill(second, 3).qty}
        THEN None
        ELSE SimulatedThrough(second, 3)

TriangularPlan(o, approved) ==
    [strategy |-> "triangular", approved |-> approved,
     legs |-> [i \in 1..3 |-> Leg(Path[i], Sides[i], LegPrice(o, i), LegQty(o, i))],
     start |-> Start(o), end |-> AmountThrough(o, 3), simulatedEnd |-> SimulatedEnd(o)]

Built(o, approved) ==
    IF o.strategy = "cross" THEN CrossPlan(o, approved) ELSE TriangularPlan(o, approved)

-----------------------------------------------------------------------------
Enabled == IF relaxed THEN AllRules \ PaperSkipRules ELSE AllRules

Context == [balances |-> [h \in Holdings |-> IF snapshot.free[h] = None THEN 0 ELSE snapshot.free[h]],
            exposure |-> snapshot.exposure]

Stale == stale \cup {m \in Markets : rate[m] = None}

Init ==
    /\ rate \in [Markets -> Rates \cup {None}]
    /\ book \in FirstBooks
    /\ stale = {}
    /\ free \in [Holdings -> Amounts \cup {None}]
    /\ exposure \in [Places -> Exposures]
    /\ blocked = {}
    /\ relaxed \in BOOLEAN
    /\ changes = 0
    /\ at = "idle"
    /\ opp = None /\ snapshot = None /\ turn = 0
    /\ checked = {} /\ violations = {} /\ plan = None

\* RiskEngine.evaluate goes on with the i-th rule until one asks Redis, or to the
\* end; what it refused is recorded and published before the plan is built.
Evaluates(i, o, c, before) ==
    LET now == AtOnce(i, Enabled)
        next == NextAsking(i, Enabled)
    IN  /\ checked' = before.checked \cup now
        /\ violations' = before.violations \cup Refusing(now, o, c, Stale)
        /\ turn' = IF next > Len(RuleNames) THEN 0 ELSE next
        /\ at' = CASE next <= Len(RuleNames) -> "asking"
                   [] next > Len(RuleNames) /\ violations' = {} -> "idle"
                   [] OTHER -> "recording"

\* build_cross_exchange_plan and build_triangular_plan up to the first command
\* for Redis
Begin(o) ==
    /\ at = "idle" /\ plan = None
    /\ opp' = o
    /\ snapshot' = [free |-> free, exposure |-> exposure]
    /\ Evaluates(1, o, [balances |-> [h \in Holdings |-> IF free[h] = None THEN 0 ELSE free[h]],
                        exposure |-> exposure],
                 [checked |-> {}, violations |-> {}])
    /\ UNCHANGED <<surroundings, plan>>

\* Redis answers, or fails and the context's zero is taken.
RedisAnswers ==
    /\ at = "asking"
    /\ \E refuses \in {FALSE, RuleNames[turn] \in blocked} :
        Evaluates(turn + 1, opp, Context,
                  [checked |-> checked \cup {RuleNames[turn]},
                   violations |-> violations \cup (IF refuses THEN {RuleNames[turn]} ELSE {})])
    /\ plan' = IF at' = "idle" THEN Built(opp, TRUE) ELSE None
    /\ UNCHANGED <<surroundings, opp, snapshot>>

\* _persist_violations and the publication are over.
Recorded ==
    /\ at = "recording"
    /\ at' = "idle"
    /\ plan' = Built(opp, FALSE)
    /\ UNCHANGED <<surroundings, opp, snapshot, turn, checked, violations>>

-----------------------------------------------------------------------------
\* The surroundings: a ticker, an order book, a balance, what Redis holds, or the
\* rules change.
Change ==
    /\ changes < MaxChanges
    /\ changes' = changes + 1
    /\ \/ \E m \in Markets, r \in Rates :
            /\ rate' = [rate EXCEPT ![m] = r] /\ stale' = stale \ {m}
            /\ UNCHANGED <<book, free, exposure, blocked, relaxed>>
       \/ \E m \in Markets, b \in Books :
            /\ book' = [book EXCEPT ![m] = b]
            /\ UNCHANGED <<rate, stale, free, exposure, blocked, relaxed>>
       \/ \E m \in Markets :
            /\ stale' = stale \cup {m}
            /\ UNCHANGED <<rate, book, free, exposure, blocked, relaxed>>
       \/ \E h \in Holdings, n \in Amounts :
            /\ free' = [free EXCEPT ![h] = n]
            /\ UNCHANGED <<rate, book, stale, exposure, blocked, relaxed>>
       \/ \E r \in RedisRules :
            /\ blocked' = blocked \cup {r}
            /\ UNCHANGED <<rate, book, stale, free, exposure, relaxed>>
       \/ /\ relaxed' = ~relaxed
          /\ UNCHANGED <<rate, book, stale, free, exposure, blocked>>
    /\ UNCHANGED planning

Next == (\E o \in Opportunities : Begin(o)) \/ RedisAnswers \/ Recorded \/ Change

Spec == Init /\ [][Next]_vars
-----------------------------------------------------------------------------
AtMost(a, b) == a[1] * b[2] <= b[1] * a[2]
Cost(leg) == <<leg.qty[1] * leg.price, leg.qty[2]>>

\* Whatever the rules said and whatever changed meanwhile, a plan orders no more
\* than the snapshot covers, and each leg of a triangle spends at most what the
\* leg before it brings.  What the balance rule approved is planned in full.
PlanIsCovered ==
    plan # None =>
        /\ snapshot.free["quote"] # None => AtMost(Cost(plan.legs[1]), <<snapshot.free["quote"], 1>>)
        /\ plan.strategy = "cross" =>
            /\ plan.legs[1].qty = plan.legs[2].qty
            /\ snapshot.free["base"] # None => AtMost(plan.legs[2].qty, <<snapshot.free["base"], 1>>)
            /\ plan.approved /\ "balance_sufficiency" \in checked => plan.start = opp.qty
        /\ plan.strategy = "triangular" =>
            /\ AtMost(Cost(plan.legs[2]), plan.legs[1].qty)
            /\ AtMost(plan.legs[3].qty, plan.legs[2].qty)

\* Only spreads that a scanner has walked through two books deep enough are
\* approved under all rules: requests of the API and triangles carry no depth.
\* With a list of pairs no triangle is approved under the relaxed rules either,
\* since its name is none of theirs.
OnlyWalkedOnesPass ==
    plan # None /\ plan.approved =>
        /\ "min_depth" \in checked =>
            /\ Shallower(opp) >= MinDepth
            /\ MinDepth > 0 => plan.strategy = "cross"
        /\ Whitelist # {} => plan.strategy = "cross"

\* The simulation that goes with the plan of a triangle promises no better return
\* than the plan's legs when the last of them is sold for the best there is: the
\* bid of the ticker, which the plan counts on, or, where the pair has a book, its
\* first bid.  So it promises more than the plan only if that bid is higher than
\* the ticker's, which is cached on its own.
BestEnd(p) ==
    IF book["third"] = None THEN p.end
    ELSE <<p.legs[3].qty[1] * book["third"].bids[1].price, p.legs[3].qty[2]>>

SimulationIsNoBetter ==
    [][plan = None /\ plan' # None /\ plan'.strategy = "triangular" /\ plan'.simulatedEnd # None =>
        AtMost(<<plan'.simulatedEnd[1] * plan'.start, plan'.simulatedEnd[2] * SimulatedStart(opp)>>,
               BestEnd(plan'))]_vars
=============================================================================
