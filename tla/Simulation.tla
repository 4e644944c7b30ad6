----------------------------- MODULE Simulation -----------------------------
(***************************************************************************)
(* services/simulation.py: what an opportunity would bring if its orders   *)
(* were filled from the cached books.  The planner asks it before a plan   *)
(* is made.  Only the depth mode, the one the application runs in, walks a *)
(* book; without a book the price of the ticker is worsened by a fixed     *)
(* percentage.                                                             *)
(*                                                                         *)
(* A fill is a quantity and a cost; costs are multiplied by Hundred, so    *)
(* that percentages of them stay whole numbers.                            *)
(***************************************************************************)
EXTENDS OrderBooks

CONSTANTS
    Slip,        \* the fixed slippage, in percent
    TakerFee     \* the taker fee of the simulation's table, in percent

ASSUME SimulationAssumption == Slip \in Nat /\ TakerFee \in 0..100

Hundred == 100

\* simulate_order.  levels = <<>> when there is no book: a cached book without
\* levels on this side fills nothing (Empty), no book at all falls to the fixed model.
Simulated(side, q, price, hasBook, levels) ==
    IF hasBook
    THEN LET f == WalkBook(levels, q) IN [qty |-> f.qty, cost |-> f.cost * Hundred]
    ELSE [qty |-> q,
          cost |-> q * price * (IF side = "BUY" THEN Hundred + Slip ELSE Hundred - Slip)]

\* The fee of a fill, times Hundred * Hundred.
SimulatedFee(fill) == fill.cost * TakerFee

SellsAll(q, ask, bid, buyBook, asks, sellBook, bids) ==        \* mutant: the sale
    LET bought == Simulated("BUY", q, ask, buyBook, asks)      \* of the whole purchase
        sold   == Simulated("SELL", bought.qty, bid, sellBook, bids)
    IN  [bought |-> bought, sold |-> sold, qty |-> bought.qty]

\* simulate_cross_exchange: the sale of what the purchase brings; the smaller
\* of the two is valued at the two average prices.
CrossExchange(q, ask, bid, buyBook, asks, sellBook, bids) ==
    LET bought == Simulated("BUY", q, ask, buyBook, asks)
        sold   == Simulated("SELL", bought.qty, bid, sellBook, bids)
    IN  [bought |-> bought, sold |-> sold, qty |-> Lesser(bought.qty, sold.qty)]

\* "feasible": net_profit > 0, multiplied by the two quantities and Hundred twice.
Feasible(sim) ==
    /\ sim.qty > 0
    /\ sim.qty * Hundred * (sim.sold.cost * sim.bought.qty - sim.bought.cost * sim.sold.qty)
         > (SimulatedFee(sim.bought) + SimulatedFee(sim.sold)) * sim.bought.qty * sim.sold.qty
=============================================================================
