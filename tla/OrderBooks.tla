----------------------------- MODULE OrderBooks -----------------------------
(***************************************************************************)
(* How the code walks an order book: core/calculations.py,                 *)
(* services/simulation.py and services/scanner.py each have a walk of      *)
(* their own.  A side of a book is a sequence of levels, the best first.   *)
(*                                                                         *)
(* Quantities and amounts of money are whole numbers of a unit that makes  *)
(* the divisions below exact: every amount is a multiple of every price    *)
(* times the unit.  An average price is left as a cost and a quantity.     *)
(***************************************************************************)
EXTENDS Integers, SequencesExt, FiniteSetsExt

Lesser(a, b) == IF a < b THEN a ELSE b
Positive(n) == IF n > 0 THEN n ELSE 0

\* A side of a book; its levels have a price.
Levels == Seq([price : Nat \ {0}, qty : Nat])

Ascending(levels) ==
    \A i, j \in DOMAIN levels : i <= j => levels[i].price <= levels[j].price

Descending(levels) ==
    \A i, j \in DOMAIN levels : i <= j => levels[j].price <= levels[i].price

Fill == [qty : Nat, cost : Nat]
Nothing == [qty |-> 0, cost |-> 0]

Add(fill, q, price) == [qty |-> fill.qty + q, cost |-> fill.cost + q * price]

-----------------------------------------------------------------------------
\* What the walks should compute: the part of level i that an order for q takes
\* is what is left of q behind the levels before it.
Before(levels, i) == SumFunctionOnSet([j \in DOMAIN levels |-> levels[j].qty], 1..i - 1)

Part(levels, q, i) == Lesser(Positive(q - Before(levels, i)), levels[i].qty)

Market(levels, q) ==
    [qty  |-> SumFunction([i \in DOMAIN levels |-> Part(levels, q, i)]),
     cost |-> SumFunction([i \in DOMAIN levels |-> Part(levels, q, i) * levels[i].price])]

Depth(levels) == SumFunction([i \in DOMAIN levels |-> levels[i].qty])

-----------------------------------------------------------------------------
(***************************************************************************)
(* The walks of the code.                                                  *)
(***************************************************************************)

\* walk_orderbook_depth
Takes(fill, level, target) ==
    IF level.qty <= 0 THEN fill
    ELSE Add(fill, Lesser(level.qty, Positive(target - fill.qty)), level.price)

WalkDepth(levels, target) ==
    IF target <= 0 THEN Nothing
    ELSE FoldLeft(LAMBDA f, l : Takes(f, l, target), Nothing, levels)

\* DepthBasedSlippageModel.walk_book, and the bids in the scanner's
\* _compute_executable_quantity: levels without a price are left out.
Walked(fill, level, target) ==
    IF fill.qty >= target \/ level.price <= 0 \/ level.qty <= 0 THEN fill
    ELSE Add(fill, Lesser(level.qty, target - fill.qty), level.price)

WalkBook(levels, target) == FoldLeft(LAMBDA f, l : Walked(f, l, target), Nothing, levels)

\* The asks in _compute_executable_quantity and in compute_executable_quantity:
\* what an amount of money buys.
Buys(fill, level, money) ==
    IF level.price <= 0 \/ level.qty <= 0 \/ money <= fill.cost THEN fill
    ELSE Add(fill, Lesser(level.qty, (money - fill.cost) \div level.price), level.price)

Spend(levels, money) == FoldLeft(LAMBDA f, l : Buys(f, l, money), Nothing, levels)

\* _compute_orderbook_depth_usdt
DepthUsdt(levels) ==
    MapThenSumSet(LAMBDA i : Positive(levels[i].price) * levels[i].qty, DOMAIN levels)
=============================================================================
