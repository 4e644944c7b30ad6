---------------------- MODULE PlanningAndAlerts_proofs -----------------------
(***************************************************************************)
(* Two services that judge what the rest of the system shows them.         *)
(*                                                                         *)
(* Planning, for any tickers, books, balances and settings and any number  *)
(* of changes of the surroundings: that a plan is covered by the balances  *)
(* it was made from, that only what the rules are meant to let through is  *)
(* approved, and that the simulation of a triangle promises no more than   *)
(* its plan's legs sold for the best there is.  The invariant carries from pause to pause what the rules     *)
(* have found: whatever rule was checked and did not refuse does hold of   *)
(* the opportunity and the snapshot, which stay as they were when it ran.  *)
(*                                                                         *)
(* Alerts, for any cooldowns, intervals and times of sending: that trading *)
(* is never blocked for long without an alert.                             *)
(***************************************************************************)
EXTENDS Planning, Alerts, OrderBooks_proofs

\* What every opportunity has, whoever made it.
Sound(o) ==
    /\ o.strategy \in {"cross", "triangular"}
    /\ o.buyPrice \in Nat /\ o.sellPrice \in Nat
    /\ o.depthBuy \in Nat /\ o.depthSell \in Nat
    /\ o.value \in Int
    /\ o.strategy = "cross" =>
        /\ o.qty \in Nat /\ o.buyPrice > 0
        /\ o.qty * o.buyPrice <= o.value
    /\ o.strategy = "triangular" =>
        /\ o.symbol = JoinedSymbol
        /\ o.depthBuy = 0 /\ o.depthSell = 0

\* Of the rules that were checked, those that did not refuse have found what
\* they look for.
Found(done, refused, o, c) ==
    /\ "balance_sufficiency" \in done \ refused => ~Uncovered(o, c)
    /\ "min_depth" \in done \ refused => ~TooThin(o)
    /\ "symbol_whitelist_blacklist" \in done \ refused =>
            Whitelist = {} \/ o.symbol \in Whitelist

Known ==
    /\ rate \in [Markets -> Rates \cup {None}]
    /\ book \in [Markets -> Books \cup {None}]
    /\ free \in [Holdings -> Amounts \cup {None}]

\* The rules that ask Redis are never relaxed: the second, the third and the tenth.
Turns ==
    /\ at \in {"idle", "asking", "recording"}
    /\ at = "asking" => turn \in {2, 3, 10}
    /\ at # "idle" => plan = None

Begun ==
    at # "idle" \/ plan # None =>
        /\ Sound(opp)
        /\ snapshot.free \in [Holdings -> Amounts \cup {None}]
        /\ Found(checked, violations, opp, Context)

PlanInv ==
    /\ Known /\ Turns /\ Begun
    /\ PlanIsCovered /\ OnlyWalkedOnesPass

(***************************************************************************)
(* The opportunities.                                                      *)
(***************************************************************************)
\* A crossing of two exchanges, with whatever estimates.
LEMMA CrossIsSound ==
    ASSUME NEW b \in Nat, b > 0, NEW s \in Nat, NEW q \in Nat, NEW n, NEW f, NEW d \in Nat
    PROVE  Sound(Cross(b, s, q, n, f, d))
BY DEF Sound, Cross

\* A triangle at the tickers' prices.
LEMMA TriangleIsSound ==
    ASSUME rate["buy"].ask \in Nat, rate["third"].bid \in Nat, NEW q, NEW v \in Int
    PROVE  Sound(Triangle(q, v))
BY DEF Sound, Triangle

\* A ticker has two prices.
LEMMA TickerPrices ==
    ASSUME NEW r \in Rates
    PROVE  r.bid \in Nat /\ r.ask \in Nat
BY PlanningAssumption

\* The markets of the path.
LEMMA PathMarkets ==
    Range(Path) = {"buy", "second", "third"} /\ Markets = {"buy", "second", "third", "sell"}
BY DEF Path, Markets, Range

\* Of a ticker that is there both prices are known to be numbers.
LEMMA RatePrices ==
    ASSUME Known, NEW m \in Markets, rate[m] # None
    PROVE  rate[m].bid \in Nat /\ rate[m].ask \in Nat
<1>1. rate[m] \in Rates
  BY DEF Known
<1> QED
  BY <1>1, TickerPrices

\* Dividing by a price and multiplying again gives no more than before.
LEMMA FloorCovers ==
    ASSUME NEW a \in Nat, NEW p \in Nat, p > 0
    PROVE  a \div p \in Nat /\ (a \div p) * p <= a
<1>1. a = p * (a \div p) + (a % p) /\ a % p \in 0..p - 1 /\ a \div p \in Int
  OBVIOUS
<1>2. a \div p >= 0
  <2>1. ASSUME a \div p <= -1 PROVE FALSE
    <3>1. p * (a \div p) <= p * (-1)
      BY <2>1, <1>1
    <3> QED
      BY <1>1, <3>1
  <2> QED
    BY <1>1, <2>1
<1>3. p * (a \div p) = (a \div p) * p
  BY <1>1
<1> QED
  BY <1>1, <1>2, <1>3

\* What fits in times the price, fits in the quotient.
LEMMA DivisionKeeps ==
    ASSUME NEW a \in Nat, NEW p \in Nat, p > 0, NEW q \in Nat, q * p <= a
    PROVE  q <= a \div p
<1>1. a = p * (a \div p) + (a % p) /\ a % p < p /\ a \div p \in Int /\ a % p \in Int
  OBVIOUS
<1>2. ASSUME a \div p + 1 <= q PROVE FALSE
  <2>1. \A x, y \in Int : x <= y => p * x <= p * y
    OBVIOUS
  <2>2. p * (a \div p + 1) <= p * q
    BY <1>1, <1>2, <2>1
  <2>3. p * (a \div p + 1) = p * (a \div p) + p
    BY <1>1
  <2>4. p * q = q * p
    OBVIOUS
  <2> QED
    BY <1>1, <2>2, <2>3, <2>4
<1> QED
  BY <1>1, <1>2

\* Everything the planner is asked to plan is an opportunity of this kind.
LEMMA OpportunitiesAreSound ==
    ASSUME Known, NEW o \in Opportunities
    PROVE  Sound(o)
<1>1. ASSUME NEW x \in ScannedCross
      PROVE  Sound(x) /\ x.buyPrice > 0 /\ x.strategy = "cross"
  <2>1. PICK r \in Rates, s \in Rates, q \in Sizes, f \in FeeSet, d \in Depths :
            /\ r.ask > 0
            /\ x = Cross(r.ask, s.bid, q, SpreadPct(r.ask, s.bid) - 2 * f, f, d)
    BY <1>1 DEF ScannedCross
  <2>2. r.ask \in Nat /\ s.bid \in Nat /\ q \in Nat /\ d \in Nat
    BY TickerPrices, PlanningAssumption
  <2>3. Sound(x)
    BY <2>1, <2>2, CrossIsSound
  <2> QED
    BY <2>1, <2>3 DEF Cross
<1>2. ASSUME NEW x \in ScannedTriangle
      PROVE  Sound(x) /\ x.buyPrice > 0 /\ x.strategy = "triangular"
  <2>1. TickersThere /\ GainPct > 0 /\ x = Triangle(0, 0)
    BY <1>2 DEF ScannedTriangle
  <2>2. rate["buy"] # None /\ rate["second"] # None /\ rate["third"] # None
    BY <2>1, PathMarkets DEF TickersThere
  <2>3. /\ rate["buy"].ask \in Nat /\ rate["second"].ask \in Nat
        /\ rate["third"].bid \in Nat
    BY <2>2, PathMarkets, RatePrices
  <2>4. rate["buy"].ask > 0
    <3>1. rate["buy"].ask * rate["second"].ask > 0
      BY <2>1 DEF GainPct
    <3> QED
      BY <3>1, <2>3
  <2>5. Sound(x)
    BY <2>1, <2>3, TriangleIsSound
  <2> QED
    BY <2>1, <2>4, <2>5 DEF Triangle
<1>3. ASSUME NEW x \in Scanned
      PROVE  Sound(Sized(x))
  <2>1. Sound(x) /\ x.buyPrice > 0
    BY <1>1, <1>2 DEF Scanned
  <2>2. /\ PaperSize \in Nat /\ PaperSize \div x.buyPrice \in Nat
        /\ (PaperSize \div x.buyPrice) * x.buyPrice <= PaperSize
    BY <2>1, FloorCovers, PlanningAssumption DEF Sound
  <2>3. /\ Sized(x).qty = PaperSize \div x.buyPrice /\ Sized(x).value = PaperSize
        /\ Sized(x).strategy = x.strategy /\ Sized(x).symbol = x.symbol
        /\ Sized(x).buyPrice = x.buyPrice /\ Sized(x).sellPrice = x.sellPrice
        /\ Sized(x).depthBuy = x.depthBuy /\ Sized(x).depthSell = x.depthSell
    BY <1>3 DEF Sized, Scanned, ScannedCross, ScannedTriangle, Cross, Triangle
  <2> QED
    BY <2>1, <2>2, <2>3 DEF Sound
<1>4. ASSUME NEW x \in RequestedCross
      PROVE  Sound(x)
  <2>1. PICK q \in Sizes :
            /\ rate["buy"] # None /\ rate["sell"] # None
            /\ ~(rate["buy"].ask <= 0) /\ ~(rate["sell"].bid <= 0)
            /\ x = Cross(rate["buy"].ask, rate["sell"].bid, RequestedQty(q),
                         SpreadPct(rate["buy"].ask, rate["sell"].bid) - 2 * DefaultFeePct,
                         DefaultFeePct, 0)
    BY <1>4 DEF RequestedCross
  <2>2. rate["buy"].ask \in Nat /\ rate["sell"].bid \in Nat /\ rate["buy"].ask > 0
    BY <2>1, PathMarkets, RatePrices
  <2>3. RequestedQty(q) \in Nat
    <3>1. free["quote"] # None => free["quote"] \in Nat
      BY PlanningAssumption DEF Known, Holdings
    <3>2. 10 * rate["buy"].ask \in Nat /\ 10 * rate["buy"].ask > 0
      BY <2>2
    <3>3. free["quote"] # None => free["quote"] \div (10 * rate["buy"].ask) \in Nat
      BY <3>1, <3>2, FloorCovers
    <3>4. q \in Nat /\ DefaultQty \in Nat
      BY PlanningAssumption
    <3> QED
      BY <3>3, <3>4 DEF RequestedQty
  <2> QED
    BY <2>1, <2>2, <2>3, CrossIsSound
<1>5. ASSUME NEW x \in RequestedTriangle
      PROVE  Sound(x)
  <2>1. TickersThere /\ \E q : x = Triangle(q, StartAmount)
    BY <1>5 DEF RequestedTriangle
  <2>2. rate["buy"].ask \in Nat /\ rate["third"].bid \in Nat
    BY <2>1, PathMarkets, RatePrices DEF TickersThere
  <2> QED
    BY <2>1, <2>2, TriangleIsSound, PlanningAssumption
<1> QED
  BY <1>1, <1>2, <1>3, <1>4, <1>5 DEF Opportunities, Scanned

(***************************************************************************)
(* The rules.                                                              *)
(***************************************************************************)
\* The least element, when there is one.
LEMMA MinIs ==
    ASSUME NEW S \in SUBSET Int, NEW m \in S, \A y \in S : m <= y
    PROVE  Min(S) = m
<1>1. \A x \in S : (\A y \in S : x =< y) => x = m
  OBVIOUS
<1> QED
  BY <1>1 DEF Min

\* Twelve rules, of which the second, the third and the tenth ask Redis.
LEMMA TwelveRules ==
    /\ Len(RuleNames) = 12
    /\ \A j \in 1..12 : RuleNames[j] \in RedisRules <=> j \in {2, 3, 10}
    /\ RuleNames[8] = "balance_sufficiency" /\ RuleNames[6] = "min_depth"
    /\ RuleNames[11] = "symbol_whitelist_blacklist"
    /\ DOMAIN RuleNames = 1..12
BY DEF RuleNames, RedisRules

\* The relaxation leaves the rules that ask Redis and the list of pairs alone.
LEMMA AlwaysEnabled == RedisRules \cup {"symbol_whitelist_blacklist"} \subseteq Enabled
<1>1. RedisRules \cup {"symbol_whitelist_blacklist"} \subseteq AllRules
  BY DEF RedisRules, AllRules, RuleNames
<1> QED
  BY <1>1 DEF Enabled, PaperSkipRules, RedisRules

\* Where the evaluation pauses next.
LEMMA Pauses ==
    /\ NextAsking(1, Enabled) = 2 /\ NextAsking(3, Enabled) = 3
    /\ NextAsking(4, Enabled) = 10 /\ NextAsking(11, Enabled) = 13
<1>1. \A i \in 1..12 : {j \in i..12 : RuleNames[j] \in RedisRules \cap Enabled}
                         = {j \in {2, 3, 10} : i <= j}
  BY TwelveRules, AlwaysEnabled
<1>2. \A i \in 1..12 : NextAsking(i, Enabled) = Min({13} \cup {j \in {2, 3, 10} : i <= j})
  BY <1>1, TwelveRules DEF NextAsking
<1>3. Min({13} \cup {j \in {2, 3, 10} : 1 <= j}) = 2
  BY MinIs
<1>4. Min({13} \cup {j \in {2, 3, 10} : 3 <= j}) = 3
  BY MinIs
<1>5. Min({13} \cup {j \in {2, 3, 10} : 4 <= j}) = 10
  BY MinIs
<1>6. Min({13} \cup {j \in {2, 3, 10} : 11 <= j}) = 13
  BY MinIs
<1> QED
  BY <1>2, <1>3, <1>4, <1>5, <1>6

\* Behind the last pause the list of pairs is looked at.
LEMMA LastRules == "symbol_whitelist_blacklist" \in AtOnce(11, Enabled)
<1>1. 11 \in 11..NextAsking(11, Enabled) - 1
  BY Pauses
<1>2. "symbol_whitelist_blacklist" \notin RedisRules
  BY DEF RedisRules
<1> QED
  BY <1>1, <1>2, TwelveRules, AlwaysEnabled DEF AtOnce

\* The evaluation goes on without losing what it has found.
LEMMA EvaluationFinds ==
    ASSUME NEW i, NEW o, NEW c, NEW before, Evaluates(i, o, c, before),
           Found(before.checked, before.violations, o, c)
    PROVE  Found(checked', violations', o, c)
<1> DEFINE now == AtOnce(i, Enabled)
           refused == Refusing(now, o, c, Stale)
<1>1. checked' = before.checked \cup now /\ violations' = before.violations \cup refused
  BY DEF Evaluates
<1>2. Found(now, refused, o, c)
  BY DEF Refusing, Found
<1> HIDE DEF now, refused
<1> QED
  BY <1>1, <1>2 DEF Found

(***************************************************************************)
(* The plans.                                                              *)
(***************************************************************************)
\* What an order may buy and sell is not more than the snapshot covers, and what
\* the balances suffice for is not reduced.
LEMMA TargetIsCovered ==
    ASSUME NEW o, Sound(o), o.strategy = "cross",
           snapshot.free \in [Holdings -> Amounts \cup {None}]
    PROVE  /\ TargetQty(o) \in Nat
           /\ snapshot.free["quote"] # None => TargetQty(o) * o.buyPrice <= snapshot.free["quote"]
           /\ snapshot.free["base"] # None => TargetQty(o) <= snapshot.free["base"]
           /\ ~Uncovered(o, Context) => TargetQty(o) = o.qty
<1> DEFINE quote == snapshot.free["quote"]
           base == snapshot.free["base"]
           B == IF quote # None /\ o.buyPrice > 0 THEN {quote \div o.buyPrice} ELSE {}
           C == IF base # None THEN {base} ELSE {}
           q == TargetQty(o)
<1>1. /\ o.qty \in Nat /\ o.buyPrice \in Nat /\ o.buyPrice > 0 /\ o.value \in Int
      /\ o.qty * o.buyPrice <= o.value
  BY DEF Sound
<1>2. (quote # None => quote \in Nat) /\ (base # None => base \in Nat)
  BY PlanningAssumption DEF Holdings
<1>3. quote # None => /\ quote \div o.buyPrice \in Nat
                      /\ (quote \div o.buyPrice) * o.buyPrice <= quote
  BY <1>1, <1>2, FloorCovers
<1>4. q = Min({o.qty} \cup B \cup C)
  BY DEF TargetQty
<1>5. PICK b \in Nat, c \in Nat : (B = {} \/ B = {b}) /\ (C = {} \/ C = {c})
  BY <1>2, <1>3
<1>6. B \in SUBSET Int /\ C \in SUBSET Int
  BY <1>5
<1>7. /\ q \in {o.qty} \cup B \cup C /\ q <= o.qty
      /\ (\A x \in B : q <= x) /\ (\A x \in C : q <= x)
  <2> DEFINE S == {o.qty} \cup B \cup C
  <2>1. o.qty \in Int /\ b \in Int /\ c \in Int
    BY <1>1, <1>5
  <2> HIDE DEF B, C
  <2>2. PICK n \in {o.qty, b, c} :
            /\ n \in S
            /\ (o.qty \in S => n <= o.qty) /\ (b \in S => n <= b) /\ (c \in S => n <= c)
    BY <1>5, <2>1
  <2>3. S \in SUBSET Int /\ n \in S /\ \A y \in S : n <= y
    BY <1>5, <1>6, <2>1, <2>2
  <2> HIDE DEF S
  <2>4. Min(S) = n
    BY <2>3, MinIs
  <2>5. q = n
    BY <1>4, <2>4 DEF S
  <2> HIDE DEF q
  <2> QED
    BY <2>3, <2>5 DEF S
<1>8. q \in Nat
  BY <1>1, <1>5, <1>7
<1>9. quote # None => q * o.buyPrice <= quote
  <2> SUFFICES ASSUME quote # None PROVE q * o.buyPrice <= quote
    OBVIOUS
  <2>1. q <= quote \div o.buyPrice
    BY <1>1, <1>7
  <2>2. \A x, y, z \in Nat : x <= y => x * z <= y * z
    OBVIOUS
  <2>3. q * o.buyPrice <= (quote \div o.buyPrice) * o.buyPrice
    <3> HIDE DEF q, quote
    <3> QED
      BY <1>1, <1>3, <1>8, <2>1, <2>2
  <2>4. q * o.buyPrice \in Nat /\ (quote \div o.buyPrice) * o.buyPrice \in Nat
    <3> HIDE DEF q, quote
    <3> QED
      BY <1>1, <1>3, <1>8
  <2> HIDE DEF q, quote
  <2> QED
    BY <1>2, <1>3, <2>3, <2>4
<1>10. base # None => q <= base
  BY <1>7
<1>11. ASSUME ~Uncovered(o, Context) PROVE q = o.qty
  <2>1. Context.balances["quote"] >= o.value /\ Context.balances["base"] >= o.qty
    <3>1. /\ Context.balances["quote"] = IF quote = None THEN 0 ELSE quote
          /\ Context.balances["base"] = IF base = None THEN 0 ELSE base
      BY DEF Context, Holdings
    <3>2. Context.balances["quote"] \in Nat /\ Context.balances["base"] \in Nat
      BY <3>1, <1>2
    <3> QED
      BY <1>1, <1>11, <3>2 DEF Uncovered
  <2>2. /\ quote # None => quote >= o.qty * o.buyPrice
        /\ base # None => base >= o.qty
    <3>1. /\ Context.balances["quote"] = IF quote = None THEN 0 ELSE quote
          /\ Context.balances["base"] = IF base = None THEN 0 ELSE base
      BY DEF Context, Holdings
    <3>2. o.qty * o.buyPrice \in Nat
      BY <1>1
    <3> QED
      BY <1>1, <1>2, <2>1, <3>1, <3>2
  <2>3. quote # None => quote \div o.buyPrice >= o.qty
    <3> SUFFICES ASSUME quote # None PROVE quote \div o.buyPrice >= o.qty
      OBVIOUS
    <3> QED
      BY <1>1, <1>2, <2>2, DivisionKeeps
  <2>4. \A x \in B \cup C : o.qty <= x
    BY <2>2, <2>3
  <2> QED
    BY <1>1, <1>7, <1>8, <2>4
<1> QED
  BY <1>8, <1>9, <1>10, <1>11

\* A triangle starts with no more than is free.
LEMMA StartIsCovered ==
    ASSUME NEW o, Sound(o), snapshot.free \in [Holdings -> Amounts \cup {None}]
    PROVE  /\ Start(o) \in Nat
           /\ snapshot.free["quote"] # None => Start(o) <= snapshot.free["quote"]
<1>1. snapshot.free["quote"] # None => snapshot.free["quote"] \in Nat
  BY PlanningAssumption DEF Holdings
<1>2. o.value \in Int /\ DefaultStart \in Nat
  BY PlanningAssumption DEF Sound
<1> QED
  BY <1>1, <1>2 DEF Start, Lesser

\* Each leg has a price, and where the ticker has one it is the ticker's.
LEMMA LegsHavePrices ==
    ASSUME Known, NEW o, Sound(o), NEW i \in 1..3
    PROVE  /\ LegPrice(o, i) \in Nat /\ LegPrice(o, i) > 0
           /\ Reference(Path[i], Sides[i]) \in Nat
           /\ Reference(Path[i], Sides[i]) > 0 => LegPrice(o, i) = Reference(Path[i], Sides[i])
<1>1. Path[i] \in Markets
  BY PathMarkets DEF Path
<1>2. rate[Path[i]] # None => rate[Path[i]].bid \in Nat /\ rate[Path[i]].ask \in Nat
  BY <1>1, RatePrices
<1>3. Reference(Path[i], Sides[i]) \in Nat
  BY <1>2 DEF Reference
<1>4. o.buyPrice \in Nat /\ o.sellPrice \in Nat
  BY DEF Sound
<1>5. rate[Path[i]] = None => Reference(Path[i], Sides[i]) = 0
  BY DEF Reference
<1> QED
  BY <1>3, <1>4, <1>5 DEF LegPrice

\* The amounts on the way through a triangle.
LEMMA AmountsOnTheWay ==
    ASSUME NEW o, Start(o) \in Nat, \A i \in 1..3 : LegPrice(o, i) \in Nat
    PROVE  /\ AmountThrough(o, 1) = <<Start(o), LegPrice(o, 1)>>
           /\ AmountThrough(o, 2) = <<Start(o), LegPrice(o, 1) * LegPrice(o, 2)>>
           /\ AmountThrough(o, 3) = <<Start(o) * LegPrice(o, 3), LegPrice(o, 1) * LegPrice(o, 2)>>
<1>1. Sides[1] = "BUY" /\ Sides[2] = "BUY" /\ Sides[3] = "SELL"
  BY DEF Sides
<1>2. 1 * LegPrice(o, 1) = LegPrice(o, 1)
  OBVIOUS
<1>3. Through(<<Start(o), 1>>, PlannedLeg(o, 1)) = <<Start(o), LegPrice(o, 1)>>
  BY <1>1, <1>2 DEF Through, PlannedLeg
<1>4. Through(<<Start(o), LegPrice(o, 1)>>, PlannedLeg(o, 2))
        = <<Start(o), LegPrice(o, 1) * LegPrice(o, 2)>>
  BY <1>1 DEF Through, PlannedLeg
<1>5. Through(<<Start(o), LegPrice(o, 1) * LegPrice(o, 2)>>, PlannedLeg(o, 3))
        = <<Start(o) * LegPrice(o, 3), LegPrice(o, 1) * LegPrice(o, 2)>>
  BY <1>1 DEF Through, PlannedLeg
<1> QED
  BY <1>3, <1>4, <1>5 DEF AmountThrough

\* The legs of a triangle's plan: each spends what the one before it brings.
LEMMA TriangleIsCovered ==
    ASSUME NEW o, Known, Sound(o), snapshot.free \in [Holdings -> Amounts \cup {None}], NEW a
    PROVE  LET legs == TriangularPlan(o, a).legs
           IN  /\ snapshot.free["quote"] # None =>
                      AtMost(Cost(legs[1]), <<snapshot.free["quote"], 1>>)
               /\ AtMost(Cost(legs[2]), legs[1].qty)
               /\ AtMost(legs[3].qty, legs[2].qty)
<1> DEFINE legs == TriangularPlan(o, a).legs
           s == Start(o)
           p == LegPrice(o, 1)
           r == LegPrice(o, 2)
<1>1. /\ s \in Nat /\ p \in Nat /\ r \in Nat
      /\ snapshot.free["quote"] # None => s <= snapshot.free["quote"] /\ snapshot.free["quote"] \in Nat
  BY StartIsCovered, LegsHavePrices, PlanningAssumption DEF Holdings
<1>2. \A i \in 1..3 : LegPrice(o, i) \in Nat
  BY LegsHavePrices
<1>3. LegQty(o, 1) = <<s, p>> /\ LegQty(o, 2) = <<s, p * r>> /\ LegQty(o, 3) = <<s, p * r>>
  <2>1. Sides[1] = "BUY" /\ Sides[2] = "BUY" /\ Sides[3] = "SELL"
    BY DEF Sides
  <2>2. LegQty(o, 1) = AmountThrough(o, 1) /\ LegQty(o, 2) = AmountThrough(o, 2)
        /\ LegQty(o, 3) = AmountThrough(o, 2)
    BY <2>1 DEF LegQty
  <2> QED
    BY <1>1, <1>2, <2>2, AmountsOnTheWay
<1>4. /\ legs[1].qty = <<s, p>> /\ legs[1].price = p
      /\ legs[2].qty = <<s, p * r>> /\ legs[2].price = r
      /\ legs[3].qty = <<s, p * r>>
  BY <1>3 DEF TriangularPlan, Leg
<1> HIDE DEF legs, s, p, r
<1>5. Cost(legs[1]) = <<s * p, p>> /\ Cost(legs[2]) = <<s * r, p * r>>
  BY <1>4 DEF Cost
<1>6. ASSUME snapshot.free["quote"] # None
      PROVE  AtMost(Cost(legs[1]), <<snapshot.free["quote"], 1>>)
  <2>1. \A x, y, z \in Nat : x <= y => (x * z) * 1 <= y * z
    OBVIOUS
  <2>2. (s * p) * 1 <= snapshot.free["quote"] * p
    BY <1>1, <1>6, <2>1
  <2> QED
    BY <1>5, <2>2 DEF AtMost
<1>7. AtMost(Cost(legs[2]), legs[1].qty)
  <2>1. \A x, y, z \in Nat : (x * z) * y <= x * (y * z)
    <3>1. \A x, y, z \in Nat : (x * z) * y = x * (y * z)
      OBVIOUS
    <3>2. \A x, y, z \in Nat : x * (y * z) \in Nat
      OBVIOUS
    <3> QED
      BY <3>1, <3>2
  <2>2. (s * r) * p <= s * (p * r)
    BY <1>1, <2>1
  <2> QED
    BY <1>4, <1>5, <2>2 DEF AtMost
<1>8. AtMost(legs[3].qty, legs[2].qty)
  <2>1. s * (p * r) \in Nat
    BY <1>1
  <2>2. s * (p * r) <= s * (p * r)
    BY <2>1
  <2> QED
    BY <1>4, <2>2 DEF AtMost
<1>9. /\ snapshot.free["quote"] # None => AtMost(Cost(legs[1]), <<snapshot.free["quote"], 1>>)
      /\ AtMost(Cost(legs[2]), legs[1].qty)
      /\ AtMost(legs[3].qty, legs[2].qty)
  BY <1>6, <1>7, <1>8
<1> QED
  BY <1>9 DEF legs

\* A plan that has just been built is covered by the snapshot.
LEMMA BuiltIsCovered ==
    ASSUME Known, Sound(opp), snapshot.free \in [Holdings -> Amounts \cup {None}],
           NEW a \in BOOLEAN, plan' = Built(opp, a), opp' = opp, snapshot' = snapshot,
           a /\ "balance_sufficiency" \in checked' => ~Uncovered(opp, Context)
    PROVE  PlanIsCovered'
<1>1. CASE opp.strategy = "cross"
  <2> DEFINE q == TargetQty(opp)
  <2>1. /\ q \in Nat
        /\ snapshot.free["quote"] # None => q * opp.buyPrice <= snapshot.free["quote"]
        /\ snapshot.free["base"] # None => q <= snapshot.free["base"]
        /\ ~Uncovered(opp, Context) => q = opp.qty
    BY <1>1, TargetIsCovered
  <2>2. plan' = CrossPlan(opp, a)
    BY <1>1 DEF Built
  <2>3. /\ plan'.strategy = "cross" /\ plan'.approved = a /\ plan'.start = q
        /\ plan'.legs[1].qty = <<q, 1>> /\ plan'.legs[2].qty = <<q, 1>>
        /\ plan'.legs[1].price = opp.buyPrice
    BY <2>2 DEF CrossPlan, Leg
  <2> HIDE DEF q
  <2>4. Cost(plan'.legs[1]) = <<q * opp.buyPrice, 1>>
    BY <2>3 DEF Cost
  <2>5. /\ \A h \in Holdings : snapshot.free[h] # None => snapshot.free[h] \in Nat
        /\ opp.buyPrice \in Nat
    BY PlanningAssumption DEF Sound
  <2>6. ASSUME snapshot.free["quote"] # None
        PROVE  AtMost(Cost(plan'.legs[1]), <<snapshot.free["quote"], 1>>)
    <3>1. \A x, y \in Nat : x <= y => x * 1 <= y * 1
      OBVIOUS
    <3>2. q * opp.buyPrice \in Nat /\ snapshot.free["quote"] \in Nat
      BY <2>1, <2>5, <2>6 DEF Holdings
    <3>3. (q * opp.buyPrice) * 1 <= snapshot.free["quote"] * 1
      BY <2>1, <2>6, <3>1, <3>2
    <3> QED
      BY <2>4, <3>3 DEF AtMost
  <2>7. ASSUME snapshot.free["base"] # None
        PROVE  AtMost(plan'.legs[2].qty, <<snapshot.free["base"], 1>>)
    BY <2>1, <2>3, <2>5, <2>7 DEF AtMost, Holdings
  <2> QED
    BY <2>1, <2>3, <2>6, <2>7 DEF PlanIsCovered
<1>2. CASE opp.strategy # "cross"
  <2>1. plan' = TriangularPlan(opp, a)
    BY <1>2 DEF Built
  <2>2. /\ snapshot.free["quote"] # None =>
               AtMost(Cost(plan'.legs[1]), <<snapshot.free["quote"], 1>>)
        /\ AtMost(Cost(plan'.legs[2]), plan'.legs[1].qty)
        /\ AtMost(plan'.legs[3].qty, plan'.legs[2].qty)
    BY <2>1, TriangleIsCovered
  <2>3. plan'.strategy = "triangular"
    BY <2>1 DEF TriangularPlan
  <2> QED
    BY <2>2, <2>3 DEF PlanIsCovered
<1> QED
  BY <1>1, <1>2

\* A book counted in parts of its unit is a book.
LEMMA ScaledTypes ==
    ASSUME NEW levels \in Levels, NEW parts \in Nat
    PROVE  /\ Scaled(levels, parts) \in Levels
           /\ Descending(levels) => Descending(Scaled(levels, parts))
           /\ Scaled(levels, parts) # <<>> =>
                levels # <<>> /\ Scaled(levels, parts)[1].price = levels[1].price
<1> DEFINE L == [price : Nat \ {0}, qty : Nat]
           t == Scaled(levels, parts)
<1>1. Len(levels) \in Nat /\ DOMAIN levels = 1..Len(levels)
  BY LevelTypes
<1>2. ASSUME NEW i \in DOMAIN levels PROVE t[i] \in L /\ t[i].price = levels[i].price
  <2>1. levels[i].price \in Nat /\ levels[i].price > 0 /\ levels[i].qty \in Nat
    BY LevelTypes
  <2>2. levels[i].qty * parts \in Nat
    BY <2>1, ProductIsNat
  <2>3. t[i] = [price |-> levels[i].price, qty |-> levels[i].qty * parts]
    BY DEF Scaled
  <2> QED
    BY <2>1, <2>2, <2>3
<1>3. DOMAIN t = 1..Len(levels) /\ t = [i \in 1..Len(levels) |-> t[i]]
  BY <1>1 DEF Scaled
<1> HIDE DEF t
<1>4. t \in Levels
  <2>1. t \in Seq(L)
    <3> HIDE DEF L
    <3> QED
      BY <1>1, <1>2, <1>3
  <2> QED
    BY <2>1 DEF Levels
<1>5. Descending(levels) => Descending(t)
  BY <1>1, <1>2, <1>3 DEF Descending
<1>6. ASSUME t # <<>> PROVE levels # <<>> /\ t[1].price = levels[1].price
  <2>1. Len(levels) # 0
    <3>1. ASSUME Len(levels) = 0 PROVE t = <<>>
      BY <1>3, <1>4, <3>1 DEF Levels
    <3> QED
      BY <1>6, <3>1
  <2>2. 1 \in DOMAIN levels
    BY <1>1, <2>1
  <2> QED
    BY <1>2, <2>1, <2>2
<1> QED
  BY <1>4, <1>5, <1>6 DEF t

\* The levels that a cached book shows to an order.
LEMMA SideTypes ==
    ASSUME Known, NEW m \in Markets, NEW side \in {"BUY", "SELL"}
    PROVE  /\ Side(m, side) \in Levels
           /\ side = "SELL" => Descending(Side(m, side))
           /\ book[m] # None /\ side = "SELL" => Side(m, side) = book[m].bids
<1>1. <<>> \in Levels /\ Descending(<<>>)
  BY DEF Levels, Descending
<1>2. CASE book[m] = None
  BY <1>1, <1>2 DEF Side
<1>3. CASE book[m] # None
  <2>1. book[m] \in Books
    BY <1>3 DEF Known
  <2>2. book[m].asks \in Levels /\ book[m].bids \in Levels /\ Descending(book[m].bids)
    BY <2>1, PlanningAssumption
  <2> QED
    BY <1>3, <2>2 DEF Side
<1> QED
  BY <1>2, <1>3

\* A price worsened by the fixed slippage is no better.
LEMMA SlippedIsLess ==
    ASSUME NEW n \in Nat
    PROVE  n * (100 - Slip) \in Int /\ n * (100 - Slip) <= n * 100
<1>1. Slip \in Nat
  BY SimulationAssumption
<1>2. n * (100 - Slip) = n * 100 - n * Slip /\ n * Slip \in Nat
  BY <1>1
<1> QED
  BY <1>2

\* The best price the i-th leg could be sold for.
BestSale(i) ==
    IF book[Path[i]] # None THEN book[Path[i]].bids[1].price ELSE Reference(Path[i], Sides[i])

\* An order fills at most its quantity, and a sale brings no more than the
\* quantity at the best price.
LEMMA FillsBringAtMost ==
    ASSUME Known, NEW i \in 1..3, Reference(Path[i], Sides[i]) \in Nat,
           NEW amount, Ordered(amount, i)[1] \in Nat, Ordered(amount, i)[2] \in Nat
    PROVE  /\ SimulatedFill(amount, i).qty \in Nat
           /\ SimulatedFill(amount, i).qty <= Ordered(amount, i)[1]
           /\ Sides[i] = "SELL" /\ SimulatedFill(amount, i).qty # 0 =>
                /\ SimulatedFill(amount, i).cost \in Int
                /\ BestSale(i) \in Nat
                /\ SimulatedFill(amount, i).cost
                     <= (SimulatedFill(amount, i).qty * BestSale(i)) * 100
<1> DEFINE q == Ordered(amount, i)[1]
           parts == Ordered(amount, i)[2]
           p == Reference(Path[i], Sides[i])
           levels == Scaled(Side(Path[i], Sides[i]), parts)
           f == WalkBook(levels, q)
<1>0. Path[i] \in Markets /\ Sides[i] \in {"BUY", "SELL"}
  BY PathMarkets DEF Path, Sides
<1>1. SimulatedFill(amount, i) = Simulated(Sides[i], q, p, book[Path[i]] # None, levels)
  BY DEF SimulatedFill
<1>2. CASE book[Path[i]] # None
  <2>1. SimulatedFill(amount, i) = [qty |-> f.qty, cost |-> f.cost * 100]
    BY <1>1, <1>2 DEF Simulated, Hundred
  <2>2. /\ levels \in Levels
        /\ Sides[i] = "SELL" => Descending(levels)
        /\ Sides[i] = "SELL" /\ levels # <<>> => levels[1].price = BestSale(i)
    BY <1>0, <1>2, SideTypes, ScaledTypes DEF BestSale
  <2> HIDE DEF levels, q
  <2>3. f \in Fill /\ f.qty <= q
    BY <2>2, WalksFillAtMost DEF q
  <2>4. f.qty \in Nat /\ f.cost \in Nat
    BY <2>3 DEF Fill
  <2>5. ASSUME Sides[i] = "SELL", f.qty # 0
        PROVE  BestSale(i) \in Nat /\ f.cost <= f.qty * BestSale(i)
    <3>1. q \in Nat
      BY DEF q
    <3> QED
      BY <2>2, <2>5, <3>1, SalesBringAtMost
  <2> HIDE DEF f
  <2>6. ASSUME Sides[i] = "SELL", f.qty # 0
        PROVE  f.cost * 100 \in Int /\ f.cost * 100 <= (f.qty * BestSale(i)) * 100
    <3>1. f.qty * BestSale(i) \in Nat
      BY <2>4, <2>5, <2>6, ProductIsNat
    <3> QED
      BY <2>4, <2>5, <2>6, <3>1
  <2> QED
    BY <2>1, <2>3, <2>4, <2>5, <2>6 DEF q
<1>3. CASE book[Path[i]] = None
  <2>1. /\ SimulatedFill(amount, i).qty = q
        /\ Sides[i] = "SELL" => SimulatedFill(amount, i).cost = q * p * (100 - Slip)
    BY <1>1, <1>3 DEF Simulated, Hundred
  <2>2. BestSale(i) = p
    BY <1>3 DEF BestSale
  <2> HIDE DEF p, q
  <2>3. p \in Nat /\ q \in Nat /\ q * p \in Nat
    BY ProductIsNat DEF p, q
  <2>4. q * p * (100 - Slip) \in Int /\ q * p * (100 - Slip) <= (q * p) * 100
    BY <2>3, SlippedIsLess
  <2>5. SimulatedFill(amount, i).qty <= Ordered(amount, i)[1]
    BY <2>1, <2>3 DEF q
  <2> QED
    BY <2>1, <2>2, <2>3, <2>4, <2>5
<1> QED
  BY <1>2, <1>3

\* A smaller amount at the same price is worth less, however it is counted.
LEMMA SmallerReturn ==
    ASSUME NEW e \in Int, NEW s \in Nat, NEW a \in Nat, a <= s, NEW best \in Nat,
           e <= (a * best) * 100, NEW z \in Nat, NEW d \in Nat
    PROVE  (e * z) * d <= (z * best) * ((d * 100) * s)
<1> DEFINE m == z * d
           n == (s * best) * 100
<1>1. m \in Nat /\ a * best \in Nat /\ s * best \in Nat
  BY ProductIsNat
<1>2. a * best <= s * best
  <2>1. \A x, y, w \in Nat : x <= y => x * w <= y * w
    OBVIOUS
  <2> QED
    BY <2>1
<1>3. e <= n /\ n \in Nat
  BY <1>1, <1>2
<1>4. (e * z) * d = e * m
  OBVIOUS
<1>5. (z * best) * ((d * 100) * s) = n * m
  OBVIOUS
<1> HIDE DEF m, n
<1>6. \A x, y \in Int, w \in Nat : x <= y => x * w <= y * w
  OBVIOUS
<1>7. e * m <= n * m
  BY <1>1, <1>3, <1>6
<1> QED
  BY <1>4, <1>5, <1>7

\* A simulation that comes to an end: what it has bought before the sale is at
\* most its start over the two prices, and the sale is one of that.
LEMMA SimulatedOnTheWay ==
    ASSUME Known, NEW o, NEW s \in Nat, SimulatedStart(o) = s,
           NEW p \in Nat, NEW r \in Nat,
           Reference("buy", "BUY") = p, Reference("second", "BUY") = r,
           Reference("third", "SELL") \in Nat, SimulatedEnd(o) # None
    PROVE  \E a \in Nat, e \in Int :
              /\ a <= s /\ BestSale(3) \in Nat /\ e <= (a * BestSale(3)) * 100
              /\ SimulatedEnd(o) = <<e, (p * r) * 100>>
<1> DEFINE start == <<s, 1>>
           first == SimulatedThrough(start, 1)
           second == SimulatedThrough(first, 2)
           third == SimulatedFill(second, 3)
<1>1. /\ Sides[1] = "BUY" /\ Sides[2] = "BUY" /\ Sides[3] = "SELL"
      /\ Path[1] = "buy" /\ Path[2] = "second" /\ Path[3] = "third"
  BY DEF Sides, Path
<1>2. first = <<SimulatedFill(start, 1).qty, p>> /\ Ordered(start, 1) = <<s, p>>
  BY <1>1 DEF SimulatedThrough, Ordered
<1>3. first[1] \in Nat /\ first[1] <= s
  <2> HIDE DEF start, first
  <2>1. Ordered(start, 1)[1] = s /\ Ordered(start, 1)[2] = p
    BY <1>2
  <2> QED
    BY <1>1, <1>2, <2>1, FillsBringAtMost
<1> HIDE DEF first
<1>4. /\ second = <<SimulatedFill(first, 2).qty, p * r>>
      /\ Ordered(first, 2) = <<first[1], p * r>>
  <2>1. first[2] = p
    BY <1>2
  <2> QED
    BY <1>1, <2>1 DEF SimulatedThrough, Ordered
<1>5. p * r \in Nat
  BY ProductIsNat
<1>6. second[1] \in Nat /\ second[1] <= first[1]
  <2> HIDE DEF second
  <2>1. Ordered(first, 2)[1] = first[1] /\ Ordered(first, 2)[2] = p * r
    BY <1>4
  <2> QED
    BY <1>1, <1>3, <1>4, <1>5, <2>1, FillsBringAtMost
<1> HIDE DEF second
<1>7. SimulatedEnd(o) = SimulatedThrough(second, 3) /\ third.qty # 0
  BY DEF SimulatedEnd, first, second
<1>8. Ordered(second, 3) = second /\ second[2] = p * r
  BY <1>1, <1>4 DEF Ordered
<1>9. SimulatedEnd(o) = <<third.cost, (p * r) * 100>>
  BY <1>1, <1>7, <1>8 DEF SimulatedThrough, Hundred
<1>10. /\ third.qty \in Nat /\ third.qty <= second[1]
       /\ third.cost \in Int /\ BestSale(3) \in Nat
       /\ third.cost <= (third.qty * BestSale(3)) * 100
  BY <1>1, <1>5, <1>6, <1>7, <1>8, FillsBringAtMost
<1>11. third.qty <= s
  BY <1>3, <1>6, <1>10
<1> HIDE DEF third
<1> QED
  BY <1>9, <1>10, <1>11

\* The simulation that comes with a new plan promises no more than the plan's
\* legs sold for the best there is.
LEMMA BuiltIsSimulated ==
    ASSUME Known, Sound(opp), snapshot.free \in [Holdings -> Amounts \cup {None}],
           NEW a, plan' = Built(opp, a), plan'.strategy = "triangular", plan'.simulatedEnd # None
    PROVE  AtMost(<<plan'.simulatedEnd[1] * plan'.start,
                    plan'.simulatedEnd[2] * SimulatedStart(opp)>>, BestEnd(plan'))
<1>2. plan' = TriangularPlan(opp, a)
  BY DEF Built, CrossPlan
<1>3. /\ plan'.simulatedEnd = SimulatedEnd(opp) /\ plan'.start = Start(opp)
      /\ plan'.end = AmountThrough(opp, 3) /\ plan'.legs[3].qty = LegQty(opp, 3)
  BY <1>2 DEF TriangularPlan, Leg
<1> DEFINE s == SimulatedStart(opp)
           z == Start(opp)
           P(i) == Reference(Path[i], Sides[i])
<1>4. s \in Nat /\ z \in Nat
  BY StartIsCovered, PlanningAssumption DEF SimulatedStart, Sound
<1>5. \A i \in 1..3 : P(i) \in Nat /\ P(i) > 0 /\ LegPrice(opp, i) = P(i)
  <2>1. \A i \in 1..3 : ~(P(i) <= 0)
    BY <1>3 DEF SimulatedEnd
  <2> QED
    BY <2>1, LegsHavePrices
<1>6. plan'.end = <<z * P(3), P(1) * P(2)>> /\ plan'.legs[3].qty = <<z, P(1) * P(2)>>
  <2>1. \A i \in 1..3 : LegPrice(opp, i) \in Nat
    BY <1>5
  <2>2. LegPrice(opp, 1) = P(1) /\ LegPrice(opp, 2) = P(2) /\ LegPrice(opp, 3) = P(3)
    BY <1>5
  <2>3. LegQty(opp, 3) = AmountThrough(opp, 2)
    BY DEF LegQty, Sides
  <2> QED
    BY <1>3, <1>4, <2>1, <2>2, <2>3, AmountsOnTheWay
<1>7. /\ P(1) = Reference("buy", "BUY") /\ P(2) = Reference("second", "BUY")
      /\ P(3) = Reference("third", "SELL")
  BY DEF Path, Sides
<1>8. P(1) \in Nat /\ P(2) \in Nat /\ P(3) \in Nat
  BY <1>5
<1>9. BestEnd(plan') = <<z * BestSale(3), P(1) * P(2)>>
  <2>1. CASE book["third"] = None
    BY <1>6, <2>1 DEF BestEnd, BestSale, Path, Sides
  <2>2. CASE book["third"] # None
    BY <1>6, <2>2 DEF BestEnd, BestSale, Path
  <2> QED
    BY <2>1, <2>2
<1> HIDE DEF s, z, P
<1>10. PICK b \in Nat, e \in Int :
         /\ b <= s /\ BestSale(3) \in Nat /\ e <= (b * BestSale(3)) * 100
         /\ SimulatedEnd(opp) = <<e, (P(1) * P(2)) * 100>>
  <2>1. SimulatedStart(opp) = s
    BY DEF s
  <2>2. SimulatedEnd(opp) # None
    BY <1>3
  <2> QED
    BY <1>4, <1>7, <1>8, <2>1, <2>2, SimulatedOnTheWay
<1>11. P(1) * P(2) \in Nat
  BY <1>8, ProductIsNat
<1>12. (e * z) * (P(1) * P(2)) <= (z * BestSale(3)) * (((P(1) * P(2)) * 100) * s)
  BY <1>4, <1>10, <1>11, SmallerReturn
<1>13. AtMost(<<e * z, ((P(1) * P(2)) * 100) * s>>, <<z * BestSale(3), P(1) * P(2)>>)
  BY <1>12 DEF AtMost
<1> QED
  BY <1>3, <1>9, <1>10, <1>13 DEF s, z

\* What the rules found of an approved plan's opportunity.
LEMMA BuiltIsWalked ==
    ASSUME Sound(opp), NEW a \in BOOLEAN, plan' = Built(opp, a), opp' = opp,
           a => /\ violations' = {} /\ "symbol_whitelist_blacklist" \in checked'
                /\ Found(checked', violations', opp, Context)
    PROVE  OnlyWalkedOnesPass'
<1>1. plan'.approved = a /\ (opp.strategy = "cross" => plan'.strategy = "cross")
  BY DEF Built, CrossPlan, TriangularPlan
<1>2. SUFFICES ASSUME a
               PROVE  /\ "min_depth" \in checked' =>
                            /\ Shallower(opp) >= MinDepth
                            /\ MinDepth > 0 => opp.strategy = "cross"
                      /\ Whitelist # {} => opp.strategy = "cross"
  <2>1. Shallower(opp)' = Shallower(opp)
    BY DEF Shallower
  <2> QED
    BY <1>1, <2>1 DEF OnlyWalkedOnesPass
<1>3. Shallower(opp) \in Int /\ (opp.strategy = "triangular" => Shallower(opp) = 0)
  <2>1. opp.depthBuy \in Nat /\ opp.depthSell \in Nat
    BY DEF Sound
  <2>2. \A d, e \in Nat : d <= e => Min({d, e}) = d
    BY MinIs
  <2>3. \A d, e \in Nat : e <= d => Min({d, e}) = e
    BY MinIs
  <2>4. Min({opp.depthBuy, opp.depthSell}) \in {opp.depthBuy, opp.depthSell}
    BY <2>1, <2>2, <2>3
  <2> QED
    BY <2>1, <2>4 DEF Shallower, Sound
<1>4. MinDepth \in Nat
  BY RiskRulesAssumption
<1>5. "min_depth" \in checked' => Shallower(opp) >= MinDepth
  BY <1>2, <1>3, <1>4 DEF Found, TooThin
<1>6. Whitelist = {} \/ opp.symbol \in Whitelist
  BY <1>2 DEF Found
<1> QED
  BY <1>3, <1>4, <1>5, <1>6, SymbolAssumption DEF Sound

(***************************************************************************)
(* The steps.                                                              *)
(***************************************************************************)
\* It holds at first: there is no plan and nothing is being planned.
LEMMA PlanInvAtFirst ==
    ASSUME Init
    PROVE  PlanInv
BY FirstBooksAssumption DEF Init, PlanInv, Known, Turns, Begun, PlanIsCovered, OnlyWalkedOnesPass

\* As long as there is no plan, nothing is said of one.
LEMMA NoPlanYet ==
    ASSUME plan' = None
    PROVE  PlanIsCovered' /\ OnlyWalkedOnesPass'
BY DEF PlanIsCovered, OnlyWalkedOnesPass

\* The planner takes up an opportunity, and pauses at the second rule.
LEMMA BeginKeepsInv ==
    ASSUME PlanInv, NEW o \in Opportunities, Begin(o)
    PROVE  PlanInv'
<1>1. Known /\ Known'
  BY DEF PlanInv, Begin, surroundings, Known
<1>2. plan' = None /\ opp' = o /\ Sound(o)
  BY <1>1, OpportunitiesAreSound DEF Begin
<1>3. snapshot' = [free |-> free, exposure |-> exposure]
  BY DEF Begin
<1>4. turn' = 2 /\ at' = "asking"
  BY Pauses, TwelveRules DEF Begin, Evaluates
<1>5. Found(checked', violations', opp', Context')
  <2> DEFINE c == [balances |-> [h \in Holdings |-> IF free[h] = None THEN 0 ELSE free[h]],
                   exposure |-> exposure]
             none == [checked |-> {}, violations |-> {}]
  <2>1. Evaluates(1, o, c, none)
    BY DEF Begin
  <2>2. Found(none.checked, none.violations, o, c)
    BY DEF Found
  <2>3. Found(checked', violations', o, c)
    <3> HIDE DEF c, none
    <3> QED
      BY <2>1, <2>2, EvaluationFinds
  <2>4. Context' = c
    BY <1>3 DEF Context
  <2> QED
    BY <1>2, <2>3, <2>4
<1>6. Turns'
  BY <1>2, <1>4 DEF Turns
<1>7. Begun'
  <2>1. snapshot'.free \in [Holdings -> Amounts \cup {None}]
    BY <1>1, <1>3 DEF Known
  <2>2. Sound(opp)'
    BY <1>2 DEF Sound
  <2>3. Found(checked, violations, opp, Context)'
    BY <1>5 DEF Found, Uncovered, TooThin, Shallower
  <2> QED
    BY <2>1, <2>2, <2>3 DEF Begun
<1> QED
  BY <1>1, <1>2, <1>6, <1>7, NoPlanYet DEF PlanInv

\* What is known of an opportunity in planning stays known while the evaluation
\* of the rules goes on.
LEMMA StaysBegun ==
    ASSUME Sound(opp), snapshot.free \in [Holdings -> Amounts \cup {None}],
           UNCHANGED <<opp, snapshot>>, Found(checked', violations', opp, Context)
    PROVE  Begun'
<1>1. Sound(opp)' /\ snapshot'.free \in [Holdings -> Amounts \cup {None}]
  BY DEF Sound
<1>2. Context' = Context
  BY DEF Context
<1>3. Found(checked, violations, opp, Context)'
  BY <1>2 DEF Found, Uncovered, TooThin, Shallower
<1> QED
  BY <1>1, <1>3 DEF Begun

\* A rule has its answer from Redis; after the tenth the plan can be built.
LEMMA AnswerKeepsInv ==
    ASSUME PlanInv, RedisAnswers
    PROVE  PlanInv'
<1>1. /\ Known /\ Turns /\ at = "asking" /\ Sound(opp)
      /\ snapshot.free \in [Holdings -> Amounts \cup {None}]
      /\ Found(checked, violations, opp, Context)
  BY DEF PlanInv, RedisAnswers, Begun
<1>2. UNCHANGED <<opp, snapshot>> /\ Known'
  BY <1>1 DEF RedisAnswers, surroundings, Known
<1>3. PICK refuses \in {FALSE, RuleNames[turn] \in blocked} :
        Evaluates(turn + 1, opp, Context,
                  [checked |-> checked \cup {RuleNames[turn]},
                   violations |-> violations \cup (IF refuses THEN {RuleNames[turn]} ELSE {})])
  BY DEF RedisAnswers
<1> DEFINE before == [checked |-> checked \cup {RuleNames[turn]},
                      violations |-> violations \cup (IF refuses THEN {RuleNames[turn]} ELSE {})]
<1>4. turn \in {2, 3, 10}
  BY <1>1 DEF Turns
<1>5. Found(checked', violations', opp, Context)
  <2>1. RuleNames[turn] \in RedisRules
    BY <1>4, TwelveRules
  <2>2. RuleNames[turn] \notin {"balance_sufficiency", "min_depth", "symbol_whitelist_blacklist"}
    BY <2>1 DEF RedisRules
  <2>3. Found(before.checked, before.violations, opp, Context)
    BY <1>1, <2>2 DEF Found
  <2> HIDE DEF before
  <2>4. Evaluates(turn + 1, opp, Context, before)
    BY <1>3 DEF before
  <2> QED
    BY <2>3, <2>4, EvaluationFinds
<1>6. Begun'
  BY <1>1, <1>2, <1>5, StaysBegun
<1>7. CASE turn \in {2, 3}
  <2>1. at' = "asking" /\ turn' \in {3, 10}
    BY <1>3, <1>7, Pauses, TwelveRules DEF Evaluates
  <2>2. plan' = None
    BY <2>1 DEF RedisAnswers
  <2> QED
    BY <1>2, <1>6, <2>1, <2>2, NoPlanYet DEF PlanInv, Turns
<1>8. CASE turn = 10
  <2>1. /\ at' = IF violations' = {} THEN "idle" ELSE "recording"
        /\ "symbol_whitelist_blacklist" \in checked'
    BY <1>3, <1>8, Pauses, TwelveRules, LastRules DEF Evaluates
  <2>2. CASE violations' # {}
    <3>1. at' = "recording" /\ plan' = None
      BY <2>1, <2>2 DEF RedisAnswers
    <3> QED
      BY <1>2, <1>6, <3>1, NoPlanYet DEF PlanInv, Turns
  <2>3. CASE violations' = {}
    <3>1. at' = "idle" /\ plan' = Built(opp, TRUE)
      BY <2>1, <2>3 DEF RedisAnswers
    <3>2. "balance_sufficiency" \in checked' => ~Uncovered(opp, Context)
      BY <1>5, <2>3 DEF Found
    <3>3. PlanIsCovered'
      BY <1>1, <1>2, <3>1, <3>2, BuiltIsCovered
    <3>4. OnlyWalkedOnesPass'
      BY <1>1, <1>2, <1>5, <2>1, <2>3, <3>1, BuiltIsWalked
    <3> QED
      BY <1>2, <1>6, <3>1, <3>3, <3>4 DEF PlanInv, Turns
  <2> QED
    BY <2>2, <2>3
<1> QED
  BY <1>4, <1>7, <1>8

\* What was refused is recorded, and the plan is built all the same.
LEMMA RecordKeepsInv ==
    ASSUME PlanInv, Recorded
    PROVE  PlanInv'
<1>1. /\ Known /\ at = "recording" /\ Sound(opp)
      /\ snapshot.free \in [Holdings -> Amounts \cup {None}]
      /\ Found(checked, violations, opp, Context)
  BY DEF PlanInv, Recorded, Begun
<1>2. /\ UNCHANGED <<opp, snapshot, checked, violations>> /\ Known'
      /\ at' = "idle" /\ plan' = Built(opp, FALSE)
  BY <1>1 DEF Recorded, surroundings, Known
<1>3. Found(checked', violations', opp, Context)
  BY <1>1, <1>2 DEF Found
<1>4. Begun'
  BY <1>1, <1>2, <1>3, StaysBegun
<1>5. PlanIsCovered'
  BY <1>1, <1>2, BuiltIsCovered
<1>6. OnlyWalkedOnesPass'
  BY <1>1, <1>2, BuiltIsWalked
<1> QED
  BY <1>2, <1>4, <1>5, <1>6 DEF PlanInv, Turns

\* Nothing the planner knows changes with its surroundings.
LEMMA ChangeKeepsInv ==
    ASSUME PlanInv, Change \/ UNCHANGED vars
    PROVE  PlanInv'
<1>1. UNCHANGED planning
  BY DEF Change, vars
<1>2. Known'
  BY DEF PlanInv, Known, Change, vars, surroundings
<1>3. Context' = Context /\ Shallower(opp)' = Shallower(opp)
  BY <1>1 DEF planning, Context, Shallower
<1>4. Turns' /\ Begun'
  BY <1>1, <1>3 DEF planning, PlanInv, Turns, Begun, Sound, Found, Uncovered, TooThin
<1>5. PlanIsCovered' /\ OnlyWalkedOnesPass'
  BY <1>1, <1>3 DEF planning, PlanInv, PlanIsCovered, OnlyWalkedOnesPass
<1> QED
  BY <1>2, <1>4, <1>5 DEF PlanInv

(***************************************************************************)
(* The theorems.                                                           *)
(***************************************************************************)
\* Whatever was checked and not refused stays found until the plan is built,
\* and the plan is what its properties say.
THEOREM Plans == Spec => []PlanInv
<1>1. PlanInv /\ [Next]_vars => PlanInv'
  BY BeginKeepsInv, AnswerKeepsInv, RecordKeepsInv, ChangeKeepsInv DEF Next
<1> QED
  BY PlanInvAtFirst, <1>1, PTL DEF Spec

\* A plan orders no more than the snapshot covers, each leg of a triangle spends
\* at most what the one before it brings, and what the balance rule approved is
\* planned in full.
THEOREM PlansAreCovered == Spec => []PlanIsCovered
<1>1. PlanInv => PlanIsCovered
  BY DEF PlanInv
<1> QED
  BY Plans, <1>1, PTL

\* Under all rules only spreads walked through two deep books are approved, and
\* with a list of pairs no triangle is.
THEOREM OnlyWalkedOnesAreApproved == Spec => []OnlyWalkedOnesPass
<1>1. PlanInv => OnlyWalkedOnesPass
  BY DEF PlanInv
<1> QED
  BY Plans, <1>1, PTL

\* The simulation of a triangle promises no better return than its plan's legs
\* when the last of them is sold at the ticker's bid, or at the first of its book.
THEOREM SimulationsAreNoBetter == Spec => SimulationIsNoBetter
<1>1. ASSUME PlanInv, [Next]_vars, plan = None, plan' # None,
             plan'.strategy = "triangular", plan'.simulatedEnd # None
      PROVE  AtMost(<<plan'.simulatedEnd[1] * plan'.start,
                      plan'.simulatedEnd[2] * SimulatedStart(opp)>>, BestEnd(plan'))
  <2>1. \E a : plan' = Built(opp, a)
    BY <1>1 DEF Next, Begin, RedisAnswers, Recorded, Change, vars, planning
  <2>2. at # "idle"
    BY <1>1 DEF Next, Begin, RedisAnswers, Recorded, Change, vars, planning
  <2>3. Known /\ Sound(opp) /\ snapshot.free \in [Holdings -> Amounts \cup {None}]
    BY <1>1, <2>2 DEF PlanInv, Begun
  <2> QED
    BY <1>1, <2>1, <2>3, BuiltIsSimulated
<1>2. PlanInv /\ [Next]_vars =>
        [plan = None /\ plan' # None /\ plan'.strategy = "triangular" /\ plan'.simulatedEnd # None =>
          AtMost(<<plan'.simulatedEnd[1] * plan'.start, plan'.simulatedEnd[2] * SimulatedStart(opp)>>,
                 BestEnd(plan'))]_vars
  BY <1>1
<1> QED
  BY Plans, <1>2, PTL DEF Spec, SimulationIsNoBetter

(***************************************************************************)
(* Alerts: how long trading may be blocked without one.                    *)
(*                                                                         *)
(* The bound is kept by what remains: an upper bound on the ticks until    *)
(* the alert has gone through the last channel if the rule keeps blocking  *)
(* and no command fails any more.  With every tick it falls as much as the *)
(* silence grows; a failing command may set it back by a round.            *)
(***************************************************************************)
\* Where a rule that blocks stands in the order of the checks.
Place(b) == IF b = "consecutive_failures" THEN 3 ELSE 4

\* The time n alerts may take.
Sends(n) == MaxSend * n

NextRound(b) == Interval + Sends(Place(b))

\* The alert of the rule may still be sent in this round, or is on its way.
InTime(b) == rule < Place(b) \/ (rule = Place(b) /\ stage < Channels + 2)
Alerting(b) == loop = "sending" /\ rule = Place(b) /\ stage < Channels + 2

\* How far the loop is from having sent what it finds at the rule.
Away(b) ==
    CASE loop \in {"off", "sleeping"}           -> NextRound(b) - slept
      [] loop = "checking" /\ rule <= Place(b)  -> Sends(Place(b) + 1 - rule)
      [] loop = "checking" /\ rule > Place(b)   -> Sends(7 - rule) + NextRound(b)
      [] loop = "sending" /\ InTime(b)          -> MaxSend - took + Sends(Place(b) - rule)
      [] loop = "sending" /\ ~InTime(b)         ->
            (IF stage = Channels + 2 THEN 0 ELSE MaxSend - took) + Sends(6 - rule) + NextRound(b)

Remaining(b) == IF left[b] = 0 \/ Alerting(b) THEN Away(b) ELSE left[b] + Round

Longest == Max({Cooldown[r] : r \in Blocking})

\* The silence counts while the loop runs and the rule blocks, and is over before what
\* remains of it is.
Watch(b) ==
    /\ ~Blocks(b, failures, pnl) => silent[b] = 0
    /\ loop = "off" => silent[b] = 0
    /\ silent[b] + Remaining(b) <= Longest + (1 + faults) * Round

Watched == \A b \in Blocking : Watch(b)

AlertInv == AlertTypeOK /\ Watched

\* The rules in their order.
LEMMA SixRules ==
    /\ Number = 1..6 /\ Len(Rules) = 6
    /\ Rules[3] = "consecutive_failures" /\ Rules[4] = "daily_loss_exceeded"
    /\ \A i, j \in 1..6 : Rules[i] = Rules[j] => i = j
    /\ \A i \in 1..6 : Rules[i] \in AlertNames
    /\ Blocking \subseteq AlertNames
<1>1. Number = 1..6 /\ Len(Rules) = 6
  BY DEF Number, Rules
<1>2. /\ Rules[3] = "consecutive_failures" /\ Rules[4] = "daily_loss_exceeded"
      /\ \A i, j \in 1..6 : Rules[i] = Rules[j] => i = j
  BY DEF Rules
<1>3. \A i \in 1..6 : Rules[i] \in AlertNames
  BY <1>1 DEF Number, AlertNames, Range
<1> QED
  BY <1>1, <1>2, <1>3 DEF Blocking

\* A rule that blocks has its place.
LEMMA PlacesOfRules ==
    ASSUME NEW b \in Blocking
    PROVE  /\ Place(b) \in {3, 4} /\ Rules[Place(b)] = b
           /\ \A i \in 1..6 : Rules[i] = b <=> i = Place(b)
BY SixRules DEF Place, Blocking

\* The time for one alert more.
LEMMA SendsGrow ==
    /\ \A n \in 0..7 : Sends(n) \in Nat
    /\ \A n \in 0..6 : Sends(n + 1) = Sends(n) + MaxSend
    /\ \A m, n \in 0..7 : m <= n => Sends(m) <= Sends(n)
    /\ Sends(0) = 0
    /\ Round = Interval + Sends(6) /\ Round \in Nat
    /\ MaxSend \in Nat /\ Interval \in Nat /\ MaxSend > 0 /\ Interval > 0
<1>1. MaxSend \in Nat /\ Interval \in Nat /\ MaxSend > 0 /\ Interval > 0
  BY AlertsAssumption
<1>2. \A n \in 0..7 : Sends(n) \in Nat
  BY <1>1 DEF Sends
<1>3. \A n \in 0..6 : Sends(n + 1) = Sends(n) + MaxSend
  BY <1>1 DEF Sends
<1>4. /\ Sends(1) = Sends(0) + MaxSend /\ Sends(2) = Sends(1) + MaxSend /\ Sends(3) = Sends(2) + MaxSend
      /\ Sends(4) = Sends(3) + MaxSend /\ Sends(5) = Sends(4) + MaxSend
      /\ Sends(6) = Sends(5) + MaxSend /\ Sends(7) = Sends(6) + MaxSend
  BY <1>1 DEF Sends
<1>5. \A m, n \in 0..7 : m <= n => Sends(m) <= Sends(n)
  BY <1>1, <1>2, <1>4
<1>6. Sends(0) = 0
  BY <1>1 DEF Sends
<1>7. Round = Interval + Sends(6) /\ Round \in Nat
  BY <1>1, SixRules DEF Round, Sends
<1> QED
  BY <1>1, <1>2, <1>3, <1>5, <1>6, <1>7

\* The later the rule, the fewer are to come.
LEMMA FewerToCome ==
    \A m, n \in 1..7 : m >= n =>
         Sends(7 - m) <= Sends(7 - n) /\ Sends(7 - m) \in Nat /\ Sends(7 - n) \in Nat
<1>1. \A m \in 1..7 : 7 - m \in 0..7
  OBVIOUS
<1>2. \A m, n \in 1..7 : m >= n => 7 - m <= 7 - n
  OBVIOUS
<1> QED
  BY <1>1, <1>2, SendsGrow

\* The longest cooldown is at least each of the two.
LEMMA LongestIs ==
    /\ Longest \in Nat
    /\ \A b \in Blocking : Cooldown[b] \in Nat /\ Cooldown[b] > 0 /\ Cooldown[b] <= Longest
    /\ Patience = Longest + (1 + MaxFaults) * Round
<1> DEFINE S == {Cooldown[r] : r \in Blocking}
           c == Cooldown["consecutive_failures"]
           d == Cooldown["daily_loss_exceeded"]
<1>1. \A b \in Blocking : Cooldown[b] \in Nat /\ Cooldown[b] > 0
  BY AlertsAssumption, SixRules
<1>2. S = {c, d} /\ c \in Nat /\ d \in Nat
  BY <1>1 DEF Blocking
<1> HIDE DEF S, c, d
<1>3. \E m \in S : \A x \in S : m >= x
  <2>1. CASE c >= d
    BY <1>2, <2>1
  <2>2. CASE d >= c
    BY <1>2, <2>2
  <2> QED
    BY <1>2, <2>1, <2>2
<1>4. Longest \in S /\ \A x \in S : Longest >= x
  BY <1>3 DEF Longest, Max, S
<1>5. Patience = Longest + (1 + MaxFaults) * Round
  BY DEF Patience, Longest
<1> QED
  BY <1>1, <1>2, <1>4, <1>5 DEF S

\* The numbers of the configuration, of AlertsAssumption.
LEMMA AlertNumbers ==
    Channels \in Nat /\ Channels > 0 /\ MaxFaults \in Nat /\ MaxEvents \in Nat
<1>1. Channels \in Nat \ {0} /\ MaxFaults \in Nat /\ MaxEvents \in Nat
  <2> HIDE DEF AlertNames
  <2> QED
    BY AlertsAssumption, Zenon
<1> QED
  BY <1>1

\* What TypeOK says of the loop, where the proofs need it.
LEMMA LoopTypes ==
    ASSUME AlertTypeOK
    PROVE  /\ slept \in 0..Interval /\ took \in 0..MaxSend /\ rule \in 1..7 /\ stage \in 0..Channels + 2
           /\ Channels \in Nat /\ Channels > 0
           /\ loop \in {"off", "sleeping", "checking", "sending"}
           /\ loop # "sleeping" => slept = 0
           /\ loop # "sending" => stage = 0 /\ took = 0
           /\ loop = "sending" => rule \in 1..6
           /\ faults \in Nat /\ faults <= MaxFaults /\ MaxFaults \in Nat
<1>1. rule \in 1..7 /\ (loop = "sending" => rule \in 1..6)
  BY SixRules DEF AlertTypeOK
<1>2. faults \in 0..MaxFaults
  BY Zenon DEF AlertTypeOK
<1>3. Channels \in Nat /\ Channels > 0 /\ MaxFaults \in Nat /\ faults \in Nat /\ faults <= MaxFaults
  BY <1>2, AlertNumbers
<1> QED
  BY <1>1, <1>3 DEF AlertTypeOK

\* Of the rules that block, what the silence and the cooldown may be.
LEMMA BlockingTypes ==
    ASSUME AlertTypeOK, NEW b \in Blocking
    PROVE  /\ silent[b] \in Nat /\ left[b] \in Nat /\ left[b] <= Cooldown[b]
           /\ Cooldown[b] \in Nat /\ Cooldown[b] <= Longest /\ Longest \in Nat
<1>1. Longest \in Nat /\ Cooldown[b] \in Nat /\ Cooldown[b] <= Longest
  BY LongestIs
<1>2. left[b] \in 0..Cooldown[b]
  BY SixRules DEF AlertTypeOK
<1>3. silent[b] \in Nat
  BY DEF AlertTypeOK
<1> QED
  BY <1>1, <1>2, <1>3

\* The loop is never farther away than a round.
LEMMA AwayBound ==
    ASSUME AlertTypeOK, NEW b \in Blocking
    PROVE  Away(b) \in Nat /\ Away(b) <= Round
<1> DEFINE k == Place(b)
<1>1. k \in {3, 4}
  BY PlacesOfRules
<1>2. /\ \A n \in 0..7 : Sends(n) \in Nat
      /\ \A m, n \in 0..7 : m <= n => Sends(m) <= Sends(n)
      /\ Round = Interval + Sends(6)
      /\ MaxSend \in Nat /\ Interval \in Nat
      /\ Sends(6) = Sends(5) + MaxSend /\ Sends(5) = Sends(4) + MaxSend
  BY SendsGrow
<1>3. \A m \in 0..6 : \A n \in 0..6 : m + n <= 6 => Sends(m) + Sends(n) <= Sends(6)
  <2>1. \A m, n \in 0..6 : Sends(m) + Sends(n) = Sends(m + n)
    BY SendsGrow DEF Sends
  <2>2. \A m, n \in 0..6 : m + n <= 6 => m + n \in 0..7
    OBVIOUS
  <2>3. \A m \in 0..7 : m <= 6 => Sends(m) <= Sends(6)
    BY <1>2
  <2> QED
    BY <2>1, <2>2, <2>3
<1>4. NextRound(b) = Interval + Sends(k) /\ Sends(k) \in Nat /\ Sends(k) <= Sends(6)
  BY <1>1, <1>2 DEF NextRound
<1> HIDE DEF k
<1>5. CASE loop \in {"off", "sleeping"}
  <2>1. Away(b) = NextRound(b) - slept
    BY <1>5 DEF Away
  <2> QED
    BY <1>2, <1>4, <2>1, LoopTypes
<1>6. CASE loop = "checking" /\ rule <= k
  <2>1. Away(b) = Sends(k + 1 - rule) /\ k + 1 - rule \in 0..6
    BY <1>1, <1>6, LoopTypes DEF Away, k
  <2> QED
    BY <1>2, <2>1
<1>7. CASE loop = "checking" /\ rule > k
  <2>1. Away(b) = Sends(7 - rule) + NextRound(b) /\ 7 - rule \in 0..6 /\ 7 - rule + k <= 6
    BY <1>1, <1>7, LoopTypes DEF Away, k
  <2>2. Sends(7 - rule) + Sends(k) <= Sends(6)
    BY <1>1, <1>3, <2>1
  <2> QED
    BY <1>2, <1>4, <2>1, <2>2
<1>8. CASE loop = "sending" /\ InTime(b)
  <2>1. Away(b) = MaxSend - took + Sends(k - rule) /\ k - rule \in 0..5
    BY <1>1, <1>8, LoopTypes DEF Away, k, InTime
  <2>2. Sends(k - rule) <= Sends(5) /\ Sends(k - rule) \in Nat
    BY <1>2, <2>1
  <2> QED
    BY <1>2, <2>1, <2>2, LoopTypes
<1>9. CASE loop = "sending" /\ ~InTime(b)
  <2>1. /\ rule \in 1..6 /\ stage \in 0..Channels + 2 /\ Channels \in Nat
        /\ k \in Nat /\ k <= rule /\ (stage # Channels + 2 => k < rule)
    <3>1. rule \in 1..6 /\ stage \in 0..Channels + 2 /\ Channels \in Nat /\ k \in Nat
      BY <1>1, <1>9, LoopTypes
    <3>2. ~(rule < k) /\ ~(rule = k /\ stage < Channels + 2)
      BY <1>9 DEF InTime, k
    <3> QED
      BY <3>1, <3>2
  <2>2. Away(b) = (IF stage = Channels + 2 THEN 0 ELSE MaxSend - took) + Sends(6 - rule) + NextRound(b)
    BY <1>9 DEF Away
  <2>3. /\ 6 - rule \in 0..6 /\ k \in 0..6 /\ 6 - rule + k <= 6
        /\ stage # Channels + 2 => 7 - rule \in 0..6 /\ 7 - rule + k <= 6
    BY <1>1, <2>1
  <2>4. Sends(6 - rule) + Sends(k) <= Sends(6) /\ Sends(6 - rule) \in Nat
    BY <1>2, <1>3, <2>3
  <2>5. Sends(7 - rule) = Sends(6 - rule) + MaxSend
    <3>1. Sends((6 - rule) + 1) = Sends(6 - rule) + MaxSend
      BY <2>3, SendsGrow
    <3>2. (6 - rule) + 1 = 7 - rule
      BY <2>1
    <3> QED
      BY <3>1, <3>2
  <2>6. stage # Channels + 2 => Sends(7 - rule) + Sends(k) <= Sends(6)
    BY <1>3, <2>3
  <2> QED
    BY <1>2, <1>4, <2>2, <2>4, <2>5, <2>6, LoopTypes
<1> QED
  <2>1. loop \in {"off", "sleeping"} \/ loop = "checking" \/ loop = "sending"
    BY LoopTypes
  <2>2. rule <= k \/ rule > k
    BY <1>1, LoopTypes DEF k
  <2> QED
    BY <1>5, <1>6, <1>7, <1>8, <1>9, <2>1, <2>2

\* What remains is no more than the cooldown and a round.
LEMMA RemainingBound ==
    ASSUME AlertTypeOK, NEW b \in Blocking
    PROVE  Remaining(b) \in Nat /\ Remaining(b) <= Longest + Round
<1>1. Round \in Nat
  BY SendsGrow
<1> QED
  BY <1>1, AwayBound, BlockingTypes DEF Remaining

\* The rule that is checked next is the first that is due.
LEMMA FirstDue ==
    ASSUME AlertTypeOK, Due # {}
    PROVE  /\ Min(Due) \in 1..6 /\ Min(Due) >= rule
           /\ left[Rules[Min(Due)]] = 0
           /\ \A j \in 1..6 : j >= rule /\ left[Rules[j]] = 0 => Min(Due) <= j
<1> DEFINE D == Due
<1>1. D \in SUBSET (1..6) /\ D = {i \in 1..6 : i >= rule /\ left[Rules[i]] = 0}
  BY SixRules DEF Due
<1>2. \E m \in D : \A y \in D : m <= y
  <2> DEFINE m == IF 1 \in D THEN 1 ELSE IF 2 \in D THEN 2 ELSE IF 3 \in D THEN 3
                  ELSE IF 4 \in D THEN 4 ELSE IF 5 \in D THEN 5 ELSE 6
  <2>1. m \in D
    BY <1>1
  <2>2. \A y \in D : m <= y
    BY <1>1
  <2> QED
    BY <2>1, <2>2
<1>3. Min(D) \in D /\ \A y \in D : Min(D) <= y
  BY <1>2 DEF Min
<1> QED
  BY <1>1, <1>3

\* A blocking rule that is checked finds something.
LEMMA BlockedIsFound ==
    ASSUME AlertTypeOK, NEW b \in Blocking,
           Blocks(b, failures, pnl)
    PROVE  Finds(b)
<1>1. /\ LossLimit \in Nat /\ LossWarning \in Nat /\ LossWarning <= LossLimit
      /\ failures \in Nat /\ MaxFailures \in Nat /\ Absolute(pnl) \in Int
  BY AlertsAssumption DEF AlertTypeOK, Absolute
<1>2. b = "consecutive_failures" \/ b = "daily_loss_exceeded"
  BY DEF Blocking
<1>3. CASE b = "consecutive_failures"
  <2>1. TooManyFailures
    BY <1>3 DEF Blocks, TooManyFailures
  <2>2. Finds("consecutive_failures") = TooManyFailures
    BY DEF Finds
  <2> QED
    BY <1>3, <2>1, <2>2
<1>4. CASE b = "daily_loss_exceeded"
  <2>1. DailyLoss
    BY <1>1, <1>4 DEF Blocks, DailyLoss
  <2>2. Finds("daily_loss_exceeded") = DailyLoss
    BY DEF Finds
  <2> QED
    BY <1>4, <2>1, <2>2
<1> QED
  BY <1>2, <1>3, <1>4

\* With a tick every cooldown gets shorter or stays over.
LEMMA CooldownsPass ==
    ASSUME AlertTypeOK,
           left' = [r \in AlertNames |-> Less(left[r])]
    PROVE  left' \in [AlertNames -> Nat] /\ \A r \in AlertNames : left'[r] <= Cooldown[r]
<1>1. ASSUME NEW r \in AlertNames PROVE left'[r] \in Nat /\ left'[r] <= Cooldown[r]
  <2>1. Cooldown[r] \in Nat /\ left[r] \in Nat /\ left[r] <= Cooldown[r]
    BY AlertsAssumption DEF AlertTypeOK
  <2>2. left'[r] = IF left[r] > 0 THEN left[r] - 1 ELSE 0
    BY DEF Less
  <2> QED
    BY <2>1, <2>2
<1> QED
  BY <1>1

\* Every step keeps the types.
LEMMA AlertTypes ==
    ASSUME AlertTypeOK, AlertNext
    PROVE  AlertTypeOK'
<1> USE DEF AlertTypeOK
<1>1. /\ Channels \in Nat /\ Channels > 0 /\ Interval \in Nat /\ MaxSend \in Nat
      /\ Patience \in Nat /\ MaxFaults \in Nat /\ MaxEvents \in Nat
  <2>1. Longest \in Nat /\ Patience = Longest + (1 + MaxFaults) * Round
    BY LongestIs
  <2>2. Channels \in Nat /\ Channels > 0 /\ MaxFaults \in Nat /\ MaxEvents \in Nat
    BY AlertNumbers, Zenon
  <2>3. Round \in Nat /\ Interval \in Nat /\ MaxSend \in Nat
    BY SendsGrow
  <2>4. (1 + MaxFaults) * Round \in Nat
    BY <2>2, <2>3
  <2> QED
    BY <2>1, <2>2, <2>3, <2>4
<1>2. Number = 1..6 /\ Len(Rules) = 6
  BY SixRules
<1>3. CASE WorldChanges
  <2>1. /\ age' \in [Exchanges -> {"none", "fresh", "stale", "old"}]
        /\ failures' \in 0..MaxFailures /\ pnl' \in Pnls
        /\ balance' \in [Exchanges -> Balances \cup {NoBalance}]
    BY <1>3 DEF WorldChanges
  <2>2. events' \in 0..MaxEvents
    BY <1>1, <1>3 DEF WorldChanges
  <2>3. silent' \in [Blocking -> 0..Patience + 1]
    BY <1>1, <1>3 DEF WorldChanges
  <2>4. UNCHANGED <<loop, slept, rule, left, stage, took, faults>>
    BY <1>3 DEF WorldChanges, service
  <2> QED
    BY <2>1, <2>2, <2>3, <2>4
<1>4. CASE StartLoop
  BY <1>4 DEF StartLoop, world
<1>5. CASE StopLoop
  <2>1. silent' \in [Blocking -> 0..Patience + 1]
    BY <1>1, <1>5 DEF StopLoop
  <2> QED
    BY <1>1, <1>2, <1>5, <2>1 DEF StopLoop, world
<1>6. CASE WakeUp
  BY <1>1, <1>2, <1>6 DEF WakeUp, world
<1>7. CASE RoundEnds
  BY <1>1, <1>2, <1>7 DEF RoundEnds, world
<1>8. CASE FindsNothing
  BY <1>1, <1>2, <1>8, FirstDue DEF FindsNothing, world
<1>9. CASE CheckFails
  BY <1>1, <1>2, <1>9, FirstDue DEF CheckFails, world
<1>10. CASE FindsSomething
  <2> DEFINE i == Min(Due)
  <2>1. i \in 1..6 /\ Rules[i] \in AlertNames
    BY <1>10, FirstDue, SixRules DEF FindsSomething
  <2>2. /\ rule' = i /\ left' = [left EXCEPT ![Rules[i]] = Cooldown[Rules[i]]]
        /\ loop = "checking" /\ loop' = "sending"
        /\ UNCHANGED <<age, failures, pnl, balance, events, slept, stage, took, faults, silent>>
    BY <1>10 DEF FindsSomething, world
  <2> HIDE DEF i
  <2>3. \A r \in AlertNames : Cooldown[r] \in Nat
    BY AlertsAssumption
  <2>4. left' \in [AlertNames -> Nat] /\ \A r \in AlertNames : left'[r] <= Cooldown[r]
    BY <2>1, <2>2, <2>3
  <2> QED
    BY <1>2, <2>1, <2>2, <2>4
<1>11. CASE PersistOrPublish
  BY <1>1, <1>11 DEF PersistOrPublish, world
<1>12. CASE SendOnChannel
  <2>1. silent' \in [Blocking -> 0..Patience + 1]
    BY <1>1, <1>12 DEF SendOnChannel
  <2> QED
    BY <1>1, <1>12, <2>1 DEF SendOnChannel, world
<1>13. CASE SendingEnds
  BY <1>1, <1>2, <1>13 DEF SendingEnds, world
<1>14. CASE Tick
  <2>1. silent' \in [Blocking -> 0..Patience + 1]
    BY <1>1, <1>14 DEF Tick
  <2>2. left' \in [AlertNames -> Nat] /\ \A r \in AlertNames : left'[r] <= Cooldown[r]
    BY <1>14, CooldownsPass DEF Tick
  <2>3. slept' \in 0..Interval /\ took' \in 0..MaxSend
        /\ (loop # "sleeping" => slept' = 0) /\ (loop # "sending" => took' = 0)
    BY <1>1, <1>14 DEF Tick, Passes
  <2> QED
    BY <1>14, <2>1, <2>2, <2>3 DEF Tick, world
<1> QED
  BY <1>3, <1>4, <1>5, <1>6, <1>7, <1>8, <1>9, <1>10, <1>11, <1>12, <1>13, <1>14 DEF AlertNext

\* It holds at first.
LEMMA AlertInitTypes ==
    ASSUME AlertInit
    PROVE  AlertTypeOK
<1>1. Patience \in Nat
  <2>1. Longest \in Nat /\ Patience = Longest + (1 + MaxFaults) * Round /\ MaxFaults \in Nat
    BY AlertsAssumption, LongestIs
  <2>2. Round \in Nat
    BY SendsGrow
  <2>3. (1 + MaxFaults) * Round \in Nat
    BY <2>1, <2>2
  <2> QED
    BY <2>1, <2>3
<1>2. \A r \in AlertNames : Cooldown[r] \in Nat
  BY AlertsAssumption
<1>3. Channels \in Nat /\ Interval \in Nat /\ MaxSend \in Nat /\ MaxFaults \in Nat /\ MaxEvents \in Nat
      /\ MaxFailures \in Nat /\ 0 \in Pnls
  BY AlertsAssumption
<1> QED
  BY <1>1, <1>2, <1>3, SixRules DEF AlertInit, AlertTypeOK

\* What the steps need of both states.
Bounds ==
    \A b \in Blocking :
        /\ Away(b) \in Nat /\ Away(b) <= Round
        /\ Remaining(b) \in Nat /\ Remaining(b) <= Longest + Round
        /\ silent[b] \in Nat /\ left[b] \in Nat
        /\ faults \in Nat

\* The types give the bounds, in one state as in the next.
LEMMA BoundsHold == AlertTypeOK => Bounds
BY AwayBound, RemainingBound, BlockingTypes, LoopTypes DEF Bounds

\* The same after a step.
LEMMA NextBoundsHold == AlertTypeOK' => Bounds'
BY BoundsHold, PTL

\* Of some rounds and one more.
LEMMA RoundsAdd ==
    ASSUME NEW n \in Nat, NEW R \in Nat
    PROVE  (1 + n) * R \in Nat /\ R <= (1 + n) * R /\ (1 + (n + 1)) * R = (1 + n) * R + R
<1>1. n * R \in Nat /\ (1 + n) * R = R + n * R /\ (1 + (n + 1)) * R = R + R + n * R
  OBVIOUS
<1> QED
  BY <1>1

\* More rounds take longer.
LEMMA RoundsGrow ==
    ASSUME NEW m \in Nat, NEW n \in Nat, m <= n, NEW R \in Nat
    PROVE  (1 + m) * R <= (1 + n) * R
<1>1. (n - m) * R \in Nat /\ (1 + n) * R = (1 + m) * R + (n - m) * R /\ (1 + m) * R \in Int
  OBVIOUS
<1> QED
  BY <1>1

\* A silence that is over leaves room for a cooldown and a round.
LEMMA SilenceEnds ==
    ASSUME AlertTypeOK', NEW b \in Blocking, silent'[b] = 0
    PROVE  Watch(b)'
<1>1. Remaining(b)' \in Nat /\ Remaining(b)' <= Longest + Round /\ faults' \in Nat
  BY NextBoundsHold DEF Bounds
<1>2. Round \in Nat /\ Longest \in Nat
  BY SendsGrow, LongestIs
<1>3. Round <= (1 + faults') * Round /\ (1 + faults') * Round \in Nat
  BY <1>1, <1>2, RoundsAdd
<1>4. silent'[b] + Remaining(b)' <= Longest + (1 + faults') * Round
  BY <1>1, <1>2, <1>3
<1> QED
  BY <1>4 DEF Watch

\* A step after which no more remains than before, or one tick less if it took one.
LEMMA NoFarther ==
    ASSUME AlertTypeOK, AlertTypeOK', NEW b \in Blocking,
           Watch(b), faults' = faults, loop' # "off", Blocks(b, failures', pnl'),
           silent'[b] + Remaining(b)' <= silent[b] + Remaining(b)
    PROVE  Watch(b)'
<1>1. Remaining(b)' \in Nat /\ Remaining(b) \in Nat /\ silent[b] \in Nat /\ silent'[b] \in Nat
  BY NextBoundsHold, BoundsHold DEF Bounds
<1>2. faults \in Nat /\ Round \in Nat /\ Longest \in Nat
  BY LoopTypes, SendsGrow, LongestIs
<1>3. (1 + faults) * Round \in Nat
  BY <1>2, RoundsAdd
<1>4. silent[b] + Remaining(b) <= Longest + (1 + faults) * Round
  BY DEF Watch
<1>5. silent'[b] + Remaining(b)' <= Longest + (1 + faults) * Round
  BY <1>1, <1>2, <1>3, <1>4
<1> QED
  BY <1>5 DEF Watch

\* As long as the cooldown stands still, it is enough that the loop gets no farther
\* away when nothing is left of it.
LEMMA SameCooldown ==
    ASSUME AlertTypeOK, AlertTypeOK', NEW b \in Blocking,
           left'[b] = left[b],
           left[b] = 0 \/ Alerting(b) => Away(b)' <= Away(b),
           left[b] # 0 /\ Alerting(b) => Alerting(b)'
    PROVE  Remaining(b)' <= Remaining(b)
<1>1. /\ Away(b)' \in Nat /\ Away(b) \in Nat /\ Away(b)' <= Round
      /\ left[b] \in Nat /\ Round \in Nat
  BY BoundsHold, NextBoundsHold, SendsGrow DEF Bounds
<1>2. CASE left[b] = 0
  BY <1>1, <1>2 DEF Remaining
<1>3. CASE left[b] # 0 /\ Alerting(b)
  BY <1>1, <1>3 DEF Remaining
<1>4. CASE left[b] # 0 /\ ~Alerting(b)
  <2>1. Remaining(b) = left[b] + Round
    BY <1>4 DEF Remaining
  <2>2. Remaining(b)' = IF Alerting(b)' THEN Away(b)' ELSE left[b] + Round
    BY <1>4 DEF Remaining
  <2> QED
    BY <1>1, <2>1, <2>2
<1> QED
  BY <1>2, <1>3, <1>4

\* Between rounds.
LEMMA RoundsKeepWatch ==
    ASSUME AlertTypeOK, AlertTypeOK', NEW b \in Blocking,
           WakeUp \/ RoundEnds
    PROVE  Remaining(b)' <= Remaining(b)
<1> DEFINE k == Place(b)
<1>1. k \in {3, 4} /\ Rules[k] = b
  BY PlacesOfRules
<1>2. /\ \A n \in 0..7 : Sends(n) \in Nat
      /\ Interval \in Nat /\ NextRound(b) = Interval + Sends(k)
  BY SendsGrow DEF NextRound
<1>3. /\ left' = left /\ slept \in Nat /\ rule \in 1..7
      /\ (loop = "checking" => slept = 0) /\ ~Alerting(b)
  BY LoopTypes DEF WakeUp, RoundEnds, Alerting
<1> HIDE DEF k
<1>4. CASE WakeUp
  <2>1. loop = "sleeping" /\ slept = Interval /\ loop' = "checking" /\ rule' = 1
    BY <1>4 DEF WakeUp
  <2>2. Away(b) = NextRound(b) - slept
    BY <2>1 DEF Away
  <2>3. Away(b)' = Sends(k + 1 - rule')
    BY <1>1, <2>1 DEF Away, k
  <2>4. Sends(k) \in Nat /\ k + 1 - rule' = k
    BY <1>1, <1>2, <2>1
  <2>5. Away(b)' <= Away(b)
    BY <1>2, <2>1, <2>2, <2>3, <2>4
  <2> QED
    BY <1>3, <2>5, SameCooldown
<1>5. CASE RoundEnds
  <2>1. /\ loop = "checking" /\ Due = {} /\ loop' = "sleeping" /\ slept' = slept
    BY <1>5 DEF RoundEnds
  <2>2. ASSUME left[b] = 0 PROVE Away(b)' <= Away(b)
    <3>1. ~(rule <= k)
      <4>1. k \notin Due
        BY <2>1
      <4>2. k \in Number
        BY <1>1, SixRules
      <4>3. ~(k >= rule)
        BY <1>1, <2>2, <4>1, <4>2 DEF Due
      <4> QED
        BY <1>1, <1>3, <4>3
    <3>2. Away(b) = Sends(7 - rule) + NextRound(b)
      BY <1>1, <1>3, <2>1, <3>1 DEF Away, k
    <3>3. Away(b)' = NextRound(b) - slept'
      BY <2>1 DEF Away
    <3>4. Sends(7 - rule) \in Nat
      BY <1>2, <1>3
    <3>5. Sends(k) \in Nat
      BY <1>1, <1>2
    <3> QED
      BY <1>2, <1>3, <2>1, <3>2, <3>3, <3>4, <3>5
  <2> QED
    BY <1>3, <2>2, SameCooldown
<1> QED
  BY <1>4, <1>5

\* A check that passes the rule by, because it found nothing there.
LEMMA NothingKeepsWatch ==
    ASSUME AlertTypeOK, AlertTypeOK', NEW b \in Blocking,
           FindsNothing, Blocks(b, failures, pnl)
    PROVE  Remaining(b)' <= Remaining(b)
<1> DEFINE k == Place(b)
           i == Min(Due)
<1>1. k \in {3, 4} /\ Rules[k] = b
  BY PlacesOfRules
<1>2. /\ \A n \in 0..7 : Sends(n) \in Nat
      /\ \A m, n \in 0..7 : m <= n => Sends(m) <= Sends(n)
  BY SendsGrow
<1>3. NextRound(b) \in Nat
  BY <1>1, <1>2, SendsGrow DEF NextRound
<1>4. /\ loop = "checking" /\ loop' = "checking" /\ rule' = i + 1 /\ left' = left
      /\ ~Finds(Rules[i]) /\ Due # {}
  BY DEF FindsNothing
<1>5. /\ i \in 1..6 /\ i >= rule /\ rule \in 1..7
      /\ \A j \in 1..6 : j >= rule /\ left[Rules[j]] = 0 => i <= j
  BY <1>4, FirstDue, LoopTypes
<1>6. i # k
  BY <1>1, <1>4, BlockedIsFound
<1>7. ~Alerting(b)
  BY <1>4 DEF Alerting
<1> HIDE DEF k, i
<1>8. ASSUME left[b] = 0 PROVE Away(b)' <= Away(b)
  <2>1. CASE rule <= k
    <3>1. i <= k
      BY <1>1, <1>5, <1>8, <2>1
    <3>2. rule' <= k /\ rule' \in Int
      BY <1>1, <1>4, <1>5, <1>6, <3>1
    <3>3. Away(b) = Sends(k + 1 - rule)
      BY <1>1, <1>4, <1>5, <2>1 DEF Away, k
    <3>4. Away(b)' = Sends(k + 1 - rule')
      BY <1>1, <1>4, <3>2 DEF Away, k
    <3>5. k + 1 - rule' \in 0..7 /\ k + 1 - rule \in 0..7 /\ k + 1 - rule' <= k + 1 - rule
      BY <1>1, <1>4, <1>5, <2>1, <3>2
    <3> QED
      BY <1>2, <3>3, <3>4, <3>5
  <2>2. CASE rule > k
    <3>1. rule' > k /\ rule' \in 1..7 /\ rule' >= rule
      BY <1>1, <1>4, <1>5, <2>2
    <3>2. Away(b) = Sends(7 - rule) + NextRound(b)
      BY <1>1, <1>4, <1>5, <2>2 DEF Away, k
    <3>3. Away(b)' = Sends(7 - rule') + NextRound(b)
      BY <1>1, <1>4, <3>1 DEF Away, k
    <3>4. rule \in 1..7 /\ rule' \in 1..7 /\ rule' >= rule
      BY <1>5, <3>1
    <3>5. Sends(7 - rule') <= Sends(7 - rule) /\ Sends(7 - rule') \in Nat /\ Sends(7 - rule) \in Nat
      BY <3>4, FewerToCome
    <3> QED
      BY <1>3, <3>2, <3>3, <3>5
  <2> QED
    BY <1>1, <1>5, <2>1, <2>2
<1> QED
  BY <1>4, <1>7, <1>8, SameCooldown

\* A check that fails puts it off by a round at most.
LEMMA FaultsKeepWatch ==
    ASSUME AlertTypeOK, AlertTypeOK', NEW b \in Blocking,
           Watch(b), CheckFails
    PROVE  Watch(b)'
<1>1. /\ Away(b)' \in Nat /\ Away(b)' <= Round /\ Remaining(b) \in Nat
      /\ left[b] \in Nat /\ silent[b] \in Nat /\ Remaining(b)' \in Nat /\ faults \in Nat
  BY BoundsHold, NextBoundsHold DEF Bounds
<1>2. /\ loop = "checking" /\ loop' = "checking" /\ left' = left /\ silent' = silent
      /\ faults' = faults + 1 /\ failures' = failures /\ pnl' = pnl
  BY DEF CheckFails, world
<1>3. ~Alerting(b) /\ ~Alerting(b)'
  BY <1>2 DEF Alerting
<1>4. Round \in Nat /\ Longest \in Nat
  BY SendsGrow, LongestIs
<1>5. Remaining(b)' <= Remaining(b) + Round
  <2>1. CASE left[b] = 0
    <3>1. Remaining(b)' = Away(b)'
      BY <1>2, <2>1 DEF Remaining
    <3> QED
      BY <1>1, <1>4, <3>1
  <2>2. CASE left[b] # 0
    <3>1. Remaining(b) = left[b] + Round
      BY <1>3, <2>2 DEF Remaining
    <3>2. Remaining(b)' = left[b] + Round
      BY <1>2, <1>3, <2>2 DEF Remaining
    <3> QED
      BY <1>1, <1>4, <3>1, <3>2
  <2> QED
    BY <2>1, <2>2
<1>6. /\ (1 + faults) * Round \in Nat
      /\ (1 + (faults + 1)) * Round = (1 + faults) * Round + Round
  BY <1>1, <1>4, RoundsAdd
<1>7. silent[b] + Remaining(b) <= Longest + (1 + faults) * Round
  BY DEF Watch
<1>8. silent'[b] + Remaining(b)' <= Longest + (1 + faults') * Round
  <2>1. silent[b] + Remaining(b)' <= Longest + (1 + faults) * Round + Round
    BY <1>1, <1>4, <1>5, <1>6, <1>7
  <2>2. (1 + faults') * Round = (1 + faults) * Round + Round
    BY <1>2, <1>6
  <2> QED
    BY <1>1, <1>2, <1>4, <1>6, <2>1, <2>2
<1> QED
  BY <1>2, <1>8 DEF Watch

\* A check that finds something, for this rule or for another one.
LEMMA FindingKeepsWatch ==
    ASSUME AlertTypeOK, AlertTypeOK', NEW b \in Blocking,
           FindsSomething
    PROVE  Remaining(b)' <= Remaining(b)
<1> DEFINE k == Place(b)
           i == Min(Due)
<1>1. k \in {3, 4} /\ Rules[k] = b /\ \A n \in 1..6 : Rules[n] = b => n = k
  BY PlacesOfRules
<1>2. /\ \A n \in 0..7 : Sends(n) \in Nat
      /\ \A m, n \in 0..7 : m <= n => Sends(m) <= Sends(n)
      /\ \A n \in 0..6 : Sends(n + 1) = Sends(n) + MaxSend
      /\ Sends(0) = 0 /\ MaxSend \in Nat
  BY SendsGrow
<1>3. NextRound(b) \in Nat
  BY <1>1, <1>2, SendsGrow DEF NextRound
<1>4. /\ loop = "checking" /\ loop' = "sending" /\ rule' = i /\ Due # {}
      /\ left' = [left EXCEPT ![Rules[i]] = Cooldown[Rules[i]]]
      /\ stage' = stage /\ took' = took
  BY DEF FindsSomething
<1>5. /\ i \in 1..6 /\ i >= rule /\ rule \in 1..7 /\ left[Rules[i]] = 0
      /\ \A j \in 1..6 : j >= rule /\ left[Rules[j]] = 0 => i <= j
  BY <1>4, FirstDue, LoopTypes
<1>6. stage = 0 /\ took = 0 /\ Channels \in Nat
  BY <1>4, LoopTypes
<1>7. ~Alerting(b)
  BY <1>4 DEF Alerting
<1> HIDE DEF k, i
<1>8. CASE i = k
  <2>1. Alerting(b)'
    BY <1>4, <1>6, <1>8 DEF Alerting, k
  <2>2. Remaining(b)' = Away(b)'
    BY <2>1 DEF Remaining
  <2>3. InTime(b)'
    BY <1>4, <1>6, <1>8 DEF InTime, k
  <2>4. Away(b)' = MaxSend - took' + Sends(k - rule')
    BY <1>4, <2>3 DEF Away, k
  <2>5. Away(b)' = MaxSend
    BY <1>1, <1>2, <1>4, <1>6, <1>8, <2>4
  <2>6. left[b] = 0 /\ rule <= k
    BY <1>1, <1>5, <1>8
  <2>7. Remaining(b) = Away(b)
    BY <2>6 DEF Remaining
  <2>8. Away(b) = Sends(k + 1 - rule)
    BY <1>1, <1>4, <1>5, <2>6 DEF Away, k
  <2>9. Sends(1) <= Sends(k + 1 - rule) /\ Sends(1) = MaxSend
    <3>1. k + 1 - rule \in 1..7
      BY <1>1, <1>5, <2>6
    <3>2. Sends(0 + 1) = Sends(0) + MaxSend
      BY <1>2
    <3>3. Sends(1) = MaxSend
      BY <1>2, <3>2
    <3> QED
      BY <1>2, <3>1, <3>3
  <2> QED
    BY <2>2, <2>5, <2>7, <2>8, <2>9
<1>9. CASE i # k
  <2>1. left'[b] = left[b]
    <3>1. Rules[i] # b
      BY <1>1, <1>5, <1>9
    <3>2. left \in [AlertNames -> Nat] /\ b \in AlertNames
      BY SixRules DEF AlertTypeOK
    <3> QED
      BY <1>4, <3>1, <3>2
  <2>2. ASSUME left[b] = 0, rule <= k PROVE Away(b)' <= Away(b)
    <3>1. i < k
      BY <1>1, <1>5, <1>9, <2>2
    <3>2. InTime(b)'
      BY <1>4, <3>1 DEF InTime, k
    <3>3. Away(b)' = MaxSend - took' + Sends(k - rule')
      BY <1>4, <3>2 DEF Away, k
    <3>4. Away(b) = Sends(k + 1 - rule)
      BY <1>1, <1>4, <1>5, <2>2 DEF Away, k
    <3>5. Sends(k - i) \in Nat /\ Sends(k + 1 - i) = Sends(k - i) + MaxSend
      <4>1. k - i \in 0..6 /\ (k - i) + 1 = k + 1 - i
        BY <1>1, <1>5, <3>1
      <4> QED
        BY <1>2, <4>1
    <3>6. Sends(k + 1 - i) <= Sends(k + 1 - rule)
      <4>1. k + 1 - i \in 0..7 /\ k + 1 - rule \in 0..7 /\ k + 1 - i <= k + 1 - rule
        BY <1>1, <1>5, <2>2, <3>1
      <4> QED
        BY <1>2, <4>1
    <3> QED
      BY <1>2, <1>4, <1>6, <3>3, <3>4, <3>5, <3>6
  <2>3. ASSUME rule > k PROVE Away(b)' <= Away(b)
    <3>1. i > k /\ i \in 1..6
      BY <1>1, <1>5, <2>3
    <3>2. ~InTime(b)'
      BY <1>1, <1>4, <3>1 DEF InTime, k
    <3>3. Away(b)' = (IF stage' = Channels + 2 THEN 0 ELSE MaxSend - took') + Sends(6 - rule') + NextRound(b)
      BY <1>4, <3>2 DEF Away
    <3>4. Away(b)' = MaxSend + Sends(6 - i) + NextRound(b)
      BY <1>2, <1>3, <1>4, <1>6, <3>3
    <3>5. Away(b) = Sends(7 - rule) + NextRound(b)
      BY <1>1, <1>4, <1>5, <2>3 DEF Away, k
    <3>6. Sends(6 - i) \in Nat /\ Sends(7 - i) = Sends(6 - i) + MaxSend
      <4>1. 6 - i \in 0..6 /\ (6 - i) + 1 = 7 - i
        BY <3>1
      <4> QED
        BY <1>2, <4>1
    <3>7. Sends(7 - i) <= Sends(7 - rule) /\ Sends(7 - i) \in Nat /\ Sends(7 - rule) \in Nat
      BY <1>5, FewerToCome
    <3> QED
      BY <1>2, <1>3, <3>4, <3>5, <3>6, <3>7
  <2>4. left[b] = 0 => Away(b)' <= Away(b)
    BY <1>1, <1>5, <2>2, <2>3
  <2> QED
    BY <1>7, <2>1, <2>4, SameCooldown
<1> QED
  BY <1>8, <1>9

\* An alert on its way: of the rule itself, or of another one.
LEMMA SendingKeepsWatch ==
    ASSUME AlertTypeOK, AlertTypeOK', NEW b \in Blocking,
           PersistOrPublish \/ SendOnChannel,
           ~(rule = Place(b) /\ stage = Channels + 1)
    PROVE  Remaining(b)' <= Remaining(b)
<1> DEFINE k == Place(b)
<1>1. k \in {3, 4}
  BY PlacesOfRules
<1>2. /\ loop = "sending" /\ loop' = "sending" /\ rule' = rule /\ took' = took /\ left' = left
      /\ stage' = stage + 1 /\ stage < Channels + 2
      /\ stage \in Nat /\ rule \in 1..6 /\ took \in 0..MaxSend /\ Channels \in Nat
  <2>1. /\ loop = "sending" /\ loop' = "sending" /\ rule' = rule /\ took' = took /\ left' = left
        /\ stage' = stage + 1 /\ (stage < 2 \/ stage \in 2..Channels + 1)
    BY DEF PersistOrPublish, SendOnChannel
  <2>2. stage \in Nat /\ rule \in 1..6 /\ took \in 0..MaxSend /\ Channels \in Nat /\ Channels > 0
    BY <2>1, LoopTypes
  <2> QED
    BY <2>1, <2>2
<1>3. MaxSend \in Nat /\ Interval \in Nat
  BY SendsGrow
<1> HIDE DEF k
<1>4. rule = k => stage' < Channels + 2
  BY <1>2 DEF k
<1>5. InTime(b)' <=> InTime(b)
  BY <1>2, <1>4 DEF InTime, k
<1>6. Alerting(b) => Alerting(b)'
  BY <1>2, <1>4 DEF Alerting, k
<1>7. Away(b)' <= Away(b)
  <2>1. CASE InTime(b)
    <3>1. Away(b) = MaxSend - took + Sends(k - rule)
      BY <1>2, <2>1 DEF Away, k
    <3>2. Away(b)' = MaxSend - took' + Sends(k - rule')
      BY <1>2, <1>5, <2>1 DEF Away, k
    <3>3. Sends(k - rule) \in Nat
      <4>1. k - rule \in 0..7
        BY <1>1, <1>2, <2>1 DEF InTime, k
      <4> QED
        BY <4>1, SendsGrow
    <3> QED
      BY <1>2, <1>3, <3>1, <3>2, <3>3
  <2>2. CASE ~InTime(b)
    <3>1. Away(b) = (IF stage = Channels + 2 THEN 0 ELSE MaxSend - took) + Sends(6 - rule) + NextRound(b)
      BY <1>2, <2>2 DEF Away
    <3>2. Away(b)' = (IF stage' = Channels + 2 THEN 0 ELSE MaxSend - took') + Sends(6 - rule') + NextRound(b)
      BY <1>2, <1>5, <2>2 DEF Away
    <3>3. Sends(6 - rule) \in Nat /\ NextRound(b) \in Nat
      <4>1. 6 - rule \in 0..7 /\ k \in 0..7
        BY <1>1, <1>2
      <4> QED
        BY <1>3, <4>1, SendsGrow DEF NextRound, k
    <3> QED
      BY <1>2, <1>3, <3>1, <3>2, <3>3
  <2> QED
    BY <2>1, <2>2
<1> QED
  BY <1>2, <1>6, <1>7, SameCooldown

\* After the last channel the next rule is checked.
LEMMA SentKeepsWatch ==
    ASSUME AlertTypeOK, AlertTypeOK', NEW b \in Blocking,
           SendingEnds
    PROVE  Remaining(b)' <= Remaining(b)
<1> DEFINE k == Place(b)
<1>1. k \in {3, 4}
  BY PlacesOfRules
<1>2. /\ loop = "sending" /\ loop' = "checking" /\ rule' = rule + 1 /\ left' = left
      /\ stage = Channels + 2 /\ rule \in 1..6 /\ Channels \in Nat
      /\ took \in 0..MaxSend /\ MaxSend \in Nat
  BY LoopTypes, SendsGrow DEF SendingEnds
<1>3. ~Alerting(b)
  BY <1>2 DEF Alerting
<1> HIDE DEF k
<1>4. CASE rule < k
  <2>1. InTime(b)
    BY <1>4 DEF InTime, k
  <2>2. Away(b) = MaxSend - took + Sends(k - rule)
    BY <1>2, <2>1 DEF Away, k
  <2>3. rule' <= k
    BY <1>1, <1>2, <1>4
  <2>4. Away(b)' = Sends(k + 1 - rule')
    BY <1>1, <1>2, <2>3 DEF Away, k
  <2>5. k + 1 - rule' = k - rule /\ k - rule \in 0..7
    BY <1>1, <1>2, <1>4
  <2>6. Sends(k - rule) \in Nat
    BY <2>5, SendsGrow
  <2>7. Away(b)' <= Away(b)
    BY <1>2, <2>2, <2>4, <2>5, <2>6
  <2> QED
    BY <1>2, <1>3, <2>7, SameCooldown
<1>5. CASE rule >= k
  <2>1. ~InTime(b)
    BY <1>1, <1>2, <1>5 DEF InTime, k
  <2>2. Away(b) = (IF stage = Channels + 2 THEN 0 ELSE MaxSend - took) + Sends(6 - rule) + NextRound(b)
    BY <1>2, <2>1 DEF Away
  <2>3. rule' > k /\ 7 - rule' = 6 - rule /\ 6 - rule \in 0..7
    BY <1>1, <1>2, <1>5
  <2>4. Away(b)' = Sends(7 - rule') + NextRound(b)
    BY <1>1, <1>2, <2>3 DEF Away, k
  <2>5. Sends(6 - rule) \in Nat /\ NextRound(b) \in Nat
    BY <1>1, <2>3, SendsGrow DEF NextRound, k
  <2>6. Away(b)' <= Away(b)
    BY <1>2, <2>2, <2>3, <2>4, <2>5
  <2> QED
    BY <1>2, <1>3, <2>6, SameCooldown
<1> QED
  BY <1>1, <1>2, <1>4, <1>5

\* With a tick the loop comes nearer, unless the service is off.
LEMMA TickIsNearer ==
    ASSUME AlertTypeOK, AlertTypeOK', NEW b \in Blocking,
           Tick, loop # "off"
    PROVE  Away(b)' = Away(b) - 1 /\ (Alerting(b)' <=> Alerting(b))
<1> DEFINE k == Place(b)
<1>1. k \in {3, 4} /\ Interval \in Nat /\ MaxSend \in Nat
  BY PlacesOfRules, SendsGrow
<1>2. /\ loop' = loop /\ rule' = rule /\ stage' = stage /\ Passes
      /\ slept \in 0..Interval /\ took \in 0..MaxSend /\ rule \in 1..7
  BY LoopTypes DEF Tick, world
<1>3. Alerting(b)' <=> Alerting(b)
  BY <1>2 DEF Alerting
<1>4. NextRound(b) \in Nat
  <2>1. k \in 0..7
    BY <1>1
  <2> QED
    BY <1>1, <2>1, SendsGrow DEF NextRound, k
<1> HIDE DEF k
<1>5. CASE loop = "sleeping"
  <2>1. slept' = slept + 1
    BY <1>2, <1>5 DEF Passes
  <2>2. Away(b) = NextRound(b) - slept
    BY <1>5 DEF Away
  <2>3. Away(b)' = NextRound(b) - slept'
    BY <1>2, <1>5 DEF Away
  <2> QED
    BY <1>2, <1>3, <1>4, <2>1, <2>2, <2>3
<1>6. CASE loop = "sending"
  <2>1. stage < Channels + 2 /\ took' = took + 1
    BY <1>2, <1>6 DEF Passes
  <2>2. InTime(b)' <=> InTime(b)
    BY <1>2 DEF InTime
  <2>3. CASE InTime(b)
    <3>1. Away(b) = MaxSend - took + Sends(k - rule)
      BY <1>6, <2>3 DEF Away, k
    <3>2. Away(b)' = MaxSend - took' + Sends(k - rule')
      BY <1>2, <1>6, <2>2, <2>3 DEF Away, k
    <3>3. Sends(k - rule) \in Nat
      <4>1. k - rule \in 0..7
        BY <1>1, <1>2, <2>3 DEF InTime, k
      <4> QED
        BY <4>1, SendsGrow
    <3> QED
      BY <1>1, <1>2, <1>3, <2>1, <3>1, <3>2, <3>3
  <2>4. CASE ~InTime(b)
    <3>1. Away(b) = (IF stage = Channels + 2 THEN 0 ELSE MaxSend - took) + Sends(6 - rule) + NextRound(b)
      BY <1>6, <2>4 DEF Away
    <3>2. Away(b)' = (IF stage' = Channels + 2 THEN 0 ELSE MaxSend - took') + Sends(6 - rule') + NextRound(b)
      BY <1>2, <1>6, <2>2, <2>4 DEF Away
    <3>3. rule \in 1..6 /\ stage \in Nat /\ Channels \in Nat
      BY <1>6, LoopTypes
    <3>4. Sends(6 - rule) \in Nat
      <4>1. 6 - rule \in 0..7
        BY <3>3
      <4> QED
        BY <4>1, SendsGrow
    <3>5. stage # Channels + 2
      BY <2>1, <3>3
    <3> QED
      BY <1>1, <1>2, <1>3, <1>4, <2>1, <3>1, <3>2, <3>4, <3>5
  <2> QED
    BY <2>3, <2>4
<1> QED
  BY <1>2, <1>5, <1>6 DEF Passes

\* A tick of silence is one that is over of what remained.
LEMMA TickKeepsWatch ==
    ASSUME AlertTypeOK, AlertTypeOK', NEW b \in Blocking,
           Tick, loop # "off"
    PROVE  silent'[b] + Remaining(b)' <= silent[b] + Remaining(b)
<1>1. /\ Away(b) \in Nat /\ Away(b)' \in Nat /\ Away(b)' <= Round /\ Round \in Nat
      /\ left[b] \in Nat /\ silent[b] \in Nat /\ silent'[b] \in Nat
  BY BoundsHold, NextBoundsHold, SendsGrow DEF Bounds
<1>2. Away(b)' = Away(b) - 1 /\ (Alerting(b)' <=> Alerting(b))
  BY TickIsNearer
<1>3. left'[b] = (IF left[b] > 0 THEN left[b] - 1 ELSE 0)
  BY SixRules DEF Tick, Less
<1>4. silent'[b] <= silent[b] + 1
  <2>1. silent'[b] = silent[b] \/ silent'[b] = silent[b] + 1
    BY DEF Tick
  <2> QED
    BY <1>1, <2>1
<1>5. Remaining(b)' <= Remaining(b) - 1
  <2>1. CASE left[b] = 0 \/ Alerting(b)
    <3>1. Remaining(b) = Away(b)
      BY <2>1 DEF Remaining
    <3>2. left'[b] = 0 \/ Alerting(b)'
      BY <1>2, <1>3, <2>1
    <3>3. Remaining(b)' = Away(b)'
      BY <3>2 DEF Remaining
    <3> QED
      BY <1>1, <1>2, <3>1, <3>3
  <2>2. CASE left[b] # 0 /\ ~Alerting(b)
    <3>1. Remaining(b) = left[b] + Round
      BY <2>2 DEF Remaining
    <3>2. left'[b] = left[b] - 1 /\ ~Alerting(b)'
      BY <1>1, <1>2, <1>3, <2>2
    <3>3. Remaining(b)' = IF left'[b] = 0 THEN Away(b)' ELSE left'[b] + Round
      BY <3>2 DEF Remaining
    <3> QED
      BY <1>1, <2>2, <3>1, <3>2, <3>3
  <2> QED
    BY <2>1, <2>2
<1>6. Remaining(b) \in Nat /\ Remaining(b)' \in Nat
  BY BoundsHold, NextBoundsHold DEF Bounds
<1> QED
  BY <1>1, <1>4, <1>5, <1>6

\* Every step keeps watch.
LEMMA StepKeepsWatch ==
    ASSUME AlertTypeOK, AlertTypeOK', NEW b \in Blocking,
           Watch(b), AlertNext
    PROVE  Watch(b)'
<1> DEFINE Same == silent'[b] = silent[b] /\ faults' = faults /\ failures' = failures /\ pnl' = pnl
<1>1. silent[b] \in Nat /\ Remaining(b) \in Nat /\ Remaining(b)' \in Nat
  BY BoundsHold, NextBoundsHold DEF Bounds
\* A step of the loop needs a look only while the rule blocks.
<1>2. ASSUME Same, loop' # "off", Blocks(b, failures, pnl) => Remaining(b)' <= Remaining(b)
      PROVE  Watch(b)'
  <2>1. CASE silent[b] = 0
    BY <1>2, <2>1, SilenceEnds
  <2>2. CASE silent[b] # 0
    <3>1. Blocks(b, failures, pnl)
      BY <2>2 DEF Watch
    <3>2. Blocks(b, failures', pnl')
      BY <1>2, <3>1
    <3>3. silent'[b] + Remaining(b)' <= silent[b] + Remaining(b)
      BY <1>1, <1>2, <3>1
    <3> QED
      BY <1>2, <3>2, <3>3, NoFarther
  <2> QED
    BY <2>1, <2>2
<1>3. CASE WorldChanges
  <2>1. /\ silent'[b] = IF Blocks(b, failures', pnl') THEN silent[b] ELSE 0
        /\ UNCHANGED <<loop, slept, rule, left, stage, took, faults>>
    BY <1>3 DEF WorldChanges, service
  <2>2. Remaining(b)' = Remaining(b)
    BY <2>1 DEF Remaining, Away, Alerting, InTime
  <2>3. CASE Blocks(b, failures', pnl') /\ loop' # "off"
    BY <1>1, <2>1, <2>2, <2>3, NoFarther
  <2>4. CASE ~Blocks(b, failures', pnl')
    BY <2>1, <2>4, SilenceEnds
  <2>5. CASE loop' = "off"
    <3>1. silent[b] = 0
      BY <2>1, <2>5 DEF Watch
    <3> QED
      BY <2>1, <3>1, SilenceEnds
  <2> QED
    BY <2>3, <2>4, <2>5
<1>4. CASE StartLoop \/ StopLoop
  <2>1. silent'[b] = 0
    BY <1>4 DEF StartLoop, StopLoop, Watch
  <2> QED
    BY <2>1, SilenceEnds
<1>5. CASE WakeUp \/ RoundEnds
  <2>1. Same /\ loop' # "off"
    BY <1>5 DEF WakeUp, RoundEnds, world
  <2> QED
    BY <1>2, <1>5, <2>1, RoundsKeepWatch
<1>6. CASE FindsNothing
  <2>1. Same /\ loop' # "off"
    BY <1>6 DEF FindsNothing, world
  <2> QED
    BY <1>2, <1>6, <2>1, NothingKeepsWatch
<1>7. CASE CheckFails
  BY <1>7, FaultsKeepWatch
<1>8. CASE FindsSomething
  <2>1. Same /\ loop' # "off"
    BY <1>8 DEF FindsSomething, world
  <2> QED
    BY <1>2, <1>8, <2>1, FindingKeepsWatch
<1>9. CASE PersistOrPublish \/ SendOnChannel
  <2>1. CASE ~(rule = Place(b) /\ stage = Channels + 1)
    <3>1. /\ loop' # "off" /\ faults' = faults /\ failures' = failures /\ pnl' = pnl
          /\ silent'[b] = silent[b] \/ silent'[b] = 0
      BY <1>9 DEF PersistOrPublish, SendOnChannel, world
    <3>2. Remaining(b)' <= Remaining(b)
      BY <1>9, <2>1, SendingKeepsWatch
    <3> QED
      BY <1>2, <3>1, <3>2, SilenceEnds
  <2>2. CASE rule = Place(b) /\ stage = Channels + 1
    <3>1. stage >= 2 /\ Rules[rule] = b
      BY <2>2, LoopTypes, PlacesOfRules
    <3>2. SendOnChannel
      BY <1>9, <2>2, <3>1, LoopTypes DEF PersistOrPublish
    <3>3. silent'[b] = 0
      BY <2>2, <3>1, <3>2 DEF SendOnChannel
    <3> QED
      BY <3>3, SilenceEnds
  <2> QED
    BY <2>1, <2>2
<1>10. CASE SendingEnds
  <2>1. Same /\ loop' # "off"
    BY <1>10 DEF SendingEnds, world
  <2> QED
    BY <1>2, <1>10, <2>1, SentKeepsWatch
<1>11. CASE Tick
  <2>1. /\ loop' = loop /\ faults' = faults /\ failures' = failures /\ pnl' = pnl
        /\ loop = "off" \/ ~Blocks(b, failures, pnl) => silent'[b] = silent[b]
    BY <1>11 DEF Tick, world
  <2>2. CASE loop = "off" \/ ~Blocks(b, failures, pnl)
    <3>1. silent'[b] = 0
      BY <2>1, <2>2 DEF Watch
    <3> QED
      BY <3>1, SilenceEnds
  <2>3. CASE loop # "off" /\ Blocks(b, failures, pnl)
    BY <1>11, <2>1, <2>3, TickKeepsWatch, NoFarther
  <2> QED
    BY <2>2, <2>3
<1> QED
  BY <1>3, <1>4, <1>5, <1>6, <1>7, <1>8, <1>9, <1>10, <1>11 DEF AlertNext

\* The invariant holds in every state.
THEOREM Watching == AlertSpec => []AlertInv
<1>1. AlertInit => AlertInv
  <2> SUFFICES ASSUME AlertInit PROVE AlertInv
    OBVIOUS
  <2>1. AlertTypeOK
    BY AlertInitTypes
  <2>2. ASSUME NEW b \in Blocking PROVE Watch(b)
    <3>1. silent[b] = 0 /\ faults = 0
      BY DEF AlertInit
    <3>2. Remaining(b) \in Nat /\ Remaining(b) <= Longest + Round
      BY <2>1, RemainingBound
    <3>3. Round \in Nat /\ Longest \in Nat
      BY SendsGrow, LongestIs
    <3>4. silent[b] + Remaining(b) <= Longest + (1 + faults) * Round
      BY <3>1, <3>2, <3>3
    <3> QED
      BY <3>1, <3>4 DEF Watch
  <2> QED
    BY <2>1, <2>2 DEF AlertInv, Watched
<1>2. AlertInv /\ [AlertNext]_alertVars => AlertInv'
  <2> SUFFICES ASSUME AlertInv, [AlertNext]_alertVars PROVE AlertInv'
    OBVIOUS
  <2>1. CASE AlertNext
    <3>1. AlertTypeOK'
      BY <2>1, AlertTypes DEF AlertInv
    <3>2. ASSUME NEW b \in Blocking PROVE Watch(b)'
      BY <2>1, <3>1, StepKeepsWatch DEF AlertInv, Watched
    <3> QED
      BY <3>1, <3>2 DEF AlertInv, Watched
  <2>2. CASE UNCHANGED alertVars
    <3>1. UNCHANGED <<age, failures, pnl, balance, events, loop, slept, rule, left, stage, took, faults, silent>>
      BY <2>2 DEF alertVars, world, service
    <3>2. AlertTypeOK'
      BY <3>1 DEF AlertInv, AlertTypeOK
    <3>3. Watched'
      BY <3>1 DEF AlertInv, Watched, Watch, Remaining, Away, Alerting, InTime
    <3> QED
      BY <3>2, <3>3 DEF AlertInv
  <2> QED
    BY <2>1, <2>2
<1> QED
  BY <1>1, <1>2, PTL DEF AlertSpec

\* The risk engine never stops trading for longer than a cooldown and a round for
\* every failing command, and one, without an alert on every channel.
THEOREM BlocksAreReported == AlertSpec => []BlockIsReported
<1>1. AlertInv => BlockIsReported
  <2> SUFFICES ASSUME AlertInv, NEW b \in Blocking PROVE silent[b] <= Patience
    BY DEF BlockIsReported
  <2>1. AlertTypeOK /\ Watch(b)
    BY DEF AlertInv, Watched
  <2>2. silent[b] \in Nat /\ Remaining(b) \in Nat /\ faults \in Nat
    BY <2>1, BoundsHold DEF Bounds
  <2>3. silent[b] + Remaining(b) <= Longest + (1 + faults) * Round
    BY <2>1 DEF Watch
  <2>4. faults <= MaxFaults /\ MaxFaults \in Nat /\ Round \in Nat /\ Longest \in Nat
    BY <2>1, LoopTypes, SendsGrow, LongestIs
  <2>5. (1 + faults) * Round <= (1 + MaxFaults) * Round
    BY <2>2, <2>4, RoundsGrow
  <2>6. (1 + faults) * Round \in Nat /\ (1 + MaxFaults) * Round \in Nat
    BY <2>2, <2>4, RoundsAdd
  <2>7. Patience = Longest + (1 + MaxFaults) * Round
    BY LongestIs
  <2> QED
    BY <2>2, <2>3, <2>4, <2>5, <2>6, <2>7
<1> QED
  BY Watching, <1>1, PTL

=============================================================================
