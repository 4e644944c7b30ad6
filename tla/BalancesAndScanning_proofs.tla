--------------------- MODULE BalancesAndScanning_proofs ---------------------
(***************************************************************************)
(* Proofs about modules PaperExchange, Inventory and Scanning, which have  *)
(* the sums of finite tables in common (module OrderBooks_proofs).         *)
(*                                                                         *)
(* PaperExchange, for any orders, quantities, prices and fees: type        *)
(* correctness, what a late cancel can do, that the exchange implements    *)
(* the plain account of module PaperAccount, and that what is locked is    *)
(* what the open orders have reserved.                                     *)
(*                                                                         *)
(* Inventory, for any exchanges, assets, prices and tasks: type            *)
(* correctness, and that the views of the cache agree.                     *)
(*                                                                         *)
(* Scanning, and modules Simulation, Calculations and Triangles that it is *)
(* made of, for any venues, books, rates and amounts: that what the        *)
(* scanners find executable can be bought and sold, and every field of a   *)
(* simulation and of an estimate is right about the books it was read from *)
(* (TruncatedIs to NetProfitsAreRight), that no estimate a scan publishes  *)
(* is wrong in a state the program can reach, and that no triangle pays in *)
(* both directions.                                                        *)
(***************************************************************************)
EXTENDS PaperExchange, Inventory, Scanning, OrderBooks_proofs

-----------------------------------------------------------------------------
(***************************************************************************)
(* Arithmetic.                                                             *)
(***************************************************************************)
\* Quantities, and that of no order, are natural numbers.
LEMMA QtyIsNat ==
    ASSUME NEW q \in Qtys \cup {0}
    PROVE  q \in Nat
BY QtysAssumption

\* Limits, and that of a market order, are natural numbers.
LEMMA LimitIsNat ==
    ASSUME NEW l \in Prices \cup {0}
    PROVE  l \in Nat
BY PricesAssumption

\* What is reserved is a natural number of quote units.
LEMMA ReservedIsNat ==
    ASSUME NEW q \in Qtys \cup {0}, NEW l \in Prices \cup {0}, NEW p \in Prices
    PROVE  Reserved(q, l, p) \in Nat
<1>1. q \in Nat /\ l \in Nat /\ p \in Nat
  BY QtysAssumption, PricesAssumption
<1> QED
  BY <1>1, ProductIsNat DEF Reserved

\* The proceeds of a sale after the fee are a natural number.
LEMMA ProceedsAreNat ==
    ASSUME NEW q \in Qtys \cup {0}, NEW p \in Prices
    PROVE  p - Fee[p] \in Nat /\ q * (p - Fee[p]) \in Nat
<1>1. q \in Nat /\ p \in Nat /\ Fee[p] \in Nat /\ Fee[p] <= p
  BY QtysAssumption, PricesAssumption, FeeAssumption
<1>2. p - Fee[p] \in Nat
  BY <1>1
<1> QED
  BY <1>1, <1>2, ProductIsNat

\* A buy costs a natural number, and its refund is one too.
LEMMA RefundIsNat ==
    ASSUME NEW q \in Qtys \cup {0}, NEW p \in Prices, NEW r \in Nat
    PROVE  q * (p + Fee[p]) \in Nat /\ Refund(r, q * (p + Fee[p])) \in Nat
<1>1. q \in Nat /\ p + Fee[p] \in Nat
  BY QtysAssumption, PricesAssumption, FeeAssumption
<1>2. q * (p + Fee[p]) \in Nat
  BY <1>1, ProductIsNat
<1> QED
  BY <1>2 DEF Refund

-----------------------------------------------------------------------------
(***************************************************************************)
(* Type correctness: every step leaves the order it is about an order      *)
(* record, and the balances numbers of the right kind.                     *)
(***************************************************************************)
\* An order as placed is an order record.
LEMMA OpenedTypes ==
    ASSUME TypeOK, NEW o \in Orders, NEW side \in {"BUY", "SELL"},
           NEW q \in Qtys, NEW terms \in Terms, Opened(o, side, q, terms)
    PROVE  /\ terms.limit \in Prices \cup {0}
           /\ order' \in [Orders -> OrderRecords]
           /\ task' \in [Orders -> {"none", "waiting", "filling", "ended"}]
<1>1. terms.type \in {"MARKET", "LIMIT"} /\ terms.limit \in Prices \cup {0}
  BY DEF Terms
<1>2. New(side, q, terms) \in OrderRecords
  BY <1>1 DEF New, OrderRecords
<1> QED
  BY <1>1, <1>2 DEF Opened, TypeOK

\* An order as filled or cancelled is an order record.
LEMMA ClosedTypes ==
    ASSUME TypeOK, NEW o \in Orders
    PROVE  /\ order[o].qty \in Qtys \cup {0} /\ order[o].limit \in Prices \cup {0}
           /\ Filled(o) \in OrderRecords /\ Canceled(o) \in OrderRecords
BY DEF TypeOK, OrderRecords, Filled, Canceled

\* Placing a buy keeps the types: the free balance covers what is reserved.
LEMMA PlaceBuyTypes ==
    ASSUME TypeOK, NEW o \in Orders, PlaceBuy(o)
    PROVE  TypeOK'
<1>1. PICK q \in Qtys, terms \in Terms, p \in Prices :
        /\ quoteFree >= Reserved(q, terms.limit, p)
        /\ quoteFree' = quoteFree - Reserved(q, terms.limit, p)
        /\ quoteLocked' = quoteLocked + Reserved(q, terms.limit, p)
        /\ Opened(o, "BUY", q, terms)
        /\ UNCHANGED <<baseFree, baseLocked, late>>
  BY DEF PlaceBuy, HasFunds
<1>2. /\ terms.limit \in Prices \cup {0}
      /\ order' \in [Orders -> OrderRecords]
      /\ task' \in [Orders -> {"none", "waiting", "filling", "ended"}]
  BY <1>1, OpenedTypes
<1>3. Reserved(q, terms.limit, p) \in Nat
  BY <1>2, ReservedIsNat
<1> QED
  BY <1>1, <1>2, <1>3 DEF TypeOK

\* Placing a sell keeps the types.
LEMMA PlaceSellTypes ==
    ASSUME TypeOK, NEW o \in Orders, PlaceSell(o)
    PROVE  TypeOK'
<1>1. PICK q \in Qtys, terms \in Terms :
        /\ baseFree >= q
        /\ baseFree' = baseFree - q
        /\ baseLocked' = baseLocked + q
        /\ Opened(o, "SELL", q, terms)
        /\ UNCHANGED <<quoteFree, quoteLocked, late>>
  BY DEF PlaceSell, HasFunds
<1>2. /\ order' \in [Orders -> OrderRecords]
      /\ task' \in [Orders -> {"none", "waiting", "filling", "ended"}]
  BY <1>1, OpenedTypes
<1>3. q \in Nat
  BY QtysAssumption
<1> QED
  BY <1>1, <1>2, <1>3 DEF TypeOK

\* A fill of either side keeps the types.
LEMMA FillTypes ==
    ASSUME TypeOK, NEW o \in Orders, FillBuy(o) \/ FillSell(o)
    PROVE  TypeOK'
<1>1. /\ order' = [order EXCEPT ![o] = Filled(o)]
      /\ task' = [task EXCEPT ![o] = "ended"]
      /\ late' = late
  BY DEF FillBuy, FillSell, Settles
<1>2. /\ order[o].qty \in Qtys \cup {0} /\ order[o].limit \in Prices \cup {0}
      /\ Filled(o) \in OrderRecords
  BY ClosedTypes
<1>3. order[o].qty \in Nat
  BY <1>2, QtyIsNat
<1>4. /\ order' \in [Orders -> OrderRecords]
      /\ task' \in [Orders -> {"none", "waiting", "filling", "ended"}]
      /\ late' \subseteq Orders
  BY <1>1, <1>2 DEF TypeOK
<1>5. CASE FillBuy(o)
  <2>1. PICK p \in Prices :
          LET reserved == Reserved(order[o].qty, order[o].limit, p)
          IN  /\ quoteLocked' = quoteLocked - reserved
              /\ quoteFree' = quoteFree + Refund(reserved, order[o].qty * (p + Fee[p]))
              /\ baseFree' = baseFree + order[o].qty
              /\ baseLocked' = baseLocked
    BY <1>5 DEF FillBuy
  <2>2. Reserved(order[o].qty, order[o].limit, p) \in Nat
    BY <1>2, ReservedIsNat
  <2>3. Refund(Reserved(order[o].qty, order[o].limit, p), order[o].qty * (p + Fee[p])) \in Nat
    BY <1>2, <2>2, RefundIsNat
  <2> QED
    BY <1>3, <1>4, <2>1, <2>2, <2>3 DEF TypeOK
<1>6. CASE FillSell(o)
  <2>1. PICK p \in Prices :
          /\ baseLocked' = baseLocked - order[o].qty
          /\ quoteFree' = quoteFree + order[o].qty * (p - Fee[p])
          /\ UNCHANGED <<baseFree, quoteLocked>>
    BY <1>6 DEF FillSell
  <2>2. order[o].qty * (p - Fee[p]) \in Nat
    BY <1>2, ProceedsAreNat
  <2> QED
    BY <1>3, <1>4, <2>1, <2>2 DEF TypeOK
<1> QED
  BY <1>5, <1>6

\* A cancel of either side keeps the types.
LEMMA CancelTypes ==
    ASSUME TypeOK, NEW o \in Orders, CancelBuy(o) \/ CancelSell(o)
    PROVE  TypeOK'
<1>1. /\ order' = [order EXCEPT ![o] = Canceled(o)]
      /\ task' = task
      /\ late' \in {late, late \cup {o}}
  BY DEF CancelBuy, CancelSell, Withdraws
<1>2. /\ order[o].qty \in Qtys \cup {0} /\ order[o].limit \in Prices \cup {0}
      /\ Canceled(o) \in OrderRecords
  BY ClosedTypes
<1>3. order[o].qty \in Nat
  BY <1>2, QtyIsNat
<1>4. /\ order' \in [Orders -> OrderRecords]
      /\ task' \in [Orders -> {"none", "waiting", "filling", "ended"}]
      /\ late' \subseteq Orders
  BY <1>1, <1>2 DEF TypeOK
<1>5. CASE CancelBuy(o)
  <2>1. PICK p \in Prices :
          /\ quoteLocked' = quoteLocked - Reserved(order[o].qty, order[o].limit, p)
          /\ quoteFree' = quoteFree + Reserved(order[o].qty, order[o].limit, p)
          /\ UNCHANGED <<baseFree, baseLocked>>
    BY <1>5 DEF CancelBuy
  <2>2. Reserved(order[o].qty, order[o].limit, p) \in Nat
    BY <1>2, ReservedIsNat
  <2> QED
    BY <1>4, <2>1, <2>2 DEF TypeOK
<1>6. CASE CancelSell(o)
  BY <1>3, <1>4, <1>6 DEF CancelSell, TypeOK
<1> QED
  BY <1>5, <1>6

\* The exchange starts in a state of the right types, and every step keeps them:
\* no interleaving of orders, fills and cancels makes a free balance negative.
THEOREM TypeCorrect == Spec => []TypeOK
<1>1. ASSUME Init PROVE TypeOK
  <2>1. NoOrder \in OrderRecords
    BY DEF NoOrder, OrderRecords
  <2> QED
    BY <1>1, <2>1, BalanceAssumption DEF Init, TypeOK
<1>2. ASSUME TypeOK, [Next]_vars PROVE TypeOK'
  <2>1. CASE UNCHANGED vars
    BY <1>2, <2>1 DEF TypeOK, vars, balances
  <2>2. ASSUME NEW o \in Orders, LimitWakes(o) PROVE TypeOK'
    BY <1>2, <2>2 DEF TypeOK, LimitWakes, balances
  <2>3. ASSUME NEW o \in Orders, Abandon(o) PROVE TypeOK'
    BY <1>2, <2>3 DEF TypeOK, Abandon, balances
  <2> QED
    BY <1>2, <2>1, <2>2, <2>3, PlaceBuyTypes, PlaceSellTypes, FillTypes, CancelTypes
       DEF Next
<1> QED
  BY <1>1, <1>2, PTL DEF Spec

-----------------------------------------------------------------------------
(***************************************************************************)
(* Cancels and settlements.  Two facts about the coroutine of an order     *)
(* make the account's promises inductive: one that is about to fill has an *)
(* order with a quantity, and that order has not been filled before.       *)
(***************************************************************************)
Pending(o) == task[o] = "filling" => order[o].qty \in Qtys /\ order[o].status # "FILLED"

NewHasQty(o) == order[o].status = "NEW" => order[o].qty \in Qtys

SettlementInv == /\ TypeOK
                 /\ OnlyLateCancelsFail
                 /\ \A o \in Orders : Pending(o) /\ NewHasQty(o)

\* What a step does to the records behind the orders: only o's change, and
\* they change in one of five ways.
Evolves(o) ==
    \/ /\ order[o].status = "NONE"
       /\ \E r \in OrderRecords :
             r.status = "NEW" /\ r.qty \in Qtys /\ order' = [order EXCEPT ![o] = r]
       /\ \E t \in {"waiting", "filling"} : task' = [task EXCEPT ![o] = t]
       /\ late' = late
    \/ /\ order[o].status = "NEW"
       /\ order' = order /\ task' = [task EXCEPT ![o] = "filling"] /\ late' = late
    \/ /\ task[o] # "none"
       /\ order' = order /\ task' = [task EXCEPT ![o] = "ended"] /\ late' = late
    \/ /\ order' = [order EXCEPT ![o] = Filled(o)]
       /\ task' = [task EXCEPT ![o] = "ended"] /\ late' = late
    \/ /\ order[o].status = "NEW"
       /\ order' = [order EXCEPT ![o] = Canceled(o)] /\ task' = task
       /\ late' = IF task[o] = "filling" THEN late \cup {o} ELSE late

\* A placed order is new and has a quantity.
LEMMA OpenedEvolves ==
    ASSUME NEW o \in Orders, order[o].status = "NONE", late' = late,
           NEW side \in {"BUY", "SELL"}, NEW q \in Qtys, NEW terms \in Terms,
           Opened(o, side, q, terms)
    PROVE  Evolves(o)
<1>1. terms.type \in {"MARKET", "LIMIT"} /\ terms.limit \in Prices \cup {0}
  BY DEF Terms
<1>2. /\ New(side, q, terms) \in OrderRecords
      /\ New(side, q, terms).status = "NEW" /\ New(side, q, terms).qty \in Qtys
  BY <1>1 DEF New, OrderRecords
<1>3. \E t \in {"waiting", "filling"} : task' = [task EXCEPT ![o] = t]
  BY DEF Opened
<1>4. order' = [order EXCEPT ![o] = New(side, q, terms)]
  BY DEF Opened
<1> QED
  BY <1>2, <1>3, <1>4 DEF Evolves

\* Every step is one of the five ways.
LEMMA StepEvolves ==
    ASSUME Next
    PROVE  \E o \in Orders : Evolves(o)
<1>1. ASSUME NEW o \in Orders, PlaceBuy(o) \/ PlaceSell(o) PROVE Evolves(o)
  <2>1. order[o].status = "NONE" /\ late' = late
    BY <1>1 DEF PlaceBuy, PlaceSell
  <2>2. PICK side \in {"BUY", "SELL"}, q \in Qtys, terms \in Terms :
          Opened(o, side, q, terms)
    BY <1>1 DEF PlaceBuy, PlaceSell
  <2> QED
    BY <2>1, <2>2, OpenedEvolves
<1>2. ASSUME NEW o \in Orders, LimitWakes(o) PROVE Evolves(o)
  BY <1>2 DEF LimitWakes, StillOpen, Evolves
<1>3. ASSUME NEW o \in Orders, FillBuy(o) \/ FillSell(o) PROVE Evolves(o)
  BY <1>3 DEF FillBuy, FillSell, Settles, Evolves
<1>4. ASSUME NEW o \in Orders, Abandon(o) PROVE Evolves(o)
  BY <1>4 DEF Abandon, Evolves
<1>5. ASSUME NEW o \in Orders, CancelBuy(o) \/ CancelSell(o) PROVE Evolves(o)
  BY <1>5 DEF CancelBuy, CancelSell, Withdraws, StillOpen, Evolves
<1> QED
  BY <1>1, <1>2, <1>3, <1>4, <1>5 DEF Next

\* The properties of cancels and of pending fills survive every way an order
\* evolves.
LEMMA EvolvesKeepsSettlement ==
    ASSUME SettlementInv, NEW o \in Orders, Evolves(o)
    PROVE  /\ OnlyLateCancelsFail'
           /\ \A i \in Orders : (Pending(i) /\ NewHasQty(i))'
<1> DEFINE Good(i) == /\ i \in late => order[i].status \in {"CANCELED", "FILLED"}
                      /\ (order[i].status = "CANCELED" /\ task[i] = "filling") => i \in late
                      /\ Pending(i) /\ NewHasQty(i)
<1>1. SUFFICES ASSUME NEW i \in Orders PROVE Good(i)'
  BY <1>1 DEF OnlyLateCancelsFail
<1>2. Good(i) /\ Good(o) /\ order \in [Orders -> OrderRecords]
      /\ task \in [Orders -> {"none", "waiting", "filling", "ended"}]
  BY DEF SettlementInv, OnlyLateCancelsFail, TypeOK
<1>3. CASE i # o
  <2>1. order'[i] = order[i] /\ task'[i] = task[i] /\ (i \in late' <=> i \in late)
    BY <1>2, <1>3 DEF Evolves
  <2> QED
    BY <1>2, <2>1 DEF Pending, NewHasQty
<1>4. CASE i = o
  <2>1. /\ Filled(o).status = "FILLED" /\ Filled(o).qty = order[o].qty
        /\ Canceled(o).status = "CANCELED" /\ Canceled(o).qty = order[o].qty
    BY DEF Filled, Canceled
  <2> QED
    BY <1>2, <1>4, <2>1 DEF Evolves, Pending, NewHasQty
<1> QED
  BY <1>3, <1>4

\* The strengthened invariant holds in every reachable state.
THEOREM Settlement == Spec => []SettlementInv
<1>1. ASSUME Init PROVE SettlementInv
  <2>1. NoOrder \in OrderRecords /\ NoOrder.status = "NONE"
    BY DEF NoOrder, OrderRecords
  <2>2. TypeOK
    BY <1>1, <2>1, BalanceAssumption DEF Init, TypeOK
  <2> QED
    BY <1>1, <2>1, <2>2 DEF Init, SettlementInv, OnlyLateCancelsFail, Pending, NewHasQty
<1>2. ASSUME SettlementInv, TypeOK', [Next]_vars PROVE SettlementInv'
  <2>1. CASE UNCHANGED vars
    BY <1>2, <2>1 DEF SettlementInv, OnlyLateCancelsFail, Pending, NewHasQty, vars
  <2>2. CASE Next
    <3>1. PICK o \in Orders : Evolves(o)
      BY <2>2, StepEvolves
    <3> QED
      BY <1>2, <3>1, EvolvesKeepsSettlement DEF SettlementInv
  <2> QED
    BY <1>2, <2>1, <2>2
<1> QED
  BY <1>1, <1>2, TypeCorrect, PTL DEF Spec

\* A cancelled order is filled only if its fill had been sent before the cancel.
THEOREM LateCancels == Spec => []OnlyLateCancelsFail
<1>1. SettlementInv => OnlyLateCancelsFail
  BY DEF SettlementInv
<1> QED
  BY <1>1, Settlement, PTL

-----------------------------------------------------------------------------
(***************************************************************************)
(* Refinement.  The mapping adds what is locked to what is free, so a      *)
(* reservation and its release are stutters, and only fills are steps.     *)
(***************************************************************************)
SettledOnes == {o \in Orders : order[o].status = "FILLED"}

\* As long as no order becomes filled, none of the settled ones changes.
LEMMA SameSettled ==
    ASSUME NEW o \in Orders, order \in [Orders -> OrderRecords],
           NEW r, r.status # "FILLED", order[o].status # "FILLED",
           order' = [order EXCEPT ![o] = r]
    PROVE  SettledOnes' = SettledOnes
BY DEF SettledOnes

\* Placing an order moves funds from free to locked.
LEMMA PlaceStutters ==
    ASSUME TypeOK, NEW o \in Orders, PlaceBuy(o) \/ PlaceSell(o)
    PROVE  UNCHANGED Account!vars
<1>1. order[o].status = "NONE"
  BY DEF PlaceBuy, PlaceSell
<1>2. PICK side \in {"BUY", "SELL"}, q \in Qtys, terms \in Terms :
        Opened(o, side, q, terms)
  BY DEF PlaceBuy, PlaceSell
<1>3. order' = [order EXCEPT ![o] = New(side, q, terms)] /\ New(side, q, terms).status = "NEW"
  BY <1>2 DEF Opened, New
<1>4. SettledOnes' = SettledOnes
  BY <1>1, <1>3, SameSettled DEF TypeOK
<1>5. CASE PlaceBuy(o)
  <2>1. PICK n \in Qtys, t \in Terms, p \in Prices :
          /\ quoteFree' = quoteFree - Reserved(n, t.limit, p)
          /\ quoteLocked' = quoteLocked + Reserved(n, t.limit, p)
          /\ UNCHANGED <<baseFree, baseLocked>>
    BY <1>5 DEF PlaceBuy
  <2>2. t.limit \in Prices \cup {0}
    BY DEF Terms
  <2>3. Reserved(n, t.limit, p) \in Nat
    BY <2>2, ReservedIsNat
  <2> QED
    BY <1>4, <2>1, <2>3 DEF TypeOK, Account!vars, SettledOnes
<1>6. CASE PlaceSell(o)
  <2>1. PICK n \in Qtys :
          /\ baseFree' = baseFree - n
          /\ baseLocked' = baseLocked + n
          /\ UNCHANGED <<quoteFree, quoteLocked>>
    BY <1>6 DEF PlaceSell
  <2>2. n \in Nat
    BY QtysAssumption
  <2> QED
    BY <1>4, <2>1, <2>2 DEF TypeOK, Account!vars, SettledOnes
<1> QED
  BY <1>5, <1>6

\* A cancel moves them back, even when the fill is on its way.
LEMMA CancelStutters ==
    ASSUME TypeOK, NEW o \in Orders, CancelBuy(o) \/ CancelSell(o)
    PROVE  UNCHANGED Account!vars
<1>1. order[o].status = "NEW" /\ order' = [order EXCEPT ![o] = Canceled(o)]
  BY DEF CancelBuy, CancelSell, Withdraws, StillOpen
<1>2. Canceled(o).status = "CANCELED"
  BY DEF Canceled
<1>3. SettledOnes' = SettledOnes
  BY <1>1, <1>2, SameSettled DEF TypeOK
<1>4. order[o].qty \in Qtys \cup {0} /\ order[o].limit \in Prices \cup {0}
  BY ClosedTypes
<1>5. CASE CancelBuy(o)
  <2>1. PICK p \in Prices :
          /\ quoteLocked' = quoteLocked - Reserved(order[o].qty, order[o].limit, p)
          /\ quoteFree' = quoteFree + Reserved(order[o].qty, order[o].limit, p)
          /\ UNCHANGED <<baseFree, baseLocked>>
    BY <1>5 DEF CancelBuy
  <2>2. Reserved(order[o].qty, order[o].limit, p) \in Nat
    BY <1>4, ReservedIsNat
  <2> QED
    BY <1>3, <2>1, <2>2 DEF TypeOK, Account!vars, SettledOnes
<1>6. CASE CancelSell(o)
  <2>1. order[o].qty \in Nat
    BY <1>4, QtyIsNat
  <2> QED
    BY <1>3, <1>6, <2>1 DEF CancelSell, TypeOK, Account!vars, SettledOnes
<1> QED
  BY <1>5, <1>6

\* A fill that is pending adds its order to the settled ones, once.
LEMMA FillSettles ==
    ASSUME SettlementInv, NEW o \in Orders, NEW side, Settles(o, side)
    PROVE  /\ order[o].qty \in Qtys /\ o \notin SettledOnes
           /\ SettledOnes' = SettledOnes \cup {o}
<1>1. order \in [Orders -> OrderRecords] /\ Pending(o)
  BY DEF SettlementInv, TypeOK
<1>2. order[o].qty \in Qtys /\ order[o].status # "FILLED"
  BY <1>1 DEF Settles, Pending
<1>3. order' = [order EXCEPT ![o] = Filled(o)] /\ Filled(o).status = "FILLED"
  BY DEF Settles, Filled
<1> QED
  BY <1>1, <1>2, <1>3 DEF SettledOnes

\* The total a buyer pays is the value at a price of the market, with the fee or
\* without it: the whole reservation if the cost exceeds it, else the cost.
LEMMA BuyerPays ==
    ASSUME NEW q \in Qtys, NEW l \in Prices \cup {0}, NEW p \in Prices
    PROVE  LET r == Reserved(q, l, p)
           IN  \E m \in Prices :
                  Refund(r, q * (p + Fee[p])) - r \in {-(q * m), -(q * (m + Fee[m]))}
<1> DEFINE r == Reserved(q, l, p)
           cost == q * (p + Fee[p])
<1>1. r \in Nat /\ cost \in Nat
  BY ReservedIsNat, RefundIsNat
<1>2. CASE r > cost
  BY <1>1, <1>2 DEF Refund
<1>3. CASE ~(r > cost)
  <2>1. PICK m \in Prices : r = q * m
    BY DEF Reserved
  <2>2. Refund(r, cost) - r = -(q * m)
    BY <1>1, <1>3, <2>1 DEF Refund
  <2> QED
    BY <2>2
<1> QED
  BY <1>2, <1>3

\* The fill of a buy is a settlement of the account.
LEMMA FillBuySettles ==
    ASSUME SettlementInv, NEW o \in Orders, FillBuy(o)
    PROVE  Account!Settle(o)
<1>1. PICK p \in Prices :
        LET r == Reserved(order[o].qty, order[o].limit, p)
        IN  /\ quoteLocked' = quoteLocked - r
            /\ quoteFree' = quoteFree + Refund(r, order[o].qty * (p + Fee[p]))
            /\ baseFree' = baseFree + order[o].qty
            /\ baseLocked' = baseLocked
  BY DEF FillBuy
<1>2. /\ order[o].qty \in Qtys /\ o \notin SettledOnes
      /\ SettledOnes' = SettledOnes \cup {o}
  BY FillSettles DEF FillBuy
<1>3. TypeOK /\ order[o].limit \in Prices \cup {0}
  BY ClosedTypes DEF SettlementInv
<1> DEFINE q == order[o].qty
           r == Reserved(q, order[o].limit, p)
           back == Refund(r, q * (p + Fee[p]))
<1>4. PICK m \in Prices : back - r \in {-(q * m), -(q * (m + Fee[m]))}
  BY <1>2, <1>3, BuyerPays
<1>5. q \in Nat /\ m \in Nat /\ m + Fee[m] \in Nat /\ r \in Nat /\ back \in Nat
  <2>1. q \in Qtys \cup {0} /\ order[o].limit \in Prices \cup {0}
    BY <1>2, <1>3
  <2>2. q \in Nat /\ m \in Nat /\ m + Fee[m] \in Nat
    BY <2>1, QtyIsNat, PricesAssumption, FeeAssumption
  <2>3. r \in Nat
    BY <2>1, ReservedIsNat
  <2>4. back \in Nat
    BY <2>1, <2>3, RefundIsNat
  <2> QED
    BY <2>2, <2>3, <2>4
<1>6. q * m \in Nat /\ q * (m + Fee[m]) \in Nat
  BY <1>5, ProductIsNat
<1>7. baseFree' + baseLocked' = (baseFree + baseLocked) + q
  BY <1>1, <1>3, <1>5 DEF TypeOK
<1>8. quoteFree' + quoteLocked' = (quoteFree + quoteLocked) + (back - r)
  <2>1. quoteLocked' = quoteLocked - r /\ quoteFree' = quoteFree + back
    BY <1>1
  <2> QED
    BY <1>3, <1>5, <2>1 DEF TypeOK
<1>9. quoteFree' + quoteLocked' \in {(quoteFree + quoteLocked) - q * m,
                                     (quoteFree + quoteLocked) - q * (m + Fee[m])}
  <2> HIDE DEF q, r, back
  <2> QED
    BY <1>3, <1>4, <1>5, <1>6, <1>8 DEF TypeOK
<1>10. Account!Buy(q, m)
  BY <1>7, <1>9 DEF Account!Buy
<1> QED
  BY <1>2, <1>10 DEF Account!Settle, SettledOnes

\* The fill of a sell is a settlement of the account.
LEMMA FillSellSettles ==
    ASSUME SettlementInv, NEW o \in Orders, FillSell(o)
    PROVE  Account!Settle(o)
<1>1. PICK p \in Prices :
        /\ baseLocked' = baseLocked - order[o].qty
        /\ quoteFree' = quoteFree + order[o].qty * (p - Fee[p])
        /\ UNCHANGED <<baseFree, quoteLocked>>
  BY DEF FillSell
<1>2. /\ order[o].qty \in Qtys /\ o \notin SettledOnes
      /\ SettledOnes' = SettledOnes \cup {o}
  BY FillSettles DEF FillSell
<1>3. TypeOK /\ order[o].qty \in Nat /\ order[o].qty * (p - Fee[p]) \in Nat
  BY <1>2, QtysAssumption, ProceedsAreNat DEF SettlementInv
<1>4. Account!Sell(order[o].qty, p)
  BY <1>1, <1>3 DEF TypeOK, Account!Sell
<1> QED
  BY <1>2, <1>4 DEF Account!Settle, SettledOnes

\* The paper exchange implements the plain account.
THEOREM Implementation == Spec => ImplementsAccount
<1>1. Init => Account!Init
  <2>1. NoOrder.status # "FILLED"
    BY DEF NoOrder
  <2> QED
    BY <2>1, BalanceAssumption DEF Init, Account!Init
<1>2. ASSUME SettlementInv, [Next]_vars PROVE [Account!Next]_(Account!vars)
  <2>1. CASE UNCHANGED vars
    BY <2>1 DEF vars, balances, Account!vars
  <2>2. ASSUME NEW o \in Orders, LimitWakes(o) \/ Abandon(o) PROVE UNCHANGED Account!vars
    BY <2>2 DEF LimitWakes, Abandon, balances, Account!vars
  <2>3. ASSUME NEW o \in Orders, FillBuy(o) \/ FillSell(o) PROVE Account!Next
    BY <1>2, <2>3, FillBuySettles, FillSellSettles DEF Account!Next
  <2>4. ASSUME NEW o \in Orders,
               PlaceBuy(o) \/ PlaceSell(o) \/ CancelBuy(o) \/ CancelSell(o)
        PROVE  UNCHANGED Account!vars
    BY <1>2, <2>4, PlaceStutters, CancelStutters DEF SettlementInv
  <2> QED
    BY <1>2, <2>1, <2>2, <2>3, <2>4 DEF Next
<1> QED
  BY <1>1, <1>2, Settlement, PTL DEF Spec, ImplementsAccount, Account!Spec
-----------------------------------------------------------------------------
(***************************************************************************)
(* What is locked.  Every step moves one order between two of the sets     *)
(* that the sums run over, and the balance by that order's summand.  For   *)
(* that, an order that is about to fill must have been placed, and a limit *)
(* order must have the limit at which it reserved.                         *)
(***************************************************************************)
Recorded(o) == /\ order[o].status = "NONE" => task[o] = "none"
               /\ (order[o].status # "NONE" /\ order[o].type = "LIMIT")
                    => order[o].limit \in Prices

LockInv == SettlementInv /\ LockedIsReserved /\ \A o \in Orders : Recorded(o)

QtyTable == [o \in Orders |-> QtyOf(o)]

ValueTable == [o \in Orders |-> ValueAtLimit(o)]

\* What the orders of a side have reserved, less what is released twice.
Net(g, side) == Total(g, Having(side, "NEW")) - Total(g, Raced(side))

\* The orders with a side and a status are finitely many.
LEMMA FinitelyMany ==
    ASSUME NEW side, NEW status
    PROVE  IsFiniteSet(Having(side, status)) /\ IsFiniteSet(Raced(side))
<1>1. Having(side, status) \subseteq Orders /\ Raced(side) \subseteq Orders
  BY DEF Having, Raced
<1> QED
  BY <1>1, OrdersAssumption, FS_Subset

\* The sum of the quantities of some orders is their total in the table.
LEMMA QtySum ==
    ASSUME NEW S \in SUBSET Orders
    PROVE  MapThenSumSet(QtyOf, S) = Total(QtyTable, S)
<1> DEFINE Eq(it) == it = [s \in SUBSET S |-> IF s = {} THEN 0
                             ELSE QtyOf(CHOOSE x \in s : TRUE) + it[s \ {CHOOSE x \in s : TRUE}]]
<1>1. IsFiniteSet(S)
  BY OrdersAssumption, FS_Subset
<1>2. ASSUME NEW it PROVE Eq(it) <=> Adds(QtyTable, S, it)
  <2>1. ASSUME NEW s \in SUBSET S, s # {}
        PROVE  QtyTable[One(s)] = QtyOf(CHOOSE x \in s : TRUE)
    BY <1>1, <2>1 DEF One, QtyTable
  <2> QED
    BY <2>1 DEF Adds, One
<1>3. \E it : Eq(it)
  <2> HIDE DEF Eq
  <2> QED
    BY <1>1, <1>2, AddsExists
<1>4. \E it : Eq(it) /\ MapThenSumSet(QtyOf, S) = it[S]
  BY <1>3 DEF MapThenSumSet, MapThenFoldSet
<1> HIDE DEF Eq
<1> QED
  BY <1>1, <1>2, <1>4, TotalIsAdded, S \in SUBSET S

\* The sum of the values at the limit of some orders is their total in the table.
LEMMA ValueSum ==
    ASSUME NEW S \in SUBSET Orders
    PROVE  MapThenSumSet(ValueAtLimit, S) = Total(ValueTable, S)
<1> DEFINE Eq(it) == it = [s \in SUBSET S |-> IF s = {} THEN 0
                             ELSE ValueAtLimit(CHOOSE x \in s : TRUE) + it[s \ {CHOOSE x \in s : TRUE}]]
<1>1. IsFiniteSet(S)
  BY OrdersAssumption, FS_Subset
<1>2. ASSUME NEW it PROVE Eq(it) <=> Adds(ValueTable, S, it)
  <2>1. ASSUME NEW s \in SUBSET S, s # {}
        PROVE  ValueTable[One(s)] = ValueAtLimit(CHOOSE x \in s : TRUE)
    BY <1>1, <2>1 DEF One, ValueTable
  <2> QED
    BY <2>1 DEF Adds, One
<1>3. \E it : Eq(it)
  <2> HIDE DEF Eq
  <2> QED
    BY <1>1, <1>2, AddsExists
<1>4. \E it : Eq(it) /\ MapThenSumSet(ValueAtLimit, S) = it[S]
  BY <1>3 DEF MapThenSumSet, MapThenFoldSet
<1> HIDE DEF Eq
<1> QED
  BY <1>1, <1>2, <1>4, TotalIsAdded, S \in SUBSET S

OnlyLimitBuys == \A o \in Orders : order[o].side = "BUY" =>
                    order[o].type = "LIMIT" \/ order[o].status = "NONE"

IsNet == /\ baseLocked = Net(QtyTable, "SELL")
         /\ OnlyLimitBuys => quoteLocked = Net(ValueTable, "BUY")

\* The property in terms of the totals.
LEMMA LockedIsNet == LockedIsReserved <=> IsNet
<1>1. /\ Having("SELL", "NEW") \in SUBSET Orders /\ Raced("SELL") \in SUBSET Orders
      /\ Having("BUY", "NEW") \in SUBSET Orders /\ Raced("BUY") \in SUBSET Orders
  BY DEF Having, Raced
<1> QED
  BY <1>1, QtySum, ValueSum DEF LockedIsReserved, Net, OnlyLimitBuys, IsNet

\* ... and in the next state.
LEMMA LockedIsNetNext == LockedIsReserved' <=> IsNet'
BY LockedIsNet, PTL

TablesInt == \A i \in Orders : QtyTable[i] \in Int /\ ValueTable[i] \in Int

\* The summands are integers.
LEMMA TablesAreInt == TypeOK => TablesInt
<1> SUFFICES ASSUME TypeOK, NEW i \in Orders PROVE QtyTable[i] \in Int /\ ValueTable[i] \in Int
  BY DEF TablesInt
<1>1. order[i].qty \in Qtys \cup {0} /\ order[i].limit \in Prices \cup {0}
  BY ClosedTypes
<1>2. order[i].qty \in Nat /\ order[i].limit \in Nat
  BY <1>1, QtyIsNat, LimitIsNat
<1>3. order[i].qty * order[i].limit \in Nat
  BY <1>2, ProductIsNat
<1> QED
  BY <1>2, <1>3 DEF QtyTable, ValueTable, QtyOf, ValueAtLimit

\* ... and in the next state.
LEMMA TablesAreIntNext == TypeOK' => TablesInt'
BY TablesAreInt, PTL

\* What a side's sums become is what the totals of the sets after the step say.
NetAfter(h, side) == Total(h, Having(side, "NEW")') - Total(h, Raced(side)')

\* A placed order is added to the open ones of its side.
LEMMA NetPlaced ==
    ASSUME NEW o \in Orders, \A i \in Orders : i # o => order'[i] = order[i],
           order[o].status = "NONE", order'[o].status = "NEW", late' = late,
           NEW g, NEW h, \A i \in Orders : g[i] \in Int /\ h[i] \in Int,
           \A i \in Orders : i # o => h[i] = g[i],
           NEW side
    PROVE  NetAfter(h, side) = Net(g, side) + (IF order'[o].side = side THEN h[o] ELSE 0)
<1> DEFINE A == Having(side, "NEW")
           B == Raced(side)
<1>1. o \notin A /\ o \notin B /\ A \subseteq Orders /\ B \subseteq Orders
  BY DEF Having, Raced
<1>2. Having(side, "NEW")' = IF order'[o].side = side THEN A \cup {o} ELSE A
  BY DEF Having
<1>3. Raced(side)' = B
  BY DEF Having, Raced
<1>4. IsFiniteSet(A) /\ IsFiniteSet(B)
  BY FinitelyMany
<1>5. Total(g, A) \in Int /\ Total(g, B) \in Int
  BY <1>1, <1>4, TotalIsInt
<1>6. Total(h, A) = Total(g, A) /\ Total(h, B) = Total(g, B)
  BY <1>1, <1>4, TotalSame
<1>7. Total(h, A \cup {o}) = h[o] + Total(g, A)
  BY <1>1, <1>4, TotalWith
<1>8. h[o] \in Int
  OBVIOUS
<1> HIDE DEF A, B
<1>9. CASE order'[o].side = side
  <2>1. NetAfter(h, side) = (h[o] + Total(g, A)) - Total(g, B)
    BY <1>2, <1>3, <1>6, <1>7, <1>9 DEF NetAfter
  <2>2. Net(g, side) = Total(g, A) - Total(g, B)
    BY DEF Net, A, B
  <2> QED
    BY <1>5, <1>8, <1>9, <2>1, <2>2
<1>10. CASE order'[o].side # side
  <2>1. NetAfter(h, side) = Total(g, A) - Total(g, B)
    BY <1>2, <1>3, <1>6, <1>10 DEF NetAfter
  <2>2. Net(g, side) = Total(g, A) - Total(g, B)
    BY DEF Net, A, B
  <2> QED
    BY <1>5, <1>10, <2>1, <2>2
<1> QED
  BY <1>9, <1>10

\* An order that is closed, by a cancel or by a fill, leaves the open ones of
\* its side, or joins the ones that are released twice.
LEMMA NetClosed ==
    ASSUME NEW o \in Orders, \A i \in Orders : i # o => order'[i] = order[i],
           order'[o].side = order[o].side,
           \/ /\ order[o].status = "NEW" /\ o \notin late
              /\ order'[o].status = "CANCELED" /\ late' \in {late, late \cup {o}}
           \/ /\ order[o].status = "NEW" /\ o \notin late
              /\ order'[o].status = "FILLED" /\ late' = late
           \/ /\ order[o].status = "CANCELED" /\ o \in late
              /\ order'[o].status = "FILLED" /\ late' = late,
           NEW g, \A i \in Orders : g[i] \in Int,
           NEW side
    PROVE  NetAfter(g, side) = Net(g, side) - (IF order[o].side = side THEN g[o] ELSE 0)
<1> DEFINE A == Having(side, "NEW")
           B == Raced(side)
<1>1. A \subseteq Orders /\ B \subseteq Orders
  BY DEF Having, Raced
<1>2. IsFiniteSet(A) /\ IsFiniteSet(B)
  BY FinitelyMany
<1>3. Total(g, A) \in Int /\ Total(g, B) \in Int /\ g[o] \in Int
  BY <1>1, <1>2, TotalIsInt
<1>4. CASE order[o].side # side
  <2>1. Having(side, "NEW")' = A /\ Raced(side)' = B
    BY <1>4 DEF Having, Raced
  <2> QED
    BY <1>3, <1>4, <2>1 DEF Net, NetAfter
<1>5. CASE order[o].side = side /\ order[o].status = "NEW"
  <2>1. o \in A /\ o \notin late
    BY <1>5 DEF Having
  <2>2. Having(side, "NEW")' = A \ {o} /\ Raced(side)' = B
    BY <1>5, <2>1 DEF Having, Raced
  <2>3. Total(g, A) = g[o] + Total(g, A \ {o})
    BY <1>1, <1>2, <2>1, TotalWithout
  <2>4. IsFiniteSet(A \ {o}) /\ \A i \in A \ {o} : g[i] \in Int
    BY <1>1, <1>2, FS_Subset
  <2>5. Total(g, A \ {o}) \in Int
    BY <2>4, TotalIsInt
  <2>6. NetAfter(g, side) = Total(g, A \ {o}) - Total(g, B)
    BY <2>2 DEF NetAfter
  <2>7. Net(g, side) = Total(g, A) - Total(g, B)
    BY DEF Net
  <2> HIDE DEF A, B
  <2> QED
    BY <1>3, <1>5, <2>3, <2>5, <2>6, <2>7
<1>6. CASE order[o].side = side /\ order[o].status = "CANCELED"
  <2>1. o \in late /\ o \notin A /\ o \notin B /\ order'[o].status = "FILLED"
    BY <1>6 DEF Having, Raced
  <2>2. Having(side, "NEW")' = A /\ Raced(side)' = B \cup {o}
    BY <1>6, <2>1 DEF Having, Raced
  <2>3. Total(g, B \cup {o}) = g[o] + Total(g, B)
    BY <1>1, <1>2, <1>3, <2>1, TotalWith
  <2>4. NetAfter(g, side) = Total(g, A) - Total(g, B \cup {o})
    BY <2>2 DEF NetAfter
  <2>5. Net(g, side) = Total(g, A) - Total(g, B)
    BY DEF Net
  <2> HIDE DEF A, B
  <2> QED
    BY <1>3, <1>6, <2>3, <2>4, <2>5
<1> QED
  BY <1>4, <1>5, <1>6

\* Placing an order locks what it adds to its side's sum.
LEMMA PlaceLocks ==
    ASSUME LockInv, TypeOK', NEW o \in Orders, PlaceBuy(o) \/ PlaceSell(o)
    PROVE  IsNet'
<1>1. TypeOK /\ IsNet /\ TablesInt /\ TablesInt'
  BY LockedIsNet, TablesAreInt, TablesAreIntNext DEF LockInv, SettlementInv
<1>2. order \in [Orders -> OrderRecords] /\ order[o].status = "NONE" /\ late' = late
  BY <1>1 DEF TypeOK, PlaceBuy, PlaceSell
<1>3. /\ baseLocked \in Int /\ quoteLocked \in Int
      /\ \A i \in Orders : QtyTable[i] \in Int /\ QtyTable'[i] \in Int
      /\ \A i \in Orders : ValueTable[i] \in Int /\ ValueTable'[i] \in Int
  BY <1>1 DEF TypeOK, TablesInt
<1>4. ASSUME NEW r, order' = [order EXCEPT ![o] = r], r.status = "NEW", NEW side
      PROVE  /\ NetAfter(QtyTable', side)
                  = Net(QtyTable, side) + (IF r.side = side THEN QtyTable'[o] ELSE 0)
             /\ NetAfter(ValueTable', side)
                  = Net(ValueTable, side) + (IF r.side = side THEN ValueTable'[o] ELSE 0)
  <2>1. /\ order'[o] = r /\ order'[o].status = "NEW"
        /\ \A i \in Orders : i # o => order'[i] = order[i]
    BY <1>2, <1>4
  <2>2. \A i \in Orders : i # o => QtyTable'[i] = QtyTable[i] /\ ValueTable'[i] = ValueTable[i]
    BY <1>2, <1>4 DEF QtyTable, ValueTable, QtyOf, ValueAtLimit
  <2>3. NetAfter(QtyTable', side)
           = Net(QtyTable, side) + (IF r.side = side THEN QtyTable'[o] ELSE 0)
    <3>1. PICK g, h : g = QtyTable /\ h = QtyTable'
      OBVIOUS
    <3>2. \A i \in Orders : g[i] \in Int /\ h[i] \in Int
      BY <1>3, <3>1
    <3>3. \A i \in Orders : i # o => h[i] = g[i]
      BY <2>2, <3>1
    <3>4. NetAfter(h, side) = Net(g, side) + (IF order'[o].side = side THEN h[o] ELSE 0)
      BY <1>2, <2>1, <3>2, <3>3, NetPlaced
    <3> QED
      BY <2>1, <3>1, <3>4
  <2>4. NetAfter(ValueTable', side)
           = Net(ValueTable, side) + (IF r.side = side THEN ValueTable'[o] ELSE 0)
    <3>1. PICK g, h : g = ValueTable /\ h = ValueTable'
      OBVIOUS
    <3>2. \A i \in Orders : g[i] \in Int /\ h[i] \in Int
      BY <1>3, <3>1
    <3>3. \A i \in Orders : i # o => h[i] = g[i]
      BY <2>2, <3>1
    <3>4. NetAfter(h, side) = Net(g, side) + (IF order'[o].side = side THEN h[o] ELSE 0)
      BY <1>2, <2>1, <3>2, <3>3, NetPlaced
    <3> QED
      BY <2>1, <3>1, <3>4
  <2> QED
    BY <2>3, <2>4
<1>5. OnlyLimitBuys' => OnlyLimitBuys
  <2> SUFFICES ASSUME OnlyLimitBuys', NEW i \in Orders, order[i].side = "BUY"
               PROVE  order[i].type = "LIMIT" \/ order[i].status = "NONE"
    BY DEF OnlyLimitBuys
  <2>1. i # o => order'[i] = order[i]
    BY <1>2 DEF PlaceBuy, PlaceSell, Opened
  <2> QED
    BY <1>2, <2>1 DEF OnlyLimitBuys
<1>6. /\ Net(QtyTable, "SELL")' = NetAfter(QtyTable', "SELL")
      /\ Net(ValueTable, "BUY")' = NetAfter(ValueTable', "BUY")
  BY DEF Net, NetAfter
<1>7. CASE PlaceBuy(o)
  <2>1. PICK q \in Qtys, terms \in Terms, p \in Prices :
          /\ quoteLocked' = quoteLocked + Reserved(q, terms.limit, p)
          /\ Opened(o, "BUY", q, terms)
          /\ baseLocked' = baseLocked
    BY <1>7 DEF PlaceBuy
  <2> DEFINE r == New("BUY", q, terms)
  <2>2. /\ order' = [order EXCEPT ![o] = r] /\ order'[o] = r
        /\ r.status = "NEW" /\ r.side = "BUY" /\ r.type = terms.type
        /\ r.qty = q /\ r.limit = terms.limit
    BY <1>2, <2>1 DEF Opened, New
  <2> HIDE DEF r
  <2>3. NetAfter(QtyTable', "SELL") = Net(QtyTable, "SELL") + 0
    BY <1>4, <2>2
  <2>4. baseLocked' = Net(QtyTable, "SELL")'
    BY <1>1, <1>3, <1>6, <2>1, <2>3 DEF IsNet
  <2>5. ASSUME OnlyLimitBuys' PROVE quoteLocked' = Net(ValueTable, "BUY")'
    <3>1. terms.type = "LIMIT"
      BY <2>2, <2>5 DEF OnlyLimitBuys
    <3>2. terms.limit \in Prices /\ terms.limit # 0
      BY <3>1, PricesAssumption DEF Terms
    <3>3. Reserved(q, terms.limit, p) = ValueTable'[o]
      BY <2>2, <3>2 DEF Reserved, ValueTable, ValueAtLimit
    <3>4. NetAfter(ValueTable', "BUY") = Net(ValueTable, "BUY") + ValueTable'[o]
      BY <1>4, <2>2
    <3>5. quoteLocked = Net(ValueTable, "BUY")
      BY <1>1, <1>5, <2>5 DEF IsNet
    <3> QED
      BY <1>6, <2>1, <3>3, <3>4, <3>5
  <2> QED
    BY <2>4, <2>5 DEF IsNet
<1>8. CASE PlaceSell(o)
  <2>1. PICK q \in Qtys, terms \in Terms :
          /\ baseLocked' = baseLocked + q
          /\ Opened(o, "SELL", q, terms)
          /\ quoteLocked' = quoteLocked
    BY <1>8 DEF PlaceSell
  <2> DEFINE r == New("SELL", q, terms)
  <2>2. /\ order' = [order EXCEPT ![o] = r] /\ order'[o] = r
        /\ r.status = "NEW" /\ r.side = "SELL" /\ r.qty = q
    BY <1>2, <2>1 DEF Opened, New
  <2> HIDE DEF r
  <2>3. QtyTable'[o] = q
    BY <2>2 DEF QtyTable, QtyOf
  <2>4. NetAfter(QtyTable', "SELL") = Net(QtyTable, "SELL") + q
    BY <1>4, <2>2, <2>3
  <2>5. baseLocked' = Net(QtyTable, "SELL")'
    BY <1>1, <1>6, <2>1, <2>4 DEF IsNet
  <2>6. NetAfter(ValueTable', "BUY") = Net(ValueTable, "BUY") + 0
    BY <1>4, <2>2
  <2>7. OnlyLimitBuys' => quoteLocked' = Net(ValueTable, "BUY")'
    BY <1>1, <1>3, <1>5, <1>6, <2>1, <2>6 DEF IsNet
  <2> QED
    BY <2>5, <2>7 DEF IsNet
<1> QED
  BY <1>7, <1>8

\* A fill or a cancel of an order that was placed closes it.
Closes(o) ==
    \/ /\ order[o].status = "NEW" /\ o \notin late
       /\ order'[o].status = "CANCELED" /\ late' \in {late, late \cup {o}}
    \/ /\ order[o].status = "NEW" /\ o \notin late
       /\ order'[o].status = "FILLED" /\ late' = late
    \/ /\ order[o].status = "CANCELED" /\ o \in late
       /\ order'[o].status = "FILLED" /\ late' = late

\* Fills meet an open order or one that a late cancel has closed; cancels an
\* open one.
LEMMA ClosesOrder ==
    ASSUME LockInv, NEW o \in Orders, FillBuy(o) \/ FillSell(o) \/ CancelBuy(o) \/ CancelSell(o)
    PROVE  /\ Closes(o)
           /\ order' \in {[order EXCEPT ![o] = Filled(o)], [order EXCEPT ![o] = Canceled(o)]}
<1>1. /\ order \in [Orders -> OrderRecords] /\ Pending(o) /\ Recorded(o)
      /\ o \in late => order[o].status \in {"CANCELED", "FILLED"}
      /\ (order[o].status = "CANCELED" /\ task[o] = "filling") => o \in late
  BY DEF LockInv, SettlementInv, TypeOK, OnlyLateCancelsFail
<1>2. Filled(o).status = "FILLED" /\ Canceled(o).status = "CANCELED"
  BY DEF Filled, Canceled
<1>3. CASE FillBuy(o) \/ FillSell(o)
  <2>1. task[o] = "filling" /\ order' = [order EXCEPT ![o] = Filled(o)] /\ late' = late
    BY <1>3 DEF FillBuy, FillSell, Settles
  <2>2. order[o].status \in {"NEW", "CANCELED"}
    BY <1>1, <2>1 DEF Pending, Recorded, OrderRecords
  <2>3. order'[o].status = "FILLED"
    BY <1>1, <1>2, <2>1
  <2> QED
    BY <1>1, <2>1, <2>2, <2>3 DEF Closes
<1>4. CASE CancelBuy(o) \/ CancelSell(o)
  <2>1. /\ order[o].status = "NEW" /\ order' = [order EXCEPT ![o] = Canceled(o)]
        /\ late' \in {late, late \cup {o}}
    BY <1>4 DEF CancelBuy, CancelSell, Withdraws, StillOpen
  <2>2. order'[o].status = "CANCELED"
    BY <1>1, <1>2, <2>1
  <2> QED
    BY <1>1, <2>1, <2>2 DEF Closes
<1> QED
  BY <1>3, <1>4

\* Closing an order releases what its side's sum loses.
LEMMA CloseLocks ==
    ASSUME LockInv, NEW o \in Orders, FillBuy(o) \/ FillSell(o) \/ CancelBuy(o) \/ CancelSell(o)
    PROVE  IsNet'
<1>1. TypeOK /\ IsNet /\ TablesInt
  BY LockedIsNet, TablesAreInt DEF LockInv, SettlementInv
<1>2. /\ baseLocked \in Int /\ quoteLocked \in Int
      /\ QtyTable[o] = order[o].qty /\ ValueTable[o] = order[o].qty * order[o].limit
      /\ order[o].limit \in Prices \cup {0}
  BY <1>1, ClosedTypes DEF TypeOK, QtyTable, ValueTable, QtyOf, ValueAtLimit
<1>3. /\ Closes(o)
      /\ \A i \in Orders : i # o => order'[i] = order[i]
      /\ \A i \in Orders : /\ order'[i].side = order[i].side /\ order'[i].type = order[i].type
                           /\ order'[i].qty = order[i].qty /\ order'[i].limit = order[i].limit
  BY <1>1, ClosesOrder DEF TypeOK, Filled, Canceled
<1>4. QtyTable' = QtyTable /\ ValueTable' = ValueTable
  BY <1>3 DEF QtyTable, ValueTable, QtyOf, ValueAtLimit
<1>5. ASSUME NEW g, \A i \in Orders : g[i] \in Int, NEW side
      PROVE  NetAfter(g, side) = Net(g, side) - (IF order[o].side = side THEN g[o] ELSE 0)
  BY <1>3, <1>5, NetClosed DEF Closes
<1>6. /\ Net(QtyTable, "SELL")'
            = Net(QtyTable, "SELL") - (IF order[o].side = "SELL" THEN QtyTable[o] ELSE 0)
      /\ Net(ValueTable, "BUY")'
            = Net(ValueTable, "BUY") - (IF order[o].side = "BUY" THEN ValueTable[o] ELSE 0)
  <2>1. /\ Net(QtyTable, "SELL")' = NetAfter(QtyTable, "SELL")
        /\ Net(ValueTable, "BUY")' = NetAfter(ValueTable, "BUY")
    BY <1>4 DEF Net, NetAfter
  <2> QED
    BY <1>1, <1>5, <2>1 DEF TablesInt
<1>7. OnlyLimitBuys' => OnlyLimitBuys /\ (order[o].side = "BUY" => order[o].limit \in Prices)
  <2>1. order[o].status # "NONE" /\ order'[o].status # "NONE" /\ Recorded(o)
    BY <1>3 DEF Closes, LockInv
  <2>2. OnlyLimitBuys' => OnlyLimitBuys
    <3> SUFFICES ASSUME OnlyLimitBuys', NEW i \in Orders, order[i].side = "BUY"
                 PROVE  order[i].type = "LIMIT" \/ order[i].status = "NONE"
      BY DEF OnlyLimitBuys
    <3> QED
      BY <1>3, <2>1 DEF OnlyLimitBuys
  <2> QED
    BY <2>1, <2>2 DEF OnlyLimitBuys, Recorded
<1>8. CASE FillBuy(o) \/ CancelBuy(o)
  <2>1. PICK p \in Prices :
          /\ order[o].side = "BUY" /\ baseLocked' = baseLocked
          /\ quoteLocked' = quoteLocked - Reserved(order[o].qty, order[o].limit, p)
    BY <1>8 DEF FillBuy, CancelBuy, Settles, Withdraws
  <2>2. baseLocked' = Net(QtyTable, "SELL")'
    BY <1>1, <1>2, <1>6, <2>1 DEF IsNet
  <2>3. ASSUME OnlyLimitBuys' PROVE quoteLocked' = Net(ValueTable, "BUY")'
    <3>1. Reserved(order[o].qty, order[o].limit, p) = ValueTable[o]
      BY <1>2, <1>7, <2>1, <2>3, PricesAssumption DEF Reserved
    <3> QED
      BY <1>1, <1>6, <1>7, <2>1, <2>3, <3>1 DEF IsNet
  <2> QED
    BY <2>2, <2>3 DEF IsNet
<1>9. CASE FillSell(o) \/ CancelSell(o)
  <2>1. /\ order[o].side = "SELL" /\ baseLocked' = baseLocked - order[o].qty
        /\ quoteLocked' = quoteLocked
    BY <1>9 DEF FillSell, CancelSell, Settles, Withdraws
  <2>2. baseLocked' = Net(QtyTable, "SELL")'
    BY <1>1, <1>2, <1>6, <2>1 DEF IsNet
  <2>3. OnlyLimitBuys' => quoteLocked' = Net(ValueTable, "BUY")'
    BY <1>1, <1>2, <1>6, <1>7, <2>1 DEF IsNet
  <2> QED
    BY <2>2, <2>3 DEF IsNet
<1> QED
  BY <1>8, <1>9

\* What every step records about an order is enough for the next one.
LEMMA EvolvesKeepsRecorded ==
    ASSUME SettlementInv, NEW o \in Orders, Evolves(o), \A i \in Orders : Recorded(i),
           order[o].status = "NONE" /\ order'[o].status # "NONE" =>
              (order'[o].type = "LIMIT" => order'[o].limit \in Prices)
    PROVE  \A i \in Orders : Recorded(i)'
<1> SUFFICES ASSUME NEW i \in Orders PROVE Recorded(i)'
  OBVIOUS
<1>1. /\ Recorded(i) /\ Recorded(o) /\ order \in [Orders -> OrderRecords]
      /\ task \in [Orders -> {"none", "waiting", "filling", "ended"}]
  BY DEF SettlementInv, TypeOK
<1>2. CASE i # o
  BY <1>1, <1>2 DEF Evolves, Recorded
<1>3. CASE i = o
  <2>1. /\ Filled(o).status = "FILLED" /\ Filled(o).limit = order[o].limit /\ Filled(o).type = order[o].type
        /\ Canceled(o).status = "CANCELED" /\ Canceled(o).limit = order[o].limit
        /\ Canceled(o).type = order[o].type
    BY DEF Filled, Canceled
  <2> QED
    BY <1>1, <1>3, <2>1 DEF Evolves, Recorded
<1> QED
  BY <1>2, <1>3

\* Every step keeps what is locked, and what the next step needs to know.
LEMMA StepLocks ==
    ASSUME LockInv, TypeOK', NEW o \in Orders,
           \/ PlaceBuy(o) \/ PlaceSell(o)
           \/ LimitWakes(o)
           \/ FillBuy(o) \/ FillSell(o)
           \/ Abandon(o)
           \/ CancelBuy(o) \/ CancelSell(o)
    PROVE  LockedIsReserved' /\ \A i \in Orders : Recorded(i)'
<1>1. SettlementInv /\ TypeOK /\ \A i \in Orders : Recorded(i)
  BY DEF LockInv, SettlementInv
<1>2. CASE PlaceBuy(o) \/ PlaceSell(o)
  <2>1. PICK side \in {"BUY", "SELL"}, q \in Qtys, terms \in Terms :
          Opened(o, side, q, terms)
    BY <1>2 DEF PlaceBuy, PlaceSell
  <2>2. order[o].status = "NONE" /\ late' = late
    BY <1>2 DEF PlaceBuy, PlaceSell
  <2>3. Evolves(o)
    BY <2>1, <2>2, OpenedEvolves
  <2>4. order'[o].type = terms.type /\ order'[o].limit = terms.limit
    BY <1>1, <2>1 DEF TypeOK, Opened, New
  <2>5. terms.type = "LIMIT" => terms.limit \in Prices
    BY DEF Terms
  <2> QED
    BY <1>1, <1>2, <2>3, <2>4, <2>5, PlaceLocks, LockedIsNetNext, EvolvesKeepsRecorded
<1>3. CASE FillBuy(o) \/ FillSell(o) \/ CancelBuy(o) \/ CancelSell(o)
  <2>1. Evolves(o)
    BY <1>3 DEF FillBuy, FillSell, Settles, CancelBuy, CancelSell, Withdraws, StillOpen, Evolves
  <2>2. order[o].status # "NONE"
    BY <1>3, ClosesOrder DEF Closes
  <2> QED
    BY <1>1, <1>3, <2>1, <2>2, CloseLocks, LockedIsNetNext, EvolvesKeepsRecorded
<1>4. CASE LimitWakes(o) \/ Abandon(o)
  <2>1. Evolves(o)
    BY <1>4 DEF LimitWakes, Abandon, StillOpen, Evolves
  <2>2. order' = order /\ late' = late /\ UNCHANGED balances
    BY <1>4 DEF LimitWakes, Abandon
  <2>3. LockedIsReserved'
    <3>1. IsNet
      BY LockedIsNet DEF LockInv
    <3>2. IsNet'
      BY <2>2, <3>1 DEF IsNet, Net, QtyTable, ValueTable, QtyOf, ValueAtLimit, Having, Raced,
                        OnlyLimitBuys, balances
    <3> QED
      BY <3>2, LockedIsNetNext
  <2> QED
    BY <1>1, <2>1, <2>2, <2>3, EvolvesKeepsRecorded
<1> QED
  BY <1>2, <1>3, <1>4

\* Before the first order nothing is locked and nothing is reserved.
LEMMA NothingLocked ==
    ASSUME Init
    PROVE  LockedIsReserved /\ \A i \in Orders : Recorded(i)
<1>1. \A i \in Orders : order[i].status = "NONE" /\ task[i] = "none"
  BY DEF Init, NoOrder
<1>2. \A side : Having(side, "NEW") = {} /\ Raced(side) = {}
  BY <1>1 DEF Having, Raced
<1>3. IsFiniteSet({})
  BY FS_EmptySet
<1>4. \A g, side : Total(g, Having(side, "NEW")) = 0 /\ Total(g, Raced(side)) = 0
  BY <1>2, <1>3, TotalAt
<1>5. IsNet
  BY <1>4 DEF Init, IsNet, Net
<1> QED
  BY <1>1, <1>5, LockedIsNet DEF Recorded

\* The invariant behind what is locked holds in every reachable state.
THEOREM Locks == Spec => []LockInv
<1>1. ASSUME Init, SettlementInv PROVE LockInv
  BY <1>1, NothingLocked DEF LockInv
<1>2. ASSUME LockInv, SettlementInv', [Next]_vars PROVE LockInv'
  <2>1. TypeOK'
    BY <1>2 DEF SettlementInv
  <2>2. CASE UNCHANGED vars
    <3>1. IsNet
      BY <1>2, LockedIsNet DEF LockInv
    <3>2. IsNet'
      BY <2>2, <3>1 DEF IsNet, Net, QtyTable, ValueTable, QtyOf, ValueAtLimit, Having, Raced,
                        OnlyLimitBuys, vars, balances
    <3>3. \A i \in Orders : Recorded(i)'
      BY <1>2, <2>2 DEF LockInv, Recorded, vars
    <3> QED
      BY <1>2, <3>2, <3>3, LockedIsNetNext DEF LockInv
  <2>3. CASE Next
    <3>1. PICK o \in Orders :
            \/ PlaceBuy(o) \/ PlaceSell(o)
            \/ LimitWakes(o)
            \/ FillBuy(o) \/ FillSell(o)
            \/ Abandon(o)
            \/ CancelBuy(o) \/ CancelSell(o)
      BY <2>3 DEF Next
    <3>2. LockedIsReserved' /\ \A i \in Orders : Recorded(i)'
      BY <1>2, <2>1, <3>1, StepLocks
    <3> QED
      BY <1>2, <3>2 DEF LockInv
  <2> QED
    BY <1>2, <2>2, <2>3
<1> QED
  BY <1>1, <1>2, Settlement, PTL DEF Spec

\* What is locked is what the open orders have reserved, less what was released
\* twice, for any finite number of orders.
THEOREM LockedFunds == Spec => []LockedIsReserved
<1>1. LockInv => LockedIsReserved
  BY DEF LockInv
<1> QED
  BY <1>1, Locks, PTL

-----------------------------------------------------------------------------
(***************************************************************************)
(* Inventory.  What the tasks have written so far is a table of amounts,   *)
(* and of any such table the views agree.                                  *)
(***************************************************************************)
Table == [Places -> [DOMAIN Assets -> (1..MaxHeld) \cup {None}]]

\* There are finitely many exchanges and assets.
LEMMA FinitePlaces ==
    /\ IsFiniteSet(Places) /\ IsFiniteSet(DOMAIN Assets)
    /\ Len(Exchanges) \in Nat /\ Places = 1..Len(Exchanges) /\ 1 \in Places
    /\ Len(Assets) \in Nat /\ DOMAIN Assets = 1..Len(Assets) /\ 1 \in DOMAIN Assets
<1>1. Len(Exchanges) \in Nat /\ DOMAIN Exchanges = 1..Len(Exchanges) /\ Len(Exchanges) # 0
  BY InventoryAssumption
<1>2. Len(Assets) \in Nat /\ DOMAIN Assets = 1..Len(Assets) /\ Len(Assets) # 0
  BY InventoryAssumption
<1>3. \A n \in Nat : IsFiniteSet(1..n)
  BY FS_Interval
<1> QED
  BY <1>1, <1>2, <1>3 DEF Places

\* An entry, and what it counts for.
LEMMA EntryTypes ==
    ASSUME NEW t \in Table, NEW e \in Places, NEW a \in DOMAIN Assets
    PROVE  /\ AmountIn(t, e, a) \in Nat
           /\ e \in Holders(t, a) => t[e][a] \in Nat /\ AmountIn(t, e, a) = t[e][a]
           /\ e \notin Holders(t, a) => AmountIn(t, e, a) = 0
<1>1. MaxHeld \in Nat
  BY InventoryAssumption
<1>2. t[e][a] \in (1..MaxHeld) \cup {None} /\ DOMAIN t = Places
  BY DEF Table
<1> QED
  BY <1>1, <1>2 DEF AmountIn, Holders

\* The exchanges that hold an asset are finitely many, and what they hold is a number.
LEMMA HoldersTypes ==
    ASSUME NEW t \in Table, NEW a \in DOMAIN Assets
    PROVE  /\ Holders(t, a) \subseteq Places /\ IsFiniteSet(Holders(t, a))
           /\ \A e \in Holders(t, a) : t[e][a] \in Nat
<1>1. Holders(t, a) \subseteq Places
  BY DEF Holders, Table
<1>2. IsFiniteSet(Holders(t, a))
  BY <1>1, FinitePlaces, FS_Subset
<1> QED
  BY <1>1, <1>2, EntryTypes

\* What one unit of an asset is worth.
Worth(asset) ==
    CASE asset \in Stablecoins -> 1
      [] asset \notin Stablecoins /\ UsdtPrice[asset] > 0 -> UsdtPrice[asset]
      [] OTHER -> BtcPrice[asset] * Bitcoin

\* A value is a multiple of what one unit is worth.
LEMMA ValueIsProduct ==
    ASSUME NEW a \in DOMAIN Assets, NEW n \in Nat
    PROVE  /\ Worth(Assets[a]) \in Nat
           /\ UsdValue(Assets[a], n) = Worth(Assets[a]) * n
           /\ UsdValue(Assets[a], n) \in Nat
<1> DEFINE s == Assets[a]
<1>1. CASE s \in Stablecoins
  BY <1>1 DEF Worth, UsdValue
<1>2. CASE s \notin Stablecoins
  <2>1. s \in Range(Assets)
    BY DEF Range
  <2>2. UsdtPrice[s] \in Nat /\ BtcPrice[s] \in Nat /\ Bitcoin \in Nat
    BY <1>2, <2>1, InventoryAssumption
  <2>3. \A i, j \in Nat : i * j \in Nat /\ i * j = j * i
    OBVIOUS
  <2>4. \A i, j, k \in Nat : (i * j) * k = (j * k) * i
    BY SMTT(30)
  <2> HIDE DEF s
  <2>5. CASE UsdtPrice[s] > 0
    BY <1>2, <2>2, <2>3, <2>5 DEF Worth, UsdValue, s
  <2>6. CASE ~(UsdtPrice[s] > 0)
    <3>1. Worth(s) = BtcPrice[s] * Bitcoin /\ UsdValue(s, n) = n * BtcPrice[s] * Bitcoin
      BY <1>2, <2>6 DEF Worth, UsdValue
    <3> QED
      BY <2>2, <2>3, <2>4, <3>1 DEF s
  <2> QED
    BY <2>5, <2>6
<1> QED
  BY <1>1, <1>2

\* What is held of an asset is the total of its amounts on all exchanges.
LEMMA HeldIsTotal ==
    ASSUME NEW t \in Table, NEW a \in DOMAIN Assets
    PROVE  /\ Held(t, a) = Total([e \in Places |-> AmountIn(t, e, a)], Places)
           /\ Held(t, a) = Total([e \in Holders(t, a) |-> t[e][a]], Holders(t, a))
           /\ Held(t, a) \in Nat
<1> DEFINE H == Holders(t, a)
           h == [e \in H |-> t[e][a]]
           g == [e \in Places |-> AmountIn(t, e, a)]
<1>1. IsFiniteSet(H) /\ H \subseteq Places
  BY HoldersTypes
<1>2. Held(t, a) = Total(h, H)
  <2>1. DOMAIN h = H
    OBVIOUS
  <2>2. Held(t, a) = SumFunction(h)
    BY DEF Held
  <2> HIDE DEF h, H
  <2> QED
    BY <1>1, <2>1, <2>2, SumIsTotal
<1>3. \A e \in Places : g[e] \in Nat /\ (e \notin H => g[e] = 0) /\ (e \in H => h[e] = g[e])
  BY EntryTypes
<1> HIDE DEF g, h, H
<1>4. Total(g, H) = Total(h, H)
  BY <1>1, <1>3, TotalSame
<1>5. Total(g, Places) = Total(g, H)
  <2>1. /\ \A e \in Places : g[e] \in Int
        /\ \A e \in Places \ H : g[e] = 0
    BY <1>3
  <2> QED
    BY <1>1, <2>1, FinitePlaces, TotalSupport
<1>6. Total(g, Places) \in Nat
  BY <1>3, FinitePlaces, TotalIsNat
<1> QED
  BY <1>2, <1>4, <1>5, <1>6 DEF g, h, H

\* The value of an entry.
Value(t, e, a) == UsdValue(Assets[a], AmountIn(t, e, a))

\* The value on an exchange is the total of those of its entries.
LEMMA ExchangeIsTotal ==
    ASSUME NEW t \in Table, NEW e \in Places
    PROVE  /\ ExchangeValue(t, e, Assets) = Total([a \in DOMAIN Assets |-> Value(t, e, a)], DOMAIN Assets)
           /\ ExchangeValue(t, e, Assets) \in Nat
<1> DEFINE v == [a \in DOMAIN Assets |-> Value(t, e, a)]
<1>1. ExchangeValue(t, e, Assets) = SumFunction(v) /\ DOMAIN v = DOMAIN Assets
  BY DEF ExchangeValue, Value
<1>2. \A a \in DOMAIN Assets : v[a] \in Nat
  BY EntryTypes, ValueIsProduct DEF Value
<1> HIDE DEF v
<1>3. SumFunction(v) = Total(v, DOMAIN Assets)
  BY <1>1, FinitePlaces, SumIsTotal
<1>4. Total(v, DOMAIN Assets) \in Nat
  BY <1>2, FinitePlaces, TotalIsNat
<1> QED
  BY <1>1, <1>3, <1>4 DEF v

\* The values of the exchanges.
Exchanged(t) == [e \in Places |-> ExchangeValue(t, e, Assets)]

\* The views that add up exchanges are totals.
LEMMA ViewsAreTotals ==
    ASSUME NEW t \in Table
    PROVE  LET square == [e \in Places |-> Exchanged(t)[e] * Exchanged(t)[e]]
           IN  /\ TotalValue(t, Assets) = Total(Exchanged(t), Places)
               /\ Concentration(t, Assets) = Total(square, Places)
               /\ \A e \in Places : Exchanged(t)[e] \in Nat
<1> DEFINE g == Exchanged(t)
           square == [e \in Places |-> g[e] * g[e]]
<1>1. DOMAIN t = Places
  BY DEF Table
<1>2. TotalValue(t, Assets) = SumFunction(g) /\ DOMAIN g = Places
  BY <1>1 DEF TotalValue, Exchanged
<1>3. Concentration(t, Assets) = SumFunction(square) /\ DOMAIN square = Places
  <2>1. square = [e \in Places |-> ExchangeValue(t, e, Assets) * ExchangeValue(t, e, Assets)]
    BY DEF Exchanged
  <2> QED
    BY <1>1, <2>1 DEF Concentration
<1>4. \A e \in Places : g[e] \in Nat
  BY ExchangeIsTotal DEF Exchanged
<1>5. SumFunction(g) = Total(g, Places)
  BY <1>2, FinitePlaces, SumIsTotal
<1>6. SumFunction(square) = Total(square, Places)
  <2> HIDE DEF square
  <2> QED
    BY <1>3, FinitePlaces, SumIsTotal
<1> QED
  BY <1>2, <1>3, <1>4, <1>5, <1>6

\* The values of all exchanges add up to those of all assets.
LEMMA ValuesAddUp ==
    ASSUME NEW t \in Table
    PROVE  TotalValue(t, Assets) =
             SumFunction([a \in DOMAIN Assets |-> UsdValue(Assets[a], Held(t, a))])
<1> DEFINE m == [e \in Places |-> [a \in DOMAIN Assets |-> Value(t, e, a)]]
           v == [a \in DOMAIN Assets |-> UsdValue(Assets[a], Held(t, a))]
<1>1. \A e \in Places, a \in DOMAIN Assets : m[e][a] \in Int
  BY EntryTypes, ValueIsProduct DEF Value
<1>2. \A e \in Places : Exchanged(t)[e] = Total(m[e], DOMAIN Assets)
  BY ExchangeIsTotal DEF Exchanged
<1>3. ASSUME NEW a \in DOMAIN Assets
      PROVE  v[a] = Total([e \in Places |-> m[e][a]], Places)
  <2> DEFINE g == [e \in Places |-> AmountIn(t, e, a)]
             k == [e \in Places |-> m[e][a]]
             w == Worth(Assets[a])
  <2>1. w \in Nat /\ \A e \in Places : g[e] \in Int /\ k[e] = w * g[e]
    BY EntryTypes, ValueIsProduct DEF Value
  <2>2. Held(t, a) = Total(g, Places) /\ Held(t, a) \in Nat
    BY HeldIsTotal
  <2>3. v[a] = w * Held(t, a)
    BY <2>2, ValueIsProduct
  <2>4. Total(k, Places) = w * Total(g, Places)
    <3> HIDE DEF g, k, w
    <3> QED
      BY <2>1, FinitePlaces, TotalTimes
  <2> QED
    BY <2>2, <2>3, <2>4
<1>4. SumFunction(v) = Total(v, DOMAIN Assets)
  <2>1. DOMAIN v = DOMAIN Assets
    OBVIOUS
  <2> HIDE DEF v
  <2> QED
    BY <2>1, FinitePlaces, SumIsTotal
<1>5. Total(Exchanged(t), Places) = Total(v, DOMAIN Assets)
  <2> DEFINE row == Exchanged(t)
             A == DOMAIN Assets
  <2>1. AddUp(m, Places, A, row, v)
    <3> HIDE DEF v, m
    <3> QED
      BY <1>1, <1>2, <1>3 DEF AddUp
  <2>2. IsFiniteSet(Places) /\ IsFiniteSet(A)
    BY FinitePlaces
  <2> HIDE DEF v, m, row, A, Places
  <2>3. Total(row, Places) = Total(v, A)
    BY <2>1, <2>2, RowsAndColumns
  <2> QED
    BY <2>3 DEF row, A
<1> QED
  BY <1>4, <1>5, ViewsAreTotals

\* The concentration lies between equal shares and a single holder.
LEMMA ConcentrationBetween ==
    ASSUME NEW t \in Table
    PROVE  LET total == TotalValue(t, Assets)
           IN  /\ Concentration(t, Assets) <= total * total
               /\ Cardinality(Places) * Concentration(t, Assets) >= total * total
<1> DEFINE g == Exchanged(t)
           q == [e \in Places |-> g[e] * g[e]]
<1>1. /\ TotalValue(t, Assets) = Total(g, Places)
      /\ Concentration(t, Assets) = Total(q, Places)
      /\ \A e \in Places : g[e] \in Nat
  BY ViewsAreTotals
<1>2. \A e \in Places : g[e] \in Nat /\ q[e] = g[e] * g[e]
  BY <1>1
<1> HIDE DEF g, q
<1> QED
  BY <1>1, <1>2, FinitePlaces, SquaresAtMost, SquaresAtLeast

-----------------------------------------------------------------------------
(***************************************************************************)
(* The suggestions.  The deviations of the exchanges cancel out; with one  *)
(* exchange that lacks something no more than the surplus goes there, and  *)
(* with two of three they are all the others.                              *)
(***************************************************************************)
\* The smaller of two integers.
LEMMA MinOfTwo ==
    ASSUME NEW m \in Int, NEW n \in Int
    PROVE  Min({m, n}) \in Int /\ Min({m, n}) <= m /\ Min({m, n}) <= n
<1>1. \E x \in {m, n} : \A y \in {m, n} : x <= y
  <2>1. CASE m <= n
    BY <2>1
  <2>2. CASE n <= m
    BY <2>2
  <2> QED
    BY <2>1, <2>2
<1>2. Min({m, n}) \in {m, n} /\ \A y \in {m, n} : Min({m, n}) <= y
  BY <1>1 DEF Min
<1> QED
  BY <1>2

\* The deviations of the exchanges that hold an asset.
LEMMA Deviations ==
    ASSUME NEW t \in Table, NEW a \in DOMAIN Assets
    PROVE  LET H == Holders(t, a)
           IN  /\ \A e \in H : Deviation(t, e, a) \in Int
               /\ Total([e \in H |-> Deviation(t, e, a)], H) = 0
<1> DEFINE H == Holders(t, a)
           n == Cardinality(H)
           total == Held(t, a)
           g == [e \in H |-> t[e][a]]
           k == [e \in H |-> n * t[e][a]]
           c == [e \in H |-> -total]
           d == [e \in H |-> Deviation(t, e, a)]
<1>1. IsFiniteSet(H) /\ n \in Nat
  BY HoldersTypes, FS_CardinalityType
<1>2. total = Total(g, H) /\ total \in Nat
  BY HeldIsTotal
<1>3. \A e \in H : t[e][a] \in Nat
  BY HoldersTypes
<1>4. \A e \in H : g[e] \in Int /\ k[e] = n * g[e] /\ k[e] \in Int
  BY <1>1, <1>3
<1>5. \A e \in H : c[e] = -total /\ c[e] \in Int
  BY <1>2
<1>6. \A e \in H : d[e] = k[e] + c[e] /\ d[e] \in Int
  BY <1>1, <1>2, <1>3 DEF Deviation
<1> HIDE DEF H, n, total, g, k, c, d
<1>7. Total(k, H) = n * total
  <2>1. n \in Int /\ \A e \in H : g[e] \in Int /\ k[e] = n * g[e]
    BY <1>1, <1>4
  <2> QED
    BY <1>1, <1>2, <2>1, TotalTimes
<1>8. Total(c, H) = (-total) * n
  BY <1>1, <1>2, <1>5, TotalConstant DEF n
<1>9. Total(d, H) = Total(k, H) + Total(c, H)
  <2>1. \A e \in H : k[e] \in Int /\ c[e] \in Int /\ d[e] = k[e] + c[e]
    BY <1>4, <1>5, <1>6
  <2> QED
    BY <1>1, <2>1, TotalPlus
<1>10. \A i, j \in Nat : i * j + (-j) * i = 0
  OBVIOUS
<1>11. Total(d, H) = 0
  BY <1>1, <1>2, <1>7, <1>8, <1>9, <1>10
<1> QED
  BY <1>6, <1>11 DEF H, d

\* What is suggested, in terms of any table d whose numbers cancel out on H: U are
\* the exchanges on the other side of e, and to each goes no more than either number.
LEMMA SharesFit ==
    ASSUME NEW H, IsFiniteSet(H), NEW d, \A x \in H : d[x] \in Int, Total(d, H) = 0,
           NEW e \in H, d[e] >= 0, NEW U \in SUBSET (H \ {e}),
           NEW w, \A x \in U : w[x] \in Int /\ w[x] <= d[e] /\ w[x] <= -d[x],
           \/ U = {}
           \/ \E x \in U : U = {x}
           \/ U = H \ {e}
    PROVE  Total(w, U) <= d[e]
<1>1. IsFiniteSet(U) /\ IsFiniteSet(H \ {e})
  BY FS_Subset
<1>2. d[e] \in Int /\ \A x \in U : w[x] \in Int
  OBVIOUS
<1>3. CASE U = {}
  BY <1>1, <1>2, <1>3, TotalAt
<1>4. CASE \E x \in U : U = {x}
  <2>1. PICK x \in U : U = {x}
    BY <1>4
  <2>2. Total(w, U) = w[x] + Total(w, U \ {x}) /\ U \ {x} = {}
    BY <1>1, <1>2, <2>1, TotalWithout
  <2>3. Total(w, {}) = 0
    BY TotalAt, FS_EmptySet
  <2>4. w[x] \in Int /\ w[x] <= d[e]
    OBVIOUS
  <2>5. Total(w, U) = w[x] + 0
    BY <2>2, <2>3
  <2> QED
    BY <2>4, <2>5
<1>5. CASE U = H \ {e}
  <2> DEFINE m == [x \in U |-> (-1) * d[x]]
  <2>1. \A x \in U : d[x] \in Int /\ m[x] = (-1) * d[x] /\ m[x] \in Int
    OBVIOUS
  <2>2. \A x \in U : w[x] \in Int /\ w[x] <= m[x]
    BY <2>1
  <2> HIDE DEF m
  <2>3. Total(m, U) = (-1) * Total(d, U)
    <3>1. \A x \in U : d[x] \in Int /\ m[x] = (-1) * d[x]
      BY <2>1
    <3> DEFINE c == -1
    <3>2. c \in Int /\ \A x \in U : d[x] \in Int /\ m[x] = c * d[x]
      BY <3>1
    <3> HIDE DEF c
    <3>3. Total(m, U) = c * Total(d, U)
      BY <1>1, <3>2, TotalTimes
    <3> QED
      BY <3>3 DEF c
  <2>4. Total(w, U) <= Total(m, U)
    BY <1>1, <2>1, <2>2, TotalAtMost
  <2>5. Total(d, H) = d[e] + Total(d, U)
    BY <1>5, TotalWithout
  <2>6. Total(d, U) \in Int /\ Total(w, U) \in Int
    BY <1>1, <1>2, <2>1, TotalIsInt
  <2> QED
    BY <1>2, <2>3, <2>4, <2>5, <2>6
<1> QED
  BY <1>3, <1>4, <1>5

\* Of no more than three exchanges, those on the other side are none, one or all the
\* others.
LEMMA OneOrAllOthers ==
    ASSUME Len(Exchanges) <= 3, NEW H \in SUBSET Places, NEW e \in H, NEW U \in SUBSET (H \ {e})
    PROVE  \/ U = {}
           \/ \E x \in U : U = {x}
           \/ U = H \ {e}
<1>1. SUFFICES ASSUME NEW x \in U, NEW y \in U, x # y, NEW z \in H \ {e}
               PROVE  z \in U
  OBVIOUS
<1>2. \A i \in Places : i \in Int /\ 1 <= i /\ i <= 3
  BY FinitePlaces
<1>3. {x, y, z, e} \subseteq Places /\ x # e /\ y # e /\ z # e
  OBVIOUS
<1>4. z = x \/ z = y
  BY <1>1, <1>2, <1>3
<1> QED
  BY <1>4

\* Who holds too much has a surplus, who holds too little lacks something.
LEMMA OverAndUnder ==
    ASSUME NEW t \in Table, NEW a \in DOMAIN Assets
    PROVE  /\ Over(t, a) \subseteq Holders(t, a) /\ \A e \in Over(t, a) : Deviation(t, e, a) > 0
           /\ Under(t, a) \subseteq Holders(t, a) /\ \A e \in Under(t, a) : Deviation(t, e, a) < 0
<1> DEFINE H == Holders(t, a)
           bound == Threshold * Cardinality(H) * Held(t, a)
<1>1. bound \in Nat
  <2>1. Threshold \in Nat
    BY InventoryAssumption
  <2>2. Cardinality(H) \in Nat
    BY HoldersTypes, FS_CardinalityType
  <2>3. Held(t, a) \in Nat
    BY HeldIsTotal
  <2>4. \A i, j, k \in Nat : i * j * k \in Nat
    OBVIOUS
  <2> HIDE DEF H
  <2> QED
    BY <2>1, <2>2, <2>3, <2>4
<1>2. \A e \in H : Deviation(t, e, a) \in Int
  BY Deviations
<1>3. ASSUME NEW d \in Int PROVE Beyond(t, d, a) <=> 100 * d > bound
  BY DEF Beyond
<1> HIDE DEF bound
<1>4. ASSUME NEW d \in Int, Beyond(t, d, a) PROVE d > 0
  BY <1>1, <1>3, <1>4
<1>5. ASSUME NEW e \in H PROVE /\ Beyond(t, Deviation(t, e, a), a) => Deviation(t, e, a) > 0
                               /\ Beyond(t, -Deviation(t, e, a), a) => Deviation(t, e, a) < 0
  <2>1. Deviation(t, e, a) \in Int /\ -Deviation(t, e, a) \in Int
    BY <1>2
  <2>2. Beyond(t, -Deviation(t, e, a), a) => -Deviation(t, e, a) > 0
    BY <1>4, <2>1
  <2> QED
    BY <1>4, <2>1, <2>2
<1> QED
  BY <1>5 DEF Over, Under

\* A sum over some exchanges on the other side of e is the total of its table.
LEMMA SharesAreTotal ==
    ASSUME NEW H, IsFiniteSet(H), NEW U \in SUBSET H, NEW w, DOMAIN w = U
    PROVE  SumFunction(w) = Total(w, U)
<1>1. IsFiniteSet(U)
  BY FS_Subset
<1> QED
  BY <1>1, SumIsTotal

\* What is taken from an exchange fits.
LEMMA GivenFits ==
    ASSUME Len(Exchanges) <= 3, NEW t \in Table, NEW a \in DOMAIN Assets, NEW e \in Over(t, a)
    PROVE  Given(t, e, a) <= Deviation(t, e, a)
<1> DEFINE H == Holders(t, a)
           U == Under(t, a)
           d == [x \in H |-> Deviation(t, x, a)]
           w == [to \in U |-> Transfer(t, e, to, a)]
<1>1. IsFiniteSet(H) /\ H \in SUBSET Places
  BY HoldersTypes
<1>2. Total(d, H) = 0 /\ \A x \in H : d[x] \in Int /\ d[x] = Deviation(t, x, a)
  BY Deviations
<1>3. e \in H /\ d[e] > 0 /\ U \in SUBSET (H \ {e})
  BY <1>2, OverAndUnder
<1>4. \A x \in U : w[x] \in Int /\ w[x] <= d[e] /\ w[x] <= -d[x]
  <2> SUFFICES ASSUME NEW x \in U
               PROVE  w[x] \in Int /\ w[x] <= d[e] /\ w[x] <= -d[x]
    OBVIOUS
  <2>1. d[e] \in Int /\ -d[x] \in Int
    BY <1>2, <1>3
  <2>2. w[x] = Min({d[e], -d[x]})
    BY <1>2, <1>3 DEF Transfer
  <2> HIDE DEF w, d, H, U
  <2> QED
    BY <2>1, <2>2, MinOfTwo
<1>5. Given(t, e, a) = Total(w, U)
  <2>1. Given(t, e, a) = SumFunction(w) /\ DOMAIN w = U /\ U \in SUBSET H
    BY <1>3 DEF Given
  <2> HIDE DEF w, U, H
  <2> QED
    BY <1>1, <2>1, SharesAreTotal
<1>6. U = {} \/ (\E x \in U : U = {x}) \/ U = H \ {e}
  <2> HIDE DEF U, H
  <2> QED
    BY <1>1, <1>3, OneOrAllOthers
<1>7. Total(w, U) <= d[e]
  <2>1. d[e] >= 0 /\ \A x \in H : d[x] \in Int
    BY <1>2, <1>3
  <2> HIDE DEF w, d, H, U
  <2> QED
    BY <1>1, <1>2, <1>3, <1>4, <1>6, <2>1, SharesFit
<1> QED
  BY <1>2, <1>3, <1>5, <1>7

\* ... and so does what is brought to one.
LEMMA ReceivedFits ==
    ASSUME Len(Exchanges) <= 3, NEW t \in Table, NEW a \in DOMAIN Assets, NEW e \in Under(t, a)
    PROVE  Received(t, e, a) <= -Deviation(t, e, a)
<1> DEFINE H == Holders(t, a)
           U == Over(t, a)
           c == -1
           g == [x \in H |-> Deviation(t, x, a)]
           d == [x \in H |-> c * g[x]]
           w == [from \in U |-> Transfer(t, from, e, a)]
<1>1. IsFiniteSet(H) /\ H \in SUBSET Places
  BY HoldersTypes
<1>2. Total(g, H) = 0 /\ \A x \in H : g[x] \in Int /\ g[x] = Deviation(t, x, a)
  BY Deviations
<1>3. \A x \in H : d[x] \in Int /\ d[x] = -Deviation(t, x, a) /\ -d[x] = Deviation(t, x, a)
  BY <1>2
<1>4. Total(d, H) = 0
  <2>1. c \in Int /\ \A x \in H : g[x] \in Int /\ d[x] = c * g[x]
    BY <1>2
  <2>2. c * 0 = 0
    OBVIOUS
  <2> HIDE DEF c, g, d, H
  <2>3. Total(d, H) = c * Total(g, H)
    BY <1>1, <2>1, TotalTimes
  <2> QED
    BY <1>2, <2>2, <2>3
<1>5. e \in H /\ d[e] > 0 /\ U \in SUBSET (H \ {e})
  BY <1>2, <1>3, OverAndUnder
<1>6. \A x \in U : w[x] \in Int /\ w[x] <= d[e] /\ w[x] <= -d[x]
  <2> SUFFICES ASSUME NEW x \in U
               PROVE  w[x] \in Int /\ w[x] <= d[e] /\ w[x] <= -d[x]
    OBVIOUS
  <2>1. d[e] \in Int /\ -d[x] \in Int
    BY <1>3, <1>5
  <2>2. w[x] = Min({-d[x], d[e]})
    BY <1>3, <1>5 DEF Transfer
  <2> HIDE DEF w, d, H, U
  <2> QED
    BY <2>1, <2>2, MinOfTwo
<1>7. Received(t, e, a) = Total(w, U)
  <2>1. Received(t, e, a) = SumFunction(w) /\ DOMAIN w = U /\ U \in SUBSET H
    BY <1>5 DEF Received
  <2> HIDE DEF w, U, H
  <2> QED
    BY <1>1, <2>1, SharesAreTotal
<1>8. U = {} \/ (\E x \in U : U = {x}) \/ U = H \ {e}
  <2> HIDE DEF U, H
  <2> QED
    BY <1>1, <1>5, OneOrAllOthers
<1>9. Total(w, U) <= d[e]
  <2>1. d[e] >= 0 /\ \A x \in H : d[x] \in Int
    BY <1>3, <1>5
  <2> HIDE DEF w, d, H, U
  <2> QED
    BY <1>1, <1>4, <1>5, <1>6, <1>8, <2>1, SharesFit
<1> QED
  BY <1>3, <1>5, <1>7, <1>9

\* The views of a table agree.
LEMMA TableViewsAgree == cache \in Table => ViewsAgree
<1> SUFFICES ASSUME cache \in Table PROVE ViewsAgree
  OBVIOUS
<1>1. ASSUME Len(Exchanges) <= 3 PROVE SuggestionsFit
  BY <1>1, GivenFits, ReceivedFits DEF SuggestionsFit
<1>2. ValuesAgree
  BY ValuesAddUp, ConcentrationBetween DEF ValuesAgree
<1> QED
  BY <1>1, <1>2 DEF ViewsAgree

-----------------------------------------------------------------------------
(***************************************************************************)
(* The tasks.  A task that asks, or whose exchange gave no answer, is at   *)
(* the first asset: that is why it ends with the state it began with.      *)
(***************************************************************************)
AtFirstAsset(t) ==
    (pc[t] = "asking" \/ (pc[t] = "writing" /\ answers[t][at[t]] = None)) => item[t] = 1

InventoryInv == InventoryTypeOK /\ \A t \in Tasks : AtFirstAsset(t)

\* There is a first one among some exchanges.
LEMMA FirstPlace ==
    ASSUME NEW places \in SUBSET Places, places # {}
    PROVE  First(places) \in places
<1> DEFINE G == {s \in SUBSET places : s = {} \/ \E x \in s : \A y \in s : x <= y}
<1>1. IsFiniteSet(places) /\ \A x \in places : x \in Int
  <2>1. IsFiniteSet(places)
    BY FinitePlaces, FS_Subset
  <2>2. \A x \in Places : x \in Int
    BY FinitePlaces
  <2> QED
    BY <2>1, <2>2
<1>2. ASSUME NEW s \in SUBSET places, s # {}, s \ {One(s)} \in G PROVE s \in G
  <2>1. One(s) \in s
    BY <1>2, OneOf
  <2>2. CASE s \ {One(s)} = {}
    <3>1. \A y \in s : y = One(s) /\ y \in Int
      BY <1>1, <2>2
    <3> QED
      BY <2>1, <3>1
  <2>3. CASE s \ {One(s)} # {}
    <3>1. PICK x \in s \ {One(s)} : \A y \in s \ {One(s)} : x <= y
      BY <1>2, <2>3
    <3>2. CASE x <= One(s)
      BY <3>1, <3>2
    <3>3. CASE One(s) <= x
      BY <1>1, <2>1, <3>1, <3>3
    <3> QED
      BY <1>1, <2>1, <3>2, <3>3
  <2> QED
    BY <2>2, <2>3
<1>3. places \in G
  <2>1. {} \in G
    OBVIOUS
  <2> HIDE DEF G
  <2> QED
    BY <1>1, <1>2, <2>1, ElementByElement
<1>4. \E x \in places : \A y \in places : x <= y
  BY <1>3
<1> QED
  BY <1>4 DEF First, Min

\* At the start.
LEMMA InventoryStarts == InventoryInit => InventoryInv
<1> SUFFICES ASSUME InventoryInit PROVE InventoryInv
  OBVIOUS
<1>1. 1 \in Places /\ 1 \in DOMAIN Assets /\ {MaxHeld, MaxChanges, MaxFaults} \subseteq Nat
      /\ Initial \subseteq 0..MaxHeld
  BY FinitePlaces, InventoryAssumption
<1>2. held \in [Places -> Balances]
  BY <1>1 DEF InventoryInit, Balances, Amounts
<1>3. NoAnswers \in [Places -> Balances \cup {None}]
  BY DEF NoAnswers
<1> QED
  BY <1>1, <1>2, <1>3 DEF InventoryInit, InventoryInv, InventoryTypeOK, AtFirstAsset

\* A balance changes.
LEMMA ChangeTypes ==
    ASSUME InventoryInv, NEW e \in Places, NEW a \in DOMAIN Assets, Change(e, a)
    PROVE  InventoryInv'
<1>1. /\ held \in [Places -> [DOMAIN Assets -> Amounts]] /\ changes \in 0..MaxChanges
      /\ MaxChanges \in Nat
  BY InventoryAssumption DEF InventoryInv, InventoryTypeOK, Balances
<1>2. PICK n \in Amounts : held' = [held EXCEPT ![e][a] = n]
  BY DEF Change
<1>3. held' \in [Places -> Balances]
  BY <1>1, <1>2 DEF Balances
<1>4. changes' \in 0..MaxChanges
  BY <1>1 DEF Change
<1> QED
  BY <1>3, <1>4 DEF InventoryInv, InventoryTypeOK, AtFirstAsset, Change, tasks, Balances

\* A task begins to ask.
LEMMA BeginTypes ==
    ASSUME InventoryInv, NEW t \in Tasks, NEW places \in SUBSET Places, places # {},
           Begin(t, places)
    PROVE  InventoryInv'
<1>1. First(places) \in Places
  BY FirstPlace
<1>2. item[t] = 1
  BY DEF Begin, InventoryInv, InventoryTypeOK
<1> QED
  BY <1>1, <1>2 DEF InventoryInv, InventoryTypeOK, AtFirstAsset, Begin, Balances

\* Where a task is after an answer.
LEMMA AfterAnswerTypes ==
    ASSUME InventoryInv, NEW t \in Tasks, AfterAnswer(t)
    PROVE  /\ at' \in [Tasks -> Places]
           /\ pc' \in [Tasks -> {"idle", "asking", "writing"}]
           /\ pc'[t] \in {"asking", "writing"}
           /\ \A u \in Tasks \ {t} : at'[u] = at[u] /\ pc'[u] = pc[u]
<1>1. Later(t) \in SUBSET Places /\ Places \in SUBSET Places /\ Places # {}
  BY FinitePlaces DEF Later, InventoryInv, InventoryTypeOK
<1>2. First(Places) \in Places /\ (Later(t) # {} => First(Later(t)) \in Places)
  BY <1>1, FirstPlace
<1>3. at \in [Tasks -> Places] /\ pc \in [Tasks -> {"idle", "asking", "writing"}]
  BY DEF InventoryInv, InventoryTypeOK
<1> QED
  BY <1>2, <1>3 DEF AfterAnswer

\* A task gets an answer, or none.
LEMMA AskingTypes ==
    ASSUME InventoryInv, NEW t \in Tasks, Answers(t) \/ DoesNotAnswer(t)
    PROVE  InventoryInv'
<1>1. pc[t] = "asking" /\ item[t] = 1 /\ AfterAnswer(t)
  BY DEF Answers, DoesNotAnswer, InventoryInv, AtFirstAsset
<1>2. /\ at' \in [Tasks -> Places]
      /\ pc' \in [Tasks -> {"idle", "asking", "writing"}]
      /\ pc'[t] \in {"asking", "writing"}
      /\ \A u \in Tasks \ {t} : at'[u] = at[u] /\ pc'[u] = pc[u]
  BY <1>1, AfterAnswerTypes
<1>3. /\ faults' \in 0..MaxFaults
      /\ UNCHANGED <<held, changes, cache, item, trade>>
  BY InventoryAssumption DEF Answers, DoesNotAnswer, InventoryInv, InventoryTypeOK
<1>4. /\ answers' \in [Tasks -> [Places -> Balances \cup {None}]]
      /\ \A u \in Tasks \ {t} : answers'[u] = answers[u]
  <2>1. /\ answers \in [Tasks -> [Places -> Balances \cup {None}]]
        /\ at[t] \in Places /\ held \in [Places -> Balances]
    BY DEF InventoryInv, InventoryTypeOK
  <2>2. CASE Answers(t)
    BY <2>1, <2>2 DEF Answers
  <2>3. CASE DoesNotAnswer(t)
    BY <2>1, <2>3 DEF DoesNotAnswer
  <2> QED
    BY <2>2, <2>3
<1>5. ASSUME NEW u \in Tasks
      PROVE  /\ pc'[u] = "idle" => item'[u] = 1 /\ answers'[u] = NoAnswers
             /\ AtFirstAsset(u)'
  BY <1>1, <1>2, <1>3, <1>4 DEF InventoryInv, InventoryTypeOK, AtFirstAsset
<1> QED
  BY <1>2, <1>3, <1>4, <1>5 DEF InventoryInv, InventoryTypeOK, Balances, Amounts, NoAnswers

\* Where a task is after an exchange is written.
LEMMA NextExchangeTypes ==
    ASSUME InventoryInv, NEW t \in Tasks, NextExchange(t)
    PROVE  /\ at' \in [Tasks -> Places]
           /\ pc' \in [Tasks -> {"idle", "asking", "writing"}]
           /\ answers' \in [Tasks -> [Places -> Balances \cup {None}]]
           /\ trade' \in [Tasks -> SUBSET Places]
           /\ pc'[t] = "idle" => answers'[t] = NoAnswers
           /\ \A u \in Tasks \ {t} : at'[u] = at[u] /\ pc'[u] = pc[u] /\ answers'[u] = answers[u]
<1>1. /\ at \in [Tasks -> Places] /\ pc \in [Tasks -> {"idle", "asking", "writing"}]
      /\ answers \in [Tasks -> [Places -> Balances \cup {None}]]
      /\ trade \in [Tasks -> SUBSET Places]
  BY DEF InventoryInv, InventoryTypeOK
<1>2. Later(t) \in SUBSET Places
  BY <1>1 DEF Later
<1>3. CASE Later(t) # {}
  <2>1. First(Later(t)) \in Places
    BY <1>2, <1>3, FirstPlace
  <2> QED
    BY <1>1, <1>3, <2>1 DEF NextExchange
<1>4. CASE Later(t) = {}
  <2>1. 1 \in Places /\ NoAnswers \in [Places -> Balances \cup {None}]
    BY FinitePlaces DEF NoAnswers
  <2> QED
    BY <1>1, <1>4, <2>1 DEF NextExchange, Forgets
<1> QED
  BY <1>3, <1>4

\* A task has nothing to write.
LEMMA HasNothingTypes ==
    ASSUME InventoryInv, NEW t \in Tasks, HasNothing(t)
    PROVE  InventoryInv'
<1>1. item[t] = 1 /\ NextExchange(t) /\ UNCHANGED <<held, changes, cache, item, faults>>
  BY DEF HasNothing, InventoryInv, AtFirstAsset
<1>2. /\ at' \in [Tasks -> Places]
      /\ pc' \in [Tasks -> {"idle", "asking", "writing"}]
      /\ answers' \in [Tasks -> [Places -> Balances \cup {None}]]
      /\ trade' \in [Tasks -> SUBSET Places]
      /\ pc'[t] = "idle" => answers'[t] = NoAnswers
      /\ \A u \in Tasks \ {t} : at'[u] = at[u] /\ pc'[u] = pc[u] /\ answers'[u] = answers[u]
  BY <1>1, NextExchangeTypes
<1>3. ASSUME NEW u \in Tasks
      PROVE  /\ pc'[u] = "idle" => item'[u] = 1 /\ answers'[u] = NoAnswers
             /\ AtFirstAsset(u)'
  BY <1>1, <1>2 DEF InventoryInv, InventoryTypeOK, AtFirstAsset
<1> QED
  BY <1>1, <1>2, <1>3 DEF InventoryInv, InventoryTypeOK, Balances, Amounts, NoAnswers

\* A task writes an entry.
LEMMA WritesTypes ==
    ASSUME InventoryInv, NEW t \in Tasks, Writes(t)
    PROVE  InventoryInv'
<1>1. /\ at[t] \in Places /\ item \in [Tasks -> DOMAIN Assets] /\ item[t] \in DOMAIN Assets
      /\ answers[t] \in [Places -> Balances \cup {None}]
      /\ cache \in [Places -> [DOMAIN Assets -> (1..MaxHeld) \cup {None}]]
  BY DEF InventoryInv, InventoryTypeOK
<1>2. answers[t][at[t]][item[t]] \in 0..MaxHeld
  BY <1>1 DEF Writes, Balances, Amounts
<1>3. cache' \in [Places -> [DOMAIN Assets -> (1..MaxHeld) \cup {None}]]
  <2> DEFINE entry == cache[at[t]][item[t]]
             new == NewEntry(t, answers[t][at[t]][item[t]], entry)
  <2>1. entry \in (1..MaxHeld) \cup {None}
    BY <1>1
  <2>2. new \in (1..MaxHeld) \cup {None}
    BY <1>2, <2>1, InventoryAssumption DEF NewEntry
  <2>3. cache' = [cache EXCEPT ![at[t]] = [cache[at[t]] EXCEPT ![item[t]] = new]]
    BY <1>1 DEF Writes
  <2> HIDE DEF new
  <2> QED
    BY <1>1, <2>2, <2>3
<1>4. UNCHANGED <<held, changes, faults>>
  BY DEF Writes
<1>5. CASE item[t] < Len(Assets)
  <2>1. item' = [item EXCEPT ![t] = item[t] + 1] /\ UNCHANGED <<pc, at, answers, trade>>
    BY <1>5 DEF Writes
  <2>2. item[t] + 1 \in DOMAIN Assets
    BY <1>1, <1>5, FinitePlaces
  <2>3. item' \in [Tasks -> DOMAIN Assets] /\ \A u \in Tasks \ {t} : item'[u] = item[u]
    BY <1>1, <2>1, <2>2
  <2>4. pc[t] = "writing" /\ answers[t][at[t]] # None
    BY DEF Writes
  <2>5. ASSUME NEW u \in Tasks
        PROVE  /\ pc'[u] = "idle" => item'[u] = 1 /\ answers'[u] = NoAnswers
               /\ AtFirstAsset(u)'
    BY <2>1, <2>3, <2>4 DEF InventoryInv, InventoryTypeOK, AtFirstAsset
  <2> QED
    BY <1>3, <1>4, <2>1, <2>3, <2>5 DEF InventoryInv, InventoryTypeOK, Balances, Amounts, NoAnswers
<1>6. CASE ~(item[t] < Len(Assets))
  <2>1. item' = [item EXCEPT ![t] = 1] /\ NextExchange(t)
    BY <1>6 DEF Writes
  <2>2. item' \in [Tasks -> DOMAIN Assets] /\ item'[t] = 1
        /\ \A u \in Tasks \ {t} : item'[u] = item[u]
    BY <1>1, <2>1, FinitePlaces
  <2>3. /\ at' \in [Tasks -> Places]
        /\ pc' \in [Tasks -> {"idle", "asking", "writing"}]
        /\ answers' \in [Tasks -> [Places -> Balances \cup {None}]]
        /\ trade' \in [Tasks -> SUBSET Places]
        /\ pc'[t] = "idle" => answers'[t] = NoAnswers
        /\ \A u \in Tasks \ {t} : at'[u] = at[u] /\ pc'[u] = pc[u] /\ answers'[u] = answers[u]
    BY <2>1, NextExchangeTypes
  <2>4. ASSUME NEW u \in Tasks
        PROVE  /\ pc'[u] = "idle" => item'[u] = 1 /\ answers'[u] = NoAnswers
               /\ AtFirstAsset(u)'
    BY <2>2, <2>3 DEF InventoryInv, InventoryTypeOK, AtFirstAsset
  <2> QED
    BY <1>3, <1>4, <2>2, <2>3, <2>4 DEF InventoryInv, InventoryTypeOK, Balances, Amounts, NoAnswers
<1> QED
  BY <1>5, <1>6

\* The cache holds positive amounts, every task is at an exchange and at an asset, and
\* one that is over has no answers left. (inventory.py, refresh_all)
THEOREM Inventories == InventorySpec => []InventoryInv
<1>1. ASSUME InventoryInv, [InventoryNext]_inventoryVars PROVE InventoryInv'
  <2>1. CASE UNCHANGED inventoryVars
    BY <1>1, <2>1 DEF InventoryInv, InventoryTypeOK, AtFirstAsset, inventoryVars, tasks,
                      Balances, Amounts, NoAnswers
  <2>2. ASSUME NEW e \in Places, NEW a \in DOMAIN Assets, Change(e, a) PROVE InventoryInv'
    BY <1>1, <2>2, ChangeTypes
  <2>3. ASSUME NEW t \in Tasks, Begins(t) \/ GoesOn(t) PROVE InventoryInv'
    <3>1. CASE \E buy, sell \in Places : Begin(t, {buy, sell})
      <4>1. PICK buy \in Places, sell \in Places : Begin(t, {buy, sell})
        BY <3>1
      <4>2. {buy, sell} \in SUBSET Places /\ {buy, sell} # {}
        OBVIOUS
      <4> QED
        BY <1>1, <4>1, <4>2, BeginTypes
    <3>2. CASE Begin(t, Places)
      <4>1. Places \in SUBSET Places /\ Places # {}
        BY FinitePlaces
      <4> QED
        BY <1>1, <3>2, <4>1, BeginTypes
    <3>3. CASE Answers(t) \/ DoesNotAnswer(t)
      BY <1>1, <3>3, AskingTypes
    <3>4. CASE Writes(t)
      BY <1>1, <3>4, WritesTypes
    <3>5. CASE HasNothing(t)
      BY <1>1, <3>5, HasNothingTypes
    <3> QED
      BY <2>3, <3>1, <3>2, <3>3, <3>4, <3>5 DEF Begins, GoesOn
  <2> QED
    BY <1>1, <2>1, <2>2, <2>3 DEF InventoryNext
<1> QED
  BY <1>1, InventoryStarts, PTL DEF InventorySpec

\* However the tasks overtake each other, the values of the exchanges add up to those of
\* all entries, the concentration lies between equal shares and a single holder, and, of
\* three exchanges at most, the suggestions carried out together take no more than a
\* surplus and bring no more than is lacking. (inventory.py, generate_rebalance_suggestions)
THEOREM ViewsFit == InventorySpec => []ViewsAgree
<1>1. InventoryInv => cache \in Table
  BY DEF InventoryInv, InventoryTypeOK, Table
<1> QED
  BY <1>1, TableViewsAgree, Inventories, PTL

-----------------------------------------------------------------------------
(***************************************************************************)
(* What the scanner, the simulation and core/calculations.py compute from  *)
(* two books.                                                              *)
(***************************************************************************)
\* A quantity is truncated to a multiple of the step, one step more exceeds it.
LEMMA TruncatedIs ==
    ASSUME NEW q \in Nat, NEW step \in Nat, step > 0
    PROVE  /\ Truncated(q, step) \in Nat /\ Truncated(q, step) <= q /\ q < Truncated(q, step) + step
           /\ Truncated(q, step) % step = 0
<1>1. /\ q \div step \in Nat /\ (q \div step) * step <= q /\ q < (q \div step) * step + step
  BY Quotient
<1>2. (q \div step) * step \in Nat
  BY <1>1, ProductIsNat
<1>3. \A x, s \in Nat : s > 0 => (x * s) % s = 0
  BY SMTT(30)
<1>4. ((q \div step) * step) % step = 0
  BY <1>1, <1>3
<1> QED
  BY <1>1, <1>2, <1>4 DEF Truncated

\* What compute_executable_quantity allows before it truncates: within what the
\* money buys, the bids, the balance of the seller and the cap; one unit more
\* breaks one of them.
LEMMA CappedIs ==
    ASSUME NEW asks \in Levels, Ascending(asks), NEW bids \in Levels,
           NEW money \in Nat, NEW base \in Nat, NEW notional \in Nat, NEW q,
           q = Capped(asks, Candidate(asks, bids, money, base), notional)
    PROVE  /\ q \in Nat /\ q <= Spend(asks, money).qty /\ q <= Depth(bids) /\ q <= base
           /\ asks # <<>> => q * asks[1].price <= notional
           /\ \/ q = Spend(asks, money).qty \/ q = Depth(bids) \/ q = base
              \/ asks # <<>> /\ notional < (q + 1) * asks[1].price
<1> DEFINE a == Spend(asks, money).qty
           D == Depth(bids)
           c == Candidate(asks, bids, money, base)
           p == asks[1].price
           x == notional \div p
<1>1. a \in Nat /\ D \in Nat
  BY SpendBuys, MarketTypes, 0 \in Nat
<1>2. c = Lesser(a, Lesser(D, base))
  BY DEF Candidate, BuyMax, SellMax
<1>3. q = IF c > 0 /\ asks # <<>> THEN Lesser(c, x) ELSE c
  BY DEF Capped
<1>4. asks # <<>> => p \in Nat /\ p > 0
  <2>1. asks # <<>> => 1 \in DOMAIN asks
    BY LevelTypes DEF Levels
  <2> QED
    BY <2>1, LevelTypes
<1>5. asks # <<>> => x \in Nat /\ x * p <= notional /\ notional < x * p + p
  BY <1>4, Quotient
<1> HIDE DEF c, a, D, p, x
<1>6. c \in Nat /\ c <= a /\ c <= D /\ c <= base /\ (c = a \/ c = D \/ c = base)
  BY <1>1, <1>2 DEF Lesser
<1>7. q \in Nat /\ q <= c
  BY <1>3, <1>5, <1>6 DEF Lesser
<1>8. \A y, z, w \in Nat : y <= z => y * w <= z * w
  BY SMTT(30)
<1>9. asks # <<>> => q * p <= notional
  <2>1. CASE asks # <<>> /\ c > 0
    <3>1. q <= x
      BY <1>3, <1>5, <1>6, <2>1 DEF Lesser
    <3>2. q * p <= x * p
      BY <1>4, <1>5, <1>7, <1>8, <2>1, <3>1
    <3>3. q * p \in Nat /\ x * p \in Nat
      BY <1>4, <1>5, <1>7, <2>1, ProductIsNat
    <3> QED
      BY <1>5, <2>1, <3>2, <3>3
  <2>2. CASE asks # <<>> /\ ~(c > 0)
    <3>1. q = 0
      BY <1>6, <1>7, <2>2
    <3>2. q * p = 0
      BY <1>4, <2>2, <3>1
    <3> QED
      BY <3>2
  <2> QED
    BY <2>1, <2>2
<1>10. q = a \/ q = D \/ q = base \/ (asks # <<>> /\ notional < (q + 1) * p)
  <2>1. SUFFICES ASSUME q # c PROVE asks # <<>> /\ notional < (q + 1) * p
    BY <1>6
  <2>2. asks # <<>> /\ q = x
    BY <1>3, <2>1 DEF Lesser
  <2>3. x * p + p = (x + 1) * p
    BY <1>4, <1>5, <2>2, SMTT(30)
  <2> QED
    BY <1>5, <2>2, <2>3
<1> QED
  BY <1>6, <1>7, <1>9, <1>10, <1>1 DEF a, D, p

\* What can be executed is allowed, and one step more is not.
LEMMA ExecutableIs ==
    ASSUME NEW asks \in Levels, Ascending(asks), NEW bids \in Levels,
           NEW money \in Nat, NEW base \in Nat, NEW notional \in Nat, NEW step \in Nat, step > 0,
           NEW x, x = Executable(asks, bids, money, base, notional, 0, step)
    PROVE  /\ Allowed(asks, bids, money, base, notional, x.qty)
           /\ x.qty % step = 0
           /\ x.buy.qty = x.qty /\ x.sell.qty = x.qty
           /\ ~Allowed(asks, bids, money, base, notional, x.qty + step)
<1> DEFINE q == Capped(asks, Candidate(asks, bids, money, base), notional)
           r == Truncated(q, step)
           a == Spend(asks, money).qty
<1>1. /\ q \in Nat /\ q <= a /\ q <= Depth(bids) /\ q <= base
      /\ asks # <<>> => q * asks[1].price <= notional
      /\ \/ q = a \/ q = Depth(bids) \/ q = base
         \/ asks # <<>> /\ notional < (q + 1) * asks[1].price
  BY CappedIs
<1> HIDE DEF q
<1>2. r \in Nat /\ r <= q /\ q < r + step /\ r % step = 0
  BY <1>1, TruncatedIs
<1> HIDE DEF r
<1>3. /\ x.qty = r /\ x.buy = WalkDepth(asks, r) /\ x.sell = WalkDepth(bids, r)
  <2>1. ~(0 < r /\ r < 0)
    BY <1>2
  <2> QED
    BY <2>1 DEF Executable, q, r
<1>4. /\ a \in Nat /\ a <= Depth(asks) /\ Market(asks, a).cost <= money
      /\ a = Depth(asks) \/ money < Market(asks, a + 1).cost
  BY SpendBuys DEF BoughtOf
<1> HIDE DEF a
<1>5. \A k \in Nat : /\ Market(asks, k).qty = Lesser(k, Depth(asks)) /\ Market(bids, k).qty = Lesser(k, Depth(bids))
                     /\ Market(asks, k).cost \in Nat
  BY MarketTypes
<1>6. Depth(asks) \in Nat /\ Depth(bids) \in Nat
  BY MarketTypes, 0 \in Nat
<1>7. r <= a /\ r <= Depth(asks) /\ r <= Depth(bids) /\ r <= base
  BY <1>1, <1>2, <1>4, <1>6
<1>8. Market(asks, r).qty = r /\ Market(bids, r).qty = r
  <2>1. Lesser(r, Depth(asks)) = r /\ Lesser(r, Depth(bids)) = r
    BY <1>2, <1>6, <1>7 DEF Lesser
  <2> QED
    BY <1>2, <1>5, <2>1
<1>9. Market(asks, r).cost <= money
  <2>1. Market(asks, r).cost <= Market(asks, a).cost
    BY <1>2, <1>4, <1>7, CostGrows
  <2> QED
    BY <1>2, <1>4, <1>5, <2>1
<1>10. \A y, z, w \in Nat : y <= z => y * w <= z * w
  BY SMTT(30)
<1>11. asks # <<>> => asks[1].price \in Nat
  <2>1. asks # <<>> => 1 \in DOMAIN asks
    BY LevelTypes DEF Levels
  <2> QED
    BY <2>1, LevelTypes
<1>12. asks # <<>> => r * asks[1].price <= notional
  <2>1. SUFFICES ASSUME asks # <<>> PROVE r * asks[1].price <= notional
    OBVIOUS
  <2> DEFINE p == asks[1].price
  <2>2. p \in Nat /\ q * p <= notional
    BY <1>1, <1>11, <2>1
  <2> HIDE DEF p
  <2>3. r * p <= q * p /\ r * p \in Nat /\ q * p \in Nat
    BY <1>1, <1>2, <1>10, <2>2, ProductIsNat
  <2>4. r * p <= notional
    BY <2>2, <2>3
  <2> QED
    BY <2>4 DEF p
<1>13. x.buy.qty = r /\ x.sell.qty = r
  BY <1>2, <1>3, <1>8, WalksAreMarket
<1>14. Allowed(asks, bids, money, base, notional, r)
  BY <1>7, <1>8, <1>9, <1>12 DEF Allowed
<1>15. ~Allowed(asks, bids, money, base, notional, r + step)
  <2> DEFINE y == r + step
  <2>1. y \in Nat /\ q < y /\ q + 1 <= y /\ q + 1 \in Nat
    BY <1>1, <1>2
  <2> HIDE DEF y
  <2>2. SUFFICES ASSUME Allowed(asks, bids, money, base, notional, y) PROVE FALSE
    BY DEF y
  <2>3. /\ Market(asks, y).qty = y /\ Market(asks, y).cost <= money
        /\ Market(bids, y).qty = y /\ y <= base
        /\ asks # <<>> => y * asks[1].price <= notional
    BY <2>2 DEF Allowed
  <2>4. y <= Depth(asks) /\ y <= Depth(bids)
    <3>1. Lesser(y, Depth(asks)) = y /\ Lesser(y, Depth(bids)) = y
      BY <1>5, <2>1, <2>3
    <3> QED
      BY <1>6, <2>1, <3>1 DEF Lesser
  <2>5. CASE q = a
    <3>1. a # Depth(asks) /\ a + 1 <= y /\ a + 1 \in Nat
      BY <1>1, <1>6, <2>1, <2>4, <2>5
    <3>2. Market(asks, a + 1).cost <= Market(asks, y).cost
      BY <2>1, <3>1, CostGrows
    <3> QED
      BY <1>4, <1>5, <2>1, <2>3, <3>1, <3>2
  <2>6. CASE q = Depth(bids) \/ q = base
    BY <1>1, <1>6, <2>1, <2>3, <2>4, <2>6
  <2>7. CASE asks # <<>> /\ notional < (q + 1) * asks[1].price
    <3> DEFINE p == asks[1].price
    <3>1. p \in Nat /\ y * p <= notional /\ notional < (q + 1) * p
      BY <1>11, <2>3, <2>7
    <3> HIDE DEF p
    <3>2. (q + 1) * p <= y * p /\ (q + 1) * p \in Nat /\ y * p \in Nat
      BY <1>10, <2>1, <3>1, ProductIsNat
    <3> QED
      BY <3>1, <3>2
  <2> QED
    BY <1>1, <2>5, <2>6, <2>7
<1> QED
  BY <1>2, <1>3, <1>13, <1>14, <1>15

\* The books the exchanges send have levels on both sides, the cheapest ask first.
LEMMA BookTypes ==
    ASSUME NEW b \in Books
    PROVE  b.asks \in Levels /\ b.bids \in Levels /\ Ascending(b.asks)
BY ScanningAssumption

\* The walks of the modules over any two books agree with the market, and what
\* can be executed is as much as is allowed.
LEMMA WalksAreRight ==
    ASSUME NEW b \in Books, NEW c \in Books
    PROVE  WalksHold(b, c)
<1>1. b.asks \in Levels /\ Ascending(b.asks) /\ c.bids \in Levels
  BY BookTypes
<1>2. MaxValue \in Nat /\ Dust \in Nat
  BY ScanningAssumption
<1>3. ASSUME NEW q \in 0..MaxValue
      PROVE  /\ WalkDepth(b.asks, q) = Market(b.asks, q)
             /\ WalkBook(b.asks, q) = Market(b.asks, q)
             /\ Spend(b.asks, Market(b.asks, q).cost) = Market(b.asks, q)
  <2>1. q \in Nat
    OBVIOUS
  <2> QED
    BY <1>1, <2>1, WalksAreMarket, CostBuysBack
<1>4. ASSUME NEW money \in {MaxValue \div 2, MaxValue}, NEW base \in {Dust, MaxValue},
             NEW notional \in {MaxValue \div 3, MaxValue}, NEW step \in {1, 2}
      PROVE  LET x == Executable(b.asks, c.bids, money, base, notional, 0, step)
             IN  /\ Allowed(b.asks, c.bids, money, base, notional, x.qty)
                 /\ x.qty % step = 0
                 /\ x.buy.qty = x.qty /\ x.sell.qty = x.qty
                 /\ ~Allowed(b.asks, c.bids, money, base, notional, x.qty + step)
  <2>1. MaxValue \div 2 \in Nat /\ MaxValue \div 3 \in Nat
    BY <1>2, Quotient
  <2>2. money \in Nat /\ base \in Nat /\ notional \in Nat /\ step \in Nat /\ step > 0
    BY <1>2, <2>1
  <2> QED
    BY <1>1, <2>2, ExecutableIs
<1> QED
  BY <1>3, <1>4 DEF WalksHold

\* A part of a sale: what the market gives for less than it was asked.
LEMMA SoldAgain ==
    ASSUME NEW levels \in Levels, NEW q \in Nat
    PROVE  Market(levels, Market(levels, q).qty) = Market(levels, q)
<1>1. Market(levels, q).qty = Lesser(q, Depth(levels)) /\ Depth(levels) \in Nat
  BY MarketTypes
<1>2. CASE q < Depth(levels)
  <2>1. Market(levels, q).qty = q
    BY <1>1, <1>2 DEF Lesser
  <2> QED
    BY <2>1
<1>3. CASE ~(q < Depth(levels))
  <2>1. Market(levels, q).qty = Depth(levels)
    BY <1>1, <1>3 DEF Lesser
  <2>2. Depth(levels) <= q
    BY <1>1, <1>3
  <2> QED
    BY <2>1, <2>2, WholeDepth
<1> QED
  BY <1>2, <1>3

\* A purchase of the cheapest units and the sale of what it brings: the smaller
\* quantity is there on both sides, its purchase has no worse an average, and
\* its sale is the sale.
LEMMA Resold ==
    ASSUME NEW asks \in Levels, Ascending(asks), NEW bids \in Levels, NEW q \in Nat
    PROVE  LET bought == Market(asks, q)
               sold == Market(bids, bought.qty)
           IN  /\ sold.qty <= bought.qty /\ Lesser(bought.qty, sold.qty) = sold.qty
               /\ Market(asks, sold.qty).qty = sold.qty
               /\ Market(asks, sold.qty).cost * bought.qty <= bought.cost * sold.qty
               /\ Market(bids, sold.qty) = sold
<1> DEFINE bought == Market(asks, q)
           a == bought.qty
           sold == Market(bids, a)
           r == sold.qty
<1>1. a \in Nat /\ a = Lesser(q, Depth(asks)) /\ Depth(asks) \in Nat /\ bought = Market(asks, a)
  BY MarketTypes, SoldAgain
<1> HIDE DEF a
<1>2. r \in Nat /\ r = Lesser(a, Depth(bids)) /\ Depth(bids) \in Nat /\ Market(bids, r) = sold
  BY <1>1, MarketTypes, SoldAgain
<1> HIDE DEF r
<1>3. r <= a /\ a <= Depth(asks) /\ r <= Depth(asks)
  BY <1>1, <1>2 DEF Lesser
<1>4. Lesser(a, r) = r /\ Lesser(r, Depth(asks)) = r
  BY <1>1, <1>2, <1>3 DEF Lesser
<1>5. Market(asks, r).qty = r
  BY <1>2, <1>4, MarketTypes
<1>6. Market(asks, r).cost * a <= Market(asks, a).cost * r
  BY <1>1, <1>2, <1>3, SmallerIsCheaper
<1> QED
  BY <1>1, <1>2, <1>3, <1>4, <1>5, <1>6 DEF a, r

\* A trade that gains at two averages gains as much of it as is sold: C buys a
\* units and c buys r of them at no worse an average, and R is what r bring.
LEMMA GainOfPart ==
    ASSUME NEW a \in Nat, NEW r \in Nat, NEW C \in Nat, NEW c \in Nat, NEW R \in Nat, NEW fee \in Nat,
           r > 0, r <= a, c * a <= C * r,
           (R * a - C * r) * 100 > (C + R) * fee * a
    PROVE  (R - c) * 100 - (c + R) * fee > 0
<1>1. c * a \in Nat /\ C * r \in Nat /\ R * a \in Nat /\ C * a \in Nat /\ C * r <= C * a
  <2>1. \A x, y, z \in Nat : y <= z => x * y <= x * z
    BY SMTT(30)
  <2> QED
    BY <2>1, ProductIsNat
<1> DEFINE ca == c * a
           Cr == C * r
           Ra == R * a
           Ca == C * a
<1>2. (C + R) * fee * a = (Ca + Ra) * fee
  BY SMTT(30)
<1>3. (ca + Ra) * fee <= (Ca + Ra) * fee
  <2>0. ca <= Cr /\ Cr <= Ca /\ ca \in Nat /\ Cr \in Nat /\ Ra \in Nat /\ Ca \in Nat
    BY <1>1
  <2>1. ca + Ra <= Ca + Ra /\ ca + Ra \in Nat /\ Ca + Ra \in Nat
    <3> HIDE DEF ca, Cr, Ra, Ca
    <3> QED
      BY <2>0
  <2>2. \A y, z \in Nat : y <= z => y * fee <= z * fee
    BY SMTT(30)
  <2> HIDE DEF ca, Cr, Ra, Ca
  <2> QED
    BY <2>1, <2>2
<1>4. (Ra - ca) * 100 > (ca + Ra) * fee
  <2>1. (Ra - Cr) * 100 > (Ca + Ra) * fee /\ ca <= Cr
    BY <1>2
  <2>2. ca \in Nat /\ Cr \in Nat /\ Ra \in Nat /\ Ca \in Nat
    BY <1>1
  <2> HIDE DEF ca, Cr, Ra, Ca
  <2>3. (ca + Ra) * fee \in Nat /\ (Ca + Ra) * fee \in Nat
    BY <2>2, ProductIsNat, ca + Ra \in Nat, Ca + Ra \in Nat
  <2> QED
    BY <1>3, <2>1, <2>2, <2>3
<1>5. ((R - c) * 100 - (c + R) * fee) * a > 0
  <2>1. ((R - c) * 100 - (c + R) * fee) * a = (Ra - ca) * 100 - (ca + Ra) * fee
    BY SMTT(30)
  <2>2. ca \in Nat /\ Ra \in Nat /\ (ca + Ra) * fee \in Nat
    <3>1. ca \in Nat /\ Ra \in Nat
      BY <1>1
    <3> HIDE DEF ca, Ra
    <3> QED
      BY <3>1, ProductIsNat, ca + Ra \in Nat
  <2> HIDE DEF ca, Ra
  <2> QED
    BY <1>4, <2>1, <2>2
<1>6. \A y \in Int : y * a > 0 => y > 0
  BY SMTT(30)
<1>7. (R - c) * 100 - (c + R) * fee \in Int
  OBVIOUS
<1> QED
  BY <1>5, <1>6, <1>7

\* "feasible", divided by what both sides of it share.
LEMMA FeasibleMeans ==
    ASSUME NEW a \in Nat, NEW r \in Nat, NEW C \in Nat, NEW R \in Nat, NEW fee \in Nat, r > 0,
           r * 100 * (((R * 100) * a) - ((C * 100) * r)) >
              (((C * 100) * fee) + ((R * 100) * fee)) * a * r
    PROVE  (R * a - C * r) * 100 > (C + R) * fee * a
<1> DEFINE x == (R * a - C * r) * 100
           y == (C + R) * fee * a
           k == 100 * r
<1>1. x * k > y * k
  <2>1. r * 100 * (((R * 100) * a) - ((C * 100) * r)) = x * k
    BY SMTT(30)
  <2>2. (((C * 100) * fee) + ((R * 100) * fee)) * a * r = y * k
    BY SMTT(30)
  <2> QED
    BY <2>1, <2>2
<1>2. \A u, v \in Int : u * k > v * k => u > v
  BY SMTT(30)
<1>3. x \in Int /\ y \in Int
  OBVIOUS
<1> HIDE DEF x, y, k
<1>4. x > y
  BY <1>1, <1>2, <1>3
<1> QED
  BY <1>4 DEF x, y

\* A simulation over any two books that calls a trade feasible is right.
LEMMA SimulationsAreRight ==
    ASSUME NEW b \in Books, NEW c \in Books
    PROVE  SimulationHolds(b, c)
<1>1. b.asks \in Levels /\ Ascending(b.asks) /\ c.bids \in Levels
  BY BookTypes
<1>2. MaxValue \in Nat /\ TakerFee \in Nat
  BY ScanningAssumption, SimulationAssumption
<1>3. ASSUME NEW q \in 1..MaxValue
      PROVE  LET sim == CrossExchange(q, 1, 1, TRUE, b.asks, TRUE, c.bids)
                 bought == Market(b.asks, sim.qty)
                 sold == Market(c.bids, sim.qty)
             IN  Feasible(sim) => /\ bought.qty = sim.qty /\ sold.qty = sim.qty
                                  /\ Gain(bought.cost, sold.cost) > 0
  <2> DEFINE M == Market(b.asks, q)
             a == M.qty
             S == Market(c.bids, a)
             r == S.qty
             m == Market(b.asks, r)
             sim == CrossExchange(q, 1, 1, TRUE, b.asks, TRUE, c.bids)
  <2>1. q \in Nat
    BY <1>2
  <2>2. /\ r <= a /\ Lesser(a, r) = r
        /\ m.qty = r
        /\ m.cost * a <= M.cost * r
        /\ Market(c.bids, r) = S
    BY <1>1, <2>1, Resold
  <2>3. a \in Nat /\ M.cost \in Nat /\ r \in Nat /\ S.cost \in Nat /\ m.cost \in Nat
    BY <1>1, <2>1, MarketTypes
  <2>4. /\ sim.bought = [qty |-> a, cost |-> M.cost * 100]
        /\ sim.sold = [qty |-> r, cost |-> S.cost * 100]
        /\ sim.qty = r
    <3>1. WalkBook(b.asks, q) = M /\ WalkBook(c.bids, a) = S
      BY <1>1, <2>1, <2>3, WalksAreMarket
    <3> HIDE DEF M, S
    <3> QED
      BY <2>2, <3>1 DEF CrossExchange, Simulated, Hundred
  <2>5. ASSUME Feasible(sim) PROVE m.qty = r /\ S.qty = r /\ Gain(m.cost, S.cost) > 0
    <3> HIDE DEF M, S, m, sim, a, r
    <3>1. /\ r > 0
          /\ r * 100 * (((S.cost * 100) * a) - ((M.cost * 100) * r)) >
                 (((M.cost * 100) * TakerFee) + ((S.cost * 100) * TakerFee)) * a * r
      BY <2>4, <2>5 DEF Feasible, SimulatedFee, Hundred
    <3>2. (S.cost * a - M.cost * r) * 100 > (M.cost + S.cost) * TakerFee * a
      BY <1>2, <2>3, <3>1, FeasibleMeans
    <3>3. (S.cost - m.cost) * 100 - (m.cost + S.cost) * TakerFee > 0
      <4>1. TakerFee \in Nat /\ r > 0 /\ r <= a /\ m.cost * a <= M.cost * r
        BY <1>2, <2>2, <3>1
      <4> QED
        BY <2>3, <3>2, <4>1, GainOfPart, Zenon
    <3> QED
      BY <2>2, <3>3 DEF Gain, Hundred, r
  <2> HIDE DEF M, S, sim, a, r
  <2> QED
    BY <2>2, <2>4, <2>5 DEF sim, r
<1> QED
  BY <1>3 DEF SimulationHolds

\* A net profit is a spread between the best prices: what slips is counted from
\* them, and no more is sold than bought.
LEMMA NetMeansSpread ==
    ASSUME NEW a \in Nat, NEW r \in Nat, r <= a, NEW C \in Nat, NEW R \in Nat,
           NEW ask \in Nat, NEW bid \in Nat, NEW slipC \in Nat, NEW slipR \in Nat,
           a * ask <= C + slipC, R <= r * bid + slipR, R - C - slipC - slipR > 0
    PROVE  bid > ask
<1>1. a * ask \in Nat /\ r * ask \in Nat /\ r * bid \in Nat /\ r * ask <= a * ask
  <2>1. \A x, y, z \in Nat : x <= y => x * z <= y * z
    BY SMTT(30)
  <2> QED
    BY <2>1, ProductIsNat
<1>2. r * bid > r * ask
  <2> DEFINE x == a * ask
             y == r * ask
             z == r * bid
  <2>1. /\ x \in Nat /\ y \in Nat /\ z \in Nat /\ y <= x
        /\ x <= C + slipC /\ R <= z + slipR
    BY <1>1
  <2> HIDE DEF x, y, z
  <2>2. z > y
    BY <2>1
  <2> QED
    BY <2>2 DEF y, z
<1>3. \A x, y, z \in Nat : z * x > z * y => x > y
  BY SMTT(30)
<1> QED
  BY <1>2, <1>3

\* What slips from a best price, above or below it.
LEMMA SlippageIs ==
    ASSUME NEW f \in Fill, NEW best \in Nat
    PROVE  /\ SlippageCost(f, best) \in Nat
           /\ best > 0 => /\ f.qty * best <= f.cost + SlippageCost(f, best)
                          /\ f.cost <= f.qty * best + SlippageCost(f, best)
<1> DEFINE x == f.qty * best
           s == SlippageCost(f, best)
<1>1. f.qty \in Nat /\ f.cost \in Nat
  BY DEF Fill
<1>2. x \in Nat
  BY <1>1, ProductIsNat
<1>3. s = IF best > 0 THEN Magnitude(f.cost - x) ELSE 0
  BY DEF SlippageCost
<1> HIDE DEF x, s
<1>4. s \in Nat /\ (best > 0 => x <= f.cost + s /\ f.cost <= x + s)
  BY <1>1, <1>2, <1>3 DEF Magnitude
<1> QED
  BY <1>4 DEF x, s

\* More revenue, and slippage not counted again, leave no less after the fee.
LEMMA MoreIsLeft ==
    ASSUME NEW C \in Nat, NEW R \in Nat, NEW S \in Nat, R <= S, NEW fee \in 0..100,
           NEW slipC \in Nat, NEW slipR \in Nat
    PROVE  (S - C) * 100 - (C + S) * fee >= (R - C - slipC - slipR) * 100 - (C + R) * fee
<1>1. (S - R) * (100 - fee) >= 0
  <2>1. S - R \in Nat /\ 100 - fee \in Nat
    OBVIOUS
  <2>2. (S - R) * (100 - fee) \in Nat
    BY <2>1, ProductIsNat
  <2> QED
    BY <2>2
<1>2. ((S - C) * 100 - (C + S) * fee) - ((R - C - slipC - slipR) * 100 - (C + R) * fee)
        = (S - R) * (100 - fee) + (slipC + slipR) * 100
  BY SMTT(30)
<1>3. (S - R) * (100 - fee) \in Int /\ (C + S) * fee \in Int /\ (C + R) * fee \in Int
  OBVIOUS
<1> DEFINE u == (S - R) * (100 - fee)
           x == (C + S) * fee
           y == (C + R) * fee
<1>4. /\ u \in Int /\ x \in Int /\ y \in Int /\ u >= 0
      /\ ((S - C) * 100 - x) - ((R - C - slipC - slipR) * 100 - y) = u + (slipC + slipR) * 100
  BY <1>1, <1>2, <1>3
<1> HIDE DEF u, x, y
<1>5. (S - C) * 100 - x >= (R - C - slipC - slipR) * 100 - y
  BY <1>4
<1> QED
  BY <1>5 DEF x, y

\* A side that can be traded has a best price, that of its first level.
LEMMA BestPriceIs ==
    ASSUME NEW levels \in Levels
    PROVE  /\ BestPrice(levels) \in Nat
           /\ levels # <<>> => BestPrice(levels) = levels[1].price /\ BestPrice(levels) > 0
           /\ levels = <<>> => Depth(levels) = 0
<1>1. levels # <<>> => 1 \in DOMAIN levels
  BY LevelTypes DEF Levels
<1>2. levels # <<>> => levels[1].price \in Nat /\ levels[1].price > 0
  BY <1>1, LevelTypes
<1>3. ASSUME levels = <<>> PROVE Depth(levels) = 0
  <2>1. Len(levels) = 0
    BY <1>3
  <2>2. Depth(levels) = Ahead(levels)[0] /\ Ahead(levels)[0] = 0
    BY <2>1, Ladders DEF Ladder
  <2> QED
    BY <2>2
<1> QED
  BY <1>2, <1>3 DEF BestPrice

\* compute_net_profit over any two books is never more than what the fees
\* leave, and a profit is a spread.
LEMMA NetProfitsAreRight ==
    ASSUME NEW b \in Books, NEW c \in Books
    PROVE  EstimateHolds(b, c)
<1>1. b.asks \in Levels /\ Ascending(b.asks) /\ c.bids \in Levels
  BY BookTypes
<1>2. MaxValue \in Nat /\ TakerFee \in 0..100 /\ TakerFee \in Nat
  BY ScanningAssumption, SimulationAssumption
<1>3. ASSUME NEW q \in 1..MaxValue
      PROVE  LET bought == WalkDepth(b.asks, q)
                 sold == WalkDepth(c.bids, bought.qty)
                 net == NetProfit(bought, sold, BestPrice(b.asks), BestPrice(c.bids), <<TakerFee, Hundred>>)
             IN  net > 0 => /\ Gain(Market(b.asks, q).cost, Market(c.bids, q).cost) >= net
                            /\ Spread(BestPrice(c.bids), BestPrice(b.asks)).abs > 0
  <2> DEFINE M == Market(b.asks, q)
             a == M.qty
             S == Market(c.bids, a)
             r == S.qty
             whole == Market(c.bids, q).cost
             ask == BestPrice(b.asks)
             bid == BestPrice(c.bids)
             slipC == SlippageCost(M, ask)
             slipR == SlippageCost(S, bid)
             net == NetProfit(M, S, ask, bid, <<TakerFee, Hundred>>)
  <2>1. q \in Nat
    BY <1>2
  <2>2. /\ M \in Fill /\ a \in Nat /\ M.cost \in Nat /\ S \in Fill /\ r \in Nat /\ S.cost \in Nat /\ whole \in Nat
        /\ a = Lesser(q, Depth(b.asks)) /\ r = Lesser(a, Depth(c.bids))
        /\ Depth(b.asks) \in Nat /\ Depth(c.bids) \in Nat
    BY <1>1, <2>1, MarketTypes
  <2>3. WalkDepth(b.asks, q) = M /\ WalkDepth(c.bids, a) = S
    BY <1>1, <2>1, <2>2, WalksAreMarket
  <2>4. ask \in Nat /\ bid \in Nat
    BY <1>1, BestPriceIs
  <2>5. /\ slipC \in Nat /\ slipR \in Nat
        /\ ask > 0 => a * ask <= M.cost + slipC
        /\ bid > 0 => S.cost <= r * bid + slipR
    BY <2>2, <2>4, SlippageIs
  <2>6. a <= q /\ r <= a
    <3> HIDE DEF a, r, M, S
    <3> QED
      BY <2>1, <2>2 DEF Lesser
  <2>7. S.cost <= whole
    BY <1>1, <2>1, <2>2, <2>6, CostGrows
  <2>8. net = (S.cost - M.cost - slipC - slipR) * 100 - (M.cost + S.cost) * TakerFee
    <3> HIDE DEF M, S, ask, bid
    <3> QED
      BY DEF NetProfit, Fees, Hundred
  <2>9. Gain(M.cost, whole) >= net
    <3>1. (whole - M.cost) * 100 - (M.cost + whole) * TakerFee
             >= (S.cost - M.cost - slipC - slipR) * 100 - (M.cost + S.cost) * TakerFee
      <4> HIDE DEF M, S, whole, slipC, slipR
      <4> QED
        BY <1>2, <2>2, <2>5, <2>7, MoreIsLeft
    <3> HIDE DEF M, S, whole, slipC, slipR, net
    <3> QED
      BY <2>8, <3>1 DEF Gain, Hundred
  <2>10. ASSUME net > 0 PROVE bid > ask
    <3>1. S.cost - M.cost - slipC - slipR > 0
      <4>1. (M.cost + S.cost) * TakerFee \in Nat
        <5> HIDE DEF M, S
        <5> QED
          BY <1>2, <2>2, ProductIsNat, M.cost + S.cost \in Nat
      <4> DEFINE x == (M.cost + S.cost) * TakerFee
      <4>2. x \in Nat /\ net = (S.cost - M.cost - slipC - slipR) * 100 - x
        BY <2>8, <4>1
      <4> HIDE DEF M, S, slipC, slipR, net, x
      <4> QED
        BY <2>2, <2>5, <2>10, <4>2
    <3>2. c.bids # <<>> /\ b.asks # <<>>
      <4>1. r # 0
        <5>1. SUFFICES ASSUME r = 0 PROVE FALSE
          OBVIOUS
        <5>2. S = Nothing
          <6>1. Market(c.bids, r) = S
            BY <1>1, <2>2, SoldAgain
          <6> QED
            BY <1>1, <5>1, <6>1, NothingAtAll
        <5>3. S.cost = 0
          BY <5>2 DEF Nothing
        <5> HIDE DEF M, S, slipC, slipR
        <5> QED
          BY <2>2, <2>5, <3>1, <5>3
      <4>2. a # 0
        <5> HIDE DEF M, S, a, r
        <5> QED
          BY <2>2, <2>6, <4>1
      <4>3. Depth(c.bids) # 0 /\ Depth(b.asks) # 0
        <5> HIDE DEF M, S, a, r
        <5> QED
          BY <2>1, <2>2, <4>1, <4>2 DEF Lesser
      <4> QED
        BY <1>1, <4>3, BestPriceIs
    <3>3. ask > 0 /\ bid > 0
      BY <1>1, <3>2, BestPriceIs
    <3>4. a * ask <= M.cost + slipC /\ S.cost <= r * bid + slipR
      BY <2>5, <3>3
    <3> HIDE DEF M, S, a, r, ask, bid, slipC, slipR, net
    <3> QED
      BY <2>2, <2>4, <2>5, <2>6, <3>1, <3>4, NetMeansSpread, Zenon
  <2>11. Spread(bid, ask).abs = bid - ask
    BY DEF Spread
  <2>12. net > 0 => Gain(M.cost, whole) >= net /\ Spread(bid, ask).abs > 0
    <3>1. net > 0 => Gain(M.cost, whole) >= net
      BY <2>9
    <3>2. net > 0 => bid - ask > 0
      <4> HIDE DEF ask, bid, net
      <4> QED
        BY <2>4, <2>10
    <3> QED
      BY <2>11, <3>1, <3>2
  <2> HIDE DEF M, S, a
  <2> QED
    BY <2>3, <2>12 DEF M, S, a
<1> QED
  BY <1>3 DEF EstimateHolds

\* What the scanner quotes from two books: its quantity is there on both sides,
\* bought at no worse an average and within the cap, and sold at the average.
LEMMA WalksQuote ==
    ASSUME NEW b \in Books, NEW c \in Books, NEW o, o = WalkOf[b][c], o.qty > 0
    PROVE  /\ Market(b.asks, o.qty).qty = o.qty /\ Market(c.bids, o.qty).qty = o.qty
           /\ Market(b.asks, o.qty).cost * o.bought.qty <= o.bought.cost * o.qty
           /\ Market(c.bids, o.qty).cost * o.sold.qty = o.sold.cost * o.qty
           /\ o.qty * o.bought.cost <= MaxValue * o.bought.qty
<1> DEFINE f == Spend(b.asks, MaxValue)
           a == f.qty
           S == Market(c.bids, a)
           r == S.qty
<1>1. b.asks \in Levels /\ Ascending(b.asks) /\ c.bids \in Levels /\ MaxValue \in Nat
  BY BookTypes, ScanningAssumption
<1>2. a \in Nat /\ f.cost \in Nat /\ f = Market(b.asks, a) /\ f.cost <= MaxValue
  BY <1>1, SpendBuys DEF BoughtOf
<1>3. WalkBook(c.bids, a) = S
  BY <1>1, <1>2, WalksAreMarket
<1>4. o = Walk(b.asks, c.bids)
  BY DEF WalkOf
<1> HIDE DEF f
<1>5. DeepEnough(b.asks, c.bids)
  BY <1>4 DEF Walk
<1>6. o.bought = f /\ o.sold = WalkBook(c.bids, a) /\ o.qty = Lesser(a, WalkBook(c.bids, a).qty)
  BY <1>4, <1>5 DEF Walk, Quantity, f
<1>7. /\ r <= a /\ Lesser(a, r) = r
      /\ Market(b.asks, r).qty = r
      /\ Market(b.asks, r).cost * a <= f.cost * r
      /\ Market(c.bids, r) = S
  BY <1>1, <1>2, Resold
<1>8. o.qty = r /\ o.sold = S /\ o.bought = f
  BY <1>3, <1>6, <1>7
<1>9. r \in Nat
  BY <1>1, <1>2, MarketTypes
<1>10. r * f.cost <= MaxValue * a
  <2>1. \A x, y, z, w \in Nat : x <= y /\ z <= w => x * z <= w * y
    BY SMTT(30)
  <2> HIDE DEF S
  <2> QED
    BY <1>1, <1>2, <1>7, <1>9, <2>1
<1> HIDE DEF S
<1> QED
  BY <1>7, <1>8, <1>10

-----------------------------------------------------------------------------
(***************************************************************************)
(* The scans.  What a scan carries across its pauses is of the market it   *)
(* began with: its exchanges are known, and the triangles still to be      *)
(* published were worth it.                                                *)
(***************************************************************************)
ScansCarry ==
    /\ scan = [s \in Scans |-> scan[s]]
    /\ paths \subseteq BuildPaths(pairs)
    /\ \A s \in Scans :
          /\ scan[s].at = "buyFee" => {"at", "buyFee"} \subseteq DOMAIN scan[s]
          /\ scan[s].at \in {"buyFee", "sellFee"} => scan[s].buy \in Venues /\ scan[s].sell \in Venues
          /\ scan[s].at \in {"paths", "path"} => scan[s].left \subseteq WorthOf[pairs][rates]
          /\ scan[s].at = "path" => scan[s].path \in WorthOf[pairs][rates]

ScanInv == ScanTypeOK /\ ScansCarry

\* Before the scanners start, nothing is carried.
LEMMA ScanBegins ==
    ScanInit => ScanInv
<1> SUFFICES ASSUME ScanInit PROVE ScanInv
  OBVIOUS
<1>1. scan = [s \in Scans |-> Idle] /\ \A s \in Scans : scan[s].at = "idle"
  BY DEF ScanInit, Idle
<1>2. 0 \in 0..MaxMarketMoves
  BY ScanningAssumption
<1>3. ScanTypeOK
  BY <1>1, <1>2 DEF ScanInit, ScanTypeOK
<1>4. ScansCarry
  BY <1>1 DEF ScanInit, ScansCarry
<1> QED
  BY <1>3, <1>4 DEF ScanInv

\* What a position of a scan may carry.
Carries(pos) ==
    /\ pos.at \in {"idle", "buyFee", "sellFee", "publishing", "paths", "path"}
    /\ pos.at = "buyFee" => {"at", "buyFee"} \subseteq DOMAIN pos
    /\ pos.at \in {"buyFee", "sellFee"} => pos.buy \in Venues /\ pos.sell \in Venues
    /\ pos.at \in {"paths", "path"} => pos.left \subseteq WorthOf[pairs][rates]
    /\ pos.at = "path" => pos.path \in WorthOf[pairs][rates]

\* A step of one scan keeps the invariant when its new position carries what it may.
LEMMA MovesKeep ==
    ASSUME ScanInv, NEW s \in Scans, NEW pos, Moves(s, pos), Carries(pos)
    PROVE  ScanInv'
<1>1. scan = [t \in Scans |-> scan[t]]
  BY DEF ScanInv, ScansCarry
<1>2. scan' = [t \in Scans |-> IF t = s THEN pos ELSE scan[t]]
  <2>1. scan' = [scan EXCEPT ![s] = pos]
    BY DEF Moves
  <2> QED
    BY <1>1, <2>1
<1>3. /\ scan' = [t \in Scans |-> scan'[t]]
      /\ \A t \in Scans : scan'[t] = pos \/ scan'[t] = scan[t]
  BY <1>2
<1>4. UNCHANGED <<running, ticker, book, stale, pairs, rates, paths, marketMoves>>
  BY DEF Moves
<1>5. \A t \in Scans : Carries(scan[t])
  BY DEF ScanInv, ScanTypeOK, ScansCarry, Carries
<1>6. \A t \in Scans : Carries(scan'[t])
  BY <1>3, <1>5
<1>7. ScanTypeOK'
  BY <1>4, <1>6 DEF ScanInv, ScanTypeOK, Carries
<1>8. ScansCarry'
  BY <1>3, <1>4, <1>6 DEF ScanInv, ScansCarry, Carries
<1> QED
  BY <1>7, <1>8 DEF ScanInv

\* After the exchanges, the triangles that are worth it by the snapshot.
LEMMA AfterCrossCarries ==
    ASSUME NEW s \in Scans
    PROVE  Carries(AfterCross(s)) /\ AfterCross(s).at \in {"idle", "paths"}
BY DEF AfterCross, Carries, WorthIt, Idle

\* Every step keeps what the scans carry.
LEMMA ScanInvKept ==
    ScanInv /\ [ScanNext]_scanVars => ScanInv'
<1> SUFFICES ASSUME ScanInv, [ScanNext]_scanVars PROVE ScanInv'
  OBVIOUS
<1>1. CASE Start
  <2>1. UNCHANGED <<ticker, book, stale, pairs, rates, scan, marketMoves>>
        /\ paths' = BuildPaths(pairs) /\ running' = TRUE
    BY <1>1 DEF Start
  <2> QED
    BY <2>1 DEF ScanInv, ScanTypeOK, ScansCarry
<1>2. CASE Stop
  <2>1. /\ UNCHANGED <<ticker, book, stale, pairs, rates, paths, marketMoves>> /\ running' = FALSE
        /\ scan' = [s \in Scans |-> IF s \in Loops THEN Idle ELSE scan[s]]
    BY <1>2 DEF Stop
  <2>2. \A s \in Scans : scan'[s] = scan[s] \/ scan'[s].at = "idle"
    BY <2>1 DEF Idle
  <2>3. scan' = [s \in Scans |-> scan'[s]]
    BY <2>1
  <2>4. ScanTypeOK'
    BY <2>1, <2>2 DEF ScanInv, ScanTypeOK
  <2>5. ScansCarry'
    BY <2>1, <2>2, <2>3 DEF ScanInv, ScansCarry
  <2> QED
    BY <2>4, <2>5 DEF ScanInv
<1>3. CASE MarketMoves
  <2>1. /\ UNCHANGED <<running, pairs, rates, paths, scan>>
        /\ marketMoves < MaxMarketMoves /\ marketMoves' = marketMoves + 1
    BY <1>3 DEF MarketMoves
  <2>2. /\ ticker' \in [Venues -> Quotes \cup {Missing}]
        /\ book' \in [Venues -> Books \cup {Missing}]
        /\ stale' \subseteq Venues
    BY <1>3 DEF MarketMoves, ScanInv, ScanTypeOK
  <2>3. marketMoves' \in 0..MaxMarketMoves
    BY <2>1, ScanningAssumption DEF ScanInv, ScanTypeOK
  <2>4. ScanTypeOK'
    BY <2>1, <2>2, <2>3 DEF ScanInv, ScanTypeOK
  <2>5. ScansCarry'
    BY <2>1 DEF ScanInv, ScansCarry
  <2> QED
    BY <2>4, <2>5 DEF ScanInv
<1>4. CASE TrianglesBegin
  <2>1. Moves("triangular", [at |-> "paths", left |-> WorthIt])
    BY <1>4 DEF TrianglesBegin
  <2>2. Carries([at |-> "paths", left |-> WorthIt])
    BY DEF Carries, WorthIt
  <2>3. "triangular" \in Scans
    BY DEF Scans
  <2> QED
    BY <2>1, <2>2, <2>3, MovesKeep
<1>5. ASSUME NEW s \in Scans, CrossBegins(s) PROVE ScanInv'
  <2>1. CASE Moves(s, AfterCross(s))
    BY <2>1, AfterCrossCarries, MovesKeep
  <2>2. ASSUME NEW c \in Candidates,
               NEW pos, pos.at = "buyFee", pos.buy = c[1], pos.sell = c[2], Moves(s, pos),
               {"at", "buyFee"} \subseteq DOMAIN pos
        PROVE  ScanInv'
    <3>1. c[1] \in Venues /\ c[2] \in Venues
      BY DEF Candidates, BestAsks, BestBids, Fresh
    <3>2. Carries(pos)
      BY <2>2, <3>1 DEF Carries
    <3> QED
      BY <2>2, <3>2, MovesKeep
  <2> QED
    BY <1>5, <2>1, <2>2 DEF CrossBegins
<1>6. ASSUME NEW s \in Scans, BuyFee(s) PROVE ScanInv'
  <2>1. PICK fee : Moves(s, [scan[s] EXCEPT !.at = "sellFee", !.buyFee = fee])
    BY <1>6 DEF BuyFee
  <2> DEFINE pos == [scan[s] EXCEPT !.at = "sellFee", !.buyFee = fee]
  <2>2. scan[s].at = "buyFee" /\ {"at", "buyFee"} \subseteq DOMAIN scan[s] /\ scan[s].buy \in Venues /\ scan[s].sell \in Venues
    BY <1>6 DEF BuyFee, ScanInv, ScansCarry
  <2>3. pos.at = "sellFee" /\ pos.buy = scan[s].buy /\ pos.sell = scan[s].sell
    BY <2>2
  <2>4. Carries(pos)
    BY <2>2, <2>3 DEF Carries
  <2> QED
    BY <2>1, <2>4, MovesKeep
<1>7. ASSUME NEW s \in Scans, SellFee(s) PROVE ScanInv'
  <2>1. CASE Moves(s, AfterCross(s))
    BY <2>1, AfterCrossCarries, MovesKeep
  <2>2. ASSUME NEW pos, pos.at = "publishing", Moves(s, pos) PROVE ScanInv'
    BY <2>2, MovesKeep DEF Carries
  <2> QED
    BY <1>7, <2>1, <2>2 DEF SellFee
<1>8. ASSUME NEW s \in Scans, Published(s) PROVE ScanInv'
  BY <1>8, AfterCrossCarries, MovesKeep DEF Published
<1>9. ASSUME NEW s \in Scans, NextPath(s) PROVE ScanInv'
  <2>1. scan[s].left \subseteq WorthOf[pairs][rates]
    BY <1>9 DEF NextPath, ScanInv, ScansCarry
  <2>2. CASE Moves(s, Idle)
    BY <2>2, MovesKeep DEF Carries, Idle
  <2>3. ASSUME NEW p \in scan[s].left, Moves(s, [at |-> "path", path |-> p, left |-> scan[s].left \ {p}])
        PROVE  ScanInv'
    <3>1. Carries([at |-> "path", path |-> p, left |-> scan[s].left \ {p}])
      BY <2>1 DEF Carries
    <3> QED
      BY <2>3, <3>1, MovesKeep
  <2> QED
    BY <1>9, <2>2, <2>3 DEF NextPath
<1>10. ASSUME NEW s \in Scans, PathPublished(s) PROVE ScanInv'
  <2>1. scan[s].left \subseteq WorthOf[pairs][rates]
    BY <1>10 DEF PathPublished, ScanInv, ScansCarry
  <2>2. Carries([at |-> "paths", left |-> scan[s].left])
    BY <2>1 DEF Carries
  <2>3. Moves(s, [at |-> "paths", left |-> scan[s].left])
    BY <1>10 DEF PathPublished
  <2> QED
    BY <2>2, <2>3, MovesKeep
<1>11. CASE UNCHANGED scanVars
  BY <1>11 DEF scanVars, ScanInv, ScanTypeOK, ScansCarry
<1> QED
  BY <1>1, <1>2, <1>3, <1>4, <1>5, <1>6, <1>7, <1>8, <1>9, <1>10, <1>11 DEF ScanNext, Step

\* The scans carry what belongs to them, always.
LEMMA ScansAlwaysCarry ==
    ScanSpec => []ScanInv
<1> QED
  BY ScanBegins, ScanInvKept, PTL DEF ScanSpec

\* The state of the scanners has its types.
THEOREM ScanningIsTyped ==
    ScanSpec => []ScanTypeOK
<1>1. ScanInv => ScanTypeOK
  BY DEF ScanInv
<1> QED
  BY <1>1, ScansAlwaysCarry, PTL

\* What the modules compute from two books that are known is right.
LEMMA KnownBooksAreRight ==
    ScanInv => EstimatesHold
<1> SUFFICES ASSUME ScanInv, NEW c \in BookedPairs
             PROVE  EstimatesOf[book[c[1]]][book[c[2]]]
  BY DEF EstimatesHold
<1>1. book[c[1]] \in Books /\ book[c[2]] \in Books
  <2>1. c[1] \in Venues /\ c[2] \in Venues /\ book[c[1]] # Missing /\ book[c[2]] # Missing
    BY DEF BookedPairs
  <2>2. book \in [Venues -> Books \cup {Missing}]
    BY DEF ScanInv, ScanTypeOK
  <2> QED
    BY <2>1, <2>2
<1>2. \A b, s \in Books : WalksHold(b, s) /\ SimulationHolds(b, s) /\ EstimateHolds(b, s)
  BY WalksAreRight, SimulationsAreRight, NetProfitsAreRight
<1> QED
  BY <1>1, <1>2 DEF EstimatesOf

\* The walks of scanner.py, simulation.py and calculations.py over any two books
\* agree with the market, the executable quantity is the largest allowed, a
\* trade the simulation calls feasible gains, and a net profit is a spread.
THEOREM EstimatesAreRight ==
    ScanSpec => []EstimatesHold
<1> QED
  BY ScansAlwaysCarry, KnownBooksAreRight, PTL

\* A scan reaches its publication from the answer of the seller's get_fees.
LEMMA QuotedWhenPublished ==
    ASSUME ScanInv, ScanNext, NEW s \in Scans,
           scan[s].at = "sellFee", scan'[s].at = "publishing", Walks(scan[s])
    PROVE  Quoted(s)
<1> DEFINE b == book[scan[s].buy]
           c == book[scan[s].sell]
           o == WalkOf[b][c]
<1>1. scan = [t \in Scans |-> scan[t]] /\ scan[s].buy \in Venues /\ scan[s].sell \in Venues
      /\ book \in [Venues -> Books \cup {Missing}]
  BY DEF ScanInv, ScanTypeOK, ScansCarry
<1>2. b \in Books /\ c \in Books /\ o.qty > 0
  BY <1>1 DEF Walks
<1>3. ASSUME NEW t \in Scans, NEW pos, Moves(t, pos), t # s PROVE FALSE
  BY <1>1, <1>3 DEF Moves
<1>4. scan'[s] # scan[s] /\ scan[s] # Idle
  BY DEF Idle
<1>5. SellFee(s)
  <2>1. ~Start /\ ~MarketMoves
    BY <1>4 DEF Start, MarketMoves
  <2>2. ~Stop
    <3>1. Idle.at # "publishing"
      BY DEF Idle
    <3> QED
      BY <1>1, <1>4, <3>1 DEF Stop
  <2>3. ~TrianglesBegin
    <3>1. "triangular" \in Scans
      BY DEF Scans
    <3>2. TrianglesBegin => s # "triangular" /\ Moves("triangular", [at |-> "paths", left |-> WorthIt])
      BY <1>4 DEF TrianglesBegin
    <3> QED
      BY <1>3, <3>1, <3>2
  <2>4. ASSUME NEW t \in Scans, Step(t) PROVE t = s
    BY <1>3, <2>4 DEF Step, CrossBegins, BuyFee, SellFee, Published, NextPath, PathPublished
  <2>5. Step(s)
    BY <2>1, <2>2, <2>3, <2>4 DEF ScanNext
  <2>6. ~CrossBegins(s) /\ ~BuyFee(s) /\ ~Published(s) /\ ~NextPath(s) /\ ~PathPublished(s)
    BY <1>4 DEF CrossBegins, BuyFee, Published, NextPath, PathPublished
  <2> QED
    BY <2>5, <2>6 DEF Step
<1>6. scan'[s] = [at |-> "publishing", buy |-> scan[s].buy, sell |-> scan[s].sell, opportunity |-> o]
  <2>1. Opportunity(scan[s]) = o
    BY DEF Opportunity
  <2>2. ASSUME NEW pos, Moves(s, pos) PROVE scan'[s] = pos
    BY <1>1, <2>2 DEF Moves
  <2>3. AfterCross(s).at # "publishing"
    BY AfterCrossCarries
  <2> QED
    BY <1>5, <2>1, <2>2, <2>3 DEF SellFee
<1> HIDE DEF o
<1>7. /\ Market(b.asks, o.qty).qty = o.qty /\ Market(c.bids, o.qty).qty = o.qty
      /\ Market(b.asks, o.qty).cost * o.bought.qty <= o.bought.cost * o.qty
      /\ Market(c.bids, o.qty).cost * o.sold.qty = o.sold.cost * o.qty
      /\ o.qty * o.bought.cost <= MaxValue * o.bought.qty
  BY <1>2, WalksQuote DEF o
<1>8. /\ scan'[s].opportunity = o /\ book[scan'[s].buy] = b /\ book[scan'[s].sell] = c
  BY <1>6
<1> QED
  BY <1>7, <1>8 DEF Quoted

\* What a scan publishes from two books can be traded on them: the quantity is
\* there on both sides, within max_order_value_usdt, bought at no worse an
\* average than the published one and sold at exactly the published one.
THEOREM QuotesAreRight ==
    ScanSpec => QuoteHolds
<1>1. ScanInv /\ [ScanNext]_scanVars =>
        [\A s \in Scans :
           scan[s].at = "sellFee" /\ scan'[s].at = "publishing" /\ Walks(scan[s]) => Quoted(s)]_scanVars
  BY QuotedWhenPublished
<1> QED
  BY <1>1, ScansAlwaysCarry, PTL DEF ScanSpec, QuoteHolds

-----------------------------------------------------------------------------
(***************************************************************************)
(* The triangles.                                                          *)
(***************************************************************************)
\* An amount, as a fraction.
Fraction == Nat \X Nat

\* A fold over three steps.
LEMMA ThreeSteps ==
    ASSUME NEW X, NEW base \in X, NEW st, NEW w, NEW e, RunsTo(st, base, X, 3, w, e)
    PROVE  e = st[3][st[2][st[1][base]]]
<1>1. w[1] = st[1][w[0]] /\ w[2] = st[2][w[1]] /\ w[3] = st[3][w[2]] /\ w[0] = base /\ w[3] = e
  <2>1. \A k \in 0..3 : k < 3 => w[k + 1] = st[k + 1][w[k]]
    BY DEF RunsTo
  <2>2. 0 \in 0..3 /\ 1 \in 0..3 /\ 2 \in 0..3 /\ 0 + 1 = 1 /\ 1 + 1 = 2 /\ 2 + 1 = 3
    OBVIOUS
  <2>3. w[0 + 1] = st[0 + 1][w[0]] /\ w[1 + 1] = st[1 + 1][w[1]] /\ w[2 + 1] = st[2 + 1][w[2]]
    BY <2>1, <2>2
  <2> QED
    BY <2>2, <2>3 DEF RunsTo
<1> QED
  BY <1>1

\* A leg turns a fraction into one.
LEMMA ThroughTypes ==
    ASSUME NEW a \in Fraction, NEW leg, leg.price \in Nat
    PROVE  /\ Through(a, leg) \in Fraction
           /\ Charged(Through(a, leg), <<0, 1>>) = Through(a, leg)
<1>1. a[1] \in Nat /\ a[2] \in Nat
  BY DEF Fraction
<1>2. a[1] * leg.price \in Nat /\ a[2] * leg.price \in Nat
  BY <1>1, ProductIsNat
<1>3. \E x, y \in Nat : Through(a, leg) = <<x, y>>
  BY <1>1, <1>2 DEF Through
<1>4. PICK x \in Nat, y \in Nat : Through(a, leg) = <<x, y>>
  BY <1>3
<1>5. Charged(<<x, y>>, <<0, 1>>) = <<x, y>>
  <2>1. x * (1 - 0) = x /\ y * 1 = y
    OBVIOUS
  <2> QED
    BY <2>1 DEF Charged
<1> QED
  BY <1>4, <1>5 DEF Fraction

\* The leg of a hop at its price.
LegOf(h, rt) == [side |-> h.side, price |-> EffectivePrice(h, rt)]

\* The legs of a path, as a table of steps.
LegSteps(path, rt) == [i \in 1..3 |-> [a \in Fraction |-> Through(a, LegOf(path[i], rt))]]

\* _build_paths makes sequences of three; what one unit becomes goes through
\* one leg after the other.
LEMMA AmountIs ==
    ASSUME NEW path, DOMAIN path = 1..3, NEW rt, \A i \in 1..3 : EffectivePrice(path[i], rt) \in Nat
    PROVE  AmountAfter(path, rt) =
              Through(Through(Through(<<1, 1>>, LegOf(path[1], rt)), LegOf(path[2], rt)), LegOf(path[3], rt))
<1> DEFINE st == LegSteps(path, rt)
           Eq(it) == it = [s \in SUBSET DOMAIN path |-> IF s = {} THEN <<1, 1>>
                             ELSE Through(it[s \ {CHOOSE x \in s : \A y \in s : x >= y}],
                                    [side |-> path[CHOOSE x \in s : \A y \in s : x >= y].side,
                                     price |-> EffectivePrice(path[CHOOSE x \in s : \A y \in s : x >= y], rt)])]
<1>1. <<1, 1>> \in Fraction
  BY DEF Fraction
<1>2. ASSUME NEW i \in 1..3, NEW a \in Fraction PROVE Through(a, LegOf(path[i], rt)) \in Fraction
  <2>1. LegOf(path[i], rt).price \in Nat
    BY DEF LegOf
  <2> QED
    BY <2>1, ThroughTypes
<1>3. \A i \in 1..3 : st[i] \in [Fraction -> Fraction]
                      /\ \A a \in Fraction : st[i][a] = Through(a, LegOf(path[i], rt))
  BY <1>2 DEF LegSteps
<1> HIDE DEF st
<1>4. \E it : Eq(it)
  <2>1. PICK it \in [SUBSET (1..3) -> Fraction] : Gathers(st, <<1, 1>>, 1..3, it)
    BY <1>1, <1>3, GathersExists, 3 \in Nat
  <2>2. ASSUME NEW s \in SUBSET (1..3), s # {}
        PROVE  st[Top(s)][it[s \ {Top(s)}]] = Through(it[s \ {Top(s)}], LegOf(path[Top(s)], rt))
    <3>1. Top(s) \in 1..3 /\ s \ {Top(s)} \in SUBSET (1..3)
      BY <2>2, TopOf, 3 \in Nat
    <3>2. it[s \ {Top(s)}] \in Fraction
      BY <3>1
    <3> QED
      BY <1>3, <3>1, <3>2
  <2>3. it = [s \in SUBSET (1..3) |-> IF s = {} THEN <<1, 1>>
                ELSE Through(it[s \ {Top(s)}], LegOf(path[Top(s)], rt))]
    BY <2>1, <2>2 DEF Gathers
  <2> QED
    BY <2>3 DEF Top, LegOf
<1>5. PICK it : Eq(it) /\ AmountAfter(path, rt) = it[DOMAIN path]
  BY <1>4 DEF AmountAfter, FoldLeft, MapThenFoldSet, Max
<1>6. /\ it[{}] = <<1, 1>>
      /\ \A s \in SUBSET (1..3) : s # {} => it[s] = Through(it[s \ {Top(s)}], LegOf(path[Top(s)], rt))
  BY <1>5 DEF Top, LegOf
<1> HIDE DEF Eq
<1>7. ASSUME NEW s \in SUBSET (1..3), s # {}, it[s \ {Top(s)}] \in Fraction
      PROVE  it[s] = st[Top(s)][it[s \ {Top(s)}]]
  <2>1. Top(s) \in 1..3
    BY <1>7, TopOf, 3 \in Nat
  <2> QED
    BY <1>3, <1>6, <1>7, <2>1
<1>8. AmountAfter(path, rt) = st[3][st[2][st[1][<<1, 1>>]]]
  <2>1. Runs(st, <<1, 1>>, Fraction, 3, it)
    BY <1>6, <1>7 DEF Runs
  <2>2. \A i \in 1..3 : st[i] \in [Fraction -> Fraction]
    BY <1>3
  <2>3. PICK w : RunsTo(st, <<1, 1>>, Fraction, 3, w, it[1..3])
    BY <1>1, <2>1, <2>2, TableRuns, 3 \in Nat
  <2> QED
    BY <1>1, <1>5, <2>3, ThreeSteps
<1>9. /\ st[1][<<1, 1>>] = Through(<<1, 1>>, LegOf(path[1], rt))
      /\ st[1][<<1, 1>>] \in Fraction
      /\ st[2][st[1][<<1, 1>>]] = Through(st[1][<<1, 1>>], LegOf(path[2], rt))
      /\ st[2][st[1][<<1, 1>>]] \in Fraction
  BY <1>1, <1>3
<1>10. st[3][st[2][st[1][<<1, 1>>]]] = Through(st[2][st[1][<<1, 1>>]], LegOf(path[3], rt))
  BY <1>3, <1>9
<1> QED
  BY <1>8, <1>9, <1>10

\* The legs of compute_triangular_profit without fees, as a table of steps.
EndSteps(legs) == [i \in 1..3 |-> [a \in Fraction |-> Through(a, legs[i])]]

\* compute_triangular_profit without fees goes through one leg after the other.
LEMMA EndIs ==
    ASSUME NEW legs, DOMAIN legs = 1..3, \A i \in 1..3 : legs[i].price \in Nat
    PROVE  TriangularEnd(legs, <<0, 1>>) =
              Through(Through(Through(<<1, 1>>, legs[1]), legs[2]), legs[3])
<1> DEFINE st == EndSteps(legs)
           Eq(it) == it = [s \in SUBSET DOMAIN legs |-> IF s = {} THEN <<1, 1>>
                             ELSE Charged(Through(it[s \ {CHOOSE x \in s : \A y \in s : x >= y}],
                                                  legs[CHOOSE x \in s : \A y \in s : x >= y]), <<0, 1>>)]
<1>1. <<1, 1>> \in Fraction
  BY DEF Fraction
<1>2. \A i \in 1..3, a \in Fraction : /\ Through(a, legs[i]) \in Fraction
                                      /\ Charged(Through(a, legs[i]), <<0, 1>>) = Through(a, legs[i])
  BY ThroughTypes
<1>3. \A i \in 1..3 : st[i] \in [Fraction -> Fraction]
                      /\ \A a \in Fraction : /\ st[i][a] = Through(a, legs[i])
                                             /\ Charged(Through(a, legs[i]), <<0, 1>>) = st[i][a]
  BY <1>2 DEF EndSteps
<1> HIDE DEF st
<1>4. \E it : Eq(it)
  <2>1. PICK it \in [SUBSET (1..3) -> Fraction] : Gathers(st, <<1, 1>>, 1..3, it)
    BY <1>1, <1>3, GathersExists, 3 \in Nat
  <2>2. ASSUME NEW s \in SUBSET (1..3), s # {}
        PROVE  st[Top(s)][it[s \ {Top(s)}]] = Charged(Through(it[s \ {Top(s)}], legs[Top(s)]), <<0, 1>>)
    <3>1. Top(s) \in 1..3 /\ s \ {Top(s)} \in SUBSET (1..3)
      BY <2>2, TopOf, 3 \in Nat
    <3>2. it[s \ {Top(s)}] \in Fraction
      BY <3>1
    <3> QED
      BY <1>3, <3>1, <3>2
  <2>3. it = [s \in SUBSET (1..3) |-> IF s = {} THEN <<1, 1>>
                ELSE Charged(Through(it[s \ {Top(s)}], legs[Top(s)]), <<0, 1>>)]
    BY <2>1, <2>2 DEF Gathers
  <2> QED
    BY <2>3 DEF Top
<1>5. PICK it : Eq(it) /\ TriangularEnd(legs, <<0, 1>>) = it[DOMAIN legs]
  BY <1>4 DEF TriangularEnd, FoldLeft, MapThenFoldSet, Max
<1>6. /\ it[{}] = <<1, 1>>
      /\ \A s \in SUBSET (1..3) : s # {} =>
            it[s] = Charged(Through(it[s \ {Top(s)}], legs[Top(s)]), <<0, 1>>)
  BY <1>5 DEF Top
<1> HIDE DEF Eq
<1>7. ASSUME NEW s \in SUBSET (1..3), s # {}, it[s \ {Top(s)}] \in Fraction
      PROVE  it[s] = st[Top(s)][it[s \ {Top(s)}]]
  <2>1. Top(s) \in 1..3
    BY <1>7, TopOf, 3 \in Nat
  <2> QED
    BY <1>3, <1>6, <1>7, <2>1
<1>8. TriangularEnd(legs, <<0, 1>>) = st[3][st[2][st[1][<<1, 1>>]]]
  <2>1. Runs(st, <<1, 1>>, Fraction, 3, it)
    BY <1>6, <1>7 DEF Runs
  <2>2. \A i \in 1..3 : st[i] \in [Fraction -> Fraction]
    BY <1>3
  <2>3. PICK w : RunsTo(st, <<1, 1>>, Fraction, 3, w, it[1..3])
    BY <1>1, <2>1, <2>2, TableRuns, 3 \in Nat
  <2> QED
    BY <1>1, <1>5, <2>3, ThreeSteps
<1>9. /\ st[1][<<1, 1>>] = Through(<<1, 1>>, legs[1])
      /\ st[1][<<1, 1>>] \in Fraction
      /\ st[2][st[1][<<1, 1>>]] = Through(st[1][<<1, 1>>], legs[2])
      /\ st[2][st[1][<<1, 1>>]] \in Fraction
  BY <1>1, <1>3
<1>10. st[3][st[2][st[1][<<1, 1>>]]] = Through(st[2][st[1][<<1, 1>>]], legs[3])
  BY <1>3, <1>9
<1> QED
  BY <1>8, <1>9, <1>10

\* A hop leads along its pair, from its quote by buying or from its base by selling.
HopOf(ps, h) == h.pair \in ps /\ h.side \in {"BUY", "SELL"} /\ h.to = To(h)

\* The hops from an asset leave it, and lead where their pair leads.
LEMMA HopsAre ==
    ASSUME NEW ps, NEW a, NEW h \in Hops(ps, a)
    PROVE  HopOf(ps, h) /\ From(h) = a
BY DEF Hops, HopOf, From, To

\* A path is three hops, each from where the one before it leads, and back; its
\* second asset but one is not the first.
LEMMA PathsAre ==
    ASSUME NEW ps, NEW p \in BuildPaths(ps)
    PROVE  /\ DOMAIN p = 1..3
           /\ \A i \in 1..3 : HopOf(ps, p[i])
           /\ From(p[1]) \in Starts
           /\ To(p[1]) = From(p[2]) /\ To(p[2]) = From(p[3]) /\ To(p[3]) = From(p[1])
           /\ To(p[2]) # From(p[1])
<1>1. PICK start \in Starts : p \in PathsFrom(ps, start)
  BY DEF BuildPaths
<1>2. PICK h1 \in Hops(ps, start) :
        p \in UNION {{<<h1, h2, h3>> : h3 \in {h \in Hops(ps, h2.to) : h.to = start}}
                       : h2 \in {h \in Hops(ps, h1.to) : h.to # start}}
  BY <1>1 DEF PathsFrom
<1>3. PICK h2 \in Hops(ps, h1.to) :
        /\ h2.to # start
        /\ p \in {<<h1, h2, h3>> : h3 \in {h \in Hops(ps, h2.to) : h.to = start}}
  BY <1>2
<1>4. PICK h3 \in Hops(ps, h2.to) : h3.to = start /\ p = <<h1, h2, h3>>
  BY <1>3
<1>5. /\ HopOf(ps, h1) /\ From(h1) = start
      /\ HopOf(ps, h2) /\ From(h2) = h1.to
      /\ HopOf(ps, h3) /\ From(h3) = h2.to
  BY <1>2, <1>3, <1>4, HopsAre
<1>6. h1.to = To(h1) /\ h2.to = To(h2) /\ h3.to = To(h3)
  BY <1>5 DEF HopOf
<1>7. p[1] = h1 /\ p[2] = h2 /\ p[3] = h3 /\ DOMAIN p = 1..3
  BY <1>4
<1> QED
  BY <1>3, <1>4, <1>5, <1>6, <1>7

\* Three different assets are three.
LEMMA ThreeAre ==
    ASSUME NEW a, NEW b, NEW c, a # b, b # c, c # a
    PROVE  Cardinality({a, b, c}) = 3
<1>1. IsFiniteSet({}) /\ Cardinality({}) = 0
  BY FS_EmptySet
<1>2. IsFiniteSet({a}) /\ Cardinality({a}) = 1
  BY FS_Singleton
<1>3. IsFiniteSet({a, b}) /\ Cardinality({a, b}) = 2
  <2>1. {a, b} = {a} \cup {b} /\ b \notin {a}
    OBVIOUS
  <2> QED
    BY <1>2, <2>1, FS_AddElement
<1>4. {a, b, c} = {a, b} \cup {c} /\ c \notin {a, b}
  OBVIOUS
<1> QED
  BY <1>3, <1>4, FS_AddElement

\* A pair trades one asset for another, at a bid no higher than its ask.
LEMMA PairsAre ==
    ASSUME NEW ps \in PairSets, NEW rt \in RateTables, NEW h, HopOf(ps, h)
    PROVE  /\ From(h) # To(h)
           /\ rt[h.pair].bid \in Nat /\ rt[h.pair].ask \in Nat
           /\ rt[h.pair].ask > 0 => rt[h.pair].bid <= rt[h.pair].ask
           /\ EffectivePrice(h, rt) \in Nat
           /\ EffectivePrice(h, rt) > 0 =>
                 EffectivePrice(h, rt) = IF h.side = "BUY" THEN rt[h.pair].ask ELSE rt[h.pair].bid
<1>1. h.pair \in ps /\ h.side \in {"BUY", "SELL"}
  BY DEF HopOf
<1>2. /\ h.pair.base # h.pair.quote
      /\ rt[h.pair] \in [bid : Nat, ask : Nat]
      /\ rt[h.pair].ask > 0 => rt[h.pair].bid <= rt[h.pair].ask
  BY <1>1, ScanningAssumption
<1>3. rt[h.pair].bid \in Nat /\ rt[h.pair].ask \in Nat
  BY <1>2
<1>4. From(h) # To(h)
  BY <1>2 DEF From, To
<1>5. /\ EffectivePrice(h, rt) \in Nat
      /\ EffectivePrice(h, rt) > 0 =>
            EffectivePrice(h, rt) = IF h.side = "BUY" THEN rt[h.pair].ask ELSE rt[h.pair].bid
  BY <1>3 DEF EffectivePrice, Positive
<1> QED
  BY <1>2, <1>3, <1>4, <1>5

\* A path leaves an asset, passes two others and comes back.
LEMMA PathsAreTriangles ==
    ASSUME NEW ps \in PairSets, NEW rt \in RateTables, NEW p \in BuildPaths(ps)
    PROVE  IsTriangle(p)
<1>1. /\ \A i \in 1..3 : HopOf(ps, p[i])
      /\ From(p[1]) \in Starts
      /\ To(p[1]) = From(p[2]) /\ To(p[2]) = From(p[3]) /\ To(p[3]) = From(p[1])
      /\ To(p[2]) # From(p[1])
  BY PathsAre
<1>2. \A i \in 1..3 : From(p[i]) # To(p[i])
  BY <1>1, PairsAre
<1>3. From(p[1]) # From(p[2]) /\ From(p[2]) # From(p[3]) /\ From(p[3]) # From(p[1])
  <2>1. 1 \in 1..3 /\ 2 \in 1..3 /\ 3 \in 1..3
    OBVIOUS
  <2>2. From(p[1]) # To(p[1]) /\ From(p[2]) # To(p[2])
    BY <1>2, <2>1
  <2> QED
    BY <1>1, <2>2
<1>4. {From(p[i]) : i \in 1..3} = {From(p[1]), From(p[2]), From(p[3])}
  <2>1. 1..3 = {1, 2, 3}
    OBVIOUS
  <2> QED
    BY <2>1
<1>5. Cardinality({From(p[1]), From(p[2]), From(p[3])}) = 3
  BY <1>3, ThreeAre
<1> QED
  BY <1>1, <1>4, <1>5 DEF IsTriangle

\* The gain of a priced path is the one compute_triangular_profit finds.
LEMMA SameGain ==
    ASSUME NEW ps \in PairSets, rates \in RateTables, NEW p \in BuildPaths(ps), Priced(p, rates)
    PROVE  Equal(AmountAfter(p, rates), TriangularEnd(Legs(p), <<0, 1>>))
<1> DEFINE L(i) == LegOf(p[i], rates)
<1>1. DOMAIN p = 1..3 /\ \A i \in 1..3 : HopOf(ps, p[i])
  BY PathsAre
<1>2. \A i \in 1..3 :
        /\ EffectivePrice(p[i], rates) \in Nat
        /\ EffectivePrice(p[i], rates) =
             IF p[i].side = "BUY" THEN rates[p[i].pair].ask ELSE rates[p[i].pair].bid
  BY <1>1, PairsAre DEF Priced
<1>3. DOMAIN Legs(p) = 1..3 /\ \A i \in 1..3 : Legs(p)[i] = L(i) /\ L(i).price \in Nat
  BY <1>2 DEF Legs, LegOf
<1>4. 1 \in 1..3 /\ 2 \in 1..3 /\ 3 \in 1..3
  OBVIOUS
<1>5. AmountAfter(p, rates) = Through(Through(Through(<<1, 1>>, L(1)), L(2)), L(3))
  BY <1>1, <1>2, AmountIs
<1>6. TriangularEnd(Legs(p), <<0, 1>>) = Through(Through(Through(<<1, 1>>, L(1)), L(2)), L(3))
  <2>1. \A i \in 1..3 : Legs(p)[i].price \in Nat
    BY <1>3
  <2>2. TriangularEnd(Legs(p), <<0, 1>>) =
          Through(Through(Through(<<1, 1>>, Legs(p)[1]), Legs(p)[2]), Legs(p)[3])
    BY <1>3, <2>1, EndIs
  <2> HIDE DEF L
  <2> QED
    BY <1>3, <1>4, <2>2
<1> DEFINE x == AmountAfter(p, rates)
<1>7. x \in Fraction
  <2>1. <<1, 1>> \in Fraction
    BY DEF Fraction
  <2>2. L(1).price \in Nat /\ L(2).price \in Nat /\ L(3).price \in Nat
    BY <1>3, <1>4
  <2> HIDE DEF L
  <2>3. Through(<<1, 1>>, L(1)) \in Fraction
    BY <2>1, <2>2, ThroughTypes
  <2>4. Through(Through(<<1, 1>>, L(1)), L(2)) \in Fraction
    BY <2>2, <2>3, ThroughTypes
  <2> QED
    BY <1>5, <2>2, <2>4, ThroughTypes
<1>8. x[1] * x[2] = x[1] * x[2]
  OBVIOUS
<1>9. TriangularEnd(Legs(p), <<0, 1>>) = x
  BY <1>5, <1>6
<1> QED
  BY <1>9 DEF Equal

\* What a leg multiplies the numerator and the denominator by.
Num(leg) == IF leg.side = "BUY" THEN 1 ELSE leg.price
Den(leg) == IF leg.side = "BUY" THEN leg.price ELSE 1

\* Three legs multiply both by theirs.
LEMMA ThreeLegs ==
    ASSUME NEW l1, NEW l2, NEW l3,
           l1.price \in Nat, l2.price \in Nat, l3.price \in Nat
    PROVE  /\ {Num(l1), Num(l2), Num(l3), Den(l1), Den(l2), Den(l3)} \subseteq Nat
           /\ Through(Through(Through(<<1, 1>>, l1), l2), l3) =
                 <<Num(l1) * Num(l2) * Num(l3), Den(l1) * Den(l2) * Den(l3)>>
<1>1. {Num(l1), Num(l2), Num(l3), Den(l1), Den(l2), Den(l3)} \subseteq Nat
  BY DEF Num, Den
<1>2. ASSUME NEW x \in Nat, NEW y \in Nat, NEW l, l.price \in Nat
      PROVE  Through(<<x, y>>, l) = <<x * Num(l), y * Den(l)>>
  <2>1. x * 1 = x /\ y * 1 = y
    OBVIOUS
  <2> QED
    BY <2>1 DEF Through, Num, Den
<1>3. Through(<<1, 1>>, l1) = <<Num(l1), Den(l1)>>
  <2>1. 1 * Num(l1) = Num(l1) /\ 1 * Den(l1) = Den(l1)
    BY <1>1
  <2> QED
    BY <1>2, <2>1, 1 \in Nat
<1>4. Through(<<Num(l1), Den(l1)>>, l2) = <<Num(l1) * Num(l2), Den(l1) * Den(l2)>>
  BY <1>1, <1>2
<1>5. Num(l1) * Num(l2) \in Nat /\ Den(l1) * Den(l2) \in Nat
  BY <1>1, ProductIsNat
<1>6. Through(<<Num(l1) * Num(l2), Den(l1) * Den(l2)>>, l3) =
        <<Num(l1) * Num(l2) * Num(l3), Den(l1) * Den(l2) * Den(l3)>>
  BY <1>2, <1>5
<1> QED
  BY <1>1, <1>3, <1>4, <1>6

\* Three factors there and three back cannot both gain when no pair of them does.
LEMMA NoGainBothWays ==
    ASSUME NEW n1 \in Nat, NEW n2 \in Nat, NEW n3 \in Nat, NEW d1 \in Nat, NEW d2 \in Nat, NEW d3 \in Nat,
           NEW m1 \in Nat, NEW m2 \in Nat, NEW m3 \in Nat, NEW e1 \in Nat, NEW e2 \in Nat, NEW e3 \in Nat,
           n1 * m3 <= d1 * e3, n2 * m2 <= d2 * e2, n3 * m1 <= d3 * e1,
           n1 * n2 * n3 > d1 * d2 * d3
    PROVE  ~(m1 * m2 * m3 > e1 * e2 * e3)
<1> SUFFICES ASSUME m1 * m2 * m3 > e1 * e2 * e3 PROVE FALSE
  OBVIOUS
<1>1. \A x, y, z, w \in Nat : x <= y /\ z <= w => x * z <= y * w
  BY SMTT(30)
<1>2. \A x, y, z, w \in Nat : x > y /\ z > w => x * z > y * w
  BY SMTT(30)
<1> DEFINE a1 == n1 * m3
           a2 == n2 * m2
           a3 == n3 * m1
           b1 == d1 * e3
           b2 == d2 * e2
           b3 == d3 * e1
           N == n1 * n2 * n3
           D == d1 * d2 * d3
           M == m1 * m2 * m3
           E == e1 * e2 * e3
<1>3. {a1, a2, a3, b1, b2, b3} \subseteq Nat
  BY ProductIsNat
<1>4. {N, D, M, E} \subseteq Nat
  <2>1. n1 * n2 \in Nat /\ d1 * d2 \in Nat /\ m1 * m2 \in Nat /\ e1 * e2 \in Nat
    BY ProductIsNat
  <2> QED
    BY <2>1, ProductIsNat
<1>5. N * M = a1 * a2 * a3
  BY SMTT(30)
<1>6. D * E = b1 * b2 * b3
  BY SMTT(30)
<1>7. N * M > D * E
  <2>1. N > D /\ M > E
    OBVIOUS
  <2> HIDE DEF N, D, M, E
  <2> QED
    BY <1>2, <1>4, <2>1
<1>8. a1 <= b1 /\ a2 <= b2 /\ a3 <= b3
  OBVIOUS
<1> HIDE DEF a1, a2, a3, b1, b2, b3, N, D, M, E
<1>9. a1 * a2 <= b1 * b2 /\ a1 * a2 \in Nat /\ b1 * b2 \in Nat
  BY <1>1, <1>3, <1>8, ProductIsNat
<1>10. a1 * a2 * a3 <= b1 * b2 * b3
  BY <1>1, <1>3, <1>8, <1>9
<1>11. N * M \in Nat /\ D * E \in Nat
  BY <1>4, ProductIsNat
<1> QED
  BY <1>5, <1>6, <1>7, <1>10, <1>11

\* Two hops over one pair lead the same way or opposite ways.
LEMMA HopsOfOnePair ==
    ASSUME NEW h, NEW g, h.pair = g.pair
    PROVE  \/ From(g) = From(h) /\ To(g) = To(h)
           \/ From(g) = To(h) /\ To(g) = From(h)
BY DEF From, To

\* A pair traded both ways loses its spread.
LEMMA OppositeLegs ==
    ASSUME NEW ps \in PairSets, NEW rt \in RateTables, NEW h, HopOf(ps, h), NEW g, HopOf(ps, g),
           h.pair = g.pair, From(h) # From(g), EffectivePrice(h, rt) > 0, EffectivePrice(g, rt) > 0
    PROVE  Num(LegOf(h, rt)) * Num(LegOf(g, rt)) <= Den(LegOf(h, rt)) * Den(LegOf(g, rt))
<1> DEFINE bid == rt[h.pair].bid
           ask == rt[h.pair].ask
<1>1. h.side \in {"BUY", "SELL"} /\ g.side \in {"BUY", "SELL"} /\ h.side # g.side
  BY DEF HopOf, From
<1>2. bid \in Nat /\ ask \in Nat /\ (ask > 0 => bid <= ask)
  BY PairsAre
<1>3. /\ EffectivePrice(h, rt) = IF h.side = "BUY" THEN ask ELSE bid
      /\ EffectivePrice(g, rt) = IF g.side = "BUY" THEN ask ELSE bid
  BY PairsAre
<1>4. ask > 0
  BY <1>1, <1>3
<1>5. 1 * bid = bid /\ bid * 1 = bid /\ 1 * ask = ask /\ ask * 1 = ask
  BY <1>2
<1>6. CASE h.side = "BUY"
  <2>1. g.side = "SELL"
    BY <1>1, <1>6
  <2>2. /\ Num(LegOf(h, rt)) = 1 /\ Den(LegOf(h, rt)) = ask
        /\ Num(LegOf(g, rt)) = bid /\ Den(LegOf(g, rt)) = 1
    BY <1>3, <1>6, <2>1 DEF LegOf, Num, Den
  <2> HIDE DEF bid, ask
  <2> QED
    BY <1>2, <1>4, <1>5, <2>2
<1>7. CASE h.side = "SELL"
  <2>1. g.side = "BUY"
    BY <1>1, <1>7
  <2>2. /\ Num(LegOf(h, rt)) = bid /\ Den(LegOf(h, rt)) = 1
        /\ Num(LegOf(g, rt)) = 1 /\ Den(LegOf(g, rt)) = ask
    BY <1>3, <1>7, <2>1 DEF LegOf, Num, Den
  <2> HIDE DEF bid, ask
  <2> QED
    BY <1>2, <1>4, <1>5, <2>2
<1> QED
  BY <1>1, <1>6, <1>7

\* The way round passes the same assets backwards.
LEMMA Backwards ==
    ASSUME NEW ps \in PairSets, NEW rt \in RateTables,
           NEW p \in BuildPaths(ps), NEW q \in BuildPaths(ps), WayRound(p, q)
    PROVE  /\ p[1].pair = q[3].pair /\ p[2].pair = q[2].pair /\ p[3].pair = q[1].pair
           /\ From(p[1]) # From(q[3]) /\ From(p[2]) # From(q[2]) /\ From(p[3]) # From(q[1])
<1>1. 1 \in 1..3 /\ 2 \in 1..3 /\ 3 \in 1..3 /\ 4 - 1 = 3 /\ 4 - 2 = 2 /\ 4 - 3 = 1
  OBVIOUS
<1>2. p[1].pair = q[3].pair /\ p[2].pair = q[2].pair /\ p[3].pair = q[1].pair
  <2>1. p[1].pair = q[4 - 1].pair /\ p[2].pair = q[4 - 2].pair /\ p[3].pair = q[4 - 3].pair
    BY <1>1 DEF WayRound
  <2> QED
    BY <1>1, <2>1
<1>3. ASSUME NEW r \in BuildPaths(ps)
      PROVE  /\ To(r[1]) = From(r[2]) /\ To(r[2]) = From(r[3]) /\ To(r[3]) = From(r[1])
             /\ From(r[1]) # From(r[2]) /\ From(r[2]) # From(r[3]) /\ From(r[3]) # From(r[1])
  <2>1. /\ \A i \in 1..3 : HopOf(ps, r[i])
        /\ To(r[1]) = From(r[2]) /\ To(r[2]) = From(r[3]) /\ To(r[3]) = From(r[1])
    BY PathsAre
  <2>2. \A i \in 1..3 : From(r[i]) # To(r[i])
    BY <2>1, PairsAre
  <2>3. From(r[1]) # To(r[1]) /\ From(r[2]) # To(r[2]) /\ From(r[3]) # To(r[3])
    BY <1>1, <2>2
  <2> QED
    BY <2>1, <2>3
<1>4. /\ (From(q[3]) = From(p[1]) /\ To(q[3]) = To(p[1])) \/ (From(q[3]) = To(p[1]) /\ To(q[3]) = From(p[1]))
      /\ (From(q[2]) = From(p[2]) /\ To(q[2]) = To(p[2])) \/ (From(q[2]) = To(p[2]) /\ To(q[2]) = From(p[2]))
      /\ (From(q[1]) = From(p[3]) /\ To(q[1]) = To(p[3])) \/ (From(q[1]) = To(p[3]) /\ To(q[1]) = From(p[3]))
  BY <1>2, HopsOfOnePair
<1>5. /\ To(p[1]) = From(p[2]) /\ To(p[2]) = From(p[3]) /\ To(p[3]) = From(p[1])
      /\ From(p[1]) # From(p[2]) /\ From(p[2]) # From(p[3]) /\ From(p[3]) # From(p[1])
      /\ To(q[1]) = From(q[2]) /\ To(q[2]) = From(q[3]) /\ To(q[3]) = From(q[1])
      /\ From(q[1]) # From(q[2]) /\ From(q[2]) # From(q[3]) /\ From(q[3]) # From(q[1])
  BY <1>3
<1>6. From(p[1]) # From(q[3]) /\ From(p[2]) # From(q[2]) /\ From(p[3]) # From(q[1])
  BY <1>4, <1>5
<1> QED
  BY <1>2, <1>6

\* Of a triangle and the way round at most one gains.
LEMMA OneWayGains ==
    ASSUME NEW ps \in PairSets, NEW rt \in RateTables, NEW p \in WorthOf[ps][rt], NEW q \in WorthOf[ps][rt]
    PROVE  ~WayRound(p, q)
<1> SUFFICES ASSUME WayRound(p, q) PROVE FALSE
  OBVIOUS
<1> DEFINE P(i) == LegOf(p[i], rt)
           Q(i) == LegOf(q[i], rt)
<1>1. /\ p \in BuildPaths(ps) /\ Priced(p, rt) /\ AmountAfter(p, rt)[1] > AmountAfter(p, rt)[2]
      /\ q \in BuildPaths(ps) /\ Priced(q, rt) /\ AmountAfter(q, rt)[1] > AmountAfter(q, rt)[2]
  BY DEF WorthOf, WorthPublishing
<1>2. 1 \in 1..3 /\ 2 \in 1..3 /\ 3 \in 1..3
  OBVIOUS
<1>3. ASSUME NEW r \in BuildPaths(ps), Priced(r, rt)
      PROVE  /\ DOMAIN r = 1..3
             /\ \A i \in 1..3 : /\ HopOf(ps, r[i]) /\ EffectivePrice(r[i], rt) > 0
                                /\ EffectivePrice(r[i], rt) \in Nat /\ LegOf(r[i], rt).price \in Nat
  <2>1. DOMAIN r = 1..3 /\ \A i \in 1..3 : HopOf(ps, r[i])
    BY PathsAre
  <2>2. \A i \in 1..3 : EffectivePrice(r[i], rt) \in Nat /\ EffectivePrice(r[i], rt) > 0
    BY <1>3, <2>1, PairsAre DEF Priced
  <2> QED
    BY <2>1, <2>2 DEF LegOf
<1>4. ASSUME NEW r \in BuildPaths(ps), Priced(r, rt),
             AmountAfter(r, rt)[1] > AmountAfter(r, rt)[2]
      PROVE  /\ {Num(LegOf(r[1], rt)), Num(LegOf(r[2], rt)), Num(LegOf(r[3], rt)),
                 Den(LegOf(r[1], rt)), Den(LegOf(r[2], rt)), Den(LegOf(r[3], rt))} \subseteq Nat
             /\ Num(LegOf(r[1], rt)) * Num(LegOf(r[2], rt)) * Num(LegOf(r[3], rt))
                  > Den(LegOf(r[1], rt)) * Den(LegOf(r[2], rt)) * Den(LegOf(r[3], rt))
  <2> DEFINE R(i) == LegOf(r[i], rt)
  <2>1. AmountAfter(r, rt) = Through(Through(Through(<<1, 1>>, R(1)), R(2)), R(3))
    BY <1>3, <1>4, AmountIs
  <2>2. R(1).price \in Nat /\ R(2).price \in Nat /\ R(3).price \in Nat
    BY <1>2, <1>3, <1>4
  <2> HIDE DEF R
  <2>3. /\ {Num(R(1)), Num(R(2)), Num(R(3)), Den(R(1)), Den(R(2)), Den(R(3))} \subseteq Nat
        /\ Through(Through(Through(<<1, 1>>, R(1)), R(2)), R(3)) =
              <<Num(R(1)) * Num(R(2)) * Num(R(3)), Den(R(1)) * Den(R(2)) * Den(R(3))>>
    BY <2>2, ThreeLegs
  <2>4. Num(R(1)) * Num(R(2)) * Num(R(3)) > Den(R(1)) * Den(R(2)) * Den(R(3))
    BY <1>4, <2>1, <2>3
  <2> QED
    BY <2>3, <2>4 DEF R
<1>5. /\ p[1].pair = q[3].pair /\ p[2].pair = q[2].pair /\ p[3].pair = q[1].pair
      /\ From(p[1]) # From(q[3]) /\ From(p[2]) # From(q[2]) /\ From(p[3]) # From(q[1])
  BY <1>1, Backwards
<1>6. /\ Num(P(1)) * Num(Q(3)) <= Den(P(1)) * Den(Q(3))
      /\ Num(P(2)) * Num(Q(2)) <= Den(P(2)) * Den(Q(2))
      /\ Num(P(3)) * Num(Q(1)) <= Den(P(3)) * Den(Q(1))
  <2>1. \A i \in 1..3 : /\ HopOf(ps, p[i]) /\ EffectivePrice(p[i], rt) > 0
                        /\ HopOf(ps, q[i]) /\ EffectivePrice(q[i], rt) > 0
    BY <1>1, <1>3
  <2> QED
    BY <1>2, <1>5, <2>1, OppositeLegs
<1>7. /\ {Num(P(1)), Num(P(2)), Num(P(3)), Den(P(1)), Den(P(2)), Den(P(3))} \subseteq Nat
      /\ {Num(Q(1)), Num(Q(2)), Num(Q(3)), Den(Q(1)), Den(Q(2)), Den(Q(3))} \subseteq Nat
      /\ Num(P(1)) * Num(P(2)) * Num(P(3)) > Den(P(1)) * Den(P(2)) * Den(P(3))
      /\ Num(Q(1)) * Num(Q(2)) * Num(Q(3)) > Den(Q(1)) * Den(Q(2)) * Den(Q(3))
  BY <1>1, <1>4
<1> HIDE DEF P, Q
<1>8. /\ Num(P(1)) \in Nat /\ Num(P(2)) \in Nat /\ Num(P(3)) \in Nat
      /\ Den(P(1)) \in Nat /\ Den(P(2)) \in Nat /\ Den(P(3)) \in Nat
      /\ Num(Q(1)) \in Nat /\ Num(Q(2)) \in Nat /\ Num(Q(3)) \in Nat
      /\ Den(Q(1)) \in Nat /\ Den(Q(2)) \in Nat /\ Den(Q(3)) \in Nat
  BY <1>7
<1>9. /\ Num(P(1)) * Num(P(2)) * Num(P(3)) > Den(P(1)) * Den(P(2)) * Den(P(3))
      /\ Num(Q(1)) * Num(Q(2)) * Num(Q(3)) > Den(Q(1)) * Den(Q(2)) * Den(Q(3))
  BY <1>7
<1> DEFINE n1 == Num(P(1))
           n2 == Num(P(2))
           n3 == Num(P(3))
           d1 == Den(P(1))
           d2 == Den(P(2))
           d3 == Den(P(3))
           m1 == Num(Q(1))
           m2 == Num(Q(2))
           m3 == Num(Q(3))
           e1 == Den(Q(1))
           e2 == Den(Q(2))
           e3 == Den(Q(3))
<1>10. n1 * n2 * n3 > d1 * d2 * d3 /\ m1 * m2 * m3 > e1 * e2 * e3
  BY <1>9
<1>11. n1 * m3 <= d1 * e3 /\ n2 * m2 <= d2 * e2 /\ n3 * m1 <= d3 * e1
  BY <1>6
<1>12. /\ n1 \in Nat /\ n2 \in Nat /\ n3 \in Nat /\ d1 \in Nat /\ d2 \in Nat /\ d3 \in Nat
       /\ m1 \in Nat /\ m2 \in Nat /\ m3 \in Nat /\ e1 \in Nat /\ e2 \in Nat /\ e3 \in Nat
  BY <1>8
<1> HIDE DEF n1, n2, n3, d1, d2, d3, m1, m2, m3, e1, e2, e3
<1> QED
  BY <1>10, <1>11, <1>12, NoGainBothWays

\* The paths that are being published are triangles that pay, one way round.
LEMMA PublishedTriangles ==
    ScanInv => TrianglesPay
<1> SUFFICES ASSUME ScanInv, NEW s \in Scans, scan[s].at = "path"
             PROVE  /\ IsTriangle(scan[s].path)
                    /\ Equal(AmountAfter(scan[s].path, rates), TriangularEnd(Legs(scan[s].path), <<0, 1>>))
                    /\ \A q \in WorthIt : ~WayRound(scan[s].path, q)
  BY DEF TrianglesPay
<1> DEFINE p == scan[s].path
<1>1. pairs \in PairSets /\ rates \in RateTables /\ p \in WorthOf[pairs][rates]
  BY DEF ScanInv, ScanTypeOK, ScansCarry
<1>2. p \in BuildPaths(pairs) /\ Priced(p, rates)
  BY <1>1 DEF WorthOf, WorthPublishing
<1> HIDE DEF p
<1>3. IsTriangle(p)
  BY <1>1, <1>2, PathsAreTriangles
<1>4. Equal(AmountAfter(p, rates), TriangularEnd(Legs(p), <<0, 1>>))
  BY <1>1, <1>2, SameGain
<1>5. \A q \in WorthIt : ~WayRound(p, q)
  <2>1. \A q \in WorthIt : q \in WorthOf[pairs][rates]
    BY DEF WorthIt
  <2> QED
    BY <1>1, <2>1, OneWayGains
<1> QED
  BY <1>3, <1>4, <1>5 DEF p

\* A published triangle leaves an asset, passes two others and comes back; its
\* gain is the one compute_triangular_profit finds, and the way round is never
\* worth publishing by the same rates.
THEOREM TrianglesAreRight ==
    ScanSpec => []TrianglesPay
<1> QED
  BY ScansAlwaysCarry, PublishedTriangles, PTL

=============================================================================
