---------------------------- MODULE PaperExchange ----------------------------
(***************************************************************************)
(* exchanges/mock.py: the exchange of paper trading, which every PAPER     *)
(* execution trades on.  Orders reserve their funds at once and are filled *)
(* by a coroutine that sleeps first (a network delay, and for a limit      *)
(* order a delay of its own before it), so reservations, fills, cancels    *)
(* and the orders of other executions interleave.  One symbol, with its    *)
(* base and its quote asset; quantities are whole lots, and whatever price *)
(* the random walk has when it is read is any of Prices.                   *)
(***************************************************************************)
EXTENDS Integers, FiniteSetsExt

CONSTANTS
    Orders,         \* the orders that are placed
    Qtys,           \* their quantities
    Prices,         \* the prices the market takes
    Fee,            \* the fee on one lot at a price
    Base, Quote     \* the initial balances

ASSUME OrdersAssumption  == IsFiniteSet(Orders)
ASSUME QtysAssumption    == Qtys \subseteq Nat \ {0}
ASSUME PricesAssumption  == Prices \subseteq Nat \ {0}
ASSUME FeeAssumption     == Fee \in [Prices -> Nat] /\ \A p \in Prices : Fee[p] <= p
ASSUME BalanceAssumption == Base \in Nat /\ Quote \in Nat

VARIABLES
    baseFree, baseLocked,    \* _balances of the base asset
    quoteFree, quoteLocked,  \* _balances of the quote asset
    order,    \* _orders; those with status NEW are _open_orders
    task,     \* where the coroutine that is to fill an order sleeps
    late      \* history: orders cancelled during the delay of their fill

balances == <<baseFree, baseLocked, quoteFree, quoteLocked>>
vars == <<balances, order, task, late>>

\* A limit of 0 is a price of None.
OrderRecords == [side   : {"BUY", "SELL"},
                 type   : {"MARKET", "LIMIT"},
                 qty    : Qtys \cup {0},
                 limit  : Prices \cup {0},
                 status : {"NONE", "NEW", "FILLED", "CANCELED"}]

NoOrder == [side |-> "BUY", type |-> "MARKET", qty |-> 0, limit |-> 0,
            status |-> "NONE"]

\* That the free balances are natural numbers says that no order ever spends
\* what another has reserved; locked balances are not so lucky.
TypeOK == /\ baseFree \in Nat /\ quoteFree \in Nat
          /\ baseLocked \in Int /\ quoteLocked \in Int
          /\ order \in [Orders -> OrderRecords]
          /\ task \in [Orders -> {"none", "waiting", "filling", "ended"}]
          /\ late \subseteq Orders

Init == /\ baseFree = Base /\ baseLocked = 0
        /\ quoteFree = Quote /\ quoteLocked = 0
        /\ order = [o \in Orders |-> NoOrder]
        /\ task = [o \in Orders |-> "none"]
        /\ late = {}

-----------------------------------------------------------------------------
(***************************************************************************)
(* place_order up to the first await: check, reserve, record.  An order    *)
(* that the free balance does not cover raises and changes nothing.        *)
(***************************************************************************)
HoldsFunds(free, locked, amount) == free + locked >= amount     \* mutant

HasFunds(free, locked, amount) == free >= amount

Terms == {[type |-> "MARKET", limit |-> 0]}
            \cup {[type |-> "LIMIT", limit |-> p] : p \in Prices}

New(side, q, terms) == [side |-> side, type |-> terms.type, qty |-> q,
                        limit |-> terms.limit, status |-> "NEW"]

\* A market order is filled by the coroutine that placed it, a limit order by
\* a task of its own, which sleeps before it looks at the order.
Opened(o, side, q, terms) ==
    /\ order' = [order EXCEPT ![o] = New(side, q, terms)]
    /\ task' = [task EXCEPT ![o] =
                  IF terms.type = "MARKET" THEN "filling" ELSE "waiting"]

ReservedAtPrice(q, limit, p) == q * p      \* mutant: the limit is not looked at

\* quantity * (price or the price just read)
Reserved(q, limit, p) == q * (IF limit = 0 THEN p ELSE limit)

PlaceBuy(o) ==
    /\ order[o].status = "NONE"
    /\ \E q \in Qtys, terms \in Terms, p \in Prices :
         LET amount == Reserved(q, terms.limit, p)
         IN  /\ HasFunds(quoteFree, quoteLocked, amount)
             /\ quoteFree' = quoteFree - amount
             /\ quoteLocked' = quoteLocked + amount
             /\ Opened(o, "BUY", q, terms)
    /\ UNCHANGED <<baseFree, baseLocked, late>>

PlaceSell(o) ==
    /\ order[o].status = "NONE"
    /\ \E q \in Qtys, terms \in Terms :
         /\ HasFunds(baseFree, baseLocked, q)
         /\ baseFree' = baseFree - q
         /\ baseLocked' = baseLocked + q
         /\ Opened(o, "SELL", q, terms)
    /\ UNCHANGED <<quoteFree, quoteLocked, late>>

-----------------------------------------------------------------------------
(***************************************************************************)
(* _maybe_fill_limit after its first sleep, and _fill_order after the      *)
(* network delay.                                                          *)
(***************************************************************************)
NotChecked(o) == TRUE                      \* mutant: a cancelled order too

StillOpen(o) == order[o].status = "NEW"

\* Nine times out of ten an open order goes on to be filled.
LimitWakes(o) ==
    /\ task[o] = "waiting"
    /\ \E next \in {"filling", "ended"} :
         /\ next = "filling" => StillOpen(o)
         /\ task' = [task EXCEPT ![o] = next]
    /\ UNCHANGED <<balances, order, late>>

Filled(o) == [side |-> order[o].side, type |-> order[o].type, qty |-> order[o].qty,
              limit |-> order[o].limit, status |-> "FILLED"]

\* The order is not looked at again: neither its status nor its limit.
Settles(o, side) ==
    /\ task[o] = "filling"
    /\ order[o].side = side
    /\ order' = [order EXCEPT ![o] = Filled(o)]
    /\ task' = [task EXCEPT ![o] = "ended"]
    /\ UNCHANGED late

RefundAll(reserved, cost) == reserved      \* mutant: nothing is paid

\* max(0, reserved - actual_cost)
Refund(reserved, cost) == IF reserved > cost THEN reserved - cost ELSE 0

FillBuy(o) ==
    /\ Settles(o, "BUY")
    /\ \E p \in Prices :
         LET q        == order[o].qty
             reserved == Reserved(q, order[o].limit, p)
         IN  /\ quoteLocked' = quoteLocked - reserved
             /\ quoteFree' = quoteFree + Refund(reserved, q * (p + Fee[p]))
             /\ baseFree' = baseFree + q
    /\ UNCHANGED baseLocked

FillSell(o) ==
    /\ Settles(o, "SELL")
    /\ \E p \in Prices :
         /\ baseLocked' = baseLocked - order[o].qty
         /\ quoteFree' = quoteFree + order[o].qty * (p - Fee[p])
    /\ UNCHANGED <<baseFree, quoteLocked>>

\* The coroutine of a market order is cancelled in its sleep (wait_for in the
\* engine, or a shutdown): nothing undoes the reservation.
Abandon(o) ==
    /\ task[o] = "filling"
    /\ order[o].type = "MARKET"
    /\ task' = [task EXCEPT ![o] = "ended"]
    /\ UNCHANGED <<balances, order, late>>

-----------------------------------------------------------------------------
(***************************************************************************)
(* cancel_order.  It knows only whether the order is in _open_orders.      *)
(***************************************************************************)
Canceled(o) == [side |-> order[o].side, type |-> order[o].type, qty |-> order[o].qty,
                limit |-> order[o].limit, status |-> "CANCELED"]

Withdraws(o, side) ==
    /\ StillOpen(o)
    /\ order[o].side = side
    /\ order' = [order EXCEPT ![o] = Canceled(o)]
    /\ late' = IF task[o] = "filling" THEN late \cup {o} ELSE late
    /\ UNCHANGED task

CancelBuy(o) ==
    /\ Withdraws(o, "BUY")
    /\ \E p \in Prices :
         LET amount == Reserved(order[o].qty, order[o].limit, p)
         IN  /\ quoteLocked' = quoteLocked - amount
             /\ quoteFree' = quoteFree + amount
    /\ UNCHANGED <<baseFree, baseLocked>>

CancelSell(o) ==
    /\ Withdraws(o, "SELL")
    /\ baseLocked' = baseLocked - order[o].qty
    /\ baseFree' = baseFree + order[o].qty
    /\ UNCHANGED <<quoteFree, quoteLocked>>

-----------------------------------------------------------------------------
Next == \E o \in Orders :
           \/ PlaceBuy(o) \/ PlaceSell(o)
           \/ LimitWakes(o)
           \/ FillBuy(o) \/ FillSell(o)
           \/ Abandon(o)
           \/ CancelBuy(o) \/ CancelSell(o)

Spec == Init /\ [][Next]_vars

-----------------------------------------------------------------------------
(***************************************************************************)
(* Properties.                                                             *)
(***************************************************************************)
Having(side, status) ==
    {o \in Orders : order[o].side = side /\ order[o].status = status}

\* Cancelled during their fill, and filled all the same.
Raced(side) == Having(side, "FILLED") \cap late

QtyOf(o) == order[o].qty

ValueAtLimit(o) == order[o].qty * order[o].limit

\* What is locked is what the open orders have reserved, less what an order
\* released twice because it was cancelled during the delay of its fill.  On
\* the quote side this holds as long as there are no market buys, which reserve
\* at one price and release at another.
LockedIsReserved ==
    /\ baseLocked = MapThenSumSet(QtyOf, Having("SELL", "NEW"))
                    - MapThenSumSet(QtyOf, Raced("SELL"))
    /\ (\A o \in Orders : order[o].side = "BUY" => order[o].type = "LIMIT" \/ order[o].status = "NONE")
         => quoteLocked = MapThenSumSet(ValueAtLimit, Having("BUY", "NEW"))
                          - MapThenSumSet(ValueAtLimit, Raced("BUY"))

\* A cancelled order is filled only if its fill had already been sent when the
\* cancel came: cancelling is safe while the task of a limit order still waits.
OnlyLateCancelsFail ==
    \A o \in Orders :
        /\ o \in late => order[o].status \in {"CANCELED", "FILLED"}
        /\ (order[o].status = "CANCELED" /\ task[o] = "filling") => o \in late

\* The account behind all this is a plain one: reservations, cancels (also late
\* ones) and abandoned orders never change what the trader owns, and an order
\* never settles twice.
Account == INSTANCE PaperAccount WITH
             base    <- baseFree + baseLocked,
             quote   <- quoteFree + quoteLocked,
             settled <- {o \in Orders : order[o].status = "FILLED"}

ImplementsAccount == Account!Spec
=============================================================================
