--------------------------- MODULE ExecutionEngine ---------------------------
(***************************************************************************)
(* services/execution_engine.py: the life of ONE call of                   *)
(* ExecutionEngine.execute, against exchanges that may answer late, fill   *)
(* only part of an order, acknowledge an order without filling it, or      *)
(* execute an order whose answer never arrived.                            *)
(*                                                                         *)
(* The engine runs on one asyncio loop, so an action is the code between   *)
(* two awaits that really suspend.  The buy and the sell coroutine of a    *)
(* cross-exchange execution are two concurrent tasks; the exchange runs    *)
(* in parallel with all of them and goes on after the engine has given up  *)
(* on an order.  Quantities are whole lots.                                *)
(***************************************************************************)
EXTENDS Integers

CONSTANTS
    Qty,      \* the opportunity's executable_quantity, in lots
    Attempts  \* how often an adapter may send one order's request

ASSUME QtyAssumption      == Qty \in Nat \ {0}
ASSUME AttemptsAssumption == Attempts \in Nat \ {0}

Cross == "CROSS_EXCHANGE"
Tri   == "TRIANGULAR"

Buy    == 0                     \* leg_index of the buy leg of a cross-exchange
Sell   == 1                     \* leg_index of its sell leg
LegIds == 0..2                  \* a triangular execution has three legs
Hedge  == 3                     \* the order that unwinds what the legs left
Orders == LegIds \cup {Hedge}

LegsOf(s) == IF s = Cross THEN {Buy, Sell} ELSE LegIds

VARIABLES
    strategy,   \* opportunity.strategy_type
    phase,      \* where execute() is suspended
    leg,        \* result.legs: what the engine believes of each leg
    order,      \* what the exchange knows of each order the engine placed
    result      \* the ExecutionResult

engineVars == <<strategy, phase, leg, order, result>>

Phases == {"idle", "started", "legs", "single_hedge", "partial_hedge",
           "booking", "done"}

LegStatuses == {"ABSENT", "PENDING", "FILLED", "PARTIAL_FILLED", "FAILED",
                "CANCELED"}

LegErrors == {"", "timed out", "exception", "status NEW", "status"}

\* ABSENT stands for a leg that is not in result.legs.
LegRecords == [status  : LegStatuses,
               planned : Nat,
               actual  : Nat,
               error   : LegErrors]

\* outstanding is what the exchange has been asked for and has not decided;
\* asked counts every attempt, last is the fill of the latest decision.
OrderRecords == [side        : {"NONE", "BUY", "SELL"},
                 qty         : Nat,
                 sent        : Nat,
                 asked       : Nat,
                 outstanding : Nat,
                 filled      : Nat,
                 last        : Nat]

\* error is the class of error_message; pnlQty is the quantity _compute_pnl
\* matched (filled_qty of a cross-exchange result).
ResultRecords == [state  : {"PENDING", "SUBMITTING", "PARTIAL_FILLED",
                            "HEDGING", "COMPLETED", "FAILED", "RISK_REJECTED"},
                  error  : {"", "engine", "both legs failed", "leg failed",
                            "hedged", "hedge failed"},
                  pnlQty : Nat]

Outcome(state, error, q) == [state |-> state, error |-> error, pnlQty |-> q]

AbsentLeg == [status |-> "ABSENT", planned |-> 0, actual |-> 0, error |-> ""]

NoOrder == [side |-> "NONE", qty |-> 0, sent |-> 0, asked |-> 0,
            outstanding |-> 0, filled |-> 0, last |-> 0]

EngineTypeOK ==
    /\ strategy \in {Cross, Tri}
    /\ phase    \in Phases
    /\ leg      \in [LegIds -> LegRecords]
    /\ order    \in [Orders -> OrderRecords]
    /\ result   \in ResultRecords

EngineInit ==
    /\ strategy \in {Cross, Tri}
    /\ phase  = "idle"
    /\ leg    = [l \in LegIds |-> AbsentLeg]
    /\ order  = [o \in Orders |-> NoOrder]
    /\ result = Outcome("PENDING", "", 0)

-----------------------------------------------------------------------------
(***************************************************************************)
(* The exchange side (external: market orders on a spot exchange).         *)
(***************************************************************************)

\* The request of a place_order call: the first attempt creates the order.
Sent(side, q) == [side |-> side, qty |-> q, sent |-> 1, asked |-> q,
                  outstanding |-> q, filled |-> 0, last |-> 0]

Decided(r, q) == [side |-> r.side, qty |-> r.qty, sent |-> r.sent,
                  asked |-> r.asked, outstanding |-> r.outstanding - r.qty,
                  filled |-> r.filled + q, last |-> q]

SentAgain(r) == [side |-> r.side, qty |-> r.qty, sent |-> r.sent + 1,
                 asked |-> r.asked + r.qty, outstanding |-> r.outstanding + r.qty,
                 filled |-> r.filled, last |-> r.last]

\* The exchange decides one request: it fills any part of it, and nothing
\* of that request stays on the book.  This may happen at any time, also
\* after the engine has timed out or finished.
Decide(o) ==
    /\ order[o].outstanding > 0
    /\ order[o].outstanding >= order[o].qty
    /\ \E q \in 0..order[o].qty : order' = [order EXCEPT ![o] = Decided(@, q)]
    /\ UNCHANGED <<strategy, phase, leg, result>>

\* Everything an awaited place_order call can come back with.  An adapter
\* that parses the exchange's answer (Binance) reports the decision; one
\* that only returns the order id (OKX, Bybit) reports NEW and a filled
\* quantity of 0, whatever the exchange does; and the call may raise, with
\* the order placed or not.
StatusOf(q, asked) ==
    IF q = asked THEN {"FILLED"}
    ELSE IF q > 0 THEN {"PARTIALLY_FILLED", "EXPIRED"} ELSE {"EXPIRED"}

Answers(o) ==
    LET decided == IF order[o].outstanding < order[o].asked
                   THEN {[status |-> s, qty |-> order[o].last] :
                            s \in StatusOf(order[o].last, order[o].qty)}
                   ELSE {}
    IN  decided \cup {[status |-> "NEW",       qty |-> 0],
                      [status |-> "EXCEPTION", qty |-> 0]}

\* Mutant: wait until the exchange has decided.
UntimedAnswers(o) == {a \in Answers(o) : a.status \notin {"NEW", "EXCEPTION"}}

TimedAnswers(o) == Answers(o) \cup {[status |-> "TIMEOUT", qty |-> 0]}

\* An adapter's _request repeats the same POST after a read timeout, while
\* the engine still waits for the call to return.
Resend(o) ==
    /\ \/ phase = "legs" /\ o \in LegIds /\ leg[o].status = "PENDING"
       \/ phase \in {"single_hedge", "partial_hedge"} /\ o = Hedge
    /\ order[o].sent > 0
    /\ order[o].sent < Attempts
    /\ order' = [order EXCEPT ![o] = SentAgain(@)]
    /\ UNCHANGED <<strategy, phase, leg, result>>

-----------------------------------------------------------------------------
(***************************************************************************)
(* execute() up to the orders.                                             *)
(***************************************************************************)

\* EXECUTION_STARTED is published and the concurrency counter incremented.
Invoke ==
    /\ phase = "idle"
    /\ phase' = "started"
    /\ UNCHANGED <<strategy, leg, order, result>>

\* ExchangeFactory.get raises for an exchange that was not created.
AdapterMissing ==
    /\ phase = "started"
    /\ phase'  = "booking"
    /\ result' = Outcome("FAILED", "engine", 0)
    /\ UNCHANGED <<strategy, leg, order>>

PlannedLeg(q) == [status |-> "PENDING", planned |-> q, actual |-> 0, error |-> ""]

\* _execute_cross_exchange: both coroutines run to their first await.
PlaceCrossExchange ==
    /\ phase = "started"
    /\ strategy = Cross
    /\ leg'    = [leg EXCEPT ![Buy] = PlannedLeg(Qty), ![Sell] = PlannedLeg(Qty)]
    /\ order'  = [order EXCEPT ![Buy]  = Sent("BUY", Qty),
                               ![Sell] = Sent("SELL", Qty)]
    /\ result' = Outcome("SUBMITTING", "", 0)
    /\ phase'  = "legs"
    /\ UNCHANGED strategy

TriangularSide == [l \in LegIds |-> IF l = 2 THEN "SELL" ELSE "BUY"]

\* _execute_triangular: every leg is planned, only the first is sent.
PlaceTriangular ==
    /\ phase = "started"
    /\ strategy = Tri
    /\ leg'    = [l \in LegIds |-> PlannedLeg(Qty)]
    /\ order'  = [order EXCEPT ![0] = Sent(TriangularSide[0], Qty)]
    /\ result' = Outcome("SUBMITTING", "", 0)
    /\ phase'  = "legs"
    /\ UNCHANGED strategy

-----------------------------------------------------------------------------
(***************************************************************************)
(* What a leg makes of the answer to its order.                            *)
(***************************************************************************)
LegStatus(a) == CASE a.status = "FILLED"           -> "FILLED"
                  [] a.status = "PARTIALLY_FILLED" -> "PARTIAL_FILLED"
                  [] OTHER                         -> "FAILED"

LegError(a) == CASE a.status \in {"FILLED", "PARTIALLY_FILLED"} -> ""
                 [] a.status = "TIMEOUT"                        -> "timed out"
                 [] a.status = "EXCEPTION"                      -> "exception"
                 [] a.status = "NEW"                            -> "status NEW"
                 [] OTHER                                       -> "status"

Settled(l, status, a) == [status |-> status, planned |-> leg[l].planned,
                          actual |-> a.qty,  error |-> LegError(a)]

Canceled(l) == [status |-> "CANCELED", planned |-> leg[l].planned,
                actual |-> leg[l].actual, error |-> leg[l].error]

\* _place_buy and _place_sell: one of the two tasks returns.
CrossLegReturns(l) ==
    /\ phase = "legs"
    /\ strategy = Cross
    /\ leg[l].status = "PENDING"
    /\ \E a \in TimedAnswers(l) :
         leg' = [leg EXCEPT ![l] = Settled(l, LegStatus(a), a)]
    /\ UNCHANGED <<strategy, phase, order, result>>

\* The sequential loop of _execute_triangular: leg l is the one awaited.
Awaited(l) ==
    /\ phase = "legs"
    /\ strategy = Tri
    /\ leg[l].status = "PENDING"
    /\ order[l].sent > 0

NextAsPlanned(l, a) == leg[l].planned        \* mutant: fills are not looked at

\* current_quantity after leg l.
NextQty(l, a) == a.qty

TriangularLegFills(l) ==
    /\ Awaited(l)
    /\ \E a \in TimedAnswers(l) :
         /\ a.status \in {"FILLED", "PARTIALLY_FILLED"}
         /\ IF l < 2
            THEN /\ leg' = [leg EXCEPT ![l] = Settled(l, "FILLED", a),
                                       ![l + 1] = PlannedLeg(NextQty(l, a))]
                 /\ order' = [order EXCEPT
                       ![l + 1] = Sent(TriangularSide[l + 1], NextQty(l, a))]
                 /\ UNCHANGED <<phase, result>>
            ELSE /\ leg' = [leg EXCEPT ![l] = Settled(l, "FILLED", a)]
                 /\ result' = Outcome("COMPLETED", "", 0)
                 /\ phase' = "booking"
                 /\ UNCHANGED order
    /\ UNCHANGED strategy

TriangularLegFails(l) ==
    /\ Awaited(l)
    /\ \E a \in TimedAnswers(l) :
         /\ a.status \notin {"FILLED", "PARTIALLY_FILLED"}
         /\ leg' = [k \in LegIds |->
                      IF k = l THEN Settled(l, "FAILED", a)
                      ELSE IF k > l THEN Canceled(k)
                      ELSE leg[k]]
    /\ result' = Outcome("FAILED", "leg failed", 0)
    /\ phase' = "booking"
    /\ UNCHANGED <<strategy, order>>

-----------------------------------------------------------------------------
(***************************************************************************)
(* _execute_cross_exchange after the gather.                               *)
(***************************************************************************)
Gathered ==
    /\ phase = "legs"
    /\ strategy = Cross
    /\ \A l \in {Buy, Sell} : leg[l].status # "PENDING"

Lesser(m, n) == IF m < n THEN m ELSE n

\* _compute_pnl of two legs: the quantity both sides report.
MatchedQty == Lesser(leg[Buy].actual, leg[Sell].actual)

AnyPartial == \E l \in {Buy, Sell} : leg[l].status = "PARTIAL_FILLED"

BothFilled ==
    /\ Gathered
    /\ \A l \in {Buy, Sell} : leg[l].status = "FILLED"
    /\ result' = Outcome("COMPLETED", "", MatchedQty)
    /\ phase' = "booking"
    /\ UNCHANGED <<strategy, leg, order>>

BothFailed ==
    /\ Gathered
    /\ \A l \in {Buy, Sell} : leg[l].status = "FAILED"
    /\ result' = Outcome("FAILED", "both legs failed", 0)
    /\ phase' = "booking"
    /\ UNCHANGED <<strategy, leg, order>>

\* _hedge_single_leg on the adapter of the leg that filled.
PlaceSingleHedge(filled, failed, side) ==
    /\ Gathered
    /\ leg[filled].status = "FILLED"
    /\ leg[failed].status = "FAILED"
    /\ order'  = [order EXCEPT ![Hedge] = Sent(side, leg[filled].actual)]
    /\ result' = Outcome("HEDGING", "", 0)
    /\ phase'  = "single_hedge"
    /\ UNCHANGED <<strategy, leg>>

\* Mutant: the hedge repeats the failed leg's opposite.
OneFailedSwapped == \/ PlaceSingleHedge(Sell, Buy, "SELL")
                    \/ PlaceSingleHedge(Buy, Sell, "BUY")

OneFailed == \/ PlaceSingleHedge(Sell, Buy, "BUY")
             \/ PlaceSingleHedge(Buy, Sell, "SELL")

SingleHedgeReturns ==
    /\ phase = "single_hedge"
    /\ \E a \in TimedAnswers(Hedge) :
         result' = IF a.status \in {"FILLED", "PARTIALLY_FILLED"}
                   THEN Outcome("COMPLETED", "hedged", 0)
                   ELSE Outcome("FAILED", "hedge failed", 0)
    /\ phase' = "booking"
    /\ UNCHANGED <<strategy, leg, order>>

\* _handle_partial_fill: only a leg that reports a fill counts as filled,
\* and an excess is hedged only if both sides do.
ReportedFill(l) ==
    IF leg[l].status \in {"FILLED", "PARTIAL_FILLED"} THEN leg[l].actual ELSE 0

Excess == ReportedFill(Buy) - ReportedFill(Sell)

\* Mutant: only an excess on the buy side is hedged.
HedgeableBuyExcess == /\ Excess > 0
                      /\ ReportedFill(Sell) > 0

HedgeableExcess == /\ Excess # 0
                   /\ ReportedFill(Buy) > 0
                   /\ ReportedFill(Sell) > 0

SellExcess == Sent("SELL", Excess)           \* mutant: whatever the sign

ReverseExcess == IF Excess > 0 THEN Sent("SELL", Excess) ELSE Sent("BUY", -Excess)

PlacePartialHedge ==
    /\ Gathered
    /\ AnyPartial
    /\ HedgeableExcess
    /\ order' = [order EXCEPT ![Hedge] = ReverseExcess]
    /\ result' = Outcome("PARTIAL_FILLED", "", 0)
    /\ phase' = "partial_hedge"
    /\ UNCHANGED <<strategy, leg>>

AcceptPartial == Outcome("COMPLETED", "", MatchedQty)

KeepPartial ==
    /\ Gathered
    /\ AnyPartial
    /\ ~HedgeableExcess
    /\ result' = AcceptPartial
    /\ phase' = "booking"
    /\ UNCHANGED <<strategy, leg, order>>

\* The hedge's outcome is not looked at: its exceptions are swallowed too.
\* There is no wait_for here; the HTTP client's own timeout is an exception.
PartialHedgeReturns ==
    /\ phase = "partial_hedge"
    /\ result' = AcceptPartial
    /\ phase' = "booking"
    /\ UNCHANGED <<strategy, leg, order>>

\* The tail of execute(): decrement_concurrent, record_execution_result,
\* record_daily_pnl, _persist_execution and the completion event.  None of
\* them raises, and none touches the state of this module.
Book ==
    /\ phase = "booking"
    /\ phase' = "done"
    /\ UNCHANGED <<strategy, leg, order, result>>

-----------------------------------------------------------------------------
EngineStep ==
    \/ AdapterMissing
    \/ PlaceCrossExchange
    \/ PlaceTriangular
    \/ \E l \in {Buy, Sell} : CrossLegReturns(l)
    \/ \E l \in LegIds : TriangularLegFills(l) \/ TriangularLegFails(l)
    \/ BothFilled
    \/ BothFailed
    \/ OneFailed
    \/ SingleHedgeReturns
    \/ PlacePartialHedge
    \/ KeepPartial
    \/ PartialHedgeReturns
    \/ Book

ExchangeStep == \E o \in Orders : Decide(o) \/ Resend(o)

-----------------------------------------------------------------------------
(***************************************************************************)
(* What is promised about the money.                                       *)
(***************************************************************************)
Signed(o) == CASE order[o].side = "BUY"  -> order[o].filled
               [] order[o].side = "SELL" -> -order[o].filled
               [] OTHER                  -> 0

\* The base asset bought minus the base asset sold, on all exchanges, by a
\* cross-exchange execution, as the exchanges (not the engine) know it.
Position == Signed(Buy) + Signed(Sell) + Signed(Hedge)

\* What the adapters' repeated requests added to what the engine asked for.
Repeated == LET extra(o) == order[o].asked - order[o].qty
            IN  extra(Buy) + extra(Sell) + extra(Hedge)

\* Whatever the exchanges do and however late they do it, a cross-exchange
\* execution never leaves more than one order's quantity unhedged, plus what
\* repeated requests bought or sold twice: the hedges of _hedge_single_leg and
\* _handle_partial_fill never add to the exposure they are to remove.
ExposureBounded ==
    strategy = Cross => /\ Position <= Qty + Repeated
                        /\ -Position <= Qty + Repeated

\* The engine's belief is the exchange's truth: every order it placed is
\* decided, and its leg reports what was filled.
Truthful == /\ \A o \in Orders : order[o].outstanding = 0
            /\ \A l \in {Buy, Sell} : leg[l].actual = order[l].filled
            /\ \A l \in {Buy, Sell} :
                  leg[l].status = "FAILED" => order[l].filled = 0

\* A cross-exchange execution that ends COMPLETED leaves nothing unhedged,
\* provided the answers were truthful, the hedge (if there was one) filled
\* completely, and not just one side of a partial fill traded: the three ways
\* in which _handle_partial_fill and _hedge_single_leg call it a success
\* although exposure remains.
CompletedIsFlat ==
    (/\ strategy = Cross
     /\ phase = "done"
     /\ result.state = "COMPLETED"
     /\ Truthful
     /\ order[Hedge].filled = order[Hedge].qty
     /\ ~(AnyPartial /\ \E l \in {Buy, Sell} : leg[l].actual = 0))
       => Position = 0

\* A triangular execution never orders more in a leg than the leg before it
\* really filled, whatever was reported and however often an order was sent.
\* (The number is carried over as it is; the code does not convert it to the
\* base asset of the next symbol.)
CarriesOnlyFills ==
    strategy = Tri =>
        \A l \in {1, 2} : order[l].qty <= order[l - 1].filled

\* The quantity on which _compute_pnl books a cross-exchange profit was
\* really bought and really sold.
BookedQuantityWasTraded ==
    strategy = Cross => \A l \in {Buy, Sell} : result.pnlQty <= order[l].filled

\* What a cross-exchange execution reports about money is so: a success leaves
\* nothing open but in the three named ways, and its profit is booked on a
\* quantity that was traded. (execution_engine.py, execute and _compute_pnl)
BooksAreTrue == CompletedIsFlat /\ BookedQuantityWasTraded

-----------------------------------------------------------------------------
(***************************************************************************)
(* The inductive strengthening of the three properties that hold at every  *)
(* moment.                                                                 *)
(***************************************************************************)

\* Nothing happens before the orders are placed.
Untouched ==
    phase \in {"idle", "started"} =>
        /\ \A l \in LegIds : leg[l] = AbsentLeg
        /\ \A o \in Orders : order[o] = NoOrder

\* The exchange fills no more than it was asked for.
Accounts ==
    \A o \in Orders :
        /\ order[o].filled + order[o].outstanding <= order[o].asked
        /\ order[o].last <= order[o].filled
        /\ order[o].qty <= order[o].asked
        /\ order[o].side = "NONE" => order[o] = NoOrder

\* The engine never believes in a fill the exchange did not make; it can only
\* miss one.
BeliefIsConservative == \A l \in LegIds : leg[l].actual <= order[l].filled

\* A cross-exchange execution buys with its first order and sells with its
\* second, and the order that hedges never exceeds the fill it reverses.
HedgeReversesFill ==
    strategy = Cross =>
        /\ order[Buy].side # "SELL" /\ order[Buy].qty <= Qty
        /\ order[Sell].side # "BUY" /\ order[Sell].qty <= Qty
        /\ order[Hedge].side # "NONE" => phase \notin {"idle", "started", "legs"}
        /\ order[Hedge].side = "BUY"  => order[Hedge].qty <= leg[Sell].actual
        /\ order[Hedge].side = "SELL" => order[Hedge].qty <= leg[Buy].actual

\* A leg of a triangular execution is sent after the leg before it filled.
InSequence ==
    strategy = Tri =>
        \A l \in {1, 2} : order[l].side # "NONE" =>
            leg[l - 1].status = "FILLED" /\ order[l - 1].side # "NONE"

\* These together hold initially and are preserved by every step.
EngineInv ==
    /\ Untouched
    /\ Accounts
    /\ BeliefIsConservative
    /\ HedgeReversesFill
    /\ InSequence
    /\ CarriesOnlyFills
    /\ BookedQuantityWasTraded
=============================================================================
