---------------------------- MODULE PaperAccount ----------------------------
(***************************************************************************)
(* What the trader's account at a paper exchange promises, whatever is     *)
(* reserved, released and cancelled meanwhile: the totals of the two       *)
(* assets change only when an order settles, each order settles at most    *)
(* once, and a settlement exchanges a quantity for its value at a price    *)
(* of the market.                                                          *)
(***************************************************************************)
EXTENDS Integers

CONSTANTS Orders, Qtys, Prices,
          Fee           \* of one lot at a price

VARIABLES base, quote,  \* the totals of the two assets
          settled       \* the orders that have settled

vars == <<base, quote, settled>>

Init == base \in Nat /\ quote \in Nat /\ settled = {}

\* The buyer may be let off the fee.
Buy(q, p) == /\ base' = base + q
             /\ quote' \in {quote - q * p, quote - q * (p + Fee[p])}

Sell(q, p) == /\ base' = base - q
              /\ quote' = quote + q * (p - Fee[p])

Settle(o) == /\ o \notin settled
             /\ settled' = settled \cup {o}
             /\ \E q \in Qtys, p \in Prices : Buy(q, p) \/ Sell(q, p)

Next == \E o \in Orders : Settle(o)

Spec == Init /\ [][Next]_vars
=============================================================================
