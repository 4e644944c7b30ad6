----------------------------- MODULE MCPlanning -----------------------------
(* A spread of 100 %, and a ticker without prices; a book that is ahead of   *)
(* the ticker and thinner than some of the orders.  At first no market has   *)
(* a book or all have the same; a change makes one of them differ.           *)
EXTENDS Planning

Rate(bid, ask) == [bid |-> bid, ask |-> ask]
MCRates == {Rate(4, 2), Rate(0, 0)}

Level(price, qty) == [price |-> price, qty |-> qty]
MCBooks == {[asks |-> <<Level(6, 1), Level(7, 3)>>, bids |-> <<Level(5, 3), Level(3, 1)>>]}

MCFirstBooks == {[m \in Markets |-> b] : b \in MCBooks \cup {None}}
=============================================================================
