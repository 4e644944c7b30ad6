--------------------------- MODULE MCPaperExchange ---------------------------
(***************************************************************************)
(* Instances of PaperExchange for TLC.                                     *)
(***************************************************************************)
EXTENDS PaperExchange, TLC

CONSTANTS o1, o2, o3

ThreeOrders == {o1, o2, o3}

\* Two prices, so that a limit can lie on either side of the market.
TwoPrices == {10, 20}

TenPercent == [p \in TwoPrices |-> p \div 10]

OneLot == {1}

Interchangeable == Permutations(ThreeOrders)
=============================================================================
