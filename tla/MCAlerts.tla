------------------------------ MODULE MCAlerts ------------------------------
(***************************************************************************)
(* An instance of Alerts for TLC: the cooldowns of the built-in rules      *)
(* shortened to what the order of alerts tells apart.                      *)
(***************************************************************************)
EXTENDS Alerts, TLC

CONSTANTS binance, okx

TwoExchanges  == {binance, okx}
ShortCooldown == [r \in AlertNames |-> IF r \in {"exchange_disconnected", "data_stale"}
                                       THEN 1 ELSE 2]
LossAndProfit == {-2, 0, 2}
SomeBalances  == {0, 3}

Interchangeable == Permutations(TwoExchanges)
=============================================================================
