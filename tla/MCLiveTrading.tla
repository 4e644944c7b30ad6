--------------------------- MODULE MCLiveTrading ---------------------------
(***************************************************************************)
(* An instance of LiveTrading for TLC: two callers, two exchanges of which *)
(* one may get a breaker, one symbol.                                      *)
(***************************************************************************)
EXTENDS LiveTrading, TLC

CONSTANTS a, b, e1, e2, btc, cross

TwoCallers    == {a, b}
TwoExchanges  == {e1, e2}
OneSymbol     == {btc}
OneStrategy   == {cross}
BreakerOnE1   == {e1}
OneNotional   == {2}
SomeChoices   == {"paper", "live"}

\* Started live without being enabled for it, and started on a small scale
\* with one exchange listed and both modes enabled.
SomeConfigs ==
    {[tradingMode |-> "live", enabled |-> FALSE, enableSmall |-> TRUE,
      exchanges |-> {}, symbols |-> {}, strategies |-> {cross}, keys |-> {e1, e2}],
     [tradingMode |-> "live_small", enabled |-> TRUE, enableSmall |-> TRUE,
      exchanges |-> {e1}, symbols |-> {btc}, strategies |-> {}, keys |-> {e1}]}

\* The callers are interchangeable, and no property is a liveness property.
Interchangeable == Permutations(TwoCallers)
=============================================================================
