----------------------------- MODULE Portfolio ------------------------------
(***************************************************************************)
(* What services/inventory.py derives from its cache: values, the share of *)
(* each exchange, and suggestions to move an asset from an exchange that   *)
(* holds too much to one that holds too little.                            *)
(*                                                                         *)
(* A table t gives the amount of an asset on an exchange, or None.  Shares *)
(* are compared as fractions of a total: no division occurs.               *)
(***************************************************************************)
EXTENDS Integers, Sequences, SequencesExt, FiniteSetsExt

CONSTANTS
    Stablecoins,   \* assets that are worth what they are
    UsdtPrice,     \* [asset -> last price in USDT], 0 without a ticker
    BtcPrice,      \* [asset -> last price in BTC]
    Bitcoin,       \* the last price of BTC/USDT
    Threshold,     \* threshold_pct of a suggestion
    None           \* no entry

\* _estimate_usd_value
UsdValue(asset, n) ==
    CASE asset \in Stablecoins -> n
      [] asset \notin Stablecoins /\ UsdtPrice[asset] > 0 -> n * UsdtPrice[asset]
      [] OTHER -> n * BtcPrice[asset] * Bitcoin

AmountIn(t, e, a) == IF t[e][a] = None THEN 0 ELSE t[e][a]

\* get_exchange_allocation and get_exposure: the value on an exchange
ExchangeValue(t, e, assets) ==
    SumFunction([a \in DOMAIN assets |-> UsdValue(assets[a], AmountIn(t, e, a))])

\* get_total_value_usdt
TotalValue(t, assets) == SumFunction([e \in DOMAIN t |-> ExchangeValue(t, e, assets)])

\* concentration_risk of get_exposure, times the square of the total
Concentration(t, assets) ==
    SumFunction([e \in DOMAIN t |-> ExchangeValue(t, e, assets) * ExchangeValue(t, e, assets)])

-----------------------------------------------------------------------------
(***************************************************************************)
(* detect_imbalance, for an asset and equal shares of all exchanges that   *)
(* hold it.  A deviation is multiplied by the number of these exchanges.   *)
(***************************************************************************)
Holders(t, a) == {e \in DOMAIN t : t[e][a] # None}
Held(t, a) == SumFunction([e \in Holders(t, a) |-> t[e][a]])

Deviation(t, e, a) == Cardinality(Holders(t, a)) * t[e][a] - Held(t, a)

\* generate_rebalance_suggestions: who holds too much and who too little
Beyond(t, deviation, a) == 100 * deviation > Threshold * Cardinality(Holders(t, a)) * Held(t, a)

Over(t, a) == {e \in Holders(t, a) : Beyond(t, Deviation(t, e, a), a)}
Under(t, a) == {e \in Holders(t, a) : Beyond(t, -Deviation(t, e, a), a)}

WholeSurplus(t, from, to, a) == Deviation(t, from, a)    \* mutant: all that is too much

\* The smaller of the two deviations goes from the one to the other.
Transfer(t, from, to, a) == Min({Deviation(t, from, a), -Deviation(t, to, a)})

Given(t, from, a) == SumFunction([to \in Under(t, a) |-> Transfer(t, from, to, a)])
Received(t, to, a) == SumFunction([from \in Over(t, a) |-> Transfer(t, from, to, a)])
=============================================================================
