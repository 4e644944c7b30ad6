----------------------------- MODULE RiskRules ------------------------------
(***************************************************************************)
(* The rules of services/risk_engine.py on an opportunity and its context, *)
(* and the order in which RiskEngine.evaluate goes through them.  Three of *)
(* them ask Redis and wait for the answer; RiskGate.tla models what they   *)
(* read.  The others decide at once, on what they find when their turn     *)
(* comes.                                                                  *)
(*                                                                         *)
(* Prices, amounts and percentages are whole numbers.                      *)
(***************************************************************************)
EXTENDS Integers, SequencesExt, FiniteSetsExt

\* The settings: max_order_value_usdt, max_slippage_pct, min_profit_threshold_pct
\* and _usdt, min_depth_usdt, max_position_value_usdt, enabled_pairs.
CONSTANTS
    MaxOrderValue, MaxSlippage, MinProfitPct, MinProfitUsdt, MinDepth, MaxPosition, Whitelist

ASSUME RiskRulesAssumption ==
    {MaxOrderValue, MaxSlippage, MinProfitPct, MinProfitUsdt, MinDepth, MaxPosition} \subseteq Nat

\* _build_default_rules
RuleNames ==
    <<"max_order_value", "max_daily_loss", "max_consecutive_failures", "max_slippage",
      "min_profit", "min_depth", "data_freshness", "balance_sufficiency", "max_exposure",
      "max_concurrent", "symbol_whitelist_blacklist", "min_orderbook_depth">>

AllRules == {RuleNames[i] : i \in DOMAIN RuleNames}
RedisRules == {"max_daily_loss", "max_consecutive_failures", "max_concurrent"}

\* The rules that main.py's _on_opportunity disables while it executes on paper.
PaperSkipRules ==
    {"min_profit", "min_depth", "min_orderbook_depth", "balance_sufficiency", "data_freshness"}

-----------------------------------------------------------------------------
(***************************************************************************)
(* An opportunity o is a record                                            *)
(*   [strategy, symbol, exchanges, markets, buyPrice, sellPrice, qty,      *)
(*    value, netPct, slipPct, buyFee, sellFee, depthBuy, depthSell]        *)
(* and a context c is [balances, exposure]: what is free of the quote asset*)
(* where it buys and of the base asset where it sells, and the value of    *)
(* what is held on each exchange.                                          *)
(***************************************************************************)
Shallower(o) == Min({o.depthBuy, o.depthSell})

ProfitTooSmall(o) ==
    \/ o.netPct < MinProfitPct
    \/ MinProfitUsdt > 0 /\ o.value * o.netPct < MinProfitUsdt * 100

\* MinOrderbookDepthRule looks only at an opportunity that carries a depth,
\* MinDepthRule at every one.
CarriesDepth(o) == o.depthBuy > 0 \/ o.depthSell > 0

ThinIfKnown(o) == CarriesDepth(o) /\ Shallower(o) < MinDepth   \* mutant: for both rules
TooThin(o) == Shallower(o) < MinDepth

\* BalanceSufficiencyRule; a triangle is not looked at.
Uncovered(o, c) ==
    /\ o.strategy = "cross"
    /\ \/ c.balances["quote"] < o.value
       \/ c.balances["base"] < o.qty

Overexposed(o, c) ==
    \E e \in o.exchanges : c.exposure[e] + o.value > MaxPosition

\* The rules among the given ones that refuse an opportunity on the spot.
Refusing(rules, o, c, stale) ==
    {r \in rules :
        \/ r = "max_order_value" /\ o.value > MaxOrderValue
        \/ r = "max_slippage" /\ o.slipPct > MaxSlippage
        \/ r = "min_profit" /\ ProfitTooSmall(o)
        \/ r = "min_depth" /\ TooThin(o)
        \/ r = "data_freshness" /\ o.markets \cap stale # {}
        \/ r = "balance_sufficiency" /\ Uncovered(o, c)
        \/ r = "max_exposure" /\ Overexposed(o, c)
        \/ r = "symbol_whitelist_blacklist" /\ Whitelist # {} /\ o.symbol \notin Whitelist
        \/ r = "min_orderbook_depth" /\ CarriesDepth(o) /\ TooThin(o)}

-----------------------------------------------------------------------------
\* The enabled rule that asks Redis next, from the i-th rule on; one behind the
\* last when there is none.
NextAsking(i, enabled) ==
    Min({Len(RuleNames) + 1}
          \cup {j \in i..Len(RuleNames) : RuleNames[j] \in RedisRules \cap enabled})

\* The enabled rules that evaluate runs without a pause from the i-th on.
AtOnce(i, enabled) ==
    ({RuleNames[j] : j \in i..NextAsking(i, enabled) - 1} \cap enabled) \ RedisRules
=============================================================================
