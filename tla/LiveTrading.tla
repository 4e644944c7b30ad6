---------------------------- MODULE LiveTrading ----------------------------
(***************************************************************************)
(* services/live_guardrails.py: the trading mode, the checks of an order   *)
(* before it is sent to a real exchange, and the daily amounts in Redis.   *)
(* validate_pre_order looks at the mode, the kill switch, the breakers,    *)
(* the lists, the keys and the size of the order at once, and then waits   *)
(* twice for Redis: whatever changes meanwhile is not looked at again.     *)
(* record_live_order_notional adds the amount later, in a call of its own. *)
(* In this code the validate-order endpoint is the only caller of the one, *)
(* and the other has none: the callers here are what the two are made for, *)
(* validate, place the order, record it.                                   *)
(*                                                                         *)
(* services/live_risk_rules.py asks most of the same questions again, of   *)
(* an opportunity and of the configured mode.  Redis is configured.        *)
(***************************************************************************)
EXTENDS KillSwitch, FiniteSets

CONSTANTS
    Callers,         \* the tasks that validate and place orders
    Exchanges, Symbols, Strategies,
    Notionals,       \* what an order may be worth
    NoOrder,         \* not an order
    Configs,         \* the settings a run may have: see Config
    Choices,         \* the modes the operator may ask for
    MaxSmall,        \* live_small_max_single_usdt
    MaxLive,         \* live_max_single_usdt
    MaxExchange,     \* live_max_daily_per_exchange_usdt
    MaxSymbol,       \* live_max_daily_per_symbol_usdt
    MaxUsed,         \* bound: the total after which no order begins
    MaxFaults        \* bound: Redis commands that fail

ASSUME LimitAssumption ==
    /\ Notionals \subseteq Nat \ {0}
    /\ {MaxSmall, MaxLive, MaxExchange, MaxSymbol, MaxUsed, MaxFaults} \subseteq Nat
    /\ IsFiniteSet(Callers) /\ Callers # {}

ASSUME ScopeAssumption ==
    /\ Scopes \subseteq Exchanges \cup Symbols \cup Strategies
    /\ Exchanges \cap (Symbols \cup {"total"}) = {}

VARIABLES
    config,   \* settings.live and the keys in the environment
    mode,     \* LiveGuardrails._mode
    used,     \* live:daily_notional:<key>:<date>, by day and key
    day,      \* the date, 1 after the midnight of the run
    pc,       \* where a caller is
    order,    \* the order it validates
    passed,   \* whether all checks so far passed
    date,     \* date_key of the validation
    faults    \* Redis commands that failed

calls == <<pc, order, passed, date>>
vars == <<switch, config, mode, used, day, calls, faults>>

Modes == {"mock", "read_only", "paper", "simulation", "live_small", "live"}
IsLiveMode(m) == m \in {"live_small", "live"}

\* MODE_CAPABILITIES: orders are for the live modes only.
CanPlaceOrders(m) == m \in {"live_small", "live"}

Config == [tradingMode : Modes, enabled : BOOLEAN, enableSmall : BOOLEAN,
           exchanges : SUBSET Exchanges, symbols : SUBSET Symbols,
           strategies : SUBSET Strategies, keys : SUBSET Exchanges]

ASSUME ConfigAssumption == Configs \subseteq Config /\ Choices \subseteq Modes

Order == [exchange : Exchanges, symbol : Symbols, strategy : Strategies,
          notional : Notionals]
ASSUME OrderAssumption == NoOrder \notin Order

Keys == Exchanges \cup Symbols \cup {"total"}

\* What market_data says of a pair: whether it has a ticker, whether the
\* order's price is near the ticker's middle, and whether the data are fresh.
Quote == [known : BOOLEAN, near : BOOLEAN, fresh : BOOLEAN]

TypeOK ==
    /\ SwitchTypeOK
    /\ config \in Configs
    /\ mode \in Modes
    /\ used \in [0..1 -> [Keys -> Nat]]
    /\ day \in 0..1
    /\ pc \in [Callers -> {"idle", "exchange", "symbol", "approved"}]
    /\ order \in [Callers -> Order \cup {NoOrder}]
    /\ passed \in [Callers -> BOOLEAN]
    /\ date \in [Callers -> 0..1]
    /\ faults \in 0..MaxFaults
    /\ \A c \in Callers : pc[c] = "idle" <=> order[c] = NoOrder

Init ==
    /\ SwitchInit
    /\ config \in Configs
    /\ mode = config.tradingMode
    /\ used = [d \in 0..1 |-> [k \in Keys |-> 0]]
    /\ day = 0
    /\ pc = [c \in Callers |-> "idle"]
    /\ order = [c \in Callers |-> NoOrder]
    /\ passed = [c \in Callers |-> FALSE]
    /\ date = [c \in Callers |-> 0]
    /\ faults = 0

-----------------------------------------------------------------------------
(***************************************************************************)
(* set_mode: a live mode that the settings do not enable is refused (and   *)
(* the endpoint reports success all the same).  The mode the settings      *)
(* start with is not checked, and settings.live keeps it for ever.         *)
(***************************************************************************)

Enabled(m) == CASE m = "live" -> config.enabled
                [] m = "live_small" -> config.enableSmall
                [] OTHER -> TRUE

SetMode(m) ==
    /\ Enabled(m)
    /\ mode' = m
    /\ UNCHANGED <<switch, config, used, day, calls, faults>>

-----------------------------------------------------------------------------
(***************************************************************************)
(* validate_pre_order, check by check.                                     *)
(***************************************************************************)

OrderScopes(o) == {o.exchange, o.symbol, o.strategy}

Listed(x, list) == list = {} \/ x \in list

LiveLimitOnly == MaxLive                     \* mutant: one limit for both modes

MaxSingle == IF mode = "live_small" THEN MaxSmall ELSE MaxLive

\* Checks 1 to 10, which nothing interrupts.
ChecksAtOnce(o) ==
    /\ CanPlaceOrders(mode)
    /\ ~active
    /\ \A s \in OrderScopes(o) : ~IsCircuitOpen(s)
    /\ Listed(o.exchange, config.exchanges)
    /\ Listed(o.symbol, config.symbols)
    /\ Listed(o.strategy, config.strategies)
    /\ o.exchange \in config.keys
    /\ o.notional <= MaxSingle

\* Checks 11 and 12: a command that fails counts as nothing used.
WithinExchange(o, d) == used[d][o.exchange] + o.notional <= MaxExchange
WithinSymbol(o, d) == used[d][o.symbol] + o.notional <= MaxSymbol

ChecksWithoutMarket(o) == ChecksAtOnce(o) /\ WithinExchange(o, day) /\ WithinSymbol(o, day)

\* Checks 13 and 14.
MarketOK(q) == q.known /\ q.near /\ q.fresh

ValidateBegins(c, o) ==
    /\ pc[c] = "idle" /\ used[day]["total"] < MaxUsed
    /\ breakers' = AfterQuery(OrderScopes(o))
    /\ pc' = [pc EXCEPT ![c] = "exchange"]
    /\ order' = [order EXCEPT ![c] = o]
    /\ passed' = [passed EXCEPT ![c] = ChecksAtOnce(o)]
    /\ date' = [date EXCEPT ![c] = day]
    /\ UNCHANGED <<active, config, mode, used, day, faults>>

ReadFails == faults < MaxFaults /\ faults' = faults + 1
ReadWorks == faults' = faults

NothingUsed(c) ==                            \* mutant: the amount is not read
    /\ faults' = faults
    /\ passed' = [passed EXCEPT ![c] = @ /\ order[c].notional <= MaxExchange]

ExchangeRead(c) ==
    \/ /\ ReadWorks
       /\ passed' = [passed EXCEPT ![c] = @ /\ WithinExchange(order[c], date[c])]
    \/ /\ ReadFails
       /\ passed' = [passed EXCEPT ![c] = @ /\ order[c].notional <= MaxExchange]

ExchangeAnswers(c) ==
    /\ pc[c] = "exchange"
    /\ ExchangeRead(c)
    /\ pc' = [pc EXCEPT ![c] = "symbol"]
    /\ UNCHANGED <<switch, config, mode, used, day, order, date>>

\* The last answer, the market checks and the result.
Decides(c, ok) ==
    /\ pc' = [pc EXCEPT ![c] = IF ok THEN "approved" ELSE "idle"]
    /\ order' = [order EXCEPT ![c] = IF ok THEN @ ELSE NoOrder]
    /\ passed' = [passed EXCEPT ![c] = FALSE]
    /\ date' = [date EXCEPT ![c] = 0]

SymbolAnswers(c, q) ==
    /\ pc[c] = "symbol"
    /\ \/ ReadWorks /\ Decides(c, passed[c] /\ WithinSymbol(order[c], date[c]) /\ MarketOK(q))
       \/ ReadFails /\ Decides(c, passed[c] /\ order[c].notional <= MaxSymbol /\ MarketOK(q))
    /\ UNCHANGED <<switch, config, mode, used, day>>

Ends(c) ==
    /\ pc' = [pc EXCEPT ![c] = "idle"]
    /\ order' = [order EXCEPT ![c] = NoOrder]
    /\ UNCHANGED <<switch, config, mode, day, passed, date>>

\* record_live_order_notional: three sums in one transaction, which is lost
\* without a word when Redis fails.
Record(c) ==
    /\ pc[c] = "approved"
    /\ \/ /\ ReadWorks
          /\ used' = [used EXCEPT ![day] = [k \in Keys |->
                 IF k \in {order[c].exchange, order[c].symbol, "total"}
                 THEN @[k] + order[c].notional ELSE @[k]]]
       \/ ReadFails /\ used' = used
    /\ Ends(c)

\* The endpoint validates an order that is not placed.
OnlyValidated(c) == pc[c] = "approved" /\ Ends(c) /\ UNCHANGED <<used, faults>>

Midnight == /\ day = 0
            /\ day' = 1
            /\ UNCHANGED <<switch, config, mode, used, calls, faults>>

-----------------------------------------------------------------------------
(***************************************************************************)
(* live_risk_rules.py: an opportunity buys on one exchange and sells on    *)
(* another.  The rules on the daily loss, which nothing writes, and on the *)
(* exposure have no counterpart above and are left out.                    *)
(***************************************************************************)

LiveModeEnabledRule == Enabled(config.tradingMode)
TradingPermissionRule(b, s) == {b.exchange, s.exchange} \subseteq config.keys
KillSwitchActiveRule == ~active
CircuitBreakerRule(b, s) == \A x \in OrderScopes(b) \cup OrderScopes(s) : ~IsCircuitOpen(x)
ReadOnlyModeBlockRule == config.tradingMode # "read_only"

MaxSingleOrderNotionalLiveRule(b) ==
    IsLiveMode(config.tradingMode) =>
        b.notional <= IF config.tradingMode = "live_small" THEN MaxSmall ELSE MaxLive

MaxDailyNotionalPerExchangeRule(b, s) ==
    IsLiveMode(config.tradingMode) =>
        \A e \in {b.exchange, s.exchange} : used[day][e] + b.notional <= MaxExchange

MaxDailyNotionalPerSymbolRule(b) ==
    IsLiveMode(config.tradingMode) => used[day][b.symbol] + b.notional <= MaxSymbol

\* Unlike the check, the rule passes where there is no ticker.
MaxPriceDeviationRule(bq, sq) == \A q \in {bq, sq} : q.known => q.near

ExchangeWhitelistRule(b, s) == \A e \in {b.exchange, s.exchange} : Listed(e, config.exchanges)
StrategyWhitelistRule(b) == Listed(b.strategy, config.strategies)

RulesPass(b, s, bq, sq) ==
    /\ LiveModeEnabledRule /\ KillSwitchActiveRule /\ ReadOnlyModeBlockRule
    /\ TradingPermissionRule(b, s) /\ CircuitBreakerRule(b, s)
    /\ MaxSingleOrderNotionalLiveRule(b)
    /\ MaxDailyNotionalPerExchangeRule(b, s) /\ MaxDailyNotionalPerSymbolRule(b)
    /\ MaxPriceDeviationRule(bq, sq)
    /\ ExchangeWhitelistRule(b, s) /\ StrategyWhitelistRule(b)

-----------------------------------------------------------------------------
CallerNext(c) ==
    \/ \E o \in Order : ValidateBegins(c, o)
    \/ ExchangeAnswers(c)
    \/ \E q \in Quote : SymbolAnswers(c, q)
    \/ Record(c)
    \/ OnlyValidated(c)

Operator == SwitchNext /\ UNCHANGED <<config, mode, used, day, calls, faults>>

Next == \/ Operator
        \/ \E m \in Choices : SetMode(m)
        \/ \E c \in Callers : CallerNext(c)
        \/ Midnight

Spec == Init /\ [][Next]_vars

-----------------------------------------------------------------------------
(***************************************************************************)
(* Properties.                                                             *)
(***************************************************************************)

\* The largest order that either live mode lets pass.
Largest == IF MaxSmall > MaxLive THEN MaxSmall ELSE MaxLive

\* The limit and the record are two calls, so concurrent orders overshoot the
\* daily limit of an exchange; but only those in flight together: with k
\* callers by at most k - 1 orders, whatever the callers, the modes and
\* midnight do, as long as Redis answers.
\* (live_guardrails.py, validate_pre_order and record_live_order_notional)
DailyOvershootIsBounded ==
    faults = 0 =>
        \A d \in 0..1, e \in Exchanges :
            used[d][e] <= MaxExchange + (Cardinality(Callers) - 1) * Largest

\* The two gates agree: under the configured mode, when that mode is enabled,
\* the rules refuse no opportunity whose two orders the guardrails approve.
\* (live_guardrails.py, validate_pre_order, and live_risk_rules.py)
GatesAgree ==
    mode = config.tradingMode /\ Enabled(mode) =>
        \A b \in Order, e \in Exchanges :
            LET s == [b EXCEPT !.exchange = e]
            IN  ChecksWithoutMarket(b) /\ ChecksWithoutMarket(s) =>
                    \A bq, sq \in {q \in Quote : MarketOK(q)} : RulesPass(b, s, bq, sq)
=============================================================================
