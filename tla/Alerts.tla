------------------------------- MODULE Alerts -------------------------------
(***************************************************************************)
(* services/alert_service.py: a loop sleeps, goes through the rules in     *)
(* order and sends an alert for every rule that finds something and has    *)
(* not done so lately.  An alert is written to the database, published and *)
(* sent through the channels, all awaited by the loop, so that one slow    *)
(* channel delays the rules behind it.                                     *)
(*                                                                         *)
(* The rules read what the rest of the system keeps: the tickers, the      *)
(* counters of the risk engine and the cached balances.  It changes at any *)
(* moment here.  One pair is enabled; balances are those in USDT.          *)
(***************************************************************************)
EXTENDS Integers, Sequences, FiniteSets, FiniteSetsExt, Functions

CONSTANTS
    Exchanges,
    Cooldown,      \* cooldown_s of each rule, in ticks
    Interval,      \* _check_interval_s
    Channels,      \* the number of alert.enabled_channels
    MaxFailures,   \* risk.max_consecutive_failures
    LossLimit,     \* risk.max_daily_loss_usdt
    LossWarning,   \* 80 % of it
    Pnls,          \* what the day's profit may be
    Low,           \* min_balance_usdt
    Balances,      \* what a cached balance may be
    NoBalance,
    MaxSend,       \* bound: how long one alert is on its way
    MaxEvents,    \* bound: changes of what the rules read
    MaxFaults      \* bound: failing commands of Redis or the database

\* _register_builtin_rules: the order in which they are checked
Rules == <<"exchange_disconnected", "data_stale", "consecutive_failures",
           "daily_loss_exceeded", "low_balance", "high_exposure">>

AlertNames == Range(Rules)

Number == DOMAIN Rules

ASSUME AlertsAssumption ==
    /\ Cooldown \in [AlertNames -> Nat \ {0}]
    /\ {Interval, Channels, MaxFailures, LossLimit, Low, MaxSend} \subseteq Nat \ {0}
    /\ LossWarning \in Nat /\ LossWarning <= LossLimit
    /\ Pnls \subseteq Int /\ 0 \in Pnls
    /\ Balances \subseteq Nat
    /\ {MaxEvents, MaxFaults} \subseteq Nat

VARIABLES
    age,         \* of the ticker of the pair: "none", "fresh", "stale" or "old"
    failures,    \* risk:consecutive_failures
    pnl,         \* risk:daily_loss of today
    balance,     \* balance:<exchange>:USDT, None if there is no such key
    events,
    loop,        \* "off", "sleeping", "checking" or "sending"
    slept,
    rule,        \* the rule the loop is at
    left,        \* what is left of the cooldown of each rule
    stage,       \* of the sending: the database, the publication, the channels
    took,
    faults,
    silent       \* history: how long trading is blocked without an alert

world == <<age, failures, pnl, balance, events>>
service == <<loop, slept, rule, left, stage, took>>
alertVars == <<world, service, faults, silent>>

\* The rules of the risk engine that stop all trading.
Blocking == {"consecutive_failures", "daily_loss_exceeded"}

\* Every failing command may put off an alert by a round.
Round == Interval + MaxSend * Len(Rules)

Patience == Max({Cooldown[r] : r \in Blocking}) + (1 + MaxFaults) * Round

AlertTypeOK ==
    /\ age \in [Exchanges -> {"none", "fresh", "stale", "old"}]
    /\ failures \in 0..MaxFailures /\ pnl \in Pnls
    /\ balance \in [Exchanges -> Balances \cup {NoBalance}]
    /\ events \in 0..MaxEvents /\ faults \in 0..MaxFaults
    /\ loop \in {"off", "sleeping", "checking", "sending"}
    /\ slept \in 0..Interval /\ took \in 0..MaxSend
    /\ rule \in 1..Len(Rules) + 1 /\ stage \in 0..Channels + 2
    /\ left \in [AlertNames -> Nat] /\ \A r \in AlertNames : left[r] <= Cooldown[r]
    /\ silent \in [Blocking -> 0..Patience + 1]
    /\ loop # "sleeping" => slept = 0
    /\ loop # "sending" => stage = 0 /\ took = 0
    /\ loop = "sending" => rule \in Number

AlertInit ==
    /\ age \in [Exchanges -> {"none", "fresh"}]
    /\ failures = 0 /\ pnl = 0
    /\ balance \in [Exchanges -> Balances \cup {NoBalance}]
    /\ events = 0 /\ faults = 0
    /\ loop = "off" /\ slept = 0 /\ rule = 1
    /\ left = [r \in AlertNames |-> 0]
    /\ stage = 0 /\ took = 0
    /\ silent = [b \in Blocking |-> 0]

-----------------------------------------------------------------------------
(***************************************************************************)
(* The checks.                                                             *)
(***************************************************************************)

\* An exchange without a ticker counts only if another has one.
Disconnected ==
    /\ \E e \in Exchanges : age[e] # "none"
    /\ \E e \in Exchanges : age[e] \in {"none", "old"}

DataStale == 4 * Cardinality({e \in Exchanges : age[e] # "fresh"}) > Cardinality(Exchanges)

TooManyFailures == failures >= MaxFailures

Absolute(p) == IF p < 0 THEN -p ELSE p

LossOnly == -pnl >= LossWarning                \* mutant: no absolute value

DailyLoss == Absolute(pnl) >= LossWarning

LowBalance == \E e \in Exchanges : balance[e] # NoBalance /\ balance[e] < Low

Value(e) == IF balance[e] = NoBalance THEN 0 ELSE balance[e]

HighExposure ==
    /\ Cardinality(Exchanges) > 1
    /\ \E e \in Exchanges : 10 * Value(e) > 7 * MapThenSumSet(Value, Exchanges)

Finds(r) ==
    CASE r = "exchange_disconnected" -> Disconnected
      [] r = "data_stale"            -> DataStale
      [] r = "consecutive_failures"  -> TooManyFailures
      [] r = "daily_loss_exceeded"   -> DailyLoss
      [] r = "low_balance"           -> LowBalance
      [] r = "high_exposure"         -> HighExposure

\* The other checks read memory only.
ReadsRedis == {"consecutive_failures", "daily_loss_exceeded", "low_balance", "high_exposure"}

-----------------------------------------------------------------------------
(***************************************************************************)
(* What the rules read changes: prices arrive or age, executions end,      *)
(* balances are refreshed.                                                 *)
(***************************************************************************)
Blocks(b, f, p) == IF b = "consecutive_failures" THEN f >= MaxFailures
                                                 ELSE Absolute(p) > LossLimit

WorldChanges ==
    /\ events < MaxEvents
    /\ events' = events + 1
    /\ \/ /\ \E e \in Exchanges, a \in {"fresh", "stale", "old"} :
                age' = [age EXCEPT ![e] = a]
          /\ UNCHANGED <<failures, pnl, balance>>
       \/ failures' \in 0..MaxFailures /\ UNCHANGED <<age, pnl, balance>>
       \/ pnl' \in Pnls /\ UNCHANGED <<age, failures, balance>>
       \/ /\ \E e \in Exchanges, q \in Balances : balance' = [balance EXCEPT ![e] = q]
          /\ UNCHANGED <<age, failures, pnl>>
    /\ silent' = [b \in Blocking |-> IF Blocks(b, failures', pnl') THEN silent[b] ELSE 0]
    /\ UNCHANGED <<service, faults>>

-----------------------------------------------------------------------------
(***************************************************************************)
(* The loop.                                                               *)
(***************************************************************************)
StartLoop ==
    /\ loop = "off"
    /\ loop' = "sleeping"
    /\ UNCHANGED <<world, slept, rule, left, stage, took, faults, silent>>

\* Cancelled in the middle of an alert or not.
StopLoop ==
    /\ loop # "off"
    /\ loop' = "off"
    /\ slept' = 0 /\ rule' = 1 /\ stage' = 0 /\ took' = 0
    /\ silent' = [b \in Blocking |-> 0]
    /\ UNCHANGED <<world, left, faults>>

WakeUp ==
    /\ loop = "sleeping" /\ slept = Interval
    /\ loop' = "checking" /\ rule' = 1 /\ slept' = 0
    /\ UNCHANGED <<world, left, stage, took, faults, silent>>

\* AlertRule.can_trigger of the rules that are still to be checked
Due == {i \in Number : i >= rule /\ left[Rules[i]] = 0}

RoundEnds ==
    /\ loop = "checking" /\ Due = {}
    /\ loop' = "sleeping" /\ rule' = 1
    /\ UNCHANGED <<world, slept, left, stage, took, faults, silent>>

FindsNothing ==
    /\ loop = "checking" /\ Due # {}
    /\ ~Finds(Rules[Min(Due)])
    /\ rule' = Min(Due) + 1
    /\ UNCHANGED <<world, loop, slept, left, stage, took, faults, silent>>

\* A command of Redis that fails counts as nothing found.
CheckFails ==
    /\ loop = "checking" /\ Due # {} /\ Rules[Min(Due)] \in ReadsRedis
    /\ faults < MaxFaults /\ faults' = faults + 1
    /\ rule' = Min(Due) + 1
    /\ UNCHANGED <<world, loop, slept, left, stage, took, silent>>

\* The cooldown begins before the alert is sent.
FindsSomething ==
    /\ loop = "checking" /\ Due # {}
    /\ LET i == Min(Due) IN
          /\ Finds(Rules[i])
          /\ rule' = i
          /\ left' = [left EXCEPT ![Rules[i]] = Cooldown[Rules[i]]]
    /\ loop' = "sending"
    /\ UNCHANGED <<world, slept, stage, took, faults, silent>>

-----------------------------------------------------------------------------
(***************************************************************************)
(* send_alert                                                              *)
(***************************************************************************)

\* _persist_alert and the publication; no error leaves either of them.
PersistOrPublish ==
    /\ loop = "sending" /\ stage < 2
    /\ stage' = stage + 1
    /\ UNCHANGED <<world, loop, slept, rule, left, took, faults, silent>>

\* A channel that fails is logged and the next one is tried.
SendOnChannel ==
    /\ loop = "sending" /\ stage \in 2..Channels + 1
    /\ stage' = stage + 1
    /\ silent' = [b \in Blocking |->
                    IF b = Rules[rule] /\ stage = Channels + 1 THEN 0 ELSE silent[b]]
    /\ UNCHANGED <<world, loop, slept, rule, left, took, faults>>

SendingEnds ==
    /\ loop = "sending" /\ stage = Channels + 2
    /\ loop' = "checking" /\ rule' = rule + 1
    /\ stage' = 0 /\ took' = 0
    /\ UNCHANGED <<world, slept, left, faults, silent>>

-----------------------------------------------------------------------------
\* Time passes while the loop sleeps, is not running, or waits for the database, a
\* subscriber or a channel.
Less(n) == IF n > 0 THEN n - 1 ELSE 0

Passes ==
    \/ loop = "off" /\ UNCHANGED <<slept, took>>
    \/ loop = "sleeping" /\ slept < Interval /\ slept' = slept + 1 /\ UNCHANGED took
    \/ /\ loop = "sending" /\ stage < Channels + 2 /\ took < MaxSend
       /\ took' = took + 1 /\ UNCHANGED slept

Tick ==
    /\ Passes
    /\ left' = [r \in AlertNames |-> Less(left[r])]
    /\ silent' = [b \in Blocking |->
                    IF loop # "off" /\ Blocks(b, failures, pnl) /\ silent[b] <= Patience
                    THEN silent[b] + 1 ELSE silent[b]]
    /\ UNCHANGED <<world, loop, rule, stage, faults>>

AlertNext ==
    \/ WorldChanges
    \/ StartLoop \/ StopLoop \/ WakeUp \/ RoundEnds
    \/ FindsNothing \/ CheckFails \/ FindsSomething
    \/ PersistOrPublish \/ SendOnChannel \/ SendingEnds
    \/ Tick

AlertSpec == AlertInit /\ [][AlertNext]_alertVars

-----------------------------------------------------------------------------
(***************************************************************************)
(* Properties.                                                             *)
(***************************************************************************)

\* While the service runs, the risk engine never stops trading for long, after
\* a loss, a profit or failures, without an alert of its own on every channel,
\* and again when the cooldown is over, whatever other alerts there are and
\* whichever channels fail.
\* (alert_service.py, check_all and send_alert; risk_engine.py, the rules
\* MaxDailyLossRule and MaxConsecutiveFailuresRule)
BlockIsReported == \A b \in Blocking : silent[b] <= Patience
=============================================================================
