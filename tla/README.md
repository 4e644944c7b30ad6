# ArbitrageX: a TLA+ verification project

This directory holds TLA+ models of the backend of ArbitrageX
(`src/backend/app`), TLC configurations that check them on small instances, and
proofs for TLAPS. Paths below are relative to `src/backend/app`.

## 1. The system

ArbitrageX looks for price differences between exchanges (`CROSS_EXCHANGE`) and
in cycles of three symbols on one exchange (`TRIANGULAR`), and trades them, on
paper or live. The backend is one asyncio process with Redis (counters, caches)
and PostgreSQL (records) beside it.

```
 adapters --tickers--> MarketData --reads--> Scanners --OPPORTUNITY_FOUND--> EventBus
                                                                               |
 API (routes/executions) ------------------------+         main.py _on_opportunity
                                                 |            (lock, cooldown, rules)
                                                 v                             |
                        ExecutionCoordinator.execute_opportunity <-------------+
                           |            |                |
                     Planner+RiskEngine |           state machines, audit, alerts,
                      (Redis counters)  v           inventory refresh
                               ExecutionEngine --place_order--> adapters
                                 (legs, hedges)
```

### Components, their state, and what makes them correct

| Component | State | Operations | Must hold | Here |
|---|---|---|---|---|
| `services/execution_engine.py` | legs and result of a call | `execute`, cross-exchange and triangular paths, hedges, bookkeeping | exposure is bounded; a success leaves none; a booked quantity was traded; it returns | `ExecutionEngine` |
| `services/execution_coordinator.py` | active executions, history, a state machine per execution and leg | `execute_opportunity`, `_process_execution_result`, alerts | machines end in final states that agree with the result; failures are alerted; nothing stays active | `Execution`, `ExecutionLifecycle` |
| `core/state_machine.py` | current state, history | `transition`, `can_transition` | only mapped transitions | `StateMachine` |
| `services/execution_planner.py` | none | two plan builders | a plan is covered by the balances it was made from | `Planning`; outcomes in `Execution` |
| `services/risk_engine.py`, `db/redis.py` | rules; counters in Redis | `evaluate`, increments, decrements, results, profit | counters follow the executions; admission is current; pauses end; what is approved can be traded | `RiskGate`, `RiskRules` |
| `main.py` | lock, cooldown stamps | `_on_opportunity` | rules are relaxed only and always for paper executions; no starvation; the switch stops executions | `AutoExecution` |
| `api/routes/*` | none | execute, kill switch, toggles, live mode, scans | as above, against concurrent requests | `AutoExecution`, `KillSwitch`, `LiveTrading`, `Scanning` |
| `core/kill_switch.py` | switch, circuit breakers | activate, release, record, reset, trip, query | an open breaker stays open until its time; a closed one is below its threshold | `KillSwitch` |
| `services/live_guardrails.py`, `live_risk_rules.py` | mode; daily notional in Redis | `set_mode`, `validate_pre_order`, record; rules | daily limits hold but for orders in flight; the two gates agree | `LiveTrading` |
| `exchanges/{binance,bybit,okx}.py` | session, tasks | `place_order`, `_request` with retries, streams | one order is one order | answers and retries in `ExecutionEngine`, streams in `MarketData` |
| `exchanges/public_adapter.py` | the last answer | `get_tickers` | a silent exchange shows | `MarketData` |
| `exchanges/mock.py` | balances, open orders | place, fill, cancel | funds are conserved, what is locked is what open orders reserved | `PaperExchange` |
| `services/order_tracker.py` | active orders, rings, metrics | register, mark, poll, reconcile | each order ends once and is counted once; no end is missed | `OrderTracker` |
| `services/inventory.py` | balance cache | `refresh_all`, hooks, exposure, suggestions | while executions go on the cache converges to the balances; the views of it agree | `Inventory`, `Portfolio` |
| `services/market_data.py` | ticker and book caches | stream callbacks, REST polls | newer data are not overwritten for good; the cache catches up | `MarketData` |
| `services/scanner.py` | running loops, paths | two scans | what is published can be traded as quoted; a lasting spread is published | `Scanning`, `Triangles` |
| `core/calculations.py`, `services/simulation.py` | none | walks of a book, executable quantity, simulated fills | the walks compute the market order; estimates promise no more than the books hold | `OrderBooks`, `Calculations`, `Simulation` |
| `core/events.py` | subscriptions, ring | publish, subscribe | a publication waits for its subscribers | waiting only |
| `services/alert_service.py` | rules with cooldowns | check, send | a stop of trading is reported in time | `Alerts`; hand-over in `Execution` |
| `main.py` ConnectionManager, frontend | connections | broadcast, reconnect | dead clients are dropped | not modelled |
| audit, analytics, models, schemas, the other routes | records | queries | | not modelled |

### What is hard about it

* **Orders and answers diverge.** A timeout, an exception or a bare
  acknowledgement says nothing about the fill; a retried request may double it;
  the engine decides on what it believes.
* **Every `await` is a switch point.** Redis counters are updated in two
  commands; checks precede waits; the strict rules are disabled on an object all
  executions share. One `asyncio.Lock` protects the automatic executions and
  nothing protects those of the API.
* **Restarts.** The counters survive in Redis, the executions do not.
* **Caches have several writers.** Streams, polls and refreshes write tickers and
  balances in the order in which their answers happen to arrive, and a scan or a
  plan reads them at several moments.
* **Limits are read and written in different calls**, with the network between
  them.
* **A publication waits for its subscribers**, and one of them executes: a scan
  goes on, with what it read before, when the execution is over.
* **Silent refusals.** `_process_execution_result` skips a transition its map
  does not have, so a wrong map entry shows nowhere but in what is left behind.

`PROJECT.json` lists each hazard at its line with the properties that guard it.

## 2. Modules

| Module | Models | Used by |
|---|---|---|
| `StateMachine` | both transition maps, `Try`, `IsTerminal`, reachability in a map | `Execution`, `ExecutionLifecycle` |
| `ExecutionEngine` | one call of `execute` against the exchanges | `Execution` |
| `Execution` | `execute_opportunity` around it: the composition | `MCExecution`, `Execution_proofs` |
| `ExecutionLifecycle` | abstract: what an observer of the machines is promised | refined by `Execution` |
| `RiskGate` | many executions through the counters and the lock | `MCRiskGate`, `RiskGate_proofs` |
| `AutoExecution` | the event handler, API requests and the operator | `MCAutoExecution`, `AutoExecutionAndTracking_proofs` |
| `PaperExchange` | the paper exchange: reservations, delayed fills, cancels of any orders | `MCPaperExchange`, `BalancesAndScanning_proofs` |
| `PaperAccount` | abstract: the totals of a trader's account | refined by `PaperExchange` |
| `OrderTracker` | the records of live orders, the poll loop and the reconciliation | `MCOrderTracker`, `AutoExecutionAndTracking_proofs` |
| `KillSwitch` | the switch and the circuit breakers | `LiveTrading` |
| `LiveTrading` | the guardrails and the live rules around it: mode, checks, daily amounts | `MCLiveTrading`, `LiveTrading_proofs` |
| `Portfolio` | what is computed from the cached balances | `Inventory` |
| `Inventory` | the tasks that write that cache | `MCInventory`, `BalancesAndScanning_proofs` |
| `MarketData` | the ticker cache, the streams, the polls and the public adapter's memory | `MCMarketData`, `MarketData_proofs` |
| `Alerts` | the alert loop, its rules and the sending of an alert | `MCAlerts`, `PlanningAndAlerts_proofs` |
| `OrderBooks` | the three walks of a book in the code, and the market order they should compute | `Calculations`, `Simulation`, `Triangles`, `Scanning`, `Planning`, `OrderBooks_proofs` |
| `Calculations` | executable quantity, truncation, slippage, fees, net profit, triangles | `Scanning`, `Planning` |
| `Simulation` | one simulated fill, from a book or without, and the simulation between exchanges | `Scanning`, `Planning` |
| `Triangles` | paths through three pairs and what they yield | `Scanning` |
| `Scanning` | both scan loops and the requests that scan | `MCScanning`, `BalancesAndScanning_proofs` |
| `RiskRules` | the rules and the order of `evaluate` | `Planning` |
| `Planning` | the two plan builders around them, and the simulation of a triangle | `MCPlanning`, `PlanningAndAlerts_proofs` |
| `MC*` | values of the constants for TLC | |
| `*_proofs` | theorems and proofs; some modules are proved about together, and `OrderBooks_proofs` has the lemmas about sums and walks that two of them rest on, which is why `Alerts`, `AutoExecution`, `Inventory` and `Scanning` carry their name in `AlertSpec`, `AutoSpec`, `InventorySpec`, `ScanSpec` and the like | |

**How state and actions correspond to the code.** An action is the code between
two awaits that really suspend, with everything that code assigns; what follows
from this in each module:

* `ExecutionEngine.leg` is `result.legs` (what the engine *believes*), `order` is
  what the exchange *knows*; a property about money is about `order`, a decision
  of the engine reads only `leg`. `phase` and `step` say where `execute` and
  `execute_opportunity` are suspended.
* In `RiskGate`, `pc[p]` is the Redis command execution `p` sends next, so a
  GET-SET pair is two actions with `seen[p]` between them.
* In `AutoExecution`, `lock` and `queue` are the `asyncio.Lock` with its FIFO of
  waiters, and `Found` is the whole handler from its first check to the point
  where it either holds the lock or waits.
* In `PaperExchange`, the four balances and `order` are `_balances` and `_orders`
  (an order of status `NEW` is one of `_open_orders`), and `task` says in which
  sleep the coroutine of an order is.
* In `OrderTracker`, a question to the exchange is three steps: it is asked
  (`Poll`, `Reconcile`), answered (`Answer`, `Read`), and the answer is used
  (`Update`, `Compare`). Whatever happens in between is not seen by the answer.
  `exchange` is external; `ended` counts the increments of the metrics.
* `KillSwitch` has no awaits: every operation is one step, a query too, because
  `is_circuit_open` and `get_all_breakers` close a breaker whose time is over.
  The clock is `elapsed`: whether the time of an open breaker has passed.
* In `LiveTrading`, `validate_pre_order` is three steps around its two Redis
  reads. The date is the third part of the key: `used[d][e]` is the amount of
  day `d`, and an order that is placed after midnight is recorded for the new
  day. Nothing in the code calls the two operations one after the other; the
  callers of the model are what they are made for.
* In `Inventory`, a task asks the exchanges one after the other and writes the
  answers entry by entry, with a suspension after each (the write to Redis). The
  tasks are executions, which end in `refresh_all`, and hooks
  (`on_execution_completed`). There is no periodic task, because the program never
  starts the loop that would be one.
* In `MarketData`, an entry has the age the code computes (`seen`, since it was
  written) and the one it cannot know (`old`, since the exchange sent the price).
  `news[e]` is the queue of the messages that the connection of `e` delivers, in
  order; `OnWsTicker` takes the first and overwrites the entry, whatever it holds,
  and the next one waits for that handler.
* In `Alerts`, `stage` is what `send_alert` is waiting for: the database, the
  publication or a channel; `silent` is a history variable, the time for which a
  rule of the risk engine has been stopping trading without an alert.
* In `Scanning`, `scan[s].at` is the await in which scan `s` is suspended: the
  fees of the buyer, those of the seller, a publication. `Planning` has the three
  Redis reads and the storing of violations as its suspensions; what comes after
  them is one step, since the simulation does not suspend. `rate` and `book` are
  the cached tickers and order books of the markets, which change one by one, so
  that a book may be ahead of its ticker or behind it.

**What is abstract.** In `ExecutionEngine` quantities are whole lots; prices,
fees and profits appear only where a guard depends on them (`Gains`) or as a free
choice. `RiskGate` lets the nine rules that do not read Redis pass or fail
freely; `RiskRules` has them in full, and lets those that read Redis pass or fail
freely. `OrderBooks` to `Planning` compute with whole numbers: amounts are
multiples of a unit that makes the divisions exact, averages are left as a cost
and a quantity, and percentages are compared after multiplying out. The exchange
(`Decide`, `Answers`, `Trade`, `MarketMoves`) is external: a market order is filled to
any part, at any time, and what an adapter may answer is read off the three
adapters: Binance parses the order, OKX and Bybit answer `NEW` with nothing
filled. Database writes, audit records, metrics and the execution history do not
feed back into any decision and are left out, as is the change of date in the key
of the daily profit. The trading mode does not change within a behaviour of
`AutoExecution`. The price a paper exchange reads is any price of a set, at every
read (the random walk, spread, slippage and `set_price` of the engine all move
it), and the fee is a function of the price; `reset` and the simulated WebSocket
are left out.

## 3. Runs

| Run | Instance | Shows |
|---|---|---|
| `Execution` | one execution, both strategies, orders of 2 lots, each request sent up to twice, every fill and answer | `ExposureBounded`: never more than one order's quantity (plus repeats) unhedged. `BooksAreTrue`: a success leaves nothing, but for the three named ways in which the code calls a success what is none, and no profit is booked on fills that did not happen. `CarriesOnlyFills`: no leg orders what was never bought. `EndsAsReported`: no refused transition, nothing left active, every failure alerted. `Returns`: it ends. `ImplementsLifecycle`: refinement of the abstract life cycle |
| `RiskGate` | three automatic executions, cap 2, failure limit 2, a loss beyond the limit and a profit that reaches it, one failing Redis command, one restart | `CounterFollowsExecutions` and `PnlAccumulates` up to the failed commands; `AdmissionIsCurrent`: the check-then-act of the rules is atomic thanks to the lock; `EveryExecutionEnds`; `PauseEnds` |
| `AutoExecution` | three scans of one symbol, one API request, cooldown 1, clock to 3 | `PaperIsRelaxed`; `OnlyWaitingOnesSlipThrough`: what the kill switch cannot stop; `EveryWaiterGetsItsTurn`; no deadlock |
| `PaperExchange` | three orders of one lot on either side, at the market or at a limit, two prices | `TypeOK`: no order spends what another reserved. `LockedIsReserved`: what is locked, including what a late cancel releases twice. `OnlyLateCancelsFail`: cancelling is safe until the fill is sent. `ImplementsAccount`: none of this ever changes the totals of the account |
| `OrderTracker` | two orders of two lots, early closings by cancel and by rejection, one failing question, one retry, a ring and a window of one | `BooksAreSound`: an order ends and is counted once, but for one given up during its own poll, and its record never runs ahead of the exchange. `EveryEndIsSeen`: no end of a submitted order is missed. `MismatchIsFound`: a record that stayed short is reported while it is in the window |
| `LiveTrading` | two callers, two exchanges, a breaker on one of them with threshold 2, limits of 1, 2 and 3 against orders of 2, one midnight, one failing Redis command, two configurations | `DailyOvershootIsBounded`: with two callers a daily limit is exceeded by one order at most. `ClosedIsBelowThreshold`, `OpenHolds`: the breakers. `GatesAgree`: the live rules refuse nothing that the guardrails approve |
| `Inventory` | three exchanges, one asset, two executions and a hook, one change, one failing exchange | `CacheCatchesUp`: *as long as executions go on*, which is the condition of the property and not an assumption of fairness, overlapping refreshes and failed questions leave the cache right; after the last execution nothing repairs it (section 5). `ViewsAgree`: values and concentration fit together at any moment, and so do the suggestions as long as there are no more than the three exchanges the factory has |
| `MarketData` | one streaming and one polled exchange, two prices, a delay of 1 against a freshness of 1 and a threshold of 2, one lost connection or failing attempt | `SetbacksAreMended`: no answer to a request writes an earlier price over a later one; a message of a stream may, and then the later price is behind it on the same connection, unless that was lost. `TickersCatchUp`: once prices rest, the cache shows them |
| `Alerts` | six rules, two exchanges, cooldowns of 1 and 2, two channels, sending that takes up to 1, two changes, one fault | `BlockIsReported`: while a rule of the risk engine stops trading, an alert of its own comes at least once in a stated time |
| `Scanning` | two exchanges, three quotes, two books, one set of pairs and its rates, one change of the market during the scans | `QuoteHolds`: a published quantity within the cap can be bought at no more and sold at exactly the published averages. `EstimatesHold`: the walks of the code compute the market order, the executable quantity is the largest allowed, the simulation sells what it bought. `TrianglesPay`: what is published is a triangle, gains what `compute_triangular_profit` says, and is not worth publishing the other way round. `SpreadIsPublished`: a lasting spread is published again and again |
| `Planning` | scanned, auto-sized and requested opportunities of both strategies, tickers with prices and without, markets with a book that is ahead of the ticker and without one, balances above and below what is needed, one change during the waits | `PlanIsCovered`: no plan spends more than its snapshot. `OnlyWalkedOnesPass`: what the strict and the relaxed rules can approve at all, when the least depth is positive. `SimulationIsNoBetter`: the simulation of a triangle promises no better return than the plan's legs do if the last is sold at the first bid of its book, or at the ticker's bid, which is the plan's, where there is no book |

**What some of them do not cover.** `ViewsAgree` judges what is computed from any
table of balances; whether the table is right is `CacheCatchesUp`. `TrianglesPay` and
`PlanIsCovered` are about the scanner's and the planner's conversions between the
assets of a triangle, not about the engine, which has none (section 5).
`PlanIsCovered` compares a plan with the snapshot it was made from, not with the
balances at the time of the orders. `GatesAgree`, `EstimatesHold`, `TrianglesPay` and
`OnlyWalkedOnesPass` compare computations; no interleaving is needed to break them.

One more run checks a sentence of the documentation that the code does not keep
and is expected to end in a counterexample: `V_KillSwitchHaltsTrading`. Section 5
lists the other sentences of this kind.

**Bounds.** Two lots are the least with a partial fill that is neither nothing
nor everything, and with two different partial fills on the two sides. Two
attempts are the least that duplicate an order. Three executions are the least
with one inside, one waiting and one finished (or lost in a restart); a cap and
a failure limit of 2 are reached and exceeded by three. A loss of 2 crosses
the loss limit of 1 at once, a profit of 1 the second time, so that a later
execution books on top of an earlier one. One fault and one restart may fall at
any command. Clock and cooldown allow a symbol to be found three times.
At the paper exchange two prices put a limit on either side of the market, and
three orders let a third act between a late cancel of one and its fill, or use
funds that another has freed; the balances of one lot of the base and 30 of the
quote asset cover some orders and refuse others.
In `OrderTracker` a ring of one is overrun by the second order, and one fault
with one retry gives an order up while the other's answer is on its way. In
`LiveTrading` two callers are the least that overshoot, an order of 2 passes the
limit of one mode and not of the other, and a daily limit of 3 admits one order
and refuses the second. Three exchanges in `Inventory` are the least with two on
one side of the average, and two executions the least whose refreshes overtake
each other. In `MarketData` the delay is as long as a price counts
as fresh, the longest for which `SetbacksAreMended` is stated, and one change puts
a second message behind the one that a new connection begins with, so that a request
can find out the later price before either has arrived. In `Planning`
either no market has a book at first or all have the same, and a change makes one
market differ; its first bid is above the ticker's and its best level thinner than
some orders. In `Alerts` a channel may
hold an alert as long as the shortest cooldown. The books of `Scanning` and the
prices of `Planning` make orders stop in the middle of a level, exhaust a side,
meet the cap, and meet empty sides and missing prices.
Where only safety is checked and the members of a set are interchangeable, the
configuration states the `SYMMETRY`. The constants called `Max...` that a module
marks as a bound (`MaxFaults`, `MaxRestarts`, `MaxTime`, `MaxChanges`, `MaxMarketMoves`,
`MaxDelay`, `MaxSend`, `MaxUsed`, `MaxFailures` of a breaker, `MaxHeld`,
`MaxEvents`) are the
only ones that the code does not have; they appear in guards. `Attempts` is the
adapters' own limit.

**Fairness.** `Execution`: weak fairness of the coordinator and of the engine,
because the event loop runs every task that can run and every wait ends: each
order is awaited under `wait_for` or, for the hedge of a partial fill, under the
HTTP client's own timeout, both of which are answers in the model. The exchanges
get no fairness. `RiskGate`: weak fairness of each execution's next command
(Redis commands return or time out) and of key expiry. `Start` is part of it: an
execution that wants the lock repeats only finitely often to lose it, as there
are finitely many. `AutoExecution`: weak fairness of each scan's handler; that a
holder of the lock leaves is property `Returns` of `Execution`. Scans, requests,
the operator and the clock get none. `OrderTracker`: weak fairness of the poll
loop and of the reconciliation, whose questions are answered or fail under the
HTTP client's timeout; the exchange, the executor, `start` and `stop` get none.
`Inventory`: a refresh that an execution has begun goes on, since every question is
answered or fails; no execution has to begin and there is no loop, so that
`CacheCatchesUp` says in its premise that executions keep coming. `MarketData`: the
polling loop goes on, which `start` creates, and each message and answer arrives or
fails in the stated time; nothing has to change. `Scanning`: each scan goes
on, which for a publication is again `Returns`, and a loop that runs scans again.

**Deadlock** is checked in `AutoExecution` and, because their loops never end or
something can always happen, in the runs of the modules from `OrderTracker` to
`Scanning`. In `Execution`, `RiskGate`, `PaperExchange` and `Planning` the system
stops when what was asked for has ended, so the check is off there and the
liveness properties of the first two say that everything gets to its end.

## 4. Proofs

For every value of the constants that satisfies the stated assumptions
(`Qty`, `Attempts` positive; finite sets of executions, callers and orders; limits,
prices and bounds natural; fees of the paper exchange at most the price; a name is
not both an exchange and a symbol, and the joined symbol of a triangle is in no
list of enabled pairs; what stands for "nothing" is no ticker, no book and no
request; there is at least one channel for alerts; in a book every level has a
price, the cheapest ask comes first for the scanners and the highest bid for the plans, no bid of a triangle's pair is above its
ask, a pair trades two different assets, and the taker fee is at most 100 %, with
the amounts natural; the code skips levels without a price):

| Theorem | Says | Argument |
|---|---|---|
| `Execution_proofs!TypeCorrect` | `Spec => []TypeOK` | inductive by itself; one lemma per action |
| `Execution_proofs!EngineInvariant` | `[]EngineInv` | `EngineInv` is inductive with `TypeOK`: it adds to the two properties about money what they rest on: nothing is ordered before the legs, the exchange fills no more than asked, the engine's belief never exceeds the fill, a hedge never exceeds the fill it reverses |
| `Execution_proofs!Exposure` | `[]ExposureBounded` | from `EngineInv` by arithmetic: a buy adds at most its request, and the hedge is bounded by the fill on the other side |
| `Execution_proofs!MoneyIsReal` | `[](CarriesOnlyFills /\ BookedQuantityWasTraded)` | conjuncts of `EngineInv` |
| `Execution_proofs!LegsAreInResult` | `[]LegsInResult`: a success has a leg that traded, and the result has all the legs or none | inductive with the invariants before it |
| `Execution_proofs!LifecycleIsKept` | `Spec => Observed!Safety`, the safety part of `ImplementsLifecycle` | with `EndInv` and `LegsInResult`: an execution is refused, or launched with all its legs and settled once, along the machines' maps and in agreement with its legs; everything else is a stutter. The reachable states of a map are the least set closed under it, which is stated without recursion |
| `RiskGate_proofs!TypeCorrect` | `[]TypeOK` | inductive by itself |
| `RiskGate_proofs!Exclusion` | `[]LockIsHeldInside` | inductive with `TypeOK`, any number of executions, automatic or not |
| `RiskGate_proofs!CounterIsTrue` | all executions automatic `=> []CounterFollowsExecutions` | with exclusion at most one execution is between its GET and its SET, so what it read is the counter; the strengthening says so |
| `AutoExecutionAndTracking_proofs!TypeCorrect` | `AutoSpec => []AutoTypeOK` | inductive by itself |
| `AutoExecutionAndTracking_proofs!Protection` | `[]LockProtects` | inductive with `AutoTypeOK` |
| `AutoExecutionAndTracking_proofs!PaperRules` | `[](PaperIsRelaxed /\ RelaxationEnds)` | from `LockProtects` |
| `BalancesAndScanning_proofs!TypeCorrect` | `[]TypeOK`, free balances never negative | inductive by itself; one lemma per pair of actions |
| `BalancesAndScanning_proofs!LateCancels` | `[]OnlyLateCancelsFail` | from `SettlementInv`: an order whose fill is pending has a quantity and is not filled yet |
| `BalancesAndScanning_proofs!Implementation` | `Spec => ImplementsAccount` | with `SettlementInv`, placing and cancelling are stutters of the account and a fill is one settlement: a buyer pays the whole reservation if the cost exceeds it, else the cost |
| `BalancesAndScanning_proofs!LockedFunds` | `Spec => []LockedIsReserved`, any finite set of orders, quantities, prices and fees | with `SettlementInv`: each step moves one order between the sets that the sums run over and the balance by its summand. `MapThenSumSet` is a fold, so lemmas on the sums of finite tables come first (below) |
| `BalancesAndScanning_proofs!Inventories` | `InventorySpec => []InventoryInv`, which contains `InventoryTypeOK` | a task that asks, or whose exchange gave no answer, is at the first asset |
| `BalancesAndScanning_proofs!ViewsFit` | `InventorySpec => []ViewsAgree`, any number of exchanges and assets, any prices | no further induction over steps: any table of amounts will do. A table is added up by rows or by columns; the concentration lies between the bounds of Cauchy's inequality; the deviations cancel out, so that of three exchanges the others either are one, which gets no more than the surplus, or lack together what the first has too much |
| `LiveTrading_proofs!TypeCorrect` | `Spec => []TypeOK` | inductive by itself |
| `LiveTrading_proofs!BreakersAreSound` | `[]ClosedIsBelowThreshold` | inductive with `TypeOK`; one lemma per operation on the breakers, as none else touches them |
| `LiveTrading_proofs!OpenOnesHold` | `Spec => OpenHolds` | the same lemmas: only the operator or an elapsed time closes a breaker |
| `LiveTrading_proofs!Overshoot` | `[]DailyOvershootIsBounded`, any callers, limits and modes | the strengthening, `Room`: what is used and what is approved but not recorded stays within the limit plus one largest order for each *other* caller that is pending, because the caller that read last still found room for itself; callers that midnight overtakes keep counting for the day they read |
| `LiveTrading_proofs!Agreement` | `[]GatesAgree`, any settings and limits | no induction: check by check, what the guardrails ask of the two orders contains what the rules ask of the opportunity, once the configured mode is enabled |
| `AutoExecutionAndTracking_proofs!BooksStaySound` | `Spec => []BooksAreSound`, any number of orders and any ring | `BooksInv`: an order in a round of polls is active or was given up during it, and only the latter end twice; nothing is known of an order before it is registered, and what is on record or on its way was once true |
| `RiskGate_proofs!Admission` | all executions automatic `=> AdmissionIsCurrent` | from exclusion: what the holder of the lock has read nobody else has changed; the strengthening says so rule by rule |
| `RiskGate_proofs!ProfitIsSummed` | all executions automatic and the gains bounded (there is a largest, as in every finite set) `=> []PnlAccumulates` | from exclusion: between GET and SET the stored profit is what was read, so the sum misses only the updates that failed or that a restart cut off, each by at most the largest gain |
| `Execution_proofs!BooksTellTheTruth` | `[]BooksAreTrue` | `FlatInv` with `EngineInv`: reports are about orders of the planned quantity, and a hedge orders the difference of the two reported fills |
| `Execution_proofs!EndsTruthfully` | `[]EndsAsReported` | `EndInv`: what the engine reports fits what it did, and the machines and the list of active executions follow it step by step |
| `AutoExecutionAndTracking_proofs!SwitchSpares` | `AutoSpec => OnlyWaitingOnesSlipThrough` | `WaitersAreSpared`: while the switch is active nobody new queues, so every waiter was one when it was activated |
| `MarketData_proofs!AgesAreKnown` | `[]AgesInv`, which contains `TypeOK` | messages are under way in the order in which they were sent, any number of them; while the connection stands, whatever the cache holds or an answer carries, a message that was sent before it is followed by one that tells the same price, or tells it itself; an entry is no younger than its writing; a public adapter's memo and answers are no older than the cache |
| `MarketData_proofs!SetbacksComeFromStreams` | `Spec => SetbacksAreMended`, any exchanges, thresholds and delays up to the freshness | from `AgesInv`: a REST answer replaces only an entry that is older than an answer can be; when a message replaces a later price, a message behind it tells that price |
| `PlanningAndAlerts_proofs!PlansAreCovered` | `Spec => []PlanIsCovered` | `PlanInv`: what the rules checked and did not refuse holds of the opportunity and the snapshot until the plan is built, whatever changes meanwhile; then each amount of the plan is capped by a balance of the snapshot, leg by leg |
| `PlanningAndAlerts_proofs!OnlyWalkedOnesAreApproved` | `Spec => []OnlyWalkedOnesPass`, any books, lists and settings | from `PlanInv`: what the scanner did not walk has no depth and the strict rule wants some; the joined symbol of a triangle is in no list |
| `PlanningAndAlerts_proofs!SimulationsAreNoBetter` | `Spec => SimulationIsNoBetter`, any tickers, books, fees and changes | from `PlanInv` leg by leg: both order at the same tickers, a book or the fixed slippage fills a purchase with no more than was ordered (`WalksFillAtMost`), a smaller amount ends smaller, and a sale into a book brings at most its first bid for every unit (`SalesBringAtMost`) |
| `PlanningAndAlerts_proofs!BlocksAreReported` | `AlertSpec => []BlockIsReported`, any rules, channels, cooldowns and times of sending | `Watch`: the time for which a stop has been silent and the time that *remains* until the rule is reached, its cooldown over and the channels before it done, never exceed the longest cooldown and one round, plus one round for each failing command so far |
| `BalancesAndScanning_proofs!ScanningIsTyped` | `ScanSpec => []ScanTypeOK` | `ScanInv` is inductive: a scan that waits for a fee carries two known exchanges, and the triangles it has still to publish were worth it by the rates |
| `BalancesAndScanning_proofs!EstimatesAreRight` | `ScanSpec => []EstimatesHold`, any two books | by arithmetic over the book (below), then field by field: the executable quantity is the least of its limits rounded down, and one step more breaks the limit that was least; a gain on the whole quantity leaves one on the part that can be sold, as a part costs no more per unit |
| `BalancesAndScanning_proofs!QuotesAreRight` | `ScanSpec => QuoteHolds`, any books, tickers and fees | from `ScanInv` and the walks: less is bought than walked when the bids are thinner, and less costs less on average |
| `BalancesAndScanning_proofs!TrianglesAreRight` | `ScanSpec => []TrianglesPay`, any pairs, starts and uncrossed rates | from `ScanInv`: a path is a chain of three pairs whose ends meet. Twice round in opposite directions buys at each ask and sells at each bid, so the two gains multiply to at most one, and only one of them can exceed it |

**Sums and folds.** `MapThenSumSet` and `SumFunction` are recursive functions over
the subsets of a finite set, and the prover offers no induction theorem for them.
What takes its place is a minimal counterexample: were there a subset with a
property, there would be a smallest one (`MinimalSubset`, by well-foundedness). In
this way `OrderBooks_proofs` shows that the table of partial sums exists and is
unique, that the order of the summands does not matter, and the rules for sums,
multiples, bounds, zeros, squares, and rows and columns.

**Order books.** A walk of the code is a `FoldLeft` over the levels, which is a fold
over the indices of a sequence that takes the greatest last. `OrderBooks_proofs` shows
that its table over `1..0`, `1..1`, ... exists (`FirstIndices`, `TableRuns`), so
that a property of a walk can be shown level by level. The market order of
`OrderBooks`, which takes from each level what the ones before it have left, then is
a ladder (`Ladders`, `MarketAt`): an order for `q` takes the levels before the one it
ends in whole and that one in part, every unit has a price (`Units`), and where the
cheapest level comes first one unit more costs no less than the one before it
(`CostGrows`), so that a smaller order costs no more on average (`SmallerIsCheaper`).
The three walks are that ladder climbed up to a quantity (`WalksAreMarket`) or up to
an amount of money (`SpendBuys`).

Model-checked only: everything under fairness (`Returns`, `EveryExecutionEnds`,
`PauseEnds`, `EveryWaiterGetsItsTurn`, `EveryEndIsSeen`, `MismatchIsFound`,
`CacheCatchesUp`, `TickersCatchUp`, `SpreadIsPublished`, and that the life cycle of
`ImplementsLifecycle` comes to its end), as liveness and `ENABLED` are beyond the
prover. Every invariant and every action property that a passing run checks is a
theorem.

## 5. Read beside the code: disagreements without a run

**Sentences of documents and comments that the models do not keep.** Each of
these is a definition of the module named; TLC finds a counterexample when it is
added to the configuration of that module's run, with the constants given.

* `Execution!AcceptedOrderIsFollowed` (`docs/architecture.md:67`, "Handles the
  low-level order placement and status polling"): any status but `FILLED` and
  `PARTIALLY_FILLED` fails the leg at once (`execution_engine.py:384`) and the
  order is never asked about again; OKX and Bybit answer with `NEW`.
* `Execution!HedgingIsAlerted` (`execution_coordinator.py:644`, "Alert on hedging
  events (indicates one-sided execution risk)"): `_hedge_single_leg` overwrites
  the state `HEDGING` before it returns, and no leg's error mentions a hedge.
* `Execution!OrdersFollowThePlan` with `PlanQtys <- Clamped`
  (`execution_planner.py:190`, "Compute optimal quantity (constrained by
  balance)"): the coordinator hands the engine the opportunity, not the plan, and
  the engine orders `executable_quantity` (`execution_engine.py:337`).
* `RiskGate!PnlAccumulates` with `Automatic <- NoExecs` (`risk_engine.py:625`,
  "Atomically update today's cumulative PnL in Redis"): two executions of the
  API, which take no lock, lose an update.
* `RiskGate!RejectedOnlyWhenBusy` with `MaxConcurrent = 1`
  (`docs/architecture.md:101`, "Active executions < concurrency cap"): the
  counter of executions that a restart cut off stays up (`execution_coordinator.py:281`).
* `AutoExecution!ExecutionsAreSpaced` (`main.py:120`, "minimum seconds between
  executions per symbol"): the time is stamped before the wait for the lock.
* `AutoExecution!OnlySimulatedOnesAreRelaxed` (`main.py:191`, "temporarily disable
  strict rules so simulated executions can proceed"): the rules are disabled on
  the shared `RiskEngine`, so a LIVE request skips them meanwhile.
* `MarketData!StaleIsDetected` with `MaxFaults = 2` (`market_data.py:83`, "Detects
  stale data beyond a configurable threshold"): the public adapter answers a
  failed request with what it had (`public_adapter.py:440`) and the poll stores it
  as new, so a silent exchange stays fresh for ever.

**Execution.**

* The engine hands the quantity bought by one leg of a triangle to the next as its
  quantity, without a conversion (`execution_engine.py:544`): the amount of the first
  asset is ordered as an amount of the second. The planner divides by the price.
* A partial fill opposite a failed leg is COMPLETED unhedged
  (`execution_engine.py:656`), though `execution_coordinator.py:583` speaks of
  partial fills "that were subsequently hedged". `CompletedIsFlat` names the case.
* `docs/architecture.md:222` has "Timeout --> cancel + hedge attempt"; nothing
  cancels an order, and when both legs time out nothing is hedged.
* `MaxDailyLossRule` compares the *absolute* profit (`risk_engine.py:120`).
* Executions of the API check the cap and increment later, without a lock.
* Losses of failed executions and of hedges are never booked.
* Shutdown cancels a running execution with its scan (`main.py:485`).

**Planning and risk rules.**

* Opportunities that the API makes up, and all triangles, carry no depth, so the
  strict `MinDepthRule` refuses them always (`OnlyWalkedOnesPass`), while
  `MinOrderbookDepthRule` lets a missing depth pass.
* The joined symbol of a triangle is in no list of enabled pairs, so triangles are
  refused even under the relaxed rules. The default pairs all quote in USDT and
  form no triangle in the first place.
* `simulate_triangular` orders by the ticker's ask, whatever the book asks, and fills
  from the book (`simulation.py:415`, `simulation.py:432`); ticker and book are cached
  on their own, so a book that bids more than the cached ticker lets the simulation
  promise more than the plan.
* A fee of 0 is replaced by the default of 0.10 %. A bounded quantity may be 0.
  Nothing looks at whether the simulation called the plan feasible.
* The sides of a triangle are fixed to BUY, BUY, SELL in the engine
  (`execution_engine.py:501`), the simulation and the planner
  (`execution_planner.py:352`, under the comment "determine sides and prices from
  tickers"); the scanner finds paths with other sides.

**Scanning and estimates.**

* `compute_executable_quantity` caps at the best ask, so the cost may exceed the
  "Maximum notional value" (`calculations.py:372`). `compute_net_profit` counts
  slippage twice. `walk_orderbook_depth` counts levels without a price, `walk_book`
  does not. Only tests use `calculations.py`.
* The scanner subtracts a slippage measured against the books from a spread
  measured between tickers, and adds percentages of different bases.
* Without books the quantity is the ticker's size, which no cap bounds
  (`scanner.py:305`). One crossed ticker hides all spreads of its symbol
  (`scanner.py:248`).
* `GET` requests that run a scan (`scanner_status.py`, `market.py:255`,
  `simulate.py:243`) publish what they find and so may start executions; the
  request that simulates an opportunity by its id scans anew and never finds it.
* `events.py:79` says "`publish` is fire-and-forget by default"; it waits for all
  handlers, so a scan waits for the execution it caused, and a WebSocket client
  that does not read holds up scans.

**Live trading.**

* No order passes `validate_pre_order`, `record_live_order_notional`,
  `record_failure` or `OrderTracker`; the live rules are not registered.
* `live_max_daily_total_usdt` is never compared; `live:daily_loss` is never
  written, so `MaxDailyLiveLossRule` never fires; `TradingPermissionRule` looks at
  the presence of keys only.
* The endpoint that sets the mode reports success when `set_mode` refuses
  (`api/routes/live.py:112`), and `settings.live.trading_mode`, which the
  auto-execution reads, stays as it was.
* The endpoint that trips a breaker passes a threshold of 1 that an existing
  breaker ignores, and reports "tripped" all the same
  (`api/routes/kill_switch.py:233`). The endpoints that list breakers fail when
  there is one, as they read attributes of dictionaries.
* In `OrderTracker` the retries of an order are never reset by a success; an order
  that failed without an id is never reconciled; a late partial answer leaves a
  completed order partially filled; a reconciliation compares quantities only and
  corrects nothing.

**Caches and alerts.**

* `_on_ws_ticker` overwrites unconditionally (`market_data.py:273`). A message that
  was under way while a REST answer filled in a later price puts the earlier one
  back until the next message is handled, or, when the connection is lost in
  between, until a poll finds the entry old enough.
* `InventoryManager.start` is never called, so "Periodically fetches and caches
  balances from all exchanges" (`inventory.py:74`) holds only after executions;
  `on_execution_completed` is never called. Nothing repairs the
  cache after the last execution: if one `get_balance` fails in its refresh, or an
  older refresh writes after it, the entries stay wrong until there is another. The
  real adapters leave out
  empty balances, so the cache keeps what an exchange no longer holds, and the
  planner uses it. With four or more exchanges the suggestions of a rebalance may
  together move more than an exchange holds too much.
* `AlertService.start` is never called (`docs/architecture.md` speaks of rules
  "that fire on event bus triggers"). `_check_daily_loss` takes the absolute value.
  If no exchange has a ticker there is no alert of a disconnection, and without a
  balance in USDT none of a low one.

**Paper trading.**

* A paper buy is never charged more than it reserved: a market buy pays no fee
  and a limit buy below the market fills at its limit, against the comment
  "Refund difference or charge extra" (`exchanges/mock.py:383`). A limit sell
  fills at whatever the price is, whatever its limit.
* `cancel_order` of the paper exchange reports success for an order whose fill is
  being delayed and fills all the same; the funds are then released twice, and
  the locked balance can become negative.
* The engine synchronises the prices of a paper exchange with the market of *its*
  exchange (`execution_engine.py:237`), but `set_price` writes the prices all
  paper exchanges share (`exchanges/mock.py:542`): both legs fill near the price
  of the exchange that was synchronised last.

## 6. Not modelled, and what is left

* **Not modelled**: the audit log (an append-only list), analytics and the other
  routes (queries), models, schemas and seed data (declarations), the parsing and
  signing of the adapters (no state, no decision), the confidence score of
  `calculations.py` (a weighting of floating-point ratios that only tests call), subscriptions of the `EventBus` (made once at start-up), the
  `ConnectionManager` and the frontend (presentation).
* **Compositions**: `AutoExecution` over `RiskGate` (the handler's protected part
  is one gate execution) and `Scanning` over `MarketData`, as refinements.
* **Larger instances**: two symbols in `Scanning`, two assets in `Inventory`, a
  retry limit above one in `OrderTracker`.
