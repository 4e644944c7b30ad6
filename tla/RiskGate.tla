------------------------------ MODULE RiskGate ------------------------------
(***************************************************************************)
(* The counters that gate the executions: services/risk_engine.py keeps    *)
(* the number of running executions, the number of consecutive failures    *)
(* and today's profit in Redis, checks them before an execution and books  *)
(* them around it (services/execution_engine.py, execute).                 *)
(*                                                                         *)
(* Several executions run on one asyncio loop and every Redis command is   *)
(* awaited, so the commands of different executions interleave; each       *)
(* command is atomic at the server.  An execution that the scanner starts  *)
(* (main.py, _on_opportunity) holds _auto_exec_lock from before its risk   *)
(* check to its end; one that an API request starts takes no lock.  A      *)
(* command may fail, with its effect lost or not, and the backend may      *)
(* restart; Redis keeps its keys.                                          *)
(***************************************************************************)
EXTENDS Integers, FiniteSets

CONSTANTS
    Execs,          \* the executions that are asked for
    Automatic,      \* those of them that the scanner asks for
    MaxConcurrent,  \* risk.max_open_orders
    MaxFailures,    \* risk.max_consecutive_failures
    LossLimit,      \* risk.max_daily_loss_usdt
    Gains,          \* what a successful execution may report as its profit
    MaxFaults,      \* bound: Redis commands that fail
    MaxRestarts,    \* bound: restarts of the backend
    NoExec          \* not an execution

ASSUME ExecsAssumption == IsFiniteSet(Execs) /\ NoExec \notin Execs
ASSUME AutoAssumption  == Automatic \subseteq Execs
ASSUME LimitAssumption == /\ MaxConcurrent \in Nat \ {0}
                          /\ MaxFailures \in Nat \ {0}
                          /\ LossLimit \in Nat
ASSUME GainAssumption  == Gains \subseteq Int
ASSUME BoundAssumption == MaxFaults \in Nat /\ MaxRestarts \in Nat

VARIABLES
    concurrent,   \* risk:concurrent_executions
    failures,     \* risk:consecutive_failures
    failKey,      \* whether that key exists, and whether it will expire
    dailyPnl,     \* risk:daily_loss:<today>, the day's profit
    lock,         \* the holder of _auto_exec_lock
    pc,           \* the Redis command an execution is about to send
    ok,           \* every rule evaluated so far has passed
    seen,         \* what the GET of a GET-SET pair returned
    outcome,      \* the success and the profit of the ExecutionResult
    faults,       \* Redis commands that failed so far
    restarts,     \* restarts so far
    leaked,       \* executions that a restart ended before their decrement
    booked        \* what record_daily_pnl has been asked to add

redis == <<concurrent, failures, failKey, dailyPnl>>
history == <<restarts, leaked>>
vars == <<redis, lock, pc, ok, seen, outcome, faults, history, booked>>

\* "waiting" also stands for an execution that has not been asked for yet.
Points == {"waiting", "check_loss", "check_failures", "check_concurrent",
           "increment", "running", "dec_get", "dec_set", "record", "expire",
           "pnl_get", "pnl_set", "tail", "finished", "lost"}

Outcomes == [success : BOOLEAN, gain : Int]

TypeOK == /\ concurrent \in Nat
          /\ failures \in Nat
          /\ failKey \in {"absent", "permanent", "expiring"}
          /\ dailyPnl \in Int
          /\ lock \in Execs \cup {NoExec}
          /\ pc \in [Execs -> Points]
          /\ ok \in [Execs -> BOOLEAN]
          /\ seen \in [Execs -> Int]
          /\ outcome \in [Execs -> Outcomes]
          /\ faults \in 0..MaxFaults
          /\ restarts \in 0..MaxRestarts
          /\ leaked \in Nat
          /\ booked \in Int

Init == /\ concurrent = 0
        /\ failures = 0
        /\ failKey = "absent"
        /\ dailyPnl = 0
        /\ lock = NoExec
        /\ pc = [p \in Execs |-> "waiting"]
        /\ ok = [p \in Execs |-> TRUE]
        /\ seen = [p \in Execs |-> 0]
        /\ outcome = [p \in Execs |-> [success |-> FALSE, gain |-> 0]]
        /\ faults = 0
        /\ restarts = 0
        /\ leaked = 0
        /\ booked = 0

At(p, point) == pc[p] = point

Goto(p, point) == pc' = [pc EXCEPT ![p] = point]

\* A Redis command returns, or raises: unreachable, or timed out with its
\* effect in place.
Works == UNCHANGED faults
Raises == faults < MaxFaults /\ faults' = faults + 1

AbsOf(n) == IF n < 0 THEN -n ELSE n

-----------------------------------------------------------------------------
(***************************************************************************)
(* RiskEngine.evaluate.  Every rule is evaluated, also after one that has  *)
(* failed.  The nine rules that do not read Redis pass or not at the start.*)
(* A rule whose read raises falls back to the RiskContext, in which the    *)
(* planner sets balances and exposures only: its counters are zeros, which *)
(* pass.                                                                   *)
(***************************************************************************)
AcquireNothing(p) == UNCHANGED lock          \* mutant: no lock

Acquire(p) ==
    IF p \in Automatic THEN lock = NoExec /\ lock' = p ELSE UNCHANGED lock

Start(p) ==
    /\ At(p, "waiting")
    /\ Acquire(p)
    /\ \E others \in BOOLEAN : ok' = [ok EXCEPT ![p] = others]
    /\ Goto(p, "check_loss")
    /\ UNCHANGED <<redis, seen, outcome, faults, history, booked>>

WithinLoss == AbsOf(dailyPnl) <= LossLimit

CheckLoss(p) ==
    /\ At(p, "check_loss")
    /\ \/ Works  /\ ok' = [ok EXCEPT ![p] = @ /\ WithinLoss]
       \/ Raises /\ UNCHANGED ok
    /\ Goto(p, "check_failures")
    /\ UNCHANGED <<redis, lock, seen, outcome, history, booked>>

CheckFailures(p) ==
    /\ At(p, "check_failures")
    /\ \/ Works  /\ ok' = [ok EXCEPT ![p] = @ /\ failures < MaxFailures]
       \/ Raises /\ UNCHANGED ok
    /\ Goto(p, "check_concurrent")
    /\ UNCHANGED <<redis, lock, seen, outcome, history, booked>>

\* The last rule that waits; the decision and, for an approved opportunity,
\* the way to the engine follow.
CheckConcurrent(p) ==
    /\ At(p, "check_concurrent")
    /\ \/ Works  /\ ok' = [ok EXCEPT ![p] = @ /\ concurrent < MaxConcurrent]
       \/ Raises /\ UNCHANGED ok
    /\ Goto(p, IF ok'[p] THEN "increment" ELSE "tail")
    /\ UNCHANGED <<redis, lock, seen, outcome, history, booked>>

-----------------------------------------------------------------------------
(***************************************************************************)
(* ExecutionEngine.execute around the orders.                              *)
(***************************************************************************)

\* increment_concurrent: INCR; the exception is swallowed.
Increment(p) ==
    /\ At(p, "increment")
    /\ \/ Works  /\ concurrent' = concurrent + 1
       \/ Raises /\ concurrent' \in {concurrent, concurrent + 1}
    /\ Goto(p, "running")
    /\ UNCHANGED <<failures, failKey, dailyPnl, lock, ok, seen, outcome,
                   history, booked>>

\* The orders (module ExecutionEngine): they end in success or not.
Trade(p) ==
    /\ At(p, "running")
    /\ \E s \in BOOLEAN, g \in Gains :
         outcome' = [outcome EXCEPT ![p] = [success |-> s, gain |-> g]]
    /\ Goto(p, "dec_get")
    /\ UNCHANGED <<redis, lock, ok, seen, faults, history, booked>>

\* decrement_concurrent: GET, then SET of max(0, current - 1).
DecrementGet(p) ==
    /\ At(p, "dec_get")
    /\ \/ Works  /\ seen' = [seen EXCEPT ![p] = concurrent] /\ Goto(p, "dec_set")
       \/ Raises /\ UNCHANGED seen /\ Goto(p, "record")
    /\ UNCHANGED <<redis, lock, ok, outcome, history, booked>>

OneLessUnbounded(n) == n - 1                 \* mutant: no max(0, ...)

OneLess(n) == IF n > 0 THEN n - 1 ELSE 0

DecrementSet(p) ==
    /\ At(p, "dec_set")
    /\ \/ Works  /\ concurrent' = OneLess(seen[p])
       \/ Raises /\ concurrent' \in {concurrent, OneLess(seen[p])}
    /\ Goto(p, "record")
    /\ UNCHANGED <<failures, failKey, dailyPnl, lock, ok, seen, outcome,
                   history, booked>>

\* record_execution_result(True): SET "0" without a time to live.
RecordSuccess(p) ==
    /\ At(p, "record")
    /\ outcome[p].success
    /\ \/ Works  /\ failures' = 0 /\ failKey' = "permanent"
       \/ Raises /\ \/ failures' = 0 /\ failKey' = "permanent"
                    \/ UNCHANGED <<failures, failKey>>
    /\ Goto(p, "pnl_get")
    /\ UNCHANGED <<concurrent, dailyPnl, lock, ok, seen, outcome, history, booked>>

\* record_execution_result(False): INCR keeps a time to live but sets none;
\* the EXPIRE after it is skipped when the INCR raises.
Incremented == /\ failures' = failures + 1
               /\ failKey' = IF failKey = "absent" THEN "permanent" ELSE failKey

RecordFailure(p) ==
    /\ At(p, "record")
    /\ ~outcome[p].success
    /\ \/ Works  /\ Incremented /\ Goto(p, "expire")
       \/ Raises /\ (Incremented \/ UNCHANGED <<failures, failKey>>) /\ Goto(p, "tail")
    /\ UNCHANGED <<concurrent, dailyPnl, lock, ok, seen, outcome, history, booked>>

WillNotExpire == UNCHANGED failKey           \* mutant: no EXPIRE

WillExpire == failKey' = IF failKey = "absent" THEN "absent" ELSE "expiring"

Expire(p) ==
    /\ At(p, "expire")
    /\ \/ Works  /\ WillExpire
       \/ Raises /\ (WillExpire \/ UNCHANGED failKey)
    /\ Goto(p, "tail")
    /\ UNCHANGED <<concurrent, failures, dailyPnl, lock, ok, seen, outcome,
                   history, booked>>

\* record_daily_pnl, after a success only: GET, then SET of the sum.
PnlGet(p) ==
    /\ At(p, "pnl_get")
    /\ booked' = booked + outcome[p].gain
    /\ \/ Works  /\ seen' = [seen EXCEPT ![p] = dailyPnl] /\ Goto(p, "pnl_set")
       \/ Raises /\ UNCHANGED seen /\ Goto(p, "tail")
    /\ UNCHANGED <<redis, lock, ok, outcome, history>>

LatestPnl(p) == outcome[p].gain              \* mutant: the sum is overwritten

NewPnl(p) == seen[p] + outcome[p].gain

PnlSet(p) ==
    /\ At(p, "pnl_set")
    /\ \/ Works  /\ dailyPnl' = NewPnl(p)
       \/ Raises /\ dailyPnl' \in {dailyPnl, NewPnl(p)}
    /\ Goto(p, "tail")
    /\ UNCHANGED <<concurrent, failures, failKey, lock, ok, seen, outcome,
                   history, booked>>

\* Mutant: an execution that failed returns with the lock held.
ReleaseAfterSuccess(p) ==
    lock' = IF p \in Automatic /\ outcome[p].success THEN NoExec ELSE lock

ReleaseLock(p) == lock' = IF p \in Automatic THEN NoExec ELSE lock

\* What follows a rejection or the bookkeeping, to the end of the coroutine.
Finish(p) ==
    /\ At(p, "tail")
    /\ Goto(p, "finished")
    /\ ReleaseLock(p)
    /\ UNCHANGED <<redis, ok, seen, outcome, faults, history, booked>>

-----------------------------------------------------------------------------
(***************************************************************************)
(* The environment.                                                        *)
(***************************************************************************)
TtlElapses ==
    /\ failKey = "expiring"
    /\ failKey' = "absent"
    /\ failures' = 0
    /\ UNCHANGED <<concurrent, dailyPnl, lock, pc, ok, seen, outcome, faults,
                   history, booked>>

\* The executions between their increment and their decrement.
Live == {p \in Execs : pc[p] \in {"running", "dec_get", "dec_set"}}

Ended(p) == pc[p] \in {"finished", "lost"}

\* A crash, or a shutdown: it cancels the scanner's task where it waits, and
\* CancelledError passes every "except Exception" of the bookkeeping.
Restart ==
    /\ restarts < MaxRestarts
    /\ restarts' = restarts + 1
    /\ leaked' = leaked + Cardinality(Live)
    /\ pc' = [p \in Execs |-> IF At(p, "waiting") \/ Ended(p) THEN pc[p] ELSE "lost"]
    /\ lock' = NoExec
    /\ UNCHANGED <<redis, ok, seen, outcome, faults, booked>>

Step(p) ==
    \/ Start(p)
    \/ CheckLoss(p) \/ CheckFailures(p) \/ CheckConcurrent(p)
    \/ Increment(p) \/ Trade(p)
    \/ DecrementGet(p) \/ DecrementSet(p)
    \/ RecordSuccess(p) \/ RecordFailure(p) \/ Expire(p)
    \/ PnlGet(p) \/ PnlSet(p)
    \/ Finish(p)

Next == (\E p \in Execs : Step(p)) \/ TtlElapses \/ Restart

Spec == Init /\ [][Next]_vars

\* The event loop runs every coroutine that can run, every Redis command
\* returns or times out, and Redis expires keys.
FairSpec == Spec /\ (\A p \in Execs : WF_vars(Step(p))) /\ WF_vars(TtlElapses)

-----------------------------------------------------------------------------
(***************************************************************************)
(* Properties.                                                             *)
(***************************************************************************)

\* Only the execution that holds the lock is beyond its start, among those of
\* the scanner, and the lock is held by such an execution.
LockIsHeldInside ==
    \A p \in Automatic : lock = p <=> ~(At(p, "waiting") \/ Ended(p))

Near(m, n, d) == AbsOf(m - n) <= d

\* The counter that gates concurrency differs from the number of executions
\* that run or were cut off, by at most one for every Redis command that
\* failed.  (A GET-SET decrement keeps this only because of the lock.)
CounterFollowsExecutions ==
    Near(concurrent, Cardinality(Live) + leaked, faults)

LargestGain == CHOOSE g \in {AbsOf(h) : h \in Gains} : \A h \in Gains : AbsOf(h) <= g

\* risk_engine.py:625, "Atomically update today's cumulative PnL in Redis":
\* while no update is under way the stored profit is the sum of all updates,
\* but for the updates that failed or were cut off.
PnlAccumulates ==
    (\A p \in Execs : ~At(p, "pnl_set"))
        => Near(dailyPnl, booked, (faults + restarts) * LargestGain)

\* When an execution passes the gate, what its rules read is still so: it
\* starts only while the counters are below their limits.
AdmissionIsCurrent ==
    [][\A p \in Execs :
          (pc[p] = "increment" /\ pc'[p] = "running" /\ faults' = 0) =>
              /\ concurrent < MaxConcurrent
              /\ failures < MaxFailures
              /\ WithinLoss]_vars

\* Every execution that is asked for ends: the lock is always released, also
\* by an execution that was rejected or whose bookkeeping failed.
EveryExecutionEnds == \A p \in Execs : <>Ended(p)

\* config.py:78, "Pause after N consecutive failed executions": a pause ends
\* by itself, unless a command failed or the backend restarted, for otherwise
\* the key that causes it always gets a time to live or is reset.
PauseEnds ==
    (failures >= MaxFailures)
        ~> (failures < MaxFailures \/ faults > 0 \/ restarts > 0)

-----------------------------------------------------------------------------
(***************************************************************************)
(* What documents say, checked as they say it.                             *)
(***************************************************************************)

\* docs/architecture.md:101, "Active executions < concurrency cap": an execution
\* is rejected for concurrency only if that many executions are active.
RejectedOnlyWhenBusy ==
    [][\A p \in Execs :
          (At(p, "check_concurrent") /\ ok[p] /\ ~ok'[p])
              => Cardinality(Live) >= MaxConcurrent]_vars
=============================================================================
