------------------------------ MODULE Execution ------------------------------
(***************************************************************************)
(* services/execution_coordinator.py: execute_opportunity, the workflow    *)
(* around one call of the engine (module ExecutionEngine): plan and risk   *)
(* check, the state machines of the execution and of its legs, the engine, *)
(* the processing of its result, and the clean-up.                         *)
(***************************************************************************)
EXTENDS ExecutionEngine, Sequences, StateMachine

CONSTANT PlanQtys       \* what the planner may clamp the quantity to

ASSUME PlanAssumption == PlanQtys \subseteq 0..Qty

VARIABLES
    step,      \* where execute_opportunity is suspended
    sm,        \* the execution's state machine; NONE before it is created
    legSm,     \* the legs' state machines
    active,    \* the execution is in _active_executions
    planQty,   \* planned_quantity of the plan's legs
    alerts     \* the alert types handed to AlertService.send_alert

coordinatorVars == <<step, sm, legSm, active, planQty, alerts>>

vars == <<engineVars, coordinatorVars>>

AlertTypes == {"EXECUTION_FAILED", "EXECUTION_HEDGING", "NEGATIVE_PNL",
               "HIGH_SLIPPAGE"}

TypeOK == /\ EngineTypeOK
          /\ step \in {"planning", "engine", "refreshing", "returned"}
          /\ sm \in ExecutionStates \cup {"NONE"}
          /\ legSm \in [LegIds -> LegStates]
          /\ active \in BOOLEAN
          /\ planQty \in 0..Qty
          /\ alerts \subseteq AlertTypes

Init == /\ EngineInit
        /\ step    = "planning"
        /\ sm      = "NONE"
        /\ legSm   = [l \in LegIds |-> "PENDING"]
        /\ active  = FALSE
        /\ planQty \in PlanQtys
        /\ alerts  = {}

-----------------------------------------------------------------------------
(***************************************************************************)
(* Up to the engine.  The machine is created when the plan is there, and   *)
(* the whole walk to its next resting state happens without an await; a    *)
(* transition outside the map would raise, so it is a guard.               *)
(***************************************************************************)
Walk(path) == \A i \in 1..Len(path) - 1 :
                CanTransition(ExecutionTransitions, path[i], path[i + 1])

PlanFails ==
    /\ step = "planning"
    /\ result' = Outcome("FAILED", "engine", 0)
    /\ step' = "returned"
    /\ UNCHANGED <<strategy, phase, leg, order, sm, legSm, active, planQty, alerts>>

RiskRejects ==
    /\ step = "planning"
    /\ Walk(<<"CREATED", "RISK_CHECKING", "RISK_REJECTED">>)
    /\ sm' = "RISK_REJECTED"
    /\ active' = FALSE
    /\ result' = Outcome("RISK_REJECTED", "", 0)
    /\ step' = "returned"
    /\ UNCHANGED <<strategy, phase, leg, order, legSm, planQty, alerts>>

Launch ==
    /\ step = "planning"
    /\ Walk(<<"CREATED", "RISK_CHECKING", "READY", "EXECUTING">>)
    /\ sm' = "EXECUTING"
    /\ legSm' = [l \in LegIds |->
                   IF l \in LegsOf(strategy)
                   THEN Try(LegTransitions, legSm[l], "SUBMITTING") ELSE legSm[l]]
    /\ active' = TRUE
    /\ Invoke
    /\ step' = "engine"
    /\ UNCHANGED <<planQty, alerts>>

-----------------------------------------------------------------------------
(***************************************************************************)
(* _process_execution_result: every transition is tried, none is forced.   *)
(***************************************************************************)
LegTry(s, t) == Try(LegTransitions, s, t)

LegAfterDirect(s, status) == LegTry(s, status)   \* mutant: not by SUBMITTED

LegAfter(s, status) ==
    CASE status = "FILLED"         -> LegTry(LegTry(s, "SUBMITTED"), "FILLED")
      [] status = "PARTIAL_FILLED" -> LegTry(LegTry(s, "SUBMITTED"), "PARTIAL_FILLED")
      [] status = "FAILED"         -> LegTry(LegTry(s, "SUBMITTED"), "FAILED")
      [] status = "CANCELED"       ->
           IF CanTransition(LegTransitions, s, "CANCELLED") THEN "CANCELLED"
           ELSE LegTry(LegTry(s, "SUBMITTED"), "CANCELLED")
      [] OTHER                     -> s

ExecutionTry(s, t) == Try(ExecutionTransitions, s, t)

\* Mutant: an engine that returned is an execution that completed.
ExecutionAfterReturn(s, state) == ExecutionTry(s, "COMPLETED")

ExecutionAfter(s, state) ==
    CASE state = "COMPLETED"      -> ExecutionTry(s, "COMPLETED")
      [] state = "PARTIAL_FILLED" -> ExecutionTry(s, "PARTIALLY_FILLED")
      [] state = "HEDGING"        -> ExecutionTry(ExecutionTry(s, "HEDGING"), "COMPLETED")
      [] OTHER                    -> ExecutionTry(s, "FAILED")

ProcessResult ==
    /\ step = "engine"
    /\ phase = "done"
    /\ legSm' = [l \in LegIds |-> LegAfter(legSm[l], leg[l].status)]
    /\ sm' = ExecutionAfter(sm, result.state)
    /\ step' = "refreshing"
    /\ UNCHANGED <<engineVars, active, planQty, alerts>>

\* _check_post_execution_alerts.  No error text of a leg mentions a hedge.
\* The two money alerts depend on prices, which the model leaves open, and
\* can only fire if a profit was computed.
PnlComputed == result.pnlQty > 0 \/ (strategy = Tri /\ result.state = "COMPLETED")

StateAlerts == {t \in {"EXECUTION_FAILED", "EXECUTION_HEDGING"} :
                  IF t = "EXECUTION_FAILED"
                  THEN result.state = "FAILED" /\ result.error # ""
                  ELSE result.state = "HEDGING"}

MoneyAlerts == IF PnlComputed THEN SUBSET {"NEGATIVE_PNL", "HIGH_SLIPPAGE"} ELSE {{}}

PostExecutionAlerts == {StateAlerts \cup m : m \in MoneyAlerts}

\* refresh_all has returned or raised: alerts, audit, history, clean-up.
Conclude ==
    /\ step = "refreshing"
    /\ alerts' \in PostExecutionAlerts
    /\ active' = (active /\ ~IsTerminal(ExecutionTransitions, sm))
    /\ step' = "returned"
    /\ UNCHANGED <<engineVars, sm, legSm, planQty>>

-----------------------------------------------------------------------------
CoordinatorStep == PlanFails \/ RiskRejects \/ Launch \/ ProcessResult \/ Conclude

Next == \/ CoordinatorStep
        \/ EngineStep   /\ UNCHANGED coordinatorVars
        \/ ExchangeStep /\ UNCHANGED coordinatorVars

\* The event loop runs every task that can run, and each wait of the engine
\* ends (wait_for, or the HTTP client's timeout); the exchanges owe nothing.
Fairness == /\ WF_vars(CoordinatorStep)
            /\ WF_vars(EngineStep /\ UNCHANGED coordinatorVars)

Spec == Init /\ [][Next]_vars

FairSpec == Spec /\ Fairness

-----------------------------------------------------------------------------
(***************************************************************************)
(* Properties.                                                             *)
(***************************************************************************)

\* When execute_opportunity returns, the machine rests in a final state and
\* the execution is no longer listed as active: no path through the engine
\* and _process_execution_result leaves an entry of _active_executions behind.
ReturnedIsFinal ==
    step = "returned" =>
        /\ ~active
        /\ sm = "NONE" \/ IsTerminal(ExecutionTransitions, sm)

\* No transition of _process_execution_result is silently refused: the
\* machines end in the states the engine reported, leg by leg.
MachinesTellTheResult ==
    (step \in {"refreshing", "returned"} /\ phase = "done") =>
        /\ sm = result.state
        /\ \A l \in LegsOf(strategy) :
             legSm[l] = CASE leg[l].status = "ABSENT"   -> "SUBMITTING"
                          [] leg[l].status = "CANCELED" -> "CANCELLED"
                          [] OTHER                      -> leg[l].status

\* Every execution that reached the engine and failed raises an alert.
FailureIsAlerted ==
    (step = "returned" /\ phase = "done" /\ result.state = "FAILED")
        => "EXECUTION_FAILED" \in alerts

\* An execution is over when execute_opportunity returns, for the machines, for
\* _active_executions and for whoever reads the alerts, and all of them say what
\* the engine reported. (execution_coordinator.py, _process_execution_result and
\* _check_post_execution_alerts)
EndsAsReported == ReturnedIsFinal /\ MachinesTellTheResult /\ FailureIsAlerted

\* Whatever the exchanges do, execute_opportunity returns.
Returns == <>(step = "returned")

\* The workflow implements the life cycle an observer is promised.  A plan
\* that cannot be built has no machine; to the observer it is aborted.
Observed == INSTANCE ExecutionLifecycle WITH
              Plans     <- {{Buy, Sell}, LegIds},
              execution <- IF sm # "NONE" THEN sm
                           ELSE IF step = "returned" THEN "ABORTED" ELSE "CREATED",
              legs      <- [l \in LegsOf(strategy) |-> legSm[l]]

ImplementsLifecycle == Observed!Spec

-----------------------------------------------------------------------------
(***************************************************************************)
(* What documents and comments say, checked as they say it.                *)
(***************************************************************************)

\* execution_coordinator.py:644, "Alert on hedging events": an execution that
\* placed an emergency hedge for a failed leg raises the hedging alert.
HedgingIsAlerted ==
    (step = "returned" /\ result.error \in {"hedged", "hedge failed"})
        => "EXECUTION_HEDGING" \in alerts

\* docs/architecture.md:67, "Handles the low-level order placement and status
\* polling": an order the exchange accepted and filled is not given up as
\* failed while its timeout has not passed.
AcceptedOrderIsFollowed ==
    \A l \in LegIds : leg[l].error = "status NEW" => order[l].filled = 0

\* execution_planner.py:190, "Compute optimal quantity (constrained by balance)":
\* no leg of a cross-exchange execution orders more than its plan says.
OrdersFollowThePlan ==
    strategy = Cross => \A l \in {Buy, Sell} : order[l].qty <= planQty
=============================================================================
