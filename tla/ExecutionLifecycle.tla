------------------------- MODULE ExecutionLifecycle -------------------------
(***************************************************************************)
(* What an observer of an execution (the API's active-executions and       *)
(* detail views, the audit trail) is promised about its state machines,    *)
(* whatever the engine and the exchanges do: the execution is refused, or  *)
(* it is launched with all its legs and then settled once, with an outcome *)
(* that agrees with the outcomes of its legs.                              *)
(***************************************************************************)
EXTENDS StateMachine

CONSTANT Plans          \* the sets of legs a plan may have

VARIABLES execution,    \* the state of the execution's machine
          legs          \* the state of each leg's machine

vars == <<execution, legs>>

LifecycleTypeOK == /\ execution \in ExecutionStates
                   /\ \E plan \in Plans : legs \in [plan -> LegStates]

Init == /\ execution = "CREATED"
        /\ legs \in {[l \in plan |-> "PENDING"] : plan \in Plans}

\* The plan cannot be built, or the risk rules refuse it: no leg moves.
Refuse == /\ execution = "CREATED"
          /\ execution' \in ExecutionReach[execution]
          /\ execution' \in {"ABORTED", "RISK_REJECTED"}
          /\ UNCHANGED legs

\* All the legs are submitted together with the start of the execution.
Launch == /\ execution = "CREATED"
          /\ execution' \in ExecutionReach[execution]
          /\ execution' = "EXECUTING"
          /\ legs' = [l \in DOMAIN legs |-> "SUBMITTING"]

\* The legs the exchange touched.
Traded(ls) == {l \in DOMAIN ls : ls[l] \in {"FILLED", "PARTIAL_FILLED"}}

\* One settlement, along the machines' transitions.  COMPLETED needs a leg
\* that traded; a leg that is still being submitted belongs to an execution
\* that failed before its orders.
Settle == /\ execution = "EXECUTING"
          /\ execution' \in ExecutionReach[execution]
          /\ execution' \in {"COMPLETED", "FAILED"}
          /\ legs' \in [DOMAIN legs -> LegStates]
          /\ \A l \in DOMAIN legs : legs'[l] \in LegReach[legs[l]]
          /\ execution' = "COMPLETED" => Traded(legs') # {}
          /\ \/ \A l \in DOMAIN legs : legs'[l] = "SUBMITTING"
             \/ \A l \in DOMAIN legs :
                  legs'[l] \in {"FILLED", "PARTIAL_FILLED", "FAILED", "CANCELLED"}

Next == Refuse \/ Launch \/ Settle

Safety == Init /\ [][Next]_vars

Spec == Safety /\ WF_vars(Next)
=============================================================================
