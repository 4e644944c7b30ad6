---------------------------- MODULE StateMachine ----------------------------
(***************************************************************************)
(* The finite state machines of core/state_machine.py: the transition maps *)
(* of an execution and of one of its legs, and the operations the          *)
(* coordinator performs on a machine.  A machine is represented by its     *)
(* current state; a transition map is a function from a state to the set   *)
(* of states it may move to.                                               *)
(***************************************************************************)
EXTENDS Naturals

(***************************************************************************)
(* The maps.                                                               *)
(***************************************************************************)
ExecutionTransitions ==
    [CREATED          |-> {"RISK_CHECKING", "RISK_REJECTED", "ABORTED"},
     RISK_CHECKING    |-> {"READY", "RISK_REJECTED"},
     RISK_REJECTED    |-> {},
     READY            |-> {"EXECUTING", "ABORTED"},
     EXECUTING        |-> {"PARTIALLY_FILLED", "COMPLETED", "FAILED", "HEDGING"},
     PARTIALLY_FILLED |-> {"COMPLETED", "FAILED", "HEDGING"},
     HEDGING          |-> {"COMPLETED", "FAILED"},
     COMPLETED        |-> {},
     FAILED           |-> {},
     ABORTED          |-> {}]

LegTransitions ==
    [PENDING        |-> {"SUBMITTING", "CANCELLED", "ABORTED"},
     SUBMITTING     |-> {"SUBMITTED", "FAILED"},
     SUBMITTED      |-> {"PARTIAL_FILLED", "FILLED", "CANCELLED", "FAILED"},
     PARTIAL_FILLED |-> {"FILLED", "CANCELLED", "FAILED"},
     FILLED         |-> {},
     CANCELLED      |-> {},
     FAILED         |-> {"HEDGED"},
     HEDGED         |-> {},
     ABORTED        |-> {}]

ExecutionStates == DOMAIN ExecutionTransitions
LegStates       == DOMAIN LegTransitions

(***************************************************************************)
(* The operations.  Try is the coordinator's idiom "if the machine can     *)
(* make the transition, make it"; the result of a refused Try is the       *)
(* machine as it was.                                                      *)
(***************************************************************************)
CanTransition(map, s, t) == t \in map[s]

Try(map, s, t) == IF CanTransition(map, s, t) THEN t ELSE s

IsTerminal(map, s) == map[s] = {}

(***************************************************************************)
(* The states a machine can be in after zero or more transitions: those    *)
(* that no set closed under the map's transitions can leave out.           *)
(***************************************************************************)
Closed(map, S) == \A t \in S : map[t] \subseteq S

Reachable(map, s) ==
    {t \in DOMAIN map :
       \A S \in SUBSET DOMAIN map : s \in S /\ Closed(map, S) => t \in S}

ExecutionReach == [s \in ExecutionStates |-> Reachable(ExecutionTransitions, s)]
LegReach       == [s \in LegStates |-> Reachable(LegTransitions, s)]
=============================================================================
