----------------------------- MODULE KillSwitch -----------------------------
(***************************************************************************)
(* core/kill_switch.py and the endpoints of api/routes/kill_switch.py that *)
(* use it: the global switch, and one circuit breaker for each scope (an   *)
(* exchange, a symbol or a strategy).  A breaker exists from the first     *)
(* failure, or the first manual trip, of its scope.  No operation awaits,  *)
(* so each is one step; a query is a step too, because it closes a breaker *)
(* whose time is over.  The clock is abstracted to the one thing that is   *)
(* asked of it: whether more than auto_reset_after_s passed since an open  *)
(* breaker was opened.                                                     *)
(***************************************************************************)
EXTENDS Integers

CONSTANTS
    Scopes,      \* the scopes that may get a breaker
    Threshold,   \* failure_threshold of a breaker that a failure creates
    MaxFailures  \* bound: the failures of a scope since it was last cleared

ASSUME ThresholdAssumption ==
    /\ Threshold \in Nat \ {0}
    /\ MaxFailures \in Nat /\ MaxFailures >= Threshold

VARIABLES
    active,      \* KillSwitch._active
    breakers     \* KillSwitch._circuit_breakers

switch == <<active, breakers>>

Breaker == [exists : BOOLEAN,       \* it is in the dictionary
            isOpen : BOOLEAN,
            failures : 0..MaxFailures,
            threshold : {1, Threshold},
            reason : BOOLEAN,       \* a reason is noted
            resets : BOOLEAN,       \* auto_reset_after_s > 0
            elapsed : BOOLEAN]      \* its time has passed since it was opened

Absent == [exists |-> FALSE, isOpen |-> FALSE, failures |-> 0,
           threshold |-> Threshold, reason |-> FALSE, resets |-> TRUE, elapsed |-> FALSE]

SwitchTypeOK == active \in BOOLEAN /\ breakers \in [Scopes -> Breaker]

SwitchInit == active = FALSE /\ breakers = [s \in Scopes |-> Absent]

Put(s, b) == breakers' = [breakers EXCEPT ![s] = b]

ShouldAutoReset(b) == b.isOpen /\ b.resets /\ b.elapsed

ClosedOnly(b) ==                             \* mutant: the failures stay
    [b EXCEPT !.isOpen = FALSE]

Cleared(b) == [b EXCEPT !.isOpen = FALSE, !.failures = 0]

-----------------------------------------------------------------------------
(***************************************************************************)
(* The switch.                                                             *)
(***************************************************************************)

Activate == active' = TRUE /\ UNCHANGED breakers

Release == active' = FALSE /\ UNCHANGED breakers

-----------------------------------------------------------------------------
(***************************************************************************)
(* The breakers.                                                           *)
(***************************************************************************)

Created(s, threshold, resets) ==
    IF breakers[s].exists THEN breakers[s]
    ELSE [Absent EXCEPT !.exists = TRUE, !.threshold = threshold, !.resets = resets]

\* A failure counts also on an open breaker, but does not prolong it.
Failed(b) ==
    LET n == b.failures + 1
        trips == n >= b.threshold
    IN  [exists |-> TRUE, isOpen |-> b.isOpen \/ trips, failures |-> n,
         threshold |-> b.threshold, reason |-> b.reason \/ trips,
         resets |-> b.resets, elapsed |-> b.elapsed /\ b.isOpen]

RecordFailure(s) ==
    /\ breakers[s].failures < MaxFailures
    /\ Put(s, Failed(Created(s, Threshold, TRUE)))
    /\ UNCHANGED active

\* The endpoint asks for a threshold of one, which an existing breaker ignores.
Trip(s, resets) ==
    /\ breakers[s].failures < MaxFailures
    /\ Put(s, Failed(Created(s, 1, resets)))
    /\ UNCHANGED active

CloseAtOnce(b) == FALSE                      \* mutant: a success closes it

StaysOpen(b) == b.isOpen /\ ~ShouldAutoReset(b)

RecordSuccess(s) ==
    /\ breakers[s].exists
    /\ Put(s, [breakers[s] EXCEPT !.failures = 0, !.isOpen = StaysOpen(breakers[s])])
    /\ UNCHANGED active

ResetBreaker(s) ==
    /\ breakers[s].exists
    /\ Put(s, [Cleared(breakers[s]) EXCEPT !.reason = FALSE])
    /\ UNCHANGED active

\* is_circuit_open: what it leaves behind, and what it answers.
AfterQuery(queried) ==
    [s \in Scopes |-> IF s \in queried /\ ShouldAutoReset(breakers[s])
                      THEN Cleared(breakers[s]) ELSE breakers[s]]

IsCircuitOpen(s) == s \in Scopes /\ AfterQuery({s})[s].isOpen

\* GET /status and GET /circuit-breakers close every breaker whose time is over.
GetAllBreakers == breakers' = AfterQuery(Scopes) /\ UNCHANGED active

Elapse(s) ==
    /\ breakers[s].isOpen /\ ~breakers[s].elapsed
    /\ Put(s, [breakers[s] EXCEPT !.elapsed = TRUE])
    /\ UNCHANGED active

SwitchNext ==
    \/ Activate \/ Release \/ GetAllBreakers
    \/ \E s \in Scopes :
          \/ RecordFailure(s) \/ RecordSuccess(s) \/ ResetBreaker(s) \/ Elapse(s)
          \/ \E resets \in BOOLEAN : Trip(s, resets)

-----------------------------------------------------------------------------
(***************************************************************************)
(* Properties.                                                             *)
(***************************************************************************)

\* A breaker that is closed has failed less often than its threshold, on
\* whichever of the four ways it was closed: it takes as many new failures to
\* open it again, and one that reached its threshold is open.
\* (kill_switch.py, record_failure, record_success, is_circuit_open)
ClosedIsBelowThreshold ==
    \A s \in Scopes : ~breakers[s].isOpen => breakers[s].failures < breakers[s].threshold

\* Only the operator closes a breaker before its time: neither a success, nor
\* a question, nor a failure or a trip that comes while it is open does.
\* (kill_switch.py, record_success and is_circuit_open)
OpenHolds ==
    [][\A s \in Scopes :
          breakers[s].isOpen /\ ~breakers'[s].isOpen
              => ResetBreaker(s) \/ ShouldAutoReset(breakers[s])]_switch
=============================================================================
