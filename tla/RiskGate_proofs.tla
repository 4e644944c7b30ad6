--------------------------- MODULE RiskGate_proofs ---------------------------
(***************************************************************************)
(* Proofs about module RiskGate, for any number of executions, any limits  *)
(* and any number of failing Redis commands and restarts: type             *)
(* correctness, and that the lock of the scanner's executions keeps the    *)
(* concurrency counter and the day's profit in step with them, and their   *)
(* admission with both.                                                    *)
(***************************************************************************)
EXTENDS RiskGate, FiniteSetTheorems, TLAPS

(***************************************************************************)
(* Type correctness.                                                       *)
(***************************************************************************)
LEMMA LiveIsFinite == IsFiniteSet(Live) /\ Cardinality(Live) \in Nat
<1>1. Live \subseteq Execs
  BY DEF Live
<1>2. IsFiniteSet(Live)
  BY <1>1, ExecsAssumption, FS_Subset
<1> QED
  BY <1>2, FS_CardinalityType

\* The number of failed commands stays within its bound.
LEMMA FaultTypes ==
    ASSUME TypeOK, Works \/ Raises
    PROVE  faults' \in 0..MaxFaults
  BY BoundAssumption DEF TypeOK, Works, Raises

\* The program counters stay program counters.
LEMMA GotoTypes ==
    ASSUME TypeOK, NEW p \in Execs, NEW b \in Points, Goto(p, b)
    PROVE  pc' \in [Execs -> Points]
  BY DEF TypeOK, Goto

\* The counters start in a state of the right types.
LEMMA InitTypes ==
    ASSUME Init
    PROVE  TypeOK
<1>1. [success |-> FALSE, gain |-> 0] \in Outcomes
  BY DEF Outcomes
<1>2. outcome \in [Execs -> Outcomes]
  BY <1>1 DEF Init
<1>3. faults \in 0..MaxFaults /\ restarts \in 0..MaxRestarts
  BY BoundAssumption DEF Init
<1> QED
  BY <1>2, <1>3 DEF Init, TypeOK, Points

\* Every command of an execution keeps the types.
LEMMA StepTypes ==
    ASSUME TypeOK, NEW p \in Execs, Step(p)
    PROVE  TypeOK'
<1> USE DEF Points
<1>0. /\ ok[p] \in BOOLEAN /\ seen[p] \in Int /\ outcome[p].gain \in Int
      /\ concurrent \in Nat /\ failures \in Nat /\ dailyPnl \in Int
  BY DEF TypeOK, Outcomes
<1>1. CASE Start(p)
  <2>1. pc' \in [Execs -> Points]
    BY <1>1, GotoTypes DEF Start, Acquire
  <2>2. ok' \in [Execs -> BOOLEAN]
    BY <1>1 DEF Start, Acquire, TypeOK
  <2>3. lock' \in Execs \cup {NoExec}
    BY <1>1 DEF Start, Acquire, TypeOK
  <2> QED
    BY <1>1, <2>1, <2>2, <2>3 DEF Start, Acquire, TypeOK, redis, history
<1>2. CASE CheckLoss(p)
  <2>1. pc' \in [Execs -> Points]
    BY <1>2, GotoTypes DEF CheckLoss
  <2>2. ok' \in [Execs -> BOOLEAN]
    BY <1>2, <1>0 DEF CheckLoss, TypeOK
  <2>3. faults' \in 0..MaxFaults
    BY <1>2, FaultTypes DEF CheckLoss
  <2> QED
    BY <1>2, <2>1, <2>2, <2>3 DEF CheckLoss, TypeOK, redis, history
<1>3. CASE CheckFailures(p)
  <2>1. pc' \in [Execs -> Points]
    BY <1>3, GotoTypes DEF CheckFailures
  <2>2. ok' \in [Execs -> BOOLEAN]
    BY <1>3, <1>0 DEF CheckFailures, TypeOK
  <2>3. faults' \in 0..MaxFaults
    BY <1>3, FaultTypes DEF CheckFailures
  <2> QED
    BY <1>3, <2>1, <2>2, <2>3 DEF CheckFailures, TypeOK, redis, history
<1>4. CASE CheckConcurrent(p)
  <2>1. pc' \in [Execs -> Points]
    BY <1>4, GotoTypes DEF CheckConcurrent
  <2>2. ok' \in [Execs -> BOOLEAN]
    BY <1>4, <1>0 DEF CheckConcurrent, TypeOK
  <2>3. faults' \in 0..MaxFaults
    BY <1>4, FaultTypes DEF CheckConcurrent
  <2> QED
    BY <1>4, <2>1, <2>2, <2>3 DEF CheckConcurrent, TypeOK, redis, history
<1>5. CASE Increment(p)
  <2>1. pc' \in [Execs -> Points]
    BY <1>5, GotoTypes DEF Increment
  <2>2. concurrent' \in Nat
    BY <1>5, <1>0 DEF Increment
  <2>3. faults' \in 0..MaxFaults
    BY <1>5, FaultTypes DEF Increment
  <2> QED
    BY <1>5, <2>1, <2>2, <2>3 DEF Increment, TypeOK, history
<1>6. CASE Trade(p)
  <2>1. pc' \in [Execs -> Points]
    BY <1>6, GotoTypes DEF Trade
  <2>2. PICK s \in BOOLEAN, g \in Gains :
          outcome' = [outcome EXCEPT ![p] = [success |-> s, gain |-> g]]
    BY <1>6 DEF Trade
  <2>3. [success |-> s, gain |-> g] \in Outcomes
    BY GainAssumption DEF Outcomes
  <2>4. outcome' \in [Execs -> Outcomes]
    BY <2>2, <2>3 DEF TypeOK
  <2> QED
    BY <1>6, <2>1, <2>4 DEF Trade, TypeOK, redis, history
<1>7. CASE DecrementGet(p)
  <2>1. pc' \in [Execs -> Points]
    BY <1>7, GotoTypes DEF DecrementGet
  <2>2. seen' \in [Execs -> Int]
    BY <1>7, <1>0 DEF DecrementGet, TypeOK
  <2>3. faults' \in 0..MaxFaults
    BY <1>7, FaultTypes DEF DecrementGet
  <2> QED
    BY <1>7, <2>1, <2>2, <2>3 DEF DecrementGet, TypeOK, redis, history
<1>8. CASE DecrementSet(p)
  <2>1. pc' \in [Execs -> Points]
    BY <1>8, GotoTypes DEF DecrementSet
  <2>2. OneLess(seen[p]) \in Nat
    BY <1>0 DEF OneLess
  <2>3. concurrent' \in Nat
    BY <1>8, <1>0, <2>2 DEF DecrementSet
  <2>4. faults' \in 0..MaxFaults
    BY <1>8, FaultTypes DEF DecrementSet
  <2> QED
    BY <1>8, <2>1, <2>3, <2>4 DEF DecrementSet, TypeOK, history
<1>9. CASE RecordSuccess(p)
  <2>1. pc' \in [Execs -> Points]
    BY <1>9, GotoTypes DEF RecordSuccess
  <2>2. failures' \in Nat /\ failKey' \in {"absent", "permanent", "expiring"}
    BY <1>9 DEF RecordSuccess, TypeOK
  <2>3. faults' \in 0..MaxFaults
    BY <1>9, FaultTypes DEF RecordSuccess
  <2> QED
    BY <1>9, <2>1, <2>2, <2>3 DEF RecordSuccess, TypeOK, history
<1>10. CASE RecordFailure(p)
  <2>1. pc' \in [Execs -> Points]
    BY <1>10, GotoTypes DEF RecordFailure
  <2>2. failures' \in Nat /\ failKey' \in {"absent", "permanent", "expiring"}
    BY <1>10 DEF RecordFailure, Incremented, TypeOK
  <2>3. faults' \in 0..MaxFaults
    BY <1>10, FaultTypes DEF RecordFailure
  <2> QED
    BY <1>10, <2>1, <2>2, <2>3 DEF RecordFailure, TypeOK, history
<1>11. CASE Expire(p)
  <2>1. pc' \in [Execs -> Points]
    BY <1>11, GotoTypes DEF Expire
  <2>2. failKey' \in {"absent", "permanent", "expiring"}
    BY <1>11 DEF Expire, WillExpire, TypeOK
  <2>3. faults' \in 0..MaxFaults
    BY <1>11, FaultTypes DEF Expire
  <2> QED
    BY <1>11, <2>1, <2>2, <2>3 DEF Expire, TypeOK, history
<1>12. CASE PnlGet(p)
  <2>1. pc' \in [Execs -> Points]
    BY <1>12, GotoTypes DEF PnlGet
  <2>2. seen' \in [Execs -> Int] /\ booked' \in Int
    BY <1>12, <1>0 DEF PnlGet, TypeOK
  <2>3. faults' \in 0..MaxFaults
    BY <1>12, FaultTypes DEF PnlGet
  <2> QED
    BY <1>12, <2>1, <2>2, <2>3 DEF PnlGet, TypeOK, redis, history
<1>13. CASE PnlSet(p)
  <2>1. pc' \in [Execs -> Points]
    BY <1>13, GotoTypes DEF PnlSet, NewPnl
  <2>2. dailyPnl' \in Int
    BY <1>13, <1>0 DEF PnlSet, NewPnl
  <2>3. faults' \in 0..MaxFaults
    BY <1>13, FaultTypes DEF PnlSet, NewPnl
  <2> QED
    BY <1>13, <2>1, <2>2, <2>3 DEF PnlSet, NewPnl, TypeOK, history
<1>14. CASE Finish(p)
  <2>1. pc' \in [Execs -> Points]
    BY <1>14, GotoTypes DEF Finish, ReleaseLock
  <2> QED
    BY <1>14, <2>1 DEF Finish, ReleaseLock, TypeOK, redis, history
<1> QED
  BY <1>1, <1>2, <1>3, <1>4, <1>5, <1>6, <1>7, <1>8, <1>9, <1>10, <1>11, <1>12,
     <1>13, <1>14 DEF Step

\* Type correctness, for any number of executions, by scanner or API.
THEOREM TypeCorrect == Spec => []TypeOK
<1>1. Init => TypeOK
  BY InitTypes
<1>2. TypeOK /\ [Next]_vars => TypeOK'
  <2> SUFFICES ASSUME TypeOK, [Next]_vars
               PROVE  TypeOK'
    OBVIOUS
  <2>1. CASE \E p \in Execs : Step(p)
    BY <2>1, StepTypes
  <2>2. CASE TtlElapses
    BY <2>2 DEF TtlElapses, TypeOK, history
  <2>3. CASE Restart
    <3>1. leaked' \in Nat
      BY <2>3, LiveIsFinite DEF Restart, TypeOK
    <3>2. restarts' \in 0..MaxRestarts
      BY <2>3, BoundAssumption DEF Restart, TypeOK
    <3>3. pc' \in [Execs -> Points]
      BY <2>3 DEF Restart, TypeOK, Points
    <3> QED
      BY <2>3, <3>1, <3>2, <3>3 DEF Restart, TypeOK, redis
  <2>4. CASE UNCHANGED vars
    BY <2>4 DEF vars, redis, history, TypeOK
  <2> QED
    BY <2>1, <2>2, <2>3, <2>4 DEF Next
<1> QED
  BY <1>1, <1>2, PTL DEF Spec

-----------------------------------------------------------------------------
(***************************************************************************)
(* The lock.                                                               *)
(***************************************************************************)
Outside == {"waiting", "finished", "lost"}

\* A step that is neither the first nor the last of an execution leaves the
\* lock alone, and the execution inside.
LEMMA InnerStep ==
    ASSUME TypeOK, NEW p \in Execs, Step(p), ~Start(p), ~Finish(p)
    PROVE  /\ lock' = lock
           /\ pc[p] \notin Outside
           /\ \E b \in Points \ Outside : pc' = [pc EXCEPT ![p] = b]
<1> USE DEF At, Goto, Outside, Points
<1>1. CASE CheckLoss(p)
  BY <1>1 DEF CheckLoss
<1>2. CASE CheckFailures(p)
  BY <1>2 DEF CheckFailures
<1>3. CASE CheckConcurrent(p)
  BY <1>3 DEF CheckConcurrent
<1>4. CASE Increment(p)
  BY <1>4 DEF Increment
<1>5. CASE Trade(p)
  BY <1>5 DEF Trade
<1>6. CASE DecrementGet(p)
  BY <1>6 DEF DecrementGet
<1>7. CASE DecrementSet(p)
  BY <1>7 DEF DecrementSet
<1>8. CASE RecordSuccess(p)
  BY <1>8 DEF RecordSuccess
<1>9. CASE RecordFailure(p)
  BY <1>9 DEF RecordFailure
<1>10. CASE Expire(p)
  BY <1>10 DEF Expire
<1>11. CASE PnlGet(p)
  BY <1>11 DEF PnlGet
<1>12. CASE PnlSet(p)
  BY <1>12 DEF PnlSet, NewPnl
<1> QED
  BY <1>1, <1>2, <1>3, <1>4, <1>5, <1>6, <1>7, <1>8, <1>9, <1>10, <1>11, <1>12 DEF Step

\* Every step of an execution keeps the lock with the one inside.
LEMMA LockStep ==
    ASSUME TypeOK, LockIsHeldInside, NEW p \in Execs, Step(p)
    PROVE  LockIsHeldInside'
<1>0. /\ p \in Execs /\ NoExec \notin Execs /\ Automatic \subseteq Execs
      /\ pc \in [Execs -> Points]
  BY ExecsAssumption, AutoAssumption DEF TypeOK
<1> SUFFICES ASSUME NEW q \in Automatic
             PROVE  lock' = q <=> ~(pc'[q] = "waiting" \/ pc'[q] \in {"finished", "lost"})
  BY DEF LockIsHeldInside, At, Ended
<1>q. lock = q <=> ~(pc[q] = "waiting" \/ pc[q] \in {"finished", "lost"})
  BY DEF LockIsHeldInside, At, Ended
<1>1. CASE Start(p)
  <2>1. pc[p] = "waiting" /\ pc' = [pc EXCEPT ![p] = "check_loss"]
    BY <1>1 DEF Start, Acquire, At, Goto
  <2>2. pc'[q] = IF q = p THEN "check_loss" ELSE pc[q]
    BY <1>0, <2>1
  <2>3. CASE p \in Automatic
    <3>1. lock = NoExec /\ lock' = p
      BY <1>1, <2>3 DEF Start, Acquire
    <3> QED
      BY <1>0, <1>q, <2>1, <2>2, <3>1
  <2>4. CASE p \notin Automatic
    <3>1. lock' = lock
      BY <1>1, <2>4 DEF Start, Acquire
    <3> QED
      BY <1>0, <1>q, <2>2, <2>4, <3>1
  <2> QED
    BY <2>3, <2>4
<1>2. CASE Finish(p)
  <2>1. pc[p] = "tail" /\ pc' = [pc EXCEPT ![p] = "finished"]
    BY <1>2 DEF Finish, ReleaseLock, At, Goto
  <2>2. pc'[q] = IF q = p THEN "finished" ELSE pc[q]
    BY <1>0, <2>1
  <2>3. lock' = IF p \in Automatic THEN NoExec ELSE lock
    BY <1>2 DEF Finish, ReleaseLock
  <2>4. CASE p \in Automatic
    <3>1. lock = p
      BY <2>1, <2>4 DEF LockIsHeldInside, At, Ended
    <3> QED
      BY <1>0, <1>q, <2>2, <2>3, <2>4, <3>1
  <2>5. CASE p \notin Automatic
    BY <1>0, <1>q, <2>2, <2>3, <2>5
  <2> QED
    BY <2>4, <2>5
<1>3. CASE ~Start(p) /\ ~Finish(p)
  <2>1. PICK b \in Points \ Outside : pc' = [pc EXCEPT ![p] = b]
    BY <1>3, InnerStep
  <2>2. pc'[q] = IF q = p THEN b ELSE pc[q]
    BY <1>0, <2>1
  <2>3. lock' = lock /\ pc[p] \notin Outside
    BY <1>3, InnerStep
  <2> QED
    BY <1>q, <2>1, <2>2, <2>3 DEF Outside
<1> QED
  BY <1>1, <1>2, <1>3

\* The executions of the scanner exclude each other, from before the risk check
\* to after the bookkeeping, whatever fails and whenever the backend restarts.
THEOREM Exclusion == Spec => []LockIsHeldInside
<1> USE ExecsAssumption, AutoAssumption
<1>1. Init => LockIsHeldInside
  BY DEF Init, LockIsHeldInside, At
<1>2. TypeOK /\ LockIsHeldInside /\ [Next]_vars => LockIsHeldInside'
  <2> SUFFICES ASSUME TypeOK, LockIsHeldInside, [Next]_vars
               PROVE  LockIsHeldInside'
    OBVIOUS
  <2>1. CASE \E p \in Execs : Step(p)
    BY <2>1, LockStep
  <2>2. CASE TtlElapses
    BY <2>2 DEF TtlElapses, LockIsHeldInside, At, Ended
  <2>3. CASE Restart
    BY <2>3 DEF Restart, LockIsHeldInside, At, Ended
  <2>4. CASE UNCHANGED vars
    BY <2>4 DEF vars, LockIsHeldInside, At, Ended
  <2> QED
    BY <2>1, <2>2, <2>3, <2>4 DEF Next
<1> QED
  BY <1>1, <1>2, TypeCorrect, PTL DEF Spec

-----------------------------------------------------------------------------
(***************************************************************************)
(* The concurrency counter, when every execution takes the lock.           *)
(***************************************************************************)
LivePoints == {"running", "dec_get", "dec_set"}

\* The decrement writes what it read less one: nothing came in between.
SeenIsCurrent == \A p \in Execs : pc[p] = "dec_set" => seen[p] = concurrent

CounterInv == CounterFollowsExecutions /\ SeenIsCurrent

AllAreAutomatic == Automatic = Execs

\* If all but p are outside, then p alone counts.
LEMMA SoloCount ==
    ASSUME NEW f, NEW p \in Execs,
           \A q \in Execs : q # p => f[q] \in Outside
    PROVE  Cardinality({q \in Execs : f[q] \in {"running", "dec_get", "dec_set"}})
             = IF f[p] \in LivePoints THEN 1 ELSE 0
<1> DEFINE S == {q \in Execs : f[q] \in {"running", "dec_get", "dec_set"}}
<1>1. CASE f[p] \in LivePoints
  <2>1. S = {p}
    BY <1>1 DEF LivePoints, Outside
  <2> QED
    BY <1>1, <2>1, FS_Singleton
<1>2. CASE f[p] \notin LivePoints
  <2>1. S = {}
    BY <1>2 DEF LivePoints, Outside
  <2> QED
    BY <1>2, <2>1, FS_EmptySet
<1> QED
  BY <1>1, <1>2

\* While one execution steps, the others are outside.
LEMMA OthersAreOutside ==
    ASSUME TypeOK, LockIsHeldInside, AllAreAutomatic, NEW p \in Execs, Step(p)
    PROVE  \A q \in Execs : q # p => pc[q] \in Outside
<1> SUFFICES ASSUME NEW q \in Execs, q # p
             PROVE  pc[q] \in Outside
  OBVIOUS
<1>1. /\ lock = p <=> ~(pc[p] = "waiting" \/ pc[p] \in {"finished", "lost"})
      /\ lock = q <=> ~(pc[q] = "waiting" \/ pc[q] \in {"finished", "lost"})
  BY DEF LockIsHeldInside, At, Ended, AllAreAutomatic
<1>2. CASE Start(p)
  <2>1. lock = NoExec
    BY <1>2 DEF Start, Acquire, AllAreAutomatic
  <2> QED
    BY <1>1, <2>1, ExecsAssumption DEF Outside
<1>3. CASE Finish(p)
  <2>1. pc[p] = "tail"
    BY <1>3 DEF Finish, ReleaseLock, At
  <2> QED
    BY <1>1, <2>1 DEF Outside
<1>4. CASE ~Start(p) /\ ~Finish(p)
  <2>1. pc[p] \notin Outside
    BY <1>4, InnerStep
  <2> QED
    BY <1>1, <2>1 DEF Outside
<1> QED
  BY <1>2, <1>3, <1>4

\* So the number of live executions before and after a step is that of one.
LEMMA CountStep ==
    ASSUME TypeOK, LockIsHeldInside, AllAreAutomatic, NEW p \in Execs, Step(p),
           NEW b, pc' = [pc EXCEPT ![p] = b]
    PROVE  /\ Cardinality(Live)  = IF pc[p] \in LivePoints THEN 1 ELSE 0
           /\ Cardinality(Live)' = IF b \in LivePoints THEN 1 ELSE 0
<1>1. \A q \in Execs : q # p => pc[q] \in Outside
  BY OthersAreOutside
<1>2. pc'[p] = b /\ \A q \in Execs : q # p => pc'[q] = pc[q]
  BY DEF TypeOK
<1>3. \A q \in Execs : q # p => pc'[q] \in Outside
  BY <1>1, <1>2
<1>4. Cardinality(Live) = IF pc[p] \in LivePoints THEN 1 ELSE 0
  BY <1>1, SoloCount DEF Live
<1>5. Cardinality({q \in Execs : pc'[q] \in {"running", "dec_get", "dec_set"}})
        = IF pc'[p] \in LivePoints THEN 1 ELSE 0
  BY <1>3, SoloCount
<1> QED
  BY <1>2, <1>4, <1>5 DEF Live

\* A step that leaves the counter alone and crosses neither end of the live
\* part keeps the invariant.
LEMMA QuietStep ==
    ASSUME TypeOK, LockIsHeldInside, AllAreAutomatic, CounterInv,
           NEW p \in Execs, Step(p),
           NEW b, pc' = [pc EXCEPT ![p] = b], b # "dec_set",
           b \in LivePoints <=> pc[p] \in LivePoints,
           concurrent' = concurrent, leaked' = leaked,
           faults' = faults \/ faults' = faults + 1,
           \A q \in Execs : q # p => seen'[q] = seen[q]
    PROVE  CounterInv'
<1>0. /\ Cardinality(Live) = IF pc[p] \in LivePoints THEN 1 ELSE 0
      /\ Cardinality(Live)' = IF b \in LivePoints THEN 1 ELSE 0
  BY CountStep
<1>1. Cardinality(Live)' = Cardinality(Live)
  BY <1>0
<1>2. /\ concurrent \in Nat /\ leaked \in Nat /\ faults \in Nat
      /\ Cardinality(Live) \in Nat
  BY LiveIsFinite, BoundAssumption DEF TypeOK
<1>3. CounterFollowsExecutions'
  BY <1>1, <1>2 DEF CounterInv, CounterFollowsExecutions, Near, AbsOf
<1>4. pc'[p] = b /\ \A q \in Execs : q # p => pc'[q] = pc[q]
  BY DEF TypeOK
<1>5. SeenIsCurrent'
  BY <1>4 DEF CounterInv, SeenIsCurrent
<1> QED
  BY <1>3, <1>5 DEF CounterInv

\* After a step of p to a point other than dec_set nobody is about to write.
LEMMA NobodyWrites ==
    ASSUME TypeOK, LockIsHeldInside, AllAreAutomatic, NEW p \in Execs, Step(p),
           NEW b, pc' = [pc EXCEPT ![p] = b], b # "dec_set"
    PROVE  SeenIsCurrent'
<1>1. pc'[p] = b /\ \A q \in Execs : q # p => pc'[q] = pc[q]
  BY DEF TypeOK
<1>2. \A q \in Execs : q # p => pc[q] \in Outside
  BY OthersAreOutside
<1> QED
  BY <1>1, <1>2 DEF SeenIsCurrent, Outside

\* INCR: one more execution is live, and one more is counted.
LEMMA IncrementCounts ==
    ASSUME TypeOK, LockIsHeldInside, AllAreAutomatic, CounterInv,
           NEW p \in Execs, Increment(p)
    PROVE  CounterInv'
<1>1. /\ pc[p] = "increment" /\ pc' = [pc EXCEPT ![p] = "running"]
      /\ leaked' = leaked
  BY DEF Increment, At, Goto, history
<1>2. Step(p)
  BY DEF Step
<1>3. Cardinality(Live) = 0 /\ Cardinality(Live)' = 1
  BY <1>1, <1>2, CountStep DEF LivePoints
<1>4. concurrent \in Nat /\ leaked \in Nat /\ faults \in Nat
  BY BoundAssumption DEF TypeOK
<1>5. \/ concurrent' = concurrent + 1 /\ faults' = faults
      \/ concurrent' \in {concurrent, concurrent + 1} /\ faults' = faults + 1
  BY DEF Increment, Works, Raises
<1>6. CounterFollowsExecutions'
  BY <1>1, <1>3, <1>4, <1>5 DEF CounterInv, CounterFollowsExecutions, Near, AbsOf
<1>7. SeenIsCurrent'
  BY <1>1, <1>2, NobodyWrites
<1> QED
  BY <1>6, <1>7 DEF CounterInv

\* GET: what is seen is current, for nobody else is inside.
LEMMA DecrementGetCounts ==
    ASSUME TypeOK, LockIsHeldInside, AllAreAutomatic, CounterInv,
           NEW p \in Execs, DecrementGet(p)
    PROVE  CounterInv'
<1>1. pc[p] = "dec_get" /\ leaked' = leaked /\ concurrent' = concurrent
  BY DEF DecrementGet, At, history, redis
<1>2. Step(p)
  BY DEF Step
<1>3. concurrent \in Nat /\ leaked \in Nat /\ faults \in Nat
  BY BoundAssumption DEF TypeOK
<1>4. CASE /\ faults' = faults /\ seen' = [seen EXCEPT ![p] = concurrent]
           /\ pc' = [pc EXCEPT ![p] = "dec_set"]
  <2>1. Cardinality(Live) = 1 /\ Cardinality(Live)' = 1
    BY <1>1, <1>2, <1>4, CountStep DEF LivePoints
  <2>2. CounterFollowsExecutions'
    BY <1>1, <1>3, <1>4, <2>1 DEF CounterInv, CounterFollowsExecutions, Near, AbsOf
  <2>3. \A q \in Execs : q # p => pc[q] \in Outside
    BY <1>2, OthersAreOutside
  <2>4. pc'[p] = "dec_set" /\ \A q \in Execs : q # p => pc'[q] = pc[q]
    BY <1>4 DEF TypeOK
  <2>5. seen'[p] = concurrent
    BY <1>4 DEF TypeOK
  <2>6. SeenIsCurrent'
    BY <1>1, <2>3, <2>4, <2>5 DEF SeenIsCurrent, Outside
  <2> QED
    BY <2>2, <2>6 DEF CounterInv
<1>5. CASE faults' = faults + 1 /\ pc' = [pc EXCEPT ![p] = "record"]
  <2>0. /\ Cardinality(Live) = IF pc[p] \in LivePoints THEN 1 ELSE 0
        /\ Cardinality(Live)' = IF "record" \in LivePoints THEN 1 ELSE 0
    BY <1>2, <1>5, CountStep
  <2>1. Cardinality(Live) = 1 /\ Cardinality(Live)' = 0
    BY <1>1, <2>0 DEF LivePoints
  <2>2. CounterFollowsExecutions'
    BY <1>1, <1>3, <1>5, <2>1 DEF CounterInv, CounterFollowsExecutions, Near, AbsOf
  <2>3. SeenIsCurrent'
    BY <1>2, <1>5, NobodyWrites
  <2> QED
    BY <2>2, <2>3 DEF CounterInv
<1> QED
  BY <1>4, <1>5 DEF DecrementGet, Works, Raises, Goto

\* SET: one less is live, and one less is counted.
LEMMA DecrementSetCounts ==
    ASSUME TypeOK, LockIsHeldInside, AllAreAutomatic, CounterInv,
           NEW p \in Execs, DecrementSet(p)
    PROVE  CounterInv'
<1>1. /\ pc[p] = "dec_set" /\ pc' = [pc EXCEPT ![p] = "record"]
      /\ leaked' = leaked
  BY DEF DecrementSet, At, Goto, history
<1>2. Step(p)
  BY DEF Step
<1>0. /\ Cardinality(Live) = IF pc[p] \in LivePoints THEN 1 ELSE 0
      /\ Cardinality(Live)' = IF "record" \in LivePoints THEN 1 ELSE 0
  BY <1>1, <1>2, CountStep
<1>3. Cardinality(Live) = 1 /\ Cardinality(Live)' = 0
  BY <1>0, <1>1 DEF LivePoints
<1>4. concurrent \in Nat /\ leaked \in Nat /\ faults \in Nat
  BY BoundAssumption DEF TypeOK
<1>5. seen[p] = concurrent
  BY <1>1 DEF CounterInv, SeenIsCurrent
<1>6. \/ concurrent' = OneLess(concurrent) /\ faults' = faults
      \/ concurrent' \in {concurrent, OneLess(concurrent)} /\ faults' = faults + 1
  BY <1>5 DEF DecrementSet, Works, Raises
<1>7. CounterFollowsExecutions'
  BY <1>1, <1>3, <1>4, <1>6
     DEF CounterInv, CounterFollowsExecutions, Near, AbsOf, OneLess
<1>8. SeenIsCurrent'
  BY <1>1, <1>2, NobodyWrites
<1> QED
  BY <1>7, <1>8 DEF CounterInv

\* What the quiet actions have in common.
Quiet(p) ==
    /\ \E b \in Points :
         /\ pc' = [pc EXCEPT ![p] = b]
         /\ b # "dec_set"
         /\ b \in LivePoints <=> pc[p] \in LivePoints
    /\ concurrent' = concurrent
    /\ leaked' = leaked
    /\ faults' = faults \/ faults' = faults + 1
    /\ \A q \in Execs : q # p => seen'[q] = seen[q]

\* All other steps of an execution are quiet.
LEMMA OtherStepsAreQuiet ==
    ASSUME TypeOK, NEW p \in Execs, Step(p),
           ~Increment(p), ~DecrementGet(p), ~DecrementSet(p)
    PROVE  Quiet(p)
<1> USE DEF Quiet, At, Goto, Points, LivePoints, Works, Raises, redis, history
<1>1. CASE Start(p)
  BY <1>1 DEF Start, Acquire
<1>2. CASE CheckLoss(p)
  BY <1>2 DEF CheckLoss
<1>3. CASE CheckFailures(p)
  BY <1>3 DEF CheckFailures
<1>4. CASE CheckConcurrent(p)
  BY <1>4 DEF CheckConcurrent
<1>5. CASE Trade(p)
  BY <1>5 DEF Trade
<1>6. CASE RecordSuccess(p)
  BY <1>6 DEF RecordSuccess
<1>7. CASE RecordFailure(p)
  BY <1>7 DEF RecordFailure
<1>8. CASE Expire(p)
  BY <1>8 DEF Expire
<1>9. CASE PnlGet(p)
  BY <1>9 DEF PnlGet, TypeOK
<1>10. CASE PnlSet(p)
  BY <1>10 DEF PnlSet, NewPnl
<1>11. CASE Finish(p)
  BY <1>11 DEF Finish, ReleaseLock
<1> QED
  BY <1>1, <1>2, <1>3, <1>4, <1>5, <1>6, <1>7, <1>8, <1>9, <1>10, <1>11 DEF Step

\* So every step of an execution keeps the counter in step.
LEMMA CounterStep ==
    ASSUME TypeOK, LockIsHeldInside, AllAreAutomatic, CounterInv,
           NEW p \in Execs, Step(p)
    PROVE  CounterInv'
<1>1. CASE Increment(p)
  BY <1>1, IncrementCounts
<1>2. CASE DecrementGet(p)
  BY <1>2, DecrementGetCounts
<1>3. CASE DecrementSet(p)
  BY <1>3, DecrementSetCounts
<1>4. CASE ~Increment(p) /\ ~DecrementGet(p) /\ ~DecrementSet(p)
  <2>1. Quiet(p)
    BY <1>4, OtherStepsAreQuiet
  <2>2. PICK b \in Points : /\ pc' = [pc EXCEPT ![p] = b]
                            /\ b # "dec_set"
                            /\ b \in LivePoints <=> pc[p] \in LivePoints
    BY <2>1 DEF Quiet
  <2> QED
    BY <2>1, <2>2, QuietStep DEF Quiet
<1> QED
  BY <1>1, <1>2, <1>3, <1>4

\* A restart moves the live executions to the leaked ones.
LEMMA CounterRestart ==
    ASSUME TypeOK, CounterInv, Restart
    PROVE  CounterInv'
<1>1. \A q \in Execs : pc'[q] \notin {"running", "dec_get", "dec_set"}
  BY DEF Restart, At, Ended
<1>2. Live' = {}
  BY <1>1 DEF Live
<1>3. Cardinality(Live)' = 0
  BY <1>2, FS_EmptySet
<1>4. leaked' = leaked + Cardinality(Live)
  BY DEF Restart
<1>5. /\ concurrent \in Nat /\ leaked \in Nat /\ faults \in Nat
      /\ Cardinality(Live) \in Nat
  BY LiveIsFinite, BoundAssumption DEF TypeOK
<1>6. concurrent' = concurrent /\ faults' = faults
  BY DEF Restart, redis
<1>7. CounterFollowsExecutions'
  BY <1>3, <1>4, <1>5, <1>6 DEF CounterInv, CounterFollowsExecutions, Near, AbsOf
<1>8. SeenIsCurrent'
  BY <1>1 DEF SeenIsCurrent
<1> QED
  BY <1>7, <1>8 DEF CounterInv

\* When all executions take the lock of the scanner, the counter that gates
\* them is the number of those that run or were cut off, but for one per
\* command that failed: the lock makes the GET-SET decrement safe.
THEOREM CounterIsTrue ==
    ASSUME AllAreAutomatic
    PROVE  Spec => []CounterFollowsExecutions
<1>1. Init => CounterInv
  <2> SUFFICES ASSUME Init
               PROVE  CounterInv
    OBVIOUS
  <2>1. \A q \in Execs : pc[q] = "waiting"
    BY DEF Init
  <2>2. Live = {}
    BY <2>1 DEF Live
  <2>3. Cardinality(Live) = 0
    BY <2>2, FS_EmptySet
  <2> QED
    BY <2>1, <2>3
       DEF Init, CounterInv, CounterFollowsExecutions, SeenIsCurrent, Near, AbsOf
<1>2. TypeOK /\ LockIsHeldInside /\ CounterInv /\ [Next]_vars => CounterInv'
  <2> SUFFICES ASSUME TypeOK, LockIsHeldInside, CounterInv, [Next]_vars
               PROVE  CounterInv'
    OBVIOUS
  <2>1. CASE \E p \in Execs : Step(p)
    BY <2>1, CounterStep
  <2>2. CASE TtlElapses
    BY <2>2 DEF TtlElapses, history, CounterInv, CounterFollowsExecutions,
                SeenIsCurrent, Near, AbsOf, Live
  <2>3. CASE Restart
    BY <2>3, CounterRestart
  <2>4. CASE UNCHANGED vars
    BY <2>4 DEF vars, redis, history, CounterInv, CounterFollowsExecutions,
                SeenIsCurrent, Near, AbsOf, Live
  <2> QED
    BY <2>1, <2>2, <2>3, <2>4 DEF Next
<1>3. CounterInv => CounterFollowsExecutions
  BY DEF CounterInv
<1> QED
  BY <1>1, <1>2, <1>3, TypeCorrect, Exclusion, PTL DEF Spec

-----------------------------------------------------------------------------
(***************************************************************************)
(* Admission: what the rules have read stays so until the counter moves,   *)
(* when every execution takes the lock.                                    *)
(***************************************************************************)
Admitted(p) ==
    /\ pc[p] = "increment" => ok[p]
    /\ faults = 0 /\ ok[p] =>
         /\ pc[p] \in {"check_failures", "check_concurrent", "increment"} => WithinLoss
         /\ pc[p] \in {"check_concurrent", "increment"} => failures < MaxFailures
         /\ pc[p] = "increment" => concurrent < MaxConcurrent

AdmittedInv == \A p \in Execs : Admitted(p)

\* Where an execution has passed the first rule but not yet the gate.
AtTheGate == {"check_failures", "check_concurrent", "increment"}

\* While the others are outside, only the one that steps matters.
LEMMA OnlyOneMatters ==
    ASSUME TypeOK, LockIsHeldInside, AllAreAutomatic, NEW p \in Execs, Step(p),
           NEW b, pc' = [pc EXCEPT ![p] = b]
    PROVE  /\ pc'[p] = b
           /\ \A q \in Execs \ {p} : pc'[q] \notin AtTheGate /\ Admitted(q)'
<1>1. \A q \in Execs : q # p => pc[q] \in Outside
  BY OthersAreOutside
<1>2. pc'[p] = b /\ \A q \in Execs : q # p => pc'[q] = pc[q]
  BY DEF TypeOK
<1>3. \A q \in Execs \ {p} : pc'[q] \in Outside
  BY <1>1, <1>2
<1> QED
  BY <1>2, <1>3 DEF AtTheGate, Outside, Admitted

\* A step that does not lead to the gate keeps the invariant.
LEMMA StepsAway ==
    ASSUME TypeOK, LockIsHeldInside, AllAreAutomatic, NEW p \in Execs, Step(p),
           NEW b, pc' = [pc EXCEPT ![p] = b], b \notin AtTheGate
    PROVE  AdmittedInv'
<1>1. \A q \in Execs : pc'[q] \notin AtTheGate
  BY OnlyOneMatters
<1> QED
  BY <1>1 DEF AdmittedInv, Admitted, AtTheGate

\* The rules that read Redis, one by one.
LEMMA RulesAdmit ==
    ASSUME TypeOK, LockIsHeldInside, AllAreAutomatic, AdmittedInv, NEW p \in Execs,
           CheckLoss(p) \/ CheckFailures(p) \/ CheckConcurrent(p)
    PROVE  AdmittedInv'
<1>0. Step(p) /\ ok[p] \in BOOLEAN /\ faults \in Nat /\ ok \in [Execs -> BOOLEAN]
  BY BoundAssumption DEF Step, TypeOK
<1>1. /\ concurrent' = concurrent /\ failures' = failures /\ dailyPnl' = dailyPnl
      /\ WithinLoss' = WithinLoss
  BY DEF CheckLoss, CheckFailures, CheckConcurrent, redis, WithinLoss
<1>2. CASE CheckLoss(p)
  <2>1. pc' = [pc EXCEPT ![p] = "check_failures"]
    BY <1>2 DEF CheckLoss, Goto
  <2>2. pc'[p] = "check_failures" /\ \A q \in Execs \ {p} : Admitted(q)'
    BY <1>0, <2>1, OnlyOneMatters
  <2> DEFINE holds == WithinLoss
  <2>a. faults' = 0 => faults = 0 /\ ok' = [ok EXCEPT ![p] = ok[p] /\ holds]
    BY <1>0, <1>2 DEF CheckLoss, Works, Raises
  <2> HIDE DEF holds
  <2>b. faults' = 0 => faults = 0 /\ ok'[p] = (ok[p] /\ holds)
    BY <1>0, <2>a
  <2>3. faults' = 0 /\ ok'[p] => WithinLoss
    BY <1>0, <2>b DEF holds
  <2>4. Admitted(p)'
    BY <1>1, <2>2, <2>3 DEF Admitted
  <2> QED
    BY <2>2, <2>4 DEF AdmittedInv
<1>3. CASE CheckFailures(p)
  <2>1. pc[p] = "check_failures" /\ pc' = [pc EXCEPT ![p] = "check_concurrent"]
    BY <1>3 DEF CheckFailures, Goto, At
  <2>2. pc'[p] = "check_concurrent" /\ \A q \in Execs \ {p} : Admitted(q)'
    BY <1>0, <2>1, OnlyOneMatters
  <2> DEFINE holds == failures < MaxFailures
  <2>a. faults' = 0 => faults = 0 /\ ok' = [ok EXCEPT ![p] = ok[p] /\ holds]
    BY <1>0, <1>3 DEF CheckFailures, Works, Raises
  <2> HIDE DEF holds
  <2>b. faults' = 0 => faults = 0 /\ ok'[p] = (ok[p] /\ holds)
    BY <1>0, <2>a
  <2>3. faults' = 0 /\ ok'[p] => faults = 0 /\ ok[p] /\ failures < MaxFailures
    BY <1>0, <2>b DEF holds
  <2>4. faults' = 0 /\ ok'[p] => WithinLoss /\ failures < MaxFailures
    BY <2>1, <2>3 DEF AdmittedInv, Admitted
  <2>5. Admitted(p)'
    BY <1>1, <2>2, <2>4 DEF Admitted
  <2> QED
    BY <2>2, <2>5 DEF AdmittedInv
<1>4. CASE CheckConcurrent(p)
  <2> DEFINE b == IF ok'[p] THEN "increment" ELSE "tail"
  <2>1. pc[p] = "check_concurrent" /\ pc' = [pc EXCEPT ![p] = b]
    BY <1>4 DEF CheckConcurrent, Goto, At
  <2>2. pc'[p] = b /\ \A q \in Execs \ {p} : Admitted(q)'
    BY <1>0, <2>1, OnlyOneMatters
  <2> DEFINE holds == concurrent < MaxConcurrent
  <2>a. faults' = 0 => faults = 0 /\ ok' = [ok EXCEPT ![p] = ok[p] /\ holds]
    BY <1>0, <1>4 DEF CheckConcurrent, Works, Raises
  <2> HIDE DEF holds
  <2>b. faults' = 0 => faults = 0 /\ ok'[p] = (ok[p] /\ holds)
    BY <1>0, <2>a
  <2>3. faults' = 0 /\ ok'[p] => faults = 0 /\ ok[p] /\ concurrent < MaxConcurrent
    BY <1>0, <2>b DEF holds
  <2>4. faults' = 0 /\ ok'[p] => WithinLoss /\ failures < MaxFailures
    BY <2>1, <2>3 DEF AdmittedInv, Admitted
  <2>5. pc'[p] = "increment" => ok'[p]
    BY <2>2
  <2>6. Admitted(p)'
    BY <1>1, <2>2, <2>3, <2>4, <2>5 DEF Admitted
  <2> QED
    BY <2>2, <2>6 DEF AdmittedInv
<1> QED
  BY <1>2, <1>3, <1>4

\* All other steps lead away from the gate, or to it before the rules.
LEMMA OthersStepAway ==
    ASSUME TypeOK, NEW p \in Execs, Step(p),
           ~CheckLoss(p), ~CheckFailures(p), ~CheckConcurrent(p)
    PROVE  \E b \in Points \ AtTheGate : pc' = [pc EXCEPT ![p] = b]
<1> USE DEF Goto, Points, AtTheGate
<1>1. CASE Start(p)
  BY <1>1 DEF Start, Acquire
<1>2. CASE Increment(p)
  BY <1>2 DEF Increment
<1>3. CASE Trade(p)
  BY <1>3 DEF Trade
<1>4. CASE DecrementGet(p)
  BY <1>4 DEF DecrementGet
<1>5. CASE DecrementSet(p)
  BY <1>5 DEF DecrementSet
<1>6. CASE RecordSuccess(p)
  BY <1>6 DEF RecordSuccess
<1>7. CASE RecordFailure(p)
  BY <1>7 DEF RecordFailure
<1>8. CASE Expire(p)
  BY <1>8 DEF Expire
<1>9. CASE PnlGet(p)
  BY <1>9 DEF PnlGet
<1>10. CASE PnlSet(p)
  BY <1>10 DEF PnlSet, NewPnl
<1>11. CASE Finish(p)
  BY <1>11 DEF Finish, ReleaseLock
<1> QED
  BY <1>1, <1>2, <1>3, <1>4, <1>5, <1>6, <1>7, <1>8, <1>9, <1>10, <1>11 DEF Step

\* So every step of the system keeps what the rules have read.
LEMMA AdmissionStep ==
    ASSUME TypeOK, LockIsHeldInside, AllAreAutomatic, AdmittedInv, [Next]_vars
    PROVE  AdmittedInv'
<1>1. ASSUME NEW p \in Execs, Step(p)
      PROVE  AdmittedInv'
  <2>1. CASE CheckLoss(p) \/ CheckFailures(p) \/ CheckConcurrent(p)
    BY <2>1, RulesAdmit
  <2>2. CASE ~CheckLoss(p) /\ ~CheckFailures(p) /\ ~CheckConcurrent(p)
    BY <1>1, <2>2, OthersStepAway, StepsAway
  <2> QED
    BY <2>1, <2>2
<1>2. CASE TtlElapses
  <2>1. failures' = 0 /\ UNCHANGED <<concurrent, dailyPnl, pc, ok, faults>>
    BY <1>2 DEF TtlElapses
  <2>2. 0 < MaxFailures /\ WithinLoss' = WithinLoss
    BY <2>1, LimitAssumption DEF WithinLoss
  <2> QED
    BY <2>1, <2>2 DEF AdmittedInv, Admitted
<1>3. CASE Restart
  <2>1. \A q \in Execs : pc'[q] \notin AtTheGate
    BY <1>3 DEF Restart, At, Ended, AtTheGate
  <2> QED
    BY <2>1 DEF AdmittedInv, Admitted, AtTheGate
<1>4. CASE UNCHANGED vars
  BY <1>4 DEF vars, redis, AdmittedInv, Admitted, WithinLoss
<1> QED
  BY <1>1, <1>2, <1>3, <1>4 DEF Next

\* The rules and the increment are separate commands; when all executions take
\* the lock of the scanner, none starts on values that have changed since, for
\* any number of executions and restarts.
THEOREM Admission ==
    ASSUME AllAreAutomatic
    PROVE  Spec => AdmissionIsCurrent
<1>1. Init => AdmittedInv
  BY DEF Init, AdmittedInv, Admitted
<1>2. TypeOK /\ LockIsHeldInside /\ AdmittedInv /\ [Next]_vars => AdmittedInv'
  BY AdmissionStep
<1>3. TypeOK /\ AdmittedInv /\ [Next]_vars =>
        [\A p \in Execs :
            (pc[p] = "increment" /\ pc'[p] = "running" /\ faults' = 0) =>
                /\ concurrent < MaxConcurrent
                /\ failures < MaxFailures
                /\ WithinLoss]_vars
  <2> SUFFICES ASSUME TypeOK, AdmittedInv, [Next]_vars, NEW p \in Execs,
                      pc[p] = "increment", faults' = 0
               PROVE  concurrent < MaxConcurrent /\ failures < MaxFailures /\ WithinLoss
    OBVIOUS
  <2>1. faults \in Nat /\ (faults' = faults \/ faults' = faults + 1)
    <3>1. faults \in Nat
      BY BoundAssumption DEF TypeOK
    <3>2. ASSUME NEW q \in Execs, Step(q)
          PROVE  faults' = faults \/ faults' = faults + 1
      BY <3>2 DEF Step, Start, CheckLoss, CheckFailures, CheckConcurrent, Increment,
                  Trade, DecrementGet, DecrementSet, RecordSuccess, RecordFailure,
                  Expire, PnlGet, PnlSet, Finish, Works, Raises
    <3> QED
      BY <3>1, <3>2 DEF Next, TtlElapses, Restart, vars
  <2> QED
    BY <2>1 DEF AdmittedInv, Admitted
<1> QED
  BY <1>1, <1>2, <1>3, TypeCorrect, Exclusion, PTL DEF Spec, AdmissionIsCurrent

-----------------------------------------------------------------------------
(***************************************************************************)
(* The day's profit, when every execution takes the lock.                  *)
(***************************************************************************)

\* Profits are bounded, as those of a finite set are.
GainsAreBounded == \E g \in {AbsOf(h) : h \in Gains} : \A h \in Gains : AbsOf(h) <= g

\* What may be missing, or be in it although it was given up.
Missing == (faults + restarts) * LargestGain

\* A set of the sum is about what was read; its sum is about what was asked.
Summing(p) == pc[p] = "pnl_set" =>
                /\ seen[p] = dailyPnl
                /\ Near(dailyPnl + outcome[p].gain, booked, Missing)

\* A profit that may yet be booked is one of Gains.
EarnedPoints == {"dec_get", "dec_set", "record", "pnl_get", "pnl_set"}

Earned(p) == pc[p] \in EarnedPoints => outcome[p].gain \in Gains

PnlInv == /\ PnlAccumulates
          /\ \A p \in Execs : Summing(p) /\ Earned(p)

\* The bound that the property is stated with is a bound.
LEMMA LargestGainIsLargest ==
    ASSUME GainsAreBounded
    PROVE  LargestGain \in Nat /\ \A h \in Gains : AbsOf(h) <= LargestGain
<1>1. /\ LargestGain \in {AbsOf(h) : h \in Gains}
      /\ \A h \in Gains : AbsOf(h) <= LargestGain
  BY DEF GainsAreBounded, LargestGain
<1>2. \A h \in Gains : AbsOf(h) \in Nat
  BY GainAssumption DEF AbsOf
<1> QED
  BY <1>1, <1>2

\* One more failure or restart allows for one more profit.
LEMMA MissingGrows ==
    ASSUME TypeOK, GainsAreBounded
    PROVE  /\ Missing \in Nat
           /\ faults' = faults /\ restarts' = restarts => Missing' = Missing
           /\ faults' = faults + 1 /\ restarts' = restarts => Missing' = Missing + LargestGain
           /\ faults' = faults /\ restarts' = restarts + 1 => Missing' = Missing + LargestGain
<1>1. LargestGain \in Nat /\ faults \in Nat /\ restarts \in Nat
  BY LargestGainIsLargest, BoundAssumption DEF TypeOK
<1>2. ASSUME NEW n \in Nat, NEW g \in Nat
      PROVE  n * g \in Nat /\ (n + 1) * g = n * g + g
  OBVIOUS
<1>3. faults + restarts \in Nat
  BY <1>1
<1>4. /\ (faults + restarts) * LargestGain \in Nat
      /\ (faults + restarts + 1) * LargestGain
           = (faults + restarts) * LargestGain + LargestGain
  BY <1>1, <1>2, <1>3
<1>5. LargestGain' = LargestGain
  BY DEF LargestGain
<1>6. ASSUME faults' + restarts' = faults + restarts + 1
      PROVE  Missing' = Missing + LargestGain
  BY <1>4, <1>5, <1>6 DEF Missing
<1> QED
  BY <1>1, <1>4, <1>5, <1>6 DEF Missing

\* Sums that are near stay near when the distance grows, and a profit moves
\* them by no more than the largest one.
LEMMA NearSums ==
    ASSUME NEW d \in Int, NEW b \in Int, NEW m \in Nat, NEW l \in Nat
    PROVE  /\ Near(d, b, m) => Near(d, b, m + l)
           /\ \A g \in Int : AbsOf(g) <= l =>
                /\ Near(d, b, m) => Near(d, b + g, m + l) /\ Near(d + g, b + g, m)
                /\ Near(d + g, b, m) => Near(d, b, m + l)
  BY DEF Near, AbsOf

\* A step at whose ends nobody is about to write the sum.
LEMMA SumStays ==
    ASSUME TypeOK, LockIsHeldInside, AllAreAutomatic, GainsAreBounded, PnlInv,
           NEW p \in Execs, Step(p), pc[p] # "pnl_set",
           NEW b, pc' = [pc EXCEPT ![p] = b], b # "pnl_set",
           UNCHANGED <<dailyPnl, booked, restarts>>,
           faults' = faults \/ faults' = faults + 1,
           \A q \in Execs \ {p} : outcome'[q] = outcome[q],
           b \in EarnedPoints => outcome'[p].gain \in Gains
    PROVE  PnlInv'
<1>1. \A q \in Execs : q # p => pc[q] \in Outside
  BY OthersAreOutside
<1>2. pc'[p] = b /\ \A q \in Execs : q # p => pc'[q] = pc[q]
  BY DEF TypeOK
<1>3. \A q \in Execs : pc[q] # "pnl_set" /\ pc'[q] # "pnl_set"
  BY <1>1, <1>2 DEF Outside
<1>4. Near(dailyPnl, booked, Missing)
  BY <1>3 DEF PnlInv, PnlAccumulates, Missing, At
<1>5. /\ dailyPnl \in Int /\ booked \in Int
      /\ Missing \in Nat /\ LargestGain \in Nat
      /\ Missing' = Missing \/ Missing' = Missing + LargestGain
  BY MissingGrows, LargestGainIsLargest DEF TypeOK
<1>6. Near(dailyPnl, booked, Missing')
  BY <1>4, <1>5, NearSums
<1>7. PnlAccumulates'
  BY <1>6 DEF PnlAccumulates, Missing, Near
<1>8. ASSUME NEW q \in Execs
      PROVE  Summing(q)' /\ Earned(q)'
  <2>1. Summing(q)'
    BY <1>3 DEF Summing
  <2>2. Earned(q)'
    BY <1>1, <1>2 DEF Earned, EarnedPoints, Outside
  <2> QED
    BY <2>1, <2>2
<1> QED
  BY <1>7, <1>8 DEF PnlInv

\* GET: the read sum is the current one.
LEMMA PnlGetSums ==
    ASSUME TypeOK, LockIsHeldInside, AllAreAutomatic, GainsAreBounded, PnlInv,
           NEW p \in Execs, PnlGet(p)
    PROVE  PnlInv'
<1> DEFINE g == outcome[p].gain
<1>1. Step(p) /\ pc[p] = "pnl_get"
  BY DEF Step, PnlGet, At
<1>2. \A q \in Execs : q # p => pc[q] \in Outside
  BY <1>1, OthersAreOutside
<1>3. /\ booked' = booked + g /\ UNCHANGED <<dailyPnl, outcome, restarts>>
  BY DEF PnlGet, redis, history
<1>4. g \in Gains /\ g \in Int /\ dailyPnl \in Int /\ booked \in Int
  BY <1>1, GainAssumption DEF PnlInv, Earned, EarnedPoints, TypeOK
<1>5. Near(dailyPnl, booked, Missing)
  BY <1>1, <1>2 DEF PnlInv, PnlAccumulates, Missing, At, Outside
<1>6. Missing \in Nat /\ LargestGain \in Nat /\ AbsOf(g) <= LargestGain
  BY <1>4, MissingGrows, LargestGainIsLargest
<1>7. \/ /\ faults' = faults /\ seen' = [seen EXCEPT ![p] = dailyPnl]
         /\ pc' = [pc EXCEPT ![p] = "pnl_set"]
      \/ faults' = faults + 1 /\ pc' = [pc EXCEPT ![p] = "tail"]
  BY DEF PnlGet, Works, Raises, Goto
<1>8. \A q \in Execs : q # p => pc'[q] \in Outside
  BY <1>2, <1>7 DEF TypeOK
<1>9. ASSUME NEW q \in Execs \ {p}
      PROVE  Summing(q)' /\ Earned(q)'
  BY <1>8 DEF Summing, Earned, EarnedPoints, Outside
<1>10. Earned(p)'
  BY <1>3, <1>4 DEF Earned
<1>11. CASE faults' = faults /\ seen' = [seen EXCEPT ![p] = dailyPnl]
            /\ pc' = [pc EXCEPT ![p] = "pnl_set"]
  <2>1. pc'[p] = "pnl_set" /\ seen'[p] = dailyPnl
    BY <1>11 DEF TypeOK
  <2>2. Missing' = Missing
    BY <1>3, <1>11, MissingGrows
  <2>3. Near(dailyPnl + g, booked + g, Missing)
    BY <1>4, <1>5, <1>6, NearSums
  <2>4. Summing(p)'
    BY <1>3, <2>1, <2>2, <2>3 DEF Summing, Near
  <2>5. PnlAccumulates'
    BY <2>1 DEF PnlAccumulates, At
  <2> QED
    BY <1>9, <1>10, <2>4, <2>5 DEF PnlInv
<1>12. CASE faults' = faults + 1 /\ pc' = [pc EXCEPT ![p] = "tail"]
  <2>1. pc'[p] = "tail"
    BY <1>12 DEF TypeOK
  <2>2. Missing' = Missing + LargestGain
    BY <1>3, <1>12, MissingGrows
  <2>3. Near(dailyPnl, booked + g, Missing + LargestGain)
    BY <1>4, <1>5, <1>6, NearSums
  <2>4. PnlAccumulates'
    BY <1>3, <2>2, <2>3 DEF PnlAccumulates, Missing, Near
  <2>5. Summing(p)'
    BY <2>1 DEF Summing
  <2> QED
    BY <1>9, <1>10, <2>4, <2>5 DEF PnlInv
<1> QED
  BY <1>7, <1>11, <1>12

\* SET: the sum is written, or given up.
LEMMA PnlSetSums ==
    ASSUME TypeOK, LockIsHeldInside, AllAreAutomatic, GainsAreBounded, PnlInv,
           NEW p \in Execs, PnlSet(p)
    PROVE  PnlInv'
<1> DEFINE g == outcome[p].gain
<1>1. Step(p) /\ pc[p] = "pnl_set" /\ pc' = [pc EXCEPT ![p] = "tail"]
  BY DEF Step, PnlSet, At, Goto
<1>2. \A q \in Execs : q # p => pc[q] \in Outside
  BY <1>1, OthersAreOutside
<1>3. UNCHANGED <<booked, outcome, restarts>>
  BY DEF PnlSet, history
<1>4. g \in Gains /\ g \in Int /\ dailyPnl \in Int /\ booked \in Int
  BY <1>1, GainAssumption DEF PnlInv, Earned, EarnedPoints, TypeOK
<1>5. seen[p] = dailyPnl /\ Near(dailyPnl + g, booked, Missing)
  BY <1>1 DEF PnlInv, Summing
<1>6. Missing \in Nat /\ LargestGain \in Nat /\ AbsOf(g) <= LargestGain
  BY <1>4, MissingGrows, LargestGainIsLargest
<1>7. \A q \in Execs : pc'[q] \in Outside \cup {"tail"}
  BY <1>1, <1>2 DEF TypeOK
<1>8. \/ faults' = faults /\ dailyPnl' = dailyPnl + g
      \/ faults' = faults + 1 /\ dailyPnl' \in {dailyPnl, dailyPnl + g}
  BY <1>5 DEF PnlSet, Works, Raises, NewPnl
<1>9. \/ dailyPnl' = dailyPnl + g /\ Missing' = Missing
      \/ dailyPnl' \in {dailyPnl, dailyPnl + g} /\ Missing' = Missing + LargestGain
  BY <1>3, <1>8, MissingGrows
<1>10. /\ Near(dailyPnl, booked, Missing + LargestGain)
       /\ Near(dailyPnl + g, booked, Missing + LargestGain)
  <2>1. dailyPnl + g \in Int
    BY <1>4
  <2>2. Near(dailyPnl, booked, Missing + LargestGain)
    BY <1>4, <1>5, <1>6, NearSums
  <2>3. Near(dailyPnl + g, booked, Missing + LargestGain)
    BY <1>4, <1>5, <1>6, <2>1, NearSums
  <2> QED
    BY <2>2, <2>3
<1>11. Near(dailyPnl', booked, Missing')
  BY <1>5, <1>9, <1>10
<1>12. PnlAccumulates'
  BY <1>3, <1>11 DEF PnlAccumulates, Missing, Near
<1>13. \A q \in Execs : Summing(q)' /\ Earned(q)'
  BY <1>7 DEF Summing, Earned, EarnedPoints, Outside
<1> QED
  BY <1>12, <1>13 DEF PnlInv

\* The other steps of an execution neither come from nor lead to the last SET, and
\* lead to the bookkeeping only from within it.
LEMMA OthersDoNotSum ==
    ASSUME TypeOK, NEW p \in Execs, Step(p), ~Trade(p), ~PnlGet(p), ~PnlSet(p)
    PROVE  /\ pc[p] # "pnl_set" /\ pc'[p] # "pnl_set"
           /\ pc' = [pc EXCEPT ![p] = pc'[p]]
           /\ pc'[p] \in EarnedPoints => pc[p] \in EarnedPoints
<1> USE DEF Goto, At, TypeOK, EarnedPoints
<1>1. CASE Start(p)
  BY <1>1 DEF Start, Acquire
<1>2. CASE CheckLoss(p)
  BY <1>2 DEF CheckLoss
<1>3. CASE CheckFailures(p)
  BY <1>3 DEF CheckFailures
<1>4. CASE CheckConcurrent(p)
  BY <1>4 DEF CheckConcurrent
<1>5. CASE Increment(p)
  BY <1>5 DEF Increment
<1>6. CASE DecrementGet(p)
  BY <1>6 DEF DecrementGet
<1>7. CASE DecrementSet(p)
  BY <1>7 DEF DecrementSet
<1>8. CASE RecordSuccess(p)
  BY <1>8 DEF RecordSuccess
<1>9. CASE RecordFailure(p)
  BY <1>9 DEF RecordFailure
<1>10. CASE Expire(p)
  BY <1>10 DEF Expire
<1>11. CASE Finish(p)
  BY <1>11 DEF Finish, ReleaseLock
<1> QED
  BY <1>1, <1>2, <1>3, <1>4, <1>5, <1>6, <1>7, <1>8, <1>9, <1>10, <1>11 DEF Step

\* Nor do they change a sum or, but for the trade, a profit.
LEMMA OthersKeepTheSum ==
    ASSUME TypeOK, NEW p \in Execs, Step(p), ~Trade(p), ~PnlGet(p), ~PnlSet(p)
    PROVE  /\ UNCHANGED <<dailyPnl, booked, restarts, outcome>>
           /\ faults' = faults \/ faults' = faults + 1
<1> USE DEF Works, Raises, redis, history
<1>1. CASE Start(p)
  BY <1>1 DEF Start, Acquire
<1>2. CASE CheckLoss(p)
  BY <1>2 DEF CheckLoss
<1>3. CASE CheckFailures(p)
  BY <1>3 DEF CheckFailures
<1>4. CASE CheckConcurrent(p)
  BY <1>4 DEF CheckConcurrent
<1>5. CASE Increment(p)
  BY <1>5 DEF Increment
<1>6. CASE DecrementGet(p)
  BY <1>6 DEF DecrementGet
<1>7. CASE DecrementSet(p)
  BY <1>7 DEF DecrementSet
<1>8. CASE RecordSuccess(p)
  BY <1>8 DEF RecordSuccess
<1>9. CASE RecordFailure(p)
  BY <1>9 DEF RecordFailure
<1>10. CASE Expire(p)
  BY <1>10 DEF Expire
<1>11. CASE Finish(p)
  BY <1>11 DEF Finish, ReleaseLock
<1> QED
  BY <1>1, <1>2, <1>3, <1>4, <1>5, <1>6, <1>7, <1>8, <1>9, <1>10, <1>11 DEF Step

\* So they keep the invariant.
LEMMA OthersSum ==
    ASSUME TypeOK, LockIsHeldInside, AllAreAutomatic, GainsAreBounded, PnlInv,
           NEW p \in Execs, Step(p), ~PnlGet(p), ~PnlSet(p)
    PROVE  PnlInv'
<1>1. CASE Trade(p)
  <2>1. PICK s \in BOOLEAN, g \in Gains :
            outcome' = [outcome EXCEPT ![p] = [success |-> s, gain |-> g]]
    BY <1>1 DEF Trade
  <2>2. /\ outcome'[p].gain \in Gains
        /\ \A q \in Execs \ {p} : outcome'[q] = outcome[q]
    BY <2>1 DEF TypeOK
  <2>3. /\ UNCHANGED <<dailyPnl, booked, restarts, faults>>
        /\ pc[p] = "running" /\ pc' = [pc EXCEPT ![p] = "dec_get"]
    BY <1>1 DEF Trade, At, Goto, redis, history
  <2> QED
    BY <2>2, <2>3, SumStays
<1>2. CASE ~Trade(p)
  <2>1. /\ pc[p] # "pnl_set" /\ pc'[p] # "pnl_set"
        /\ pc' = [pc EXCEPT ![p] = pc'[p]]
        /\ pc'[p] \in EarnedPoints => pc[p] \in EarnedPoints
    BY <1>2, OthersDoNotSum
  <2>2. /\ UNCHANGED <<dailyPnl, booked, restarts, outcome>>
        /\ faults' = faults \/ faults' = faults + 1
    BY <1>2, OthersKeepTheSum
  <2>3. pc'[p] \in EarnedPoints => outcome'[p].gain \in Gains
    BY <2>1, <2>2 DEF PnlInv, Earned
  <2> QED
    BY <2>1, <2>2, <2>3, SumStays
<1> QED
  BY <1>1, <1>2

\* A restart gives up at most one sum.
LEMMA PnlRestart ==
    ASSUME TypeOK, LockIsHeldInside, AllAreAutomatic, GainsAreBounded, PnlInv, Restart
    PROVE  PnlInv'
<1>1. \A q \in Execs : pc'[q] \in Outside
  BY DEF Restart, At, Ended, Outside
<1>2. /\ UNCHANGED <<dailyPnl, booked, faults>> /\ restarts' = restarts + 1
  BY DEF Restart, redis
<1>3. /\ dailyPnl \in Int /\ booked \in Int
      /\ Missing \in Nat /\ LargestGain \in Nat /\ Missing' = Missing + LargestGain
  BY <1>2, MissingGrows, LargestGainIsLargest DEF TypeOK
<1>4. Near(dailyPnl, booked, Missing + LargestGain)
  <2>1. CASE \A q \in Execs : pc[q] # "pnl_set"
    <3>1. Near(dailyPnl, booked, Missing)
      BY <2>1 DEF PnlInv, PnlAccumulates, Missing, At
    <3> QED
      BY <1>3, <3>1, NearSums
  <2>2. CASE \E q \in Execs : pc[q] = "pnl_set"
    <3>1. PICK q \in Execs : pc[q] = "pnl_set"
      BY <2>2
    <3>2. /\ Near(dailyPnl + outcome[q].gain, booked, Missing)
          /\ outcome[q].gain \in Gains
      BY <3>1 DEF PnlInv, Summing, Earned, EarnedPoints
    <3>3. outcome[q].gain \in Int /\ AbsOf(outcome[q].gain) <= LargestGain
      BY <3>2, GainAssumption, LargestGainIsLargest
    <3> QED
      BY <1>3, <3>2, <3>3, NearSums
  <2> QED
    BY <2>1, <2>2
<1>5. PnlAccumulates'
  BY <1>2, <1>3, <1>4 DEF PnlAccumulates, Missing, Near
<1>6. \A q \in Execs : Summing(q)' /\ Earned(q)'
  BY <1>1 DEF Summing, Earned, EarnedPoints, Outside
<1> QED
  BY <1>5, <1>6 DEF PnlInv

\* The GET-SET sum of the day's profit loses nothing but the updates whose
\* command failed or that a restart cut off, at most one of the largest profits
\* for each, when all executions take the lock of the scanner.
THEOREM ProfitIsSummed ==
    ASSUME AllAreAutomatic, GainsAreBounded
    PROVE  Spec => []PnlAccumulates
<1>1. Init => PnlInv
  <2> SUFFICES ASSUME Init
               PROVE  PnlInv
    OBVIOUS
  <2>1. LargestGain \in Nat
    BY LargestGainIsLargest
  <2>2. Missing = 0 /\ dailyPnl = 0 /\ booked = 0
    BY <2>1 DEF Init, Missing
  <2>3. PnlAccumulates
    BY <2>2 DEF PnlAccumulates, Missing, Near, AbsOf
  <2>4. \A q \in Execs : pc[q] = "waiting"
    BY DEF Init
  <2> QED
    BY <2>3, <2>4 DEF PnlInv, Summing, Earned, EarnedPoints
<1>2. TypeOK /\ LockIsHeldInside /\ PnlInv /\ [Next]_vars => PnlInv'
  <2> SUFFICES ASSUME TypeOK, LockIsHeldInside, PnlInv, [Next]_vars
               PROVE  PnlInv'
    OBVIOUS
  <2>1. ASSUME NEW p \in Execs, Step(p)
        PROVE  PnlInv'
    <3>1. CASE PnlGet(p)
      BY <3>1, PnlGetSums
    <3>2. CASE PnlSet(p)
      BY <3>2, PnlSetSums
    <3>3. CASE ~PnlGet(p) /\ ~PnlSet(p)
      BY <2>1, <3>3, OthersSum
    <3> QED
      BY <3>1, <3>2, <3>3
  <2>2. CASE TtlElapses \/ UNCHANGED vars
    <3>1. UNCHANGED <<dailyPnl, booked, pc, seen, outcome, faults, restarts>>
      BY <2>2 DEF TtlElapses, vars, redis, history
    <3> QED
      BY <3>1 DEF PnlInv, PnlAccumulates, Summing, Earned, Missing, Near, LargestGain, At
  <2>3. CASE Restart
    BY <2>3, PnlRestart
  <2> QED
    BY <2>1, <2>2, <2>3 DEF Next
<1>3. PnlInv => PnlAccumulates
  BY DEF PnlInv
<1> QED
  BY <1>1, <1>2, <1>3, TypeCorrect, Exclusion, PTL DEF Spec
=============================================================================
