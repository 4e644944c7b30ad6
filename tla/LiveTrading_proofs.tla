------------------------- MODULE LiveTrading_proofs -------------------------
(***************************************************************************)
(* Proofs about modules KillSwitch and LiveTrading, for any scopes,        *)
(* callers, limits and settings: type correctness, when a circuit breaker  *)
(* is open, who closes it, and by how much concurrent orders exceed the    *)
(* daily limit of an exchange.                                             *)
(***************************************************************************)
EXTENDS LiveTrading, FiniteSetTheorems, TLAPS

-----------------------------------------------------------------------------
(***************************************************************************)
(* Circuit breakers.                                                       *)
(***************************************************************************)
\* What a breaker is made of.
LEMMA BreakerFields ==
    ASSUME NEW b \in Breaker
    PROVE  /\ b.exists \in BOOLEAN /\ b.isOpen \in BOOLEAN
           /\ b.failures \in 0..MaxFailures /\ b.threshold \in {1, Threshold}
           /\ b.reason \in BOOLEAN /\ b.resets \in BOOLEAN /\ b.elapsed \in BOOLEAN
BY DEF Breaker

\* A record with fields of the right kinds is a breaker.
LEMMA BreakerRecord ==
    ASSUME NEW e \in BOOLEAN, NEW i \in BOOLEAN, NEW f \in 0..MaxFailures,
           NEW t \in {1, Threshold}, NEW r \in BOOLEAN, NEW a \in BOOLEAN,
           NEW l \in BOOLEAN
    PROVE  [exists |-> e, isOpen |-> i, failures |-> f, threshold |-> t,
            reason |-> r, resets |-> a, elapsed |-> l] \in Breaker
BY DEF Breaker

\* A breaker that is closed is below its threshold, and one that is open exists.
Sound(b) == /\ ~b.isOpen => b.failures < b.threshold
            /\ b.isOpen => b.exists

\* A threshold is positive.
LEMMA ThresholdIsPositive ==
    ASSUME NEW b \in Breaker
    PROVE  0 < b.threshold
BY ThresholdAssumption, BreakerFields

\* A failure keeps a breaker sound, opens it at its threshold and never closes it.
LEMMA FailedIsSound ==
    ASSUME NEW b \in Breaker, b.failures < MaxFailures
    PROVE  /\ Failed(b) \in Breaker /\ Sound(Failed(b))
           /\ b.isOpen => Failed(b).isOpen
<1> DEFINE n == b.failures + 1
           i == b.isOpen \/ n >= b.threshold
           r == b.reason \/ n >= b.threshold
           l == b.elapsed /\ b.isOpen
           f == [exists |-> TRUE, isOpen |-> i, failures |-> n,
                 threshold |-> b.threshold, reason |-> r, resets |-> b.resets,
                 elapsed |-> l]
<1>1. n \in 0..MaxFailures
  BY ThresholdAssumption, BreakerFields
<1>2. i \in BOOLEAN /\ r \in BOOLEAN /\ l \in BOOLEAN
  OBVIOUS
<1>3. /\ b.threshold \in {1, Threshold} /\ b.resets \in BOOLEAN
      /\ b.threshold \in Int
  BY BreakerFields, ThresholdAssumption
<1>4. Failed(b) = f
  BY Zenon DEF Failed
<1>5. (b.isOpen => i) /\ (~i => n < b.threshold)
  BY <1>1, <1>3
<1> HIDE DEF n, i, r, l
<1>6. f \in Breaker
  BY <1>1, <1>2, <1>3, BreakerRecord
<1>7. f.isOpen = i /\ f.failures = n /\ f.threshold = b.threshold /\ f.exists
  OBVIOUS
<1> HIDE DEF f
<1>8. Sound(f)
  BY <1>5, <1>7 DEF Sound
<1> QED
  BY <1>4, <1>5, <1>6, <1>7, <1>8

\* The breaker that a failure or a trip is recorded on, new or not.
LEMMA CreatedIsABreaker ==
    ASSUME SwitchTypeOK, NEW s \in Scopes, NEW t \in {1, Threshold},
           NEW r \in BOOLEAN, breakers[s].failures < MaxFailures
    PROVE  Created(s, t, r) \in Breaker /\ Created(s, t, r).failures < MaxFailures
<1>1. 0 \in 0..MaxFailures /\ 0 < MaxFailures
  BY ThresholdAssumption
<1>2. Absent \in Breaker
  BY <1>1 DEF Absent, Breaker
<1>3. [Absent EXCEPT !.exists = TRUE, !.threshold = t, !.resets = r] \in Breaker
  BY <1>2 DEF Breaker
<1>4. [Absent EXCEPT !.exists = TRUE, !.threshold = t, !.resets = r].failures = 0
  BY DEF Absent
<1> QED
  BY <1>1, <1>3, <1>4 DEF Created, SwitchTypeOK

\* A breaker that is cleared, or merely closed, is sound.
LEMMA ClearedIsSound ==
    ASSUME NEW b \in Breaker
    PROVE  /\ Cleared(b) \in Breaker /\ Sound(Cleared(b))
           /\ [Cleared(b) EXCEPT !.reason = FALSE] \in Breaker
           /\ Sound([Cleared(b) EXCEPT !.reason = FALSE])
<1>1. 0 \in 0..MaxFailures
  BY ThresholdAssumption
<1>2. Cleared(b) \in Breaker
  BY <1>1 DEF Cleared, Breaker
<1>3. /\ Cleared(b).failures = 0 /\ Cleared(b).isOpen = FALSE
      /\ Cleared(b).threshold = b.threshold
  BY DEF Cleared, Breaker
<1> DEFINE c == [Cleared(b) EXCEPT !.reason = FALSE]
<1>4. c \in Breaker
  BY <1>2 DEF Breaker
<1>5. c.failures = 0 /\ c.isOpen = FALSE /\ c.threshold = b.threshold
  BY <1>2, <1>3 DEF Breaker
<1> HIDE DEF c
<1>6. Sound(Cleared(b)) /\ Sound(c)
  BY <1>3, <1>5, ThresholdIsPositive DEF Sound
<1> QED
  BY <1>2, <1>4, <1>6 DEF c

\* A success keeps a breaker sound and closes it only when its time is over.
LEMMA SucceededIsSound ==
    ASSUME NEW b \in Breaker, Sound(b)
    PROVE  LET c == [b EXCEPT !.failures = 0, !.isOpen = StaysOpen(b)]
           IN  /\ c \in Breaker /\ Sound(c)
               /\ b.isOpen => c.isOpen \/ ShouldAutoReset(b)
<1> DEFINE i == StaysOpen(b)
           c == [b EXCEPT !.failures = 0, !.isOpen = i]
<1>1. 0 \in 0..MaxFailures
  BY ThresholdAssumption
<1>2. i \in BOOLEAN /\ (i => b.isOpen) /\ (b.isOpen => i \/ ShouldAutoReset(b))
  BY BreakerFields DEF StaysOpen, ShouldAutoReset
<1> HIDE DEF i
<1>3. c \in Breaker
  BY <1>1, <1>2 DEF Breaker
<1>4. c.failures = 0 /\ c.isOpen = i /\ c.threshold = b.threshold /\ c.exists = b.exists
  BY DEF Breaker
<1> HIDE DEF c
<1>5. Sound(c)
  BY <1>2, <1>4, ThresholdIsPositive DEF Sound
<1> QED
  BY <1>2, <1>3, <1>4, <1>5 DEF c, i

\* The passing of time leaves a breaker as it is.
LEMMA ElapsedIsSound ==
    ASSUME NEW b \in Breaker, Sound(b)
    PROVE  /\ [b EXCEPT !.elapsed = TRUE] \in Breaker
           /\ Sound([b EXCEPT !.elapsed = TRUE])
           /\ [b EXCEPT !.elapsed = TRUE].isOpen = b.isOpen
<1> DEFINE c == [b EXCEPT !.elapsed = TRUE]
<1>1. c \in Breaker
  BY DEF Breaker
<1>2. /\ c.failures = b.failures /\ c.isOpen = b.isOpen
      /\ c.threshold = b.threshold /\ c.exists = b.exists
  BY DEF Breaker
<1> HIDE DEF c
<1>3. Sound(c)
  BY <1>2 DEF Sound
<1> QED
  BY <1>1, <1>2, <1>3 DEF c
-----------------------------------------------------------------------------
(***************************************************************************)
(* Every step of the switch keeps every breaker sound.                     *)
(***************************************************************************)
SwitchInv == SwitchTypeOK /\ \A s \in Scopes : Sound(breakers[s])

\* Who closes a breaker, as OpenHolds has it.
RightlyClosed ==
    \A s \in Scopes : breakers[s].isOpen /\ ~breakers'[s].isOpen
                         => ResetBreaker(s) \/ ShouldAutoReset(breakers[s])

\* A sound breaker put in its place.
LEMMA PutIsSound ==
    ASSUME SwitchInv, NEW s \in Scopes, NEW b \in Breaker, Sound(b), Put(s, b),
           UNCHANGED active
    PROVE  /\ SwitchInv' /\ breakers'[s] = b
           /\ \A t \in Scopes \ {s} : breakers'[t] = breakers[t]
<1>1. /\ breakers' \in [Scopes -> Breaker] /\ breakers'[s] = b
      /\ \A t \in Scopes \ {s} : breakers'[t] = breakers[t]
  BY DEF SwitchInv, SwitchTypeOK, Put
<1>2. \A t \in Scopes : Sound(breakers'[t])
  BY <1>1 DEF SwitchInv
<1>3. (\A t \in Scopes : Sound(breakers[t]))'
  BY <1>2 DEF Sound
<1> QED
  BY <1>1, <1>3 DEF SwitchInv, SwitchTypeOK

\* A question closes the breakers whose time is over, and no other.
LEMMA QueryIsSound ==
    ASSUME SwitchInv, NEW queried, breakers' = AfterQuery(queried), UNCHANGED active
    PROVE  SwitchInv' /\ RightlyClosed
<1>1. \A s \in Scopes :
         /\ breakers'[s] \in Breaker /\ Sound(breakers'[s])
         /\ ShouldAutoReset(breakers[s]) \/ breakers'[s] = breakers[s]
  BY ClearedIsSound DEF SwitchInv, SwitchTypeOK, AfterQuery
<1>2. breakers' \in [Scopes -> Breaker]
  BY <1>1 DEF AfterQuery
<1>3. (\A s \in Scopes : Sound(breakers[s]))'
  BY <1>1 DEF Sound
<1>4. RightlyClosed
  BY <1>1 DEF RightlyClosed
<1> QED
  BY <1>2, <1>3, <1>4 DEF SwitchInv, SwitchTypeOK

\* The operator's steps, failures, successes and time.
LEMMA SwitchStepIsSound ==
    ASSUME SwitchInv, SwitchNext
    PROVE  SwitchInv' /\ RightlyClosed
<1>1. CASE Activate \/ Release
  <2>1. breakers' = breakers /\ active' \in BOOLEAN
    BY <1>1 DEF Activate, Release
  <2>2. (\A s \in Scopes : Sound(breakers[s]))'
    BY <2>1 DEF SwitchInv, Sound
  <2> QED
    BY <2>1, <2>2 DEF SwitchInv, SwitchTypeOK, RightlyClosed
<1>2. CASE GetAllBreakers
  BY <1>2, QueryIsSound DEF GetAllBreakers
<1>3. ASSUME NEW s \in Scopes,
             \/ RecordFailure(s) \/ RecordSuccess(s) \/ ResetBreaker(s) \/ Elapse(s)
             \/ \E resets \in BOOLEAN : Trip(s, resets)
      PROVE  SwitchInv' /\ RightlyClosed
  <2> DEFINE b == breakers[s]
  <2>1. b \in Breaker /\ Sound(b) /\ b.failures \in Int /\ SwitchTypeOK
    BY ThresholdAssumption, BreakerFields DEF SwitchInv, SwitchTypeOK
  <2>2. ASSUME NEW c \in Breaker, Sound(c), Put(s, c), UNCHANGED active,
               b.isOpen => c.isOpen \/ ResetBreaker(s) \/ ShouldAutoReset(b)
        PROVE  SwitchInv' /\ RightlyClosed
    BY <2>2, PutIsSound DEF RightlyClosed
  <2>3. ASSUME NEW t \in {1, Threshold}, NEW r \in BOOLEAN, b.failures < MaxFailures,
               Put(s, Failed(Created(s, t, r))), UNCHANGED active
        PROVE  SwitchInv' /\ RightlyClosed
    <3>1. Created(s, t, r) \in Breaker /\ Created(s, t, r).failures < MaxFailures
      BY <2>1, <2>3, CreatedIsABreaker
    <3>2. b.isOpen => Created(s, t, r) = b
      BY <2>1 DEF Created, Sound
    <3>3. /\ Failed(Created(s, t, r)) \in Breaker
          /\ Sound(Failed(Created(s, t, r)))
          /\ b.isOpen => Failed(Created(s, t, r)).isOpen
      BY <3>1, <3>2, FailedIsSound
    <3> QED
      BY <2>2, <2>3, <3>3
  <2>4. CASE RecordFailure(s)
    BY <2>3, <2>4 DEF RecordFailure
  <2>5. CASE \E resets \in BOOLEAN : Trip(s, resets)
    BY <2>3, <2>5 DEF Trip
  <2>6. CASE RecordSuccess(s)
    BY <2>1, <2>2, <2>6, SucceededIsSound DEF RecordSuccess
  <2>7. CASE ResetBreaker(s)
    <3>1. /\ Put(s, [Cleared(b) EXCEPT !.reason = FALSE]) /\ UNCHANGED active
      BY <2>7 DEF ResetBreaker
    <3> QED
      BY <2>1, <2>2, <2>7, <3>1, ClearedIsSound
  <2>8. CASE Elapse(s)
    <3>1. /\ Put(s, [b EXCEPT !.elapsed = TRUE]) /\ UNCHANGED active
      BY <2>8 DEF Elapse
    <3> QED
      BY <2>1, <2>2, <3>1, ElapsedIsSound
  <2> QED
    BY <1>3, <2>4, <2>5, <2>6, <2>7, <2>8
<1> QED
  BY <1>1, <1>2, <1>3 DEF SwitchNext

\* Of the other steps only the beginning of a validation touches a breaker.
LEMMA StepIsSound ==
    ASSUME SwitchInv, [Next]_vars
    PROVE  SwitchInv' /\ (RightlyClosed \/ UNCHANGED switch)
<1>1. CASE UNCHANGED switch
  <2>1. (\A s \in Scopes : Sound(breakers[s]))'
    BY <1>1 DEF SwitchInv, Sound, switch
  <2> QED
    BY <1>1, <2>1 DEF SwitchInv, SwitchTypeOK, switch
<1>2. CASE Operator
  BY <1>2, SwitchStepIsSound DEF Operator
<1>3. ASSUME NEW c \in Callers, NEW o \in Order, ValidateBegins(c, o)
      PROVE  SwitchInv' /\ RightlyClosed
  BY <1>3, QueryIsSound DEF ValidateBegins
<1>4. ASSUME NEW c \in Callers, CallerNext(c), ~UNCHANGED switch
      PROVE  \E o \in Order : ValidateBegins(c, o)
  BY <1>4 DEF CallerNext, ExchangeAnswers, SymbolAnswers, Record, OnlyValidated, Ends
<1>5. CASE \E m \in Choices : SetMode(m)
  BY <1>1, <1>5 DEF SetMode
<1>6. CASE Midnight \/ UNCHANGED vars
  BY <1>1, <1>6 DEF Midnight, vars
<1> QED
  BY <1>1, <1>2, <1>3, <1>4, <1>5, <1>6 DEF Next

\* Initially there are no breakers.
LEMMA InitIsSound == Init => SwitchInv
<1>1. SUFFICES ASSUME Init
               PROVE  SwitchInv
  OBVIOUS
<1>2. 0 \in 0..MaxFailures /\ 0 < Threshold
  BY ThresholdAssumption
<1>3. Absent \in Breaker /\ Sound(Absent)
  BY <1>2 DEF Absent, Breaker, Sound
<1> QED
  BY <1>1, <1>3 DEF Init, SwitchInit, SwitchInv, SwitchTypeOK

\* A breaker is closed only while its failures are below its threshold, for any
\* scopes and thresholds. (kill_switch.py, CircuitBreakerState)
THEOREM BreakersAreSound == Spec => []ClosedIsBelowThreshold
<1>1. SwitchInv /\ [Next]_vars => SwitchInv'
  BY StepIsSound
<1>2. SwitchInv => ClosedIsBelowThreshold
  BY DEF SwitchInv, ClosedIsBelowThreshold, Sound
<1> QED
  BY InitIsSound, <1>1, <1>2, PTL DEF Spec

\* An open breaker is closed by the operator or by time, and by nothing else.
\* (kill_switch.py, record_success and is_circuit_open)
THEOREM OpenOnesHold == Spec => OpenHolds
<1>1. SwitchInv /\ [Next]_vars => SwitchInv'
  BY StepIsSound
<1>2. SwitchInv /\ [Next]_vars => [RightlyClosed]_switch
  BY StepIsSound
<1>3. [][RightlyClosed]_switch => OpenHolds
  BY PTL DEF OpenHolds, RightlyClosed
<1> QED
  BY InitIsSound, <1>1, <1>2, <1>3, PTL DEF Spec
-----------------------------------------------------------------------------
(***************************************************************************)
(* Type correctness.                                                       *)
(***************************************************************************)
\* What is about the callers, in the types of TypeOK.
CallersTypeOK ==
    /\ mode \in Modes
    /\ used \in [0..1 -> [Keys -> Nat]]
    /\ day \in 0..1
    /\ pc \in [Callers -> {"idle", "exchange", "symbol", "approved"}]
    /\ order \in [Callers -> Order \cup {NoOrder}]
    /\ passed \in [Callers -> BOOLEAN]
    /\ date \in [Callers -> 0..1]
    /\ faults \in 0..MaxFaults
    /\ \A c \in Callers : pc[c] = "idle" <=> order[c] = NoOrder

\* An order of which the validation goes on keeps its place.
LEMMA TaskTypes ==
    ASSUME CallersTypeOK, NEW c \in Callers, NEW p \in {"idle", "exchange", "symbol", "approved"},
           NEW o \in Order \cup {NoOrder}, p = "idle" <=> o = NoOrder,
           pc' = [pc EXCEPT ![c] = p], order' = [order EXCEPT ![c] = o]
    PROVE  /\ pc' \in [Callers -> {"idle", "exchange", "symbol", "approved"}]
           /\ order' \in [Callers -> Order \cup {NoOrder}]
           /\ \A a \in Callers : pc'[a] = "idle" <=> order'[a] = NoOrder
BY DEF CallersTypeOK

\* A validation begins.
LEMMA ValidateBeginsTypes ==
    ASSUME CallersTypeOK, NEW c \in Callers, NEW o \in Order, ValidateBegins(c, o)
    PROVE  CallersTypeOK'
<1> DEFINE ok == ChecksAtOnce(o)
<1>1. /\ pc' = [pc EXCEPT ![c] = "exchange"] /\ order' = [order EXCEPT ![c] = o]
      /\ passed' = [passed EXCEPT ![c] = ok]
      /\ date' = [date EXCEPT ![c] = day]
      /\ UNCHANGED <<mode, used, day, faults>>
  BY DEF ValidateBegins
<1>2. ok \in BOOLEAN
  BY DEF ChecksAtOnce
<1> HIDE DEF ok
<1>3. /\ pc' \in [Callers -> {"idle", "exchange", "symbol", "approved"}]
      /\ order' \in [Callers -> Order \cup {NoOrder}]
      /\ \A a \in Callers : pc'[a] = "idle" <=> order'[a] = NoOrder
  BY <1>1, TaskTypes, OrderAssumption
<1>4. passed' \in [Callers -> BOOLEAN]
  BY <1>1, <1>2 DEF CallersTypeOK
<1>5. date' \in [Callers -> 0..1]
  BY <1>1 DEF CallersTypeOK
<1> QED
  BY <1>1, <1>3, <1>4, <1>5 DEF CallersTypeOK

\* The first answer of Redis.
LEMMA ExchangeAnswersTypes ==
    ASSUME CallersTypeOK, NEW c \in Callers, ExchangeAnswers(c)
    PROVE  CallersTypeOK'
<1>1. /\ pc[c] = "exchange"
      /\ pc' = [pc EXCEPT ![c] = "symbol"]
      /\ UNCHANGED <<mode, used, day, order, date>>
  BY DEF ExchangeAnswers
<1>2. faults' \in 0..MaxFaults
  BY LimitAssumption DEF ExchangeAnswers, ExchangeRead, ReadWorks, ReadFails, CallersTypeOK
<1>3. passed' \in [Callers -> BOOLEAN]
  <2>1. PICK ok \in BOOLEAN : passed' = [passed EXCEPT ![c] = @ /\ ok]
    BY DEF ExchangeAnswers, ExchangeRead, WithinExchange
  <2>2. (passed[c] /\ ok) \in BOOLEAN
    OBVIOUS
  <2> QED
    BY <2>1, <2>2, Zenon DEF CallersTypeOK
<1> QED
  BY <1>1, <1>2, <1>3 DEF CallersTypeOK

\* The second answer and the verdict.
LEMMA SymbolAnswersTypes ==
    ASSUME CallersTypeOK, NEW c \in Callers, NEW q \in Quote, SymbolAnswers(c, q)
    PROVE  CallersTypeOK'
<1>1. pc[c] = "symbol" /\ UNCHANGED <<mode, used, day>>
  BY DEF SymbolAnswers
<1>2. faults' \in 0..MaxFaults
  BY LimitAssumption DEF SymbolAnswers, ReadWorks, ReadFails, CallersTypeOK
<1>3. PICK ok \in BOOLEAN : Decides(c, ok)
  BY DEF SymbolAnswers, WithinSymbol, MarketOK
<1>4. /\ pc' = [pc EXCEPT ![c] = IF ok THEN "approved" ELSE "idle"]
      /\ order' = [order EXCEPT ![c] = IF ok THEN order[c] ELSE NoOrder]
      /\ passed' = [passed EXCEPT ![c] = FALSE]
      /\ date' = [date EXCEPT ![c] = 0]
  BY <1>3 DEF Decides
<1>5. /\ passed' \in [Callers -> BOOLEAN] /\ date' \in [Callers -> 0..1]
  BY <1>4 DEF CallersTypeOK
<1>6. order[c] \in Order /\ order[c] # NoOrder
  BY <1>1 DEF CallersTypeOK
<1>7. /\ pc' \in [Callers -> {"idle", "exchange", "symbol", "approved"}]
      /\ order' \in [Callers -> Order \cup {NoOrder}]
      /\ \A a \in Callers : pc'[a] = "idle" <=> order'[a] = NoOrder
  BY <1>4, <1>6 DEF CallersTypeOK
<1> QED
  BY <1>1, <1>2, <1>5, <1>7 DEF CallersTypeOK

\* An order is recorded, or was only validated.
LEMMA EndTypes ==
    ASSUME CallersTypeOK, NEW c \in Callers, Record(c) \/ OnlyValidated(c)
    PROVE  CallersTypeOK'
<1>1. /\ pc[c] = "approved"
      /\ pc' = [pc EXCEPT ![c] = "idle"] /\ order' = [order EXCEPT ![c] = NoOrder]
      /\ UNCHANGED <<mode, day, passed, date>>
  BY DEF Record, OnlyValidated, Ends
<1>2. faults' \in 0..MaxFaults
  BY LimitAssumption DEF Record, OnlyValidated, ReadWorks, ReadFails, CallersTypeOK
<1>3. order[c] \in Order /\ order[c].notional \in Nat
  BY <1>1, LimitAssumption DEF CallersTypeOK, Order
<1>4. used' \in [0..1 -> [Keys -> Nat]]
  BY <1>3 DEF Record, OnlyValidated, CallersTypeOK
<1> QED
  BY <1>1, <1>2, <1>4 DEF CallersTypeOK

\* Every step keeps the types of what is about the callers.
LEMMA StepTypes ==
    ASSUME CallersTypeOK, [Next]_vars
    PROVE  CallersTypeOK'
<1>1. CASE Operator \/ UNCHANGED vars
  BY <1>1 DEF Operator, vars, calls, CallersTypeOK
<1>2. CASE \E m \in Choices : SetMode(m)
  BY <1>2, ConfigAssumption DEF SetMode, calls, CallersTypeOK
<1>3. ASSUME NEW c \in Callers, CallerNext(c)
      PROVE  CallersTypeOK'
  BY <1>3, ValidateBeginsTypes, ExchangeAnswersTypes, SymbolAnswersTypes, EndTypes
     DEF CallerNext
<1>4. CASE Midnight
  BY <1>4 DEF Midnight, calls, CallersTypeOK
<1> QED
  BY <1>1, <1>2, <1>3, <1>4 DEF Next

\* The variables have their types, whatever the operator and the callers do.
THEOREM TypeCorrect == Spec => []TypeOK
<1>1. Init => CallersTypeOK /\ config \in Configs
  BY LimitAssumption, ConfigAssumption DEF Init, CallersTypeOK, Config
<1>2. CallersTypeOK /\ [Next]_vars => CallersTypeOK'
  BY StepTypes
<1>3. SwitchInv /\ [Next]_vars => SwitchInv'
  BY StepIsSound
<1>4. config \in Configs /\ [Next]_vars => (config \in Configs)'
  BY DEF Next, Operator, SetMode, CallerNext, ValidateBegins, ExchangeAnswers,
         SymbolAnswers, Record, OnlyValidated, Ends, Midnight, vars
<1>5. CallersTypeOK /\ SwitchInv /\ config \in Configs => TypeOK
  BY DEF CallersTypeOK, SwitchInv, TypeOK
<1> QED
  BY InitIsSound, <1>1, <1>2, <1>3, <1>4, <1>5, PTL DEF Spec
-----------------------------------------------------------------------------
(***************************************************************************)
(* The daily limit of an exchange.  Callers that are past its check, and   *)
(* those that a midnight has overtaken, will add their orders to the       *)
(* amount of the day whatever that amount is by then.                      *)
(***************************************************************************)
Number == Cardinality(Callers)

Bound == MaxExchange + (Number - 1) * Largest

\* u is used and the callers in P, whose orders are worth n, may add to it: the
\* one of them that was checked last has room, and so has the sum.
Room(u, P, n) ==
    /\ u <= Bound
    /\ P # {} => \E w \in P : u + n[w] <= MaxExchange + (Number - Cardinality(P)) * Largest

\* Orders that passed the checks.
Amounts(P, n) == \A c \in P : n[c] \in Nat /\ n[c] <= Largest /\ n[c] <= MaxExchange

\* The constants are natural numbers, and there is a caller.
LEMMA LimitTypes ==
    /\ Largest \in Nat /\ MaxExchange \in Nat /\ Number \in Nat /\ 1 <= Number
    /\ Bound \in Nat
<1>1. Largest \in Nat /\ MaxExchange \in Nat
  BY LimitAssumption DEF Largest
<1>2. Number \in Nat /\ Number # 0
  BY LimitAssumption, FS_CardinalityType, FS_EmptySet DEF Number
<1>3. (Number - 1) * Largest \in Nat
  BY <1>1, <1>2
<1> QED
  BY <1>1, <1>2, <1>3 DEF Bound

\* The number of those in a part of the callers.
LEMMA PartTypes ==
    ASSUME NEW P \in SUBSET Callers
    PROVE  /\ IsFiniteSet(P) /\ Cardinality(P) \in 0..Number
           /\ (Number - Cardinality(P)) * Largest \in Nat
           /\ \A c \in P : /\ Cardinality(P \ {c}) = Cardinality(P) - 1
                           /\ (Number - Cardinality(P \ {c})) * Largest
                                = (Number - Cardinality(P)) * Largest + Largest
<1>1. IsFiniteSet(P) /\ Cardinality(P) \in 0..Number
  BY LimitAssumption, FS_Subset, FS_CardinalityType, LimitTypes DEF Number
<1>2. (Number - Cardinality(P)) * Largest \in Nat
  BY <1>1, LimitTypes
<1>3. ASSUME NEW c \in P
      PROVE  /\ Cardinality(P \ {c}) = Cardinality(P) - 1
             /\ (Number - Cardinality(P \ {c})) * Largest
                  = (Number - Cardinality(P)) * Largest + Largest
  <2>1. Cardinality(P \ {c}) = Cardinality(P) - 1
    BY <1>1, FS_RemoveElement
  <2>2. \A a, l \in Nat : (a + 1) * l = a * l + l
    OBVIOUS
  <2>3. Number - Cardinality(P) \in Nat
    BY <1>1, LimitTypes
  <2>4. Number - Cardinality(P \ {c}) = (Number - Cardinality(P)) + 1
    BY <1>1, <2>1, LimitTypes
  <2> QED
    BY <2>1, <2>2, <2>3, <2>4, LimitTypes
<1> QED
  BY <1>1, <1>2, <1>3

\* A product grows with its factor.
LEMMA ProductsGrow ==
    ASSUME NEW a \in Nat, NEW b \in Nat, NEW l \in Nat, a <= b
    PROVE  a * l <= b * l
<1>1. PICK d \in Nat : b = a + d
  BY b - a \in Nat
<1>2. (a + d) * l = a * l + d * l /\ d * l \in Nat /\ a * l \in Nat
  OBVIOUS
<1> QED
  BY <1>1, <1>2

\* A caller passes the check: there is room for its order.
LEMMA RoomToJoin ==
    ASSUME NEW u \in Nat, NEW P \in SUBSET Callers, NEW n, Room(u, P, n),
           NEW c \in Callers \ P, n[c] \in Nat, u + n[c] <= MaxExchange
    PROVE  Room(u, P \cup {c}, n)
<1>1. (Number - Cardinality(P \cup {c})) * Largest \in Nat
  BY PartTypes
<1>2. u + n[c] <= MaxExchange + (Number - Cardinality(P \cup {c})) * Largest
  BY <1>1, LimitTypes
<1> QED
  BY <1>2 DEF Room

\* A caller leaves, with its order recorded (d = n[c]) or not (d = 0): there is
\* room for the others.
LEMMA RoomAfterLeaving ==
    ASSUME NEW u \in Nat, NEW P \in SUBSET Callers, NEW n, Room(u, P, n), Amounts(P, n),
           NEW c \in P, NEW d \in {0, n[c]}
    PROVE  Room(u + d, P \ {c}, n)
<1>1. PICK w \in P : u + n[w] <= MaxExchange + (Number - Cardinality(P)) * Largest
  BY DEF Room
<1> DEFINE left == (Number - Cardinality(P)) * Largest
<1>2. /\ Cardinality(P) \in 0..Number /\ left \in Nat
      /\ (Number - Cardinality(P \ {c})) * Largest = left + Largest
  BY PartTypes
<1>3. Cardinality(P) # 0
  BY PartTypes, FS_EmptySet
<1>4. left <= (Number - 1) * Largest
  BY <1>2, <1>3, ProductsGrow, LimitTypes
<1>5. /\ n[c] \in Nat /\ n[c] <= Largest /\ n[w] \in Nat /\ n[w] <= Largest
  BY DEF Amounts
<1> HIDE DEF left
<1>6. CASE w = c
  <2>1. u + d <= MaxExchange + left
    BY <1>1, <1>2, <1>5, <1>6, LimitTypes DEF left
  <2>2. u + d <= Bound
    BY <1>2, <1>4, <1>5, <2>1, LimitTypes DEF Bound
  <2>3. ASSUME NEW v \in P \ {c}
        PROVE  u + d + n[v] <= MaxExchange + (left + Largest)
    <3>1. n[v] \in Nat /\ n[v] <= Largest
      BY DEF Amounts
    <3> QED
      BY <1>2, <1>5, <2>1, <3>1, LimitTypes
  <2> QED
    BY <1>2, <2>2, <2>3 DEF Room
<1>7. CASE w # c
  <2>1. u + d + n[w] <= MaxExchange + (left + Largest)
    BY <1>1, <1>2, <1>5, LimitTypes DEF left
  <2>2. Cardinality(P \ {c}) # 0 /\ Cardinality(P \ {c}) = Cardinality(P) - 1
    <3>1. IsFiniteSet(P \ {c}) /\ w \in P \ {c}
      BY <1>7, PartTypes
    <3> QED
      BY <3>1, PartTypes, FS_EmptySet
  <2>3. left + Largest <= (Number - 1) * Largest
    <3> DEFINE m == Number - Cardinality(P \ {c})
               k == Number - 1
    <3>1. m \in Nat /\ k \in Nat /\ m <= k
      BY <1>2, <1>3, <2>2, LimitTypes
    <3>2. m * Largest = left + Largest
      BY <1>2
    <3> HIDE DEF m, k
    <3>3. m * Largest <= k * Largest
      BY <3>1, ProductsGrow, LimitTypes
    <3> QED
      BY <3>2, <3>3 DEF k
  <2>4. u + d <= Bound
    BY <1>2, <1>5, <2>1, <2>3, LimitTypes DEF Bound
  <2> QED
    BY <1>2, <1>7, <2>1, <2>4 DEF Room
<1> QED
  BY <1>6, <1>7

\* A new day begins with room for everyone who is on the way.
LEMMA RoomAtMidnight ==
    ASSUME NEW P \in SUBSET Callers, NEW n, Amounts(P, n)
    PROVE  Room(0, P, n)
<1>1. (Number - Cardinality(P)) * Largest \in Nat
  BY PartTypes
<1>2. \A w \in P : 0 + n[w] <= MaxExchange + (Number - Cardinality(P)) * Largest
  BY <1>1, LimitTypes DEF Amounts
<1>3. 0 <= Bound
  BY LimitTypes
<1> QED
  BY <1>2, <1>3 DEF Room
-----------------------------------------------------------------------------
\* A caller past the check of the exchange's limit.
Checked(c) ==
    \/ pc[c] = "symbol" /\ passed[c]
    \/ pc[c] = "approved"

\* A caller that will read the amount of a day that is over.
Overtaken(c) == pc[c] = "exchange" /\ passed[c] /\ date[c] < day

\* Those that may add to the amount of e as it is now.
Pending(e) == {c \in Callers : /\ Checked(c) \/ Overtaken(c)
                               /\ order[c].exchange = e
                               /\ order[c].notional <= Largest
                               /\ order[c].notional <= MaxExchange}

Amount == [c \in Callers |-> order[c].notional]

\* What the checks have established so far.
ChecksInv ==
    /\ \A c \in Callers : pc[c] # "idle" => date[c] <= day
    /\ day = 0 => \A k \in Keys : used[1][k] = 0
    /\ faults = 0 => \A c \in Callers :
          /\ pc[c] = "exchange" /\ passed[c] => order[c].notional <= Largest
          /\ Checked(c) => order[c].notional <= Largest /\ order[c].notional <= MaxExchange

\* What is used, and what may be added to it.
RoomInv ==
    faults = 0 => /\ \A d \in 0..1, e \in Exchanges : used[d][e] <= Bound
                  /\ \A e \in Exchanges : Room(used[day][e], Pending(e), Amount)

LimitInv == CallersTypeOK /\ ChecksInv /\ RoomInv

\* Those that are pending have orders that passed the checks.
LEMMA PendingTypes ==
    ASSUME CallersTypeOK, NEW e \in Exchanges
    PROVE  /\ Pending(e) \in SUBSET Callers /\ Amounts(Pending(e), Amount)
           /\ used[day][e] \in Nat
<1>1. \A c \in Pending(e) : order[c] \in Order
  BY DEF Pending, Checked, Overtaken, CallersTypeOK
<1>2. \A c \in Pending(e) : order[c].notional \in Nat
  BY <1>1, LimitAssumption DEF Order
<1>3. used[day][e] \in Nat
  BY DEF CallersTypeOK, Keys
<1> QED
  BY <1>2, <1>3 DEF Amounts, Amount, Pending

\* Room depends on the orders of those it is for.
LEMMA SameRoom ==
    ASSUME NEW u, NEW P, NEW n, NEW m, Room(u, P, n), \A c \in P : m[c] = n[c]
    PROVE  Room(u, P, m)
BY DEF Room

\* A step of one caller, which leaves the pending ones, stays, or joins them
\* when there is room: there is room for those that are pending then.
LEMMA RoomAfterAStep ==
    ASSUME LimitInv, CallersTypeOK', faults = 0, NEW c \in Callers, NEW e \in Exchanges,
           day' = day,
           \A a \in Callers \ {c} : /\ pc'[a] = pc[a] /\ order'[a] = order[a]
                                    /\ passed'[a] = passed[a] /\ date'[a] = date[a],
           NEW d \in {0, Amount[c]}, used'[day][e] = used[day][e] + d,
           d # 0 => c \in Pending(e) /\ c \notin Pending(e)',
           c \in Pending(e)' => /\ order'[c] = order[c]
                                /\ c \in Pending(e) \/ used[day][e] + Amount[c] <= MaxExchange
    PROVE  Room(used[day][e], Pending(e), Amount)' /\ used'[day][e] <= Bound
<1> DEFINE u == used[day][e]
           P == Pending(e)
           Q == Pending(e)'
           n == Amount
           m == Amount'
<1>1. /\ u \in Nat /\ P \in SUBSET Callers /\ Amounts(P, n) /\ Room(u, P, n)
  BY PendingTypes DEF LimitInv, RoomInv
<1>2. Q \in SUBSET Callers /\ Q \ {c} = P \ {c}
  BY DEF Pending, Checked, Overtaken
<1>3. (\A a \in Callers \ {c} : m[a] = n[a]) /\ (c \in Q => m[c] = n[c])
  <2>1. \A a \in Callers : n[a] = order[a].notional /\ m[a] = order'[a].notional
    BY DEF Amount
  <2>2. (\A a \in Callers \ {c} : order'[a] = order[a]) /\ (c \in Q => order'[c] = order[c])
    OBVIOUS
  <2> HIDE DEF n, m, Q
  <2> QED
    BY <2>1, <2>2
<1>4. c \in Q /\ c \notin P => n[c] \in Nat
  <2>1. c \in Q => order'[c] \in Order
    BY DEF Pending, Checked, Overtaken, CallersTypeOK
  <2>2. c \in Q => order'[c] = order[c]
    OBVIOUS
  <2>3. n[c] = order[c].notional
    BY DEF Amount
  <2> HIDE DEF n, Q
  <2> QED
    BY <2>1, <2>2, <2>3, LimitAssumption DEF Order
<1>5. d \in Nat
  BY <1>1 DEF Amounts
<1>6. used'[day'][e] = u + d
  OBVIOUS
<1> HIDE DEF u, P, Q, n, m
<1>7. Room(u + d, Q, n)
  <2>1. CASE c \in P /\ c \notin Q
    <3>1. Q = P \ {c}
      BY <1>2, <2>1
    <3>2. d \in {0, n[c]}
      BY DEF n
    <3> QED
      BY <1>1, <2>1, <3>1, <3>2, RoomAfterLeaving
  <2>2. CASE c \in Q /\ c \notin P
    <3>1. Q = P \cup {c} /\ d = 0 /\ u + n[c] <= MaxExchange
      BY <1>2, <2>2 DEF P, Q, u, n
    <3>2. c \in Callers \ P /\ n[c] \in Nat /\ u + d = u
      BY <1>1, <1>4, <2>2, <3>1
    <3>3. Room(u, P \cup {c}, n)
      BY <1>1, <3>1, <3>2, RoomToJoin
    <3> QED
      BY <3>1, <3>2, <3>3
  <2>3. CASE c \in Q <=> c \in P
    <3>1. Q = P
      BY <1>1, <1>2, <2>3
    <3>2. d = 0
      BY <2>3 DEF P, Q
    <3> QED
      BY <1>1, <3>1, <3>2
  <2> QED
    BY <2>1, <2>2, <2>3
<1>8. Room(u + d, Q, m)
  BY <1>2, <1>3, <1>7, SameRoom
<1>9. Room(used[day][e], Pending(e), Amount)' <=> Room(used'[day'][e], Q, m)
  BY DEF Room, Q, m
<1> QED
  BY <1>6, <1>8, <1>9 DEF Room
-----------------------------------------------------------------------------
\* Where nothing changes that the limit is about, it holds as before.
LEMMA SameLimit ==
    ASSUME LimitInv, UNCHANGED <<used, day, pc, order, passed, date, faults>>
    PROVE  ChecksInv' /\ RoomInv'
<1>1. ChecksInv'
  BY DEF LimitInv, ChecksInv, Checked
<1>2. Amount' = Amount /\ \A e \in Exchanges : Pending(e)' = Pending(e)
  BY DEF Amount, Pending, Checked, Overtaken
<1>3. ASSUME NEW e \in Exchanges, faults = 0
      PROVE  Room(used[day][e], Pending(e), Amount)'
  <2>1. Room(used[day][e], Pending(e), Amount)
    BY <1>3 DEF LimitInv, RoomInv
  <2>2. used'[day'][e] = used[day][e] /\ Amount' = Amount /\ Pending(e)' = Pending(e)
    BY <1>2
  <2> QED
    BY <2>1, <2>2 DEF Room
<1> QED
  BY <1>1, <1>3 DEF LimitInv, RoomInv

\* The limit after a step of one caller on one day.
LEMMA LimitAfterAStep ==
    ASSUME faults = 0 => \A d \in 0..1, e \in Exchanges : used[d][e] <= Bound,
           day \in 0..1, day' = day, faults' = 0 => faults = 0,
           \A d \in 0..1 \ {day}, e \in Exchanges : used'[d][e] = used[d][e],
           faults' = 0 => \A e \in Exchanges :
               Room(used[day][e], Pending(e), Amount)' /\ used'[day][e] <= Bound
    PROVE  RoomInv'
<1>1. ASSUME faults' = 0, NEW d \in 0..1, NEW e \in Exchanges
      PROVE  used'[d][e] <= Bound
  BY <1>1
<1>2. (\A d \in 0..1, e \in Exchanges : used[d][e] <= Bound)'
        <=> \A d \in 0..1, e \in Exchanges : used'[d][e] <= Bound
  BY DEF Bound, Number
<1> QED
  BY <1>1, <1>2 DEF RoomInv

\* A new validation has checked the size of its order, and nothing else yet.
LEMMA ValidateBeginsLimit ==
    ASSUME LimitInv, CallersTypeOK', NEW c \in Callers, NEW o \in Order, ValidateBegins(c, o)
    PROVE  ChecksInv' /\ RoomInv'
<1> DEFINE ok == ChecksAtOnce(o)
<1>1. /\ pc[c] = "idle"
      /\ pc' = [pc EXCEPT ![c] = "exchange"] /\ order' = [order EXCEPT ![c] = o]
      /\ passed' = [passed EXCEPT ![c] = ok]
      /\ date' = [date EXCEPT ![c] = day]
      /\ UNCHANGED <<mode, used, day, faults>>
  BY DEF ValidateBegins
<1>2. ok \in BOOLEAN /\ (ok => o.notional <= Largest)
  <2>1. ok => o.notional <= MaxSingle
    BY DEF ChecksAtOnce
  <2>2. o.notional \in Nat
    BY LimitAssumption DEF Order
  <2>3. MaxSingle \in Nat /\ Largest \in Nat /\ MaxSingle <= Largest
    BY LimitAssumption DEF MaxSingle, Largest
  <2>4. ok \in BOOLEAN
    BY DEF ChecksAtOnce
  <2> HIDE DEF ok
  <2> QED
    BY <2>1, <2>2, <2>3, <2>4
<1> HIDE DEF ok
<1>3. \A a \in Callers \ {c} : /\ pc'[a] = pc[a] /\ order'[a] = order[a]
                               /\ passed'[a] = passed[a] /\ date'[a] = date[a]
  BY <1>1 DEF LimitInv, CallersTypeOK
<1>4. /\ pc'[c] = "exchange" /\ order'[c] = o /\ date'[c] = day /\ passed'[c] = ok
      /\ day \in 0..1
  BY <1>1 DEF LimitInv, CallersTypeOK
<1>5. ChecksInv'
  BY <1>1, <1>2, <1>3, <1>4 DEF LimitInv, ChecksInv, Checked
<1>6. \A e \in Exchanges : c \notin Pending(e)'
  BY <1>1, <1>4 DEF Pending, Checked, Overtaken
<1>7. ASSUME faults = 0, NEW e \in Exchanges
      PROVE  Room(used[day][e], Pending(e), Amount)' /\ used'[day][e] <= Bound
  <2>1. used[day][e] \in Nat /\ used'[day][e] = used[day][e] + 0
    BY <1>1, PendingTypes DEF LimitInv
  <2> QED
    BY <1>1, <1>3, <1>6, <1>7, <2>1, RoomAfterAStep
<1>8. RoomInv'
  BY <1>1, <1>4, <1>7, LimitAfterAStep DEF LimitInv, RoomInv
<1> QED
  BY <1>5, <1>8

\* A caller that finds room joins those that are pending, if it is not one of
\* them already.
LEMMA ExchangeAnswersLimit ==
    ASSUME LimitInv, CallersTypeOK', NEW c \in Callers, ExchangeAnswers(c)
    PROVE  ChecksInv' /\ RoomInv'
<1>1. /\ pc[c] = "exchange" /\ pc' = [pc EXCEPT ![c] = "symbol"]
      /\ UNCHANGED <<mode, used, day, order, date>>
  BY DEF ExchangeAnswers
<1>2. /\ order[c] \in Order /\ order[c].notional \in Nat /\ order[c].exchange \in Exchanges
      /\ date[c] \in 0..1 /\ day \in 0..1 /\ date[c] <= day
  BY <1>1, LimitAssumption DEF LimitInv, ChecksInv, CallersTypeOK, Order
<1>3. /\ faults \in Nat /\ (faults' = 0 => faults = 0)
      /\ faults' = 0 => (passed'[c] <=> passed[c] /\ WithinExchange(order[c], date[c]))
  <2>1. faults \in Nat /\ passed \in [Callers -> BOOLEAN]
    BY LimitAssumption DEF LimitInv, CallersTypeOK
  <2>2. CASE ReadWorks /\ passed' = [passed EXCEPT ![c] = @ /\ WithinExchange(order[c], date[c])]
    BY <2>1, <2>2 DEF ReadWorks
  <2>3. CASE ReadFails
    BY <2>1, <2>3 DEF ReadFails
  <2> QED
    BY <2>2, <2>3 DEF ExchangeAnswers, ExchangeRead
<1>4. \A a \in Callers \ {c} : /\ pc'[a] = pc[a] /\ order'[a] = order[a]
                               /\ passed'[a] = passed[a] /\ date'[a] = date[a]
  BY <1>1 DEF ExchangeAnswers, ExchangeRead, LimitInv, CallersTypeOK
<1>5. /\ pc'[c] = "symbol" /\ order'[c] = order[c] /\ date'[c] = date[c]
      /\ day' = day /\ used' = used
  BY <1>1 DEF LimitInv, CallersTypeOK
<1>6. faults' = 0 /\ passed'[c] =>
         /\ order[c].notional <= Largest
         /\ used[date[c]][order[c].exchange] + order[c].notional <= MaxExchange
         /\ order[c].notional <= MaxExchange
  <2>1. used[date[c]][order[c].exchange] \in Nat
    BY <1>2 DEF LimitInv, CallersTypeOK, Keys
  <2> QED
    BY <1>1, <1>2, <1>3, <2>1, LimitTypes DEF WithinExchange, LimitInv, ChecksInv
<1>7. ChecksInv'
  BY <1>1, <1>3, <1>4, <1>5, <1>6 DEF LimitInv, ChecksInv, Checked
<1>8. ASSUME faults' = 0, NEW e \in Exchanges
      PROVE  Room(used[day][e], Pending(e), Amount)' /\ used'[day][e] <= Bound
  <2>1. used[day][e] \in Nat /\ used'[day][e] = used[day][e] + 0
    BY <1>5, PendingTypes DEF LimitInv
  <2>2. c \in Pending(e)' => passed'[c] /\ order[c].exchange = e
    BY <1>5 DEF Pending, Checked, Overtaken
  <2>3. passed'[c] /\ order[c].exchange = e /\ date[c] # day => c \in Pending(e)
    BY <1>1, <1>2, <1>3, <1>6, <1>8 DEF Pending, Overtaken
  <2>4. passed'[c] /\ order[c].exchange = e /\ date[c] = day
           => used[day][e] + Amount[c] <= MaxExchange
    BY <1>6, <1>8 DEF Amount
  <2>5. c \in Pending(e)' => /\ order'[c] = order[c]
                             /\ c \in Pending(e) \/ used[day][e] + Amount[c] <= MaxExchange
    BY <1>5, <2>2, <2>3, <2>4
  <2> QED
    BY <1>3, <1>4, <1>5, <1>8, <2>1, <2>5, RoomAfterAStep
<1>9. RoomInv'
  BY <1>2, <1>3, <1>5, <1>8, LimitAfterAStep DEF LimitInv, RoomInv
<1> QED
  BY <1>7, <1>9

\* A caller that is approved was pending before, and one that is refused leaves.
LEMMA SymbolAnswersLimit ==
    ASSUME LimitInv, CallersTypeOK', NEW c \in Callers, NEW q \in Quote, SymbolAnswers(c, q)
    PROVE  ChecksInv' /\ RoomInv'
<1>1. pc[c] = "symbol" /\ UNCHANGED <<used, day>>
  BY DEF SymbolAnswers
<1>2. faults \in Nat /\ (faults' = 0 => faults = 0)
  BY LimitAssumption DEF SymbolAnswers, ReadWorks, ReadFails, LimitInv, CallersTypeOK
<1>3. PICK ok \in BOOLEAN : Decides(c, ok) /\ (ok => passed[c])
  BY DEF SymbolAnswers, WithinSymbol, MarketOK
<1>4. \A a \in Callers \ {c} : /\ pc'[a] = pc[a] /\ order'[a] = order[a]
                               /\ passed'[a] = passed[a] /\ date'[a] = date[a]
  BY <1>3 DEF Decides, LimitInv, CallersTypeOK
<1>5. /\ pc'[c] = (IF ok THEN "approved" ELSE "idle")
      /\ ok => order'[c] = order[c]
      /\ date'[c] = 0 /\ day \in 0..1
  BY <1>3 DEF Decides, LimitInv, CallersTypeOK
<1>6. ChecksInv'
  BY <1>1, <1>2, <1>3, <1>4, <1>5 DEF LimitInv, ChecksInv, Checked
<1>7. ASSUME faults' = 0, NEW e \in Exchanges
      PROVE  Room(used[day][e], Pending(e), Amount)' /\ used'[day][e] <= Bound
  <2>1. used[day][e] \in Nat /\ used'[day][e] = used[day][e] + 0
    BY <1>1, PendingTypes DEF LimitInv
  <2>2. c \in Pending(e)' => order'[c] = order[c] /\ c \in Pending(e)
    BY <1>1, <1>3, <1>5 DEF Pending, Checked, Overtaken
  <2> QED
    BY <1>1, <1>2, <1>4, <1>7, <2>1, <2>2, RoomAfterAStep
<1>8. RoomInv'
  BY <1>1, <1>2, <1>5, <1>7, LimitAfterAStep DEF LimitInv, RoomInv
<1> QED
  BY <1>6, <1>8

\* An order that is recorded, or given up, is pending no more.
LEMMA EndLimit ==
    ASSUME LimitInv, CallersTypeOK', NEW c \in Callers, Record(c) \/ OnlyValidated(c)
    PROVE  ChecksInv' /\ RoomInv'
<1>1. /\ pc[c] = "approved"
      /\ pc' = [pc EXCEPT ![c] = "idle"] /\ order' = [order EXCEPT ![c] = NoOrder]
      /\ UNCHANGED <<mode, day, passed, date>>
  BY DEF Record, OnlyValidated, Ends
<1>2. /\ order[c] \in Order /\ order[c].notional \in Nat /\ order[c].exchange \in Exchanges
      /\ order[c].symbol \in Symbols /\ day \in 0..1 /\ faults \in Nat
  <2>1. order[c] \in Order /\ day \in 0..1 /\ faults \in 0..MaxFaults
    BY <1>1 DEF LimitInv, CallersTypeOK
  <2>2. faults \in Nat
    BY <2>1, LimitAssumption
  <2>3. /\ order[c].exchange \in Exchanges /\ order[c].symbol \in Symbols
        /\ order[c].notional \in Notionals
    BY <2>1 DEF Order
  <2> QED
    BY <2>1, <2>2, <2>3, LimitAssumption
<1>3. faults' = 0 => faults = 0
  BY <1>2 DEF Record, OnlyValidated, ReadWorks, ReadFails
<1>4. \A a \in Callers \ {c} : /\ pc'[a] = pc[a] /\ order'[a] = order[a]
                               /\ passed'[a] = passed[a] /\ date'[a] = date[a]
  BY <1>1 DEF LimitInv, CallersTypeOK
<1>5. pc'[c] = "idle" /\ day' = day
  BY <1>1 DEF LimitInv, CallersTypeOK
<1>6. \A d \in 0..1 \ {day} : used'[d] = used[d]
  BY DEF Record, OnlyValidated, LimitInv, CallersTypeOK
<1>7. ASSUME NEW e \in Exchanges
      PROVE  \/ used'[day][e] = used[day][e] + 0
             \/ /\ order[c].exchange = e
                /\ used'[day][e] = used[day][e] + order[c].notional
  <2>1. used[day][e] \in Nat /\ e \in Keys /\ e # order[c].symbol /\ e # "total"
    BY <1>2, ScopeAssumption DEF LimitInv, CallersTypeOK, Keys
  <2>2. CASE used' = used
    BY <2>1, <2>2
  <2>3. CASE used' = [used EXCEPT ![day] = [k \in Keys |->
                 IF k \in {order[c].exchange, order[c].symbol, "total"}
                 THEN @[k] + order[c].notional ELSE @[k]]]
    <3>1. used'[day][e] = IF e \in {order[c].exchange, order[c].symbol, "total"}
                          THEN used[day][e] + order[c].notional ELSE used[day][e]
      BY <1>2, <2>1, <2>3 DEF LimitInv, CallersTypeOK
    <3> QED
      BY <2>1, <3>1
  <2> QED
    BY <2>2, <2>3 DEF Record, OnlyValidated
<1>8. ChecksInv'
  <2>1. day = 0 => used'[1] = used[1]
    BY <1>2, <1>6
  <2> QED
    BY <1>1, <1>3, <1>4, <1>5, <2>1 DEF LimitInv, ChecksInv, Checked
<1>9. ASSUME faults' = 0, NEW e \in Exchanges
      PROVE  Room(used[day][e], Pending(e), Amount)' /\ used'[day][e] <= Bound
  <2>1. c \notin Pending(e)'
    BY <1>5 DEF Pending, Checked, Overtaken
  <2>2. Amount[c] = order[c].notional
    BY DEF Amount
  <2>3. order[c].exchange = e => c \in Pending(e)
    BY <1>1, <1>3, <1>9 DEF Pending, Checked, LimitInv, ChecksInv
  <2>4. CASE used'[day][e] = used[day][e] + 0
    BY <1>3, <1>4, <1>5, <1>9, <2>1, <2>4, RoomAfterAStep
  <2>5. CASE order[c].exchange = e /\ used'[day][e] = used[day][e] + Amount[c]
    BY <1>3, <1>4, <1>5, <1>9, <2>1, <2>3, <2>5, RoomAfterAStep
  <2> QED
    BY <1>7, <2>2, <2>4, <2>5
<1>10. RoomInv'
  BY <1>2, <1>3, <1>5, <1>6, <1>9, LimitAfterAStep DEF LimitInv, RoomInv
<1> QED
  BY <1>8, <1>10

\* At midnight the amounts start from nothing; those that are overtaken are
\* pending from then on.
LEMMA MidnightLimit ==
    ASSUME LimitInv, CallersTypeOK', Midnight
    PROVE  ChecksInv' /\ RoomInv'
<1>1. /\ day = 0 /\ day' = 1
      /\ UNCHANGED <<used, pc, order, passed, date, faults>>
  BY DEF Midnight, calls
<1>2. ChecksInv'
  BY <1>1 DEF LimitInv, ChecksInv, Checked, CallersTypeOK
<1>3. ASSUME faults' = 0, NEW e \in Exchanges
      PROVE  Room(used[day][e], Pending(e), Amount)'
  <2>1. used'[day'][e] = 0
    BY <1>1 DEF LimitInv, ChecksInv, Keys
  <2>2. (Pending(e) \in SUBSET Callers /\ Amounts(Pending(e), Amount))'
    <3>1. \A c \in Pending(e)' : order'[c] \in Order
      BY DEF Pending, Checked, Overtaken, CallersTypeOK
    <3>2. \A c \in Pending(e)' : order'[c].notional \in Nat
      BY <3>1, LimitAssumption DEF Order
    <3> QED
      BY <3>2 DEF Amounts, Amount, Pending
  <2>3. Pending(e)' \in SUBSET Callers /\ Amounts(Pending(e)', Amount')
    BY <2>2 DEF Amounts
  <2>4. Room(0, Pending(e)', Amount')
    BY <2>3, RoomAtMidnight
  <2> QED
    BY <2>1, <2>4 DEF Room
<1>4. \A d \in 0..1, e \in Exchanges : faults' = 0 => used'[d][e] <= Bound
  BY <1>1 DEF LimitInv, RoomInv
<1> QED
  BY <1>2, <1>3, <1>4 DEF RoomInv

\* Initially nothing is used and nobody is pending.
LEMMA InitLimit == Init => LimitInv
<1> SUFFICES ASSUME Init
             PROVE  LimitInv
  OBVIOUS
<1>1. CallersTypeOK
  BY LimitAssumption, ConfigAssumption DEF Init, CallersTypeOK, Config
<1>2. ChecksInv
  BY DEF Init, ChecksInv, Checked
<1>3. \A d \in 0..1, e \in Exchanges : used[d][e] = 0
  BY DEF Init, Keys
<1>4. \A e \in Exchanges : Pending(e) = {}
  BY DEF Init, Pending, Checked, Overtaken
<1>5. RoomInv
  BY <1>3, <1>4, LimitTypes DEF RoomInv, Room, Init
<1> QED
  BY <1>1, <1>2, <1>5 DEF LimitInv

\* With k callers the daily amount of an exchange exceeds its limit by at most
\* k - 1 orders, for any number of callers, any limits and any midnight, as long
\* as Redis answers.
\* (live_guardrails.py, validate_pre_order and record_live_order_notional)
THEOREM Overshoot == Spec => []DailyOvershootIsBounded
<1>1. LimitInv /\ [Next]_vars => LimitInv'
  <2>1. SUFFICES ASSUME LimitInv, [Next]_vars
                 PROVE  LimitInv'
    OBVIOUS
  <2>2. CallersTypeOK'
    BY <2>1, StepTypes DEF LimitInv
  <2>3. CASE Operator \/ UNCHANGED vars
    BY <2>1, <2>2, <2>3, SameLimit DEF Operator, vars, calls, LimitInv
  <2>4. CASE \E m \in Choices : SetMode(m)
    BY <2>1, <2>2, <2>4, SameLimit DEF SetMode, calls, LimitInv
  <2>5. ASSUME NEW c \in Callers, CallerNext(c)
        PROVE  LimitInv'
    BY <2>1, <2>2, <2>5, ValidateBeginsLimit, ExchangeAnswersLimit, SymbolAnswersLimit,
       EndLimit DEF CallerNext, LimitInv
  <2>6. CASE Midnight
    BY <2>1, <2>2, <2>6, MidnightLimit DEF LimitInv
  <2> QED
    BY <2>1, <2>3, <2>4, <2>5, <2>6 DEF Next
<1>2. LimitInv => DailyOvershootIsBounded
  BY DEF LimitInv, RoomInv, DailyOvershootIsBounded, Bound, Number
<1> QED
  BY InitLimit, <1>1, <1>2, PTL DEF Spec

-----------------------------------------------------------------------------
(***************************************************************************)
(* The two gates.                                                          *)
(***************************************************************************)

\* The rules on the mode, the switch, the lists and the keys, and the rules on
\* the amounts, follow from the checks of both orders.
LEMMA ChecksCoverRules ==
    ASSUME NEW b \in Order, NEW e \in Exchanges, NEW s, s = [b EXCEPT !.exchange = e],
           mode = config.tradingMode, Enabled(mode),
           ChecksWithoutMarket(b), ChecksWithoutMarket(s)
    PROVE  /\ LiveModeEnabledRule /\ KillSwitchActiveRule /\ ReadOnlyModeBlockRule
           /\ TradingPermissionRule(b, s) /\ CircuitBreakerRule(b, s)
           /\ MaxSingleOrderNotionalLiveRule(b)
           /\ MaxDailyNotionalPerExchangeRule(b, s) /\ MaxDailyNotionalPerSymbolRule(b)
           /\ ExchangeWhitelistRule(b, s) /\ StrategyWhitelistRule(b)
<1>1. /\ s.exchange = e /\ s.symbol = b.symbol
      /\ s.strategy = b.strategy /\ s.notional = b.notional
  BY DEF Order
<1>2. LiveModeEnabledRule /\ KillSwitchActiveRule /\ ReadOnlyModeBlockRule
  BY DEF ChecksWithoutMarket, ChecksAtOnce, CanPlaceOrders, LiveModeEnabledRule,
         KillSwitchActiveRule, ReadOnlyModeBlockRule
<1>3. TradingPermissionRule(b, s) /\ ExchangeWhitelistRule(b, s) /\ StrategyWhitelistRule(b)
  BY DEF ChecksWithoutMarket, ChecksAtOnce, TradingPermissionRule, ExchangeWhitelistRule,
         StrategyWhitelistRule
<1>4. CircuitBreakerRule(b, s)
  BY DEF ChecksWithoutMarket, ChecksAtOnce, CircuitBreakerRule
<1>5. MaxSingleOrderNotionalLiveRule(b)
  BY DEF ChecksWithoutMarket, ChecksAtOnce, MaxSingleOrderNotionalLiveRule, MaxSingle
<1>6. MaxDailyNotionalPerExchangeRule(b, s) /\ MaxDailyNotionalPerSymbolRule(b)
  BY <1>1 DEF ChecksWithoutMarket, WithinExchange, WithinSymbol,
              MaxDailyNotionalPerExchangeRule, MaxDailyNotionalPerSymbolRule
<1> QED
  BY <1>2, <1>3, <1>4, <1>5, <1>6

\* For any settings, lists, limits, breakers and amounts, the rules on an
\* opportunity refuse nothing that the guardrails approve of its two orders.
\* (live_guardrails.py, validate_pre_order, and live_risk_rules.py)
THEOREM Agreement == Spec => []GatesAgree
<1>1. GatesAgree
  <2>1. SUFFICES ASSUME mode = config.tradingMode, Enabled(mode),
                        NEW b \in Order, NEW e \in Exchanges,
                        ChecksWithoutMarket(b), ChecksWithoutMarket([b EXCEPT !.exchange = e]),
                        NEW bq \in Quote, NEW sq \in Quote, MarketOK(bq), MarketOK(sq)
                 PROVE  RulesPass(b, [b EXCEPT !.exchange = e], bq, sq)
    BY DEF GatesAgree
  <2>2. MaxPriceDeviationRule(bq, sq)
    BY <2>1 DEF MarketOK, MaxPriceDeviationRule
  <2> QED
    BY <2>1, <2>2, ChecksCoverRules DEF RulesPass
<1> QED
  BY <1>1, PTL
=============================================================================
