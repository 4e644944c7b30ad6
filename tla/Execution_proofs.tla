--------------------------- MODULE Execution_proofs ---------------------------
(***************************************************************************)
(* Proofs about module Execution, for every quantity and every number of   *)
(* attempts: type correctness, what is promised about the money at every   *)
(* moment of an execution and in its books, how it ends, and that it       *)
(* implements the safety part of module ExecutionLifecycle.                *)
(***************************************************************************)
EXTENDS Execution, TLAPS

(***************************************************************************)
(* Lemmas about the state machines.                                        *)
(***************************************************************************)

\* The states of the two maps, spelled out.
LEMMA MapDomains ==
    /\ ExecutionStates = {"CREATED", "RISK_CHECKING", "RISK_REJECTED", "READY",
                          "EXECUTING", "PARTIALLY_FILLED", "HEDGING",
                          "COMPLETED", "FAILED", "ABORTED"}
    /\ LegStates = {"PENDING", "SUBMITTING", "SUBMITTED", "PARTIAL_FILLED",
                    "FILLED", "CANCELLED", "FAILED", "HEDGED", "ABORTED"}
  BY DEF ExecutionStates, LegStates, ExecutionTransitions, LegTransitions

\* A tried transition to a known state ends in a known state.
LEMMA TryStaysInMap ==
    ASSUME NEW map, NEW S, NEW s \in S, NEW t \in S
    PROVE  Try(map, s, t) \in S
  BY DEF Try

\* Processing a leg's result leaves its machine in a known state.
LEMMA LegAfterType ==
    ASSUME NEW s \in LegStates, NEW status
    PROVE  LegAfter(s, status) \in LegStates
<1>1. \A u \in LegStates, t \in LegStates : LegTry(u, t) \in LegStates
  BY TryStaysInMap DEF LegTry
<1>2. /\ "SUBMITTED" \in LegStates /\ "FILLED" \in LegStates
      /\ "PARTIAL_FILLED" \in LegStates /\ "FAILED" \in LegStates
      /\ "CANCELLED" \in LegStates
  BY MapDomains
<1>3. LegTry(s, "SUBMITTED") \in LegStates
  BY <1>1, <1>2
<1>4. \A t \in {"FILLED", "PARTIAL_FILLED", "FAILED", "CANCELLED"} :
        LegTry(LegTry(s, "SUBMITTED"), t) \in LegStates
  BY <1>1, <1>2, <1>3
<1> QED
  BY <1>2, <1>4, Zenon DEF LegAfter

\* Processing the engine's result leaves the execution's machine in a known
\* state, or without a machine if there was none.
LEMMA ExecutionAfterType ==
    ASSUME NEW s \in ExecutionStates \cup {"NONE"}, NEW state
    PROVE  ExecutionAfter(s, state) \in ExecutionStates \cup {"NONE"}
  BY MapDomains DEF ExecutionAfter, ExecutionTry, Try

\* The legs and orders, one by one.
LEMMA Indices == /\ LegIds = {0, 1, 2} /\ Orders = {0, 1, 2, 3}
                 /\ Buy = 0 /\ Sell = 1 /\ Hedge = 3
  BY DEF LegIds, Orders, Buy, Sell, Hedge

-----------------------------------------------------------------------------
(***************************************************************************)
(* Lemmas about the exchange's answers.                                    *)
(***************************************************************************)

\* An answer reports nothing, or the latest decision about the order.
LEMMA AnswerFacts ==
    ASSUME NEW o \in Orders, EngineTypeOK, NEW a \in TimedAnswers(o)
    PROVE  /\ a.qty \in Nat
           /\ a.qty <= order[o].last
           /\ LegStatus(a) \in {"FILLED", "PARTIAL_FILLED", "FAILED"}
           /\ LegError(a) \in LegErrors
<1>1. order[o].last \in Nat
  BY DEF EngineTypeOK, OrderRecords
<1>2. a.qty \in {0, order[o].last}
  BY DEF TimedAnswers, Answers
<1>3. LegStatus(a) \in {"FILLED", "PARTIAL_FILLED", "FAILED"}
  BY DEF LegStatus
<1>4. LegError(a) \in LegErrors
  BY DEF LegError, LegErrors
<1> QED
  BY <1>1, <1>2, <1>3, <1>4

\* A leg that has been answered is a leg record.
LEMMA SettledType ==
    ASSUME NEW l \in LegIds, EngineTypeOK, NEW a \in TimedAnswers(l),
           NEW s \in {"FILLED", "PARTIAL_FILLED", "FAILED"}
    PROVE  /\ Settled(l, s, a) \in LegRecords
           /\ Settled(l, s, a).actual = a.qty
           /\ Settled(l, s, a).status = s
           /\ Settled(l, s, a).planned = leg[l].planned
<1>1. l \in Orders
  BY DEF Orders
<1>2. a.qty \in Nat /\ LegError(a) \in LegErrors
  BY <1>1, AnswerFacts
<1>3. leg[l] \in LegRecords
  BY DEF EngineTypeOK
<1> QED
  BY <1>2, <1>3 DEF Settled, LegRecords, LegStatuses

\* A first request is an order record.
LEMMA SentType ==
    ASSUME NEW side \in {"BUY", "SELL"}, NEW q \in Nat
    PROVE  Sent(side, q) \in OrderRecords
  BY DEF Sent, OrderRecords

-----------------------------------------------------------------------------
(***************************************************************************)
(* Type correctness.                                                       *)
(***************************************************************************)

\* Every step of the exchanges keeps the types.
LEMMA ExchangeKeepsTypes ==
    ASSUME EngineTypeOK, ExchangeStep
    PROVE  EngineTypeOK'
<1>1. ASSUME NEW o \in Orders, Decide(o)
      PROVE  EngineTypeOK'
  <2>1. order[o] \in OrderRecords
    BY DEF EngineTypeOK
  <2>2. PICK q \in 0..order[o].qty : order' = [order EXCEPT ![o] = Decided(@, q)]
    BY <1>1 DEF Decide
  <2>3. q \in Nat /\ order[o].outstanding - order[o].qty \in Nat
    BY <1>1, <2>1 DEF Decide, OrderRecords
  <2>4. Decided(order[o], q) \in OrderRecords
    BY <2>1, <2>3 DEF Decided, OrderRecords
  <2>5. order' \in [Orders -> OrderRecords]
    BY <2>2, <2>4 DEF EngineTypeOK
  <2> QED
    BY <1>1, <2>5 DEF Decide, EngineTypeOK
<1>2. ASSUME NEW o \in Orders, Resend(o)
      PROVE  EngineTypeOK'
  <2>1. order[o] \in OrderRecords
    BY DEF EngineTypeOK
  <2>2. SentAgain(order[o]) \in OrderRecords
    BY <2>1 DEF SentAgain, OrderRecords
  <2>3. order' \in [Orders -> OrderRecords]
    BY <1>2, <2>2 DEF Resend, EngineTypeOK
  <2> QED
    BY <1>2, <2>3 DEF Resend, EngineTypeOK
<1> QED
  BY <1>1, <1>2 DEF ExchangeStep

\* A planned leg and a canceled leg are leg records.
LEMMA PlannedType ==
    ASSUME NEW q \in Nat
    PROVE  PlannedLeg(q) \in LegRecords
  BY DEF PlannedLeg, LegRecords, LegStatuses, LegErrors

\* A cancelled leg is a leg record.
LEMMA CanceledType ==
    ASSUME EngineTypeOK, NEW l \in LegIds
    PROVE  Canceled(l) \in LegRecords
<1>1. leg[l] \in LegRecords
  BY DEF EngineTypeOK
<1> QED
  BY <1>1 DEF Canceled, LegRecords, LegStatuses

\* What the engine takes as the matched quantity and as the excess.
LEMMA QuantityTypes ==
    ASSUME EngineTypeOK
    PROVE  /\ MatchedQty \in Nat
           /\ Excess \in Int
           /\ MatchedQty <= leg[Buy].actual
           /\ MatchedQty <= leg[Sell].actual
           /\ Excess <= leg[Buy].actual
           /\ -Excess <= leg[Sell].actual
<1>1. leg[Buy].actual \in Nat /\ leg[Sell].actual \in Nat
  BY Indices DEF EngineTypeOK, LegRecords
<1> QED
  BY <1>1 DEF MatchedQty, Lesser, Excess, ReportedFill

\* Every step of the engine keeps the types.
LEMMA EngineKeepsTypes ==
    ASSUME EngineTypeOK, EngineStep
    PROVE  EngineTypeOK'
<1> USE Indices, QtyAssumption
<1>1. CASE AdapterMissing
  BY <1>1 DEF AdapterMissing, EngineTypeOK, Outcome, ResultRecords, Phases
<1>2. CASE PlaceCrossExchange
  <2>1. PlannedLeg(Qty) \in LegRecords
    BY PlannedType
  <2>2. Sent("BUY", Qty) \in OrderRecords /\ Sent("SELL", Qty) \in OrderRecords
    BY SentType
  <2>3. leg' \in [LegIds -> LegRecords] /\ order' \in [Orders -> OrderRecords]
    BY <1>2, <2>1, <2>2 DEF PlaceCrossExchange, EngineTypeOK
  <2> QED
    BY <1>2, <2>3 DEF PlaceCrossExchange, EngineTypeOK, Outcome, ResultRecords, Phases
<1>3. CASE PlaceTriangular
  <2>1. PlannedLeg(Qty) \in LegRecords
    BY PlannedType
  <2>2. Sent(TriangularSide[0], Qty) \in OrderRecords
    BY SentType DEF TriangularSide
  <2>3. leg' \in [LegIds -> LegRecords] /\ order' \in [Orders -> OrderRecords]
    BY <1>3, <2>1, <2>2 DEF PlaceTriangular, EngineTypeOK
  <2> QED
    BY <1>3, <2>3 DEF PlaceTriangular, EngineTypeOK, Outcome, ResultRecords, Phases
<1>4. ASSUME NEW l \in {Buy, Sell}, CrossLegReturns(l)
      PROVE  EngineTypeOK'
  <2>1. PICK a \in TimedAnswers(l) :
          leg' = [leg EXCEPT ![l] = Settled(l, LegStatus(a), a)]
    BY <1>4 DEF CrossLegReturns
  <2>2. LegStatus(a) \in {"FILLED", "PARTIAL_FILLED", "FAILED"}
    BY AnswerFacts
  <2>3. Settled(l, LegStatus(a), a) \in LegRecords
    BY <2>2, SettledType
  <2>4. leg' \in [LegIds -> LegRecords]
    BY <2>1, <2>3 DEF EngineTypeOK
  <2> QED
    BY <1>4, <2>4 DEF CrossLegReturns, EngineTypeOK
<1>5. ASSUME NEW l \in LegIds, TriangularLegFills(l)
      PROVE  EngineTypeOK'
  <2>1. PICK a \in TimedAnswers(l) :
          /\ a.status \in {"FILLED", "PARTIALLY_FILLED"}
          /\ IF l < 2
             THEN /\ leg' = [leg EXCEPT ![l] = Settled(l, "FILLED", a),
                                        ![l + 1] = PlannedLeg(a.qty)]
                  /\ order' = [order EXCEPT
                                 ![l + 1] = Sent(TriangularSide[l + 1], a.qty)]
                  /\ UNCHANGED <<phase, result>>
             ELSE /\ leg' = [leg EXCEPT ![l] = Settled(l, "FILLED", a)]
                  /\ result' = Outcome("COMPLETED", "", 0)
                  /\ phase' = "booking"
                  /\ UNCHANGED order
    BY <1>5 DEF TriangularLegFills, NextQty
  <2>2. Settled(l, "FILLED", a) \in LegRecords
    BY SettledType
  <2>3. a.qty \in Nat
    BY AnswerFacts
  <2>4. PlannedLeg(a.qty) \in LegRecords
    BY <2>3, PlannedType
  <2>5. leg' \in [LegIds -> LegRecords]
    BY <2>1, <2>2, <2>4 DEF EngineTypeOK
  <2>6. order' \in [Orders -> OrderRecords]
    <3>1. CASE l < 2
      <4>1. Sent(TriangularSide[l + 1], a.qty) \in OrderRecords
        BY <3>1, <2>3, SentType DEF TriangularSide
      <4> QED
        BY <2>1, <3>1, <4>1 DEF EngineTypeOK
    <3>2. CASE ~(l < 2)
      BY <2>1, <3>2 DEF EngineTypeOK
    <3> QED
      BY <3>1, <3>2
  <2>7. Outcome("COMPLETED", "", 0) \in ResultRecords
    BY DEF Outcome, ResultRecords
  <2>8. phase' \in Phases /\ result' \in ResultRecords
    BY <2>1, <2>7 DEF EngineTypeOK, Phases
  <2> QED
    BY <1>5, <2>5, <2>6, <2>8 DEF TriangularLegFills, NextQty, EngineTypeOK
<1>6. ASSUME NEW l \in LegIds, TriangularLegFails(l)
      PROVE  EngineTypeOK'
  <2>1. PICK a \in TimedAnswers(l) :
          leg' = [k \in LegIds |-> IF k = l THEN Settled(l, "FAILED", a)
                                   ELSE IF k > l THEN Canceled(k) ELSE leg[k]]
    BY <1>6 DEF TriangularLegFails
  <2>2. Settled(l, "FAILED", a) \in LegRecords
    BY SettledType
  <2>3. \A k \in LegIds : Canceled(k) \in LegRecords
    BY CanceledType
  <2>4. leg' \in [LegIds -> LegRecords]
    BY <2>1, <2>2, <2>3 DEF EngineTypeOK
  <2> QED
    BY <1>6, <2>4 DEF TriangularLegFails, EngineTypeOK, Outcome, ResultRecords, Phases
<1>7. CASE BothFilled
  BY <1>7, QuantityTypes
     DEF BothFilled, EngineTypeOK, Outcome, ResultRecords, Phases
<1>8. CASE BothFailed
  BY <1>8 DEF BothFailed, EngineTypeOK, Outcome, ResultRecords, Phases
<1>9. ASSUME NEW f \in {Buy, Sell}, NEW g \in {Buy, Sell},
             NEW side \in {"BUY", "SELL"}, PlaceSingleHedge(f, g, side)
      PROVE  EngineTypeOK'
  <2>1. leg[f].actual \in Nat
    BY DEF EngineTypeOK, LegRecords
  <2>2. Sent(side, leg[f].actual) \in OrderRecords
    BY <2>1, SentType
  <2>3. order' \in [Orders -> OrderRecords]
    BY <1>9, <2>2 DEF PlaceSingleHedge, EngineTypeOK
  <2> QED
    BY <1>9, <2>3 DEF PlaceSingleHedge, EngineTypeOK, Outcome, ResultRecords, Phases
<1>10. CASE OneFailed
  BY <1>9, <1>10 DEF OneFailed
<1>11. CASE SingleHedgeReturns
  <2>1. /\ Outcome("COMPLETED", "hedged", 0) \in ResultRecords
        /\ Outcome("FAILED", "hedge failed", 0) \in ResultRecords
    BY DEF Outcome, ResultRecords
  <2>2. result' \in ResultRecords
    BY <1>11, <2>1 DEF SingleHedgeReturns
  <2> QED
    BY <1>11, <2>2 DEF SingleHedgeReturns, EngineTypeOK, Phases
<1>12. CASE PlacePartialHedge
  <2>1. Excess \in Int
    BY QuantityTypes
  <2>2. (IF Excess > 0 THEN Sent("SELL", Excess) ELSE Sent("BUY", -Excess))
           \in OrderRecords
    <3>1. CASE Excess > 0
      BY <2>1, <3>1, SentType
    <3>2. CASE ~(Excess > 0)
      <4>1. -Excess \in Nat
        BY <2>1, <3>2
      <4> QED
        BY <3>2, <4>1, SentType
    <3> QED
      BY <3>1, <3>2
  <2>3. order' \in [Orders -> OrderRecords]
    BY <1>12, <2>2 DEF PlacePartialHedge, ReverseExcess, EngineTypeOK
  <2> QED
    BY <1>12, <2>3 DEF PlacePartialHedge, ReverseExcess, EngineTypeOK, Outcome, ResultRecords, Phases
<1>13. CASE KeepPartial
  BY <1>13, QuantityTypes
     DEF KeepPartial, AcceptPartial, EngineTypeOK, Outcome, ResultRecords, Phases
<1>14. CASE PartialHedgeReturns
  BY <1>14, QuantityTypes
     DEF PartialHedgeReturns, AcceptPartial, EngineTypeOK, Outcome, ResultRecords, Phases
<1>15. CASE Book
  BY <1>15 DEF Book, EngineTypeOK, Phases
<1> QED
  BY <1>1, <1>2, <1>3, <1>4, <1>5, <1>6, <1>7, <1>8, <1>10, <1>11, <1>12, <1>13,
     <1>14, <1>15 DEF EngineStep

\* An execution starts in a state of the right types.
LEMMA InitTypes ==
    ASSUME Init
    PROVE  TypeOK
<1> USE Indices
<1>1. AbsentLeg \in LegRecords
  BY DEF AbsentLeg, LegRecords, LegStatuses, LegErrors
<1>2. NoOrder \in OrderRecords
  BY DEF NoOrder, OrderRecords
<1>3. Outcome("PENDING", "", 0) \in ResultRecords
  BY DEF Outcome, ResultRecords
<1>4. EngineTypeOK
  BY <1>1, <1>2, <1>3 DEF Init, EngineInit, EngineTypeOK, Phases
<1>5. legSm \in [LegIds -> LegStates]
  BY MapDomains DEF Init
<1>6. planQty \in 0..Qty
  BY PlanAssumption DEF Init
<1> QED
  BY <1>4, <1>5, <1>6 DEF Init, TypeOK

\* What the coordinator sends to the alert service are alert types.
LEMMA AlertsType ==
    ASSUME NEW a \in PostExecutionAlerts
    PROVE  a \subseteq AlertTypes
<1>1. PICK m \in MoneyAlerts : a = StateAlerts \cup m
  BY DEF PostExecutionAlerts
<1>2. m \subseteq {"NEGATIVE_PNL", "HIGH_SLIPPAGE"}
  BY DEF MoneyAlerts
<1>3. StateAlerts \subseteq {"EXECUTION_FAILED", "EXECUTION_HEDGING"}
  BY DEF StateAlerts
<1> QED
  BY <1>1, <1>2, <1>3 DEF AlertTypes

\* Every step of the coordinator keeps the types.
LEMMA CoordinatorKeepsTypes ==
    ASSUME TypeOK, CoordinatorStep
    PROVE  TypeOK'
<1> USE Indices
<1>1. CASE PlanFails
  <2>1. result' \in ResultRecords
    BY <1>1 DEF PlanFails, Outcome, ResultRecords
  <2> QED
    BY <1>1, <2>1 DEF PlanFails, TypeOK, EngineTypeOK
<1>2. CASE RiskRejects
  <2>1. result' \in ResultRecords
    BY <1>2 DEF RiskRejects, Outcome, ResultRecords
  <2>2. sm' \in ExecutionStates
    BY <1>2, MapDomains DEF RiskRejects
  <2> QED
    BY <1>2, <2>1, <2>2 DEF RiskRejects, TypeOK, EngineTypeOK
<1>3. CASE Launch
  <2>1. \A l \in LegIds : Try(LegTransitions, legSm[l], "SUBMITTING") \in LegStates
    <3>1. "SUBMITTING" \in LegStates
      BY MapDomains
    <3>2. \A l \in LegIds : legSm[l] \in LegStates
      BY DEF TypeOK
    <3> QED
      BY <3>1, <3>2, TryStaysInMap
  <2>2. legSm' \in [LegIds -> LegStates]
    BY <1>3, <2>1 DEF Launch, TypeOK
  <2>3. sm' \in ExecutionStates
    BY <1>3, MapDomains DEF Launch
  <2>4. EngineTypeOK'
    BY <1>3 DEF Launch, Invoke, TypeOK, EngineTypeOK, Phases
  <2> QED
    BY <1>3, <2>2, <2>3, <2>4 DEF Launch, TypeOK
<1>4. CASE ProcessResult
  <2>1. legSm' \in [LegIds -> LegStates]
    BY <1>4, LegAfterType DEF ProcessResult, TypeOK
  <2>2. sm' \in ExecutionStates \cup {"NONE"}
    BY <1>4, ExecutionAfterType DEF ProcessResult, TypeOK
  <2> QED
    BY <1>4, <2>1, <2>2 DEF ProcessResult, TypeOK, EngineTypeOK, engineVars
<1>5. CASE Conclude
  <2>1. alerts' \subseteq AlertTypes
    BY <1>5, AlertsType DEF Conclude
  <2> QED
    BY <1>5, <2>1 DEF Conclude, TypeOK, EngineTypeOK, engineVars
<1> QED
  BY <1>1, <1>2, <1>3, <1>4, <1>5 DEF CoordinatorStep

\* Every step, and every stuttering step, keeps the types.
LEMMA NextKeepsTypes ==
    ASSUME TypeOK, [Next]_vars
    PROVE  TypeOK'
<1>1. CASE CoordinatorStep
  BY <1>1, CoordinatorKeepsTypes
<1>2. CASE EngineStep /\ UNCHANGED coordinatorVars
  <2>1. EngineTypeOK'
    BY <1>2, EngineKeepsTypes DEF TypeOK
  <2> QED
    BY <1>2, <2>1 DEF TypeOK, coordinatorVars
<1>3. CASE ExchangeStep /\ UNCHANGED coordinatorVars
  <2>1. EngineTypeOK'
    BY <1>3, ExchangeKeepsTypes DEF TypeOK
  <2> QED
    BY <1>3, <2>1 DEF TypeOK, coordinatorVars
<1>4. CASE UNCHANGED vars
  BY <1>4 DEF vars, engineVars, coordinatorVars, TypeOK, EngineTypeOK
<1> QED
  BY <1>1, <1>2, <1>3, <1>4 DEF Next

\* Type correctness: in every state of every execution, for every quantity and
\* every number of attempts, the variables hold what the code's dataclasses,
\* state maps and alert types allow.
THEOREM TypeCorrect == Spec => []TypeOK
<1>1. Init => TypeOK
  BY InitTypes
<1>2. TypeOK /\ [Next]_vars => TypeOK'
  BY NextKeepsTypes
<1> QED
  BY <1>1, <1>2, PTL DEF Spec

-----------------------------------------------------------------------------
(***************************************************************************)
(* The inductive invariant EngineInv.                                      *)
(***************************************************************************)

\* The numbers of a leg and of an order that are new, field by field.
LEMMA NewRecords ==
    /\ AbsentLeg.actual = 0
    /\ \A q : PlannedLeg(q).actual = 0 /\ PlannedLeg(q).status = "PENDING"
    /\ NoOrder.filled = 0 /\ NoOrder.qty = 0 /\ NoOrder.side = "NONE"
    /\ NoOrder.asked = 0 /\ NoOrder.outstanding = 0 /\ NoOrder.last = 0
    /\ \A side, q : /\ Sent(side, q).side = side /\ Sent(side, q).qty = q
                    /\ Sent(side, q).asked = q /\ Sent(side, q).outstanding = q
                    /\ Sent(side, q).filled = 0 /\ Sent(side, q).last = 0
  BY DEF AbsentLeg, PlannedLeg, NoOrder, Sent

\* The invariant holds before anything is ordered.
LEMMA InitInv ==
    ASSUME Init
    PROVE  EngineInv
<1> USE Indices
<1>1. /\ strategy \in {Cross, Tri} /\ phase = "idle"
      /\ \A l \in LegIds : leg[l] = AbsentLeg
      /\ \A o \in Orders : order[o] = NoOrder
      /\ result.pnlQty = 0
  BY DEF Init, EngineInit, Outcome
<1>2. Untouched
  BY <1>1 DEF Untouched
<1>3. Accounts
  BY <1>1 DEF Accounts, NoOrder
<1>4. BeliefIsConservative
  <2>1. \A l \in LegIds : leg[l].actual = 0
    BY <1>1, NewRecords
  <2>2. \A l \in LegIds : order[l].filled = 0
    BY <1>1, NewRecords
  <2> QED
    BY <2>1, <2>2 DEF BeliefIsConservative
<1>5. HedgeReversesFill /\ InSequence
  BY <1>1, QtyAssumption DEF HedgeReversesFill, InSequence, NoOrder
<1>6. CarriesOnlyFills /\ BookedQuantityWasTraded
  BY <1>1 DEF CarriesOnlyFills, BookedQuantityWasTraded, NoOrder
<1> QED
  BY <1>2, <1>3, <1>4, <1>5, <1>6 DEF EngineInv

\* The numbers of a leg and of an order are natural numbers.
LEMMA Numbers ==
    ASSUME EngineTypeOK
    PROVE  /\ \A l \in LegIds : leg[l].actual \in Nat
           /\ \A o \in Orders : /\ order[o].qty \in Nat
                                /\ order[o].sent \in Nat
                                /\ order[o].asked \in Nat
                                /\ order[o].outstanding \in Nat
                                /\ order[o].filled \in Nat
                                /\ order[o].last \in Nat
           /\ result.pnlQty \in Nat
  BY DEF EngineTypeOK, LegRecords, OrderRecords, ResultRecords

\* A step that touches neither a leg nor an order keeps the invariant, if it
\* goes on to a later phase and books at most what both legs report.
LEMMA BookingStep ==
    ASSUME EngineTypeOK, EngineInv, UNCHANGED <<strategy, leg, order>>,
           \/ phase' = phase
           \/ phase = "idle" /\ phase' = "started"
           \/ phase' \in {"booking", "done"},
           result'.pnlQty \in {0, result.pnlQty, MatchedQty}
    PROVE  EngineInv'
<1> USE Indices
<1>1. Untouched' /\ Accounts' /\ BeliefIsConservative'
  BY DEF EngineInv, Untouched, Accounts, BeliefIsConservative
<1>2. InSequence' /\ CarriesOnlyFills'
  BY DEF EngineInv, InSequence, CarriesOnlyFills
<1>3. HedgeReversesFill'
  <2>1. CASE phase = "idle" /\ phase' = "started"
    <3>1. order[Hedge].side = "NONE"
      BY <2>1 DEF EngineInv, Untouched, NoOrder
    <3> QED
      BY <2>1, <3>1 DEF EngineInv, HedgeReversesFill
  <2>2. CASE ~(phase = "idle" /\ phase' = "started")
    BY <2>2 DEF EngineInv, HedgeReversesFill
  <2> QED
    BY <2>1, <2>2
<1>4. BookedQuantityWasTraded'
  <2>1. \A l \in {Buy, Sell} : MatchedQty <= leg[l].actual /\ MatchedQty \in Nat
    BY QuantityTypes
  <2>2. \A l \in {Buy, Sell} : leg[l].actual <= order[l].filled
    BY DEF EngineInv, BeliefIsConservative
  <2>3. \A l \in {Buy, Sell} : leg[l].actual \in Nat /\ order[l].filled \in Nat
    BY Numbers
  <2>4. \A l \in {Buy, Sell} : MatchedQty <= order[l].filled
    BY <2>1, <2>2, <2>3
  <2> QED
    BY <2>3, <2>4 DEF EngineInv, BookedQuantityWasTraded
<1> QED
  BY <1>1, <1>2, <1>3, <1>4 DEF EngineInv

\* The exchanges keep it: a decision fills no more than its request, and a
\* repeated request asks again for the same quantity.
LEMMA ExchangeKeepsInv ==
    ASSUME EngineTypeOK, EngineInv, ExchangeStep
    PROVE  EngineInv'
<1> USE Indices
<1>1. PICK o \in Orders : Decide(o) \/ Resend(o)
  BY DEF ExchangeStep
<1>2. UNCHANGED <<strategy, phase, leg, result>>
  BY <1>1 DEF Decide, Resend
<1>3. /\ order[o].qty \in Nat /\ order[o].asked \in Nat
      /\ order[o].outstanding \in Nat /\ order[o].filled \in Nat
      /\ order[o].last \in Nat /\ order[o].sent \in Nat
  BY Numbers
<1>4. order[o] # NoOrder
  BY <1>1 DEF Decide, Resend, NoOrder
<1>5. PICK r : /\ order' = [order EXCEPT ![o] = r]
               /\ r.side = order[o].side /\ r.qty = order[o].qty
               /\ r.filled >= order[o].filled /\ r.filled \in Nat
               /\ r.filled + r.outstanding <= r.asked
               /\ r.last <= r.filled /\ r.qty <= r.asked
  <2>1. /\ order[o].filled + order[o].outstanding <= order[o].asked
        /\ order[o].last <= order[o].filled
        /\ order[o].qty <= order[o].asked
    BY DEF EngineInv, Accounts
  <2>2. CASE Decide(o)
    <3>1. PICK q \in 0..order[o].qty : order' = [order EXCEPT ![o] = Decided(@, q)]
      BY <2>2 DEF Decide
    <3>2. order' = [order EXCEPT ![o] = Decided(order[o], q)]
      BY <3>1 DEF EngineTypeOK
    <3>3. q \in Nat /\ q <= order[o].qty
      BY <1>3, <3>1
    <3>4. LET r == Decided(order[o], q)
          IN  /\ r.side = order[o].side /\ r.qty = order[o].qty
              /\ r.filled >= order[o].filled /\ r.filled \in Nat
              /\ r.filled + r.outstanding <= r.asked
              /\ r.last <= r.filled /\ r.qty <= r.asked
      BY <1>3, <2>1, <3>3 DEF Decided
    <3> QED
      BY <3>2, <3>4
  <2>3. CASE Resend(o)
    <3>1. order' = [order EXCEPT ![o] = SentAgain(order[o])]
      BY <2>3 DEF Resend, EngineTypeOK
    <3>2. LET r == SentAgain(order[o])
          IN  /\ r.side = order[o].side /\ r.qty = order[o].qty
              /\ r.filled >= order[o].filled /\ r.filled \in Nat
              /\ r.filled + r.outstanding <= r.asked
              /\ r.last <= r.filled /\ r.qty <= r.asked
      BY <1>3, <2>1 DEF SentAgain
    <3> QED
      BY <3>1, <3>2
  <2> QED
    BY <1>1, <2>2, <2>3
<1>6. /\ order'[o] = r
      /\ \A p \in Orders : p # o => order'[p] = order[p]
  BY <1>5 DEF EngineTypeOK
<1>7. \A p \in Orders : /\ order'[p].side = order[p].side
                        /\ order'[p].qty = order[p].qty
                        /\ order'[p].filled >= order[p].filled
                        /\ order'[p].filled \in Nat
                        /\ order[p].filled \in Nat /\ order[p].qty \in Nat
  BY <1>5, <1>6, Numbers
<1>8. Untouched'
  BY <1>2, <1>4 DEF EngineInv, Untouched
<1>9. Accounts'
  <2>1. order[o].side # "NONE"
    BY <1>4 DEF EngineInv, Accounts
  <2>2. r.side # "NONE"
    BY <1>5, <2>1
  <2> QED
    BY <1>5, <1>6, <2>2 DEF EngineInv, Accounts
<1>10. BeliefIsConservative'
  <2>1. \A l \in LegIds : leg[l].actual <= order[l].filled /\ leg[l].actual \in Nat
    BY Numbers DEF EngineInv, BeliefIsConservative
  <2> QED
    BY <1>2, <1>7, <2>1 DEF BeliefIsConservative
<1>11. HedgeReversesFill'
  BY <1>2, <1>7 DEF EngineInv, HedgeReversesFill
<1>12. InSequence'
  BY <1>2, <1>7 DEF EngineInv, InSequence
<1>13. CarriesOnlyFills'
  <2>1. strategy = Tri => \A l \in {1, 2} : order[l].qty <= order[l - 1].filled
    BY DEF EngineInv, CarriesOnlyFills
  <2> QED
    BY <1>2, <1>7, <2>1 DEF CarriesOnlyFills
<1>14. BookedQuantityWasTraded'
  <2>1. strategy = Cross => \A l \in {Buy, Sell} : result.pnlQty <= order[l].filled
    BY DEF EngineInv, BookedQuantityWasTraded
  <2> QED
    BY <1>2, <1>7, <2>1, Numbers DEF BookedQuantityWasTraded
<1> QED
  BY <1>8, <1>9, <1>10, <1>11, <1>12, <1>13, <1>14 DEF EngineInv

\* The answer to a leg's order reports no more than the exchange filled.
LEMMA AnswerIsConservative ==
    ASSUME EngineTypeOK, EngineInv, NEW o \in Orders, NEW a \in TimedAnswers(o)
    PROVE  a.qty \in Nat /\ a.qty <= order[o].filled
<1>1. a.qty \in Nat /\ a.qty <= order[o].last
  BY AnswerFacts
<1>2. order[o].last <= order[o].filled
  BY DEF EngineInv, Accounts
<1> QED
  BY <1>1, <1>2, Numbers

\* The first requests of a cross-exchange execution.
LEMMA PlaceCrossKeepsInv ==
    ASSUME EngineTypeOK, EngineInv, PlaceCrossExchange
    PROVE  EngineInv'
<1> USE Indices
<1>1. /\ phase' = "legs" /\ strategy = Cross /\ strategy' = Cross
      /\ result'.pnlQty = 0
  BY DEF PlaceCrossExchange, Outcome
<1>2. /\ \A l \in LegIds : leg[l] = AbsentLeg
      /\ \A o \in Orders : order[o] = NoOrder
  BY DEF EngineInv, Untouched, PlaceCrossExchange
<1>3. /\ order'[Buy] = Sent("BUY", Qty) /\ order'[Sell] = Sent("SELL", Qty)
      /\ order'[2] = NoOrder /\ order'[Hedge] = NoOrder
  <2>1. /\ order[2] = NoOrder /\ order[Hedge] = NoOrder
        /\ DOMAIN order = {0, 1, 2, 3}
    BY <1>2 DEF EngineTypeOK
  <2>2. order' = [order EXCEPT ![Buy]  = Sent("BUY", Qty), ![Sell] = Sent("SELL", Qty)]
    BY DEF PlaceCrossExchange
  <2> QED
    BY <2>1, <2>2
<1>4. \A l \in LegIds : leg'[l].actual = 0
  <2>1. \A l \in LegIds : leg'[l] \in {AbsentLeg, PlannedLeg(Qty)}
    BY <1>2 DEF PlaceCrossExchange, EngineTypeOK
  <2> QED
    BY <2>1, NewRecords
<1>5. Untouched'
  BY <1>1 DEF Untouched
<1>6. Accounts'
  BY <1>3, QtyAssumption DEF Accounts, Sent, NoOrder
<1>7. \A o \in Orders : order'[o].filled = 0
  BY <1>3 DEF Sent, NoOrder
<1>8. BeliefIsConservative'
  BY <1>4, <1>7 DEF BeliefIsConservative
<1>9. HedgeReversesFill'
  BY <1>1, <1>3, QtyAssumption DEF HedgeReversesFill, Sent, NoOrder
<1>10. InSequence' /\ CarriesOnlyFills'
  BY <1>1 DEF InSequence, CarriesOnlyFills, Cross, Tri
<1>11. BookedQuantityWasTraded'
  BY <1>1, <1>7 DEF BookedQuantityWasTraded
<1> QED
  BY <1>5, <1>6, <1>8, <1>9, <1>10, <1>11 DEF EngineInv

\* The first request of a triangular execution.
LEMMA PlaceTriKeepsInv ==
    ASSUME EngineTypeOK, EngineInv, PlaceTriangular
    PROVE  EngineInv'
<1> USE Indices
<1>1. phase' = "legs" /\ strategy = Tri /\ strategy' = Tri
  BY DEF PlaceTriangular
<1>2. \A o \in Orders : order[o] = NoOrder
  BY DEF EngineInv, Untouched, PlaceTriangular
<1>3. /\ order'[0] = Sent(TriangularSide[0], Qty)
      /\ order'[1] = NoOrder /\ order'[2] = NoOrder /\ order'[3] = NoOrder
  <2>1. /\ order[1] = NoOrder /\ order[2] = NoOrder /\ order[3] = NoOrder
        /\ DOMAIN order = {0, 1, 2, 3}
    BY <1>2 DEF EngineTypeOK
  <2>2. order' = [order EXCEPT ![0] = Sent(TriangularSide[0], Qty)]
    BY DEF PlaceTriangular
  <2> QED
    BY <2>1, <2>2
<1>4. \A l \in LegIds : leg'[l].actual = 0
  BY NewRecords DEF PlaceTriangular
<1>5. Untouched'
  BY <1>1 DEF Untouched
<1>6. Accounts'
  <2>1. TriangularSide[0] = "BUY"
    BY DEF TriangularSide
  <2> QED
    BY <1>3, <2>1, QtyAssumption DEF Accounts, Sent, NoOrder
<1>7. \A o \in Orders : order'[o].filled = 0
  BY <1>3 DEF Sent, NoOrder
<1>8. BeliefIsConservative'
  BY <1>4, <1>7 DEF BeliefIsConservative
<1>9. HedgeReversesFill' /\ BookedQuantityWasTraded'
  BY <1>1 DEF HedgeReversesFill, BookedQuantityWasTraded, Cross, Tri
<1>10. InSequence' /\ CarriesOnlyFills'
  BY <1>1, <1>3 DEF InSequence, CarriesOnlyFills, NoOrder, Sent
<1> QED
  BY <1>5, <1>6, <1>8, <1>9, <1>10 DEF EngineInv

\* One of the two tasks of a cross-exchange execution returns.
LEMMA CrossReturnKeepsInv ==
    ASSUME EngineTypeOK, EngineInv, NEW l \in {Buy, Sell}, CrossLegReturns(l)
    PROVE  EngineInv'
<1> USE Indices
<1>1. UNCHANGED <<strategy, phase, order, result>> /\ phase = "legs" /\ strategy = Cross
  BY DEF CrossLegReturns
<1>2. PICK a \in TimedAnswers(l) :
        leg' = [leg EXCEPT ![l] = Settled(l, LegStatus(a), a)]
  BY DEF CrossLegReturns
<1>3. /\ leg'[l].actual = a.qty
      /\ \A k \in LegIds : k # l => leg'[k] = leg[k]
  BY <1>2 DEF EngineTypeOK, Settled
<1>4. Untouched' /\ Accounts'
  BY <1>1 DEF EngineInv, Untouched, Accounts
<1>5. BeliefIsConservative'
  <2>1. a.qty <= order[l].filled
    BY AnswerIsConservative
  <2> QED
    BY <1>1, <1>3, <2>1 DEF EngineInv, BeliefIsConservative
<1>6. HedgeReversesFill'
  <2>1. order[Hedge].side = "NONE"
    BY <1>1 DEF EngineInv, HedgeReversesFill
  <2> QED
    BY <1>1, <2>1 DEF EngineInv, HedgeReversesFill
<1>7. InSequence' /\ CarriesOnlyFills'
  BY <1>1 DEF InSequence, CarriesOnlyFills, Cross, Tri
<1>8. BookedQuantityWasTraded'
  BY <1>1 DEF EngineInv, BookedQuantityWasTraded
<1> QED
  BY <1>4, <1>5, <1>6, <1>7, <1>8 DEF EngineInv

\* While a leg of a triangular execution is awaited, the legs after it have
\* not been sent.
LEMMA LaterLegsUnsent ==
    ASSUME EngineTypeOK, EngineInv, NEW l \in LegIds, Awaited(l)
    PROVE  \A k \in LegIds : k > l => order[k] = NoOrder
<1> USE Indices
<1>1. strategy = Tri /\ leg[l].status # "FILLED"
  BY DEF Awaited
<1>2. \A k \in {1, 2} : order[k].side # "NONE" =>
                          leg[k - 1].status = "FILLED" /\ order[k - 1].side # "NONE"
  BY <1>1 DEF EngineInv, InSequence
<1>3. \A k \in LegIds : k > l => order[k].side = "NONE"
  BY <1>1, <1>2
<1> QED
  BY <1>3 DEF EngineInv, Accounts

\* The awaited leg of a triangular execution fills.
LEMMA TriFillsKeepsInv ==
    ASSUME EngineTypeOK, EngineInv, NEW l \in LegIds, TriangularLegFills(l)
    PROVE  EngineInv'
<1> USE Indices
<1>1. /\ strategy = Tri /\ strategy' = Tri /\ phase = "legs"
      /\ leg[l].status = "PENDING" /\ Awaited(l)
  BY DEF TriangularLegFills, NextQty, Awaited
<1>2. PICK a \in TimedAnswers(l) :
        /\ a.status \in {"FILLED", "PARTIALLY_FILLED"}
        /\ IF l < 2
           THEN /\ leg' = [leg EXCEPT ![l] = Settled(l, "FILLED", a),
                                      ![l + 1] = PlannedLeg(a.qty)]
                /\ order' = [order EXCEPT
                               ![l + 1] = Sent(TriangularSide[l + 1], a.qty)]
                /\ UNCHANGED <<phase, result>>
           ELSE /\ leg' = [leg EXCEPT ![l] = Settled(l, "FILLED", a)]
                /\ result' = Outcome("COMPLETED", "", 0)
                /\ phase' = "booking"
                /\ UNCHANGED order
  BY DEF TriangularLegFills, NextQty
<1>3. a.qty \in Nat /\ a.qty <= order[l].filled
  BY AnswerIsConservative
<1>4. phase' \in {"legs", "booking"}
  BY <1>1, <1>2
<1>5. /\ leg'[l] = Settled(l, "FILLED", a)
      /\ \A k \in LegIds : k # l /\ k # l + 1 => leg'[k] = leg[k]
      /\ l < 2 => leg'[l + 1] = PlannedLeg(a.qty)
  <2>1. l \in DOMAIN leg /\ (l < 2 => l + 1 \in DOMAIN leg) /\ l + 1 # l
    BY DEF EngineTypeOK
  <2>2. CASE l < 2
    <3>1. leg' = [leg EXCEPT ![l] = Settled(l, "FILLED", a),
                             ![l + 1] = PlannedLeg(a.qty)]
      BY <1>2, <2>2
    <3> QED
      BY <2>1, <2>2, <3>1 DEF EngineTypeOK
  <2>3. CASE ~(l < 2)
    <3>1. leg' = [leg EXCEPT ![l] = Settled(l, "FILLED", a)]
      BY <1>2, <2>3
    <3> QED
      BY <2>1, <2>3, <3>1 DEF EngineTypeOK
  <2> QED
    BY <2>2, <2>3
<1>6. /\ \A k \in Orders : k # l + 1 \/ l = 2 => order'[k] = order[k]
      /\ l < 2 => order'[l + 1] = Sent(TriangularSide[l + 1], a.qty)
  <2>1. l < 2 => l + 1 \in DOMAIN order
    BY DEF EngineTypeOK
  <2>2. CASE l < 2
    <3>1. order' = [order EXCEPT ![l + 1] = Sent(TriangularSide[l + 1], a.qty)]
      BY <1>2, <2>2
    <3> QED
      BY <2>1, <2>2, <3>1 DEF EngineTypeOK
  <2>3. CASE ~(l < 2)
    BY <1>2, <2>3
  <2> QED
    BY <2>2, <2>3
<1>7. Settled(l, "FILLED", a).actual = a.qty /\ Settled(l, "FILLED", a).status = "FILLED"
  BY DEF Settled
<1>8. \A k \in LegIds : k > l => order[k] = NoOrder
  BY <1>1, LaterLegsUnsent
<1>9. \A k \in LegIds : TriangularSide[k] \in {"BUY", "SELL"}
  BY DEF TriangularSide
<1>10. Untouched'
  BY <1>4 DEF Untouched
<1>11. Accounts'
  <2>1. CASE l = 2
    BY <1>6, <2>1 DEF EngineInv, Accounts
  <2>2. CASE l < 2
    <3>1. LET r == order'[l + 1]
          IN  /\ r.filled = 0 /\ r.outstanding = a.qty /\ r.asked = a.qty
              /\ r.last = 0 /\ r.qty = a.qty /\ r.side # "NONE"
      BY <1>6, <1>9, <2>2, NewRecords
    <3> QED
      BY <1>3, <1>6, <2>2, <3>1 DEF EngineInv, Accounts
  <2> QED
    BY <2>1, <2>2
<1>12. BeliefIsConservative'
  <2>1. leg'[l].actual <= order'[l].filled
    BY <1>3, <1>5, <1>6, <1>7
  <2>2. ASSUME l < 2
        PROVE  leg'[l + 1].actual <= order'[l + 1].filled
    BY <1>5, <1>6, <2>2, NewRecords
  <2>3. \A k \in LegIds : k # l /\ k # l + 1 => leg'[k].actual <= order'[k].filled
    BY <1>5, <1>6 DEF EngineInv, BeliefIsConservative
  <2> QED
    BY <2>1, <2>2, <2>3 DEF BeliefIsConservative
<1>13. HedgeReversesFill' /\ BookedQuantityWasTraded'
  BY <1>1 DEF HedgeReversesFill, BookedQuantityWasTraded, Cross, Tri
<1>14. InSequence'
  <2>1. \A k \in {1, 2} : order[k].side # "NONE" =>
                            leg[k - 1].status = "FILLED" /\ order[k - 1].side # "NONE"
    BY <1>1 DEF EngineInv, InSequence
  <2>2. order[l].side # "NONE"
    BY <1>1 DEF Awaited, EngineInv, Accounts, NoOrder
  <2>3. ASSUME NEW k \in {1, 2}, order'[k].side # "NONE"
        PROVE  leg'[k - 1].status = "FILLED" /\ order'[k - 1].side # "NONE"
    <3>1. CASE k = l + 1
      BY <1>5, <1>6, <1>7, <2>2, <3>1
    <3>2. CASE k > l + 1
      BY <1>6, <1>8, <2>3, <3>2, NewRecords
    <3>3. CASE k <= l
      BY <1>5, <1>6, <2>1, <2>3, <3>3
    <3> QED
      BY <3>1, <3>2, <3>3
  <2> QED
    BY <2>3 DEF InSequence
<1>15. CarriesOnlyFills'
  <2>1. \A k \in {1, 2} : order[k].qty <= order[k - 1].filled
    BY <1>1 DEF EngineInv, CarriesOnlyFills
  <2>2. ASSUME NEW k \in {1, 2}
        PROVE  order'[k].qty <= order'[k - 1].filled
    <3>1. CASE k = l + 1
      BY <1>3, <1>6, <3>1, NewRecords
    <3>2. CASE k > l + 1
      BY <1>6, <1>8, <3>2, NewRecords
    <3>3. CASE k <= l
      BY <1>6, <2>1, <3>3
    <3> QED
      BY <3>1, <3>2, <3>3
  <2> QED
    BY <2>2 DEF CarriesOnlyFills
<1> QED
  BY <1>10, <1>11, <1>12, <1>13, <1>14, <1>15 DEF EngineInv

\* The awaited leg of a triangular execution fails and the rest is canceled.
LEMMA TriFailsKeepsInv ==
    ASSUME EngineTypeOK, EngineInv, NEW l \in LegIds, TriangularLegFails(l)
    PROVE  EngineInv'
<1> USE Indices
<1>1. /\ strategy = Tri /\ strategy' = Tri /\ phase' = "booking"
      /\ UNCHANGED order /\ Awaited(l)
  BY DEF TriangularLegFails, Awaited
<1>2. PICK a \in TimedAnswers(l) :
        leg' = [k \in LegIds |-> IF k = l THEN Settled(l, "FAILED", a)
                                 ELSE IF k > l THEN Canceled(k) ELSE leg[k]]
  BY DEF TriangularLegFails
<1>3. a.qty <= order[l].filled
  BY AnswerIsConservative
<1>4. Untouched' /\ Accounts'
  BY <1>1 DEF EngineInv, Untouched, Accounts
<1>5. \A k \in LegIds : leg'[k].actual = IF k = l THEN a.qty ELSE leg[k].actual
  BY <1>2 DEF Settled, Canceled
<1>6. BeliefIsConservative'
  BY <1>1, <1>3, <1>5 DEF EngineInv, BeliefIsConservative
<1>7. HedgeReversesFill' /\ BookedQuantityWasTraded'
  BY <1>1 DEF HedgeReversesFill, BookedQuantityWasTraded, Cross, Tri
<1>8. InSequence'
  <2>1. \A k \in LegIds : k > l => order[k].side = "NONE"
    BY <1>1, LaterLegsUnsent, NewRecords
  <2>2. \A k \in LegIds : k < l => leg'[k] = leg[k]
    BY <1>2
  <2> QED
    BY <1>1, <2>1, <2>2 DEF EngineInv, InSequence
<1>9. CarriesOnlyFills'
  BY <1>1 DEF EngineInv, CarriesOnlyFills
<1> QED
  BY <1>4, <1>6, <1>7, <1>8, <1>9 DEF EngineInv

\* Placing an order that reverses at most the fill of the opposite leg.
LEMMA HedgeKeepsInv ==
    ASSUME EngineTypeOK, EngineInv, Gathered,
           UNCHANGED <<strategy, leg>>,
           phase' \in {"single_hedge", "partial_hedge"},
           result'.pnlQty = 0,
           NEW side \in {"BUY", "SELL"}, NEW q \in Nat,
           q <= leg[IF side = "BUY" THEN Sell ELSE Buy].actual,
           order' = [order EXCEPT ![Hedge] = Sent(side, q)]
    PROVE  EngineInv'
<1> USE Indices
<1>1. strategy = Cross
  BY DEF Gathered
<1>2. /\ order'[Hedge] = Sent(side, q)
      /\ \A o \in Orders : o # Hedge => order'[o] = order[o]
  BY DEF EngineTypeOK
<1>3. LET r == order'[Hedge]
      IN  /\ r.side = side /\ r.qty = q /\ r.asked = q /\ r.outstanding = q
          /\ r.filled = 0 /\ r.last = 0
  BY <1>2, NewRecords
<1>4. Untouched'
  BY DEF Untouched
<1>5. Accounts'
  BY <1>2, <1>3 DEF EngineInv, Accounts
<1>6. BeliefIsConservative'
  BY <1>2 DEF EngineInv, BeliefIsConservative
<1>7. HedgeReversesFill'
  BY <1>1, <1>2, <1>3 DEF EngineInv, HedgeReversesFill
<1>8. InSequence' /\ CarriesOnlyFills'
  BY <1>1 DEF InSequence, CarriesOnlyFills, Cross, Tri
<1>9. BookedQuantityWasTraded'
  BY <1>2, Numbers DEF BookedQuantityWasTraded
<1> QED
  BY <1>4, <1>5, <1>6, <1>7, <1>8, <1>9 DEF EngineInv

\* What an outcome books.
LEMMA Books == \A state, error, q : Outcome(state, error, q).pnlQty = q
  BY DEF Outcome

\* The hedge of _hedge_single_leg sends what the other leg reported.
LEMMA SingleHedgeKeepsInv ==
    ASSUME EngineTypeOK, EngineInv, NEW f \in {Buy, Sell}, NEW g,
           NEW side \in {"BUY", "SELL"}, f = (IF side = "BUY" THEN Sell ELSE Buy),
           PlaceSingleHedge(f, g, side)
    PROVE  EngineInv'
<1> USE Indices
<1> DEFINE q == leg[f].actual
<1>1. q \in Nat /\ q <= q
  BY Numbers
<1>2. q <= leg[IF side = "BUY" THEN Sell ELSE Buy].actual
  BY <1>1
<1>3. result'.pnlQty = 0
  <2>1. result' = Outcome("HEDGING", "", 0)
    BY DEF PlaceSingleHedge
  <2> QED
    BY <2>1, Books
<1>4. /\ Gathered /\ UNCHANGED <<strategy, leg>>
      /\ phase' \in {"single_hedge", "partial_hedge"}
      /\ order' = [order EXCEPT ![Hedge] = Sent(side, q)]
  BY DEF PlaceSingleHedge
<1> HIDE DEF q
<1> QED
  BY <1>1, <1>2, <1>3, <1>4, HedgeKeepsInv

\* Every step of the engine keeps the invariant.
LEMMA EngineKeepsInv ==
    ASSUME EngineTypeOK, EngineInv, EngineStep
    PROVE  EngineInv'
<1> USE Indices
<1>1. \A state, error, q : Outcome(state, error, q).pnlQty = q
  BY Books
<1>2. CASE AdapterMissing
  <2>1. Outcome("FAILED", "engine", 0).pnlQty = 0
    BY <1>1
  <2>2. result'.pnlQty = 0 /\ phase' = "booking" /\ UNCHANGED <<strategy, leg, order>>
    BY <1>2, <2>1 DEF AdapterMissing
  <2> QED
    BY <2>2, BookingStep
<1>3. CASE PlaceCrossExchange
  BY <1>3, PlaceCrossKeepsInv
<1>4. CASE PlaceTriangular
  BY <1>4, PlaceTriKeepsInv
<1>5. CASE \E l \in {Buy, Sell} : CrossLegReturns(l)
  BY <1>5, CrossReturnKeepsInv
<1>6. CASE \E l \in LegIds : TriangularLegFills(l) \/ TriangularLegFails(l)
  BY <1>6, TriFillsKeepsInv, TriFailsKeepsInv
<1>7. CASE BothFilled
  <2>1. Outcome("COMPLETED", "", MatchedQty).pnlQty = MatchedQty
    BY <1>1
  <2>2. result'.pnlQty = MatchedQty /\ phase' = "booking" /\ UNCHANGED <<strategy, leg, order>>
    BY <1>7, <2>1 DEF BothFilled
  <2> QED
    BY <2>2, BookingStep
<1>8. CASE BothFailed
  <2>1. Outcome("FAILED", "both legs failed", 0).pnlQty = 0
    BY <1>1
  <2>2. /\ result'.pnlQty = 0 /\ phase' = "booking"
        /\ UNCHANGED <<strategy, leg, order>>
    BY <1>8, <2>1 DEF BothFailed
  <2> QED
    BY <2>2, BookingStep
<1>9. CASE PlaceSingleHedge(Sell, Buy, "BUY")
  BY <1>9, SingleHedgeKeepsInv
<1>10. CASE PlaceSingleHedge(Buy, Sell, "SELL")
  BY <1>10, SingleHedgeKeepsInv
<1>11. CASE SingleHedgeReturns
  <2>1. result' \in {Outcome("COMPLETED", "hedged", 0), Outcome("FAILED", "hedge failed", 0)}
    BY <1>11 DEF SingleHedgeReturns
  <2>2. result'.pnlQty = 0
    <3>1. /\ Outcome("COMPLETED", "hedged", 0).pnlQty = 0
          /\ Outcome("FAILED", "hedge failed", 0).pnlQty = 0
      BY <1>1
    <3> QED
      BY <2>1, <3>1
  <2>3. phase' = "booking" /\ UNCHANGED <<strategy, leg, order>>
    BY <1>11 DEF SingleHedgeReturns
  <2> QED
    BY <2>2, <2>3, BookingStep
<1>12. CASE PlacePartialHedge
  <2>1. /\ Gathered /\ UNCHANGED <<strategy, leg>> /\ phase' = "partial_hedge"
        /\ result'.pnlQty = 0
        /\ order' = [order EXCEPT ![Hedge] = IF Excess > 0 THEN Sent("SELL", Excess)
                                                           ELSE Sent("BUY", -Excess)]
    BY <1>1, <1>12 DEF PlacePartialHedge, ReverseExcess
  <2>2. /\ Excess \in Int /\ Excess <= leg[Buy].actual /\ -Excess <= leg[Sell].actual
    BY QuantityTypes
  <2>3. CASE Excess > 0
    <3>1. Excess \in Nat
      BY <2>2, <2>3
    <3> QED
      BY <2>1, <2>2, <2>3, <3>1, HedgeKeepsInv
  <2>4. CASE ~(Excess > 0)
    <3>1. -Excess \in Nat
      BY <2>2, <2>4
    <3> QED
      BY <2>1, <2>2, <2>4, <3>1, HedgeKeepsInv
  <2> QED
    BY <2>3, <2>4
<1>13. CASE KeepPartial
  <2>1. Outcome("COMPLETED", "", MatchedQty).pnlQty = MatchedQty
    BY <1>1
  <2>2. result'.pnlQty = MatchedQty /\ phase' = "booking" /\ UNCHANGED <<strategy, leg, order>>
    BY <1>13, <2>1 DEF KeepPartial, AcceptPartial
  <2> QED
    BY <2>2, BookingStep
<1>14. CASE PartialHedgeReturns
  <2>1. Outcome("COMPLETED", "", MatchedQty).pnlQty = MatchedQty
    BY <1>1
  <2>2. result'.pnlQty = MatchedQty /\ phase' = "booking" /\ UNCHANGED <<strategy, leg, order>>
    BY <1>14, <2>1 DEF PartialHedgeReturns, AcceptPartial
  <2> QED
    BY <2>2, BookingStep
<1>15. CASE Book
  BY <1>15, BookingStep DEF Book
<1> QED
  BY <1>2, <1>3, <1>4, <1>5, <1>6, <1>7, <1>8, <1>9, <1>10, <1>11, <1>12, <1>13,
     <1>14, <1>15 DEF EngineStep, OneFailed

\* The coordinator touches the engine's state only to start it or to refuse.
LEMMA CoordinatorKeepsInv ==
    ASSUME EngineTypeOK, EngineInv, CoordinatorStep
    PROVE  EngineInv'
<1>1. \A state, error, q : Outcome(state, error, q).pnlQty = q
  BY DEF Outcome
<1>2. CASE PlanFails
  BY <1>1, <1>2, BookingStep DEF PlanFails
<1>3. CASE RiskRejects
  BY <1>1, <1>3, BookingStep DEF RiskRejects
<1>4. CASE Launch
  BY <1>4, BookingStep DEF Launch, Invoke
<1>5. CASE ProcessResult
  BY <1>5, BookingStep DEF ProcessResult, engineVars
<1>6. CASE Conclude
  BY <1>6, BookingStep DEF Conclude, engineVars
<1> QED
  BY <1>2, <1>3, <1>4, <1>5, <1>6 DEF CoordinatorStep

\* The engine's account of its orders agrees with the exchanges' account, at
\* every moment: module ExecutionEngine's invariant holds, whatever the
\* exchanges fill, report late or execute twice.
THEOREM EngineInvariant == Spec => []EngineInv
<1>1. Init => EngineInv
  BY InitInv
<1>2. TypeOK /\ EngineInv /\ [Next]_vars => EngineInv'
  <2> SUFFICES ASSUME TypeOK, EngineInv, [Next]_vars
               PROVE  EngineInv'
    OBVIOUS
  <2>1. EngineTypeOK
    BY DEF TypeOK
  <2>2. CASE CoordinatorStep
    BY <2>1, <2>2, CoordinatorKeepsInv
  <2>3. CASE EngineStep /\ UNCHANGED coordinatorVars
    BY <2>1, <2>3, EngineKeepsInv
  <2>4. CASE ExchangeStep /\ UNCHANGED coordinatorVars
    BY <2>1, <2>4, ExchangeKeepsInv
  <2>5. CASE UNCHANGED vars
    BY <2>1, <2>5, BookingStep DEF vars, engineVars
  <2> QED
    BY <2>2, <2>3, <2>4, <2>5 DEF Next
<1> QED
  BY <1>1, <1>2, TypeCorrect, PTL DEF Spec

-----------------------------------------------------------------------------
(***************************************************************************)
(* What the invariant gives.                                               *)
(***************************************************************************)

\* A buy moves the position up by its fill, a sell down, at most by what was
\* asked for.
LEMMA ExposureFromInv ==
    ASSUME EngineTypeOK, EngineInv
    PROVE  ExposureBounded
<1> USE Indices
<1> SUFFICES ASSUME strategy = Cross
             PROVE  Position <= Qty + Repeated /\ -Position <= Qty + Repeated
  BY DEF ExposureBounded
<1> DEFINE fb == order[Buy].filled
           fs == order[Sell].filled
           fh == order[Hedge].filled
           eb == order[Buy].asked - order[Buy].qty
           es == order[Sell].asked - order[Sell].qty
           eh == order[Hedge].asked - order[Hedge].qty
<1>1. Qty \in Nat
  BY QtyAssumption
<1>2. \A o \in Orders :
        /\ order[o].qty \in Nat /\ order[o].asked \in Nat /\ order[o].filled \in Nat
        /\ order[o].qty <= order[o].asked
        /\ order[o].filled <= order[o].asked
        /\ order[o].side = "NONE" => order[o].filled = 0
        /\ order[o].side \in {"NONE", "BUY", "SELL"}
  <2>1. ASSUME NEW o \in Orders
        PROVE  /\ order[o].filled + order[o].outstanding <= order[o].asked
               /\ order[o].qty <= order[o].asked
               /\ order[o].side = "NONE" => order[o] = NoOrder
    BY DEF EngineInv, Accounts
  <2>2. \A o \in Orders : order[o].side \in {"NONE", "BUY", "SELL"}
    BY DEF EngineTypeOK, OrderRecords
  <2>3. SUFFICES ASSUME NEW o \in Orders
                 PROVE  /\ order[o].qty \in Nat /\ order[o].asked \in Nat
                        /\ order[o].filled \in Nat
                        /\ order[o].qty <= order[o].asked
                        /\ order[o].filled <= order[o].asked
                        /\ order[o].side = "NONE" => order[o].filled = 0
                        /\ order[o].side \in {"NONE", "BUY", "SELL"}
    OBVIOUS
  <2>4. /\ order[o].qty \in Nat /\ order[o].asked \in Nat
        /\ order[o].filled \in Nat /\ order[o].outstanding \in Nat
    BY Numbers
  <2>5. order[o].filled <= order[o].asked
    BY <2>1, <2>4
  <2> QED
    BY <2>1, <2>2, <2>4, <2>5, NewRecords
<1>3. /\ fb \in Nat /\ fs \in Nat /\ fh \in Nat
      /\ eb \in Nat /\ es \in Nat /\ eh \in Nat
  BY <1>2
<1>4. Repeated = eb + es + eh
  BY DEF Repeated
<1>5. fb <= Qty + eb /\ fs <= Qty + es
  BY <1>1, <1>2 DEF EngineInv, HedgeReversesFill
<1>6. Signed(Buy) = fb
  BY <1>2 DEF EngineInv, HedgeReversesFill, Signed
<1>7. Signed(Sell) = -fs
  BY <1>2 DEF EngineInv, HedgeReversesFill, Signed
<1>8. \A l \in {Buy, Sell} : leg[l].actual \in Nat /\ leg[l].actual <= order[l].filled
  BY Numbers DEF EngineInv, BeliefIsConservative
<1>9. CASE order[Hedge].side = "NONE"
  <2>1. Position = fb - fs
    BY <1>3, <1>6, <1>7, <1>9 DEF Position, Signed
  <2> HIDE DEF fb, fs, fh, eb, es, eh
  <2> QED
    BY <1>1, <1>3, <1>4, <1>5, <2>1
<1>10. CASE order[Hedge].side = "BUY"
  <2>1. Position = fb - fs + fh
    BY <1>3, <1>6, <1>7, <1>10 DEF Position, Signed
  <2>2. fh <= fs + eh
    BY <1>2, <1>8, <1>10 DEF EngineInv, HedgeReversesFill
  <2> HIDE DEF fb, fs, fh, eb, es, eh
  <2> QED
    BY <1>1, <1>3, <1>4, <1>5, <2>1, <2>2
<1>11. CASE order[Hedge].side = "SELL"
  <2>1. Position = fb - fs - fh
    BY <1>3, <1>6, <1>7, <1>11 DEF Position, Signed
  <2>2. fh <= fb + eh
    BY <1>2, <1>8, <1>11 DEF EngineInv, HedgeReversesFill
  <2> HIDE DEF fb, fs, fh, eb, es, eh
  <2> QED
    BY <1>1, <1>3, <1>4, <1>5, <2>1, <2>2
<1> QED
  BY <1>2, <1>9, <1>10, <1>11

\* For every quantity, every number of repeated requests and every way in
\* which the exchanges fill, answer late or answer not at all, the position
\* left by a cross-exchange execution stays within one order's quantity plus
\* what was requested twice.
THEOREM Exposure == Spec => []ExposureBounded
<1>1. TypeOK /\ EngineInv => ExposureBounded
  BY ExposureFromInv DEF TypeOK
<1> QED
  BY <1>1, TypeCorrect, EngineInvariant, PTL

\* A triangular execution orders in each leg at most what the leg before it
\* really filled, and a cross-exchange profit is booked on at most the quantity
\* that both exchanges really filled.
THEOREM MoneyIsReal == Spec => [](CarriesOnlyFills /\ BookedQuantityWasTraded)
<1>1. EngineInv => CarriesOnlyFills /\ BookedQuantityWasTraded
  BY DEF EngineInv
<1> QED
  BY <1>1, EngineInvariant, PTL

-----------------------------------------------------------------------------
(***************************************************************************)
(* A completed cross-exchange execution is flat.                           *)
(***************************************************************************)
Reports == {"FILLED", "PARTIAL_FILLED", "FAILED"}

\* What a leg of a cross-exchange execution reports is about an order of Qty.
LegFits(l) ==
    /\ leg[l].status # "ABSENT" => order[l].qty = Qty
    /\ leg[l].status = "FILLED" => leg[l].actual = Qty
    /\ leg[l].status = "PARTIAL_FILLED" => leg[l].actual > 0
    /\ phase = "legs" => leg[l].status \in Reports \cup {"PENDING"}

\* The hedge is for the difference of the reported fills; there is none if
\* they agree, or if one side of a partial fill reports nothing.
HedgeFits ==
    /\ \A l \in {Buy, Sell} : leg[l].status \in Reports
    /\ order[Hedge].side = "SELL" => order[Hedge].qty = Excess
    /\ order[Hedge].side = "BUY"  => order[Hedge].qty = -Excess
    /\ order[Hedge].side = "NONE" =>
          Excess = 0 \/ (AnyPartial /\ \E l \in {Buy, Sell} : ReportedFill(l) = 0)

\* Where the hedge, if any, has been placed, and the result is not a failure.
Hedged == \/ phase \in {"single_hedge", "partial_hedge"}
          \/ phase \in {"booking", "done"} /\ result.state = "COMPLETED"

FlatInv == strategy = Cross => /\ \A l \in {Buy, Sell} : LegFits(l)
                               /\ Hedged => HedgeFits

\* An answer that says "filled" is about the whole order, and one that says
\* "partially filled" is about some of it.
LEMMA AnswersFit ==
    ASSUME NEW o \in Orders, EngineTypeOK, NEW a \in TimedAnswers(o)
    PROVE  /\ LegStatus(a) \in Reports
           /\ LegStatus(a) = "FILLED" => a.qty = order[o].qty
           /\ LegStatus(a) = "PARTIAL_FILLED" => a.qty > 0
<1>1. /\ a.status = "FILLED" => a.qty = order[o].qty
      /\ a.status = "PARTIALLY_FILLED" => a.qty > 0
  BY Numbers DEF TimedAnswers, Answers, StatusOf
<1> QED
  BY <1>1 DEF LegStatus, Reports

\* The excess is a number, which depends on the legs alone.
LEMMA ExcessIsANumber ==
    ASSUME EngineTypeOK
    PROVE  /\ \A l \in {Buy, Sell} : ReportedFill(l) \in Nat
           /\ Excess \in Int
<1>1. \A l \in {Buy, Sell} : ReportedFill(l) \in Nat
  BY Numbers, Indices DEF ReportedFill
<1> QED
  BY <1>1 DEF Excess

\* A step that keeps the legs and the sides and quantities of the orders keeps
\* the invariant, if the hedge was settled before or is none to settle.
LEMMA FlatStays ==
    ASSUME FlatInv, UNCHANGED <<strategy, leg>>,
           \A o \in Orders : order'[o].side = order[o].side /\ order'[o].qty = order[o].qty,
           phase' = "legs" => phase = "legs",
           Hedged' => Hedged \/ HedgeFits
    PROVE  FlatInv'
<1> USE Indices
<1>1. SUFFICES ASSUME strategy = Cross
               PROVE  (\A l \in {Buy, Sell} : LegFits(l))' /\ (Hedged => HedgeFits)'
  BY DEF FlatInv
<1>2. (\A l \in {Buy, Sell} : LegFits(l)) /\ (Hedged => HedgeFits)
  BY <1>1 DEF FlatInv
<1>3. (\A l \in {Buy, Sell} : LegFits(l))'
  BY <1>2 DEF LegFits
<1>4. \A l \in {Buy, Sell} : ReportedFill(l)' = ReportedFill(l)
  BY DEF ReportedFill
<1>5. Excess' = Excess /\ AnyPartial' = AnyPartial
  BY <1>4 DEF Excess, AnyPartial
<1>6. HedgeFits => HedgeFits'
  BY <1>4, <1>5 DEF HedgeFits
<1> QED
  BY <1>2, <1>3, <1>6

\* Two orders of Qty are planned and sent.
LEMMA PlaceCrossIsFlat ==
    ASSUME EngineTypeOK, PlaceCrossExchange
    PROVE  FlatInv'
<1> USE Indices
<1>1. \A l \in {Buy, Sell} : leg'[l] = PlannedLeg(Qty) /\ order'[l].qty = Qty
  <2>1. /\ leg' = [leg EXCEPT ![Buy] = PlannedLeg(Qty), ![Sell] = PlannedLeg(Qty)]
        /\ order' = [order EXCEPT ![Buy] = Sent("BUY", Qty), ![Sell] = Sent("SELL", Qty)]
    BY DEF PlaceCrossExchange
  <2>2. Sent("BUY", Qty).qty = Qty /\ Sent("SELL", Qty).qty = Qty
    BY NewRecords
  <2> QED
    BY <2>1, <2>2 DEF EngineTypeOK
<1>2. \A l \in {Buy, Sell} : leg'[l].status = "PENDING"
  BY <1>1, NewRecords
<1>3. phase' = "legs"
  BY DEF PlaceCrossExchange
<1>4. \A l \in {Buy, Sell} : LegFits(l)'
  BY <1>1, <1>2 DEF LegFits
<1> QED
  BY <1>3, <1>4 DEF FlatInv, Hedged

\* A leg reports the answer to its order.
LEMMA CrossReturnIsFlat ==
    ASSUME EngineTypeOK, FlatInv, NEW l \in {Buy, Sell}, CrossLegReturns(l)
    PROVE  FlatInv'
<1> USE Indices
<1>1. UNCHANGED <<strategy, phase, order, result>> /\ phase = "legs" /\ strategy = Cross
      /\ leg[l].status = "PENDING"
  BY DEF CrossLegReturns
<1>2. PICK a \in TimedAnswers(l) :
        leg' = [leg EXCEPT ![l] = Settled(l, LegStatus(a), a)]
  BY DEF CrossLegReturns
<1>3. /\ leg'[l].actual = a.qty /\ leg'[l].status = LegStatus(a)
      /\ \A k \in LegIds : k # l => leg'[k] = leg[k]
  BY <1>2 DEF EngineTypeOK, Settled
<1>4. \A k \in {Buy, Sell} : LegFits(k)
  BY <1>1 DEF FlatInv
<1>5. LegFits(l)'
  <2>1. order[l].qty = Qty
    BY <1>1, <1>4 DEF LegFits
  <2>2. /\ LegStatus(a) \in Reports
        /\ LegStatus(a) = "FILLED" => a.qty = order[l].qty
        /\ LegStatus(a) = "PARTIAL_FILLED" => a.qty > 0
    BY AnswersFit
  <2> QED
    BY <1>1, <1>3, <2>1, <2>2 DEF LegFits
<1>6. \A k \in {Buy, Sell} : k # l => LegFits(k)'
  BY <1>1, <1>3, <1>4 DEF LegFits
<1>7. ~Hedged'
  BY <1>1 DEF Hedged
<1> QED
  BY <1>5, <1>6, <1>7 DEF FlatInv

\* Both legs have reported when the engine goes on.
LEMMA GatheredReports ==
    ASSUME EngineTypeOK, EngineInv, FlatInv, Gathered
    PROVE  /\ \A l \in {Buy, Sell} : LegFits(l) /\ leg[l].status \in Reports
           /\ order[Hedge].side = "NONE"
<1> USE Indices
<1>1. phase = "legs" /\ strategy = Cross /\ \A l \in {Buy, Sell} : leg[l].status # "PENDING"
  BY DEF Gathered
<1>2. \A l \in {Buy, Sell} : LegFits(l)
  BY <1>1 DEF FlatInv
<1>3. order[Hedge].side = "NONE"
  BY <1>1 DEF EngineTypeOK, OrderRecords, EngineInv, HedgeReversesFill
<1> QED
  BY <1>1, <1>2, <1>3 DEF LegFits

\* A hedge of the right size is placed.
LEMMA HedgeIsFlat ==
    ASSUME EngineTypeOK, EngineInv, FlatInv, Gathered,
           UNCHANGED <<strategy, leg>>, phase' # "legs",
           NEW side \in {"BUY", "SELL"}, NEW q \in Nat,
           order' = [order EXCEPT ![Hedge] = Sent(side, q)],
           side = "SELL" => q = Excess,
           side = "BUY" => q = -Excess
    PROVE  FlatInv'
<1> USE Indices
<1>1. \A l \in {Buy, Sell} : LegFits(l) /\ leg[l].status \in Reports
  BY GatheredReports
<1>2. /\ order'[Hedge].side = side /\ order'[Hedge].qty = q
      /\ \A l \in {Buy, Sell} : order'[l] = order[l]
  BY NewRecords DEF EngineTypeOK
<1>3. \A l \in {Buy, Sell} : LegFits(l)'
  BY <1>1, <1>2 DEF LegFits
<1>4. Excess' = Excess
  BY DEF Excess, ReportedFill
<1>5. HedgeFits'
  BY <1>1, <1>2, <1>4 DEF HedgeFits
<1> QED
  BY <1>3, <1>5 DEF FlatInv

\* The hedge of one leg's fill, when the other leg failed.
LEMMA SingleHedgeIsFlat ==
    ASSUME EngineTypeOK, EngineInv, FlatInv, OneFailed
    PROVE  FlatInv'
<1> USE Indices
<1>1. \A l \in {Buy, Sell} : leg[l].actual \in Nat
  BY Numbers
<1>2. CASE PlaceSingleHedge(Sell, Buy, "BUY")
  <2>0. ReportedFill(Sell) = leg[Sell].actual /\ ReportedFill(Buy) = 0
    BY <1>2 DEF PlaceSingleHedge, ReportedFill
  <2>1. Excess = -leg[Sell].actual
    BY <1>1, <2>0 DEF Excess
  <2>2. -Excess = leg[Sell].actual
    BY <1>1, <2>1
  <2> QED
    BY <1>1, <1>2, <2>2, HedgeIsFlat DEF PlaceSingleHedge
<1>3. CASE PlaceSingleHedge(Buy, Sell, "SELL")
  <2>0. ReportedFill(Buy) = leg[Buy].actual /\ ReportedFill(Sell) = 0
    BY <1>3 DEF PlaceSingleHedge, ReportedFill
  <2>1. Excess = leg[Buy].actual
    BY <1>1, <2>0 DEF Excess
  <2> QED
    BY <1>1, <1>3, <2>1, HedgeIsFlat DEF PlaceSingleHedge
<1> QED
  BY <1>2, <1>3 DEF OneFailed

\* The hedge of the difference of two fills.
LEMMA PartialHedgeIsFlat ==
    ASSUME EngineTypeOK, EngineInv, FlatInv, PlacePartialHedge
    PROVE  FlatInv'
<1>1. /\ Gathered /\ UNCHANGED <<strategy, leg>> /\ phase' = "partial_hedge"
      /\ order' = [order EXCEPT ![Hedge] = IF Excess > 0 THEN Sent("SELL", Excess)
                                                         ELSE Sent("BUY", -Excess)]
  BY DEF PlacePartialHedge, ReverseExcess
<1>2. Excess \in Int
  BY ExcessIsANumber
<1>3. CASE Excess > 0
  <2>1. Excess \in Nat
    BY <1>2, <1>3
  <2> QED
    BY <1>1, <1>3, <2>1, HedgeIsFlat
<1>4. CASE ~(Excess > 0)
  <2>1. -Excess \in Nat
    BY <1>2, <1>4
  <2> QED
    BY <1>1, <1>4, <2>1, HedgeIsFlat
<1> QED
  BY <1>3, <1>4

\* Where no hedge is placed, none is needed but in the named way.
LEMMA NoHedgeIsFlat ==
    ASSUME EngineTypeOK, EngineInv, FlatInv, BothFilled \/ KeepPartial
    PROVE  FlatInv'
<1> USE Indices
<1>1. /\ Gathered /\ UNCHANGED <<strategy, leg, order>> /\ phase' = "booking"
  BY DEF BothFilled, KeepPartial
<1>2. /\ \A l \in {Buy, Sell} : LegFits(l) /\ leg[l].status \in Reports
      /\ order[Hedge].side = "NONE"
  BY <1>1, GatheredReports
<1>3. CASE BothFilled
  <2>1. \A l \in {Buy, Sell} : leg[l].status = "FILLED" /\ leg[l].actual = Qty
    BY <1>2, <1>3 DEF BothFilled, LegFits
  <2>2. Excess = 0
    BY <2>1, QtyAssumption DEF Excess, ReportedFill
  <2>3. HedgeFits
    BY <1>2, <2>2 DEF HedgeFits
  <2> QED
    BY <1>1, <2>3, FlatStays
<1>4. CASE KeepPartial
  <2>1. AnyPartial /\ ~HedgeableExcess
    BY <1>4 DEF KeepPartial
  <2>2. \A l \in {Buy, Sell} : ReportedFill(l) \in Nat
    BY ExcessIsANumber
  <2>3. Excess = 0 \/ \E l \in {Buy, Sell} : ReportedFill(l) = 0
    BY <2>1, <2>2 DEF HedgeableExcess
  <2>4. HedgeFits
    BY <1>2, <2>1, <2>3 DEF HedgeFits
  <2> QED
    BY <1>1, <2>4, FlatStays
<1> QED
  BY <1>3, <1>4

\* The state that a result is given.
LEMMA OutcomeStates == \A state, error, q : Outcome(state, error, q).state = state
  BY DEF Outcome

\* Every step of the engine keeps the invariant.
LEMMA EngineIsFlat ==
    ASSUME EngineTypeOK, EngineInv, FlatInv, EngineStep
    PROVE  FlatInv'
<1> USE Indices
<1>1. CASE AdapterMissing \/ BothFailed
  <2>1. result'.state = "FAILED" /\ phase' = "booking" /\ UNCHANGED <<strategy, leg, order>>
    <3>1. /\ phase' = "booking" /\ UNCHANGED <<strategy, leg, order>>
          /\ \/ result' = Outcome("FAILED", "engine", 0)
             \/ result' = Outcome("FAILED", "both legs failed", 0)
      BY <1>1 DEF AdapterMissing, BothFailed
    <3>2. result'.state = "FAILED"
      BY <3>1, OutcomeStates
    <3> QED
      BY <3>1, <3>2
  <2>2. ~Hedged'
    BY <2>1 DEF Hedged
  <2> QED
    BY <2>1, <2>2, FlatStays
<1>2. CASE PlaceCrossExchange
  BY <1>2, PlaceCrossIsFlat
<1>3. CASE PlaceTriangular \/ \E l \in LegIds : TriangularLegFills(l) \/ TriangularLegFails(l)
  <2>1. strategy' = Tri
    BY <1>3 DEF PlaceTriangular, TriangularLegFills, TriangularLegFails, Awaited
  <2> QED
    BY <2>1 DEF FlatInv, Cross, Tri
<1>4. CASE \E l \in {Buy, Sell} : CrossLegReturns(l)
  BY <1>4, CrossReturnIsFlat
<1>5. CASE BothFilled \/ KeepPartial
  BY <1>5, NoHedgeIsFlat
<1>6. CASE OneFailed
  BY <1>6, SingleHedgeIsFlat
<1>7. CASE PlacePartialHedge
  BY <1>7, PartialHedgeIsFlat
<1>8. CASE SingleHedgeReturns \/ PartialHedgeReturns
  <2>1. /\ phase \in {"single_hedge", "partial_hedge"} /\ phase' = "booking"
        /\ UNCHANGED <<strategy, leg, order>>
    BY <1>8 DEF SingleHedgeReturns, PartialHedgeReturns
  <2>2. Hedged
    BY <2>1 DEF Hedged
  <2> QED
    BY <2>1, <2>2, FlatStays
<1>9. CASE Book
  <2>1. /\ phase = "booking" /\ phase' = "done"
        /\ UNCHANGED <<strategy, leg, order, result>>
    BY <1>9 DEF Book
  <2>2. Hedged' => Hedged
    BY <2>1 DEF Hedged
  <2> QED
    BY <2>1, <2>2, FlatStays
<1> QED
  BY <1>1, <1>2, <1>3, <1>4, <1>5, <1>6, <1>7, <1>8, <1>9 DEF EngineStep

\* The exchanges change neither the side nor the quantity of an order.
LEMMA ExchangeIsFlat ==
    ASSUME EngineTypeOK, FlatInv, ExchangeStep
    PROVE  FlatInv'
<1>1. PICK o \in Orders : Decide(o) \/ Resend(o)
  BY DEF ExchangeStep
<1>2. UNCHANGED <<strategy, phase, leg, result>>
  BY <1>1 DEF Decide, Resend
<1>3. \A q : /\ Decided(order[o], q).side = order[o].side
             /\ Decided(order[o], q).qty = order[o].qty
             /\ SentAgain(order[o]).side = order[o].side
             /\ SentAgain(order[o]).qty = order[o].qty
  BY DEF Decided, SentAgain
<1>4. \A p \in Orders : order'[p].side = order[p].side /\ order'[p].qty = order[p].qty
  <2>1. CASE Decide(o)
    <3>1. PICK q \in 0..order[o].qty : order' = [order EXCEPT ![o] = Decided(@, q)]
      BY <2>1 DEF Decide
    <3>2. order' = [order EXCEPT ![o] = Decided(order[o], q)]
      BY <3>1 DEF EngineTypeOK
    <3> QED
      BY <1>3, <3>2 DEF EngineTypeOK
  <2>2. CASE Resend(o)
    <3>1. order' = [order EXCEPT ![o] = SentAgain(order[o])]
      BY <2>2 DEF Resend, EngineTypeOK
    <3> QED
      BY <1>3, <3>1 DEF EngineTypeOK
  <2> QED
    BY <1>1, <2>1, <2>2
<1>5. Hedged' => Hedged
  BY <1>2 DEF Hedged
<1> QED
  BY <1>2, <1>4, <1>5, FlatStays

\* Nor does the coordinator.
LEMMA CoordinatorIsFlat ==
    ASSUME FlatInv, CoordinatorStep
    PROVE  FlatInv'
<1>1. CASE PlanFails \/ RiskRejects
  <2>1. /\ UNCHANGED <<strategy, leg, order, phase>>
        /\ result'.state \in {"FAILED", "RISK_REJECTED"}
    <3>1. /\ UNCHANGED <<strategy, leg, order, phase>>
          /\ \/ result' = Outcome("FAILED", "engine", 0)
             \/ result' = Outcome("RISK_REJECTED", "", 0)
      BY <1>1 DEF PlanFails, RiskRejects
    <3>2. result'.state \in {"FAILED", "RISK_REJECTED"}
      BY <3>1, OutcomeStates
    <3> QED
      BY <3>1, <3>2
  <2>2. Hedged' => Hedged
    BY <2>1 DEF Hedged
  <2> QED
    BY <2>1, <2>2, FlatStays
<1>2. CASE Launch
  <2>1. UNCHANGED <<strategy, leg, order, result>> /\ phase' = "started"
    BY <1>2 DEF Launch, Invoke
  <2>2. ~Hedged'
    BY <2>1 DEF Hedged
  <2> QED
    BY <2>1, <2>2, FlatStays
<1>3. CASE ProcessResult \/ Conclude
  <2>1. UNCHANGED <<strategy, leg, order, phase, result>>
    BY <1>3 DEF ProcessResult, Conclude, engineVars
  <2>2. Hedged' => Hedged
    BY <2>1 DEF Hedged
  <2> QED
    BY <2>1, <2>2, FlatStays
<1> QED
  BY <1>1, <1>2, <1>3 DEF CoordinatorStep

\* What the exchanges know of the position, from what the legs report.
LEMMA FlatFromInv ==
    ASSUME EngineTypeOK, EngineInv, FlatInv
    PROVE  CompletedIsFlat
<1> USE Indices
<1> SUFFICES ASSUME strategy = Cross, phase = "done", result.state = "COMPLETED", Truthful,
                    order[Hedge].filled = order[Hedge].qty,
                    ~(AnyPartial /\ \E l \in {Buy, Sell} : leg[l].actual = 0)
             PROVE  Position = 0
  BY DEF CompletedIsFlat
<1>1. HedgeFits
  BY DEF FlatInv, Hedged
<1>2. \A o \in Orders : /\ order[o].filled \in Nat /\ order[o].qty \in Nat
                        /\ order[o].side \in {"NONE", "BUY", "SELL"}
                        /\ order[o].side = "NONE" => order[o].filled = 0
  BY Numbers, NewRecords DEF EngineTypeOK, OrderRecords, EngineInv, Accounts
<1>3. \A l \in {Buy, Sell} : ReportedFill(l) = order[l].filled /\ leg[l].actual = order[l].filled
  BY <1>1 DEF Truthful, HedgeFits, ReportedFill, Reports
<1>4. Excess = order[Buy].filled - order[Sell].filled
  BY <1>3 DEF Excess
<1>5. Signed(Buy) = order[Buy].filled /\ Signed(Sell) = -order[Sell].filled
  BY <1>2 DEF EngineInv, HedgeReversesFill, Signed
<1>6. Signed(Hedge) = -Excess
  <2>1. CASE order[Hedge].side = "NONE"
    <3>1. ~(AnyPartial /\ \E l \in {Buy, Sell} : ReportedFill(l) = 0)
      BY <1>3
    <3>2. Excess = 0
      BY <1>1, <2>1, <3>1 DEF HedgeFits
    <3>3. Signed(Hedge) = 0
      BY <2>1 DEF Signed
    <3> QED
      BY <3>2, <3>3
  <2>2. CASE order[Hedge].side = "BUY"
    BY <1>1, <2>2 DEF HedgeFits, Signed
  <2>3. CASE order[Hedge].side = "SELL"
    BY <1>1, <2>3 DEF HedgeFits, Signed
  <2> QED
    BY <1>2, <2>1, <2>2, <2>3
<1>7. /\ Signed(Buy) + Signed(Sell) = Excess /\ Excess \in Int
  BY <1>2, <1>4, <1>5
<1> QED
  BY <1>6, <1>7 DEF Position

\* For every quantity and whatever the exchanges do: a cross-exchange execution
\* that ends COMPLETED, with truthful answers and a hedge that filled, leaves
\* nothing unhedged unless only one side of a partial fill traded; and the
\* quantity its profit is booked on was bought and sold.
THEOREM BooksTellTheTruth == Spec => []BooksAreTrue
<1>1. Init => FlatInv
  <2> SUFFICES ASSUME Init
               PROVE  FlatInv
    OBVIOUS
  <2>1. phase = "idle" /\ \A l \in {Buy, Sell} : leg[l] = AbsentLeg
    BY Indices DEF Init, EngineInit
  <2>2. AbsentLeg.status = "ABSENT"
    BY DEF AbsentLeg
  <2> QED
    BY <2>1, <2>2 DEF FlatInv, LegFits, Hedged
<1>2. TypeOK /\ EngineInv /\ FlatInv /\ [Next]_vars => FlatInv'
  <2> SUFFICES ASSUME TypeOK, EngineInv, FlatInv, [Next]_vars
               PROVE  FlatInv'
    OBVIOUS
  <2>1. EngineTypeOK
    BY DEF TypeOK
  <2>2. CASE CoordinatorStep
    BY <2>2, CoordinatorIsFlat
  <2>3. CASE EngineStep /\ UNCHANGED coordinatorVars
    BY <2>1, <2>3, EngineIsFlat
  <2>4. CASE ExchangeStep /\ UNCHANGED coordinatorVars
    BY <2>1, <2>4, ExchangeIsFlat
  <2>5. CASE UNCHANGED vars
    <3>1. UNCHANGED <<strategy, phase, leg, order, result>>
      BY <2>5 DEF vars, engineVars
    <3>2. Hedged' => Hedged
      BY <3>1 DEF Hedged
    <3> QED
      BY <3>1, <3>2, FlatStays
  <2> QED
    BY <2>2, <2>3, <2>4, <2>5 DEF Next
<1>3. TypeOK /\ EngineInv /\ FlatInv => BooksAreTrue
  BY FlatFromInv DEF TypeOK, EngineInv, BooksAreTrue
<1> QED
  BY <1>1, <1>2, <1>3, TypeCorrect, EngineInvariant, PTL DEF Spec

-----------------------------------------------------------------------------
(***************************************************************************)
(* An execution ends as the engine reports.                                *)
(***************************************************************************)

\* Beyond the legs no leg of the strategy is pending, and what is booked is a
\* success or a failure that says why.
EngineReports ==
    /\ phase \notin {"idle", "started", "legs"} =>
          \A l \in LegsOf(strategy) : leg[l].status # "PENDING"
    /\ phase \in {"booking", "done"} =>
          \/ result.state = "COMPLETED"
          \/ result.state = "FAILED" /\ result.error # ""

\* Where the workflow is, its machines and the engine agree.
MachinesAgree ==
    /\ step = "planning" => /\ phase = "idle" /\ sm = "NONE" /\ active = FALSE
                            /\ \A l \in LegIds : legSm[l] = "PENDING"
    /\ step = "engine" => /\ phase # "idle" /\ sm = "EXECUTING"
                          /\ \A l \in LegsOf(strategy) : legSm[l] = "SUBMITTING"
    /\ step = "refreshing" => phase = "done"
    /\ step = "returned" => phase \in {"idle", "done"}

EndInv == EngineReports /\ MachinesAgree /\ EndsAsReported

\* The engine steps only while the coordinator awaits it.
LEMMA EngineIsAwaited ==
    ASSUME EngineStep
    PROVE  phase \notin {"idle", "done"}
  BY DEF EngineStep, AdapterMissing, PlaceCrossExchange, PlaceTriangular, CrossLegReturns,
         TriangularLegFills, TriangularLegFails, Awaited, BothFilled, BothFailed,
         OneFailed, PlaceSingleHedge, SingleHedgeReturns, PlacePartialHedge, KeepPartial,
         PartialHedgeReturns, Gathered, Book

\* The state and the error that a result is given.
LEMMA OutcomeParts ==
    \A state, error, q : /\ Outcome(state, error, q).state = state
                         /\ Outcome(state, error, q).error = error
  BY DEF Outcome

\* The legs before the one that is awaited have filled.
LEMMA EarlierLegsFilled ==
    ASSUME EngineTypeOK, EngineInv, NEW l \in LegIds, Awaited(l)
    PROVE  /\ strategy = Tri /\ LegsOf(strategy) = LegIds
           /\ \A k \in LegIds : k < l => leg[k].status = "FILLED"
<1> USE Indices
<1>1. strategy = Tri /\ order[l].sent > 0
  BY DEF Awaited
<1>2. order[l].side # "NONE"
  BY <1>1 DEF EngineInv, Accounts, NoOrder
<1>3. \A k \in {1, 2} : order[k].side # "NONE" =>
            leg[k - 1].status = "FILLED" /\ order[k - 1].side # "NONE"
  BY <1>1 DEF EngineInv, InSequence
<1>4. /\ order[1].side # "NONE" => leg[0].status = "FILLED"
      /\ order[2].side # "NONE" => leg[1].status = "FILLED" /\ order[1].side # "NONE"
  BY <1>3
<1>5. \A k \in LegIds : k < l => leg[k].status = "FILLED"
  BY <1>2, <1>4
<1> QED
  BY <1>1, <1>5 DEF LegsOf, Tri, Cross

\* The last leg of a triangular execution fills, or one fails.
LEMMA TriangularEnds ==
    ASSUME EngineTypeOK, EngineInv, EngineReports, NEW l \in LegIds,
           TriangularLegFills(l) \/ TriangularLegFails(l)
    PROVE  EngineReports'
<1> USE Indices
<1>1. Awaited(l) /\ UNCHANGED strategy /\ phase = "legs"
  BY DEF TriangularLegFills, TriangularLegFails, Awaited
<1>2. /\ LegsOf(strategy) = LegIds
      /\ \A k \in LegIds : k < l => leg[k].status = "FILLED"
  BY <1>1, EarlierLegsFilled
<1>3. LegsOf(strategy)' = LegIds
  BY <1>1, <1>2 DEF LegsOf
<1>4. CASE TriangularLegFills(l) /\ l < 2
  <2>1. phase' = "legs"
    BY <1>1, <1>4 DEF TriangularLegFills
  <2> QED
    BY <2>1 DEF EngineReports
<1>5. CASE TriangularLegFills(l) /\ ~(l < 2)
  <2>1. PICK a \in TimedAnswers(l) :
            /\ leg' = [leg EXCEPT ![l] = Settled(l, "FILLED", a)]
            /\ result' = Outcome("COMPLETED", "", 0)
    BY <1>5 DEF TriangularLegFills
  <2>2. leg'[l].status = "FILLED" /\ \A k \in LegIds : k # l => leg'[k] = leg[k]
    BY <2>1 DEF EngineTypeOK, Settled
  <2>3. \A k \in LegIds : leg'[k].status = "FILLED"
    BY <1>2, <1>5, <2>2
  <2>4. result'.state = "COMPLETED"
    BY <2>1, OutcomeParts
  <2> QED
    BY <1>3, <2>3, <2>4 DEF EngineReports
<1>6. CASE TriangularLegFails(l)
  <2>1. PICK a \in TimedAnswers(l) :
            leg' = [k \in LegIds |-> IF k = l THEN Settled(l, "FAILED", a)
                                     ELSE IF k > l THEN Canceled(k) ELSE leg[k]]
    BY <1>6 DEF TriangularLegFails
  <2>2. /\ Settled(l, "FAILED", a).status = "FAILED"
        /\ \A k \in LegIds : Canceled(k).status = "CANCELED"
    BY DEF Settled, Canceled
  <2>3. \A k \in LegIds : leg'[k].status \in {"FAILED", "CANCELED", "FILLED"}
    BY <1>2, <2>1, <2>2
  <2>4. result' = Outcome("FAILED", "leg failed", 0)
    BY <1>6 DEF TriangularLegFails
  <2>5. result'.state = "FAILED" /\ result'.error # ""
    <3>1. /\ Outcome("FAILED", "leg failed", 0).state = "FAILED"
          /\ Outcome("FAILED", "leg failed", 0).error = "leg failed"
      BY DEF Outcome
    <3> QED
      BY <2>4, <3>1
  <2> QED
    BY <1>3, <2>3, <2>5 DEF EngineReports
<1> QED
  BY <1>4, <1>5, <1>6

\* A result that is booked after the legs.
LEMMA ResultIsReported ==
    ASSUME EngineTypeOK, EngineInv, EngineReports,
           AdapterMissing \/ BothFilled \/ BothFailed \/ SingleHedgeReturns
              \/ KeepPartial \/ PartialHedgeReturns
    PROVE  \/ result'.state = "COMPLETED"
           \/ result'.state = "FAILED" /\ result'.error # ""
<1>1. \/ result' \in {Outcome("COMPLETED", "", MatchedQty), Outcome("COMPLETED", "hedged", 0)}
      \/ \E e \in {"engine", "both legs failed", "hedge failed"} : result' = Outcome("FAILED", e, 0)
  BY DEF AdapterMissing, BothFilled, BothFailed, SingleHedgeReturns, KeepPartial,
         PartialHedgeReturns, AcceptPartial
<1>2. /\ Outcome("COMPLETED", "", MatchedQty).state = "COMPLETED"
      /\ Outcome("COMPLETED", "hedged", 0).state = "COMPLETED"
  BY OutcomeParts
<1>3. \A e : Outcome("FAILED", e, 0).state = "FAILED" /\ Outcome("FAILED", e, 0).error = e
  BY OutcomeParts
<1>4. CASE result' \in {Outcome("COMPLETED", "", MatchedQty), Outcome("COMPLETED", "hedged", 0)}
  BY <1>2, <1>4
<1>5. CASE \E e \in {"engine", "both legs failed", "hedge failed"} : result' = Outcome("FAILED", e, 0)
  <2>1. PICK e \in {"engine", "both legs failed", "hedge failed"} : result' = Outcome("FAILED", e, 0)
    BY <1>5
  <2>2. result'.state = "FAILED" /\ result'.error = e
    BY <1>3, <2>1
  <2> QED
    BY <2>1, <2>2
<1> QED
  BY <1>1, <1>4, <1>5

\* Every step of the engine keeps its reports.
LEMMA EngineKeepsReports ==
    ASSUME EngineTypeOK, EngineInv, EngineReports, EngineStep
    PROVE  EngineReports'
<1> USE Indices
<1>1. CASE \/ AdapterMissing \/ BothFilled \/ BothFailed \/ SingleHedgeReturns
           \/ KeepPartial \/ PartialHedgeReturns
  <2>1. \/ result'.state = "COMPLETED"
        \/ result'.state = "FAILED" /\ result'.error # ""
    BY <1>1, ResultIsReported
  <2>2. UNCHANGED <<strategy, leg>>
    BY <1>1 DEF AdapterMissing, BothFilled, BothFailed, SingleHedgeReturns, KeepPartial,
                PartialHedgeReturns
  <2>3. \/ phase = "started" \/ Gathered \/ phase \notin {"idle", "started", "legs"}
    BY <1>1 DEF AdapterMissing, BothFilled, BothFailed, SingleHedgeReturns, KeepPartial,
                PartialHedgeReturns
  <2>4. \A l \in LegsOf(strategy) : leg[l].status # "PENDING"
    <3>1. CASE phase = "started"
      <4>1. \A l \in LegIds : leg[l] = AbsentLeg
        BY <3>1 DEF EngineInv, Untouched
      <4>2. AbsentLeg.status = "ABSENT"
        BY DEF AbsentLeg
      <4>3. LegsOf(strategy) \subseteq LegIds
        BY DEF LegsOf
      <4> QED
        BY <4>1, <4>2, <4>3
    <3>2. CASE Gathered
      BY <3>2 DEF Gathered, LegsOf
    <3>3. CASE phase \notin {"idle", "started", "legs"}
      BY <3>3 DEF EngineReports
    <3> QED
      BY <2>3, <3>1, <3>2, <3>3
  <2>5. \A l \in LegsOf(strategy)' : leg'[l].status # "PENDING"
    BY <2>2, <2>4 DEF LegsOf
  <2> QED
    BY <2>1, <2>5 DEF EngineReports
<1>2. CASE PlaceCrossExchange \/ PlaceTriangular \/ \E l \in {Buy, Sell} : CrossLegReturns(l)
  <2>1. phase' = "legs"
    BY <1>2 DEF PlaceCrossExchange, PlaceTriangular, CrossLegReturns
  <2> QED
    BY <2>1 DEF EngineReports
<1>3. CASE \E l \in LegIds : TriangularLegFills(l) \/ TriangularLegFails(l)
  BY <1>3, TriangularEnds
<1>4. CASE OneFailed \/ PlacePartialHedge
  <2>1. /\ Gathered /\ UNCHANGED <<strategy, leg>>
        /\ phase' \in {"single_hedge", "partial_hedge"}
    BY <1>4 DEF OneFailed, PlaceSingleHedge, PlacePartialHedge
  <2>2. \A l \in LegsOf(strategy)' : leg'[l].status # "PENDING"
    BY <2>1 DEF Gathered, LegsOf
  <2> QED
    BY <2>1, <2>2 DEF EngineReports
<1>5. CASE Book
  <2>1. phase = "booking" /\ phase' = "done" /\ UNCHANGED <<strategy, leg, result>>
    BY <1>5 DEF Book
  <2> QED
    BY <2>1 DEF EngineReports, LegsOf
<1> QED
  BY <1>1, <1>2, <1>3, <1>4, <1>5 DEF EngineStep

\* Where the machines go from the states the coordinator starts them in.
LEMMA MachinesWalk ==
    /\ Try(LegTransitions, "PENDING", "SUBMITTING") = "SUBMITTING"
    /\ LegAfter("SUBMITTING", "ABSENT") = "SUBMITTING"
    /\ LegAfter("SUBMITTING", "FILLED") = "FILLED"
    /\ LegAfter("SUBMITTING", "PARTIAL_FILLED") = "PARTIAL_FILLED"
    /\ LegAfter("SUBMITTING", "FAILED") = "FAILED"
    /\ LegAfter("SUBMITTING", "CANCELED") = "CANCELLED"
    /\ ExecutionAfter("EXECUTING", "COMPLETED") = "COMPLETED"
    /\ ExecutionAfter("EXECUTING", "FAILED") = "FAILED"
<1>1. /\ LegTransitions["PENDING"] = {"SUBMITTING", "CANCELLED", "ABORTED"}
      /\ LegTransitions["SUBMITTING"] = {"SUBMITTED", "FAILED"}
      /\ LegTransitions["SUBMITTED"] = {"PARTIAL_FILLED", "FILLED", "CANCELLED", "FAILED"}
      /\ ExecutionTransitions["EXECUTING"] =
            {"PARTIALLY_FILLED", "COMPLETED", "FAILED", "HEDGING"}
  BY DEF LegTransitions, ExecutionTransitions
<1>2. /\ LegTry("SUBMITTING", "SUBMITTED") = "SUBMITTED"
      /\ LegTry("SUBMITTED", "FILLED") = "FILLED"
      /\ LegTry("SUBMITTED", "PARTIAL_FILLED") = "PARTIAL_FILLED"
      /\ LegTry("SUBMITTED", "FAILED") = "FAILED"
      /\ LegTry("SUBMITTED", "CANCELLED") = "CANCELLED"
      /\ ~CanTransition(LegTransitions, "SUBMITTING", "CANCELLED")
  BY <1>1 DEF LegTry, Try, CanTransition
<1>3. Try(LegTransitions, "PENDING", "SUBMITTING") = "SUBMITTING"
  BY <1>1 DEF Try, CanTransition
<1>4. /\ LegAfter("SUBMITTING", "ABSENT") = "SUBMITTING"
      /\ LegAfter("SUBMITTING", "FILLED") = "FILLED"
      /\ LegAfter("SUBMITTING", "PARTIAL_FILLED") = "PARTIAL_FILLED"
      /\ LegAfter("SUBMITTING", "FAILED") = "FAILED"
  BY <1>2 DEF LegAfter
<1>5. LegAfter("SUBMITTING", "CANCELED") = "CANCELLED"
  BY <1>2 DEF LegAfter
<1>6. /\ ExecutionAfter("EXECUTING", "COMPLETED") = "COMPLETED"
      /\ ExecutionAfter("EXECUTING", "FAILED") = "FAILED"
  BY <1>1 DEF ExecutionAfter, ExecutionTry, Try, CanTransition
<1> QED
  BY <1>3, <1>4, <1>5, <1>6

\* The ends of the machine.
LEMMA Ends ==
    \A s \in {"RISK_REJECTED", "COMPLETED", "FAILED"} : IsTerminal(ExecutionTransitions, s)
  BY DEF IsTerminal, ExecutionTransitions

\* Up to the engine: no plan, no permission, or a launch.
LEMMA StartsAgree ==
    ASSUME TypeOK, EndInv, PlanFails \/ RiskRejects \/ Launch
    PROVE  EndInv'
<1>1. /\ step = "planning" /\ phase = "idle" /\ sm = "NONE" /\ active = FALSE
      /\ \A l \in LegIds : legSm[l] = "PENDING"
  BY DEF PlanFails, RiskRejects, Launch, EndInv, MachinesAgree
<1>2. CASE PlanFails
  <2>1. /\ phase' = "idle" /\ step' = "returned" /\ sm' = "NONE" /\ active' = FALSE
    BY <1>1, <1>2 DEF PlanFails
  <2> QED
    BY <2>1 DEF EndInv, EngineReports, MachinesAgree, EndsAsReported, ReturnedIsFinal,
                MachinesTellTheResult, FailureIsAlerted
<1>3. CASE RiskRejects
  <2>1. /\ phase' = "idle" /\ step' = "returned" /\ sm' = "RISK_REJECTED" /\ active' = FALSE
    BY <1>1, <1>3 DEF RiskRejects
  <2>2. IsTerminal(ExecutionTransitions, sm')
    BY <2>1, Ends
  <2>3. ReturnedIsFinal'
    BY <2>1, <2>2 DEF ReturnedIsFinal, IsTerminal, ExecutionTransitions
  <2> QED
    BY <2>1, <2>3 DEF EndInv, EngineReports, MachinesAgree, EndsAsReported,
                      MachinesTellTheResult, FailureIsAlerted
<1>4. CASE Launch
  <2>1. /\ phase' = "started" /\ step' = "engine" /\ sm' = "EXECUTING" /\ strategy' = strategy
        /\ legSm' = [l \in LegIds |-> IF l \in LegsOf(strategy)
                                      THEN Try(LegTransitions, legSm[l], "SUBMITTING")
                                      ELSE legSm[l]]
    BY <1>4 DEF Launch, Invoke
  <2>2. LegsOf(strategy) \subseteq LegIds
    BY Indices DEF LegsOf
  <2>3. \A l \in LegsOf(strategy) : legSm'[l] = "SUBMITTING"
    BY <1>1, <2>1, <2>2, MachinesWalk
  <2>4. MachinesAgree'
    BY <2>1, <2>3 DEF MachinesAgree, LegsOf
  <2> QED
    BY <2>1, <2>4 DEF EndInv, EngineReports, EndsAsReported, ReturnedIsFinal,
                      MachinesTellTheResult, FailureIsAlerted
<1> QED
  BY <1>2, <1>3, <1>4

\* After the engine: the machines are walked to what it reported.
LEMMA ResultsAgree ==
    ASSUME TypeOK, EndInv, ProcessResult
    PROVE  EndInv'
<1>1. /\ phase = "done" /\ step = "engine" /\ step' = "refreshing"
      /\ UNCHANGED <<strategy, phase, leg, order, result>>
      /\ legSm' = [l \in LegIds |-> LegAfter(legSm[l], leg[l].status)]
      /\ sm' = ExecutionAfter(sm, result.state)
  BY DEF ProcessResult, engineVars
<1>2. /\ sm = "EXECUTING" /\ \A l \in LegsOf(strategy) : legSm[l] = "SUBMITTING"
      /\ \A l \in LegsOf(strategy) : leg[l].status # "PENDING"
      /\ result.state \in {"COMPLETED", "FAILED"}
  BY <1>1 DEF EndInv, EngineReports, MachinesAgree
<1>3. sm' = result'.state
  BY <1>1, <1>2, MachinesWalk
<1>4. ASSUME NEW l \in LegsOf(strategy)
      PROVE  legSm'[l] = CASE leg[l].status = "ABSENT"   -> "SUBMITTING"
                           [] leg[l].status = "CANCELED" -> "CANCELLED"
                           [] OTHER                      -> leg[l].status
  <2>1. l \in LegIds
    BY Indices DEF LegsOf
  <2>2. leg[l].status \in {"ABSENT", "FILLED", "PARTIAL_FILLED", "FAILED", "CANCELED"}
    BY <1>2, <2>1 DEF TypeOK, EngineTypeOK, LegRecords, LegStatuses
  <2>3. legSm'[l] = LegAfter("SUBMITTING", leg[l].status)
    BY <1>1, <1>2, <2>1
  <2> QED
    BY <2>2, <2>3, MachinesWalk
<1>5. MachinesTellTheResult'
  BY <1>1, <1>3, <1>4 DEF MachinesTellTheResult, LegsOf
<1>6. EngineReports'
  BY <1>1 DEF EndInv, EngineReports, LegsOf
<1> QED
  BY <1>1, <1>5, <1>6 DEF EndInv, MachinesAgree, EndsAsReported, ReturnedIsFinal,
                          FailureIsAlerted

\* The end: alerts, and the execution is no longer listed.
LEMMA ConclusionAgrees ==
    ASSUME TypeOK, EndInv, Conclude
    PROVE  EndInv'
<1>1. /\ step = "refreshing" /\ step' = "returned" /\ phase = "done"
      /\ UNCHANGED <<strategy, phase, leg, order, result, sm, legSm>>
      /\ alerts' \in PostExecutionAlerts
      /\ active' = (active /\ ~IsTerminal(ExecutionTransitions, sm))
  BY DEF Conclude, engineVars, EndInv, MachinesAgree
<1>2. /\ sm = result.state
      /\ \/ result.state = "COMPLETED"
         \/ result.state = "FAILED" /\ result.error # ""
  BY <1>1 DEF EndInv, EngineReports, EndsAsReported, MachinesTellTheResult
<1>3. IsTerminal(ExecutionTransitions, sm)
  BY <1>2, Ends
<1>4. IsTerminal(ExecutionTransitions, sm)' /\ ~active'
  BY <1>1, <1>3 DEF IsTerminal, ExecutionTransitions
<1>5. ReturnedIsFinal'
  BY <1>4 DEF ReturnedIsFinal
<1>6. MachinesTellTheResult'
  BY <1>1 DEF EndInv, EndsAsReported, MachinesTellTheResult, LegsOf
<1>7. FailureIsAlerted'
  <2>1. PICK m \in MoneyAlerts : alerts' = StateAlerts \cup m
    BY <1>1 DEF PostExecutionAlerts
  <2>2. result.state = "FAILED" => "EXECUTION_FAILED" \in StateAlerts
    BY <1>2 DEF StateAlerts
  <2> QED
    BY <1>1, <2>1, <2>2 DEF FailureIsAlerted
<1>8. EngineReports'
  BY <1>1 DEF EndInv, EngineReports, LegsOf
<1>9. MachinesAgree'
  BY <1>1 DEF MachinesAgree
<1> QED
  BY <1>5, <1>6, <1>7, <1>8, <1>9 DEF EndInv, EndsAsReported

\* Where the workflow is, its machines, the engine and what was reported agree
\* in every reachable state.
THEOREM WorkflowAgrees == Spec => []EndInv
<1>1. Init => EndInv
  <2> SUFFICES ASSUME Init
               PROVE  EndInv
    OBVIOUS
  <2>1. /\ phase = "idle" /\ step = "planning" /\ sm = "NONE" /\ active = FALSE
        /\ legSm = [l \in LegIds |-> "PENDING"]
    BY DEF Init, EngineInit
  <2> QED
    BY <2>1 DEF EndInv, EngineReports, MachinesAgree, EndsAsReported, ReturnedIsFinal,
                MachinesTellTheResult, FailureIsAlerted
<1>2. TypeOK /\ EngineInv /\ EndInv /\ [Next]_vars => EndInv'
  <2> SUFFICES ASSUME TypeOK, EngineInv, EndInv, [Next]_vars
               PROVE  EndInv'
    OBVIOUS
  <2>1. CASE CoordinatorStep
    BY <2>1, StartsAgree, ResultsAgree, ConclusionAgrees DEF CoordinatorStep
  <2>2. CASE EngineStep /\ UNCHANGED coordinatorVars
    <3>1. EngineReports'
      BY <2>2, EngineKeepsReports DEF TypeOK, EndInv
    <3>2. phase \notin {"idle", "done"} /\ step = "engine"
      BY <2>2, EngineIsAwaited DEF TypeOK, EndInv, MachinesAgree
    <3>3. step' = "engine" /\ UNCHANGED <<sm, legSm, active, alerts>>
      BY <2>2, <3>2 DEF coordinatorVars
    <3>4. phase' # "idle" /\ strategy' = strategy
      BY <2>2 DEF EngineStep, AdapterMissing, PlaceCrossExchange, PlaceTriangular,
           CrossLegReturns, TriangularLegFills, TriangularLegFails, Awaited, BothFilled,
           BothFailed, OneFailed, PlaceSingleHedge, SingleHedgeReturns, PlacePartialHedge,
           KeepPartial, PartialHedgeReturns, Gathered, Book
    <3>5. MachinesAgree'
      BY <3>2, <3>3, <3>4 DEF EndInv, MachinesAgree, LegsOf
    <3> QED
      BY <3>1, <3>3, <3>5 DEF EndInv, EndsAsReported, ReturnedIsFinal,
                              MachinesTellTheResult, FailureIsAlerted
  <2>3. CASE \/ ExchangeStep /\ UNCHANGED coordinatorVars
             \/ UNCHANGED vars
    <3>1. UNCHANGED <<strategy, phase, leg, result, step, sm, legSm, active, alerts>>
      BY <2>3 DEF ExchangeStep, Decide, Resend, coordinatorVars, vars, engineVars
    <3>2. EngineReports' /\ MachinesAgree'
      BY <3>1 DEF EndInv, EngineReports, MachinesAgree, LegsOf
    <3>3. EndsAsReported'
      BY <3>1 DEF EndInv, EndsAsReported, ReturnedIsFinal, MachinesTellTheResult,
                  FailureIsAlerted, LegsOf, IsTerminal, ExecutionTransitions
    <3> QED
      BY <3>2, <3>3 DEF EndInv
  <2> QED
    BY <2>1, <2>2, <2>3 DEF Next
<1> QED
  BY <1>1, <1>2, TypeCorrect, EngineInvariant, PTL DEF Spec

\* When execute_opportunity returns, the execution is over for its machines, for
\* the list of active executions and for the alerts, and all of them say what
\* the engine reported: for every quantity and whatever the exchanges do.
THEOREM EndsTruthfully == Spec => []EndsAsReported
<1>1. EndInv => EndsAsReported
  BY DEF EndInv
<1> QED
  BY <1>1, WorkflowAgrees, PTL
-----------------------------------------------------------------------------
(***************************************************************************)
(* The life cycle an observer sees.  A settlement needs to know which legs *)
(* are in the result: all of the strategy's or, when the engine failed     *)
(* before it placed an order, none; and that a success had a leg that      *)
(* traded.                                                                 *)
(***************************************************************************)
SomeTraded == \E l \in LegsOf(strategy) : leg[l].status \in {"FILLED", "PARTIAL_FILLED"}

AllPresent == \A l \in LegsOf(strategy) : leg[l].status # "ABSENT"

NonePresent == \A l \in LegsOf(strategy) : leg[l].status = "ABSENT"

LegsInResult ==
    /\ phase = "legs" => AllPresent
    /\ phase \in {"single_hedge", "partial_hedge"} => AllPresent /\ SomeTraded
    /\ phase \in {"booking", "done"} =>
          \/ NonePresent /\ result.state # "COMPLETED"
          \/ AllPresent /\ (result.state = "COMPLETED" => SomeTraded)

\* The legs of either strategy.
LEMMA StrategyLegs ==
    /\ LegsOf(Cross) = {Buy, Sell} /\ LegsOf(Tri) = LegIds /\ Cross # Tri
    /\ \A s : LegsOf(s) \subseteq LegIds
BY Indices DEF LegsOf, Cross, Tri

\* Orders are placed for all the legs of the strategy.
LEMMA PlacingPresentsLegs ==
    ASSUME EngineTypeOK, PlaceCrossExchange \/ PlaceTriangular
    PROVE  LegsInResult'
<1>1. phase' = "legs" /\ strategy' = strategy
  BY DEF PlaceCrossExchange, PlaceTriangular
<1>2. \A q : PlannedLeg(q).status # "ABSENT"
  BY DEF PlannedLeg
<1>3. \A l \in LegsOf(strategy) : leg'[l].status # "ABSENT"
  <2>0. DOMAIN leg = LegIds
    BY DEF EngineTypeOK
  <2>1. CASE PlaceCrossExchange
    <3>1. strategy = Cross /\ leg' = [leg EXCEPT ![Buy] = PlannedLeg(Qty), ![Sell] = PlannedLeg(Qty)]
      BY <2>1, Zenon DEF PlaceCrossExchange
    <3> QED
      BY <2>0, <3>1, <1>2, StrategyLegs, Indices
  <2>2. CASE PlaceTriangular
    <3>1. strategy = Tri /\ leg' = [l \in LegIds |-> PlannedLeg(Qty)]
      BY <2>2, Zenon DEF PlaceTriangular
    <3> QED
      BY <3>1, <1>2, StrategyLegs
  <2> QED
    BY <2>1, <2>2
<1> QED
  BY <1>1, <1>3 DEF LegsInResult, AllPresent

\* A leg that returns stays in the result.
LEMMA CrossReturnKeepsLegs ==
    ASSUME EngineTypeOK, LegsInResult, NEW l \in {Buy, Sell}, CrossLegReturns(l)
    PROVE  LegsInResult'
<1>1. phase = "legs" /\ phase' = "legs" /\ strategy' = strategy
  BY DEF CrossLegReturns
<1>2. PICK a : leg' = [leg EXCEPT ![l] = Settled(l, LegStatus(a), a)]
  BY DEF CrossLegReturns
<1>3. Settled(l, LegStatus(a), a).status # "ABSENT"
  BY DEF Settled, LegStatus
<1>4. \A k \in LegsOf(strategy) : leg'[k].status # "ABSENT"
  <2>1. l \in LegIds
    BY Indices
  <2>2. \A k \in LegIds : k # l => leg'[k] = leg[k]
    BY <1>2, <2>1 DEF EngineTypeOK
  <2>3. leg'[l].status # "ABSENT"
    BY <1>2, <1>3, <2>1 DEF EngineTypeOK
  <2> QED
    BY <1>1, <2>2, <2>3, StrategyLegs DEF LegsInResult, AllPresent
<1> QED
  BY <1>1, <1>4 DEF LegsInResult, AllPresent

\* So do the legs of a triangular execution; its last fill is one that traded.
LEMMA TriangularKeepsLegs ==
    ASSUME EngineTypeOK, LegsInResult, NEW l \in LegIds,
           TriangularLegFills(l) \/ TriangularLegFails(l)
    PROVE  LegsInResult'
<1> USE Indices
<1>1. /\ phase = "legs" /\ strategy = Tri /\ strategy' = strategy
      /\ LegsOf(strategy) = LegIds
  BY StrategyLegs DEF TriangularLegFills, TriangularLegFails, Awaited
<1>2. \A k \in LegIds : leg[k].status # "ABSENT"
  BY <1>1 DEF LegsInResult, AllPresent
<1>3. /\ \A s, a : Settled(l, s, a).status = s
      /\ \A q : PlannedLeg(q).status = "PENDING"
      /\ \A k : Canceled(k).status = "CANCELED"
  BY DEF Settled, PlannedLeg, Canceled
<1>4. CASE TriangularLegFills(l) /\ l < 2
  <2>1. PICK a, q : leg' = [leg EXCEPT ![l] = Settled(l, "FILLED", a), ![l + 1] = PlannedLeg(q)]
    BY <1>4 DEF TriangularLegFills
  <2>2. \A k \in LegIds : leg'[k].status # "ABSENT"
    BY <1>2, <1>3, <2>1 DEF EngineTypeOK
  <2>3. phase' = "legs"
    BY <1>1, <1>4 DEF TriangularLegFills
  <2> QED
    BY <1>1, <2>2, <2>3 DEF LegsInResult, AllPresent
<1>5. CASE TriangularLegFills(l) /\ ~(l < 2)
  <2>1. PICK a : leg' = [leg EXCEPT ![l] = Settled(l, "FILLED", a)]
    BY <1>5 DEF TriangularLegFills
  <2>2. \A k \in LegIds : leg'[k].status # "ABSENT"
    BY <1>2, <1>3, <2>1 DEF EngineTypeOK
  <2>3. leg'[l].status = "FILLED"
    BY <1>3, <2>1 DEF EngineTypeOK
  <2>4. phase' = "booking"
    BY <1>5 DEF TriangularLegFills
  <2> QED
    BY <1>1, <2>2, <2>3, <2>4 DEF LegsInResult, AllPresent, SomeTraded
<1>6. CASE TriangularLegFails(l)
  <2>1. PICK a : leg' = [k \in LegIds |-> IF k = l THEN Settled(l, "FAILED", a)
                                          ELSE IF k > l THEN Canceled(k) ELSE leg[k]]
    BY <1>6 DEF TriangularLegFails
  <2>2. \A k \in LegIds : leg'[k].status # "ABSENT"
    BY <1>2, <1>3, <2>1
  <2>3. phase' = "booking" /\ result' = Outcome("FAILED", "leg failed", 0)
    BY <1>6 DEF TriangularLegFails
  <2>4. result'.state # "COMPLETED"
    <3>1. Outcome("FAILED", "leg failed", 0).state = "FAILED"
      BY OutcomeParts
    <3> QED
      BY <2>3, <3>1
  <2> QED
    BY <1>1, <2>2, <2>3, <2>4 DEF LegsInResult, AllPresent
<1> QED
  BY <1>4, <1>5, <1>6

\* A step that leaves the legs alone ends them as they are.
LEMMA SameLegs ==
    ASSUME UNCHANGED <<strategy, leg>>
    PROVE  /\ AllPresent' <=> AllPresent
           /\ NonePresent' <=> NonePresent
           /\ SomeTraded' <=> SomeTraded
BY DEF AllPresent, NonePresent, SomeTraded

\* The steps after the legs.
LEMMA LaterStepsKeepLegs ==
    ASSUME EngineTypeOK, EngineInv, LegsInResult,
           \/ AdapterMissing \/ BothFilled \/ BothFailed \/ OneFailed \/ SingleHedgeReturns
           \/ PlacePartialHedge \/ KeepPartial \/ PartialHedgeReturns \/ Book
    PROVE  LegsInResult'
<1>1. UNCHANGED <<strategy, leg>>
  BY DEF AdapterMissing, BothFilled, BothFailed, OneFailed, PlaceSingleHedge,
         SingleHedgeReturns, PlacePartialHedge, KeepPartial, PartialHedgeReturns, Book
<1>2. CASE AdapterMissing
  <2>1. NonePresent
    <3>1. \A l \in LegIds : leg[l] = AbsentLeg
      BY <1>2 DEF AdapterMissing, EngineInv, Untouched
    <3>2. AbsentLeg.status = "ABSENT"
      BY DEF AbsentLeg
    <3> QED
      BY <3>1, <3>2, StrategyLegs DEF NonePresent
  <2>2. phase' = "booking" /\ result'.state = "FAILED"
    <3>1. Outcome("FAILED", "engine", 0).state = "FAILED"
      BY OutcomeParts
    <3> QED
      BY <1>2, <3>1 DEF AdapterMissing
  <2> QED
    BY <1>1, <2>1, <2>2, SameLegs DEF LegsInResult
<1>3. CASE BothFilled \/ OneFailed \/ PlacePartialHedge \/ KeepPartial
  <2>1. Gathered /\ (\E l \in {Buy, Sell} : leg[l].status \in {"FILLED", "PARTIAL_FILLED"})
    BY <1>3 DEF BothFilled, OneFailed, PlaceSingleHedge, PlacePartialHedge, KeepPartial, AnyPartial
  <2>2. AllPresent /\ SomeTraded
    BY <2>1, StrategyLegs DEF Gathered, LegsInResult, SomeTraded
  <2>3. phase' \in {"booking", "single_hedge", "partial_hedge"}
    BY <1>3 DEF BothFilled, OneFailed, PlaceSingleHedge, PlacePartialHedge, KeepPartial
  <2> QED
    BY <1>1, <2>2, <2>3, SameLegs DEF LegsInResult
<1>4. CASE BothFailed
  <2>1. AllPresent
    BY <1>4 DEF BothFailed, Gathered, LegsInResult
  <2>2. phase' = "booking" /\ result'.state = "FAILED"
    <3>1. Outcome("FAILED", "both legs failed", 0).state = "FAILED"
      BY OutcomeParts
    <3> QED
      BY <1>4, <3>1 DEF BothFailed
  <2> QED
    BY <1>1, <2>1, <2>2, SameLegs DEF LegsInResult
<1>5. CASE SingleHedgeReturns \/ PartialHedgeReturns
  <2>1. phase \in {"single_hedge", "partial_hedge"} /\ phase' = "booking"
    BY <1>5 DEF SingleHedgeReturns, PartialHedgeReturns
  <2> QED
    BY <1>1, <2>1, SameLegs DEF LegsInResult
<1>6. CASE Book
  <2>1. phase = "booking" /\ phase' = "done" /\ result' = result
    BY <1>6 DEF Book
  <2> QED
    BY <1>1, <2>1, SameLegs DEF LegsInResult
<1> QED
  BY <1>2, <1>3, <1>4, <1>5, <1>6

\* A success has a leg that traded, and the result has all the legs or none.
THEOREM LegsAreInResult == Spec => []LegsInResult
<1>1. Init => LegsInResult
  BY DEF Init, EngineInit, LegsInResult
<1>2. TypeOK /\ EngineInv /\ EndInv /\ LegsInResult /\ [Next]_vars => LegsInResult'
  <2> SUFFICES ASSUME TypeOK, EngineInv, EndInv, LegsInResult, [Next]_vars
               PROVE  LegsInResult'
    OBVIOUS
  <2>1. CASE PlanFails \/ RiskRejects \/ Launch
    <3>1. phase = "idle" /\ phase' \in {"idle", "started"}
      BY <2>1 DEF PlanFails, RiskRejects, Launch, Invoke, EndInv, MachinesAgree
    <3> QED
      BY <3>1 DEF LegsInResult
  <2>2. CASE \/ ProcessResult \/ Conclude
             \/ ExchangeStep /\ UNCHANGED coordinatorVars
             \/ UNCHANGED vars
    <3>1. UNCHANGED <<strategy, phase, leg, result>>
      BY <2>2 DEF ProcessResult, Conclude, engineVars, ExchangeStep, Decide, Resend, vars
    <3> QED
      BY <3>1, SameLegs DEF LegsInResult
  <2>3. CASE EngineStep
    BY <2>3, PlacingPresentsLegs, CrossReturnKeepsLegs, TriangularKeepsLegs, LaterStepsKeepLegs
       DEF EngineStep, TypeOK
  <2> QED
    BY <2>1, <2>2, <2>3 DEF Next, CoordinatorStep
<1> QED
  BY <1>1, <1>2, TypeCorrect, EngineInvariant, WorkflowAgrees, PTL DEF Spec

\* What the life cycle needs of the machines' maps: any set closed under the
\* transitions that holds the start holds these ends.
LEMMA ReachFacts ==
    /\ {"ABORTED", "RISK_REJECTED", "EXECUTING"} \subseteq Observed!ExecutionReach["CREATED"]
    /\ {"COMPLETED", "FAILED"} \subseteq Observed!ExecutionReach["EXECUTING"]
    /\ {"SUBMITTING", "FILLED", "PARTIAL_FILLED", "FAILED", "CANCELLED"}
          \subseteq Observed!LegReach["SUBMITTING"]
<1> DEFINE ET == Observed!ExecutionTransitions
           LT == Observed!LegTransitions
<1>1. /\ ET["CREATED"] = {"RISK_CHECKING", "RISK_REJECTED", "ABORTED"}
      /\ ET["RISK_CHECKING"] = {"READY", "RISK_REJECTED"}
      /\ ET["READY"] = {"EXECUTING", "ABORTED"}
      /\ ET["EXECUTING"] = {"PARTIALLY_FILLED", "COMPLETED", "FAILED", "HEDGING"}
      /\ DOMAIN ET = ExecutionStates /\ Observed!ExecutionStates = ExecutionStates
  BY DEF Observed!ExecutionTransitions, ExecutionTransitions, ExecutionStates,
         Observed!ExecutionStates
<1>2. /\ LT["SUBMITTING"] = {"SUBMITTED", "FAILED"}
      /\ LT["SUBMITTED"] = {"PARTIAL_FILLED", "FILLED", "CANCELLED", "FAILED"}
      /\ DOMAIN LT = LegStates /\ Observed!LegStates = LegStates
  BY DEF Observed!LegTransitions, LegTransitions, LegStates, Observed!LegStates
<1> HIDE DEF ET, LT
<1>3. ASSUME NEW S, "CREATED" \in S, Observed!Closed(ET, S)
      PROVE  {"ABORTED", "RISK_REJECTED", "EXECUTING"} \subseteq S
  <2>1. "RISK_CHECKING" \in S /\ "RISK_REJECTED" \in S /\ "ABORTED" \in S
    BY <1>1, <1>3 DEF Observed!Closed
  <2>2. "READY" \in S
    BY <1>1, <1>3, <2>1 DEF Observed!Closed
  <2> QED
    BY <1>1, <1>3, <2>1, <2>2 DEF Observed!Closed
<1>4. ASSUME NEW S, "EXECUTING" \in S, Observed!Closed(ET, S)
      PROVE  {"COMPLETED", "FAILED"} \subseteq S
  BY <1>1, <1>4 DEF Observed!Closed
<1>5. ASSUME NEW S, "SUBMITTING" \in S, Observed!Closed(LT, S)
      PROVE  {"SUBMITTING", "FILLED", "PARTIAL_FILLED", "FAILED", "CANCELLED"} \subseteq S
  <2>1. "SUBMITTED" \in S /\ "FAILED" \in S
    BY <1>2, <1>5 DEF Observed!Closed
  <2> QED
    BY <1>2, <1>5, <2>1 DEF Observed!Closed
<1>6. {"ABORTED", "RISK_REJECTED", "EXECUTING"} \subseteq Observed!Reachable(ET, "CREATED")
  BY <1>1, <1>3, MapDomains DEF Observed!Reachable
<1>7. {"COMPLETED", "FAILED"} \subseteq Observed!Reachable(ET, "EXECUTING")
  BY <1>1, <1>4, MapDomains DEF Observed!Reachable
<1>8. {"SUBMITTING", "FILLED", "PARTIAL_FILLED", "FAILED", "CANCELLED"}
         \subseteq Observed!Reachable(LT, "SUBMITTING")
  BY <1>2, <1>5, MapDomains DEF Observed!Reachable
<1> QED
  BY <1>1, <1>2, <1>6, <1>7, <1>8, MapDomains DEF Observed!ExecutionReach, Observed!LegReach, ET, LT

\* What the observer sees of the execution and of its legs.
SeenExecution == IF sm # "NONE" THEN sm ELSE IF step = "returned" THEN "ABORTED" ELSE "CREATED"

SeenLegs == [l \in LegsOf(strategy) |-> legSm[l]]

\* The observer starts with a created execution and its pending legs.
LEMMA StartIsObserved ==
    ASSUME Init
    PROVE  Observed!Init
<1>1. sm = "NONE" /\ step = "planning" /\ legSm = [l \in LegIds |-> "PENDING"]
      /\ strategy \in {Cross, Tri}
  BY DEF Init, EngineInit
<1>2. SeenExecution = "CREATED"
  BY <1>1 DEF SeenExecution
<1>3. LegsOf(strategy) \in {{Buy, Sell}, LegIds}
  BY <1>1, StrategyLegs
<1>4. SeenLegs = [l \in LegsOf(strategy) |-> "PENDING"]
  BY <1>1, StrategyLegs DEF SeenLegs
<1> QED
  BY <1>2, <1>3, <1>4 DEF Observed!Init, SeenExecution, SeenLegs

\* A plan that cannot be built and a refusal are refusals to the observer.
LEMMA RefusalIsObserved ==
    ASSUME EndInv, PlanFails \/ RiskRejects
    PROVE  Observed!Refuse
<1>1. step = "planning" /\ sm = "NONE" /\ step' = "returned"
      /\ UNCHANGED <<strategy, legSm>>
      /\ sm' \in {"NONE", "RISK_REJECTED"}
  BY DEF PlanFails, RiskRejects, EndInv, MachinesAgree
<1>2. SeenExecution = "CREATED" /\ SeenExecution' \in {"ABORTED", "RISK_REJECTED"}
  BY <1>1 DEF SeenExecution
<1>3. SeenLegs' = SeenLegs
  BY <1>1 DEF SeenLegs
<1>4. SeenExecution' \in Observed!ExecutionReach[SeenExecution]
  BY <1>2, ReachFacts
<1> QED
  BY <1>2, <1>3, <1>4 DEF Observed!Refuse, SeenExecution, SeenLegs

\* The start of the engine submits all the legs.
LEMMA LaunchIsObserved ==
    ASSUME EndInv, Launch
    PROVE  Observed!Launch
<1>1. /\ step = "planning" /\ sm = "NONE" /\ sm' = "EXECUTING" /\ strategy' = strategy
      /\ \A l \in LegIds : legSm[l] = "PENDING"
      /\ legSm' = [l \in LegIds |-> IF l \in LegsOf(strategy)
                                    THEN Try(LegTransitions, legSm[l], "SUBMITTING")
                                    ELSE legSm[l]]
  BY DEF Launch, Invoke, EndInv, MachinesAgree
<1>2. SeenExecution = "CREATED" /\ SeenExecution' = "EXECUTING"
  BY <1>1 DEF SeenExecution
<1>3. SeenExecution' \in Observed!ExecutionReach[SeenExecution]
  BY <1>2, ReachFacts
<1>4. \A l \in LegsOf(strategy) : legSm'[l] = "SUBMITTING"
  BY <1>1, StrategyLegs, MachinesWalk
<1>5. SeenLegs' = [l \in DOMAIN SeenLegs |-> "SUBMITTING"]
  BY <1>1, <1>4 DEF SeenLegs
<1> QED
  BY <1>2, <1>3, <1>5 DEF Observed!Launch, SeenExecution, SeenLegs

\* Processing the result settles the execution once, along the machines' maps
\* and in agreement with its legs.
LEMMA SettlementIsObserved ==
    ASSUME TypeOK, EndInv, EndInv', LegsInResult, ProcessResult
    PROVE  Observed!Settle
<1>1. /\ step = "engine" /\ step' = "refreshing" /\ phase = "done" /\ sm = "EXECUTING"
      /\ UNCHANGED <<strategy, phase, leg, result>>
      /\ \A l \in LegsOf(strategy) : legSm[l] = "SUBMITTING" /\ leg[l].status # "PENDING"
      /\ result.state \in {"COMPLETED", "FAILED"}
  BY DEF ProcessResult, engineVars, EndInv, MachinesAgree, EngineReports
<1>2. /\ sm' = result.state
      /\ \A l \in LegsOf(strategy) :
           legSm'[l] = CASE leg[l].status = "ABSENT"   -> "SUBMITTING"
                         [] leg[l].status = "CANCELED" -> "CANCELLED"
                         [] OTHER                      -> leg[l].status
  BY <1>1 DEF EndInv, EndsAsReported, MachinesTellTheResult, LegsOf
<1>3. \A l \in LegsOf(strategy) :
        leg[l].status \in {"ABSENT", "FILLED", "PARTIAL_FILLED", "FAILED", "CANCELED"}
  BY <1>1, StrategyLegs DEF TypeOK, EngineTypeOK, LegRecords, LegStatuses
<1>4. \A l \in LegsOf(strategy) :
        /\ legSm'[l] \in {"SUBMITTING", "FILLED", "PARTIAL_FILLED", "FAILED", "CANCELLED"}
        /\ leg[l].status = "ABSENT" => legSm'[l] = "SUBMITTING"
        /\ leg[l].status # "ABSENT" => legSm'[l] \in {"FILLED", "PARTIAL_FILLED", "FAILED", "CANCELLED"}
        /\ leg[l].status \in {"FILLED", "PARTIAL_FILLED"} => legSm'[l] = leg[l].status
  BY <1>2, <1>3
<1>5. /\ DOMAIN SeenLegs = LegsOf(strategy)
      /\ SeenLegs' = [l \in LegsOf(strategy) |-> legSm'[l]]
      /\ \A l \in LegsOf(strategy) : SeenLegs[l] = "SUBMITTING" /\ SeenLegs'[l] = legSm'[l]
  BY <1>1 DEF SeenLegs
<1>6. /\ SeenExecution = "EXECUTING" /\ SeenExecution' = result.state
      /\ SeenExecution' \in {"COMPLETED", "FAILED"}
      /\ SeenExecution' \in Observed!ExecutionReach[SeenExecution]
  <2>1. SeenExecution = "EXECUTING" /\ SeenExecution' = result.state
    BY <1>1, <1>2 DEF SeenExecution
  <2> QED
    BY <1>1, <2>1, ReachFacts
<1>7. SeenLegs' \in [DOMAIN SeenLegs -> Observed!LegStates]
  BY <1>4, <1>5, MapDomains DEF LegStates, Observed!LegStates, LegTransitions,
                                Observed!LegTransitions
<1>8. \A l \in DOMAIN SeenLegs : SeenLegs'[l] \in Observed!LegReach[SeenLegs[l]]
  BY <1>4, <1>5, ReachFacts
<1>9. \/ \A l \in DOMAIN SeenLegs : SeenLegs'[l] = "SUBMITTING"
      \/ \A l \in DOMAIN SeenLegs :
            SeenLegs'[l] \in {"FILLED", "PARTIAL_FILLED", "FAILED", "CANCELLED"}
  BY <1>1, <1>4, <1>5 DEF LegsInResult, NonePresent, AllPresent
<1>10. SeenExecution' = "COMPLETED" => Observed!Traded(SeenLegs') # {}
  <2> SUFFICES ASSUME result.state = "COMPLETED" PROVE Observed!Traded(SeenLegs') # {}
    BY <1>6
  <2>1. PICK l \in LegsOf(strategy) : leg[l].status \in {"FILLED", "PARTIAL_FILLED"}
    BY <1>1 DEF LegsInResult, SomeTraded
  <2>2. l \in DOMAIN SeenLegs' /\ SeenLegs'[l] \in {"FILLED", "PARTIAL_FILLED"}
    BY <1>4, <1>5, <2>1
  <2> QED
    BY <2>2 DEF Observed!Traded
<1> QED
  BY <1>6, <1>7, <1>8, <1>9, <1>10 DEF Observed!Settle, SeenExecution, SeenLegs

\* The engine, the exchanges and the conclusion change nothing the observer sees.
LEMMA RestIsUnseen ==
    ASSUME EndInv, \/ Conclude
                   \/ EngineStep /\ UNCHANGED coordinatorVars
                   \/ ExchangeStep /\ UNCHANGED coordinatorVars
                   \/ UNCHANGED vars
    PROVE  UNCHANGED Observed!vars
<1>1. UNCHANGED <<strategy, legSm, sm>>
  <2>1. CASE EngineStep /\ UNCHANGED coordinatorVars
    BY <2>1 DEF coordinatorVars, EngineStep, AdapterMissing, PlaceCrossExchange, PlaceTriangular,
         CrossLegReturns, TriangularLegFills, TriangularLegFails, BothFilled, BothFailed,
         OneFailed, PlaceSingleHedge, SingleHedgeReturns, PlacePartialHedge, KeepPartial,
         PartialHedgeReturns, Book
  <2> QED
    BY <2>1 DEF Conclude, engineVars, ExchangeStep, Decide, Resend, coordinatorVars, vars
<1>2. SeenExecution' = SeenExecution
  <2>1. CASE Conclude
    <3>1. sm = result.state /\ result.state \in {"COMPLETED", "FAILED"}
      BY <2>1 DEF Conclude, EndInv, MachinesAgree, EngineReports, EndsAsReported,
                  MachinesTellTheResult
    <3> QED
      BY <1>1, <3>1 DEF SeenExecution
  <2>2. CASE ~Conclude
    BY <1>1, <2>2 DEF SeenExecution, coordinatorVars, vars
  <2> QED
    BY <2>1, <2>2
<1>3. SeenLegs' = SeenLegs
  BY <1>1 DEF SeenLegs
<1> QED
  BY <1>2, <1>3 DEF Observed!vars, SeenExecution, SeenLegs

\* The workflow implements what an observer is promised: an execution is refused,
\* or launched with all its legs and settled once, along the machines' maps, in
\* agreement with its legs. (That it is settled at all is liveness.)
THEOREM LifecycleIsKept == Spec => Observed!Safety
<1>1. Init => Observed!Init
  BY StartIsObserved
<1>2. TypeOK /\ EndInv /\ EndInv' /\ LegsInResult /\ [Next]_vars
        => [Observed!Next]_(Observed!vars)
  <2> SUFFICES ASSUME TypeOK, EndInv, EndInv', LegsInResult, [Next]_vars
               PROVE  [Observed!Next]_(Observed!vars)
    OBVIOUS
  <2>1. CASE PlanFails \/ RiskRejects
    BY <2>1, RefusalIsObserved DEF Observed!Next
  <2>2. CASE Launch
    BY <2>2, LaunchIsObserved DEF Observed!Next
  <2>3. CASE ProcessResult
    BY <2>3, SettlementIsObserved DEF Observed!Next
  <2>4. CASE \/ Conclude
             \/ EngineStep /\ UNCHANGED coordinatorVars
             \/ ExchangeStep /\ UNCHANGED coordinatorVars
             \/ UNCHANGED vars
    BY <2>4, RestIsUnseen
  <2> QED
    BY <2>1, <2>2, <2>3, <2>4 DEF Next, CoordinatorStep
<1> QED
  BY <1>1, <1>2, TypeCorrect, WorkflowAgrees, LegsAreInResult, PTL DEF Spec, Observed!Safety
=============================================================================
