--------------- MODULE AutoExecutionAndTracking_proofs ---------------
(***************************************************************************)
(* Proofs about modules AutoExecution and OrderTracker, the two parts of   *)
(* the backend that work in its background.                                *)
(*                                                                         *)
(* AutoExecution, for any number of scan tasks, API requests and symbols:  *)
(* type correctness, and what _auto_exec_lock and the finally block        *)
(* protect.                                                                *)
(*                                                                         *)
(* OrderTracker, for any orders, quantities, limits and sizes of the ring: *)
(* the books of the tracker are sound.                                     *)
(***************************************************************************)
EXTENDS AutoExecution, OrderTracker, SequenceTheorems, TLAPS

-----------------------------------------------------------------------------
(***************************************************************************)
(* Automatic execution: type correctness.                                  *)
(***************************************************************************)
\* The backend starts in a state of the right types.
LEMMA InitTypes ==
    ASSUME AutoInit
    PROVE  AutoTypeOK
<1>1. symbol \in [Scans -> Symbols]
  BY DEF AutoInit
<1>2. -Cooldown \in -Cooldown..MaxTime /\ 0 \in 0..MaxTime
  BY TimeAssumption
<1>3. last \in [Symbols -> -Cooldown..MaxTime] /\ begun \in [Symbols -> -Cooldown..MaxTime]
  BY <1>2 DEF AutoInit
<1>4. queue \in Seq(Scans)
  BY DEF AutoInit
<1> QED
  BY <1>1, <1>2, <1>3, <1>4 DEF AutoInit, AutoTypeOK

\* The part of a step that takes the lock keeps the types.
LEMMA EntersTypes ==
    ASSUME AutoTypeOK, NEW t \in Scans, NEW s \in Symbols, Enters(t, s)
    PROVE  /\ lock' \in Scans /\ relaxed' \in BOOLEAN
           /\ pc' \in [Actors -> {"idle", "queued", "evaluating", "trading", "closing",
                                  "done"}]
           /\ begun' \in [Symbols -> -Cooldown..MaxTime]
           /\ spared' \subseteq Scans
<1>1. t \in Actors
  BY DEF Actors
<1>2. now \in -Cooldown..MaxTime
  BY TimeAssumption DEF AutoTypeOK
<1> QED
  BY <1>1, <1>2 DEF AutoTypeOK, Enters, Relax

\* An opportunity that passes the checks keeps the types.
LEMMA FoundKeepsTypes ==
    ASSUME AutoTypeOK, NEW t \in Scans, NEW s \in Symbols, Found(t, s)
    PROVE  AutoTypeOK'
<1>1. t \in Actors
  BY DEF Actors
<1>2. now \in -Cooldown..MaxTime
  BY TimeAssumption DEF AutoTypeOK
<1>3. last' \in [Symbols -> -Cooldown..MaxTime] /\ symbol' \in [Scans -> Symbols]
  BY <1>2 DEF Found, Passes, Stamp, LockIsFree, AutoTypeOK
<1>4. CASE lock = NoScan /\ queue = <<>>
  <2>1. Enters(t, s) /\ UNCHANGED <<queue, settings, now, apiMode>>
    BY <1>4 DEF Found, Passes, Stamp, LockIsFree
  <2>2. /\ lock' \in Scans /\ relaxed' \in BOOLEAN
        /\ pc' \in [Actors -> {"idle", "queued", "evaluating", "trading", "closing",
                               "done"}]
        /\ begun' \in [Symbols -> -Cooldown..MaxTime]
        /\ spared' \subseteq Scans
    BY <2>1, EntersTypes
  <2> QED
    BY <1>3, <2>1, <2>2 DEF AutoTypeOK, settings
<1>5. CASE ~(lock = NoScan /\ queue = <<>>)
  <2>1. queue' \in Seq(Scans)
    <3>1. queue' = Append(queue, t)
      BY <1>5 DEF Found, Passes, Stamp, LockIsFree
    <3>2. queue \in Seq(Scans)
      BY DEF AutoTypeOK
    <3> QED
      BY <3>1, <3>2
  <2>2. pc' \in [Actors -> {"idle", "queued", "evaluating", "trading", "closing", "done"}]
    BY <1>1, <1>5 DEF Found, Passes, Stamp, LockIsFree, AutoTypeOK
  <2> QED
    BY <1>3, <1>5, <2>1, <2>2 DEF Found, Passes, Stamp, LockIsFree, AutoTypeOK, settings, history
<1> QED
  BY <1>4, <1>5

\* The rest of the handler keeps the types.
LEMMA HandleKeepsTypes ==
    ASSUME AutoTypeOK, NEW t \in Scans, Handle(t)
    PROVE  AutoTypeOK'
<1>1. t \in Actors
  BY DEF Actors
<1>2. CASE Wake(t)
  <2>1. symbol[t] \in Symbols
    BY DEF AutoTypeOK
  <2>2. Tail(queue) \in Seq(Scans)
    BY <1>2 DEF Wake, AutoTypeOK
  <2> QED
    <3>1. /\ Enters(t, symbol[t]) /\ queue' = Tail(queue)
          /\ UNCHANGED <<settings, now, last, symbol, apiMode>>
      BY <1>2 DEF Wake
    <3>2. /\ lock' \in Scans /\ relaxed' \in BOOLEAN
          /\ pc' \in [Actors -> {"idle", "queued", "evaluating", "trading", "closing",
                                 "done"}]
          /\ begun' \in [Symbols -> -Cooldown..MaxTime]
          /\ spared' \subseteq Scans
      BY <2>1, <3>1, EntersTypes
    <3> QED
      BY <2>2, <3>1, <3>2 DEF AutoTypeOK, settings
<1>3. CASE Evaluate(t)
  BY <1>1, <1>3 DEF Evaluate, AutoTypeOK, settings, history
<1>4. CASE Traded(t)
  BY <1>1, <1>4 DEF Traded, AutoTypeOK, settings, history
<1>5. CASE Close(t)
  BY <1>1, <1>5 DEF Close, Tighten, Unlock, AutoTypeOK, settings, history
<1> QED
  BY <1>2, <1>3, <1>4, <1>5 DEF Handle

\* So do the API requests, the operator and the clock.
LEMMA OtherStepsKeepTypes ==
    ASSUME AutoTypeOK,
           (\E r \in Requests : Request(r) \/ Respond(r)) \/ Operate \/ Tick
    PROVE  AutoTypeOK'
<1>1. ASSUME NEW r \in Requests, Request(r) \/ RequestEvaluated(r) \/ RequestTraded(r)
      PROVE  AutoTypeOK'
  <2>1. r \in Actors
    BY DEF Actors
  <2>2. pc' \in [Actors -> {"idle", "queued", "evaluating", "trading", "closing", "done"}]
    BY <1>1, <2>1 DEF Request, RequestEvaluated, RequestTraded, AutoTypeOK
  <2> QED
    BY <1>1, <2>2 DEF Request, RequestEvaluated, RequestTraded, AutoTypeOK, settings, history
<1>2. CASE Operate
  BY <1>2 DEF Operate, Activate, Release, Toggle, AutoTypeOK, history
<1>3. CASE Tick
  BY <1>3, TimeAssumption DEF Tick, AutoTypeOK, settings, history
<1> QED
  BY <1>1, <1>2, <1>3 DEF Respond

\* Type correctness, for any number of tasks, requests and symbols.
THEOREM TypeCorrect == AutoSpec => []AutoTypeOK
<1>1. AutoInit => AutoTypeOK
  BY InitTypes
<1>2. AutoTypeOK /\ [AutoNext]_autoVars => AutoTypeOK'
  <2> SUFFICES ASSUME AutoTypeOK, [AutoNext]_autoVars
               PROVE  AutoTypeOK'
    OBVIOUS
  <2>1. CASE \E t \in Scans : Handle(t) \/ \E s \in Symbols : Found(t, s)
    BY <2>1, HandleKeepsTypes, FoundKeepsTypes
  <2>2. CASE (\E r \in Requests : Request(r) \/ Respond(r)) \/ Operate \/ Tick
    BY <2>2, OtherStepsKeepTypes
  <2>3. CASE UNCHANGED autoVars
    BY <2>3 DEF autoVars, settings, history, AutoTypeOK
  <2> QED
    BY <2>1, <2>2, <2>3 DEF AutoNext
<1> QED
  BY <1>1, <1>2, PTL DEF AutoSpec

-----------------------------------------------------------------------------
(***************************************************************************)
(* The lock protects the disabled rules.                                   *)
(***************************************************************************)

\* Taking a free lock.
LEMMA EntersProtected ==
    ASSUME AutoTypeOK, LockProtects, NEW t \in Scans, NEW s \in Symbols,
           lock = NoScan, mode' = mode, Enters(t, s)
    PROVE  LockProtects'
<1>1. t \in Actors /\ Scans \subseteq Actors /\ t # NoScan
  BY TaskAssumption DEF Actors
<1>2. \A u \in Scans : pc[u] \notin Inside
  BY TaskAssumption DEF LockProtects
<1>3. \A u \in Scans : pc'[u] = IF u = t THEN "evaluating" ELSE pc[u]
  BY <1>1 DEF Enters, Relax, AutoTypeOK
<1>4. \A u \in Scans : pc'[u] \in Inside <=> lock' = u
  BY <1>2, <1>3 DEF Enters, Relax, Inside
<1>5. relaxed' <=> (mode' = "PAPER" /\ lock' # NoScan)
  BY <1>1 DEF Enters, Relax, LockProtects, AutoTypeOK
<1> QED
  BY <1>4, <1>5 DEF LockProtects

\* A step that leaves the lock, the rules and the mode alone, and moves nobody
\* into or out of the protected part.
LEMMA ElsewhereProtected ==
    ASSUME LockProtects, UNCHANGED <<mode, lock, relaxed>>,
           \A t \in Scans : pc[t] \in Inside <=> pc'[t] \in Inside
    PROVE  LockProtects'
  BY DEF LockProtects

\* Every step of a scan task keeps the protection.
LEMMA ScanProtected ==
    ASSUME AutoTypeOK, LockProtects, NEW t \in Scans,
           Handle(t) \/ \E s \in Symbols : Found(t, s)
    PROVE  LockProtects'
<1>1. t \in Actors /\ Scans \subseteq Actors /\ t # NoScan
  BY TaskAssumption DEF Actors
<1>2. symbol[t] \in Symbols
  BY DEF AutoTypeOK
<1>3. CASE Wake(t)
  <2>1. lock = NoScan /\ mode' = mode /\ Enters(t, symbol[t])
    BY <1>3 DEF Wake, settings
  <2> QED
    BY <1>2, <2>1, EntersProtected
<1>4. CASE Evaluate(t)
  <2>1. PICK next \in {"trading", "closing"} : pc' = [pc EXCEPT ![t] = next]
    BY <1>4 DEF Evaluate
  <2>2. \A u \in Scans : pc[u] \in Inside <=> pc'[u] \in Inside
    BY <1>1, <1>4, <2>1 DEF Evaluate, Inside, AutoTypeOK
  <2> QED
    BY <1>4, <2>2, ElsewhereProtected DEF Evaluate, settings
<1>5. CASE Traded(t)
  <2>1. \A u \in Scans : pc[u] \in Inside <=> pc'[u] \in Inside
    BY <1>1, <1>5 DEF Traded, Inside, AutoTypeOK
  <2> QED
    BY <1>5, <2>1, ElsewhereProtected DEF Traded, settings
<1>6. CASE Close(t)
  <2>1. lock = t /\ lock' = NoScan
    BY <1>6 DEF Close, Tighten, Unlock, LockProtects, Inside
  <2>2. \A u \in Scans : pc'[u] = IF u = t THEN "idle" ELSE pc[u]
    BY <1>1, <1>6 DEF Close, Tighten, Unlock, AutoTypeOK
  <2>3. \A u \in Scans : pc'[u] \in Inside <=> lock' = u
    BY <2>1, <2>2, TaskAssumption DEF LockProtects, Inside
  <2>4. relaxed' <=> (mode' = "PAPER" /\ lock' # NoScan)
    BY <1>1, <1>6, <2>1 DEF Close, Tighten, Unlock, LockProtects, settings, AutoTypeOK
  <2> QED
    BY <2>3, <2>4 DEF LockProtects
<1>7. ASSUME NEW s \in Symbols, Found(t, s)
      PROVE  LockProtects'
  <2>1. CASE lock = NoScan /\ queue = <<>>
    BY <1>7, <2>1, EntersProtected DEF Found, Passes, Stamp, LockIsFree, settings
  <2>2. CASE ~(lock = NoScan /\ queue = <<>>)
    <3>1. \A u \in Scans : pc[u] \in Inside <=> pc'[u] \in Inside
      BY <1>1, <1>7, <2>2 DEF Found, Passes, Stamp, LockIsFree, Inside, AutoTypeOK
    <3> QED
      BY <1>7, <2>2, <3>1, ElsewhereProtected DEF Found, Passes, Stamp, LockIsFree, settings
  <2> QED
    BY <2>1, <2>2
<1> QED
  BY <1>3, <1>4, <1>5, <1>6, <1>7 DEF Handle

\* The other steps touch neither the lock nor the rules.
LEMMA OthersProtected ==
    ASSUME AutoTypeOK, LockProtects,
           \/ \E r \in Requests : Request(r) \/ Respond(r)
           \/ Operate \/ Tick \/ UNCHANGED autoVars
    PROVE  LockProtects'
<1>1. ASSUME NEW r \in Requests, Request(r) \/ RequestEvaluated(r) \/ RequestTraded(r)
      PROVE  LockProtects'
  <2>1. r \in Actors /\ Scans \subseteq Actors /\ r \notin Scans
    BY TaskAssumption DEF Actors
  <2>2. \A u \in Scans : pc'[u] = pc[u]
    BY <1>1, <2>1 DEF Request, RequestEvaluated, RequestTraded, AutoTypeOK
  <2> QED
    BY <1>1, <2>2, ElsewhereProtected
       DEF Request, RequestEvaluated, RequestTraded, settings
<1>2. CASE Operate
  BY <1>2, ElsewhereProtected DEF Operate, Activate, Release, Toggle
<1>3. CASE Tick
  BY <1>3, ElsewhereProtected DEF Tick, settings
<1>4. CASE UNCHANGED autoVars
  BY <1>4, ElsewhereProtected DEF autoVars, settings
<1> QED
  BY <1>1, <1>2, <1>3, <1>4 DEF Respond

\* For any number of scan tasks and API requests: exactly the holder of the lock
\* is between the disabling and the enabling of the rules, and the rules are
\* disabled exactly then, and only in PAPER mode.
THEOREM Protection == AutoSpec => []LockProtects
<1>1. AutoInit => LockProtects
  BY TaskAssumption DEF AutoInit, LockProtects, Inside, Actors
<1>2. AutoTypeOK /\ LockProtects /\ [AutoNext]_autoVars => LockProtects'
  BY ScanProtected, OthersProtected DEF AutoNext
<1> QED
  BY <1>1, <1>2, TypeCorrect, PTL DEF AutoSpec

\* So a paper execution always runs with the rules disabled, and they are never
\* left disabled behind it.
THEOREM PaperRules == AutoSpec => [](PaperIsRelaxed /\ RelaxationEnds)
<1>1. AutoTypeOK /\ LockProtects => PaperIsRelaxed /\ RelaxationEnds
  BY TaskAssumption DEF AutoTypeOK, LockProtects, PaperIsRelaxed, RelaxationEnds, Inside
<1> QED
  BY <1>1, TypeCorrect, Protection, PTL
-----------------------------------------------------------------------------
(***************************************************************************)
(* Who still executes once the kill switch is active.                      *)
(***************************************************************************)

\* While the switch is active, every waiter was waiting when it was activated,
\* and has not had its turn.
WaitersAreSpared == killed => \A t \in Scans : pc[t] = "queued" => t \in spared

\* What one task may do while the switch is active.
SlipsAllowed(t) ==
    (killed /\ pc[t] # "evaluating" /\ pc'[t] = "evaluating") => t \in spared

\* A step of a scan task lets nobody else pass the switch.
LEMMA ScanSpares ==
    ASSUME AutoTypeOK, WaitersAreSpared, NEW t \in Scans,
           Handle(t) \/ \E s \in Symbols : Found(t, s)
    PROVE  WaitersAreSpared' /\ \A u \in Scans : SlipsAllowed(u)
<1>1. t \in Actors /\ Scans \subseteq Actors
  BY DEF Actors
<1>2. CASE Wake(t)
  <2>1. /\ pc[t] = "queued" /\ killed' = killed
        /\ spared' = spared \ {t}
        /\ \A u \in Scans : pc'[u] = IF u = t THEN "evaluating" ELSE pc[u]
    BY <1>1, <1>2 DEF Wake, Enters, settings, AutoTypeOK
  <2> QED
    BY <2>1 DEF WaitersAreSpared, SlipsAllowed
<1>3. ASSUME NEW next \in {"idle", "trading", "closing"},
             pc' = [pc EXCEPT ![t] = next], killed' = killed, spared' = spared
      PROVE  WaitersAreSpared' /\ \A u \in Scans : SlipsAllowed(u)
  <2>1. \A u \in Scans : pc'[u] = IF u = t THEN next ELSE pc[u]
    BY <1>1, <1>3 DEF AutoTypeOK
  <2> QED
    BY <1>3, <2>1 DEF WaitersAreSpared, SlipsAllowed
<1>4. CASE Evaluate(t)
  <2>1. PICK next \in {"trading", "closing"} : pc' = [pc EXCEPT ![t] = next]
    BY <1>4 DEF Evaluate
  <2> QED
    BY <1>3, <1>4, <2>1 DEF Evaluate, settings, history
<1>5. CASE Traded(t)
  BY <1>3, <1>5 DEF Traded, settings, history
<1>6. CASE Close(t)
  BY <1>3, <1>6 DEF Close, Tighten, Unlock, settings, history
<1>7. ASSUME NEW s \in Symbols, Found(t, s)
      PROVE  WaitersAreSpared' /\ \A u \in Scans : SlipsAllowed(u)
  <2>1. ~killed /\ killed' = killed
    BY <1>7 DEF Found, Passes, Stamp, LockIsFree, settings
  <2> QED
    BY <2>1 DEF WaitersAreSpared, SlipsAllowed
<1> QED
  BY <1>2, <1>4, <1>5, <1>6, <1>7 DEF Handle

\* Nor do the API requests, the operator and the clock.
LEMMA OthersSpare ==
    ASSUME AutoTypeOK, WaitersAreSpared,
           \/ \E r \in Requests : Request(r) \/ Respond(r)
           \/ Operate \/ Tick \/ UNCHANGED autoVars
    PROVE  WaitersAreSpared' /\ \A u \in Scans : SlipsAllowed(u)
<1>1. ASSUME NEW r \in Requests, Request(r) \/ RequestEvaluated(r) \/ RequestTraded(r)
      PROVE  WaitersAreSpared' /\ \A u \in Scans : SlipsAllowed(u)
  <2>1. r \in Actors /\ Scans \subseteq Actors /\ r \notin Scans
    BY TaskAssumption DEF Actors
  <2>2. \A u \in Scans : pc'[u] = pc[u]
    BY <1>1, <2>1 DEF Request, RequestEvaluated, RequestTraded, AutoTypeOK
  <2>3. killed' = killed /\ spared' = spared
    BY <1>1 DEF Request, RequestEvaluated, RequestTraded, settings, history
  <2> QED
    BY <2>2, <2>3 DEF WaitersAreSpared, SlipsAllowed
<1>2. CASE Activate
  BY <1>2 DEF Activate, WaitersAreSpared, SlipsAllowed
<1>3. CASE Release
  BY <1>3 DEF Release, WaitersAreSpared, SlipsAllowed
<1>4. CASE Toggle
  BY <1>4 DEF Toggle, history, WaitersAreSpared, SlipsAllowed
<1>5. CASE Tick
  BY <1>5 DEF Tick, settings, history, WaitersAreSpared, SlipsAllowed
<1>6. CASE UNCHANGED autoVars
  BY <1>6 DEF autoVars, settings, history, WaitersAreSpared, SlipsAllowed
<1> QED
  BY <1>1, <1>2, <1>3, <1>4, <1>5, <1>6 DEF Respond, Operate

\* For any number of scan tasks, API requests and symbols: once the kill switch
\* is active, only the opportunities that were already waiting for the lock still
\* reach the coordinator, each at most once.
THEOREM SwitchSpares == AutoSpec => OnlyWaitingOnesSlipThrough
<1>1. AutoInit => WaitersAreSpared
  BY DEF AutoInit, WaitersAreSpared
<1>2. AutoTypeOK /\ WaitersAreSpared /\ [AutoNext]_autoVars
          => WaitersAreSpared' /\ \A u \in Scans : SlipsAllowed(u)
  BY ScanSpares, OthersSpare DEF AutoNext
<1>3. AutoTypeOK /\ WaitersAreSpared /\ [AutoNext]_autoVars
          => [\A t \in Scans :
                 (killed /\ pc[t] # "evaluating" /\ pc'[t] = "evaluating")
                     => t \in spared]_autoVars
  BY <1>2 DEF SlipsAllowed
<1> QED
  BY <1>1, <1>2, <1>3, TypeCorrect, PTL DEF AutoSpec, OnlyWaitingOnesSlipThrough

-----------------------------------------------------------------------------
(***************************************************************************)
(* The ring of completed orders.                                           *)
(***************************************************************************)
\* A ring holds every order once.
Ring(seq) == seq \in Seq(Orders) /\ IsInjective(seq)

\* What Latest returns is a ring of elements of the ring it was given.
LEMMA LatestOfRing ==
    ASSUME NEW seq, Ring(seq), NEW n \in Nat \ {0}
    PROVE  Ring(Latest(seq, n)) /\ ToSet(Latest(seq, n)) \subseteq ToSet(seq)
<1> DEFINE m == IF Len(seq) > n THEN Len(seq) - n + 1 ELSE 1
           sub == SubSeq(seq, m, Len(seq))
<1>1. /\ Len(seq) \in Nat /\ DOMAIN seq = 1..Len(seq)
      /\ \A i \in 1..Len(seq) : seq[i] \in Orders
  BY LenProperties DEF Ring
<1>2. m \in 1..Len(seq) + 1 /\ m \in Int /\ Len(seq) \in Int
  BY <1>1
<1>3. \A i \in m..Len(seq) : seq[i] \in Orders
  BY <1>1, <1>2
<1> HIDE DEF m
<1>4. /\ sub \in Seq(Orders)
      /\ Len(sub) = IF m <= Len(seq) THEN Len(seq) - m + 1 ELSE 0
      /\ \A i \in 1..Len(seq) - m + 1 : sub[i] = seq[m + i - 1]
  BY <1>2, <1>3, SubSeqProperties
<1> HIDE DEF sub
<1>5. DOMAIN sub = 1..Len(sub)
  BY <1>4, LenProperties
<1>6. ASSUME NEW i \in DOMAIN sub
      PROVE  m + i - 1 \in DOMAIN seq /\ sub[i] = seq[m + i - 1] /\ i \in Int
  BY <1>1, <1>2, <1>4, <1>5, <1>6
<1>7. IsInjective(sub)
  <2> SUFFICES ASSUME NEW i \in DOMAIN sub, NEW j \in DOMAIN sub, sub[i] = sub[j]
               PROVE  i = j
    BY DEF IsInjective
  <2>1. m + i - 1 = m + j - 1
    BY <1>6 DEF Ring, IsInjective
  <2> QED
    BY <1>2, <1>6, <2>1
<1>8. ToSet(sub) \subseteq ToSet(seq)
  BY <1>6 DEF ToSet
<1>9. Latest(seq, n) = sub
  BY DEF Latest, sub, m
<1> QED
  BY <1>4, <1>7, <1>8, <1>9 DEF Ring

\* Appending an order that is not there gives a ring.
LEMMA AppendToRing ==
    ASSUME NEW seq, Ring(seq), NEW o \in Orders, o \notin ToSet(seq)
    PROVE  /\ Ring(Append(seq, o))
           /\ \A p \in ToSet(Append(seq, o)) : p \in ToSet(seq) \/ p = o
<1> DEFINE app == Append(seq, o)
<1>1. /\ Len(seq) \in Nat /\ DOMAIN seq = 1..Len(seq)
  BY LenProperties DEF Ring
<1>2. /\ app \in Seq(Orders) /\ Len(app) = Len(seq) + 1
      /\ \A i \in 1..Len(seq) : app[i] = seq[i]
      /\ app[Len(seq) + 1] = o
  BY AppendProperties DEF Ring
<1> HIDE DEF app
<1>3. DOMAIN app = 1..Len(seq) + 1
  BY <1>2, LenProperties
<1>4. ASSUME NEW i \in DOMAIN app
      PROVE  \/ i \in DOMAIN seq /\ app[i] = seq[i]
             \/ i = Len(seq) + 1 /\ app[i] = o
  BY <1>1, <1>2, <1>3
<1>5. \A i \in DOMAIN seq : seq[i] # o
  BY DEF ToSet
<1>6. IsInjective(app)
  BY <1>4, <1>5 DEF IsInjective, Ring
<1>7. \A p \in ToSet(app) : p \in ToSet(seq) \/ p = o
  BY <1>4 DEF ToSet
<1> QED
  BY <1>2, <1>6, <1>7 DEF Ring, app

-----------------------------------------------------------------------------
(***************************************************************************)
(* The invariant.                                                          *)
(***************************************************************************)
States == {"none", "pending_submit", "submitted", "partially_filled"} \cup Ends

\* What an exchange can say: a filled order is filled, a partial fill is one.
Honest(a) == /\ a.filled \in 0..Qty
             /\ a.status = "FILLED" => a.filled = Qty
             /\ a.status = "PARTIALLY_FILLED" => a.filled > 0

BookTypes ==
    /\ exchange \in [Orders -> Answers \cup {NoAnswer}]
    /\ answer   \in [Orders -> Answers \cup {NoAnswer}]
    /\ state    \in [Orders -> States]
    /\ filled   \in [Orders -> 0..Qty]
    /\ ended    \in [Orders -> Nat]
    /\ active \subseteq Orders /\ round \subseteq Orders /\ givenUp \subseteq Orders

\* An active order has not ended, an order in a round is active or was given up
\* during it, and only those end twice.
Ending(o) ==
    /\ o \in active => ended[o] = 0 /\ state[o] \notin Ends /\ state[o] # "none"
    /\ o \in round => (o \in active \/ o \in givenUp) /\ state[o] # "none"
    /\ ended[o] > 1 => o \in givenUp

\* Nothing is known of an order before it is registered; then what is on record,
\* and what is on its way, was once true.
Knowing(o) ==
    /\ state[o] = "none" => /\ ended[o] = 0 /\ filled[o] = 0
                            /\ answer[o] = NoAnswer /\ exchange[o] = NoAnswer
    /\ filled[o] <= exchange[o].filled
    /\ answer[o].filled <= exchange[o].filled
    /\ Honest(exchange[o]) /\ Honest(answer[o])
    /\ state[o] = "filled" => filled[o] = Qty
    /\ state[o] = "partially_filled" => filled[o] > 0

RingInv == /\ Ring(completed)
           /\ \A o \in ToSet(completed) : ended[o] > 0 /\ o \notin active

BooksInv == /\ BookTypes
            /\ \A o \in Orders : Ending(o) /\ Knowing(o)
            /\ RingInv

\* The invariant says what was to be shown.
LEMMA BooksFollow == BooksInv => BooksAreSound
BY DEF BooksInv, BookTypes, Ending, Knowing, RingInv, Ring, BooksAreSound,
       EndsAreCountedOnce, RecordIsPast

-----------------------------------------------------------------------------
(***************************************************************************)
(* An order that ends.                                                     *)
(***************************************************************************)
\* An order ends once, or is given up: the ring stays one, and what is active
\* stays apart from it.
LEMMA EndsSoundly ==
    ASSUME BooksInv, NEW o \in Orders, NEW end \in Ends, EndsAs(o, end),
           o \notin active => o \in givenUp', givenUp \subseteq givenUp'
    PROVE  /\ RingInv' /\ ended' \in [Orders -> Nat] /\ state' \in [Orders -> States]
           /\ active' = active \ {o}
           /\ ended'[o] > 1 => o \in givenUp'
           /\ state'[o] = end
           /\ \A p \in Orders \ {o} : ended'[p] = ended[p] /\ state'[p] = state[p]
<1>1. /\ ended \in [Orders -> Nat] /\ state \in [Orders -> States]
      /\ active \subseteq Orders
  BY DEF BooksInv, BookTypes
<1>2. /\ ended' = [ended EXCEPT ![o] = @ + 1] /\ state' = [state EXCEPT ![o] = end]
      /\ active' = active \ {o}
      /\ completed' = IF o \in active THEN Latest(Append(completed, o), MaxCompleted)
                                      ELSE completed
  BY DEF EndsAs, Moved
<1>3. /\ ended' \in [Orders -> Nat] /\ ended'[o] = ended[o] + 1
      /\ \A p \in Orders \ {o} : ended'[p] = ended[p]
  BY <1>1, <1>2
<1>4. /\ state' \in [Orders -> States] /\ state'[o] = end
      /\ \A p \in Orders \ {o} : state'[p] = state[p]
  BY <1>1, <1>2 DEF States
<1>5. ended'[o] > 1 => o \in givenUp'
  BY <1>1, <1>3 DEF BooksInv, Ending
<1>6. Ring(completed) /\ ToSet(completed) \subseteq Orders
  <2>1. Ring(completed) /\ completed \in Seq(Orders)
    BY DEF BooksInv, RingInv, Ring
  <2>2. completed \in [1..Len(completed) -> Orders]
    BY <2>1, LenProperties
  <2> QED
    BY <2>1, <2>2 DEF ToSet
<1>7. \A p \in ToSet(completed) : ended'[p] > 0 /\ p \notin active'
  BY <1>1, <1>2, <1>3, <1>6 DEF BooksInv, RingInv
<1>8. ASSUME o \notin active
      PROVE  RingInv'
  BY <1>2, <1>6, <1>7, <1>8 DEF RingInv
<1>9. ASSUME o \in active
      PROVE  RingInv'
  <2>1. o \notin ToSet(completed)
    BY <1>9 DEF BooksInv, RingInv
  <2>2. /\ Ring(Append(completed, o))
        /\ \A p \in ToSet(Append(completed, o)) : p \in ToSet(completed) \/ p = o
    BY <1>6, <2>1, AppendToRing
  <2>3. /\ Ring(completed')
        /\ ToSet(completed') \subseteq ToSet(Append(completed, o))
    BY <1>2, <1>9, <2>2, LatestOfRing, TrackerAssumption
  <2>4. ended'[o] > 0 /\ o \notin active'
    BY <1>1, <1>2, <1>3
  <2> QED
    BY <1>7, <2>2, <2>3, <2>4 DEF RingInv, Ring
<1>10. RingInv'
  BY <1>8, <1>9
<1> QED
  BY <1>2, <1>3, <1>4, <1>5, <1>10

\* Nothing of an order that is left alone changes.
LEMMA Untouched ==
    ASSUME NEW p \in Orders, Ending(p), Knowing(p),
           exchange'[p] = exchange[p], answer'[p] = answer[p], state'[p] = state[p],
           filled'[p] = filled[p], ended'[p] = ended[p],
           p \in active' <=> p \in active, p \in round' => p \in round,
           p \in givenUp => p \in givenUp'
    PROVE  Ending(p)' /\ Knowing(p)'
BY DEF Ending, Knowing, Honest

\* If the ring, what is active and how often orders ended stay as they are, the
\* ring stays sound.
LEMMA SameRing ==
    ASSUME RingInv, completed' = completed, ended' = ended,
           \A p \in ToSet(completed) : p \in active' => p \in active
    PROVE  RingInv'
BY DEF RingInv

-----------------------------------------------------------------------------
(***************************************************************************)
(* The steps.                                                              *)
(***************************************************************************)
\* Trading adds to what is filled, and only to orders the exchange knows.
LEMMA TradeKeeps ==
    ASSUME BooksInv, NEW o \in Orders, Trade(o)
    PROVE  BooksInv'
<1>1. PICK a \in Progress(exchange[o].filled) : exchange' = [exchange EXCEPT ![o] = a]
  BY DEF Trade
<1>2. /\ exchange[o] \in Answers \cup {NoAnswer}
      /\ exchange[o].status \in {"NEW", "PARTIALLY_FILLED"}
      /\ exchange[o].filled \in 0..Qty
  BY DEF Trade, BooksInv, BookTypes, Answers, NoAnswer
<1>3. a \in Answers /\ exchange[o].filled <= a.filled /\ Honest(a)
  <2>1. CASE \E n \in exchange[o].filled + 1..Qty - 1 :
                a = [status |-> "PARTIALLY_FILLED", filled |-> n]
    BY <1>2, <2>1, TrackerAssumption DEF Answers, Statuses, Honest
  <2>2. CASE a = [status |-> "FILLED", filled |-> Qty]
    BY <1>2, <2>2, TrackerAssumption DEF Answers, Statuses, Honest
  <2>3. CASE \E s \in Closings : a = [status |-> s, filled |-> exchange[o].filled]
    BY <1>2, <2>3, TrackerAssumption DEF Answers, Statuses, Honest
  <2> QED
    BY <2>1, <2>2, <2>3 DEF Progress
<1>4. /\ exchange' \in [Orders -> Answers \cup {NoAnswer}] /\ exchange'[o] = a
      /\ \A p \in Orders \ {o} : exchange'[p] = exchange[p]
  BY <1>1, <1>3 DEF BooksInv, BookTypes
<1>5. /\ UNCHANGED <<answer, state, filled, ended, active, round, givenUp, completed>>
  BY DEF Trade, record, loops
<1>6. BookTypes'
  BY <1>4, <1>5 DEF BooksInv, BookTypes
<1>7. \A p \in Orders \ {o} : Ending(p)' /\ Knowing(p)'
  BY <1>4, <1>5, Untouched DEF BooksInv
<1>8. Ending(o)'
  BY <1>5 DEF BooksInv, Ending
<1>9. Knowing(o)'
  <2>1. state[o] # "none"
    BY <1>2 DEF BooksInv, Knowing, NoAnswer
  <2>2. /\ filled[o] <= exchange[o].filled /\ answer[o].filled <= exchange[o].filled
        /\ filled[o] \in Int /\ answer[o].filled \in Int /\ a.filled \in Int
    BY <1>3 DEF BooksInv, BookTypes, Knowing, Honest
  <2>3. filled[o] <= a.filled /\ answer[o].filled <= a.filled
    BY <1>2, <1>3, <2>2
  <2> QED
    BY <1>3, <1>4, <1>5, <2>1, <2>3 DEF BooksInv, Knowing, Honest
<1>10. RingInv'
  BY <1>5, SameRing DEF BooksInv
<1> QED
  BY <1>6, <1>7, <1>8, <1>9, <1>10 DEF BooksInv

\* A registered order has no history.
LEMMA RegisterKeeps ==
    ASSUME BooksInv, NEW o \in Orders, Register(o)
    PROVE  BooksInv'
<1>1. PICK a \in {NoAnswer, [status |-> "NEW", filled |-> 0]} :
         exchange' = [exchange EXCEPT ![o] = a]
  BY DEF Register
<1>2. a \in Answers \cup {NoAnswer} /\ a.filled = 0 /\ Honest(a)
  BY TrackerAssumption DEF Answers, Statuses, NoAnswer, Honest
<1>3. /\ state[o] = "none" /\ state' = [state EXCEPT ![o] = "pending_submit"]
      /\ active' = active \cup {o}
      /\ UNCHANGED <<answer, filled, ended, round, givenUp, completed>>
  BY DEF Register, loops
<1>4. /\ exchange' \in [Orders -> Answers \cup {NoAnswer}] /\ exchange'[o] = a
      /\ state' \in [Orders -> States] /\ state'[o] = "pending_submit"
      /\ \A p \in Orders \ {o} : exchange'[p] = exchange[p] /\ state'[p] = state[p]
  BY <1>1, <1>2, <1>3 DEF BooksInv, BookTypes, States
<1>5. /\ ended[o] = 0 /\ filled[o] = 0 /\ answer[o] = NoAnswer /\ o \notin round
  BY <1>3 DEF BooksInv, Knowing, Ending
<1>6. BookTypes'
  BY <1>3, <1>4 DEF BooksInv, BookTypes
<1>7. \A p \in Orders \ {o} : Ending(p)' /\ Knowing(p)'
  BY <1>3, <1>4, Untouched DEF BooksInv
<1>8. Ending(o)' /\ Knowing(o)'
  BY <1>2, <1>3, <1>4, <1>5 DEF Ending, Knowing, Ends, NoAnswer, BooksInv, Honest
<1>9. RingInv'
  <2>1. o \notin ToSet(completed)
    BY <1>5 DEF BooksInv, RingInv
  <2> QED
    BY <1>3, <2>1, SameRing DEF BooksInv
<1> QED
  BY <1>6, <1>7, <1>8, <1>9 DEF BooksInv

\* A submitted order is as open as before.
LEMMA MarkSubmittedKeeps ==
    ASSUME BooksInv, NEW o \in Orders, MarkSubmitted(o)
    PROVE  BooksInv'
<1>1. /\ state[o] = "pending_submit" /\ state' = [state EXCEPT ![o] = "submitted"]
      /\ UNCHANGED <<exchange, answer, filled, ended, active, round, givenUp, completed>>
  BY DEF MarkSubmitted, loops
<1>2. /\ state' \in [Orders -> States] /\ state'[o] = "submitted"
      /\ \A p \in Orders \ {o} : state'[p] = state[p]
  BY <1>1 DEF BooksInv, BookTypes, States
<1>3. BookTypes'
  BY <1>1, <1>2 DEF BooksInv, BookTypes
<1>4. \A p \in Orders \ {o} : Ending(p)' /\ Knowing(p)'
  BY <1>1, <1>2, Untouched DEF BooksInv
<1>5. Ending(o)' /\ Knowing(o)'
  BY <1>1, <1>2 DEF BooksInv, Ending, Knowing, Ends, Honest
<1>6. RingInv'
  BY <1>1, SameRing DEF BooksInv
<1> QED
  BY <1>3, <1>4, <1>5, <1>6 DEF BooksInv

\* An order that fails ends, and if it does so during its poll it is given up.
LEMMA MarkFailedKeeps ==
    ASSUME BooksInv, NEW o \in Orders, MarkFailed(o)
    PROVE  BooksInv'
<1>1. /\ o \in active /\ EndsAs(o, "failed") /\ "failed" \in Ends
      /\ givenUp' = IF o \in round THEN givenUp \cup {o} ELSE givenUp
      /\ UNCHANGED <<exchange, answer, filled, round>>
  BY DEF MarkFailed, loops, Ends
<1>2. /\ RingInv' /\ ended' \in [Orders -> Nat] /\ state' \in [Orders -> States]
      /\ active' = active \ {o}
      /\ ended'[o] > 1 => o \in givenUp'
      /\ state'[o] = "failed"
      /\ \A p \in Orders \ {o} : ended'[p] = ended[p] /\ state'[p] = state[p]
  BY <1>1, EndsSoundly
<1>3. BookTypes'
  BY <1>1, <1>2 DEF BooksInv, BookTypes
<1>4. \A p \in Orders \ {o} : Ending(p)' /\ Knowing(p)'
  BY <1>1, <1>2, Untouched DEF BooksInv
<1>5. Ending(o)' /\ Knowing(o)'
  BY <1>1, <1>2 DEF BooksInv, Ending, Knowing, Honest
<1> QED
  BY <1>2, <1>3, <1>4, <1>5 DEF BooksInv

\* A round begins with active orders that were submitted.
LEMMA PollKeeps ==
    ASSUME BooksInv, Poll
    PROVE  BooksInv'
<1>1. /\ round' = Polled
      /\ UNCHANGED <<exchange, answer, state, filled, ended, active, givenUp, completed>>
  BY DEF Poll, record
<1>2. \A p \in round' : p \in active /\ state[p] # "none"
  BY <1>1 DEF Polled
<1>3. BookTypes'
  BY <1>1, <1>2 DEF BooksInv, BookTypes
<1>4. \A p \in Orders : Ending(p)' /\ Knowing(p)'
  BY <1>1, <1>2 DEF BooksInv, Ending, Knowing, Honest
<1>5. RingInv'
  BY <1>1, SameRing DEF BooksInv
<1> QED
  BY <1>3, <1>4, <1>5 DEF BooksInv

\* The exchange answers with what is true at that moment.
LEMMA AnswerKeeps ==
    ASSUME BooksInv, NEW o \in Orders, Answer(o)
    PROVE  BooksInv'
<1>1. /\ o \in round /\ answer' = [answer EXCEPT ![o] = exchange[o]]
      /\ UNCHANGED <<exchange, state, filled, ended, active, round, givenUp, completed>>
  BY DEF Answer, record
<1>2. /\ answer' \in [Orders -> Answers \cup {NoAnswer}] /\ answer'[o] = exchange[o]
      /\ \A p \in Orders \ {o} : answer'[p] = answer[p]
  BY <1>1 DEF BooksInv, BookTypes
<1>3. BookTypes'
  BY <1>1, <1>2 DEF BooksInv, BookTypes
<1>4. \A p \in Orders \ {o} : Ending(p)' /\ Knowing(p)'
  BY <1>1, <1>2, Untouched DEF BooksInv
<1>5. Ending(o)' /\ Knowing(o)'
  <2>1. exchange[o].filled <= exchange[o].filled
    BY DEF BooksInv, Knowing, Honest
  <2> QED
    BY <1>1, <1>2, <2>1 DEF BooksInv, Ending, Knowing, Honest
<1>6. RingInv'
  BY <1>1, SameRing DEF BooksInv
<1> QED
  BY <1>3, <1>4, <1>5, <1>6 DEF BooksInv

\* An answer that is used or lost leaves nothing on its way.
LEMMA AnswerIsGone ==
    ASSUME BooksInv, NEW o \in Orders, answer' = [answer EXCEPT ![o] = NoAnswer]
    PROVE  /\ answer' \in [Orders -> Answers \cup {NoAnswer}]
           /\ answer'[o] = NoAnswer /\ Honest(answer'[o])
           /\ \A p \in Orders \ {o} : answer'[p] = answer[p]
BY TrackerAssumption DEF BooksInv, BookTypes, Honest, NoAnswer

\* An answer, however late, moves the record forward, never beyond the exchange,
\* and ends an order that has ended only if it was given up.
LEMMA UpdateKeeps ==
    ASSUME BooksInv, NEW o \in Orders, Update(o)
    PROVE  BooksInv'
<1> DEFINE end == EndOf(answer[o].status)
           ending == answer[o].status \in Closed /\ state[o] # end
<1>1. /\ o \in round /\ answer[o] # NoAnswer /\ round' = round \ {o}
      /\ filled' = [filled EXCEPT ![o] = NewFilled(o)]
      /\ answer' = [answer EXCEPT ![o] = NoAnswer]
      /\ UNCHANGED <<exchange, givenUp>>
  BY DEF Update
<1>2. /\ answer' \in [Orders -> Answers \cup {NoAnswer}]
      /\ answer'[o] = NoAnswer /\ Honest(answer'[o])
      /\ \A p \in Orders \ {o} : answer'[p] = answer[p]
  BY <1>1, AnswerIsGone
<1>3. /\ filled[o] \in 0..Qty /\ answer[o].filled \in 0..Qty
      /\ exchange[o].filled \in 0..Qty /\ Qty \in Int
      /\ filled[o] <= exchange[o].filled /\ answer[o].filled <= exchange[o].filled
  BY TrackerAssumption DEF BooksInv, BookTypes, Knowing, Honest
<1>4. /\ NewFilled(o) \in 0..Qty /\ filled[o] <= NewFilled(o)
      /\ answer[o].filled <= NewFilled(o) /\ NewFilled(o) <= exchange[o].filled
  BY <1>3 DEF NewFilled
<1>5. /\ filled' \in [Orders -> 0..Qty] /\ filled'[o] = NewFilled(o)
      /\ \A p \in Orders \ {o} : filled'[p] = filled[p]
  BY <1>1, <1>4 DEF BooksInv, BookTypes
<1>6. /\ state[o] # "none"
      /\ o \in active \/ o \in givenUp
      /\ Ending(o) /\ Knowing(o)
  BY <1>1 DEF BooksInv, Ending
<1>7. /\ answer[o].status = "FILLED" => NewFilled(o) = Qty
      /\ answer[o].status = "PARTIALLY_FILLED" => NewFilled(o) > 0
      /\ state[o] = "filled" => NewFilled(o) = Qty
      /\ state[o] = "partially_filled" => NewFilled(o) > 0
  BY <1>3, <1>4, <1>6 DEF Knowing, Honest
<1>8. ASSUME ending
      PROVE  BooksInv'
  <2>1. /\ EndsAs(o, end) /\ end \in Ends /\ end # "partially_filled" /\ end # "none"
        /\ end = "filled" => answer[o].status = "FILLED"
    BY <1>8 DEF Update, Closed, EndOf, Ends
  <2> HIDE DEF end
  <2>2. /\ RingInv' /\ ended' \in [Orders -> Nat] /\ state' \in [Orders -> States]
        /\ active' = active \ {o}
        /\ ended'[o] > 1 => o \in givenUp'
        /\ state'[o] = end
        /\ \A p \in Orders \ {o} : ended'[p] = ended[p] /\ state'[p] = state[p]
    BY <1>1, <1>6, <2>1, EndsSoundly
  <2>3. BookTypes'
    BY <1>1, <1>2, <1>5, <2>2 DEF BooksInv, BookTypes
  <2>4. \A p \in Orders \ {o} : Ending(p)' /\ Knowing(p)'
    BY <1>1, <1>2, <1>5, <2>2, Untouched DEF BooksInv
  <2>5. Ending(o)'
    BY <1>1, <2>2 DEF Ending
  <2>6. Knowing(o)'
    <3>1. answer'[o].filled <= exchange'[o].filled
      BY <1>1, <1>2, <1>3 DEF NoAnswer
    <3> QED
      BY <1>1, <1>2, <1>4, <1>5, <1>6, <1>7, <2>1, <2>2, <3>1 DEF Knowing, Honest
  <2> QED
    BY <2>2, <2>3, <2>4, <2>5, <2>6 DEF BooksInv
<1>9. ASSUME ~ending
      PROVE  BooksInv'
  <2> DEFINE new == IF answer[o].status = "PARTIALLY_FILLED" THEN "partially_filled"
                                                            ELSE state[o]
  <2>1. /\ state' = [state EXCEPT ![o] = new]
        /\ UNCHANGED <<active, completed, ended>>
    BY <1>9 DEF Update
  <2>2. /\ state' \in [Orders -> States] /\ state'[o] = new
        /\ \A p \in Orders \ {o} : state'[p] = state[p]
    BY <2>1 DEF BooksInv, BookTypes, States
  <2>3. BookTypes'
    BY <1>1, <1>2, <1>5, <2>1, <2>2 DEF BooksInv, BookTypes
  <2>4. \A p \in Orders \ {o} : Ending(p)' /\ Knowing(p)'
    BY <1>1, <1>2, <1>5, <2>1, <2>2, Untouched DEF BooksInv
  <2>5. Ending(o)'
    BY <1>1, <1>6, <2>1, <2>2 DEF Ending, Ends
  <2>6. Knowing(o)'
    <3>1. answer'[o].filled <= exchange'[o].filled
      BY <1>1, <1>2, <1>3 DEF NoAnswer
    <3>2. state'[o] # "none"
      BY <1>6, <2>2
    <3>3. /\ state'[o] = "filled" => filled'[o] = Qty
          /\ state'[o] = "partially_filled" => filled'[o] > 0
      BY <1>5, <1>7, <2>2
    <3> QED
      BY <1>1, <1>2, <1>4, <1>5, <1>6, <3>1, <3>2, <3>3 DEF Knowing, Honest
  <2>7. RingInv'
    BY <2>1, SameRing DEF BooksInv
  <2> QED
    BY <2>3, <2>4, <2>5, <2>6, <2>7 DEF BooksInv
<1> QED
  BY <1>8, <1>9

\* A question that fails changes nothing that is known, but may end the order.
LEMMA UpdateFailsKeeps ==
    ASSUME BooksInv, NEW o \in Orders, UpdateFails(o)
    PROVE  BooksInv'
<1>1. /\ o \in round /\ round' = round \ {o}
      /\ answer' = [answer EXCEPT ![o] = NoAnswer]
      /\ UNCHANGED <<exchange, filled, givenUp>>
  BY DEF UpdateFails
<1>2. /\ answer' \in [Orders -> Answers \cup {NoAnswer}]
      /\ answer'[o] = NoAnswer /\ Honest(answer'[o])
      /\ \A p \in Orders \ {o} : answer'[p] = answer[p]
  BY <1>1, AnswerIsGone
<1>3. /\ state[o] # "none"
      /\ o \in active \/ o \in givenUp
      /\ Ending(o) /\ Knowing(o)
  BY <1>1 DEF BooksInv, Ending
<1>4. answer'[o].filled <= exchange'[o].filled
  BY <1>1, <1>2, <1>3 DEF NoAnswer, Knowing, Honest
<1>5. ASSUME OutOfRetries(retries[o] + 1)
      PROVE  BooksInv'
  <2>1. EndsAs(o, "failed") /\ "failed" \in Ends
    BY <1>5 DEF UpdateFails, Ends
  <2>2. /\ RingInv' /\ ended' \in [Orders -> Nat] /\ state' \in [Orders -> States]
        /\ active' = active \ {o}
        /\ ended'[o] > 1 => o \in givenUp'
        /\ state'[o] = "failed"
        /\ \A p \in Orders \ {o} : ended'[p] = ended[p] /\ state'[p] = state[p]
    BY <1>1, <1>3, <2>1, EndsSoundly
  <2>3. BookTypes'
    BY <1>1, <1>2, <2>2 DEF BooksInv, BookTypes
  <2>4. \A p \in Orders \ {o} : Ending(p)' /\ Knowing(p)'
    BY <1>1, <1>2, <2>2, Untouched DEF BooksInv
  <2>5. Ending(o)' /\ Knowing(o)'
    BY <1>1, <1>2, <1>3, <1>4, <2>2 DEF Ending, Knowing, Honest
  <2> QED
    BY <2>2, <2>3, <2>4, <2>5 DEF BooksInv
<1>6. ASSUME ~OutOfRetries(retries[o] + 1)
      PROVE  BooksInv'
  <2>1. UNCHANGED <<state, ended, active, completed>>
    BY <1>6 DEF UpdateFails
  <2>2. BookTypes'
    BY <1>1, <1>2, <2>1 DEF BooksInv, BookTypes
  <2>3. \A p \in Orders \ {o} : Ending(p)' /\ Knowing(p)'
    BY <1>1, <1>2, <2>1, Untouched DEF BooksInv
  <2>4. Ending(o)' /\ Knowing(o)'
    BY <1>1, <1>2, <1>3, <1>4, <2>1 DEF Ending, Knowing, Honest
  <2>5. RingInv'
    BY <2>1, SameRing DEF BooksInv
  <2> QED
    BY <2>2, <2>3, <2>4, <2>5 DEF BooksInv
<1> QED
  BY <1>5, <1>6

\* Stopping forgets the questions under way.
LEMMA StopKeeps ==
    ASSUME BooksInv, Stop
    PROVE  BooksInv'
<1>1. /\ round' = {} /\ answer' = [o \in Orders |-> NoAnswer]
      /\ UNCHANGED <<exchange, state, filled, ended, active, givenUp, completed>>
  BY DEF Stop, record
<1>2. BookTypes'
  BY <1>1 DEF BooksInv, BookTypes
<1>3. \A p \in Orders : Ending(p)' /\ Knowing(p)'
  <2> SUFFICES ASSUME NEW p \in Orders
               PROVE  Ending(p)' /\ Knowing(p)'
    OBVIOUS
  <2>1. Ending(p)'
    BY <1>1 DEF BooksInv, Ending
  <2>2. answer'[p] = NoAnswer /\ Honest(answer'[p])
    BY <1>1, TrackerAssumption DEF Honest, NoAnswer
  <2>3. answer'[p].filled <= exchange'[p].filled
    BY <1>1, <2>2 DEF BooksInv, Knowing, Honest, NoAnswer
  <2> QED
    BY <1>1, <2>1, <2>2, <2>3 DEF BooksInv, Knowing, Honest
<1>4. RingInv'
  BY <1>1, SameRing DEF BooksInv
<1> QED
  BY <1>2, <1>3, <1>4 DEF BooksInv

\* The reconciliation and the start only read the books.
LEMMA ReadingKeeps ==
    ASSUME BooksInv,
           UNCHANGED <<exchange, answer, state, filled, ended, active, round, givenUp,
                       completed>>
    PROVE  BooksInv'
<1>1. BookTypes'
  BY DEF BooksInv, BookTypes
<1>2. \A p \in Orders : Ending(p)' /\ Knowing(p)'
  BY Untouched DEF BooksInv
<1>3. RingInv'
  BY SameRing DEF BooksInv
<1> QED
  BY <1>1, <1>2, <1>3 DEF BooksInv

\* At first nothing is registered.
LEMMA InitBooks == Init => BooksInv
<1> SUFFICES ASSUME Init
             PROVE  BooksInv
  OBVIOUS
<1>1. BookTypes
  BY TrackerAssumption DEF Init, BookTypes, States
<1>2. \A p \in Orders : Ending(p) /\ Knowing(p)
  BY TrackerAssumption DEF Init, Ending, Knowing, Honest, NoAnswer
<1>3. ToSet(<<>>) = {} /\ Ring(<<>>)
  BY DEF ToSet, Ring, IsInjective
<1> QED
  BY <1>1, <1>2, <1>3 DEF Init, BooksInv, RingInv

-----------------------------------------------------------------------------
\* However late the answers come and however often questions fail, for any
\* number of orders and any size of the ring: an order ends once, or twice if it
\* was given up during its own poll, it is active or in the ring and never both,
\* and its record is never ahead of the exchange.
\* (order_tracker.py, _update_order_status, mark_failed and _move_to_completed)
THEOREM BooksStaySound == Spec => []BooksAreSound
<1>1. BooksInv /\ [Next]_vars => BooksInv'
  <2> SUFFICES ASSUME BooksInv, [Next]_vars
               PROVE  BooksInv'
    OBVIOUS
  <2>1. ASSUME NEW o \in Orders,
               \/ Trade(o) \/ Register(o) \/ MarkSubmitted(o) \/ MarkFailed(o)
               \/ Answer(o) \/ Update(o) \/ UpdateFails(o)
        PROVE  BooksInv'
    BY <2>1, TradeKeeps, RegisterKeeps, MarkSubmittedKeeps, MarkFailedKeeps, AnswerKeeps,
       UpdateKeeps, UpdateFailsKeeps
  <2>2. CASE Poll
    BY <2>2, PollKeeps
  <2>3. CASE Stop
    BY <2>3, StopKeeps
  <2>4. CASE Reconcile \/ Read \/ Compare \/ CompareFails \/ Start \/ UNCHANGED vars
    BY <2>4, ReadingKeeps DEF Reconcile, Read, Compare, CompareFails, Start, vars, record, loops
  <2> QED
    BY <2>1, <2>2, <2>3, <2>4 DEF Next
<1> QED
  BY InitBooks, <1>1, BooksFollow, PTL DEF Spec

=============================================================================
