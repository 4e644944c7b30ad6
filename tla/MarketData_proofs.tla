------------------------- MODULE MarketData_proofs -------------------------
(***************************************************************************)
(* Proofs about module MarketData, for any exchanges, prices, delays,      *)
(* thresholds, attempts and faults: type correctness, and that only a      *)
(* stream brings an earlier price back, with the later one behind it.      *)
(***************************************************************************)
EXTENDS MarketData, TLAPS

(***************************************************************************)
(* The strengthening: what is known of the ages of an exchange's prices,   *)
(* wherever they are.                                                      *)
(***************************************************************************)

\* An entry was written no earlier than its price was sent.
EntryIsNoYounger(e) == ticker[e] # None => ticker[e].seen <= ticker[e].old

\* An answer was sent no earlier than it was asked for.
AnswerIsTimely(e) == Answered(e) => request[e].old <= request[e].since

\* Messages are under way in the order of their ages.
InOrder(q) == \A i, j \in DOMAIN q : i <= j => q[j].old <= q[i].old

\* Any message that was sent before m does not come last, but one that tells the
\* same as m.
Follows(q, m) ==
    \A i \in DOMAIN q : q[i].old > m.old => \E j \in DOMAIN q : i <= j /\ q[j].price = m.price

\* While the connection stands: its last message tells the current price, and
\* whatever a request found out is told again after what it has overtaken.
NewsIsCurrent(e) ==
    /\ InOrder(news[e])
    /\ stream[e] = "up" =>
        /\ news[e] # <<>> => news[e][Len(news[e])].price = price[e]
        /\ ticker[e] # None => Follows(news[e], ticker[e])
        /\ Answered(e) => Follows(news[e], request[e])

\* A public exchange has no stream: what is kept or under way of its answers is
\* no older than the cache.
MemoIsNewest(e) ==
    e \in Public =>
        /\ stream[e] = "down" /\ news[e] = <<>>
        /\ ticker[e] # None /\ memo[e] # None => memo[e].old <= ticker[e].old
        /\ ticker[e] # None /\ Answered(e) => request[e].old <= ticker[e].old

Ages(e) ==
    EntryIsNoYounger(e) /\ AnswerIsTimely(e) /\ NewsIsCurrent(e) /\ MemoIsNewest(e)

AgesInv == TypeOK /\ \A e \in Exchanges : Ages(e)

-----------------------------------------------------------------------------
(***************************************************************************)
(* Type correctness.                                                       *)
(***************************************************************************)

\* The bounds are natural numbers in the order the ages need.
LEMMA Bounds ==
    /\ Threshold \in Nat /\ Fresh \in Nat /\ MaxDelay \in Nat
    /\ MaxChanges \in Nat /\ MaxFaults \in Nat
    /\ MaxRetries \in Nat /\ MaxRetries >= 1
    /\ Fresh < Threshold /\ Private \cap Public = {}
BY MarketDataAssumption

\* The ages of messages are numbers.
LEMMA MessageAges ==
    ASSUME NEW q \in Seq(Sent)
    PROVE  /\ \A i \in DOMAIN q : q[i] \in Sent /\ q[i].old \in Nat
           /\ Len(q) \in Nat /\ DOMAIN q = 1..Len(q)
<1>1. Len(q) \in Nat /\ DOMAIN q = 1..Len(q)
  OBVIOUS
<1>2. ASSUME NEW i \in DOMAIN q
      PROVE  q[i] \in Sent
  BY <1>1, <1>2
<1>3. ASSUME NEW m \in Sent
      PROVE  m.old \in Nat
  BY Bounds DEF Sent
<1> QED
  BY <1>1, <1>2, <1>3

\* A message that is sent comes last, and is followed by what was.
LEMMA SentLast ==
    ASSUME NEW q \in Seq(Sent), InOrder(q), NEW m \in Sent, m.old = 0
    PROVE  /\ Append(q, m) \in Seq(Sent) /\ InOrder(Append(q, m)) /\ Append(q, m) # <<>>
           /\ Append(q, m)[Len(Append(q, m))] = m
           /\ \A x : x.old \in Nat /\ Follows(q, x) => Follows(Append(q, m), x)
<1> DEFINE r == Append(q, m)
<1>1. /\ r \in Seq(Sent) /\ Len(r) = Len(q) + 1 /\ Len(q) \in Nat /\ DOMAIN r = 1..(Len(q) + 1)
      /\ DOMAIN q = 1..Len(q) /\ r[Len(q) + 1] = m /\ \A i \in 1..Len(q) : r[i] = q[i]
  OBVIOUS
<1>2. \A i \in 1..Len(q) : q[i].old \in Nat
  BY MessageAges
<1> HIDE DEF r
<1>3. InOrder(r)
  BY <1>1, <1>2 DEF InOrder
<1>4. ASSUME NEW x, x.old \in Nat, Follows(q, x)
      PROVE  Follows(r, x)
  <2>1. SUFFICES ASSUME NEW i \in DOMAIN r, r[i].old > x.old
                 PROVE  \E j \in DOMAIN r : i <= j /\ r[j].price = x.price
    BY DEF Follows
  <2>2. i \in 1..Len(q)
    BY <1>1, <1>4, <2>1
  <2>3. PICK j \in 1..Len(q) : i <= j /\ q[j].price = x.price
    BY <1>1, <1>4, <2>1, <2>2 DEF Follows
  <2> QED
    BY <1>1, <2>3
<1> QED
  BY <1>1, <1>3, <1>4 DEF r

\* What is left of the messages of a lost connection.
LEMMA LeftOver ==
    ASSUME NEW q \in Seq(Sent), InOrder(q), NEW k \in 0..Len(q)
    PROVE  SubSeq(q, 1, k) \in Seq(Sent) /\ InOrder(SubSeq(q, 1, k))
<1> DEFINE r == SubSeq(q, 1, k)
<1>1. /\ r \in Seq(Sent) /\ Len(q) \in Nat /\ DOMAIN r = 1..k /\ DOMAIN q = 1..Len(q)
      /\ \A i \in 1..k : r[i] = q[i]
  OBVIOUS
<1> HIDE DEF r
<1>2. InOrder(r)
  BY <1>1 DEF InOrder
<1> QED
  BY <1>1, <1>2 DEF r

\* The message that is read, and those behind it.
LEMMA ReadFirst ==
    ASSUME NEW q \in Seq(Sent), InOrder(q), q # <<>>
    PROVE  /\ Head(q) \in Sent /\ Head(q) = q[1] /\ 1 \in DOMAIN q
           /\ Tail(q) \in Seq(Sent) /\ InOrder(Tail(q))
           /\ Tail(q) # <<>> => Tail(q)[Len(Tail(q))] = q[Len(q)]
           /\ \A i \in DOMAIN Tail(q) : ~(Tail(q)[i].old > Head(q).old)
           /\ \A x : Follows(q, x) => Follows(Tail(q), x)
           /\ \A j \in DOMAIN q : j # 1 =>
                 \E i \in DOMAIN Tail(q) : Tail(q)[i].price = q[j].price
<1> DEFINE r == Tail(q)
<1>1. /\ Len(q) \in Nat /\ Len(q) >= 1 /\ DOMAIN q = 1..Len(q)
      /\ Head(q) = q[1] /\ Head(q) \in Sent
  OBVIOUS
<1>2. /\ r \in Seq(Sent) /\ Len(r) = Len(q) - 1 /\ DOMAIN r = 1..(Len(q) - 1)
      /\ \A i \in 1..(Len(q) - 1) : r[i] = q[i + 1]
  BY <1>1
<1>3. \A i \in 1..Len(q) : q[i].old \in Nat
  BY MessageAges
<1> HIDE DEF r
<1>4. InOrder(r)
  <2>1. SUFFICES ASSUME NEW i \in DOMAIN r, NEW j \in DOMAIN r, i <= j
                 PROVE  r[j].old <= r[i].old
    BY DEF InOrder
  <2>2. /\ i + 1 \in DOMAIN q /\ j + 1 \in DOMAIN q /\ i + 1 <= j + 1
        /\ r[i] = q[i + 1] /\ r[j] = q[j + 1]
    BY <1>1, <1>2, <2>1
  <2> QED
    BY <2>2 DEF InOrder
<1>5. r # <<>> => r[Len(r)] = q[Len(q)]
  BY <1>1, <1>2
<1>6. \A i \in DOMAIN r : ~(r[i].old > Head(q).old)
  <2>1. SUFFICES ASSUME NEW i \in DOMAIN r
                 PROVE  ~(r[i].old > q[1].old)
    BY <1>1
  <2>2. i + 1 \in DOMAIN q /\ 1 \in DOMAIN q /\ 1 <= i + 1 /\ r[i] = q[i + 1]
    BY <1>1, <1>2
  <2>3. q[i + 1].old <= q[1].old /\ q[i + 1].old \in Nat /\ q[1].old \in Nat
    BY <1>1, <1>3, <2>2 DEF InOrder
  <2> QED
    BY <2>2, <2>3
<1>7. ASSUME NEW x, Follows(q, x)
      PROVE  Follows(r, x)
  <2>1. SUFFICES ASSUME NEW i \in DOMAIN r, r[i].old > x.old
                 PROVE  \E j \in DOMAIN r : i <= j /\ r[j].price = x.price
    BY DEF Follows
  <2>2. i + 1 \in DOMAIN q /\ q[i + 1].old > x.old /\ i \in Nat
    BY <1>1, <1>2, <2>1
  <2>3. PICK j \in DOMAIN q : i + 1 <= j /\ q[j].price = x.price
    BY <1>7, <2>2 DEF Follows
  <2>4. j - 1 \in DOMAIN r /\ i <= j - 1 /\ r[j - 1] = q[j]
    BY <1>1, <1>2, <2>2, <2>3
  <2> QED
    BY <2>3, <2>4
<1>8. ASSUME NEW j \in DOMAIN q, j # 1
      PROVE  \E i \in DOMAIN r : r[i].price = q[j].price
  <2>1. j - 1 \in DOMAIN r /\ r[j - 1] = q[j]
    BY <1>1, <1>2, <1>8
  <2> QED
    BY <2>1
<1> QED
  BY <1>1, <1>2, <1>4, <1>5, <1>6, <1>7, <1>8 DEF r

\* What the last message tells is told after all the others.
LEMMA LastFollows ==
    ASSUME NEW q \in Seq(Sent), NEW x, q # <<>> => q[Len(q)].price = x.price
    PROVE  Follows(q, x)
<1>1. Len(q) \in Nat /\ DOMAIN q = 1..Len(q)
  OBVIOUS
<1>2. SUFFICES ASSUME NEW i \in DOMAIN q
               PROVE  \E j \in DOMAIN q : i <= j /\ q[j].price = x.price
  BY DEF Follows
<1>3. q # <<>> /\ Len(q) \in DOMAIN q /\ i <= Len(q)
  BY <1>1, <1>2
<1> QED
  BY <1>3

\* The backend starts in a state of the right types.
LEMMA InitTypes == Init => TypeOK
BY Bounds DEF Init, TypeOK

\* What is received becomes an entry with its age.
LEMMA ReceivedIsAnEntry ==
    ASSUME NEW m, m.price \in Prices, m.old \in 0..Oldest
    PROVE  /\ Received(m) \in Entries
           /\ Received(m).price = m.price /\ Received(m).old = m.old /\ Received(m).seen = 0
BY Bounds DEF Received, Entries, Stale

\* The exchange, the operating of the streams and their messages keep the types.
LEMMA StreamTypes ==
    ASSUME TypeOK, NEW e \in Exchanges,
           Change(e) \/ Connect(e) \/ Disconnect(e) \/ OnWsTicker(e)
    PROVE  TypeOK'
<1>0. news[e] \in Seq(Sent) /\ price[e] \in Prices
  BY DEF TypeOK
<1>1. CASE Change(e)
  <2>1. PICK p \in Prices \ {price[e]} :
          /\ price' = [price EXCEPT ![e] = p]
          /\ news' = IF stream[e] = "up"
                     THEN [news EXCEPT ![e] = Append(@, [price |-> p, old |-> 0])]
                     ELSE news
    BY <1>1 DEF Change
  <2>2. [price |-> p, old |-> 0] \in Sent
    BY Bounds DEF Sent
  <2>3. Append(news[e], [price |-> p, old |-> 0]) \in Seq(Sent)
    BY <1>0, <2>2
  <2>4. news' \in [Exchanges -> Seq(Sent)]
    BY <2>1, <2>3 DEF TypeOK
  <2> QED
    BY <1>1, <2>1, <2>4, Bounds DEF Change, TypeOK, polling
<1>2. CASE Connect(e)
  <2>1. <<Now(e)>> \in Seq(Sent)
    BY Bounds DEF Now, Sent, TypeOK
  <2>2. news' \in [Exchanges -> Seq(Sent)]
    BY <1>2, <2>1 DEF Connect, TypeOK
  <2> QED
    BY <1>2, <2>2 DEF Connect, TypeOK, polling
<1>3. CASE Disconnect(e)
  <2>1. PICK k \in 0..Len(news[e]) : news' = [news EXCEPT ![e] = SubSeq(@, 1, k)]
    BY <1>3 DEF Disconnect
  <2>2. SubSeq(news[e], 1, k) \in Seq(Sent)
    BY <1>0, <2>1
  <2>3. news' \in [Exchanges -> Seq(Sent)]
    BY <2>1, <2>2 DEF TypeOK
  <2> QED
    BY <1>3, <2>3, Bounds DEF Disconnect, Fault, TypeOK, polling
<1>4. CASE OnWsTicker(e)
  <2>1. Head(news[e]) \in Sent /\ Tail(news[e]) \in Seq(Sent)
    BY <1>0, <1>4 DEF OnWsTicker
  <2>2. Received(Head(news[e])) \in Entries
    BY <2>1, ReceivedIsAnEntry, Bounds DEF Sent, Oldest
  <2>3. news' \in [Exchanges -> Seq(Sent)]
    BY <1>4, <2>1 DEF OnWsTicker, TypeOK
  <2> QED
    BY <1>4, <2>2, <2>3 DEF OnWsTicker, TypeOK, polling
<1> QED
  BY <1>1, <1>2, <1>3, <1>4

\* A request that is under way belongs to a round.
LEMMA RequestsAreOfARound ==
    ASSUME TypeOK, NEW e \in Exchanges,
           request[e] \in Attempts \cup Pauses \cup Answers
    PROVE  poll = "asking"
BY NoneAssumption DEF TypeOK

\* A request that is over keeps the types when its answer is a price.
LEMMA ReturnTypes ==
    ASSUME TypeOK, NEW e \in Exchanges, NEW m, m.price \in Prices, m.old \in 0..Oldest,
           Returns(e, m)
    PROVE  /\ ticker' \in [Exchanges -> Entries \cup {None}]
           /\ request' \in [Exchanges -> Attempts \cup Pauses \cup Answers \cup {None}]
<1>1. Received(m) \in Entries
  BY ReceivedIsAnEntry
<1> QED
  BY <1>1 DEF Returns, TypeOK

\* What a public adapter keeps is a price with its age.
LEMMA MemoFields ==
    ASSUME TypeOK, NEW e \in Public, memo[e] # None
    PROVE  memo[e].price \in Prices /\ memo[e].old \in 0..Oldest /\ memo[e].since \in 0..Fresh
BY DEF TypeOK, Memos

\* The fields of what is under way.
LEMMA RequestFields ==
    ASSUME TypeOK, NEW e \in Exchanges
    PROVE  /\ Waiting(e) => /\ request[e].attempt \in 1..MaxRetries
                            /\ request[e].since \in 0..MaxDelay
           /\ Answered(e) => /\ request[e].price \in Prices
                             /\ request[e].old \in 0..MaxDelay
                             /\ request[e].since \in 0..MaxDelay
BY DEF Waiting, Answered, Attempts, Answers

\* Every step of a request keeps the types.
LEMMA AsksTypes ==
    ASSUME TypeOK, NEW e \in Exchanges, Asks(e)
    PROVE  TypeOK'
<1>1. poll = "asking" /\ poll' = "asking"
  BY RequestsAreOfARound
     DEF Asks, UsesMemo, ExchangeAnswers, AnswerArrives, AttemptFails, NextAttempt, Refused,
         PublicFails, Waiting, Answered
<1>2. CASE UsesMemo(e)
  <2>1. memo[e].price \in Prices /\ memo[e].old \in 0..Oldest
    BY <1>2, MemoFields DEF UsesMemo, Repeats
  <2> QED
    BY <1>1, <1>2, <2>1, ReturnTypes DEF UsesMemo, TypeOK, streams
<1>3. CASE ExchangeAnswers(e)
  <2>1. [price |-> price[e], old |-> 0, since |-> request[e].since] \in Answers
    BY <1>3, RequestFields, Bounds DEF ExchangeAnswers, Answers, TypeOK
  <2> QED
    BY <1>1, <1>3, <2>1 DEF ExchangeAnswers, TypeOK, streams
<1>4. CASE AnswerArrives(e)
  <2>1. /\ request[e].price \in Prices /\ request[e].old \in 0..Oldest
        /\ request[e].since \in 0..MaxDelay
    BY <1>4, RequestFields, Bounds DEF AnswerArrives, Oldest
  <2>2. Noted(request[e]) \in Memos
    BY <2>1, Bounds DEF Noted, Memos, Younger
  <2>3. memo' \in [Public -> Memos \cup {None}]
    BY <1>4, <2>2 DEF AnswerArrives, TypeOK
  <2> QED
    BY <1>1, <1>4, <2>1, <2>3, ReturnTypes DEF AnswerArrives, TypeOK, streams
<1>5. CASE AttemptFails(e)
  <2>1. request[e].attempt < MaxRetries => [next |-> request[e].attempt + 1] \in Pauses
    BY <1>5, RequestFields, Bounds DEF AttemptFails, Pauses
  <2>2. faults' \in 0..MaxFaults
    BY <1>5, Bounds DEF AttemptFails, Fault, TypeOK
  <2>3. request' \in [Exchanges -> Attempts \cup Pauses \cup Answers \cup {None}]
    BY <1>5, <2>1 DEF AttemptFails, ReturnsNothing, TypeOK
  <2> QED
    BY <1>1, <1>5, <2>2, <2>3 DEF AttemptFails, ReturnsNothing, TypeOK, streams
<1>6. CASE NextAttempt(e)
  <2>1. Attempt(request[e].next) \in Attempts
    BY <1>6, Bounds DEF NextAttempt, Attempt, Attempts, Pauses
  <2> QED
    BY <1>1, <1>6, <2>1 DEF NextAttempt, TypeOK, streams
<1>7. CASE Refused(e)
  BY <1>1, <1>7, Bounds DEF Refused, ReturnsNothing, Fault, TypeOK, streams
<1>8. CASE PublicFails(e)
  <2>1. faults' \in 0..MaxFaults
    BY <1>8, Bounds DEF PublicFails, Fault, TypeOK
  <2>2. CASE memo[e] # None
    <3>1. memo[e].price \in Prices /\ memo[e].old \in 0..Oldest /\ Returns(e, memo[e])
      BY <1>8, <2>2, MemoFields DEF PublicFails
    <3> QED
      BY <1>1, <1>8, <2>1, <3>1, ReturnTypes DEF PublicFails, TypeOK, streams
  <2>3. CASE memo[e] = None
    BY <1>1, <1>8, <2>1, <2>3 DEF PublicFails, ReturnsNothing, TypeOK, streams
  <2> QED
    BY <2>2, <2>3
<1> QED
  BY <1>2, <1>3, <1>4, <1>5, <1>6, <1>7, <1>8 DEF Asks

\* The rounds keep the types.
LEMMA RoundTypes ==
    ASSUME TypeOK, PollBegins \/ PollEnds \/ Stop
    PROVE  TypeOK'
<1>1. Attempt(1) \in Attempts
  BY Bounds DEF Attempt, Attempts
<1>2. CASE PollBegins
  BY <1>1, <1>2 DEF PollBegins, TypeOK, streams
<1>3. CASE PollEnds
  BY <1>3 DEF PollEnds, TypeOK, streams
<1>4. CASE Stop
  BY <1>4 DEF Stop, TypeOK, streams
<1> QED
  BY <1>2, <1>3, <1>4

\* A tick, exchange by exchange.
LEMMA TickedFields ==
    ASSUME TypeOK, Tick, NEW e \in Exchanges
    PROVE  /\ news'[e] \in Seq(Sent) /\ DOMAIN news'[e] = DOMAIN news[e]
           /\ Len(news'[e]) = Len(news[e])
           /\ \A i \in DOMAIN news[e] :
                 /\ news'[e][i].price = news[e][i].price
                 /\ news'[e][i].old = news[e][i].old + 1
                 /\ news[e][i].old \in 0..MaxDelay /\ news'[e][i].old \in 0..MaxDelay
           /\ ticker[e] = None => ticker'[e] = None
           /\ ticker[e] # None => /\ ticker'[e] \in Entries
                                  /\ ticker'[e].price = ticker[e].price
                                  /\ ticker'[e].old = Younger(ticker[e].old + 1, Oldest)
                                  /\ ticker'[e].seen = Younger(ticker[e].seen + 1, Stale)
<1>1. /\ news'[e] = [i \in DOMAIN news[e] |-> [news[e][i] EXCEPT !.old = @ + 1]]
      /\ \A i \in DOMAIN news[e] : news[e][i].old < MaxDelay
      /\ news[e] \in Seq(Sent) /\ Len(news[e]) \in Nat /\ DOMAIN news[e] = 1..Len(news[e])
      /\ \A i \in DOMAIN news[e] : news[e][i] \in Sent
  <2>1. news[e] \in Seq(Sent)
    BY DEF TypeOK
  <2> QED
    BY <2>1, MessageAges DEF Tick, InTime
<1>2. ASSUME NEW i \in DOMAIN news[e]
      PROVE  /\ news'[e][i] \in Sent /\ news'[e][i].price = news[e][i].price
             /\ news'[e][i].old = news[e][i].old + 1
             /\ news[e][i].old \in 0..MaxDelay /\ news'[e][i].old \in 0..MaxDelay
  <2>1. news'[e][i] = [news[e][i] EXCEPT !.old = @ + 1]
    BY <1>1
  <2>2. news[e][i] \in Sent /\ news[e][i].old < MaxDelay
    BY <1>1
  <2> QED
    BY <2>1, <2>2, Bounds DEF Sent
<1>5. DOMAIN news'[e] = 1..Len(news[e]) /\ news'[e] \in [1..Len(news[e]) -> Sent]
  BY <1>1, <1>2
<1>6. news'[e] \in Seq(Sent) /\ Len(news'[e]) = Len(news[e])
  BY <1>1, <1>5
<1>3. ASSUME ticker[e] # None
      PROVE  /\ ticker'[e] \in Entries /\ ticker'[e].price = ticker[e].price
             /\ ticker'[e].old = Younger(ticker[e].old + 1, Oldest)
             /\ ticker'[e].seen = Younger(ticker[e].seen + 1, Stale)
  <2>1. ticker[e] \in Entries
    BY <1>3 DEF TypeOK
  <2>2. ticker'[e] = [ticker[e] EXCEPT !.old = Younger(@ + 1, Oldest),
                                       !.seen = Younger(@ + 1, Stale)]
    BY <1>3 DEF Tick
  <2>3. /\ Younger(ticker[e].old + 1, Oldest) \in 0..Oldest
        /\ Younger(ticker[e].seen + 1, Stale) \in 0..Stale
    BY <2>1, Bounds DEF Entries, Younger, Oldest, Stale
  <2> QED
    BY <1>3, <2>1, <2>2, <2>3 DEF Entries
<1>4. ticker[e] = None => ticker'[e] = None
  BY DEF Tick
<1> QED
  BY <1>1, <1>2, <1>3, <1>4, <1>5, <1>6

\* The same of what a public adapter keeps.
LEMMA TickedMemo ==
    ASSUME TypeOK, Tick, NEW e \in Public
    PROVE  /\ memo[e] = None => memo'[e] = None
           /\ memo[e] # None => /\ memo'[e] \in Memos
                                /\ memo'[e].old = Younger(memo[e].old + 1, Oldest)
<1>1. ASSUME memo[e] # None
      PROVE  memo'[e] \in Memos /\ memo'[e].old = Younger(memo[e].old + 1, Oldest)
  <2>1. memo[e] \in Memos
    BY <1>1 DEF TypeOK
  <2>2. memo'[e] = [memo[e] EXCEPT !.old = Younger(@ + 1, Oldest),
                                   !.since = Younger(@ + 1, Fresh)]
    BY <1>1 DEF Tick
  <2>3. /\ Younger(memo[e].old + 1, Oldest) \in 0..Oldest
        /\ Younger(memo[e].since + 1, Fresh) \in 0..Fresh
    BY <2>1, Bounds DEF Memos, Younger, Oldest
  <2> QED
    BY <1>1, <2>1, <2>2, <2>3 DEF Memos
<1>2. memo[e] = None => memo'[e] = None
  BY DEF Tick
<1> QED
  BY <1>1, <1>2

\* A request that is sent is none that is answered, and none that pauses.
LEMMA RequestsDiffer ==
    ASSUME NEW r
    PROVE  ~(r \in Attempts /\ r \in Answers) /\ ~(r \in Pauses /\ r \in Answers)
<1>1. ASSUME r \in Answers
      PROVE  DOMAIN r = {"price", "old", "since"}
  BY <1>1 DEF Answers
<1>2. ASSUME r \in Attempts
      PROVE  DOMAIN r = {"attempt", "since"}
  BY <1>2 DEF Attempts
<1>3. ASSUME r \in Pauses
      PROVE  DOMAIN r = {"next"}
  BY <1>3 DEF Pauses
<1>4. "attempt" \notin {"price", "old", "since"} /\ "next" \notin {"price", "old", "since"}
  OBVIOUS
<1> QED
  BY <1>1, <1>2, <1>3, <1>4

\* An answer that is under way for one tick more.
LEMMA OlderAnswer ==
    ASSUME NEW r \in Answers, r.old <= r.since, r.since < MaxDelay,
           NEW q, q = [r EXCEPT !.since = @ + 1, !.old = @ + 1]
    PROVE  /\ q \in Answers /\ q.price = r.price
           /\ q.old = r.old + 1 /\ q.since = r.since + 1
<1>1. r.price \in Prices /\ r.old \in 0..MaxDelay /\ r.since \in 0..MaxDelay
  BY DEF Answers
<1>2. q = [price |-> r.price, old |-> r.old + 1, since |-> r.since + 1]
  BY DEF Answers
<1>3. r.old + 1 \in 0..MaxDelay /\ r.since + 1 \in 0..MaxDelay
  BY <1>1, Bounds
<1> QED
  BY <1>1, <1>2, <1>3 DEF Answers

\* The same of a request.
LEMMA TickedRequest ==
    ASSUME TypeOK, Tick, NEW e \in Exchanges, AnswerIsTimely(e)
    PROVE  /\ request'[e] \in Attempts \cup Pauses \cup Answers \cup {None}
           /\ request[e] = None => request'[e] = None
           /\ Answered(e) => /\ Answered(e)'
                             /\ request'[e].price = request[e].price
                             /\ request'[e].old = request[e].old + 1
                             /\ request'[e].since = request[e].since + 1
           /\ Answered(e)' => Answered(e)
<1>0. request'[e] = Aged(e)
  BY DEF Tick
<1>1. CASE Waiting(e)
  <2>1. request[e] \in Attempts /\ ~Answered(e) /\ request[e].since < MaxDelay
    BY <1>1, RequestsDiffer DEF Waiting, Answered, Tick, InTime
  <2>2. request'[e] = [request[e] EXCEPT !.since = @ + 1]
    BY <1>0, <1>1, <2>1 DEF Aged
  <2>3. request'[e] \in Attempts
    BY <2>1, <2>2, Bounds DEF Attempts
  <2>4. request[e] # None /\ request'[e] \notin Answers
    BY <2>1, <2>3, RequestsDiffer, NoneAssumption
  <2> QED
    BY <2>1, <2>3, <2>4 DEF Answered
<1>2. CASE Answered(e)
  <2>1. request[e] \in Answers /\ ~Waiting(e) /\ request[e].since < MaxDelay
    BY <1>2, RequestsDiffer DEF Waiting, Answered, Tick, InTime
  <2>2. request'[e] = [request[e] EXCEPT !.since = @ + 1, !.old = @ + 1]
    BY <1>0, <1>2, <2>1 DEF Aged
  <2>3. request[e].old <= request[e].since
    BY <1>2 DEF AnswerIsTimely
  <2>4. /\ request'[e] \in Answers /\ request'[e].price = request[e].price
        /\ request'[e].old = request[e].old + 1
        /\ request'[e].since = request[e].since + 1
    BY <2>1, <2>2, <2>3, OlderAnswer
  <2>5. request[e] # None
    BY <2>1, NoneAssumption
  <2> QED
    BY <1>2, <2>4, <2>5 DEF Answered
<1>3. CASE ~Waiting(e) /\ ~Answered(e)
  BY <1>0, <1>3 DEF Aged, Answered, TypeOK
<1> QED
  BY <1>1, <1>2, <1>3

\* A tick keeps the types.
LEMMA TickTypes ==
    ASSUME TypeOK, Tick, \A e \in Exchanges : AnswerIsTimely(e)
    PROVE  TypeOK'
<1>1. news' \in [Exchanges -> Seq(Sent)]
  <2>1. DOMAIN news' = Exchanges /\ news' = [e \in Exchanges |-> news'[e]]
    BY DEF Tick
  <2>2. \A e \in Exchanges : news'[e] \in Seq(Sent)
    BY TickedFields
  <2> QED
    BY <2>1, <2>2
<1>2. ticker' \in [Exchanges -> Entries \cup {None}]
  <2>1. ticker' = [e \in Exchanges |-> ticker'[e]]
    BY DEF Tick
  <2>2. \A e \in Exchanges : ticker'[e] \in Entries \cup {None}
    BY TickedFields
  <2> QED
    BY <2>1, <2>2
<1>3. memo' \in [Public -> Memos \cup {None}]
  <2>1. memo' = [e \in Public |-> memo'[e]]
    BY DEF Tick
  <2>2. \A e \in Public : memo'[e] \in Memos \cup {None}
    BY TickedMemo
  <2> QED
    BY <2>1, <2>2
<1>4. request' \in [Exchanges -> Attempts \cup Pauses \cup Answers \cup {None}]
  <2>1. request' = [e \in Exchanges |-> request'[e]]
    BY DEF Tick
  <2>2. \A e \in Exchanges :
          request'[e] \in Attempts \cup Pauses \cup Answers \cup {None}
    BY TickedRequest
  <2> QED
    BY <2>1, <2>2
<1>5. poll' # "asking" => request' = [e \in Exchanges |-> None]
  <2>1. ASSUME poll # "asking"
        PROVE  \A e \in Exchanges : request'[e] = None
    <3>1. \A e \in Exchanges : request[e] = None
      BY <2>1 DEF TypeOK
    <3> QED
      BY <3>1, TickedRequest
  <2>2. poll' = poll
    BY DEF Tick
  <2> QED
    BY <1>4, <2>1, <2>2
<1>7. UNCHANGED <<price, changes, stream, poll, faults>>
  BY DEF Tick
<1> QED
  BY <1>1, <1>2, <1>3, <1>4, <1>5, <1>7 DEF TypeOK

-----------------------------------------------------------------------------
(***************************************************************************)
(* The ages.                                                               *)
(***************************************************************************)

\* What happens at another exchange does not matter.
LEMMA ElsewhereKeepsAges ==
    ASSUME NEW e \in Exchanges, Ages(e),
           price'[e] = price[e], stream'[e] = stream[e], news'[e] = news[e],
           ticker'[e] = ticker[e], request'[e] = request[e],
           e \in Public => memo'[e] = memo[e]
    PROVE  Ages(e)'
BY DEF Ages, EntryIsNoYounger, AnswerIsTimely, NewsIsCurrent, MemoIsNewest, Answered

\* Nor does a request that ends with nothing, or is not answered yet.
LEMMA UnansweredKeepsAges ==
    ASSUME NEW e \in Exchanges, Ages(e),
           price'[e] = price[e], stream'[e] = stream[e], news'[e] = news[e],
           ticker'[e] = ticker[e], e \in Public => memo'[e] = memo[e],
           ~Answered(e)'
    PROVE  Ages(e)'
BY DEF Ages, EntryIsNoYounger, AnswerIsTimely, NewsIsCurrent, MemoIsNewest

\* The types of what an exchange has under way and in the cache.
LEMMA AgeTypes ==
    ASSUME TypeOK, NEW e \in Exchanges
    PROVE  /\ news[e] \in Seq(Sent)
           /\ ticker[e] # None => /\ ticker[e].old \in 0..Oldest
                                 /\ ticker[e].seen \in 0..Stale
                                 /\ ticker[e].price \in Prices
           /\ Answered(e) => request[e].old \in 0..MaxDelay
           /\ e \in Public /\ memo[e] # None => memo[e].old \in 0..Oldest
<1>1. news[e] \in Seq(Sent)
  BY DEF TypeOK
<1>2. ticker[e] # None => ticker[e] \in Entries
  BY DEF TypeOK
<1> QED
  BY <1>1, <1>2, RequestFields, MemoFields DEF Entries

\* A change of the price, which is sent at once if somebody listens.
LEMMA ChangeKeepsAges ==
    ASSUME AgesInv, NEW e \in Exchanges, Change(e)
    PROVE  \A f \in Exchanges : Ages(f)'
<1>1. PICK p \in Prices \ {price[e]} :
          /\ price' = [price EXCEPT ![e] = p]
          /\ news' = IF stream[e] = "up"
                     THEN [news EXCEPT ![e] = Append(@, [price |-> p, old |-> 0])]
                     ELSE news
  BY DEF Change
<1>2. UNCHANGED <<stream, ticker, memo, request>>
  BY DEF Change, polling
<1>3. ASSUME NEW f \in Exchanges, f # e
      PROVE  Ages(f)'
  BY <1>1, <1>2, <1>3, ElsewhereKeepsAges DEF AgesInv, TypeOK
<1>4. NewsIsCurrent(e)'
  <2>1. CASE stream[e] = "up"
    <3> DEFINE m == [price |-> p, old |-> 0]
    <3>1. m \in Sent /\ m.old = 0 /\ m.price = p
      BY Bounds DEF Sent
    <3>2. news'[e] = Append(news[e], m) /\ price'[e] = p
      BY <1>1, <2>1 DEF AgesInv, TypeOK
    <3> HIDE DEF m
    <3>3. /\ news[e] \in Seq(Sent) /\ InOrder(news[e])
          /\ ticker[e] # None => ticker[e].old \in Nat /\ Follows(news[e], ticker[e])
          /\ Answered(e) => request[e].old \in Nat /\ Follows(news[e], request[e])
      BY <2>1, AgeTypes, Bounds DEF AgesInv, Ages, NewsIsCurrent, Oldest
    <3> QED
      BY <1>2, <3>1, <3>2, <3>3, SentLast DEF NewsIsCurrent, Answered
  <2>2. CASE stream[e] # "up"
    BY <1>1, <1>2, <2>2 DEF AgesInv, Ages, NewsIsCurrent
  <2> QED
    BY <2>1, <2>2
<1>5. MemoIsNewest(e)'
  BY <1>1, <1>2 DEF AgesInv, Ages, MemoIsNewest, Answered
<1>6. Ages(e)'
  BY <1>2, <1>4, <1>5 DEF AgesInv, Ages, EntryIsNoYounger, AnswerIsTimely, Answered
<1> QED
  BY <1>3, <1>6

\* Connections, and the message that arrives.
LEMMA StreamKeepsAges ==
    ASSUME AgesInv, NEW e \in Exchanges, Connect(e) \/ Disconnect(e) \/ OnWsTicker(e)
    PROVE  \A f \in Exchanges : Ages(f)'
<1>1. UNCHANGED <<price, memo, request>>
  BY DEF Connect, Disconnect, OnWsTicker, polling
<1>2. ASSUME NEW f \in Exchanges, f # e
      PROVE  Ages(f)'
  <2>1. stream'[f] = stream[f] /\ news'[f] = news[f] /\ ticker'[f] = ticker[f]
    BY <1>2 DEF Connect, Disconnect, OnWsTicker, AgesInv, TypeOK, polling
  <2> QED
    BY <1>1, <2>1, ElsewhereKeepsAges DEF AgesInv
<1>3. /\ news[e] \in Seq(Sent) /\ InOrder(news[e])
      /\ e \in Public => stream[e] = "down" /\ news[e] = <<>>
  BY AgeTypes DEF AgesInv, Ages, NewsIsCurrent, MemoIsNewest
<1>4. CASE Connect(e)
  <2>1. e \notin Public /\ ticker' = ticker
    BY <1>4, Bounds DEF Connect
  <2>2. news'[e] = <<>> \/ news'[e] = <<Now(e)>>
    BY <1>4 DEF Connect, AgesInv, TypeOK
  <2>3. Now(e) \in Sent /\ Now(e).price = price[e]
    BY Bounds DEF Now, Sent, AgesInv, TypeOK
  <2>4. InOrder(news'[e])
    BY <2>2 DEF InOrder, Now
  <2>5. news'[e] # <<>> => news'[e][Len(news'[e])].price = price[e]
    BY <2>2, <2>3
  <2>6. ASSUME NEW x, x.old \in Nat
        PROVE  Follows(news'[e], x)
    BY <2>2, <2>6 DEF Follows, Now
  <2>7. NewsIsCurrent(e)'
    BY <1>1, <2>1, <2>4, <2>5, <2>6, AgeTypes, Bounds DEF AgesInv, NewsIsCurrent, Answered,
                                                          Oldest
  <2> QED
    BY <1>1, <1>2, <2>1, <2>7
       DEF AgesInv, Ages, EntryIsNoYounger, AnswerIsTimely, MemoIsNewest, Answered
<1>5. CASE Disconnect(e)
  <2>1. PICK k \in 0..Len(news[e]) : news' = [news EXCEPT ![e] = SubSeq(@, 1, k)]
    BY <1>5 DEF Disconnect
  <2>2. /\ stream'[e] = "down" /\ ticker' = ticker /\ e \notin Public
        /\ news'[e] = SubSeq(news[e], 1, k)
    BY <1>3, <1>5, <2>1 DEF Disconnect, AgesInv, TypeOK
  <2>3. InOrder(news'[e])
    BY <1>3, <2>1, <2>2, LeftOver
  <2> QED
    BY <1>1, <1>2, <2>2, <2>3 DEF AgesInv, Ages, EntryIsNoYounger, AnswerIsTimely,
                                  NewsIsCurrent, MemoIsNewest, Answered
<1>6. CASE OnWsTicker(e)
  <2>1. /\ news[e] # <<>> /\ stream' = stream /\ news'[e] = Tail(news[e])
        /\ ticker'[e] = Received(Head(news[e]))
    BY <1>6 DEF OnWsTicker, AgesInv, TypeOK
  <2>2. e \notin Public
    BY <1>3, <2>1
  <2>3. Head(news[e]).old \in Nat /\ ticker'[e].old = Head(news[e]).old /\ ticker'[e].seen = 0
    BY <1>3, <2>1, ReadFirst, MessageAges DEF Received
  <2>4. InOrder(news'[e])
    BY <1>3, <2>1, ReadFirst
  <2>5. Follows(news'[e], ticker'[e])
    BY <1>3, <2>1, <2>3, ReadFirst DEF Follows
  <2>6. ASSUME stream[e] = "up"
        PROVE  /\ news'[e] # <<>> => news'[e][Len(news'[e])].price = price[e]
               /\ Answered(e) => Follows(news'[e], request[e])
    BY <1>3, <2>1, <2>6, ReadFirst DEF AgesInv, Ages, NewsIsCurrent
  <2>7. NewsIsCurrent(e)'
    BY <1>1, <2>1, <2>4, <2>5, <2>6 DEF NewsIsCurrent, Answered
  <2>8. ticker'[e].seen <= ticker'[e].old
    BY <2>3
  <2> QED
    BY <1>1, <1>2, <2>2, <2>7, <2>8
       DEF AgesInv, Ages, EntryIsNoYounger, AnswerIsTimely, MemoIsNewest, Answered
<1> QED
  BY <1>4, <1>5, <1>6

\* Only an answer has the fields of one.
LEMMA NotAnswered ==
    /\ \A n : [next |-> n] \notin Answers
    /\ \A n : Attempt(n) \notin Answers
    /\ None \notin Answers
<1>1. ASSUME NEW r \in Answers
      PROVE  DOMAIN r = {"price", "old", "since"}
  BY DEF Answers
<1>2. ASSUME NEW n
      PROVE  DOMAIN [next |-> n] = {"next"} /\ DOMAIN Attempt(n) = {"attempt", "since"}
  BY DEF Attempt
<1>3. "attempt" \notin {"price", "old", "since"} /\ "next" \notin {"price", "old", "since"}
  OBVIOUS
<1> QED
  BY <1>1, <1>2, <1>3, NoneAssumption

\* What a public adapter repeats leaves it as it was, or makes the cache as old
\* as the memo.
LEMMA MemoKeepsAges ==
    ASSUME AgesInv, NEW e \in Public, memo[e] # None, Returns(e, memo[e]),
           UNCHANGED <<price, streams, memo>>
    PROVE  Ages(e)'
<1>1. e \in Exchanges /\ news[e] = <<>> /\ stream[e] = "down" /\ InOrder(news[e])
  BY DEF Exchanges, AgesInv, Ages, MemoIsNewest, NewsIsCurrent
<1>2. request'[e] = None /\ ~Answered(e)'
  BY <1>1, NotAnswered DEF Returns, AgesInv, TypeOK, Answered
<1>3. \/ ticker'[e] = ticker[e]
      \/ ticker'[e].old = memo[e].old /\ ticker'[e].seen = 0
  BY <1>1 DEF Returns, Received, AgesInv, TypeOK
<1>4. memo[e].old \in 0..Oldest
  BY <1>1, AgeTypes DEF AgesInv
<1>5. EntryIsNoYounger(e)'
  BY <1>1, <1>3, <1>4, Bounds DEF AgesInv, Ages, EntryIsNoYounger, Oldest
<1>6. MemoIsNewest(e)'
  BY <1>1, <1>2, <1>3, <1>4, Bounds DEF AgesInv, Ages, MemoIsNewest, streams, Oldest
<1> QED
  BY <1>1, <1>2, <1>5, <1>6 DEF Ages, AnswerIsTimely, NewsIsCurrent, streams

\* An answer that arrives.
LEMMA AnswerKeepsAges ==
    ASSUME AgesInv, NEW e \in Exchanges, AnswerArrives(e)
    PROVE  Ages(e)'
<1>1. Answered(e) /\ UNCHANGED <<price, stream, news>>
  BY DEF AnswerArrives, streams
<1>2. request'[e] = None /\ ~Answered(e)'
  BY NotAnswered DEF AnswerArrives, Returns, AgesInv, TypeOK, Answered
<1>3. \/ ticker'[e] = ticker[e] /\ ticker[e] # None
      \/ /\ ticker'[e].old = request[e].old /\ ticker'[e].seen = 0
         /\ ticker'[e].price = request[e].price
  BY DEF AnswerArrives, Returns, MayReplace, Received, AgesInv, TypeOK
<1>4. request[e].old \in 0..MaxDelay
  BY <1>1, AgeTypes DEF AgesInv
<1>5. EntryIsNoYounger(e)'
  BY <1>3, <1>4, Bounds DEF AgesInv, Ages, EntryIsNoYounger
<1>6. NewsIsCurrent(e)'
  BY <1>1, <1>2, <1>3 DEF AgesInv, Ages, NewsIsCurrent, Follows
<1>7. MemoIsNewest(e)'
  <2>1. ASSUME e \in Public
        PROVE  memo'[e].old = request[e].old
    BY <2>1 DEF AnswerArrives, Noted, AgesInv, TypeOK
  <2> QED
    BY <1>1, <1>2, <1>3, <1>4, <2>1, Bounds DEF AgesInv, Ages, MemoIsNewest
<1> QED
  BY <1>2, <1>5, <1>6, <1>7 DEF Ages, AnswerIsTimely

\* Every step of a request.
LEMMA AsksKeepsAges ==
    ASSUME AgesInv, NEW e \in Exchanges, Asks(e)
    PROVE  \A f \in Exchanges : Ages(f)'
<1>1. UNCHANGED <<price, streams>>
  BY DEF Asks, UsesMemo, ExchangeAnswers, AnswerArrives, AttemptFails, NextAttempt, Refused,
         PublicFails
<1>2. ASSUME NEW f \in Exchanges, f # e
      PROVE  Ages(f)'
  <2>1. ticker'[f] = ticker[f] /\ request'[f] = request[f]
    BY <1>2 DEF Asks, UsesMemo, ExchangeAnswers, AnswerArrives, AttemptFails, NextAttempt,
                Refused, PublicFails, Returns, ReturnsNothing, AgesInv, TypeOK
  <2>2. f \in Public => memo'[f] = memo[f]
    BY <1>2 DEF Asks, UsesMemo, ExchangeAnswers, AnswerArrives, AttemptFails, NextAttempt,
                Refused, PublicFails, AgesInv, TypeOK
  <2> QED
    BY <1>1, <2>1, <2>2, ElsewhereKeepsAges DEF AgesInv, streams
<1> SUFFICES Ages(e)'
  BY <1>2
<1>3. CASE UsesMemo(e)
  BY <1>1, <1>3, MemoKeepsAges DEF UsesMemo, Repeats
<1>4. CASE ExchangeAnswers(e)
  <2>1. /\ request'[e].price = price[e] /\ request'[e].old = 0
        /\ request'[e].since = request[e].since
        /\ UNCHANGED <<ticker, memo>>
    BY <1>4 DEF ExchangeAnswers, AgesInv, TypeOK
  <2>2. request[e].since \in 0..MaxDelay
    BY <1>4, RequestFields DEF ExchangeAnswers, AgesInv
  <2>3. AnswerIsTimely(e)'
    BY <2>1, <2>2, Bounds DEF AnswerIsTimely
  <2>4. MemoIsNewest(e)'
    BY <1>1, <2>1, AgeTypes, Bounds DEF AgesInv, Ages, MemoIsNewest, streams, Oldest
  <2>5. stream[e] = "up" => Follows(news[e], request'[e])
    BY <2>1, AgeTypes, LastFollows DEF AgesInv, Ages, NewsIsCurrent
  <2>6. EntryIsNoYounger(e)' /\ NewsIsCurrent(e)'
    BY <1>1, <2>1, <2>5 DEF AgesInv, Ages, EntryIsNoYounger, NewsIsCurrent, streams
  <2> QED
    BY <2>3, <2>4, <2>6 DEF Ages
<1>5. CASE AnswerArrives(e)
  BY <1>5, AnswerKeepsAges
<1>6. CASE AttemptFails(e)
  <2>1. ticker' = ticker /\ memo' = memo
    BY <1>6 DEF AttemptFails, ReturnsNothing
  <2>2. ~Answered(e)'
    BY <1>6, NotAnswered DEF AttemptFails, ReturnsNothing, Answered, AgesInv, TypeOK
  <2> QED
    BY <1>1, <2>1, <2>2, UnansweredKeepsAges DEF AgesInv, streams
<1>7. CASE NextAttempt(e)
  <2>1. ticker' = ticker /\ memo' = memo
    BY <1>7 DEF NextAttempt
  <2>2. ~Answered(e)'
    BY <1>7, NotAnswered DEF NextAttempt, Answered, AgesInv, TypeOK
  <2> QED
    BY <1>1, <2>1, <2>2, UnansweredKeepsAges DEF AgesInv, streams
<1>8. ASSUME ReturnsNothing(e), memo' = memo
      PROVE  Ages(e)'
  <2>1. ticker' = ticker /\ ~Answered(e)'
    BY <1>8, NotAnswered DEF ReturnsNothing, Answered, AgesInv, TypeOK
  <2> QED
    BY <1>1, <1>8, <2>1, UnansweredKeepsAges DEF AgesInv, streams
<1>9. CASE Refused(e)
  BY <1>8, <1>9 DEF Refused
<1>10. CASE PublicFails(e)
  BY <1>1, <1>8, <1>10, MemoKeepsAges DEF PublicFails
<1> QED
  BY <1>3, <1>4, <1>5, <1>6, <1>7, <1>9, <1>10 DEF Asks

\* The rounds.
LEMMA RoundKeepsAges ==
    ASSUME AgesInv, PollBegins \/ PollEnds \/ Stop, NEW e \in Exchanges
    PROVE  Ages(e)'
<1>1. UNCHANGED <<price, streams, ticker, memo>>
  BY DEF PollBegins, PollEnds, Stop
<1>2. request' = request \/ request'[e] \in {None, Attempt(1)}
  BY DEF PollBegins, PollEnds, Stop
<1>3. CASE request' = request
  BY <1>1, <1>3, ElsewhereKeepsAges DEF AgesInv, streams
<1>4. CASE request'[e] \in {None, Attempt(1)}
  <2>1. ~Answered(e)'
    BY <1>4, NotAnswered DEF Answered
  <2> QED
    BY <1>1, <2>1, UnansweredKeepsAges DEF AgesInv, streams
<1> QED
  BY <1>2, <1>3, <1>4

\* Time passes for all alike.
LEMMA TickKeepsAges ==
    ASSUME AgesInv, Tick, NEW e \in Exchanges
    PROVE  Ages(e)'
<1>1. TypeOK /\ Ages(e) /\ AnswerIsTimely(e) /\ price' = price /\ stream' = stream
  BY DEF AgesInv, Ages, Tick
<1>2. EntryIsNoYounger(e)'
  <2>1. ASSUME ticker'[e] # None
        PROVE  ticker'[e].seen <= ticker'[e].old
    <3>1. ticker[e] # None
      BY <1>1, <2>1, TickedFields
    <3>2. /\ ticker'[e].old = Younger(ticker[e].old + 1, Oldest)
          /\ ticker'[e].seen = Younger(ticker[e].seen + 1, Stale)
      BY <1>1, <3>1, TickedFields
    <3>3. ticker[e].seen <= ticker[e].old
      BY <1>1, <3>1 DEF Ages, EntryIsNoYounger
    <3> QED
      BY <1>1, <3>1, <3>2, <3>3, AgeTypes, Bounds DEF Younger, Oldest, Stale
  <2> QED
    BY <2>1 DEF EntryIsNoYounger
<1>3. AnswerIsTimely(e)'
  BY <1>1, TickedRequest, RequestFields, Bounds DEF AnswerIsTimely
<1>4. NewsIsCurrent(e)'
  <2>1. /\ news[e] \in Seq(Sent) /\ news'[e] \in Seq(Sent)
        /\ DOMAIN news'[e] = DOMAIN news[e] /\ Len(news'[e]) = Len(news[e])
        /\ \A i \in DOMAIN news[e] :
              /\ news'[e][i].price = news[e][i].price
              /\ news'[e][i].old = news[e][i].old + 1
              /\ news[e][i].old \in 0..MaxDelay /\ news'[e][i].old \in 0..MaxDelay
    BY <1>1, TickedFields, AgeTypes
  <2>2. InOrder(news'[e])
    <3>1. SUFFICES ASSUME NEW i \in DOMAIN news[e], NEW j \in DOMAIN news[e], i <= j
                   PROVE  news'[e][j].old <= news'[e][i].old
      BY <2>1 DEF InOrder
    <3>2. news[e][j].old <= news[e][i].old
      BY <1>1, <3>1 DEF Ages, NewsIsCurrent, InOrder
    <3>3. /\ news'[e][i].old = news[e][i].old + 1 /\ news'[e][j].old = news[e][j].old + 1
          /\ news[e][i].old \in 0..MaxDelay /\ news[e][j].old \in 0..MaxDelay
      BY <2>1
    <3>4. ASSUME NEW a \in 0..MaxDelay, NEW b \in 0..MaxDelay, b <= a
          PROVE  b + 1 <= a + 1
      BY <3>4, Bounds
    <3> QED
      BY <3>2, <3>3, <3>4
  <2>3. ASSUME NEW x, NEW y, Follows(news[e], x), y.price = x.price, x.old \in Nat,
               y.old = x.old + 1 \/ y.old >= MaxDelay, y.old \in Nat
        PROVE  Follows(news'[e], y)
    <3>1. SUFFICES ASSUME NEW i \in DOMAIN news'[e], news'[e][i].old > y.old
                   PROVE  \E j \in DOMAIN news'[e] : i <= j /\ news'[e][j].price = y.price
      BY DEF Follows
    <3>2. i \in DOMAIN news[e] /\ news[e][i].old > x.old
      BY <2>1, <2>3, <3>1, Bounds
    <3>3. PICK j \in DOMAIN news[e] : i <= j /\ news[e][j].price = x.price
      BY <2>3, <3>2 DEF Follows
    <3> QED
      BY <2>1, <2>3, <3>3
  <2>4. ASSUME stream[e] = "up", ticker'[e] # None
        PROVE  Follows(news'[e], ticker'[e])
    <3>1. /\ ticker[e] # None /\ ticker'[e].price = ticker[e].price
          /\ ticker'[e].old = Younger(ticker[e].old + 1, Oldest)
          /\ ticker[e].old \in 0..Oldest /\ Follows(news[e], ticker[e])
      BY <1>1, <2>4, TickedFields, AgeTypes DEF Ages, NewsIsCurrent
    <3>2. ticker'[e].old = ticker[e].old + 1 \/ ticker'[e].old >= MaxDelay
      BY <3>1, Bounds DEF Younger, Oldest
    <3>3. ticker[e].old \in Nat /\ ticker'[e].old \in Nat
      BY <3>1, Bounds DEF Younger, Oldest
    <3> QED
      BY <2>3, <3>1, <3>2, <3>3
  <2>5. ASSUME stream[e] = "up", Answered(e)'
        PROVE  Follows(news'[e], request'[e])
    <3>1. /\ Answered(e) /\ request'[e].price = request[e].price
          /\ request'[e].old = request[e].old + 1 /\ request[e].old \in 0..MaxDelay
      BY <1>1, <2>5, TickedRequest, AgeTypes
    <3>2. Follows(news[e], request[e])
      BY <1>1, <2>5, <3>1 DEF Ages, NewsIsCurrent
    <3>3. request[e].old \in Nat /\ request'[e].old \in Nat
      BY <3>1, Bounds
    <3> QED
      BY <2>3, <3>1, <3>2, <3>3
  <2>6. ASSUME stream[e] = "up", news'[e] # <<>>
        PROVE  news'[e][Len(news'[e])].price = price[e]
    <3>1. news[e] # <<>> /\ Len(news[e]) \in DOMAIN news[e]
      BY <2>1, <2>6
    <3> QED
      BY <1>1, <2>1, <2>6, <3>1 DEF Ages, NewsIsCurrent
  <2> QED
    BY <1>1, <2>2, <2>4, <2>5, <2>6 DEF NewsIsCurrent
<1>5. MemoIsNewest(e)'
  <2>1. SUFFICES ASSUME e \in Public
                 PROVE  /\ ticker'[e] # None /\ memo'[e] # None
                              => memo'[e].old <= ticker'[e].old
                        /\ ticker'[e] # None /\ Answered(e)'
                              => request'[e].old <= ticker'[e].old
    <3>1. e \in Public => news'[e] = <<>>
      BY <1>1, TickedFields DEF Ages, MemoIsNewest
    <3> QED
      BY <1>1, <3>1 DEF Ages, MemoIsNewest
  <2>2. SUFFICES ASSUME ticker'[e] # None
                 PROVE  /\ memo'[e] # None => memo'[e].old <= ticker'[e].old
                        /\ Answered(e)' => request'[e].old <= ticker'[e].old
    OBVIOUS
  <2>3. /\ ticker[e] # None /\ ticker[e].old \in 0..Oldest
        /\ ticker'[e].old = Younger(ticker[e].old + 1, Oldest)
    BY <1>1, <2>2, TickedFields, AgeTypes
  <2>4. ASSUME memo'[e] # None
        PROVE  memo'[e].old <= ticker'[e].old
    <3>1. /\ memo[e] # None /\ memo[e].old \in 0..Oldest
          /\ memo'[e].old = Younger(memo[e].old + 1, Oldest)
      BY <1>1, <2>1, <2>4, TickedMemo, AgeTypes
    <3>2. memo[e].old <= ticker[e].old
      BY <1>1, <2>1, <2>3, <3>1 DEF Ages, MemoIsNewest
    <3> QED
      BY <2>3, <3>1, <3>2, Bounds DEF Younger, Oldest
  <2>5. ASSUME Answered(e)'
        PROVE  request'[e].old <= ticker'[e].old
    <3>1. /\ Answered(e) /\ request[e].old \in 0..MaxDelay
          /\ request'[e].old = request[e].old + 1
      BY <1>1, <2>5, TickedRequest, AgeTypes
    <3>2. request[e].old <= ticker[e].old
      BY <1>1, <2>1, <2>3, <3>1 DEF Ages, MemoIsNewest
    <3> QED
      BY <2>3, <3>1, <3>2, Bounds DEF Younger, Oldest
  <2> QED
    BY <2>4, <2>5
<1> QED
  BY <1>2, <1>3, <1>4, <1>5 DEF Ages

\* For any exchanges, delays, thresholds and faults: types, and the ages of what
\* is under way, in the cache and kept by the public adapters.
THEOREM AgesAreKnown == Spec => []AgesInv
<1>1. Init => AgesInv
  <2>1. ASSUME Init, NEW e \in Exchanges
        PROVE  Ages(e)
    BY <2>1, NotAnswered DEF Init, Ages, EntryIsNoYounger, AnswerIsTimely, NewsIsCurrent,
                             InOrder, MemoIsNewest, Answered
  <2> QED
    BY <2>1, InitTypes DEF AgesInv
<1>2. AgesInv /\ [Next]_vars => AgesInv'
  <2>1. SUFFICES ASSUME AgesInv, [Next]_vars
                 PROVE  AgesInv'
    OBVIOUS
  <2>2. ASSUME NEW e \in Exchanges, ExchangeNext(e)
        PROVE  AgesInv'
    <3>1. TypeOK'
      BY <2>1, <2>2, StreamTypes, AsksTypes DEF AgesInv, ExchangeNext
    <3>2. \A f \in Exchanges : Ages(f)'
      BY <2>1, <2>2, ChangeKeepsAges, StreamKeepsAges, AsksKeepsAges DEF ExchangeNext
    <3> QED
      BY <3>1, <3>2 DEF AgesInv
  <2>3. CASE PollBegins \/ PollEnds \/ Stop
    BY <2>1, <2>3, RoundTypes, RoundKeepsAges DEF AgesInv
  <2>4. CASE Tick
    <3>1. TypeOK'
      BY <2>1, <2>4, TickTypes DEF AgesInv, Ages
    <3> QED
      BY <2>1, <2>4, <3>1, TickKeepsAges DEF AgesInv
  <2>5. CASE UNCHANGED vars
    <3>1. TypeOK'
      BY <2>1, <2>5 DEF AgesInv, TypeOK, vars, streams, polling
    <3>2. ASSUME NEW e \in Exchanges
          PROVE  Ages(e)'
      BY <2>1, <2>5, ElsewhereKeepsAges DEF AgesInv, vars, streams, polling
    <3> QED
      BY <3>1, <3>2 DEF AgesInv
  <2> QED
    BY <2>1, <2>2, <2>3, <2>4, <2>5 DEF Next
<1> QED
  BY <1>1, <1>2, PTL DEF Spec

-----------------------------------------------------------------------------
(***************************************************************************)
(* What is written.                                                        *)
(***************************************************************************)

\* What a step does to the price of an exchange.
SetbackIsMended(e) ==
    GoesBack(e) => /\ OnWsTicker(e)
                   /\ stream[e] = "down" \/ IsToldAgain(e)

\* An answer or a memo that replaces an entry that is no longer fresh.
LEMMA AnswersGoForward ==
    ASSUME AgesInv, MaxDelay <= Fresh, NEW e \in Exchanges, Asks(e)
    PROVE  ~GoesBack(e)
<1>1. SUFFICES ASSUME Replaced(e)
               PROVE  ~(ticker'[e].old > ticker[e].old)
  BY DEF GoesBack
<1>2. ticker[e] # None /\ ticker'[e] # ticker[e]
  BY <1>1 DEF Replaced
<1>3. ASSUME NEW m, Returns(e, m)
      PROVE  ticker'[e].old = m.old /\ ticker[e].seen > Fresh
  BY <1>2, <1>3 DEF Returns, MayReplace, Received, AgesInv, TypeOK
<1>4. CASE AnswerArrives(e)
  <2>1. request[e].old \in 0..MaxDelay
    BY <1>4, AgeTypes DEF AnswerArrives, AgesInv
  <2>2. ticker[e].seen <= ticker[e].old
    BY <1>2 DEF AgesInv, Ages, EntryIsNoYounger
  <2>3. /\ ticker'[e].old = request[e].old /\ ticker[e].seen > Fresh
        /\ ticker[e].old \in 0..Oldest /\ ticker[e].seen \in 0..Stale
    BY <1>2, <1>3, <1>4, AgeTypes DEF AnswerArrives, AgesInv
  <2> QED
    BY <2>1, <2>2, <2>3, Bounds DEF Oldest, Stale
<1>5. CASE UsesMemo(e) \/ PublicFails(e)
  <2>1. e \in Public /\ memo[e] # None /\ Returns(e, memo[e])
    BY <1>2, <1>5 DEF UsesMemo, Repeats, PublicFails, ReturnsNothing
  <2>2. memo[e].old <= ticker[e].old
    BY <1>2, <2>1 DEF AgesInv, Ages, MemoIsNewest
  <2>3. memo[e].old \in 0..Oldest /\ ticker[e].old \in 0..Oldest
    BY <1>2, <2>1, AgeTypes DEF AgesInv
  <2> QED
    BY <1>3, <2>1, <2>2, <2>3, Bounds DEF Oldest
<1>6. CASE ExchangeAnswers(e) \/ AttemptFails(e) \/ NextAttempt(e) \/ Refused(e)
  BY <1>2, <1>6 DEF ExchangeAnswers, AttemptFails, NextAttempt, Refused, ReturnsNothing
<1> QED
  BY <1>4, <1>5, <1>6 DEF Asks

\* A message of a stream that replaces any entry: what was sent after it is
\* told again.
LEMMA NewsGoForward ==
    ASSUME AgesInv, NEW e \in Exchanges, OnWsTicker(e)
    PROVE  SetbackIsMended(e)
<1>1. SUFFICES ASSUME GoesBack(e), stream[e] = "up"
               PROVE  IsToldAgain(e)
  BY DEF SetbackIsMended, AgesInv, TypeOK
<1>2. news[e] \in Seq(Sent) /\ news[e] # <<>> /\ InOrder(news[e])
  BY AgeTypes DEF OnWsTicker, AgesInv, Ages, NewsIsCurrent
<1>3. /\ ticker'[e].old = news[e][1].old /\ ticker'[e].price = news[e][1].price
      /\ news'[e] = Tail(news[e]) /\ 1 \in DOMAIN news[e]
  BY <1>2, ReadFirst DEF OnWsTicker, Received, AgesInv, TypeOK
<1>4. ticker[e] # None /\ ticker'[e].price # ticker[e].price /\ ticker'[e].old > ticker[e].old
  BY <1>1 DEF GoesBack, Replaced
<1>5. Follows(news[e], ticker[e])
  BY <1>1, <1>4 DEF AgesInv, Ages, NewsIsCurrent
<1>6. PICK j \in DOMAIN news[e] : news[e][j].price = ticker[e].price
  BY <1>3, <1>4, <1>5 DEF Follows
<1>7. j # 1
  BY <1>3, <1>4, <1>6
<1>8. \A k \in DOMAIN news[e] : k # 1 =>
         \E i \in DOMAIN Tail(news[e]) : Tail(news[e])[i].price = news[e][k].price
  BY <1>2, ReadFirst, Zenon
<1> QED
  BY <1>3, <1>6, <1>7, <1>8 DEF IsToldAgain

\* The other steps replace no price.
LEMMA OthersReplaceNothing ==
    ASSUME AgesInv, NEW e \in Exchanges,
           \/ ticker' = ticker
           \/ Tick
           \/ \E f \in Exchanges \ {e} : OnWsTicker(f) \/ Asks(f)
    PROVE  ~GoesBack(e)
<1>1. CASE ticker' = ticker
  BY <1>1 DEF GoesBack, Replaced
<1>2. CASE Tick
  BY <1>2, TickedFields DEF GoesBack, Replaced, AgesInv
<1>3. ASSUME NEW f \in Exchanges \ {e}, OnWsTicker(f) \/ Asks(f)
      PROVE  ~GoesBack(e)
  <2>1. ticker'[e] = ticker[e]
    BY <1>3 DEF OnWsTicker, Asks, UsesMemo, ExchangeAnswers, AnswerArrives, AttemptFails,
                NextAttempt, Refused, PublicFails, Returns, ReturnsNothing, AgesInv, TypeOK
  <2> QED
    BY <2>1 DEF GoesBack, Replaced
<1> QED
  BY <1>1, <1>2, <1>3

\* For any exchanges, prices, thresholds, attempts and faults, if nothing is under
\* way for longer than an entry counts as fresh: no answer to a request and no
\* repeated answer writes an earlier price over a later one; a message of a stream
\* does only while the later price is still to come on its connection, unless that
\* was lost. (market_data.py, _on_ws_ticker and _rest_poll_once)
THEOREM SetbacksComeFromStreams == Spec => SetbacksAreMended
<1>1. AgesInv /\ [Next]_vars =>
        [MaxDelay <= Fresh =>
           \A e \in Exchanges :
              GoesBack(e) => /\ OnWsTicker(e)
                             /\ stream[e] = "down" \/ IsToldAgain(e)]_vars
  <2>1. SUFFICES ASSUME AgesInv, [Next]_vars, MaxDelay <= Fresh, NEW e \in Exchanges
                 PROVE  SetbackIsMended(e)
    BY DEF SetbackIsMended
  <2>2. ASSUME NEW f \in Exchanges, ExchangeNext(f)
        PROVE  SetbackIsMended(e)
    <3>1. CASE Change(f) \/ Connect(f) \/ Disconnect(f)
      <4>1. ticker' = ticker
        BY <3>1 DEF Change, Connect, Disconnect
      <4> QED
        BY <2>1, <4>1, OthersReplaceNothing DEF SetbackIsMended
    <3>2. CASE f # e /\ (OnWsTicker(f) \/ Asks(f))
      BY <2>1, <3>2, OthersReplaceNothing DEF SetbackIsMended
    <3>3. CASE f = e /\ OnWsTicker(f)
      BY <2>1, <3>3, NewsGoForward
    <3>4. CASE f = e /\ Asks(f)
      BY <2>1, <3>4, AnswersGoForward DEF SetbackIsMended
    <3> QED
      BY <2>2, <3>1, <3>2, <3>3, <3>4 DEF ExchangeNext
  <2>3. CASE PollBegins \/ PollEnds \/ Stop \/ UNCHANGED vars
    <3>1. ticker' = ticker
      BY <2>3 DEF PollBegins, PollEnds, Stop, vars
    <3> QED
      BY <2>1, <3>1, OthersReplaceNothing DEF SetbackIsMended
  <2>4. CASE Tick
    BY <2>1, <2>4, OthersReplaceNothing DEF SetbackIsMended
  <2> QED
    BY <2>1, <2>2, <2>3, <2>4 DEF Next
<1> QED
  BY <1>1, AgesAreKnown, PTL DEF Spec, SetbacksAreMended
=============================================================================
