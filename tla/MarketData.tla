---------------------------- MODULE MarketData ----------------------------
(***************************************************************************)
(* services/market_data.py and the adapters it reads: the cache of the     *)
(* tickers of one symbol.  A stream of each exchange writes the cache when *)
(* a price changes; a loop asks all exchanges by REST and fills in what    *)
(* the streams have not refreshed lately.  Nothing is locked.              *)
(*                                                                         *)
(* Public exchanges have no stream.  Their adapter (public_adapter.py)     *)
(* keeps the last answer, repeats it while it is young, and also when a    *)
(* request fails.                                                          *)
(*                                                                         *)
(* An entry has two ages: "seen" is the time since it was written, which   *)
(* the code knows, "old" the time since the exchange sent the price, which *)
(* it does not.  Order books, which are written alike but have no REST     *)
(* fallback, latency metrics and the copies in Redis are left out.         *)
(***************************************************************************)
EXTENDS Integers, Sequences

CONSTANTS
    Private,      \* the exchanges with streams
    Public,       \* those that are only polled
    Prices,
    Threshold,    \* _stale_threshold_s
    Fresh,        \* what REST does not replace; the public adapters' _cache_ttl
    None,
    MaxDelay,     \* bound: how long a message or an answer is under way
    MaxRetries,   \* the attempts of a request
    MaxChanges,   \* bound: changes of a price
    MaxFaults     \* bound: lost connections and failed attempts

Exchanges == Private \cup Public

ASSUME MarketDataAssumption ==
    /\ Private \cap Public = {}
    /\ {Threshold, Fresh, MaxDelay, MaxChanges, MaxFaults} \subseteq Nat
    /\ MaxRetries \in Nat \ {0}
    /\ Fresh < Threshold

VARIABLES
    price,     \* external: the price an exchange would tell
    changes,
    stream,    \* _ws_listen: "up" or "down"
    news,      \* the messages of a stream that are under way, the oldest first
    ticker,    \* MarketDataService._tickers
    memo,      \* PublicExchangeAdapter._cached_tickers
    poll,      \* _rest_poll_loop: "sleeping", "asking" or "stopped"
    request,   \* what became of the request to an exchange in this round
    faults

streams == <<stream, news>>
polling == <<poll, request>>
vars == <<price, changes, streams, ticker, memo, polling, faults>>

\* Ages beyond these are not told apart.
Oldest == Threshold + MaxDelay + 1
Stale == Threshold + 1

Younger(a, b) == IF a < b THEN a ELSE b

Sent == [price : Prices, old : 0..MaxDelay]
Entries == [price : Prices, old : 0..Oldest, seen : 0..Stale]
Memos == [price : Prices, old : 0..Oldest, since : 0..Fresh]

\* A request is sent, or its next attempt waits for the back-off, or the
\* exchange has answered.
Attempts == [attempt : 1..MaxRetries, since : 0..MaxDelay]
Pauses == [next : 2..MaxRetries]
Answers == [price : Prices, old : 0..MaxDelay, since : 0..MaxDelay]

ASSUME NoneAssumption ==
    None \notin Entries \cup Memos \cup Attempts \cup Pauses \cup Answers

TypeOK ==
    /\ price \in [Exchanges -> Prices] /\ changes \in 0..MaxChanges
    /\ stream \in [Exchanges -> {"up", "down"}]
    /\ news \in [Exchanges -> Seq(Sent)]
    /\ ticker \in [Exchanges -> Entries \cup {None}]
    /\ memo \in [Public -> Memos \cup {None}]
    /\ poll \in {"sleeping", "asking", "stopped"}
    /\ request \in [Exchanges -> Attempts \cup Pauses \cup Answers \cup {None}]
    /\ faults \in 0..MaxFaults
    /\ poll # "asking" => request = [e \in Exchanges |-> None]

\* After start: the subscriptions have been asked for.
Init ==
    /\ price \in [Exchanges -> Prices]
    /\ changes = 0
    /\ stream = [e \in Exchanges |-> "down"]
    /\ news = [e \in Exchanges |-> <<>>]
    /\ ticker = [e \in Exchanges |-> None]
    /\ memo = [e \in Public |-> None]
    /\ poll = "sleeping"
    /\ request = [e \in Exchanges |-> None]
    /\ faults = 0

Fault == faults < MaxFaults /\ faults' = faults + 1

-----------------------------------------------------------------------------
(***************************************************************************)
(* The streams.                                                            *)
(***************************************************************************)

Now(e) == [price |-> price[e], old |-> 0]

\* External.  A stream tells every change, and a connection delivers in order.
Change(e) ==
    /\ changes < MaxChanges
    /\ changes' = changes + 1
    /\ \E p \in Prices \ {price[e]} :
          /\ price' = [price EXCEPT ![e] = p]
          /\ news' = IF stream[e] = "up"
                     THEN [news EXCEPT ![e] = Append(@, [price |-> p, old |-> 0])]
                     ELSE news
    /\ UNCHANGED <<stream, ticker, memo, polling, faults>>

\* The listener has read what the lost connection had delivered.  Some
\* exchanges send the current price at first, some the next change.
Connect(e) ==
    /\ e \in Private /\ stream[e] = "down" /\ news[e] = <<>>
    /\ stream' = [stream EXCEPT ![e] = "up"]
    /\ news' \in {news, [news EXCEPT ![e] = <<Now(e)>>]}
    /\ UNCHANGED <<price, changes, ticker, memo, polling, faults>>

\* The last messages may be lost; the others are still read.
Disconnect(e) ==
    /\ stream[e] = "up"
    /\ Fault
    /\ stream' = [stream EXCEPT ![e] = "down"]
    /\ \E k \in 0..Len(news[e]) : news' = [news EXCEPT ![e] = SubSeq(@, 1, k)]
    /\ UNCHANGED <<price, changes, ticker, memo, polling>>

Received(m) == [price |-> m.price, old |-> m.old, seen |-> 0]

\* Whatever the cache holds is overwritten; the handler then waits for Redis
\* and for the subscribers before it takes the next message.
OnWsTicker(e) ==
    /\ news[e] # <<>>
    /\ ticker' = [ticker EXCEPT ![e] = Received(Head(news[e]))]
    /\ news' = [news EXCEPT ![e] = Tail(@)]
    /\ UNCHANGED <<price, changes, stream, memo, polling, faults>>

-----------------------------------------------------------------------------
(***************************************************************************)
(* A round of REST polling.                                                *)
(***************************************************************************)

Waiting(e) == request[e] \in Attempts
Answered(e) == request[e] \in Answers

Attempt(n) == [attempt |-> n, since |-> 0]

PollBegins ==
    /\ poll = "sleeping"
    /\ poll' = "asking"
    /\ request' = [e \in Exchanges |-> Attempt(1)]
    /\ UNCHANGED <<price, changes, streams, ticker, memo, faults>>

OnlyAbsent(e) == ticker[e] = None            \* mutant: REST fills gaps only

AlwaysReplace(e) == TRUE                     \* mutant: REST replaces what is fresh

\* "Only update if we don't have fresh WS data".
MayReplace(e) == ticker[e] = None \/ ticker[e].seen > Fresh

\* A request to e is over; m is what the adapter returned.
Returns(e, m) ==
    /\ ticker' = IF MayReplace(e) THEN [ticker EXCEPT ![e] = Received(m)] ELSE ticker
    /\ request' = [request EXCEPT ![e] = None]

ReturnsNothing(e) ==
    /\ request' = [request EXCEPT ![e] = None]
    /\ UNCHANGED ticker

\* A public adapter that asked lately repeats its last answer.
Repeats(e) == e \in Public /\ memo[e] # None /\ memo[e].since < Fresh

UsesMemo(e) ==
    /\ Waiting(e) /\ Repeats(e)
    /\ Returns(e, memo[e])
    /\ UNCHANGED <<price, changes, streams, memo, poll, faults>>

ExchangeAnswers(e) ==
    /\ Waiting(e) /\ ~Repeats(e)
    /\ request' = [request EXCEPT ![e] = [price |-> price[e], old |-> 0, since |-> @.since]]
    /\ UNCHANGED <<price, changes, streams, ticker, memo, poll, faults>>

Noted(m) == [price |-> m.price, old |-> m.old, since |-> Younger(m.since, Fresh)]

AnswerArrives(e) ==
    /\ Answered(e)
    /\ Returns(e, request[e])
    /\ memo' = IF e \in Public THEN [memo EXCEPT ![e] = Noted(request[e])] ELSE memo
    /\ UNCHANGED <<price, changes, streams, poll, faults>>

\* A lost connection, a timeout or a rate limit: the next attempt, after a
\* pause, or the last error.  (An answer that is lost on its way tells nobody
\* anything; its attempt might as well have failed at once.)
AttemptFails(e) ==
    /\ e \in Private /\ Waiting(e)
    /\ Fault
    /\ IF request[e].attempt < MaxRetries
       THEN request' = [request EXCEPT ![e] = [next |-> @.attempt + 1]] /\ UNCHANGED ticker
       ELSE ReturnsNothing(e)
    /\ UNCHANGED <<price, changes, streams, memo, poll>>

NextAttempt(e) ==
    /\ request[e] \in Pauses
    /\ request' = [request EXCEPT ![e] = Attempt(@.next)]
    /\ UNCHANGED <<price, changes, streams, ticker, memo, poll, faults>>

\* Any other error is raised at once, and caught by the poll.
Refused(e) ==
    /\ e \in Private /\ Waiting(e)
    /\ Fault
    /\ ReturnsNothing(e)
    /\ UNCHANGED <<price, changes, streams, memo, poll>>

\* "return stale if available"
PublicFails(e) ==
    /\ e \in Public /\ Waiting(e) /\ ~Repeats(e)
    /\ Fault
    /\ IF memo[e] # None THEN Returns(e, memo[e]) ELSE ReturnsNothing(e)
    /\ UNCHANGED <<price, changes, streams, memo, poll>>

\* The round is over when all exchanges have answered or failed.
PollEnds ==
    /\ poll = "asking" /\ \A e \in Exchanges : request[e] = None
    /\ poll' = "sleeping"
    /\ UNCHANGED <<price, changes, streams, ticker, memo, request, faults>>

\* The streams go on until the adapters are shut down.
Stop ==
    /\ poll # "stopped"
    /\ poll' = "stopped"
    /\ request' = [e \in Exchanges |-> None]
    /\ UNCHANGED <<price, changes, streams, ticker, memo, faults>>

-----------------------------------------------------------------------------
\* Time passes while nothing is under way for too long.
InTime(e) ==
    /\ \A i \in DOMAIN news[e] : news[e][i].old < MaxDelay
    /\ Waiting(e) \/ Answered(e) => request[e].since < MaxDelay

Aged(e) == CASE Waiting(e)  -> [request[e] EXCEPT !.since = @ + 1]
             [] Answered(e) -> [request[e] EXCEPT !.since = @ + 1, !.old = @ + 1]
             [] OTHER       -> request[e]

Tick ==
    /\ \A e \in Exchanges : InTime(e)
    /\ news' = [e \in Exchanges |->
                    [i \in DOMAIN news[e] |-> [news[e][i] EXCEPT !.old = @ + 1]]]
    /\ ticker' = [e \in Exchanges |->
                    IF ticker[e] = None THEN None
                    ELSE [ticker[e] EXCEPT !.old = Younger(@ + 1, Oldest),
                                           !.seen = Younger(@ + 1, Stale)]]
    /\ memo' = [e \in Public |->
                    IF memo[e] = None THEN None
                    ELSE [memo[e] EXCEPT !.old = Younger(@ + 1, Oldest),
                                         !.since = Younger(@ + 1, Fresh)]]
    /\ request' = [e \in Exchanges |-> Aged(e)]
    /\ UNCHANGED <<price, changes, stream, poll, faults>>

Asks(e) ==
    \/ UsesMemo(e)
    \/ ExchangeAnswers(e)
    \/ AnswerArrives(e)
    \/ AttemptFails(e)
    \/ NextAttempt(e)
    \/ Refused(e)
    \/ PublicFails(e)

ExchangeNext(e) ==
    \/ Change(e)
    \/ Connect(e)
    \/ Disconnect(e)
    \/ OnWsTicker(e)
    \/ Asks(e)

Next ==
    \/ \E e \in Exchanges : ExchangeNext(e)
    \/ PollBegins
    \/ PollEnds
    \/ Stop
    \/ Tick

Spec == Init /\ [][Next]_vars

\* The loop catches every error and a request has a timeout.  Nothing says that
\* a stream is ever connected.
FairSpec ==
    /\ Spec
    /\ WF_vars(PollBegins) /\ WF_vars(PollEnds) /\ WF_vars(Tick)
    /\ \A e \in Exchanges : WF_vars(Asks(e)) /\ WF_vars(OnWsTicker(e))

-----------------------------------------------------------------------------
(***************************************************************************)
(* is_data_stale, get_data_age                                             *)
(***************************************************************************)
IsStale(e) == ticker[e] = None \/ ticker[e].seen > Threshold

-----------------------------------------------------------------------------
(***************************************************************************)
(* Properties.                                                             *)
(***************************************************************************)

\* Another price is written.
Replaced(e) ==
    /\ ticker[e] # None /\ ticker'[e] # ticker[e]
    /\ ticker'[e].seen = 0 /\ ticker'[e].price # ticker[e].price

\* An earlier price is written over another that was sent later.
GoesBack(e) == Replaced(e) /\ ticker'[e].old > ticker[e].old

\* The price that was overwritten is still to come on the same connection.
IsToldAgain(e) ==
    \E i \in DOMAIN news'[e] : news'[e][i].price = ticker[e].price

\* As long as nothing is under way for longer than a ticker counts as fresh, no
\* answer to a request and no repeated answer ever writes an earlier price over
\* one that was sent later.  A message of a stream may, because it overwrites
\* whatever a request has filled in meanwhile; then the later price follows it
\* on the same connection, unless that was lost.
\* (market_data.py, _on_ws_ticker and _rest_poll_once)
SetbacksAreMended ==
    [][MaxDelay <= Fresh =>
         \A e \in Exchanges :
            GoesBack(e) => /\ OnWsTicker(e)
                           /\ stream[e] = "down" \/ IsToldAgain(e)]_vars

\* Whether the streams are connected or not, however often requests fail in
\* between: once an exchange keeps its price, the cache shows it for good,
\* unless the service is stopped. (market_data.py, _rest_poll_loop)
TickersCatchUp ==
    [](poll # "stopped") =>
        <>[](\A e \in Exchanges : ticker[e] # None /\ ticker[e].price = price[e])

\* market_data.py:83, "Detects stale data beyond a configurable threshold": a
\* price that is not called stale was sent within the threshold, but for the
\* time it was under way.
StaleIsDetected ==
    \A e \in Exchanges : ~IsStale(e) => ticker[e].old <= Threshold + MaxDelay
=============================================================================
