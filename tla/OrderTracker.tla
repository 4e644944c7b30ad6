---------------------------- MODULE OrderTracker ----------------------------
(***************************************************************************)
(* services/order_tracker.py: the records of live orders.  An executor     *)
(* registers an order, tells whether its submission went well, and may     *)
(* give it up later; a poll loop asks the exchange about every submitted   *)
(* order and a reconciliation loop compares the last completed records     *)
(* with the exchange.  Every question to an exchange is awaited, so the    *)
(* executor, the exchange and the other loop act between question and      *)
(* answer.                                                                 *)
(***************************************************************************)
EXTENDS Integers, SequencesExt

CONSTANTS
    Orders,         \* the orders, each registered at most once
    Qty,            \* the quantity of an order, in lots
    Closings,       \* the statuses in which an exchange closes an order early
    MaxRetries,     \* max_retries
    MaxCompleted,   \* _max_completed
    Window,         \* completed orders that a reconciliation looks at
    MaxFaults       \* bound: questions to the exchange that fail

ASSUME TrackerAssumption ==
    /\ Closings \subseteq {"CANCELED", "EXPIRED", "REJECTED"}
    /\ Qty \in Nat \ {0} /\ MaxRetries \in Nat \ {0}
    /\ MaxCompleted \in Nat \ {0} /\ Window \in 1..MaxCompleted
    /\ MaxFaults \in Nat

VARIABLES
    exchange,   \* what the exchange knows: [status, filled] of an order
    state,      \* OrderLifecycleState; "none" before the registration
    sent,       \* the order has an order_id
    filled,     \* filled_quantity
    retries,    \* retry_count
    active,     \* _active_orders
    completed,  \* _completed_orders
    round,      \* the orders whose poll is in flight
    answer,     \* the answer that is on its way
    check,      \* the orders the running reconciliation has still to check
    reading,    \* the answer about the first of them
    running,    \* _running
    faults,     \* questions that failed
    ended,      \* history: how often an order was counted as ended
    givenUp     \* history: orders marked as failed during a poll of theirs

record == <<state, sent, filled, retries, active, completed>>
loops  == <<round, answer, check, reading, running, faults>>
vars   == <<exchange, record, loops, ended, givenUp>>

Statuses == {"NEW", "PARTIALLY_FILLED", "FILLED", "CANCELED", "REJECTED", "EXPIRED"}

Closed == {"FILLED", "CANCELED", "REJECTED", "EXPIRED"}

Answers == [status : Statuses, filled : 0..Qty]

NoAnswer == [status |-> "none", filled |-> 0]

Ends == {"filled", "cancelled", "failed", "expired"}      \* is_terminal

TypeOK ==
    /\ exchange \in [Orders -> Answers \cup {NoAnswer}]
    /\ answer   \in [Orders -> Answers \cup {NoAnswer}]
    /\ reading  \in Answers \cup {NoAnswer}
    /\ state    \in [Orders -> {"none", "pending_submit", "submitted",
                                "partially_filled"} \cup Ends]
    /\ sent     \in [Orders -> BOOLEAN]
    /\ filled   \in [Orders -> 0..Qty]
    /\ retries  \in [Orders -> 0..MaxFaults]
    /\ active \subseteq Orders /\ round \subseteq Orders /\ givenUp \subseteq Orders
    /\ completed \in Seq(Orders) /\ Len(completed) <= MaxCompleted
    /\ check \in Seq(Orders) /\ Len(check) <= Window
    /\ running \in BOOLEAN /\ faults \in 0..MaxFaults
    /\ ended \in [Orders -> 0..2]

Init ==
    /\ exchange = [o \in Orders |-> NoAnswer]
    /\ answer   = [o \in Orders |-> NoAnswer]
    /\ state    = [o \in Orders |-> "none"]
    /\ sent     = [o \in Orders |-> FALSE]
    /\ filled   = [o \in Orders |-> 0]
    /\ retries  = [o \in Orders |-> 0]
    /\ active = {} /\ completed = <<>>
    /\ round = {} /\ check = <<>> /\ reading = NoAnswer
    /\ running = FALSE /\ faults = 0
    /\ ended = [o \in Orders |-> 0]
    /\ givenUp = {}

-----------------------------------------------------------------------------
(***************************************************************************)
(* The exchange fills an order it accepted bit by bit and closes it.       *)
(***************************************************************************)
\* What may become of an open order of which q lots are filled.
Progress(q) ==
    {[status |-> "PARTIALLY_FILLED", filled |-> n] : n \in q + 1..Qty - 1}
      \cup {[status |-> "FILLED", filled |-> Qty]}
      \cup {[status |-> s, filled |-> q] : s \in Closings \ (IF q = 0 THEN {} ELSE {"REJECTED"})}

Trade(o) ==
    /\ exchange[o].status \in {"NEW", "PARTIALLY_FILLED"}
    /\ \E a \in Progress(exchange[o].filled) : exchange' = [exchange EXCEPT ![o] = a]
    /\ UNCHANGED <<record, loops, ended, givenUp>>

-----------------------------------------------------------------------------
(***************************************************************************)
(* What the executor calls.                                                *)
(***************************************************************************)
\* register_order.  The submission that follows reaches the exchange or not,
\* whether or not the executor learns of it.
Register(o) ==
    /\ state[o] = "none"
    /\ \E a \in {NoAnswer, [status |-> "NEW", filled |-> 0]} :
          exchange' = [exchange EXCEPT ![o] = a]
    /\ state' = [state EXCEPT ![o] = "pending_submit"]
    /\ active' = active \cup {o}
    /\ UNCHANGED <<sent, filled, retries, completed, loops, ended, givenUp>>

\* mark_submitted, with the order_id the exchange gave
MarkSubmitted(o) ==
    /\ o \in active /\ state[o] = "pending_submit" /\ exchange[o] # NoAnswer
    /\ state' = [state EXCEPT ![o] = "submitted"]
    /\ sent' = [sent EXCEPT ![o] = TRUE]
    /\ UNCHANGED <<exchange, filled, retries, active, completed, loops, ended, givenUp>>

Latest(seq, n) == SubSeq(seq, IF Len(seq) > n THEN Len(seq) - n + 1 ELSE 1, Len(seq))

\* _move_to_completed: the ring keeps the last MaxCompleted.
Moved(o) ==
    /\ active' = active \ {o}
    /\ completed' = IF o \in active THEN Latest(Append(completed, o), MaxCompleted)
                                     ELSE completed

\* record_transition into a state that ends the order, the metric, the move
EndsAs(o, end) ==
    /\ state' = [state EXCEPT ![o] = end]
    /\ ended' = [ended EXCEPT ![o] = @ + 1]
    /\ Moved(o)

MarkFailedAnyway(o) ==                                  \* mutant: no early return
    /\ state[o] # "none" /\ ended[o] < 2
    /\ EndsAs(o, "failed")
    /\ UNCHANGED <<exchange, sent, filled, retries, loops, givenUp>>

\* mark_failed: the submission or the execution failed
MarkFailed(o) ==
    /\ o \in active
    /\ EndsAs(o, "failed")
    /\ givenUp' = IF o \in round THEN givenUp \cup {o} ELSE givenUp
    /\ UNCHANGED <<exchange, sent, filled, retries, loops>>

-----------------------------------------------------------------------------
(***************************************************************************)
(* _poll_loop: a round asks about every submitted order at once and is     *)
(* over when each has its answer (gather).                                 *)
(***************************************************************************)
PolledOnce == {o \in active : state[o] = "submitted"}    \* mutant

Polled == {o \in active : state[o] \in {"submitted", "partially_filled"}}

Poll ==
    /\ running /\ round = {} /\ Polled # {}
    /\ round' = Polled
    /\ UNCHANGED <<exchange, record, answer, check, reading, running, faults, ended, givenUp>>

\* The exchange answers with what it knows; the answer is on its way.
Answer(o) ==
    /\ o \in round /\ answer[o] = NoAnswer
    /\ answer' = [answer EXCEPT ![o] = exchange[o]]
    /\ UNCHANGED <<exchange, record, round, check, reading, running, faults, ended, givenUp>>

NewFilled(o) == IF answer[o].filled > filled[o] THEN answer[o].filled ELSE filled[o]

\* The state that an answer asks for; an order that is there already stays.
EndOf(status) == CASE status = "FILLED"   -> "filled"
                   [] status = "CANCELED" -> "cancelled"
                   [] status = "REJECTED" -> "failed"
                   [] status = "EXPIRED"  -> "expired"

\* _update_order_status once the answer is there.
Update(o) ==
    /\ o \in round /\ answer[o] # NoAnswer
    /\ round' = round \ {o}
    /\ filled' = [filled EXCEPT ![o] = NewFilled(o)]
    /\ IF answer[o].status \in Closed /\ state[o] # EndOf(answer[o].status)
       THEN EndsAs(o, EndOf(answer[o].status))
       ELSE /\ state' = [state EXCEPT ![o] = IF answer[o].status = "PARTIALLY_FILLED"
                                             THEN "partially_filled" ELSE @]
            /\ UNCHANGED <<active, completed, ended>>
    /\ answer' = [answer EXCEPT ![o] = NoAnswer]
    /\ UNCHANGED <<exchange, sent, retries, check, reading, running, faults, givenUp>>

OutOfRetries(n) == n >= MaxRetries

\* The question fails: after MaxRetries failures, successes between them or
\* not, the order is given up.
UpdateFails(o) ==
    /\ o \in round /\ faults < MaxFaults
    /\ faults' = faults + 1
    /\ round' = round \ {o}
    /\ retries' = [retries EXCEPT ![o] = @ + 1]
    /\ IF OutOfRetries(retries[o] + 1)
       THEN EndsAs(o, "failed")
       ELSE UNCHANGED <<state, ended, active, completed>>
    /\ answer' = [answer EXCEPT ![o] = NoAnswer]
    /\ UNCHANGED <<exchange, sent, filled, check, reading, running, givenUp>>

-----------------------------------------------------------------------------
(***************************************************************************)
(* run_reconciliation: the last Window completed orders that have an id,   *)
(* one after the other.                                                    *)
(***************************************************************************)
CheckAll == Latest(completed, Window)

Reconcile ==
    /\ running /\ check = <<>> /\ CheckAll # <<>>
    /\ check' = CheckAll
    /\ UNCHANGED <<exchange, record, round, answer, reading, running, faults, ended, givenUp>>

\* The exchange answers about the first of them.
Read ==
    /\ check # <<>> /\ sent[Head(check)] /\ reading = NoAnswer
    /\ reading' = exchange[Head(check)]
    /\ UNCHANGED <<exchange, record, round, answer, check, running, faults, ended, givenUp>>

\* The answer differs from what is on record when it arrives: a mismatch is
\* counted and published (and nothing is corrected).
Mismatch(o) == /\ check # <<>> /\ Head(check) = o
               /\ reading # NoAnswer /\ reading.filled # filled[o]

CompareUnread ==                                        \* mutant: does not wait
    /\ check # <<>>
    /\ check' = Tail(check) /\ reading' = NoAnswer
    /\ UNCHANGED <<exchange, record, round, answer, running, faults, ended, givenUp>>

\* On to the next one; an order without an id is skipped.
Compare ==
    /\ check # <<>> /\ (sent[Head(check)] => reading # NoAnswer)
    /\ check' = Tail(check) /\ reading' = NoAnswer
    /\ UNCHANGED <<exchange, record, round, answer, running, faults, ended, givenUp>>

\* A question that fails is skipped.
CompareFails ==
    /\ check # <<>> /\ sent[Head(check)] /\ faults < MaxFaults
    /\ faults' = faults + 1
    /\ check' = Tail(check) /\ reading' = NoAnswer
    /\ UNCHANGED <<exchange, record, round, answer, running, ended, givenUp>>

-----------------------------------------------------------------------------
\* start and stop; stop cancels both loops in their waits.
Start ==
    /\ ~running
    /\ running' = TRUE
    /\ UNCHANGED <<exchange, record, round, answer, check, reading, faults, ended, givenUp>>

Stop ==
    /\ running
    /\ running' = FALSE
    /\ round' = {} /\ answer' = [o \in Orders |-> NoAnswer]
    /\ check' = <<>> /\ reading' = NoAnswer
    /\ UNCHANGED <<exchange, record, faults, ended, givenUp>>

Next == \/ \E o \in Orders : \/ Trade(o)
                             \/ Register(o) \/ MarkSubmitted(o) \/ MarkFailed(o)
                             \/ Answer(o) \/ Update(o) \/ UpdateFails(o)
        \/ Poll \/ Reconcile \/ Read \/ Compare \/ CompareFails
        \/ Start \/ Stop

Polling == Poll \/ \E o \in Orders : Answer(o) \/ Update(o)

Reconciling == Reconcile \/ Read \/ Compare

\* The loops come round again, and every question is answered or fails.
Fairness == WF_vars(Polling) /\ WF_vars(Reconciling)

Spec == Init /\ [][Next]_vars /\ Fairness

-----------------------------------------------------------------------------
(***************************************************************************)
(* Properties.                                                             *)
(***************************************************************************)
\* The books agree: what is active has not ended, what has ended is in the ring
\* (once) or was pushed out of it by later ones, and the metrics count every
\* end once, but for an order given up during its own poll, whose answer may
\* end it a second time.
EndsAreCountedOnce ==
    /\ \A o \in active : ended[o] = 0 /\ state[o] \notin Ends
    /\ \A o \in Orders : ended[o] > 1 => o \in givenUp
    /\ IsInjective(completed)
    /\ \A o \in ToSet(completed) : ended[o] > 0 /\ o \notin active

\* The record of an order is never ahead of the exchange, and an order that is
\* on record as filled is filled, whatever answers came late.
RecordIsPast ==
    \A o \in Orders : /\ filled[o] <= exchange[o].filled
                      /\ state[o] = "filled" => filled[o] = Qty
                      /\ state[o] = "partially_filled" => filled[o] > 0

\* However late the answers come, the tracker's books are sound.
\* (order_tracker.py, _update_order_status, mark_failed and _move_to_completed)
BooksAreSound == EndsAreCountedOnce /\ RecordIsPast

\* Every submitted order that the exchange closes gets its end on record, as
\* long as the tracker runs, unless it was given up during its own poll: a late
\* answer may then leave a completed order as partially filled for ever.
EveryEndIsSeen ==
    \A o \in Orders : (sent[o] /\ exchange[o].status \in Closed)
                        ~> (state[o] \in Ends \/ o \in givenUp \/ ~running)

\* A completed order whose record stays short of what the exchange filled is
\* found by a reconciliation, unless later orders push it out of the window, or
\* the tracker stops.
MismatchIsFound ==
    \A o \in Orders :
        (sent[o] /\ o \in ToSet(CheckAll) /\ filled[o] # exchange[o].filled)
          ~> (Mismatch(o) \/ o \notin ToSet(CheckAll)
                \/ filled[o] = exchange[o].filled \/ ~running)
=============================================================================
