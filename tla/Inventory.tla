----------------------------- MODULE Inventory -----------------------------
(***************************************************************************)
(* services/inventory.py: the cache of the balances on all exchanges, from *)
(* which the planner bounds an order.  Several tasks write it without a    *)
(* lock: refresh_all, which every execution calls when it is over, asks    *)
(* one exchange after the other and writes all answers at the end;         *)
(* on_execution_completed asks an exchange and writes its answer at once.  *)
(* Each entry is followed by a write to Redis that is awaited, so other    *)
(* tasks run between two entries.  Meanwhile orders change the balances.   *)
(*                                                                         *)
(* Nothing else refreshes the cache: the backend neither starts            *)
(* _refresh_loop, which would be one more of the tasks that refresh, nor   *)
(* calls on_execution_completed, whose tasks may be left out (Hooks).      *)
(*                                                                         *)
(* An amount is the total of an asset; the free and the locked part go     *)
(* with it.  The time stamps, which are only reported, and the copies in   *)
(* Redis, which expire, are left out.                                      *)
(***************************************************************************)
EXTENDS Portfolio

CONSTANTS
    Exchanges,    \* in the order of the factory, a sequence
    Assets,       \* in the order of an answer, a sequence
    Executions,   \* the tasks that trade, and refresh after every execution
    Hooks,        \* the tasks that run on_execution_completed
    ReportsZero,  \* an exchange reports an asset of which nothing is left
    Initial,      \* what every exchange holds of an asset at first, one of these
    MaxHeld,      \* bound: the amount of an asset on an exchange
    MaxChanges,   \* bound: the changes of a balance
    MaxFaults     \* bound: exchanges that do not answer

Tasks == Executions \cup Hooks

ASSUME InventoryAssumption ==
    /\ Exchanges \in Seq(Range(Exchanges)) /\ IsInjective(Exchanges) /\ Exchanges # <<>>
    /\ Assets \in Seq(Range(Assets)) /\ IsInjective(Assets) /\ Assets # <<>>
    /\ \A a \in Range(Assets) \ Stablecoins : UsdtPrice[a] \in Nat /\ BtcPrice[a] \in Nat
    /\ {Bitcoin, Threshold} \subseteq Nat
    /\ ReportsZero \in BOOLEAN
    /\ Executions \cap Hooks = {}
    /\ {MaxHeld, MaxChanges, MaxFaults} \subseteq Nat
    /\ Initial \subseteq 0..MaxHeld

VARIABLES
    held,      \* external: what the exchanges hold
    changes,   \* external: how often that changed
    cache,     \* InventoryManager._balances
    pc,        \* where a task is
    at,        \* the exchange it asks or writes
    item,      \* the asset it writes
    answers,   \* results: what the exchanges answered
    trade,     \* the exchanges a task is concerned with
    faults

tasks == <<pc, at, item, answers, trade>>
inventoryVars == <<held, changes, cache, tasks, faults>>

Amounts == 0..MaxHeld
Places == DOMAIN Exchanges
Balances == [DOMAIN Assets -> Amounts]

NoAnswers == [e \in Places |-> None]

InventoryTypeOK ==
    /\ held \in [Places -> Balances]
    /\ changes \in 0..MaxChanges
    /\ cache \in [Places -> [DOMAIN Assets -> 1..MaxHeld \cup {None}]]
    /\ pc \in [Tasks -> {"idle", "asking", "writing"}]
    /\ at \in [Tasks -> Places]
    /\ item \in [Tasks -> DOMAIN Assets]
    /\ answers \in [Tasks -> [Places -> Balances \cup {None}]]
    /\ trade \in [Tasks -> SUBSET Places]
    /\ faults \in 0..MaxFaults
    /\ \A t \in Tasks : pc[t] = "idle" => item[t] = 1 /\ answers[t] = NoAnswers

\* At the start of a run every exchange holds the same.
InventoryInit ==
    /\ \E n \in Initial : held = [e \in Places |-> [a \in DOMAIN Assets |-> n]]
    /\ changes = 0
    /\ cache = [e \in Places |-> [a \in DOMAIN Assets |-> None]]
    /\ pc = [t \in Tasks |-> "idle"]
    /\ at = [t \in Tasks |-> 1]
    /\ item = [t \in Tasks |-> 1]
    /\ answers = [t \in Tasks |-> NoAnswers]
    /\ trade = [t \in Tasks |-> Places]
    /\ faults = 0

-----------------------------------------------------------------------------
\* External: orders, those that are filled late too, change a balance.
Change(e, a) ==
    /\ changes < MaxChanges
    /\ \E n \in Amounts \ {held[e][a]} : held' = [held EXCEPT ![e][a] = n]
    /\ changes' = changes + 1
    /\ UNCHANGED <<cache, tasks, faults>>

-----------------------------------------------------------------------------
(***************************************************************************)
(* Asking.  A refresh is concerned with all exchanges, a hook with those   *)
(* of its execution.                                                       *)
(***************************************************************************)

First(places) == Min(places)
Later(t) == {e \in trade[t] : e > at[t]}

\* An execution is over, or a hook is called.
Begin(t, places) ==
    /\ pc[t] = "idle"
    /\ trade' = [trade EXCEPT ![t] = places]
    /\ at' = [at EXCEPT ![t] = First(places)]
    /\ pc' = [pc EXCEPT ![t] = "asking"]
    /\ UNCHANGED <<held, changes, cache, item, answers, faults>>

\* A hook writes what it got at once, a refresh asks everybody first.
AfterAnswer(t) ==
    LET asksMore == t \notin Hooks /\ Later(t) # {}
    IN  /\ at' = [at EXCEPT ![t] = IF t \in Hooks THEN @
                                   ELSE First(IF asksMore THEN Later(t) ELSE Places)]
        /\ pc' = [pc EXCEPT ![t] = IF asksMore THEN "asking" ELSE "writing"]

Answers(t) ==
    /\ pc[t] = "asking"
    /\ answers' = [answers EXCEPT ![t][at[t]] = held[at[t]]]
    /\ AfterAnswer(t)
    /\ UNCHANGED <<held, changes, cache, item, trade, faults>>

\* The error is caught: the refresh goes on with an empty answer, the hook
\* with its next exchange.
DoesNotAnswer(t) ==
    /\ pc[t] = "asking"
    /\ faults < MaxFaults
    /\ faults' = faults + 1
    /\ AfterAnswer(t)
    /\ UNCHANGED <<held, changes, cache, item, answers, trade>>

-----------------------------------------------------------------------------
(***************************************************************************)
(* Writing, one entry in a step.                                           *)
(***************************************************************************)

KeepsFirst(t, n, entry) ==                   \* mutant: an entry is not replaced
    IF n > 0 /\ entry = None THEN n ELSE entry

\* refresh_all passes over an asset of which nothing is left; the hook removes
\* it, if the exchange reports it.
NewEntry(t, n, entry) ==
    CASE n > 0                      -> n
      [] t \in Hooks /\ ReportsZero -> None
      [] OTHER                      -> entry

\* The answers are local to a call.
Forgets(t) == answers' = [answers EXCEPT ![t] = NoAnswers]

\* After its last exchange a task publishes the event, and may trade again.
NextExchange(t) ==
    IF Later(t) # {}
    THEN /\ at' = [at EXCEPT ![t] = First(Later(t))]
         /\ pc' = [pc EXCEPT ![t] = IF t \in Hooks THEN "asking" ELSE "writing"]
         /\ UNCHANGED <<answers, trade>>
    ELSE /\ at' = [at EXCEPT ![t] = 1]
         /\ pc' = [pc EXCEPT ![t] = "idle"]
         /\ Forgets(t)
         /\ trade' = [trade EXCEPT ![t] = Places]

Writes(t) ==
    /\ pc[t] = "writing" /\ answers[t][at[t]] # None
    /\ cache' = [cache EXCEPT ![at[t]][item[t]] =
                    NewEntry(t, answers[t][at[t]][item[t]], @)]
    /\ IF item[t] < Len(Assets)
       THEN item' = [item EXCEPT ![t] = @ + 1] /\ UNCHANGED <<pc, at, answers, trade>>
       ELSE item' = [item EXCEPT ![t] = 1] /\ NextExchange(t)
    /\ UNCHANGED <<held, changes, faults>>

HasNothing(t) ==
    /\ pc[t] = "writing" /\ answers[t][at[t]] = None
    /\ NextExchange(t)
    /\ UNCHANGED <<held, changes, cache, item, faults>>

-----------------------------------------------------------------------------
Begins(t) ==
    \/ t \in Executions /\ Begin(t, Places)
    \/ t \in Hooks /\ \E buy, sell \in Places : Begin(t, {buy, sell})

GoesOn(t) ==
    \/ Answers(t)
    \/ DoesNotAnswer(t)
    \/ Writes(t)
    \/ HasNothing(t)

InventoryNext == \/ \E e \in Places, a \in DOMAIN Assets : Change(e, a)
                 \/ \E t \in Tasks : Begins(t) \/ GoesOn(t)

InventorySpec == InventoryInit /\ [][InventoryNext]_inventoryVars

\* A call of an exchange returns, and a refresh that has begun comes to its end.
\* Nothing says that there is ever another.
InventoryFairSpec == InventorySpec /\ \A t \in Executions : WF_inventoryVars(GoesOn(t))

-----------------------------------------------------------------------------
(***************************************************************************)
(* Properties.                                                             *)
(***************************************************************************)

\* What is suggested for an asset takes from no exchange more than it holds too
\* much and brings to none more than it lacks.
SuggestionsFit ==
    \A a \in DOMAIN Assets :
        /\ \A e \in Over(cache, a) : Given(cache, e, a) <= Deviation(cache, e, a)
        /\ \A e \in Under(cache, a) : Received(cache, e, a) <= -Deviation(cache, e, a)

\* The values of the exchanges add up to that of all entries, and the concentration
\* lies between equal shares and a single holder.
ValuesAgree ==
    /\ TotalValue(cache, Assets) =
        SumFunction([a \in DOMAIN Assets |-> UsdValue(Assets[a], Held(cache, a))])
    /\ LET total == TotalValue(cache, Assets)
       IN  /\ Concentration(cache, Assets) <= total * total
           /\ Cardinality(Places) * Concentration(cache, Assets) >= total * total

\* Whatever the tasks have written so far, the views of the cache agree; the
\* suggestions fit, all of them carried out, as long as there are no more than
\* three exchanges. (inventory.py, generate_rebalance_suggestions, get_exposure)
ViewsAgree == (Len(Exchanges) <= 3 => SuggestionsFit) /\ ValuesAgree

\* As long as executions go on: however their refreshes overtake each other and
\* exchanges fail to answer, once the balances stay as they are the cache agrees
\* with every balance that is not empty, and stays so.  After the last execution
\* nothing repairs what a failed get_balance or a late write has left.
\* (inventory.py, refresh_all; execution_coordinator.py, execute_opportunity)
CacheCatchesUp ==
    []<>(\E t \in Executions : pc[t] = "asking") =>
        <>[](\A e \in Places, a \in DOMAIN Assets :
                held[e][a] > 0 => cache[e][a] = held[e][a])
=============================================================================
