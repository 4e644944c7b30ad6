---------------------------- MODULE AutoExecution ----------------------------
(***************************************************************************)
(* main.py, _setup_auto_execution: what happens between an opportunity     *)
(* that a scan publishes and the coordinator.  A scan task (one of the two *)
(* scanner loops, or an API request that scans) waits for the handler of   *)
(* the opportunity it published before it goes on, so each has at most one *)
(* opportunity in the handler; several tasks contend for _auto_exec_lock,  *)
(* which asyncio hands out in the order of arrival.  API requests execute  *)
(* beside them, without the lock, and the operator uses the kill switch    *)
(* and the auto-execution toggle at any time.                              *)
(***************************************************************************)
EXTENDS Integers, Sequences

CONSTANTS
    Scans,      \* the tasks that scan
    Requests,   \* the API requests that execute an opportunity
    Symbols,
    NoScan,     \* not a task
    Cooldown,   \* _AUTO_EXEC_COOLDOWN_S, in ticks
    MaxTime     \* bound: the clock

ASSUME TaskAssumption == NoScan \notin Scans \cup Requests /\ Scans \cap Requests = {}
ASSUME TimeAssumption == Cooldown \in Nat \ {0} /\ MaxTime \in Nat

VARIABLES
    mode,      \* what settings.live.trading_mode is mapped to
    now,       \* time.time()
    last,      \* _auto_exec_last
    allowed,   \* settings.live.allow_auto_execution
    killed,    \* kill_switch.is_active
    relaxed,   \* the rules of _paper_skip_rules are disabled
    lock,      \* the holder of _auto_exec_lock
    queue,     \* the tasks that wait for it, in order of arrival
    pc,        \* where a task or a request is
    symbol,    \* of the opportunity a task handles
    apiMode,   \* payload.mode of a request
    begun,     \* history: when the latest execution of a symbol began
    spared     \* history: the tasks that waited when the switch was activated

settings == <<mode, allowed, killed>>
history == <<begun, spared>>
autoVars == <<settings, now, last, relaxed, lock, queue, pc, symbol, apiMode, history>>

Actors == Scans \cup Requests

AutoTypeOK == /\ mode \in {"PAPER", "LIVE"}
              /\ now \in 0..MaxTime
              /\ last \in [Symbols -> -Cooldown..MaxTime]
              /\ allowed \in BOOLEAN
              /\ killed \in BOOLEAN
              /\ relaxed \in BOOLEAN
              /\ lock \in Scans \cup {NoScan}
              /\ queue \in Seq(Scans)
              /\ pc \in [Actors -> {"idle", "queued", "evaluating", "trading", "closing",
                                    "done"}]
              /\ symbol \in [Scans -> Symbols]
              /\ apiMode \in [Requests -> {"PAPER", "LIVE"}]
              /\ begun \in [Symbols -> -Cooldown..MaxTime]
              /\ spared \subseteq Scans

AutoInit == /\ mode \in {"PAPER", "LIVE"}
            /\ now = 0
            /\ last = [s \in Symbols |-> -Cooldown]
            /\ allowed \in BOOLEAN
            /\ killed = FALSE
            /\ relaxed = FALSE
            /\ lock = NoScan
            /\ queue = <<>>
            /\ pc = [x \in Actors |-> "idle"]
            /\ \E s \in Symbols : symbol = [t \in Scans |-> s]
            /\ apiMode \in [Requests -> {"PAPER", "LIVE"}]
            /\ begun = [s \in Symbols |-> -Cooldown]
            /\ spared = {}

-----------------------------------------------------------------------------
(***************************************************************************)
(* _on_opportunity.                                                        *)
(***************************************************************************)

Relax == relaxed' = IF mode = "PAPER" THEN TRUE ELSE relaxed

\* The lock is taken and, in PAPER mode, the rules are disabled; then the
\* coordinator is called.
Enters(t, s) ==
    /\ lock' = t
    /\ Relax
    /\ pc' = [pc EXCEPT ![t] = "evaluating"]
    /\ begun' = [begun EXCEPT ![s] = now]
    /\ spared' = spared \ {t}

PassesKilled(s) ==                           \* mutant: no kill switch
    allowed /\ now - last[s] >= Cooldown

Passes(s) == allowed /\ ~killed /\ now - last[s] >= Cooldown

StampLater(s) ==                             \* mutant: the end of the cooldown
    last' = [last EXCEPT ![s] = now + Cooldown]

Stamp(s) == last' = [last EXCEPT ![s] = now]

LockIgnored == TRUE                          \* mutant: no lock

LockIsFree == lock = NoScan /\ queue = <<>>

\* An opportunity passes the checks (those on its profit included) and stamps
\* its symbol; nothing suspends before the lock.  An opportunity that does not
\* pass changes nothing.
Found(t, s) ==
    /\ pc[t] = "idle"
    /\ Passes(s)
    /\ Stamp(s)
    /\ symbol' = [symbol EXCEPT ![t] = s]
    /\ IF LockIsFree
       THEN Enters(t, s) /\ UNCHANGED queue
       ELSE /\ queue' = Append(queue, t)
            /\ pc' = [pc EXCEPT ![t] = "queued"]
            /\ UNCHANGED <<lock, relaxed, history>>
    /\ UNCHANGED <<settings, now, apiMode>>

\* The first waiter wakes up with the lock.
Wake(t) ==
    /\ pc[t] = "queued"
    /\ lock = NoScan
    /\ queue # <<>> /\ Head(queue) = t
    /\ queue' = Tail(queue)
    /\ Enters(t, symbol[t])
    /\ UNCHANGED <<settings, now, last, symbol, apiMode>>

\* The coordinator's risk check approves or rejects.
Evaluate(t) ==
    /\ pc[t] = "evaluating"
    /\ t \in Scans
    /\ \E next \in {"trading", "closing"} : pc' = [pc EXCEPT ![t] = next]
    /\ UNCHANGED <<settings, now, last, relaxed, lock, queue, symbol, apiMode, history>>

\* The engine returns or raises.
Traded(t) ==
    /\ pc[t] = "trading"
    /\ t \in Scans
    /\ pc' = [pc EXCEPT ![t] = "closing"]
    /\ UNCHANGED <<settings, now, last, relaxed, lock, queue, symbol, apiMode, history>>

Tighten == relaxed' = IF mode = "PAPER" THEN FALSE ELSE relaxed

\* Mutant: the handler returns with the lock held once it is switched off.
UnlockIfAllowed == lock' = IF allowed THEN NoScan ELSE lock

Unlock == lock' = NoScan

\* The finally block enables the rules again, and the lock is released.
Close(t) ==
    /\ pc[t] = "closing"
    /\ pc' = [pc EXCEPT ![t] = "idle"]
    /\ Tighten
    /\ Unlock
    /\ UNCHANGED <<settings, now, last, queue, symbol, apiMode, history>>

-----------------------------------------------------------------------------
(***************************************************************************)
(* The API: api/routes/executions.py calls the coordinator directly.       *)
(***************************************************************************)
Request(r) ==
    /\ pc[r] = "idle"
    /\ pc' = [pc EXCEPT ![r] = "evaluating"]
    /\ UNCHANGED <<settings, now, last, relaxed, lock, queue, symbol, apiMode, history>>

RequestEvaluated(r) ==
    /\ pc[r] = "evaluating"
    /\ \E next \in {"trading", "done"} : pc' = [pc EXCEPT ![r] = next]
    /\ UNCHANGED <<settings, now, last, relaxed, lock, queue, symbol, apiMode, history>>

RequestTraded(r) ==
    /\ pc[r] = "trading"
    /\ pc' = [pc EXCEPT ![r] = "done"]
    /\ UNCHANGED <<settings, now, last, relaxed, lock, queue, symbol, apiMode, history>>

\* The operator: POST /kill-switch/activate and /release, POST /auto-execution.
Activate ==
    /\ killed' = TRUE
    /\ spared' = {t \in Scans : pc[t] = "queued"}
    /\ UNCHANGED <<mode, allowed, now, last, relaxed, lock, queue, pc, symbol, apiMode, begun>>

Release ==
    /\ killed' = FALSE
    /\ UNCHANGED <<mode, allowed, now, last, relaxed, lock, queue, pc, symbol, apiMode, history>>

Toggle ==
    /\ allowed' = ~allowed
    /\ UNCHANGED <<mode, killed, now, last, relaxed, lock, queue, pc, symbol, apiMode, history>>

Tick ==
    /\ now < MaxTime
    /\ now' = now + 1
    /\ UNCHANGED <<settings, last, relaxed, lock, queue, pc, symbol, apiMode, history>>

-----------------------------------------------------------------------------
\* What a task does once its opportunity is in the handler.
Handle(t) == Wake(t) \/ Evaluate(t) \/ Traded(t) \/ Close(t)

Respond(r) == RequestEvaluated(r) \/ RequestTraded(r)

Operate == Activate \/ Release \/ Toggle

AutoNext == \/ \E t \in Scans : Handle(t) \/ \E s \in Symbols : Found(t, s)
            \/ \E r \in Requests : Request(r) \/ Respond(r)
            \/ Operate
            \/ Tick

AutoSpec == AutoInit /\ [][AutoNext]_autoVars

\* The event loop runs a handler that can run, and the coordinator returns
\* (property Returns of module Execution).
FairAutoSpec == AutoSpec /\ \A t \in Scans : WF_autoVars(Handle(t))

-----------------------------------------------------------------------------
(***************************************************************************)
(* Properties.                                                             *)
(***************************************************************************)

\* A paper execution is evaluated with the strict rules disabled: the finally
\* block of one never enables them under the evaluation of another.
PaperIsRelaxed ==
    mode = "PAPER" =>
        \A t \in Scans : pc[t] \in {"evaluating", "trading", "closing"} => relaxed

\* The rules are disabled only while a paper execution is in the handler.
RelaxationEnds ==
    relaxed => /\ mode = "PAPER"
               /\ \E t \in Scans : pc[t] \in {"evaluating", "trading", "closing"}

\* Once the kill switch is active, the only automatic executions that still
\* begin are those that were waiting for the lock, each once.
OnlyWaitingOnesSlipThrough ==
    [][\A t \in Scans :
          (killed /\ pc[t] # "evaluating" /\ pc'[t] = "evaluating") => t \in spared]_autoVars

\* Every opportunity that passed the checks gets its turn, however many others
\* keep arriving.
EveryWaiterGetsItsTurn ==
    \A t \in Scans : (pc[t] = "queued") ~> (pc[t] = "evaluating")

\* The inductive strengthening of the two: exactly the holder of the lock is
\* inside the handler's protected part, and the rules are disabled exactly while
\* it is held in PAPER mode.
Inside == {"evaluating", "trading", "closing"}

LockProtects ==
    /\ \A t \in Scans : pc[t] \in Inside <=> lock = t
    /\ relaxed <=> (mode = "PAPER" /\ lock # NoScan)

-----------------------------------------------------------------------------
(***************************************************************************)
(* What documents say, checked as they say it.                             *)
(***************************************************************************)

\* main.py:120, "minimum seconds between executions per symbol": two automatic
\* executions of a symbol begin at least the cooldown apart.
ExecutionsAreSpaced ==
    [][\A t \in Scans :
          (pc[t] = "queued" /\ pc'[t] = "evaluating")
              => now - begun[symbol[t]] >= Cooldown]_autoVars

\* api/routes/kill_switch.py:58, "halts ALL trading immediately": no execution
\* begins to trade while the kill switch is active.
KillSwitchHaltsTrading ==
    [][\A x \in Actors :
          (killed /\ pc[x] # "trading") => pc'[x] # "trading"]_autoVars

\* main.py:191, "temporarily disable strict rules so simulated executions can
\* proceed": a LIVE execution is never approved with those rules disabled.
OnlySimulatedOnesAreRelaxed ==
    [][\A r \in Requests :
          (apiMode[r] = "LIVE" /\ pc[r] = "evaluating" /\ pc'[r] = "trading")
              => ~relaxed]_autoVars
=============================================================================
