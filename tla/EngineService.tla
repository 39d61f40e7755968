---------------------------- MODULE EngineService ----------------------------
(***************************************************************************)
(* EngineService of backend/services/engine_service.py: the task that      *)
(* builds one engine and one market stream per symbol, the API calls that  *)
(* start and stop it, and the limit on concurrent positions the engines    *)
(* share.                                                                  *)
(*                                                                         *)
(* A run is one execution of _run.  It keeps nothing of its own but its    *)
(* user stream: engines and market streams are fields of the service, so   *)
(* what a run stops or clears is what the fields hold when it gets there.  *)
(* The stream tasks a run created go on until somebody stops those very    *)
(* objects; what they do is modules MarketStream and UserStream.  Every    *)
(* step below is what happens between two awaits.                          *)
(***************************************************************************)
EXTENDS Integers, FiniteSets

CONSTANTS
  Runs,            \* executions of _run
  Symbols,         \* _symbols
  MaxConcurrent,   \* _max_concurrent_positions
  Callers,         \* API calls of stop that may be pending at once
  Modes,           \* STRATEGY_PRESETS
  Overlap,         \* start may be called while a stop is pending
  ServiceFaults    \* the failures of the service that may happen

ServiceFaultKind == {
  "klines",     \* the initial candles of a symbol cannot be fetched
  "log",        \* an insert into the system log raises
  "adopt",      \* a position found at the start is not restored
  "slow" }      \* the shutdown of the streams takes longer than 30 seconds

ASSUME ServiceAssumption ==
  /\ Runs \subseteq Nat \ {0}
  /\ IsFiniteSet(Symbols)
  /\ MaxConcurrent \in 1..Cardinality(Symbols)
  /\ Overlap \in BOOLEAN
  /\ Modes # {}
  /\ ServiceFaults \subseteq ServiceFaultKind

VARIABLES
  \* ---- the fields of the service; 0 is None or {}
  running,       \* _running
  task,          \* _task: the run it executes
  engines,       \* the run whose engines _engines holds
  streams,       \* the run whose market streams _market_streams holds
  mode,          \* _strategy_mode
  critical,      \* _critical_error is not None
  \* ---- the tasks
  run,           \* where every run is
  target,        \* the run whose market streams it is stopping
  cancelled,     \* runs with a cancellation on its way
  outcome,       \* how a run that is done ended
  stopper,       \* the calls of stop: the run each was made for, the one it awaits
  market,        \* the live market streams of every run
  user,          \* the runs whose user stream is live
  \* ---- positions
  built,         \* the mode the engines of a run were built with
  held,          \* the symbols for which an engine of a run has a position
  exposure,      \* positions on the exchange, per symbol
  strangers      \* history: symbols with a position the last start did not restore and no engine
                 \* has added to

serviceVars  == <<running, task, engines, streams, mode, critical>>
taskVars     == <<run, target, cancelled, outcome, stopper, market, user>>
positionVars == <<built, held, exposure, strangers>>
allVars      == <<serviceVars, taskVars, positionVars>>

-----------------------------------------------------------------------------
ServiceFault(f) == f \in ServiceFaults
Stopping == {"stopMarket", "stopUser", "failMarket", "failUser"}
RunPc == {"none", "created", "starting", "loop", "done"} \cup Stopping
Live(r) == run[r] \notin {"none", "done"}
NoStop == [pc |-> "none", of |-> 0, on |-> 0]

Exposed == {s \in Symbols : exposure[s] > 0}

Fresh == {r \in Runs : run[r] = "none"}

-----------------------------------------------------------------------------
(***************************************************************************)
(* The slot limit.  An engine knows the position it opened or adopted; one *)
(* it gives up on is the subject of module BFATEngine.                     *)
(***************************************************************************)
\* _engine_has_position and _open_position_count over the current engines.
Occupied == IF engines = 0 THEN {} ELSE held[engines]

\* Mutant: the limit is one too high.
BlockedLate(s) ==
  /\ engines # 0
  /\ s \notin Occupied
  /\ Cardinality(Occupied) > MaxConcurrent

\* _equity_provider_for_symbol: equity 0 for an engine without a position
\* when the slots are taken; the market stream then skips the engine.
Blocked(s) ==
  /\ engines # 0
  /\ s \notin Occupied
  /\ Cardinality(Occupied) >= MaxConcurrent

\* A candle or tick of a live stream: equity is read and the engine enters
\* in one step of the event loop.
Enter(r, s) ==
  /\ s \in market[r]
  /\ s \notin held[r]
  /\ ~Blocked(s)
  /\ exposure[s] < 2
  /\ exposure' = [exposure EXCEPT ![s] = @ + 1]
  /\ held' = [held EXCEPT ![r] = @ \cup {s}]
  /\ strangers' = strangers \ {s}
  /\ UNCHANGED <<serviceVars, taskVars, built>>

\* The engine, or its protective orders, close what it holds.
Close(s) ==
  /\ exposure[s] > 0
  /\ exposure' = [exposure EXCEPT ![s] = @ - 1]
  /\ UNCHANGED <<serviceVars, taskVars, built, held, strangers>>

\* A live engine records a close: at once, or by its candle fallback.
Notice(r, s) ==
  /\ s \in market[r]
  /\ s \in held[r]
  /\ exposure[s] = 0
  /\ held' = [held EXCEPT ![r] = @ \ {s}]
  /\ UNCHANGED <<serviceVars, taskVars, built, exposure, strangers>>

-----------------------------------------------------------------------------
(***************************************************************************)
(* The API.                                                                *)
(***************************************************************************)
Quiet == \A c \in Callers : stopper[c].pc = "none"

\* Mutant: every call creates a task.
StartAlways ==
  /\ Overlap \/ Quiet
  /\ \E r \in Fresh :
       /\ \A q \in Fresh : r <= q
       /\ running' = TRUE
       /\ task' = r
       /\ run' = [run EXCEPT ![r] = "created"]
  /\ UNCHANGED <<engines, streams, mode, critical, target, cancelled, outcome, stopper,
                 market, positionVars, user>>

\* A call while it is running returns at once.
Start ==
  /\ Overlap \/ Quiet
  /\ ~running
  /\ \E r \in Fresh :
       /\ \A q \in Fresh : r <= q
       /\ running' = TRUE
       /\ task' = r
       /\ run' = [run EXCEPT ![r] = "created"]
  /\ UNCHANGED <<engines, streams, mode, critical, target, cancelled, outcome, stopper,
                 market, positionVars, user>>

\* stop, up to its first await; without a task there is nothing to wait for.
Stop(c) ==
  /\ stopper[c].pc = "none"
  /\ Overlap \/ Quiet
  /\ running \/ task # 0
  /\ running' = FALSE
  /\ stopper' = IF task = 0 THEN stopper
                ELSE [stopper EXCEPT ![c] = [pc |-> "wait", of |-> task, on |-> task]]
  /\ UNCHANGED <<task, engines, streams, mode, critical, run, target, cancelled, outcome,
                 market, positionVars, user>>

\* The task has ended; its exception, if any, leaves stop before _task is cleared.
StopReturns(c) ==
  /\ stopper[c].pc # "none"
  /\ run[stopper[c].on] = "done"
  /\ stopper[c].pc = "wait" => outcome[stopper[c].on] # "cancelled"
  /\ stopper' = [stopper EXCEPT ![c] = NoStop]
  /\ task' = IF outcome[stopper[c].on] = "raised" THEN task ELSE 0
  /\ UNCHANGED <<running, engines, streams, mode, critical, run, target, cancelled, outcome,
                 market, positionVars, user>>

\* After 30 seconds, or when another call cancelled the run, the task _task
\* now refers to is cancelled and awaited.  A run that saw _running become
\* TRUE again is late without any slowness.
StopTimesOut(c) ==
  /\ stopper[c].pc = "wait"
  /\ \/ run[stopper[c].on] = "loop" /\ running
     \/ run[stopper[c].on] \in Stopping /\ ServiceFault("slow")
     \/ outcome[stopper[c].on] = "cancelled"
  /\ IF task = 0 THEN stopper' = [stopper EXCEPT ![c] = NoStop] /\ UNCHANGED cancelled
     ELSE /\ stopper' = [stopper EXCEPT ![c] = [@ EXCEPT !.pc = "cancel", !.on = task]]
          /\ cancelled' = IF Live(task) THEN cancelled \cup {task} ELSE cancelled
  /\ UNCHANGED <<serviceVars, run, target, outcome, market, positionVars, user>>

\* Refused with 409 while running.
SetStrategyMode(m) ==
  /\ ~running
  /\ mode' = m
  /\ UNCHANGED <<running, task, engines, streams, critical, taskVars, positionVars>>

-----------------------------------------------------------------------------
(***************************************************************************)
(* One run.                                                                *)
(***************************************************************************)
\* The engines are built and adopt the positions they find.  One whose stop
\* cannot be verified is left alone and noted as a critical error; one that
\* cannot be read, just left alone.
Build(r) ==
  /\ run[r] = "created"
  /\ strangers' \in {{}} \cup (IF ServiceFault("adopt") THEN SUBSET Exposed ELSE {})
  /\ critical' \in {FALSE} \cup (IF strangers' = {} THEN {} ELSE {TRUE})
  /\ engines' = r
  /\ streams' = r
  /\ built' = [built EXCEPT ![r] = mode]
  /\ held' = [held EXCEPT ![r] = Exposed \ strangers']
  /\ run' = [run EXCEPT ![r] = "starting"]
  /\ UNCHANGED <<running, task, mode, target, cancelled, outcome, stopper, market, exposure, user>>

\* An insert into the log succeeds, or raises into the except branch.
Logged == {TRUE} \cup (IF ServiceFault("log") THEN {FALSE} ELSE {})

\* The finally block: the fields are cleared, whoever set them last.
Finally(r, how) ==
  /\ running' = FALSE
  /\ engines' = 0
  /\ streams' = 0
  /\ run' = [run EXCEPT ![r] = "done"]
  /\ outcome' = [outcome EXCEPT ![r] = how]
  /\ cancelled' = cancelled \ {r}

\* Mutant: the except branch goes straight to the user stream.
FailForgetsMarket(r) ==
  /\ critical' = TRUE
  /\ run' = [run EXCEPT ![r] = "failUser"]
  /\ UNCHANGED <<running, engines, streams, outcome, cancelled, target>>

\* Mutant: the error is not kept.
FailUnseen(r) ==
  /\ UNCHANGED critical
  /\ \E ok \in Logged :
       IF ok THEN /\ run' = [run EXCEPT ![r] = "failMarket"]
                  /\ target' = [target EXCEPT ![r] = streams]
                  /\ UNCHANGED <<running, engines, streams, outcome, cancelled>>
       ELSE Finally(r, "raised") /\ UNCHANGED target

\* The except branch up to its first await.
Fail(r) ==
  /\ critical' = TRUE
  /\ \E ok \in Logged :
       IF ok THEN /\ run' = [run EXCEPT ![r] = "failMarket"]
                  /\ target' = [target EXCEPT ![r] = streams]
                  /\ UNCHANGED <<running, engines, streams, outcome, cancelled>>
       ELSE Finally(r, "raised") /\ UNCHANGED target

\* gather runs every start to its end before the run resumes; a start that
\* raises creates no task.
StartMarketStreams(r) ==
  /\ run[r] = "starting"
  /\ \E started \in {Symbols} \cup (IF ServiceFault("klines") THEN SUBSET Symbols ELSE {}) :
       /\ market' = [market EXCEPT ![r] = started]
       /\ IF started # Symbols
            THEN Fail(r) /\ UNCHANGED user
            ELSE /\ user' = user \cup {r}
                 /\ \E ok \in Logged :
                      IF ok THEN /\ run' = [run EXCEPT ![r] = "loop"]
                                 /\ UNCHANGED <<running, engines, streams, critical, target,
                                                outcome, cancelled>>
                      ELSE Fail(r)
  /\ UNCHANGED <<task, mode, stopper, positionVars>>

\* Mutant: the end of the loop leaves the market streams alone.
LoopEndsAtOnce(r) ==
  /\ run[r] = "loop"
  /\ ~running
  /\ run' = [run EXCEPT ![r] = "stopUser"]
  /\ UNCHANGED <<serviceVars, target, cancelled, outcome, stopper, market, positionVars, user>>

\* The loop looks at _running once a second.
LoopEnds(r) ==
  /\ run[r] = "loop"
  /\ ~running
  /\ \E ok \in Logged :
       IF ok THEN /\ run' = [run EXCEPT ![r] = "stopMarket"]
                  /\ target' = [target EXCEPT ![r] = streams]
                  /\ UNCHANGED <<running, engines, streams, critical, outcome, cancelled>>
       ELSE Fail(r)
  /\ UNCHANGED <<task, mode, stopper, market, positionVars, user>>

MarketStreamsStopped(r) ==
  /\ run[r] \in {"stopMarket", "failMarket"}
  /\ market' = IF target[r] = 0 THEN market ELSE [market EXCEPT ![target[r]] = {}]
  /\ run' = [run EXCEPT ![r] = IF @ = "stopMarket" THEN "stopUser" ELSE "failUser"]
  /\ UNCHANGED <<serviceVars, target, cancelled, outcome, stopper, positionVars, user>>

\* The normal path stops its own user stream; the except branch stops the
\* one in the field, which belongs to the run that built the streams last.
UserStreamStopped(r) ==
  /\ \/ run[r] = "stopUser" /\ user' = user \ {r}
     \/ run[r] = "failUser" /\ user' = user \ {streams}
  /\ Finally(r, "returned")
  /\ UNCHANGED <<task, mode, critical, target, stopper, market, positionVars>>

\* CancelledError is not an Exception: the except branch is passed by, and a
\* run that never began has no finally block to execute.
RunCancelled(r) ==
  /\ r \in cancelled
  /\ IF run[r] = "created"
       THEN /\ run' = [run EXCEPT ![r] = "done"]
            /\ cancelled' = cancelled \ {r}
            /\ outcome' = [outcome EXCEPT ![r] = "cancelled"]
            /\ UNCHANGED <<running, engines, streams>>
       ELSE Finally(r, "cancelled")
  /\ UNCHANGED <<task, mode, critical, target, stopper, market, positionVars, user>>

-----------------------------------------------------------------------------
ServiceInit ==
  /\ running = FALSE /\ task = 0 /\ engines = 0 /\ streams = 0
  /\ mode \in Modes
  /\ critical = FALSE
  /\ run = [r \in Runs |-> "none"]
  /\ target = [r \in Runs |-> 0]
  /\ cancelled = {}
  /\ outcome = [r \in Runs |-> "none"]
  /\ stopper = [c \in Callers |-> NoStop]
  /\ market = [r \in Runs |-> {}]
  /\ built = [r \in Runs |-> mode]
  /\ held = [r \in Runs |-> {}]
  /\ exposure \in {e \in [Symbols -> {0, 1}] : Cardinality({s \in Symbols : e[s] = 1}) <= MaxConcurrent}
  /\ user = {}
  /\ strangers = {}

RunStep(r) ==
  \/ Build(r) \/ StartMarketStreams(r) \/ LoopEnds(r)
  \/ MarketStreamsStopped(r) \/ UserStreamStopped(r) \/ RunCancelled(r)

Api ==
  \/ Start
  \/ \E c \in Callers : Stop(c) \/ StopReturns(c) \/ StopTimesOut(c)
  \/ \E m \in Modes : SetStrategyMode(m)

Trading ==
  \/ \E r \in Runs, s \in Symbols : Enter(r, s) \/ Notice(r, s)
  \/ \E s \in Symbols : Close(s)

ServiceNext ==
  \/ Api
  \/ \E r \in Runs : RunStep(r)
  \/ Trading

ServiceSpec == ServiceInit /\ [][ServiceNext]_allVars
=============================================================================
