-------------------------- MODULE EngineServiceProofs --------------------------
(***************************************************************************)
(* What EngineService promises, for any number of runs, symbols and        *)
(* callers, as long as start is not called while a stop is pending         *)
(* (Overlap = FALSE): the start and stop of the API are awaited one after  *)
(* the other by a single client.                                           *)
(*                                                                         *)
(* The argument: at most one run is alive, it is the one _task refers to,  *)
(* and the fields of the service are its own (OneAtATime, FieldsFollow).   *)
(* What a run stops is then what it started (RunsClean), and the engines'  *)
(* count of positions covers the exchange (SlotsKnown).  What a status     *)
(* says rests on two more: the health of the service follows the run       *)
(* (HealthFollows), and a cached position is as old as its time says       *)
(* (CacheKnown).                                                           *)
(***************************************************************************)
EXTENDS StatusView, FiniteSetTheorems, TLAPS

Pending(c) == stopper[c].pc # "none"
Bad == {"raised", "cancelled"}

\* One run is alive; a stop that is pending is for it.
OneAtATime ==
  /\ \A r \in Runs : Live(r) => r = task
  /\ running => task # 0 /\ Live(task)
  /\ task # 0 /\ Live(task) /\ ~running => \E c \in Callers : Pending(c)
  /\ \A c, d \in Callers : Pending(c) /\ Pending(d) => c = d
  /\ \A c \in Callers : Pending(c) => /\ task # 0 /\ ~running
                                      /\ stopper[c].on = task /\ stopper[c].of = task

\* The fields hold what the run in _task built, from its building to its end.
FieldsFollow ==
  /\ streams = engines
  /\ engines # 0 => engines = task /\ Live(task) /\ run[task] # "created"
  /\ \A r \in Runs : Live(r) /\ run[r] # "created" => engines = r

\* What is left of a run at each point of it.
RunsClean ==
  \A r \in Runs :
    /\ outcome[r] = "none" <=> run[r] # "done"
    /\ r \in cancelled => run[r] \in Stopping
    /\ run[r] \in {"stopMarket", "failMarket"} => target[r] = r
    /\ market[r] # {} => run[r] \in {"loop", "stopMarket", "failMarket"} \/ outcome[r] \in Bad
    /\ r \in user => run[r] \in {"loop"} \cup Stopping \/ outcome[r] \in Bad

\* The engines know of every position on the exchange that was not refused.
SlotsKnown ==
  Undisturbed /\ engines # 0 =>
    \A s \in Symbols : exposure[s] > 0 /\ s \notin strangers => s \in held[engines]

ServiceInv ==
  /\ ServiceTypeOK
  /\ OneAtATime
  /\ FieldsFollow
  /\ RunsClean
  /\ SlotsKnown
  /\ ModeShownIsTraded

LEMMA StartKeeps ==
  ASSUME ServiceInv, Overlap = FALSE, Start
  PROVE  ServiceInv'
<1> USE ServiceAssumption DEF ServiceAssumption, ServiceInv
<1>1. ServiceTypeOK'
  BY DEF Start, serviceVars, taskVars, positionVars, Fresh, RunPc, Stopping, ServiceTypeOK
<1>2. OneAtATime'
  BY DEF Start, serviceVars, taskVars, positionVars, Fresh, RunPc, Stopping, ServiceTypeOK,
         OneAtATime, FieldsFollow, RunsClean, Pending, Live, Quiet
<1>3. FieldsFollow'
  BY DEF Start, serviceVars, taskVars, positionVars, Fresh, RunPc, Stopping, ServiceTypeOK,
         OneAtATime, FieldsFollow, Pending, Live, Quiet
<1>4. RunsClean'
  <2>1. PICK q \in Fresh : run' = [run EXCEPT ![q] = "created"]
    BY DEF Start
  <2>2. UNCHANGED <<outcome, cancelled, target, market, user>>
    BY DEF Start
  <2>3. q \in Runs /\ run[q] = "none"
    BY DEF Fresh
  <2>4. /\ run'[q] = "created"
        /\ \A p \in Runs : p # q => run'[p] = run[p]
    BY <2>1, <2>3 DEF ServiceTypeOK
  <2>5. /\ q \notin cancelled
        /\ market[q] = {} /\ q \notin user
        /\ outcome[q] = "none"
    BY <2>3 DEF RunsClean, Stopping, Bad
  <2>6. QED
    BY <2>2, <2>4, <2>5 DEF RunsClean
<1>5. SlotsKnown'
  BY DEF Start, serviceVars, taskVars, positionVars, Fresh, RunPc, Stopping, ServiceTypeOK,
         OneAtATime, FieldsFollow, RunsClean, SlotsKnown, Undisturbed, Live, Stopping, Bad,
         Pending, Quiet
<1>6. ModeShownIsTraded'
  BY DEF Start, serviceVars, taskVars, positionVars, Fresh, RunPc, Stopping, ServiceTypeOK,
         OneAtATime, FieldsFollow, ModeShownIsTraded, Live, Pending, Quiet
<1>7. QED
  BY <1>1, <1>2, <1>3, <1>4, <1>5, <1>6

LEMMA StopKeeps ==
  ASSUME ServiceInv, Overlap = FALSE, NEW c \in Callers, Stop(c)
  PROVE  ServiceInv'
<1> USE ServiceAssumption DEF ServiceAssumption, ServiceInv
<1>1. ServiceTypeOK'
  BY DEF Stop, serviceVars, taskVars, positionVars, ServiceTypeOK
<1>2. OneAtATime'
  BY DEF Stop, serviceVars, taskVars, positionVars, ServiceTypeOK, OneAtATime, FieldsFollow,
         RunsClean, Pending, Live, Quiet
<1>3. FieldsFollow'
  BY DEF Stop, serviceVars, taskVars, positionVars, ServiceTypeOK, OneAtATime, FieldsFollow,
         Pending, Live, Quiet
<1>4. RunsClean'
  BY DEF Stop, serviceVars, taskVars, positionVars, ServiceTypeOK, OneAtATime, FieldsFollow,
         RunsClean, Pending, Live, Stopping, Bad
<1>5. SlotsKnown'
  BY DEF Stop, serviceVars, taskVars, positionVars, ServiceTypeOK, OneAtATime, FieldsFollow,
         RunsClean, SlotsKnown, Undisturbed, Live, Stopping, Bad, Pending, Quiet
<1>6. ModeShownIsTraded'
  BY DEF Stop, serviceVars, taskVars, positionVars, ServiceTypeOK, OneAtATime, FieldsFollow,
         ModeShownIsTraded, Live, Pending, Quiet
<1>7. QED
  BY <1>1, <1>2, <1>3, <1>4, <1>5, <1>6

LEMMA StopReturnsKeeps ==
  ASSUME ServiceInv, Overlap = FALSE, NEW c \in Callers, StopReturns(c)
  PROVE  ServiceInv'
<1> USE ServiceAssumption DEF ServiceAssumption, ServiceInv
<1>1. ServiceTypeOK'
  BY DEF StopReturns, NoStop, serviceVars, taskVars, positionVars, ServiceTypeOK
<1>2. OneAtATime'
  BY DEF StopReturns, NoStop, serviceVars, taskVars, positionVars, ServiceTypeOK, OneAtATime,
         FieldsFollow, RunsClean, Pending, Live, Quiet
<1>3. FieldsFollow'
  BY DEF StopReturns, NoStop, serviceVars, taskVars, positionVars, ServiceTypeOK, OneAtATime,
         FieldsFollow, Pending, Live, Quiet
<1>4. RunsClean'
  BY DEF StopReturns, NoStop, serviceVars, taskVars, positionVars, ServiceTypeOK, OneAtATime,
         FieldsFollow, RunsClean, Pending, Live, Stopping, Bad
<1>5. SlotsKnown'
  BY DEF StopReturns, NoStop, serviceVars, taskVars, positionVars, ServiceTypeOK, OneAtATime,
         FieldsFollow, RunsClean, SlotsKnown, Undisturbed, Live, Stopping, Bad, Pending, Quiet
<1>6. ModeShownIsTraded'
  BY DEF StopReturns, NoStop, serviceVars, taskVars, positionVars, ServiceTypeOK, OneAtATime,
         FieldsFollow, ModeShownIsTraded, Live, Pending, Quiet
<1>7. QED
  BY <1>1, <1>2, <1>3, <1>4, <1>5, <1>6

LEMMA StopTimesOutKeeps ==
  ASSUME ServiceInv, Overlap = FALSE, NEW c \in Callers, StopTimesOut(c)
  PROVE  ServiceInv'
<1> USE ServiceAssumption DEF ServiceAssumption, ServiceInv
<1>1. ServiceTypeOK'
  <2>1. UNCHANGED <<running, task, engines, streams, mode, critical, run, target, outcome,
                    market, user, built, held, exposure, strangers>>
    BY DEF StopTimesOut, serviceVars, positionVars
  <2>2. cancelled' \subseteq Runs
    BY DEF StopTimesOut, ServiceTypeOK
  <2> DEFINE S == [pc : {"none", "wait", "cancel"}, of : Runs \cup {0}, on : Runs \cup {0}]
  <2>3. /\ NoStop \in S
        /\ [stopper[c] EXCEPT !.pc = "cancel", !.on = task] \in S
    BY DEF ServiceTypeOK, NoStop
  <2>a. stopper' = IF task = 0 THEN [stopper EXCEPT ![c] = NoStop]
                   ELSE [stopper EXCEPT ![c] = [stopper[c] EXCEPT !.pc = "cancel", !.on = task]]
    BY DEF StopTimesOut
  <2>4. stopper' \in [Callers -> S]
    <3>1. stopper \in [Callers -> S]
      BY DEF ServiceTypeOK
    <3> HIDE DEF S
    <3>2. QED
      BY <2>3, <2>a, <3>1
  <2>5. QED
    BY <2>1, <2>2, <2>4 DEF ServiceTypeOK
<1>2. OneAtATime'
  <2>1. UNCHANGED <<running, task, run>>
    BY DEF StopTimesOut, serviceVars
  <2>2. stopper[c].pc = "wait" /\ stopper[c].on = task /\ stopper[c].of = task /\ task # 0
    BY DEF StopTimesOut, OneAtATime, Pending
  <2>3. stopper' = [stopper EXCEPT ![c] = [@ EXCEPT !.pc = "cancel", !.on = task]]
    BY <2>2 DEF StopTimesOut
  <2>4. stopper[c] \in [pc : {"none", "wait", "cancel"}, of : Runs \cup {0}, on : Runs \cup {0}]
    BY DEF ServiceTypeOK
  <2>5. stopper'[c] = [stopper[c] EXCEPT !.pc = "cancel", !.on = task]
    BY <2>3 DEF ServiceTypeOK
  <2>6. stopper'[c].pc = "cancel" /\ stopper'[c].on = task /\ stopper'[c].of = task
    BY <2>2, <2>4, <2>5
  <2>7. \A d \in Callers : d # c => stopper'[d] = stopper[d]
    BY <2>3 DEF ServiceTypeOK
  <2>8. QED
    BY <2>1, <2>2, <2>6, <2>7 DEF OneAtATime, Pending, Live
<1>3. FieldsFollow'
  BY DEF StopTimesOut, NoStop, serviceVars, taskVars, positionVars, ServiceTypeOK, OneAtATime,
         FieldsFollow, Pending, Live, Quiet
<1>4. RunsClean'
  BY DEF StopTimesOut, NoStop, serviceVars, taskVars, positionVars, ServiceTypeOK, OneAtATime,
         FieldsFollow, RunsClean, Pending, Live, Stopping, Bad
<1>5. SlotsKnown'
  BY DEF StopTimesOut, NoStop, serviceVars, taskVars, positionVars, ServiceTypeOK, OneAtATime,
         FieldsFollow, RunsClean, SlotsKnown, Undisturbed, Live, Stopping, Bad, Pending, Quiet
<1>6. ModeShownIsTraded'
  BY DEF StopTimesOut, NoStop, serviceVars, taskVars, positionVars, ServiceTypeOK, OneAtATime,
         FieldsFollow, ModeShownIsTraded, Live, Pending, Quiet
<1>7. QED
  BY <1>1, <1>2, <1>3, <1>4, <1>5, <1>6

LEMMA SetStrategyModeKeeps ==
  ASSUME ServiceInv, Overlap = FALSE, NEW m \in Modes, SetStrategyMode(m)
  PROVE  ServiceInv'
<1> USE ServiceAssumption DEF ServiceAssumption, ServiceInv
<1>1. ServiceTypeOK'
  BY DEF SetStrategyMode, serviceVars, taskVars, positionVars, ServiceTypeOK
<1>2. OneAtATime'
  BY DEF SetStrategyMode, serviceVars, taskVars, positionVars, ServiceTypeOK, OneAtATime,
         FieldsFollow, RunsClean, Pending, Live, Quiet
<1>3. FieldsFollow'
  BY DEF SetStrategyMode, serviceVars, taskVars, positionVars, ServiceTypeOK, OneAtATime,
         FieldsFollow, Pending, Live, Quiet
<1>4. RunsClean'
  BY DEF SetStrategyMode, serviceVars, taskVars, positionVars, ServiceTypeOK, OneAtATime,
         FieldsFollow, RunsClean, Pending, Live, Stopping, Bad
<1>5. SlotsKnown'
  BY DEF SetStrategyMode, serviceVars, taskVars, positionVars, ServiceTypeOK, OneAtATime,
         FieldsFollow, RunsClean, SlotsKnown, Undisturbed, Live, Stopping, Bad, Pending, Quiet
<1>6. ModeShownIsTraded'
  BY DEF SetStrategyMode, serviceVars, taskVars, positionVars, ServiceTypeOK, OneAtATime,
         FieldsFollow, ModeShownIsTraded, Live, Pending, Quiet
<1>7. QED
  BY <1>1, <1>2, <1>3, <1>4, <1>5, <1>6

LEMMA BuildKeeps ==
  ASSUME ServiceInv, Overlap = FALSE, NEW r \in Runs, Build(r)
  PROVE  ServiceInv'
<1> USE ServiceAssumption DEF ServiceAssumption, ServiceInv
<1>1. ServiceTypeOK'
  BY DEF Build, Exposed, RunPc, serviceVars, taskVars, positionVars, ServiceTypeOK
<1>2. OneAtATime'
  BY DEF Build, Exposed, RunPc, serviceVars, taskVars, positionVars, ServiceTypeOK, OneAtATime,
         FieldsFollow, RunsClean, Pending, Live, Quiet
<1>3. FieldsFollow'
  BY DEF Build, Exposed, RunPc, serviceVars, taskVars, positionVars, ServiceTypeOK, OneAtATime,
         FieldsFollow, Pending, Live, Quiet
<1>4. RunsClean'
  BY DEF Build, Exposed, RunPc, serviceVars, taskVars, positionVars, ServiceTypeOK, OneAtATime,
         FieldsFollow, RunsClean, Pending, Live, Stopping, Bad
<1>5. SlotsKnown'
  BY DEF Build, Exposed, RunPc, serviceVars, taskVars, positionVars, ServiceTypeOK, OneAtATime,
         FieldsFollow, RunsClean, SlotsKnown, Undisturbed, Live, Stopping, Bad, Pending, Quiet
<1>6. ModeShownIsTraded'
  BY DEF Build, Exposed, RunPc, serviceVars, taskVars, positionVars, ServiceTypeOK, OneAtATime,
         FieldsFollow, ModeShownIsTraded, Live, Pending, Quiet
<1>7. QED
  BY <1>1, <1>2, <1>3, <1>4, <1>5, <1>6

LEMMA StartMarketStreamsKeeps ==
  ASSUME ServiceInv, Overlap = FALSE, NEW r \in Runs, StartMarketStreams(r)
  PROVE  ServiceInv'
<1> USE ServiceAssumption DEF ServiceAssumption, ServiceInv
<1>1. ServiceTypeOK'
  <2>1. UNCHANGED <<task, mode, stopper, positionVars>>
    BY DEF StartMarketStreams
  <2>2. market' \in [Runs -> SUBSET Symbols] /\ user' \subseteq Runs
    <3>1. PICK started \in SUBSET Symbols : market' = [market EXCEPT ![r] = started]
      BY DEF StartMarketStreams
    <3>2. user' = user \/ user' = user \cup {r}
      BY DEF StartMarketStreams
    <3>3. QED
      BY <3>1, <3>2 DEF ServiceTypeOK
  <2>3. Fail(r) \/ /\ run' = [run EXCEPT ![r] = "loop"]
                   /\ UNCHANGED <<running, engines, streams, critical, target, outcome, cancelled>>
    BY DEF StartMarketStreams
  <2>4. /\ running' \in BOOLEAN /\ critical' \in BOOLEAN
        /\ engines' \in Runs \cup {0} /\ streams' \in Runs \cup {0}
        /\ cancelled' \subseteq Runs
    BY <2>3 DEF Fail, Finally, ServiceTypeOK
  <2>5. /\ run' \in [Runs -> RunPc]
        /\ target' \in [Runs -> Runs \cup {0}]
        /\ outcome' \in [Runs -> {"none", "returned", "raised", "cancelled"}]
    BY <2>3 DEF Fail, Finally, ServiceTypeOK, RunPc, Stopping
  <2>6. QED
    BY <2>1, <2>2, <2>4, <2>5 DEF ServiceTypeOK, positionVars
<1>2. OneAtATime'
  BY DEF StartMarketStreams, Fail, Finally, RunPc, Stopping, serviceVars, taskVars,
         positionVars, ServiceTypeOK, OneAtATime, FieldsFollow, RunsClean, Pending, Live, Quiet
<1>3. FieldsFollow'
  BY DEF StartMarketStreams, Fail, Finally, RunPc, Stopping, serviceVars, taskVars,
         positionVars, ServiceTypeOK, OneAtATime, FieldsFollow, Pending, Live, Quiet
<1>4. RunsClean'
  BY DEF StartMarketStreams, Fail, Finally, RunPc, Stopping, serviceVars, taskVars,
         positionVars, ServiceTypeOK, OneAtATime, FieldsFollow, RunsClean, Pending, Live,
         Stopping, Bad
<1>5. SlotsKnown'
  BY DEF StartMarketStreams, Fail, Finally, RunPc, Stopping, serviceVars, taskVars,
         positionVars, ServiceTypeOK, OneAtATime, FieldsFollow, RunsClean, SlotsKnown,
         Undisturbed, Live, Stopping, Bad, Pending, Quiet
<1>6. ModeShownIsTraded'
  BY DEF StartMarketStreams, Fail, Finally, RunPc, Stopping, serviceVars, taskVars,
         positionVars, ServiceTypeOK, OneAtATime, FieldsFollow, ModeShownIsTraded, Live,
         Pending, Quiet
<1>7. QED
  BY <1>1, <1>2, <1>3, <1>4, <1>5, <1>6

LEMMA LoopEndsKeeps ==
  ASSUME ServiceInv, Overlap = FALSE, NEW r \in Runs, LoopEnds(r)
  PROVE  ServiceInv'
<1> USE ServiceAssumption DEF ServiceAssumption, ServiceInv
<1>1. ServiceTypeOK'
  <2>1. UNCHANGED <<task, mode, stopper, market, positionVars, user>>
    BY DEF LoopEnds
  <2>2. Fail(r) \/ /\ run' = [run EXCEPT ![r] = "stopMarket"]
                   /\ target' = [target EXCEPT ![r] = streams]
                   /\ UNCHANGED <<running, engines, streams, critical, outcome, cancelled>>
    BY DEF LoopEnds
  <2>3. /\ running' \in BOOLEAN /\ critical' \in BOOLEAN
        /\ engines' \in Runs \cup {0} /\ streams' \in Runs \cup {0}
        /\ cancelled' \subseteq Runs
    BY <2>2 DEF Fail, Finally, ServiceTypeOK
  <2>4. /\ run' \in [Runs -> RunPc]
        /\ target' \in [Runs -> Runs \cup {0}]
        /\ outcome' \in [Runs -> {"none", "returned", "raised", "cancelled"}]
    BY <2>2 DEF Fail, Finally, ServiceTypeOK, RunPc, Stopping
  <2>5. QED
    BY <2>1, <2>3, <2>4 DEF ServiceTypeOK, positionVars
<1>2. OneAtATime'
  BY DEF LoopEnds, Fail, Finally, RunPc, Stopping, serviceVars, taskVars, positionVars,
         ServiceTypeOK, OneAtATime, FieldsFollow, RunsClean, Pending, Live, Quiet
<1>3. FieldsFollow'
  BY DEF LoopEnds, Fail, Finally, RunPc, Stopping, serviceVars, taskVars, positionVars,
         ServiceTypeOK, OneAtATime, FieldsFollow, Pending, Live, Quiet
<1>4. RunsClean'
  BY DEF LoopEnds, Fail, Finally, RunPc, Stopping, serviceVars, taskVars, positionVars,
         ServiceTypeOK, OneAtATime, FieldsFollow, RunsClean, Pending, Live, Stopping, Bad
<1>5. SlotsKnown'
  BY DEF LoopEnds, Fail, Finally, RunPc, Stopping, serviceVars, taskVars, positionVars,
         ServiceTypeOK, OneAtATime, FieldsFollow, RunsClean, SlotsKnown, Undisturbed, Live,
         Stopping, Bad, Pending, Quiet
<1>6. ModeShownIsTraded'
  BY DEF LoopEnds, Fail, Finally, RunPc, Stopping, serviceVars, taskVars, positionVars,
         ServiceTypeOK, OneAtATime, FieldsFollow, ModeShownIsTraded, Live, Pending, Quiet
<1>7. QED
  BY <1>1, <1>2, <1>3, <1>4, <1>5, <1>6

LEMMA MarketStreamsStoppedKeeps ==
  ASSUME ServiceInv, Overlap = FALSE, NEW r \in Runs, MarketStreamsStopped(r)
  PROVE  ServiceInv'
<1> USE ServiceAssumption DEF ServiceAssumption, ServiceInv
<1>1. ServiceTypeOK'
  BY DEF MarketStreamsStopped, RunPc, Stopping, serviceVars, taskVars, positionVars, ServiceTypeOK
<1>2. OneAtATime'
  BY DEF MarketStreamsStopped, RunPc, Stopping, serviceVars, taskVars, positionVars,
         ServiceTypeOK, OneAtATime, FieldsFollow, RunsClean, Pending, Live, Quiet
<1>3. FieldsFollow'
  BY DEF MarketStreamsStopped, RunPc, Stopping, serviceVars, taskVars, positionVars,
         ServiceTypeOK, OneAtATime, FieldsFollow, Pending, Live, Quiet
<1>4. RunsClean'
  BY DEF MarketStreamsStopped, RunPc, Stopping, serviceVars, taskVars, positionVars,
         ServiceTypeOK, OneAtATime, FieldsFollow, RunsClean, Pending, Live, Stopping, Bad
<1>5. SlotsKnown'
  BY DEF MarketStreamsStopped, RunPc, Stopping, serviceVars, taskVars, positionVars,
         ServiceTypeOK, OneAtATime, FieldsFollow, RunsClean, SlotsKnown, Undisturbed, Live,
         Stopping, Bad, Pending, Quiet
<1>6. ModeShownIsTraded'
  BY DEF MarketStreamsStopped, RunPc, Stopping, serviceVars, taskVars, positionVars,
         ServiceTypeOK, OneAtATime, FieldsFollow, ModeShownIsTraded, Live, Pending, Quiet
<1>7. QED
  BY <1>1, <1>2, <1>3, <1>4, <1>5, <1>6

LEMMA UserStreamStoppedKeeps ==
  ASSUME ServiceInv, Overlap = FALSE, NEW r \in Runs, UserStreamStopped(r)
  PROVE  ServiceInv'
<1> USE ServiceAssumption DEF ServiceAssumption, ServiceInv
<1>1. ServiceTypeOK'
  BY DEF UserStreamStopped, Finally, RunPc, Stopping, serviceVars, taskVars, positionVars,
         ServiceTypeOK
<1>2. OneAtATime'
  BY DEF UserStreamStopped, Finally, RunPc, Stopping, serviceVars, taskVars, positionVars,
         ServiceTypeOK, OneAtATime, FieldsFollow, RunsClean, Pending, Live, Quiet
<1>3. FieldsFollow'
  BY DEF UserStreamStopped, Finally, RunPc, Stopping, serviceVars, taskVars, positionVars,
         ServiceTypeOK, OneAtATime, FieldsFollow, Pending, Live, Quiet
<1>4. RunsClean'
  BY DEF UserStreamStopped, Finally, RunPc, Stopping, serviceVars, taskVars, positionVars,
         ServiceTypeOK, OneAtATime, FieldsFollow, RunsClean, Pending, Live, Stopping, Bad
<1>5. SlotsKnown'
  BY DEF UserStreamStopped, Finally, RunPc, Stopping, serviceVars, taskVars, positionVars,
         ServiceTypeOK, OneAtATime, FieldsFollow, RunsClean, SlotsKnown, Undisturbed, Live,
         Stopping, Bad, Pending, Quiet
<1>6. ModeShownIsTraded'
  BY DEF UserStreamStopped, Finally, RunPc, Stopping, serviceVars, taskVars, positionVars,
         ServiceTypeOK, OneAtATime, FieldsFollow, ModeShownIsTraded, Live, Pending, Quiet
<1>7. QED
  BY <1>1, <1>2, <1>3, <1>4, <1>5, <1>6

LEMMA RunCancelledKeeps ==
  ASSUME ServiceInv, Overlap = FALSE, NEW r \in Runs, RunCancelled(r)
  PROVE  ServiceInv'
<1> USE ServiceAssumption DEF ServiceAssumption, ServiceInv
<1>1. ServiceTypeOK'
  BY DEF RunCancelled, Finally, RunPc, Stopping, serviceVars, taskVars, positionVars, ServiceTypeOK
<1>2. OneAtATime'
  BY DEF RunCancelled, Finally, RunPc, Stopping, serviceVars, taskVars, positionVars,
         ServiceTypeOK, OneAtATime, FieldsFollow, RunsClean, Pending, Live, Quiet
<1>3. FieldsFollow'
  BY DEF RunCancelled, Finally, RunPc, Stopping, serviceVars, taskVars, positionVars,
         ServiceTypeOK, OneAtATime, FieldsFollow, RunsClean, Pending, Live, Quiet
<1>4. RunsClean'
  BY DEF RunCancelled, Finally, RunPc, Stopping, serviceVars, taskVars, positionVars,
         ServiceTypeOK, OneAtATime, FieldsFollow, RunsClean, Pending, Live, Stopping, Bad
<1>5. SlotsKnown'
  BY DEF RunCancelled, Finally, RunPc, Stopping, serviceVars, taskVars, positionVars,
         ServiceTypeOK, OneAtATime, FieldsFollow, RunsClean, SlotsKnown, Undisturbed, Live,
         Stopping, Bad, Pending, Quiet
<1>6. ModeShownIsTraded'
  BY DEF RunCancelled, Finally, RunPc, Stopping, serviceVars, taskVars, positionVars,
         ServiceTypeOK, OneAtATime, FieldsFollow, ModeShownIsTraded, Live, Pending, Quiet
<1>7. QED
  BY <1>1, <1>2, <1>3, <1>4, <1>5, <1>6

LEMMA EnterKeeps ==
  ASSUME ServiceInv, Overlap = FALSE, NEW r \in Runs, NEW s \in Symbols, Enter(r, s)
  PROVE  ServiceInv'
<1> USE ServiceAssumption DEF ServiceAssumption, ServiceInv
<1>1. ServiceTypeOK'
  BY DEF Enter, serviceVars, taskVars, positionVars, ServiceTypeOK
<1>2. OneAtATime'
  BY DEF Enter, serviceVars, taskVars, positionVars, ServiceTypeOK, OneAtATime, FieldsFollow,
         RunsClean, Pending, Live, Quiet
<1>3. FieldsFollow'
  BY DEF Enter, serviceVars, taskVars, positionVars, ServiceTypeOK, OneAtATime, FieldsFollow,
         Pending, Live, Quiet
<1>4. RunsClean'
  BY DEF Enter, serviceVars, taskVars, positionVars, ServiceTypeOK, OneAtATime, FieldsFollow,
         RunsClean, Pending, Live, Stopping, Bad
<1>5. SlotsKnown'
  BY DEF Enter, serviceVars, taskVars, positionVars, ServiceTypeOK, OneAtATime, FieldsFollow,
         RunsClean, SlotsKnown, Undisturbed, Live, Stopping, Bad, Pending, Quiet
<1>6. ModeShownIsTraded'
  BY DEF Enter, serviceVars, taskVars, positionVars, ServiceTypeOK, OneAtATime, FieldsFollow,
         ModeShownIsTraded, Live, Pending, Quiet
<1>7. QED
  BY <1>1, <1>2, <1>3, <1>4, <1>5, <1>6

LEMMA NoticeKeeps ==
  ASSUME ServiceInv, Overlap = FALSE, NEW r \in Runs, NEW s \in Symbols, Notice(r, s)
  PROVE  ServiceInv'
<1> USE ServiceAssumption DEF ServiceAssumption, ServiceInv
<1>1. ServiceTypeOK'
  BY DEF Notice, serviceVars, taskVars, positionVars, ServiceTypeOK
<1>2. OneAtATime'
  BY DEF Notice, serviceVars, taskVars, positionVars, ServiceTypeOK, OneAtATime, FieldsFollow,
         RunsClean, Pending, Live, Quiet
<1>3. FieldsFollow'
  BY DEF Notice, serviceVars, taskVars, positionVars, ServiceTypeOK, OneAtATime, FieldsFollow,
         Pending, Live, Quiet
<1>4. RunsClean'
  BY DEF Notice, serviceVars, taskVars, positionVars, ServiceTypeOK, OneAtATime, FieldsFollow,
         RunsClean, Pending, Live, Stopping, Bad
<1>5. SlotsKnown'
  BY DEF Notice, serviceVars, taskVars, positionVars, ServiceTypeOK, OneAtATime, FieldsFollow,
         RunsClean, SlotsKnown, Undisturbed, Live, Stopping, Bad, Pending, Quiet
<1>6. ModeShownIsTraded'
  BY DEF Notice, serviceVars, taskVars, positionVars, ServiceTypeOK, OneAtATime, FieldsFollow,
         ModeShownIsTraded, Live, Pending, Quiet
<1>7. QED
  BY <1>1, <1>2, <1>3, <1>4, <1>5, <1>6

LEMMA CloseKeeps ==
  ASSUME ServiceInv, Overlap = FALSE, NEW s \in Symbols, Close(s)
  PROVE  ServiceInv'
<1> USE ServiceAssumption DEF ServiceAssumption, ServiceInv
<1>1. ServiceTypeOK'
  BY DEF Close, serviceVars, taskVars, positionVars, ServiceTypeOK
<1>2. OneAtATime'
  BY DEF Close, serviceVars, taskVars, positionVars, ServiceTypeOK, OneAtATime, FieldsFollow,
         RunsClean, Pending, Live, Quiet
<1>3. FieldsFollow'
  BY DEF Close, serviceVars, taskVars, positionVars, ServiceTypeOK, OneAtATime, FieldsFollow,
         Pending, Live, Quiet
<1>4. RunsClean'
  BY DEF Close, serviceVars, taskVars, positionVars, ServiceTypeOK, OneAtATime, FieldsFollow,
         RunsClean, Pending, Live, Stopping, Bad
<1>5. SlotsKnown'
  BY DEF Close, serviceVars, taskVars, positionVars, ServiceTypeOK, OneAtATime, FieldsFollow,
         RunsClean, SlotsKnown, Undisturbed, Live, Stopping, Bad, Pending, Quiet
<1>6. ModeShownIsTraded'
  BY DEF Close, serviceVars, taskVars, positionVars, ServiceTypeOK, OneAtATime, FieldsFollow,
         ModeShownIsTraded, Live, Pending, Quiet
<1>7. QED
  BY <1>1, <1>2, <1>3, <1>4, <1>5, <1>6

-----------------------------------------------------------------------------
\* The initial states; what is on the exchange is found by the first run.
LEMMA ServiceStarts ==
  ASSUME ServiceInit
  PROVE  ServiceInv
<1> USE ServiceAssumption DEF ServiceAssumption, ServiceInit
<1>1. ServiceTypeOK
  <2>1. exposure \in [Symbols -> 0..2]
    BY 0 \in 0..2, 1 \in 0..2
  <2>2. stopper \in [Callers -> [pc : {"none", "wait", "cancel"}, of : Runs \cup {0},
                                on : Runs \cup {0}]]
    BY DEF NoStop
  <2>3. /\ running \in BOOLEAN /\ critical \in BOOLEAN
        /\ run \in [Runs -> RunPc] /\ built \in [Runs -> Modes]
    BY DEF RunPc
  <2>4. QED
    BY <2>1, <2>2, <2>3 DEF ServiceTypeOK
<1>2. OneAtATime
  BY DEF OneAtATime, Pending, Live, NoStop
<1>3. FieldsFollow
  BY DEF FieldsFollow, Live
<1>4. RunsClean
  BY DEF RunsClean, Bad
<1>5. SlotsKnown /\ ModeShownIsTraded
  BY DEF SlotsKnown, ModeShownIsTraded
<1>6. QED
  BY <1>1, <1>2, <1>3, <1>4, <1>5 DEF ServiceInv

LEMMA ServiceStutters ==
  ASSUME ServiceInv, UNCHANGED allVars
  PROVE  ServiceInv'
BY DEF ServiceInv, ServiceTypeOK, OneAtATime, FieldsFollow, RunsClean, SlotsKnown,
       ModeShownIsTraded, Undisturbed, Pending, Live, allVars, serviceVars, taskVars,
       positionVars

\* Every step, whoever takes it.
LEMMA ServiceSteps ==
  ASSUME ServiceInv, Overlap = FALSE, [ServiceNext]_allVars
  PROVE  ServiceInv'
<1>1. CASE UNCHANGED allVars
  BY <1>1, ServiceStutters
<1>2. CASE Api
  BY <1>2, StartKeeps, StopKeeps, StopReturnsKeeps, StopTimesOutKeeps, SetStrategyModeKeeps DEF Api
<1>3. CASE \E r \in Runs : RunStep(r)
  BY <1>3, BuildKeeps, StartMarketStreamsKeeps, LoopEndsKeeps, MarketStreamsStoppedKeeps,
     UserStreamStoppedKeeps, RunCancelledKeeps DEF RunStep
<1>4. CASE Trading
  BY <1>4, EnterKeeps, NoticeKeeps, CloseKeeps DEF Trading
<1>5. QED
  BY <1>1, <1>2, <1>3, <1>4 DEF ServiceNext

LEMMA ServiceInvariant ==
  ASSUME Overlap = FALSE
  PROVE  ServiceSpec => []ServiceInv
<1>1. ServiceInit => ServiceInv
  BY ServiceStarts
<1>2. ServiceInv /\ [ServiceNext]_allVars => ServiceInv'
  BY ServiceSteps
<1>3. QED
  BY <1>1, <1>2, PTL DEF ServiceSpec

-----------------------------------------------------------------------------
\* A live market stream belongs to the run in _task, unless a shutdown was cut off.
LEMMA TradersBelongToTask ==
  ASSUME ServiceInv, Undisturbed, NEW r \in Runs, market[r] # {}
  PROVE  r = task /\ engines = r
BY DEF ServiceInv, RunsClean, Undisturbed, Bad, OneAtATime, FieldsFollow, Live

(***************************************************************************)
(* The fields of the service have their types: what its API reports and    *)
(* what a run finds in them is always a run, a mode or nothing.            *)
(***************************************************************************)
THEOREM ServiceTyped ==
  ASSUME Overlap = FALSE
  PROVE  ServiceSpec => []ServiceTypeOK
<1>1. ServiceInv => ServiceTypeOK
  BY DEF ServiceInv
<1>2. QED
  BY <1>1, ServiceInvariant, PTL

(***************************************************************************)
(* Two engines never trade one symbol, however often the service is        *)
(* started, stopped or fails to start: start (1036-1041) refuses while     *)
(* _running, and the finally block of _run (1028-1034) clears it last.     *)
(***************************************************************************)
THEOREM OneTraderPerSymbol ==
  ASSUME Overlap = FALSE
  PROVE  ServiceSpec => []OneTrader
<1>1. ASSUME ServiceInv
      PROVE  OneTrader
  <2>1. SUFFICES ASSUME Undisturbed, NEW s \in Symbols
                 PROVE  Cardinality({r \in Runs : s \in market[r]}) <= 1
    BY DEF OneTrader
  <2> DEFINE T == {r \in Runs : s \in market[r]}
  <2>2. T \subseteq {task}
    BY <1>1, <2>1, TradersBelongToTask
  <2>3. T = {} \/ T = {task}
    BY <2>2
  <2>4. Cardinality(T) = 0 \/ Cardinality(T) = 1
    <3> HIDE DEF T
    <3>1. QED
      BY <2>3, FS_EmptySet, FS_Singleton
  <2>5. QED
    BY <2>4
<1>2. QED
  BY <1>1, ServiceInvariant, PTL

(***************************************************************************)
(* A run that returned has stopped every stream it started: at the end of  *)
(* its loop (1004-1014) and in the except branch after a failed start      *)
(* (1016-1027), which stops the streams found in the fields.               *)
(***************************************************************************)
THEOREM NoStreamIsOrphaned ==
  ASSUME Overlap = FALSE
  PROVE  ServiceSpec => []NoOrphans
<1>1. ServiceInv => NoOrphans
  BY DEF ServiceInv, NoOrphans, RunsClean, Bad, Stopping
<1>2. QED
  BY <1>1, ServiceInvariant, PTL

(***************************************************************************)
(* While the service runs, the mode shown by the API is the mode its       *)
(* engines were built with: set_strategy_mode refuses while _running.      *)
(***************************************************************************)
THEOREM ShownModeIsTraded ==
  ASSUME Overlap = FALSE
  PROVE  ServiceSpec => []ModeShownIsTraded
<1>1. ServiceInv => ModeShownIsTraded
  BY DEF ServiceInv
<1>2. QED
  BY <1>1, ServiceInvariant, PTL

-----------------------------------------------------------------------------
\* Only an entry adds to what is on the exchange.
LEMMA OnlyEntriesAdd ==
  ASSUME ServiceTypeOK, ServiceNext, NEW s \in Symbols, exposure'[s] > exposure[s]
  PROVE  \E r \in Runs : Enter(r, s)
<1>1. PICK r \in Runs, t \in Symbols : Enter(r, t)
  <2>1. exposure' # exposure
    BY DEF ServiceTypeOK
  <2>2. ~Api
    BY <2>1 DEF Api, Start, Stop, StopReturns, StopTimesOut, SetStrategyMode, positionVars
  <2>3. \A r \in Runs : ~RunStep(r)
    BY <2>1 DEF RunStep, Build, StartMarketStreams, LoopEnds, MarketStreamsStopped,
       UserStreamStopped, RunCancelled, positionVars
  <2>4. \A t \in Symbols : ~Close(t)
    BY DEF Close, ServiceTypeOK
  <2>5. \A r \in Runs, t \in Symbols : ~Notice(r, t)
    BY <2>1 DEF Notice
  <2>6. QED
    BY <2>2, <2>3, <2>4, <2>5 DEF ServiceNext, Trading
<1>2. t = s
  BY <1>1 DEF Enter, ServiceTypeOK
<1>3. QED
  BY <1>1, <1>2

(***************************************************************************)
(* No entry goes beyond the limit on concurrent positions as the exchange  *)
(* counts them: _open_position_count (361-362) counts engines, and the     *)
(* engines of a run know of every position but those they refused to       *)
(* adopt, which their log calls critical and leaves to the operator.       *)
(***************************************************************************)
THEOREM LimitHoldsOnExchange ==
  ASSUME Overlap = FALSE
  PROVE  ServiceSpec => SlotsRespected
<1>1. ASSUME ServiceInv, [ServiceNext]_allVars
      PROVE  [Undisturbed => \A s \in Symbols : exposure'[s] > exposure[s]
                => Cardinality(Exposed \ strangers) < MaxConcurrent]_allVars
  <2>1. SUFFICES ASSUME ServiceNext, Undisturbed, NEW s \in Symbols, exposure'[s] > exposure[s]
                 PROVE  Cardinality(Exposed \ strangers) < MaxConcurrent
    BY <1>1
  <2>2. PICK r \in Runs : Enter(r, s)
    BY <1>1, <2>1, OnlyEntriesAdd DEF ServiceInv
  <2>3. market[r] # {}
    BY <2>2 DEF Enter
  <2>4. engines = r /\ engines # 0
    BY <1>1, <2>1, <2>3, TradersBelongToTask, ServiceAssumption DEF ServiceAssumption
  <2>5. Exposed \ strangers \subseteq held[r]
    BY <1>1, <2>1, <2>4 DEF ServiceInv, SlotsKnown, Exposed
  <2>6. IsFiniteSet(held[r])
    <3>1. held[r] \subseteq Symbols
      BY <1>1 DEF ServiceInv, ServiceTypeOK
    <3>2. QED
      BY <3>1, FS_Subset, ServiceAssumption DEF ServiceAssumption
  <2>7. /\ Cardinality(Exposed \ strangers) <= Cardinality(held[r])
        /\ Cardinality(held[r]) \in Nat
        /\ Cardinality(Exposed \ strangers) \in Nat
    BY <2>5, <2>6, FS_Subset, FS_CardinalityType
  <2>8. MaxConcurrent \in Int
    BY FS_CardinalityType, ServiceAssumption DEF ServiceAssumption
  <2>9. ~(Cardinality(held[r]) >= MaxConcurrent)
    BY <2>2, <2>4 DEF Enter, Blocked, Occupied
  <2>10. QED
    BY <2>7, <2>8, <2>9
<1>2. QED
  BY <1>1, ServiceInvariant, PTL DEF ServiceSpec, SlotsRespected

(***************************************************************************)
(* stop (1043-1055) returns only when the run it was called for has ended  *)
(* by itself, with every stream of it stopped; the exceptions are a run    *)
(* that raised and a shutdown cancelled after its 30 seconds.              *)
(***************************************************************************)
THEOREM StopIsComplete ==
  ASSUME Overlap = FALSE
  PROVE  ServiceSpec => StopMeansStopped
<1>1. ASSUME ServiceInv, [ServiceNext]_allVars
      PROVE  [\A c \in Callers :
                Returns(c) /\ outcome[stopper[c].of] # "raised" /\ stopper[c].pc = "wait"
                  => Silent(c)]_allVars
  <2>1. SUFFICES ASSUME ServiceNext, NEW c \in Callers, Returns(c),
                        outcome[stopper[c].of] # "raised", stopper[c].pc = "wait"
                 PROVE  Silent(c)
    BY <1>1
  <2>2. /\ stopper[c].on = task /\ stopper[c].of = task /\ task # 0
        /\ task \in Runs /\ ~running
    BY <1>1, <2>1 DEF ServiceInv, OneAtATime, Pending, Returns, ServiceTypeOK
  <2>3. \E d \in Callers : Stop(d) \/ StopReturns(d) \/ StopTimesOut(d)
    BY <2>1 DEF Returns, ServiceNext, Api, RunStep, Trading, Start, SetStrategyMode, Build,
       StartMarketStreams, LoopEnds, MarketStreamsStopped, UserStreamStopped, RunCancelled, Enter,
       Notice, Close, taskVars
  <2>4. PICK d \in Callers : Stop(d) \/ StopReturns(d) \/ StopTimesOut(d)
    BY <2>3
  <2>5. d = c
    BY <1>1, <2>1, <2>2, <2>4
       DEF Returns, Stop, StopReturns, StopTimesOut, ServiceInv, ServiceTypeOK
  <2>6. StopReturns(c)
    <3>1. ~Stop(c)
      BY <2>1 DEF Stop
    <3>2. ~StopTimesOut(c)
      <4>1. SUFFICES ASSUME StopTimesOut(c) PROVE FALSE
        OBVIOUS
      <4>2. stopper' = [stopper EXCEPT ![c] = [stopper[c] EXCEPT !.pc = "cancel", !.on = task]]
        BY <2>2, <4>1 DEF StopTimesOut
      <4>3. stopper[c] \in [pc : {"none", "wait", "cancel"}, of : Runs \cup {0},
                             on : Runs \cup {0}]
        BY <1>1 DEF ServiceInv, ServiceTypeOK
      <4>4. stopper'[c].pc = "cancel"
        BY <1>1, <4>2, <4>3 DEF ServiceInv, ServiceTypeOK
      <4>5. QED
        BY <2>1, <4>4 DEF Returns
    <3>3. QED
      BY <2>4, <2>5, <3>1, <3>2
  <2>7. outcome[task] = "returned"
    BY <1>1, <2>1, <2>2, <2>6 DEF StopReturns, ServiceInv, ServiceTypeOK, RunsClean
  <2>8. market[task] = {} /\ task \notin user
    BY <1>1, <2>2, <2>7 DEF ServiceInv, RunsClean, Bad, Stopping
  <2>9. UNCHANGED <<market, user>>
    BY <2>6 DEF StopReturns
  <2>10. QED
    BY <2>2, <2>8, <2>9 DEF Silent
<1>2. QED
  BY <1>1, ServiceInvariant, PTL DEF ServiceSpec, StopMeansStopped

-----------------------------------------------------------------------------
\* The health the service reports follows the run in _task.
HealthFollows ==
  /\ \A r \in Runs :
       /\ run[r] = "loop" => market[r] = Symbols
       /\ run[r] \in {"stopMarket", "stopUser"} => ~running
       /\ run[r] \in {"failMarket", "failUser"} => critical
  /\ task # 0 /\ run[task] = "done" => critical \/ \E c \in Callers : Pending(c)
  /\ task # 0 /\ outcome[task] = "raised" => critical

\* The calls of the API.
LEMMA ApiKeepsHealth ==
  ASSUME ServiceInv, HealthFollows, Overlap = FALSE, Api
  PROVE  HealthFollows'
<1> USE ServiceAssumption
<1> USE DEF ServiceAssumption, ServiceInv, ServiceTypeOK, HealthFollows
<1>1. CASE Start
  <2>1. PICK q \in Fresh : run' = [run EXCEPT ![q] = "created"] /\ task' = q
    BY <1>1 DEF Start
  <2>2. /\ UNCHANGED <<outcome, market, critical>>
        /\ ~running /\ Quiet
    BY <1>1 DEF Start
  <2>3. \A r \in Runs : ~Live(r)
    BY <2>2 DEF OneAtATime, Quiet, Pending
  <2>4. outcome[q] = "none"
    BY DEF RunsClean, Fresh
  <2>5. QED
    BY <2>1, <2>2, <2>3, <2>4 DEF Fresh, Live
<1>2. ASSUME NEW c \in Callers, Stop(c)
      PROVE  HealthFollows'
  <2>1. /\ running' = FALSE
        /\ UNCHANGED <<run, market, critical, task, outcome>>
    BY <1>2 DEF Stop
  <2>2. \A d \in Callers : Pending(d) => Pending(d)'
    BY <1>2 DEF Stop, Pending
  <2>3. QED
    BY <2>1, <2>2
<1>3. ASSUME NEW c \in Callers, StopReturns(c)
      PROVE  HealthFollows'
  <2>1. UNCHANGED <<run, market, critical, running, outcome>>
    BY <1>3 DEF StopReturns
  <2>2. stopper[c].on = task
    BY <1>3 DEF StopReturns, OneAtATime, Pending
  <2>3. task' = 0 \/ (task' = task /\ outcome[task] = "raised")
    <3>1. task' = IF outcome[stopper[c].on] = "raised" THEN task ELSE 0
      BY <1>3 DEF StopReturns
    <3>2. QED
      BY <2>2, <3>1
  <2>4. QED
    BY <2>1, <2>3
<1>4. ASSUME NEW c \in Callers, StopTimesOut(c)
      PROVE  HealthFollows'
  <2>1. UNCHANGED <<run, market, critical, running, task, outcome>>
    BY <1>4 DEF StopTimesOut, serviceVars
  <2>2. task # 0 /\ Pending(c)
    BY <1>4 DEF StopTimesOut, OneAtATime, Pending
  <2>3. stopper' = [stopper EXCEPT ![c] = [stopper[c] EXCEPT !.pc = "cancel", !.on = task]]
    BY <1>4, <2>2 DEF StopTimesOut
  <2>4. stopper[c] \in [pc : {"none", "wait", "cancel"}, of : Runs \cup {0}, on : Runs \cup {0}]
    OBVIOUS
  <2>5. stopper'[c].pc = "cancel"
    BY <2>3, <2>4
  <2>6. QED
    BY <2>1, <2>5 DEF Pending
<1>5. ASSUME NEW m \in Modes, SetStrategyMode(m)
      PROVE  HealthFollows'
  BY <1>5 DEF SetStrategyMode, taskVars, Pending
<1>6. QED
  BY <1>1, <1>2, <1>3, <1>4, <1>5 DEF Api

\* The steps of a run.
LEMMA RunKeepsHealth ==
  ASSUME ServiceInv, HealthFollows, Overlap = FALSE, NEW r \in Runs, RunStep(r)
  PROVE  HealthFollows'
<1> USE ServiceAssumption
<1> USE DEF ServiceAssumption, ServiceInv, ServiceTypeOK, HealthFollows
<1>1. Live(r) => r = task
  BY DEF OneAtATime
<1>2. UNCHANGED <<task, stopper>>
  BY DEF RunStep, Build, StartMarketStreams, LoopEnds, MarketStreamsStopped, UserStreamStopped,
         RunCancelled, serviceVars
<1>3. CASE Build(r)
  <2>1. /\ run' = [run EXCEPT ![r] = "starting"] /\ UNCHANGED <<outcome, market>>
        /\ run[r] = "created"
    BY <1>3 DEF Build
  <2>2. r = task /\ outcome[r] = "none"
    BY <1>1, <2>1 DEF Live, RunsClean
  <2>3. \A q \in Runs : q # r => run'[q] \in {"none", "done"}
    BY <2>1, <2>2 DEF OneAtATime, Live
  <2>4. run'[r] = "starting" /\ outcome'[r] = "none"
    BY <2>1, <2>2
  <2>5. QED
    BY <1>2, <2>2, <2>3, <2>4
<1>4. ASSUME Fail(r), Live(r), \A q \in Runs : q # r => market'[q] = market[q]
      PROVE  HealthFollows'
  BY <1>1, <1>2, <1>4 DEF Fail, Finally, Live, Pending
<1>5. CASE StartMarketStreams(r)
  <2>1. PICK started \in SUBSET Symbols : market' = [market EXCEPT ![r] = started]
    BY <1>5 DEF StartMarketStreams
  <2>2. Live(r) /\ outcome[r] = "none"
    BY <1>5 DEF StartMarketStreams, Live, RunsClean
  <2>3. Fail(r) \/ /\ run' = [run EXCEPT ![r] = "loop"] /\ market'[r] = Symbols
                   /\ UNCHANGED <<running, critical, outcome>>
    BY <1>5 DEF StartMarketStreams
  <2>4. QED
    BY <1>1, <1>2, <1>4, <2>1, <2>2, <2>3 DEF Live, Pending
<1>6. CASE LoopEnds(r)
  <2>1. /\ Live(r) /\ ~running /\ outcome[r] = "none" /\ UNCHANGED market
    BY <1>6 DEF LoopEnds, Live, RunsClean
  <2>2. Fail(r) \/ /\ run' = [run EXCEPT ![r] = "stopMarket"]
                   /\ UNCHANGED <<running, critical, outcome>>
    BY <1>6 DEF LoopEnds
  <2>3. QED
    BY <1>1, <1>2, <1>4, <2>1, <2>2 DEF Live, Pending
<1>7. CASE MarketStreamsStopped(r)
  <2>1. target[r] = r /\ Live(r) /\ outcome[r] = "none"
    BY <1>7 DEF MarketStreamsStopped, RunsClean, Live
  <2>2. QED
    BY <1>1, <1>2, <1>7, <2>1
    DEF MarketStreamsStopped, Live, Pending, serviceVars
<1>8. CASE UserStreamStopped(r)
  <2>1. Live(r) /\ r = task
    BY <1>1, <1>8 DEF UserStreamStopped, Live
  <2>2. run[r] = "stopUser" => \E c \in Callers : Pending(c)
    BY <2>1 DEF OneAtATime
  <2>3. QED
    BY <1>2, <1>8, <2>1, <2>2 DEF UserStreamStopped, Finally, Pending
<1>9. CASE RunCancelled(r)
  <2>1. run[r] \in Stopping
    BY <1>9 DEF RunCancelled, RunsClean
  <2>2. Live(r) /\ r = task
    BY <1>1, <2>1 DEF Live, Stopping
  <2>3. critical \/ \E c \in Callers : Pending(c)
    BY <2>1, <2>2 DEF OneAtATime, Stopping
  <2>4. QED
    BY <1>2, <1>9, <2>1, <2>2, <2>3 DEF RunCancelled, Finally, Pending, Stopping
<1>10. QED
  BY <1>3, <1>5, <1>6, <1>7, <1>8, <1>9 DEF RunStep

LEMMA HealthSteps ==
  ASSUME ServiceInv, HealthFollows, Overlap = FALSE, [ServiceNext]_allVars
  PROVE  HealthFollows'
<1>1. CASE Trading \/ UNCHANGED allVars
  BY <1>1 DEF Trading, Enter, Notice, Close, allVars, serviceVars, taskVars, HealthFollows, Pending
<1>2. QED
  BY <1>1, ApiKeepsHealth, RunKeepsHealth DEF ServiceNext

\* A cached position is what the exchange has, if nothing happened since.
CacheKnown ==
  /\ cached \in BOOLEAN /\ left \in 0..Ttl /\ settled \in 0..Ttl
  /\ left > 0 /\ left + settled > Ttl => (cached <=> HasPosition)

LEMMA CacheSteps ==
  ASSUME CacheKnown, [ViewNext]_statusVars
  PROVE  CacheKnown'
<1> USE ViewAssumption DEF CacheKnown
<1>0. HasPosition \in BOOLEAN
  BY DEF HasPosition
<1>1. CASE ServiceActs
  BY <1>0, <1>1 DEF ServiceActs
<1>2. CASE GetStatus
  <2>1. PICK answer \in SymbolStatus : cached' = answer.cached /\ left' = answer.left
    BY <1>2 DEF GetStatus
  <2>2. UNCHANGED settled /\ (HasPosition' <=> HasPosition)
    BY <1>2 DEF GetStatus, HasPosition, allVars, positionVars
  <2>3. \/ cached' = cached /\ left' = left
        \/ cached' = HasPosition /\ left' = Ttl
    BY <2>1 DEF SymbolStatus, Fetched, Answer
  <2>4. QED
    BY <1>0, <2>2, <2>3
<1>3. CASE TimePasses
  <2>1. UNCHANGED cached /\ (HasPosition' <=> HasPosition)
    BY <1>3 DEF TimePasses, HasPosition, allVars, positionVars
  <2>2. QED
    BY <1>3, <2>1 DEF TimePasses
<1>4. CASE UNCHANGED statusVars
  BY <1>4 DEF statusVars, viewVars, allVars, positionVars, HasPosition
<1>5. QED
  BY <1>1, <1>2, <1>3, <1>4 DEF ViewNext

\* Reading a status is no step of the service.
LEMMA ViewImplementsService ==
  [ViewNext]_statusVars => [ServiceNext]_allVars
BY DEF ViewNext, ServiceActs, GetStatus, TimePasses, statusVars

(***************************************************************************)
(* For every _LIVE_POS_TTL: a position shown as the exchange's was there   *)
(* within that time, and one that has been there as long is not hidden,    *)
(* whatever fails and whenever the service starts and stops                *)
(* (_fetch_binance_position, 196-268).                                     *)
(***************************************************************************)
THEOREM PositionsShownAreRecent == ViewSpec => []StatusIsRecent
<1>1. ViewInit => CacheKnown
  <2>1. ASSUME cached = FALSE, left = 0, settled = Ttl
        PROVE  CacheKnown
    <3>1. cached \in BOOLEAN
      BY <2>1
    <3>2. left \in 0..Ttl /\ settled \in 0..Ttl /\ ~(left > 0)
      BY <2>1, ViewAssumption
    <3>3. QED
      BY <3>1, <3>2 DEF CacheKnown
  <2>2. QED
    BY <2>1 DEF ViewInit
<1>2. CacheKnown /\ [ViewNext]_statusVars => CacheKnown'
  BY CacheSteps
<1>3. ASSUME CacheKnown
      PROVE  StatusIsRecent
  BY <1>3, ViewAssumption
  DEF CacheKnown, StatusIsRecent, SymbolStatus, Fetched, Answer, Seen, HasPosition
<1>4. QED
  BY <1>1, <1>2, <1>3, PTL DEF ViewSpec

(***************************************************************************)
(* A status that is healthy and running means that the streams of all      *)
(* symbols are alive and trade the preset it shows, and no healthy status  *)
(* covers up a run that ended by itself (_get_status, 558-571).            *)
(***************************************************************************)
THEOREM HealthIsTrue ==
  ASSUME Overlap = FALSE
  PROVE  ViewSpec => []HealthyMeansTrading
<1>1. ViewInit => ServiceInv /\ HealthFollows
  <2>1. ServiceInit => HealthFollows
    BY DEF ServiceInit, HealthFollows
  <2>2. QED
    BY <2>1, ServiceStarts DEF ViewInit
<1>2. ServiceInv /\ HealthFollows /\ [ViewNext]_statusVars => (ServiceInv /\ HealthFollows)'
  BY ViewImplementsService, ServiceSteps, HealthSteps
<1>3. ASSUME ServiceInv, HealthFollows
      PROVE  HealthyMeansTrading
  <2>1. SUFFICES ASSUME ~critical, ~(running /\ NotConnected)
                 PROVE  /\ running /\ engines # 0 =>
                             market[engines] = Symbols /\ built[engines] = mode
                        /\ Quiet /\ task # 0 => run[task] # "done"
    BY DEF HealthyMeansTrading, SystemHealth
  <2>2. Quiet /\ task # 0 => run[task] # "done"
    BY <1>3, <2>1 DEF HealthFollows, Quiet, Pending
  <2>3. ASSUME running, engines # 0
        PROVE  market[engines] = Symbols /\ built[engines] = mode
    <3>1. engines \in Runs /\ run[engines] \in RunPc
      BY <1>3, <2>3 DEF ServiceInv, ServiceTypeOK
    <3>2. run[engines] \notin {"none", "done", "created", "starting"}
      BY <1>3, <2>1, <2>3 DEF ServiceInv, FieldsFollow, Live, NotConnected
    <3>3. run[engines] = "loop"
      BY <1>3, <2>1, <2>3, <3>1, <3>2 DEF HealthFollows, RunPc, Stopping
    <3>4. QED
      BY <1>3, <2>3, <3>1, <3>3 DEF HealthFollows, ServiceInv, ModeShownIsTraded
  <2>4. QED
    BY <2>2, <2>3
<1>4. QED
  BY <1>1, <1>2, <1>3, PTL DEF ViewSpec
===============================================================================
