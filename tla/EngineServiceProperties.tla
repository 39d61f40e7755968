----------------------- MODULE EngineServiceProperties -----------------------
(***************************************************************************)
(* What the service promises of its runs, its streams and its limit.       *)
(***************************************************************************)
EXTENDS EngineService

\* The service's own type invariant.
ServiceTypeOK ==
  /\ running \in BOOLEAN /\ critical \in BOOLEAN
  /\ task \in Runs \cup {0} /\ engines \in Runs \cup {0} /\ streams \in Runs \cup {0}
  /\ mode \in Modes /\ built \in [Runs -> Modes]
  /\ run \in [Runs -> RunPc]
  /\ target \in [Runs -> Runs \cup {0}]
  /\ cancelled \subseteq Runs
  /\ outcome \in [Runs -> {"none", "returned", "raised", "cancelled"}]
  /\ stopper \in [Callers -> [pc : {"none", "wait", "cancel"}, of : Runs \cup {0},
                              on : Runs \cup {0}]]
  /\ market \in [Runs -> SUBSET Symbols]
  /\ held \in [Runs -> SUBSET Symbols]
  /\ exposure \in [Symbols -> 0..2]
  /\ user \subseteq Runs /\ strangers \subseteq Symbols

\* No shutdown was cut off, by its timeout or by a failing insert into the log.
Undisturbed == \A r \in Runs : outcome[r] \in {"none", "returned"}

(***************************************************************************)
(* Never two engines trade one symbol: of all the market streams that are  *)
(* alive, those of a run that is failing or stopping included, at most one *)
(* is for it.  (start, 1036-1041; the finally block of _run, 1028-1034.)   *)
(***************************************************************************)
OneTrader ==
  Undisturbed => \A s \in Symbols : Cardinality({r \in Runs : s \in market[r]}) <= 1

(***************************************************************************)
(* A run that has returned leaves no stream behind: neither at the end of  *)
(* its loop nor after the failed start of one symbol, when the streams of  *)
(* the others have to stop.                                                *)
(***************************************************************************)
NoOrphans == \A r \in Runs : outcome[r] = "returned" => market[r] = {} /\ r \notin user

(***************************************************************************)
(* The limit holds for the exchange and not just for the engines' own      *)
(* count: a position is opened only while fewer than MaxConcurrent         *)
(* symbols have one, also after a restart that adopts what it finds; what  *)
(* it refused to adopt is not counted.                                     *)
(***************************************************************************)
SlotsRespected ==
  [][Undisturbed => \A s \in Symbols : exposure'[s] > exposure[s]
       => Cardinality(Exposed \ strangers) < MaxConcurrent]_allVars

\* The call returns in this step, and the run it was made for is silent.
Returns(c) == stopper[c].pc # "none" /\ stopper'[c].pc = "none"
Silent(c)  == market'[stopper[c].of] = {} /\ stopper[c].of \notin user'

(***************************************************************************)
(* When stop returns without having cancelled anything, the run it was     *)
(* called for has returned and trades no more.                             *)
(***************************************************************************)
StopMeansStopped ==
  [][\A c \in Callers :
       Returns(c) /\ outcome[stopper[c].of] # "raised" /\ stopper[c].pc = "wait" => Silent(c)]_allVars

(***************************************************************************)
(* stop "awaits clean shutdown of streams" (its docstring, 1044): whenever *)
(* it returns, the streams of the run it was called for are gone.          *)
(***************************************************************************)
StopAwaitsShutdown == [][\A c \in Callers : Returns(c) => Silent(c)]_allVars

(***************************************************************************)
(* The mode the API shows while the service runs is the mode the engines   *)
(* that trade were built with.                                             *)
(***************************************************************************)
ModeShownIsTraded == running /\ engines # 0 => built[engines] = mode
=============================================================================
