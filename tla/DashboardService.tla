---------------------------- MODULE DashboardService ----------------------------
(***************************************************************************)
(* The dashboard and the service it controls: EngineService in place of    *)
(* the two fields module Dashboard has for it.  start, stop and the mode   *)
(* change only behind a click, so what happens to the service is what one  *)
(* user with one browser can do to it.                                     *)
(***************************************************************************)
EXTENDS EngineServiceProperties

CONSTANTS DefaultMode, NoMode, MaxFailures, MaxAsked

VARIABLES net, cookie, session, token, socket, failures, shown, config, asked,
          answers, click

Panel == INSTANCE Dashboard

browserVars == <<net, cookie, session, token, socket, failures, shown, config,
                 asked, answers, click>>
systemVars  == <<allVars, browserVars>>

-----------------------------------------------------------------------------
\* start_engine: start returns at once, also while it is running.
StartRequest ==
  /\ Panel!StartHandled
  /\ Start \/ (running /\ UNCHANGED allVars)

\* stop_engine: without a task there is nothing to wait for.
StopRequest ==
  /\ Panel!StopHandled
  /\ (\E c \in Callers : Stop(c)) \/ (~running /\ task = 0 /\ UNCHANGED allVars)

\* The answer is sent when stop has returned.
StopAnswer == Panel!StopAnswered /\ Quiet /\ UNCHANGED allVars

\* update_strategy_config: 409 while running.
ModeRequest ==
  /\ Panel!ModeHandled
  /\ SetStrategyMode(click["mode"]) \/ (running /\ UNCHANGED allVars)

\* What the browser does by itself, or the user without the service.
BrowserStep ==
  /\ \/ Panel!SessionStep \/ Panel!SocketStep
     \/ Panel!ConfigRead \/ Panel!ConfigLost \/ Panel!ConfigShown
     \/ Panel!ClickStart \/ Panel!ClickStop \/ \E m \in Modes : Panel!ClickMode(m)
     \/ \E b \in Panel!Buttons : Panel!CallFails(b)
  /\ UNCHANGED allVars

\* The run and the calls of stop go on, whatever the browser does.
ServiceStep ==
  /\ \/ \E r \in Runs : RunStep(r)
     \/ \E c \in Callers : StopReturns(c) \/ StopTimesOut(c)
     \/ Trading
  /\ UNCHANGED browserVars

SystemInit == ServiceInit /\ Panel!DashboardInit

SystemNext ==
  StartRequest \/ StopRequest \/ StopAnswer \/ ModeRequest \/ BrowserStep \/ ServiceStep

SystemSpec == SystemInit /\ [][SystemNext]_systemVars
=============================================================================
