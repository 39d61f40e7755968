-------------------------------- MODULE Feeds --------------------------------
(***************************************************************************)
(* What one engine hears: the market stream of its symbol and the user     *)
(* stream of the run, started one after the other by EngineService._run    *)
(* and independent from then on.                                           *)
(***************************************************************************)
EXTENDS MarketStream, UserStream

feedVars == <<streamVars, user>>

TheRun == CHOOSE r \in Runs : TRUE

FeedsInit == MarketInit /\ UserInit

\* The user stream starts when all market streams have.
StartFeeds == Start /\ UserStart(TheRun)

\* The engine handles the fill that closed its position, unless the
\* exchange has forgotten the listen key.
FillHeard ==
  /\ user[TheRun].phase = "open" /\ ~Expired(TheRun)
  /\ PositionCloses
  /\ UNCHANGED user

MarketAlone ==
  \/ PreEvaluate
  \/ BarCloses \/ MarketConnected \/ MarketDisconnected \/ MarketReconnects
  \/ ClosedCandle \/ HandOver \/ FormingCandle
  \/ RefreshFetched \/ RefreshStep

FeedsNext ==
  \/ StartFeeds
  \/ FillHeard
  \/ MarketAlone /\ UNCHANGED user
  \/ UserNext /\ UNCHANGED streamVars

(***************************************************************************)
(* Fairness: tasks and thread are scheduled; a refresh and a connection    *)
(* that are tried again and again succeed at last.  Nothing is assumed of  *)
(* the WebSocket of the market.                                            *)
(***************************************************************************)
FeedsFairness ==
  /\ WF_feedVars(PreEvaluate /\ UNCHANGED user) /\ WF_feedVars(StartFeeds)
  /\ WF_feedVars(RefreshStep /\ UNCHANGED user)
  /\ WF_feedVars(RefreshFetched /\ UNCHANGED user)
  /\ WF_feedVars(PauseOver(TheRun) /\ UNCHANGED streamVars)
  /\ SF_feedVars(ListenKeyCreated(TheRun) /\ UNCHANGED streamVars)
  /\ SF_feedVars(Connected(TheRun) /\ UNCHANGED streamVars)

FeedsSpec == FeedsInit /\ [][FeedsNext]_feedVars /\ FeedsFairness
=============================================================================
