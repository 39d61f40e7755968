------------------------------- MODULE Dashboard -------------------------------
(***************************************************************************)
(* One browser with the dashboard of frontend/src, and the API it talks    *)
(* to: the session (AuthContext.tsx, api/client.ts, api/auth*.py), the     *)
(* status socket (Dashboard.tsx, /ws/status of main.py) and the buttons    *)
(* (ControlPanel.tsx).  What the user can click is decided by what the     *)
(* browser was last told.  The service is its two fields the browser can   *)
(* see; module DashboardService puts EngineService in its place.           *)
(*                                                                         *)
(* A request is answered, or rejected or not ok while the server cannot be *)
(* reached.  apiFetch is one step up to the handler of the API: a 401      *)
(* makes it refresh the access token and try once more, and no other call  *)
(* can tell.                                                               *)
(***************************************************************************)
EXTENDS Integers

CONSTANTS
  Modes,         \* STRATEGY_PRESETS
  DefaultMode,   \* the preset selected before a configuration was read
  NoMode,        \* no configuration was read
  MaxFailures,   \* MAX_FAILURES of the status socket
  MaxAsked       \* bound: configuration requests under way

ASSUME DashboardAssumption ==
  /\ DefaultMode \in Modes /\ NoMode \notin Modes
  /\ MaxFailures \in Nat \ {0} /\ MaxAsked \in Nat \ {0}

VARIABLES
  running,    \* _running of the service
  mode,       \* its _strategy_mode
  net,        \* the server can be reached
  cookie,     \* the refresh-token cookie is there and has not expired
  session,    \* what App shows: "loading", "stuck", "login" or "in"
  token,      \* accessToken
  socket,     \* the status socket
  failures,   \* failed connections in a row
  shown,      \* engine_state of the last status: "none", "stopped" or "running"
  config,     \* mode of strategyConfig
  asked,      \* requests for the configuration under way
  answers,    \* configurations on their way back
  click       \* the request behind each button: "idle", "sent", "handled" or a mode

sessionVars   == <<cookie, session, token>>
socketVars    == <<socket, failures, shown>>
panelVars     == <<config, asked, answers, click>>
controlVars   == <<running, mode>>
dashboardVars == <<controlVars, net, sessionVars, socketVars, panelVars>>

Buttons == {"start", "stop", "mode"}
NoClick == [b \in Buttons |-> "idle"]

\* engine_state of _get_status, as far as isRunning tells it apart.
Status == IF running THEN "running" ELSE "stopped"
IsRunning == shown = "running"
SelectedMode == IF config = NoMode THEN DefaultMode ELSE config

AskedMore == IF asked < MaxAsked THEN asked + 1 ELSE asked

-----------------------------------------------------------------------------
(***************************************************************************)
(* The session.                                                            *)
(***************************************************************************)
\* Mutant: the socket and the configuration do not follow the token.
NewTokenUnseen ==
  /\ token' = "valid"
  /\ IF token = "none" THEN socket' = "connecting" /\ failures' = 0 /\ asked' = AskedMore
                       ELSE UNCHANGED <<socket, failures, asked>>

\* setAccessToken: both effects that depend on the token run again.
NewToken ==
  /\ token' = "valid"
  /\ socket' = "connecting" /\ failures' = 0
  /\ asked' = AskedMore

\* The dashboard is unmounted; what it still waits for is dropped.
Unmounted ==
  /\ token' = "none"
  /\ socket' = "closed" /\ failures' = 0 /\ shown' = "none"
  /\ config' = NoMode /\ asked' = 0 /\ answers' = {} /\ click' = NoClick

\* The first check of AuthProvider.  Any answer that is not ok, as that of a
\* proxy whose backend restarts, shows the login page, whatever the cookie is
\* worth; a rejected fetch leaves isLoading set.
Check ==
  /\ session = "loading"
  /\ \/ /\ net /\ cookie
        /\ session' = "in" /\ NewToken
        /\ UNCHANGED <<shown, config, answers, click>>
     \/ session' = "login" /\ Unmounted
     \/ /\ ~net
        /\ session' = "stuck" /\ Unmounted
  /\ UNCHANGED <<net, cookie, controlVars>>

Reload ==
  /\ session \in {"stuck", "login", "in"}
  /\ session' = "loading" /\ Unmounted
  /\ UNCHANGED <<net, cookie, controlVars>>

Login ==
  /\ session = "login" /\ net
  /\ cookie' = TRUE /\ session' = "in" /\ NewToken
  /\ UNCHANGED <<net, shown, config, answers, click, controlVars>>

\* A logout that does not reach the server leaves the cookie behind.
Logout ==
  /\ session = "in"
  /\ cookie' = (cookie /\ ~net)
  /\ session' = "login" /\ Unmounted
  /\ UNCHANGED <<net, controlVars>>

\* Every 25 minutes; one that fails changes nothing, and the next is as late.
RefreshTick ==
  /\ session = "in" /\ net /\ cookie
  /\ NewToken
  /\ UNCHANGED <<net, cookie, session, shown, config, answers, click, controlVars>>

\* 30 minutes, 7 days and the network.
TokenExpires ==
  /\ token = "valid" /\ token' = "expired"
  /\ UNCHANGED <<net, cookie, session, socketVars, panelVars, controlVars>>

CookieExpires ==
  /\ cookie /\ cookie' = FALSE
  /\ UNCHANGED <<net, session, token, socketVars, panelVars, controlVars>>

NetworkChanges ==
  /\ net' = ~net
  /\ UNCHANGED <<sessionVars, socketVars, panelVars, controlVars>>

\* get_current_user lets the request pass, at once or after one refresh.
Authorised == token = "valid" \/ cookie

\* What apiFetch does to the session; more is what the handler asks for.
Accepted(more) ==
  /\ net /\ Authorised
  /\ IF token = "valid"
       THEN /\ asked' = IF more THEN AskedMore ELSE asked
            /\ UNCHANGED <<token, socket, failures>>
       ELSE NewToken
  /\ UNCHANGED <<net, cookie, session, shown>>

\* authFailureCallback: a 401, and then a refresh whose answer is not ok, for
\* want of the cookie or of the backend.
Rejected ==
  /\ session = "in" /\ net /\ token # "valid"
  /\ session' = "login" /\ Unmounted
  /\ UNCHANGED <<net, cookie, controlVars>>

\* One of the polls of the insight and the equity.
Poll ==
  /\ session = "in"
  /\ Accepted(FALSE)
  /\ UNCHANGED <<config, answers, click, controlVars>>

-----------------------------------------------------------------------------
(***************************************************************************)
(* The status socket.                                                      *)
(***************************************************************************)
\* The server accepts a valid token and sends a status at once.
Connected ==
  /\ socket = "connecting" /\ net /\ token = "valid"
  /\ socket' = "open" /\ failures' = 0
  /\ shown' = Status
  /\ UNCHANGED <<net, sessionVars, panelVars, controlVars>>

\* onclose: refused, unreachable, dropped, or closed because get_status raised.
Closed ==
  /\ \/ socket = "connecting" /\ (~net \/ token = "expired")
     \/ socket = "open"
  /\ failures' = failures + 1
  /\ socket' = IF failures' >= MaxFailures THEN "gaveUp" ELSE "waiting"
  /\ UNCHANGED <<net, sessionVars, shown, panelVars, controlVars>>

Reconnect ==
  /\ socket = "waiting" /\ socket' = "connecting"
  /\ UNCHANGED <<net, sessionVars, failures, shown, panelVars, controlVars>>

\* Every three seconds.
Push ==
  /\ socket = "open" /\ net
  /\ shown' = Status
  /\ UNCHANGED <<net, sessionVars, socket, failures, panelVars, controlVars>>

-----------------------------------------------------------------------------
(***************************************************************************)
(* The configuration.  Answers come back in any order.                     *)
(***************************************************************************)
ConfigRead ==
  /\ asked > 0 /\ net /\ token = "valid"
  /\ asked' = asked - 1
  /\ answers' = answers \cup {mode}
  /\ UNCHANGED <<net, sessionVars, socketVars, config, click, controlVars>>

\* !res.ok or a rejected fetch: the old configuration stays.
ConfigLost ==
  /\ ~net
  /\ \/ asked > 0 /\ asked' = asked - 1 /\ UNCHANGED answers
     \/ \E m \in answers : answers' = answers \ {m} /\ UNCHANGED asked
  /\ UNCHANGED <<net, sessionVars, socketVars, config, click, controlVars>>

ConfigShown ==
  /\ net
  /\ \E m \in answers : config' = m /\ answers' = answers \ {m}
  /\ UNCHANGED <<net, sessionVars, socketVars, asked, click, controlVars>>

-----------------------------------------------------------------------------
(***************************************************************************)
(* The buttons.                                                            *)
(***************************************************************************)
Sends(b, what) ==
  /\ session = "in" /\ click[b] = "idle"
  /\ click' = [click EXCEPT ![b] = what]
  /\ UNCHANGED <<net, sessionVars, socketVars, config, asked, answers, controlVars>>

\* startLoading does not look at a stop under way, nor stopLoading at a start.
ClickStart   == ~IsRunning /\ Sends("start", "sent")
ClickStop    == IsRunning /\ Sends("stop", "sent")
ClickMode(m) == ~IsRunning /\ m # SelectedMode /\ Sends("mode", m)

\* The request is rejected, before or after the server has handled it.
CallFails(b) ==
  /\ click[b] # "idle" /\ ~net
  /\ click' = [click EXCEPT ![b] = "idle"]
  /\ UNCHANGED <<net, sessionVars, socketVars, config, asked, answers, controlVars>>

\* start returns at once, and the panel asks for the configuration.
StartHandled ==
  /\ click["start"] = "sent"
  /\ Accepted(TRUE)
  /\ click' = [click EXCEPT !["start"] = "idle"]
  /\ running' = TRUE
  /\ UNCHANGED <<mode, config, answers>>

\* stop clears _running at once, and returns when it has waited for the run.
StopHandled ==
  /\ click["stop"] = "sent"
  /\ Accepted(FALSE)
  /\ click' = [click EXCEPT !["stop"] = "handled"]
  /\ running' = FALSE
  /\ UNCHANGED <<mode, config, answers>>

StopAnswered ==
  /\ click["stop"] = "handled" /\ net
  /\ click' = [click EXCEPT !["stop"] = "idle"]
  /\ asked' = AskedMore
  /\ UNCHANGED <<net, sessionVars, socketVars, config, answers, controlVars>>

\* set_strategy_mode answers with the configuration, or with 409.
ModeHandled ==
  /\ click["mode"] \in Modes
  /\ Accepted(FALSE)
  /\ click' = [click EXCEPT !["mode"] = "idle"]
  /\ \/ ~running /\ mode' = click["mode"] /\ answers' = answers \cup {mode'}
     \/ running /\ UNCHANGED <<mode, answers>>
  /\ UNCHANGED <<running, config>>

-----------------------------------------------------------------------------
DashboardInit ==
  /\ running = FALSE /\ mode = DefaultMode
  /\ net = TRUE /\ cookie \in BOOLEAN /\ session = "loading" /\ token = "none"
  /\ socket = "closed" /\ failures = 0 /\ shown = "none"
  /\ config = NoMode /\ asked = 0 /\ answers = {} /\ click = NoClick

SessionStep ==
  \/ Check \/ Reload \/ Login \/ Logout \/ RefreshTick \/ Rejected \/ Poll
  \/ TokenExpires \/ CookieExpires \/ NetworkChanges

SocketStep == Connected \/ Closed \/ Reconnect \/ Push

PanelStep ==
  \/ ConfigRead \/ ConfigLost \/ ConfigShown
  \/ ClickStart \/ ClickStop \/ \E m \in Modes : ClickMode(m)
  \/ \E b \in Buttons : CallFails(b)
  \/ StartHandled \/ StopHandled \/ StopAnswered \/ ModeHandled

\* _run ends by itself, or after stop has given up waiting for it.
RunEnds ==
  /\ running /\ running' = FALSE
  /\ UNCHANGED <<mode, net, sessionVars, socketVars, panelVars>>

DashboardNext == SessionStep \/ SocketStep \/ PanelStep \/ RunEnds

(***************************************************************************)
(* Timers fire, requests end, and a socket that finds the server and a     *)
(* token that lives for half an hour connects at last.  The user, the      *)
(* network and the expiries are owed nothing.                              *)
(***************************************************************************)
DashboardFairness ==
  /\ WF_dashboardVars(RefreshTick) /\ SF_dashboardVars(Connected)
  /\ WF_dashboardVars(Reconnect) /\ WF_dashboardVars(Closed /\ socket = "connecting")
  /\ SF_dashboardVars(ConfigRead) /\ SF_dashboardVars(ConfigShown)

DashboardSpec == DashboardInit /\ [][DashboardNext]_dashboardVars /\ DashboardFairness
=============================================================================
