---------------------------- MODULE DashboardProofs ----------------------------
(***************************************************************************)
(* The dashboard, for every set of presets and every limit: the browser's  *)
(* state stays within its type, and the socket is only tried while it has  *)
(* failed less often than MAX_FAILURES.                                    *)
(***************************************************************************)
EXTENDS DashboardProperties, TLAPS

\* The socket is live only while it may still fail (Dashboard.tsx).
TriesLeft == socket \in {"connecting", "open", "waiting"} => failures < MaxFailures

DashboardInv == DashboardTypeOK /\ TriesLeft

-----------------------------------------------------------------------------
LEMMA AskedMoreTyped == asked \in 0..MaxAsked => AskedMore \in 0..MaxAsked
BY DashboardAssumption DEF AskedMore

LEMMA StatusTyped == Status \in {"stopped", "running"}
BY DEF Status

(***************************************************************************)
(* A token that comes or goes takes the socket and the questions with it.  *)
(***************************************************************************)
LEMMA NewTokenTyped ==
  ASSUME DashboardInv, NewToken
  PROVE  /\ token' = "valid" /\ asked' \in 0..MaxAsked
         /\ socket' = "connecting" /\ failures' = 0 /\ failures' \in 0..MaxFailures
         /\ TriesLeft'
BY AskedMoreTyped, DashboardAssumption
DEF NewToken, DashboardInv, DashboardTypeOK, TriesLeft

LEMMA NoClickTyped == NoClick \in [Buttons -> {"idle", "sent", "handled"} \cup Modes]
BY DEF NoClick

LEMMA UnmountedTyped ==
  ASSUME Unmounted
  PROVE  /\ token' = "none" /\ socket' = "closed" /\ shown' = "none"
         /\ failures' \in 0..MaxFailures
         /\ config' = NoMode /\ asked' \in 0..MaxAsked /\ answers' \subseteq Modes
         /\ click' \in [Buttons -> {"idle", "sent", "handled"} \cup Modes]
         /\ TriesLeft'
BY NoClickTyped, DashboardAssumption DEF Unmounted, TriesLeft

LEMMA AcceptedTyped ==
  ASSUME DashboardInv, NEW more \in BOOLEAN, Accepted(more)
  PROVE  /\ UNCHANGED <<net, cookie, session, shown>>
         /\ token' \in {"none", "valid", "expired"}
         /\ socket' \in {"closed", "connecting", "open", "waiting", "gaveUp"}
         /\ failures' \in 0..MaxFailures /\ asked' \in 0..MaxAsked
         /\ TriesLeft'
<1>1. CASE token = "valid"
  BY <1>1, AskedMoreTyped DEF Accepted, DashboardInv, DashboardTypeOK, TriesLeft
<1>2. CASE token # "valid"
  BY <1>2, NewTokenTyped DEF Accepted
<1>. QED  BY <1>1, <1>2

-----------------------------------------------------------------------------
LEMMA DashboardStarts == DashboardInit => DashboardInv
<1>. SUFFICES ASSUME DashboardInit PROVE DashboardInv
  OBVIOUS
<1>1. running \in BOOLEAN /\ net \in BOOLEAN /\ cookie \in BOOLEAN
  BY DEF DashboardInit
<1>2. /\ mode \in Modes /\ session = "loading" /\ token = "none"
      /\ socket = "closed" /\ shown = "none"
      /\ config \in Modes \cup {NoMode} /\ answers \subseteq Modes
      /\ click \in [Buttons -> {"idle", "sent", "handled"} \cup Modes]
  BY NoClickTyped, DashboardAssumption DEF DashboardInit
<1>3. failures \in 0..MaxFailures /\ asked \in 0..MaxAsked
  BY DashboardAssumption DEF DashboardInit
<1>. QED  BY <1>1, <1>2, <1>3 DEF DashboardInv, DashboardTypeOK, TriesLeft

LEMMA SessionStepKeeps ==
  ASSUME DashboardInv, SessionStep
  PROVE  DashboardInv'
<1>. USE DEF DashboardInv, DashboardTypeOK
<1>1. CASE Check
  BY <1>1, NewTokenTyped, UnmountedTyped DEF Check, controlVars
<1>2. CASE Reload
  BY <1>2, UnmountedTyped DEF Reload, controlVars
<1>3. CASE Login
  BY <1>3, NewTokenTyped DEF Login, controlVars
<1>4. CASE Logout
  <2>1. cookie' \in BOOLEAN
    BY <1>4 DEF Logout
  <2>. QED  BY <1>4, <2>1, UnmountedTyped DEF Logout, controlVars
<1>5. CASE RefreshTick
  BY <1>5, NewTokenTyped DEF RefreshTick, controlVars
<1>6. CASE TokenExpires
  BY <1>6 DEF TokenExpires, socketVars, panelVars, controlVars, TriesLeft
<1>7. CASE CookieExpires
  BY <1>7 DEF CookieExpires, socketVars, panelVars, controlVars, TriesLeft
<1>8. CASE NetworkChanges
  <2>1. net' \in BOOLEAN
    BY <1>8 DEF NetworkChanges
  <2>. QED
    BY <1>8, <2>1
    DEF NetworkChanges, sessionVars, socketVars, panelVars, controlVars, TriesLeft
<1>9. CASE Rejected
  BY <1>9, UnmountedTyped DEF Rejected, controlVars
<1>10. CASE Poll
  BY <1>10, AcceptedTyped DEF Poll, controlVars
<1>. QED
  BY <1>1, <1>2, <1>3, <1>4, <1>5, <1>6, <1>7, <1>8, <1>9, <1>10 DEF SessionStep

LEMMA SocketStepKeeps ==
  ASSUME DashboardInv, SocketStep
  PROVE  DashboardInv'
<1>. USE DEF DashboardInv, DashboardTypeOK, TriesLeft
<1>1. CASE Connected
  BY <1>1, StatusTyped, DashboardAssumption
  DEF Connected, sessionVars, panelVars, controlVars
<1>2. CASE Closed
  <2>1. failures < MaxFailures
    BY <1>2 DEF Closed
  <2>2. failures' \in 0..MaxFailures
    BY <1>2, <2>1, DashboardAssumption DEF Closed
  <2>. QED
    BY <1>2, <2>2, DashboardAssumption DEF Closed, sessionVars, panelVars, controlVars
<1>3. CASE Reconnect
  BY <1>3 DEF Reconnect, sessionVars, panelVars, controlVars
<1>4. CASE Push
  BY <1>4, StatusTyped DEF Push, sessionVars, panelVars, controlVars
<1>. QED  BY <1>1, <1>2, <1>3, <1>4 DEF SocketStep

LEMMA PanelStepKeeps ==
  ASSUME DashboardInv, PanelStep
  PROVE  DashboardInv'
<1>. USE DEF DashboardInv, DashboardTypeOK
<1>. DEFINE Clicks == {"idle", "sent", "handled"} \cup Modes
<1>0. ASSUME NEW b \in Buttons, NEW v \in Clicks, click' = [click EXCEPT ![b] = v]
      PROVE  click' \in [Buttons -> Clicks]
  BY <1>0
<1>1. CASE ConfigRead
  BY <1>1, DashboardAssumption
  DEF ConfigRead, sessionVars, socketVars, controlVars, TriesLeft
<1>2. CASE ConfigLost
  BY <1>2, DashboardAssumption
  DEF ConfigLost, sessionVars, socketVars, controlVars, TriesLeft
<1>3. CASE ConfigShown
  BY <1>3 DEF ConfigShown, sessionVars, socketVars, controlVars, TriesLeft
<1>4. ASSUME NEW b \in Buttons, NEW v \in Clicks, Sends(b, v)
      PROVE  DashboardInv'
  BY <1>0, <1>4 DEF Sends, sessionVars, socketVars, controlVars, TriesLeft
<1>5. CASE ClickStart \/ ClickStop \/ \E m \in Modes : ClickMode(m)
  BY <1>4, <1>5 DEF ClickStart, ClickStop, ClickMode, Buttons
<1>6. CASE \E b \in Buttons : CallFails(b)
  BY <1>0, <1>6 DEF CallFails, sessionVars, socketVars, controlVars, TriesLeft
<1>7. CASE StartHandled
  BY <1>0, <1>7, AcceptedTyped DEF StartHandled, Buttons
<1>8. CASE StopHandled
  BY <1>0, <1>8, AcceptedTyped DEF StopHandled, Buttons
<1>9. CASE StopAnswered
  BY <1>0, <1>9, AskedMoreTyped
  DEF StopAnswered, Buttons, sessionVars, socketVars, controlVars, TriesLeft
<1>10. CASE ModeHandled
  BY <1>0, <1>10, AcceptedTyped DEF ModeHandled, Buttons
<1>. QED
  BY <1>1, <1>2, <1>3, <1>5, <1>6, <1>7, <1>8, <1>9, <1>10 DEF PanelStep

LEMMA DashboardKeeps == DashboardInv /\ [DashboardNext]_dashboardVars => DashboardInv'
<1>. SUFFICES ASSUME DashboardInv, [DashboardNext]_dashboardVars
              PROVE  DashboardInv'
  OBVIOUS
<1>1. CASE RunEnds
  BY <1>1
  DEF RunEnds, DashboardInv, DashboardTypeOK, TriesLeft, sessionVars, socketVars, panelVars
<1>2. CASE UNCHANGED dashboardVars
  BY <1>2
  DEF DashboardInv, DashboardTypeOK, TriesLeft,
      dashboardVars, sessionVars, socketVars, panelVars, controlVars
<1>. QED
  BY <1>1, <1>2, SessionStepKeeps, SocketStepKeeps, PanelStepKeeps DEF DashboardNext

LEMMA DashboardHolds == DashboardSpec => []DashboardInv
BY DashboardStarts, DashboardKeeps, PTL DEF DashboardSpec

-----------------------------------------------------------------------------
(***************************************************************************)
(* The browser's state stays within its type, and with it the socket's     *)
(* count of failures within MAX_FAILURES (Dashboard.tsx): after that many  *)
(* it waits for a new token.                                               *)
(***************************************************************************)
THEOREM DashboardTyped == DashboardSpec => []DashboardTypeOK
<1>1. DashboardInv => DashboardTypeOK
  BY DEF DashboardInv
<1>. QED  BY <1>1, DashboardHolds, PTL
================================================================================
