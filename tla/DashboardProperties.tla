-------------------------- MODULE DashboardProperties --------------------------
(***************************************************************************)
(* What the dashboard promises to the user who looks at it.                *)
(***************************************************************************)
EXTENDS Dashboard

\* The browser's own type invariant.
DashboardTypeOK ==
  /\ running \in BOOLEAN /\ mode \in Modes
  /\ net \in BOOLEAN /\ cookie \in BOOLEAN
  /\ session \in {"loading", "stuck", "login", "in"}
  /\ token \in {"none", "valid", "expired"}
  /\ socket \in {"closed", "connecting", "open", "waiting", "gaveUp"}
  /\ failures \in 0..MaxFailures
  /\ shown \in {"none", "stopped", "running"}
  /\ config \in Modes \cup {NoMode} /\ asked \in 0..MaxAsked /\ answers \subseteq Modes
  /\ click \in [Buttons -> {"idle", "sent", "handled"} \cup Modes]

(***************************************************************************)
(* While the user stays logged in and the server can be reached, the       *)
(* dashboard does not stay behind: again and again it shows whether the    *)
(* engine runs, and the preset the service has, also after the socket has  *)
(* given up, a token has expired or answers have come in the wrong order.  *)
(***************************************************************************)
DashboardCatchesUp ==
  <>[](session = "in" /\ net /\ cookie)
    => ([]<>(shown = Status) /\ []<>(SelectedMode = mode))
================================================================================
