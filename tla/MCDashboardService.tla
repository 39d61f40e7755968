--------------------------- MODULE MCDashboardService ---------------------------
(* One browser and the service for TLC; see the README for the bounds.     *)
EXTENDS DashboardService
=============================================================================
