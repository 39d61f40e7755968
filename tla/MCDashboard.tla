------------------------------ MODULE MCDashboard ------------------------------
(* An instance of the dashboard for TLC; see the README for the bounds.    *)
EXTENDS DashboardProperties
=============================================================================
