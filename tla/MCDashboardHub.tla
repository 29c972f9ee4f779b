--------------------------- MODULE MCDashboardHub ---------------------------
(* A TLC instance of DashboardHub: two connections, and room for one message. *)
EXTENDS DashboardHub

MCConns == 1..2
=============================================================================
