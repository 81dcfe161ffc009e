------------------------- MODULE MCDashboardSocket -------------------------
(* The instance of DashboardSocket for TLC: no more than two sockets are   *)
(* ever in use, which Connect would show by blocking a timer.              *)
EXTENDS DashboardSocket, TLC

CONSTANTS w1, w2, w3

=============================================================================
