------------------------- MODULE MCRouteHysteresis -------------------------
(* The routing of one node with the default thresholds, on samples chosen  *)
(* at the edges of the algorithm.                                          *)
EXTENDS RouteHysteresis

CONSTANT Absent

Sample(uplink, signal, loss, latency) ==
    [uplink |-> uplink, signal_strength |-> signal, packet_loss |-> loss,
     latency_ms |-> latency]

\* Health 0.6 with a breached signal threshold; 0.43, the least a sample
\* within the thresholds can score; 0.2 without critical loss, which a window
\* of 0.6 just absorbs; 0.565 with critical loss.
EdgeSamples ==
    {Sample("5g", 29, 0, 31167),
     Sample("cellular", 30, 1500, 50000),
     Sample("satellite", 0, 5000, 60000),
     Sample("mesh", 75, 6000, 20000)}

=============================================================================
