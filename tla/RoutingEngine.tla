--------------------------- MODULE RoutingEngine ---------------------------
(***************************************************************************)
(* The routing algorithm of the control plane                              *)
(* (api/app/routing_engine.py), as operators on one sample and a window    *)
(* of earlier health scores.                                               *)
(*                                                                         *)
(* Floats become integers: packet loss and latency are in hundredths, the  *)
(* precision the agent rounds them to before sending; a health score is    *)
(* in units of 0.0001, the four digits round() keeps.  The weighted sum is *)
(* exact in units of 0.000001.  Where round() meets a tie the binary error *)
(* of the float decides, so both neighbours are possible results.          *)
(***************************************************************************)
EXTENDS Integers, Sequences

CONSTANTS
    PacketLossThreshold,  \* PACKET_LOSS_FAILOVER_THRESHOLD, hundredths of %
    SignalThreshold       \* SIGNAL_STRENGTH_FAILOVER_THRESHOLD, %

ASSUME ThresholdAssumption ==
    PacketLossThreshold \in Int /\ SignalThreshold \in Int

HISTORY_WINDOW_SIZE == 5

TotalLoss       == 10000  \* packet_loss = 100.0
CriticalLoss    == 5000   \* packet_loss > 50.0
UnhealthyBelow  == 4000   \* effective_health < 0.4
Perfect         == 10000  \* 1.0

Uplinks == {"5g", "cellular", "satellite", "mesh"}

Telemetry == [uplink : Uplinks, signal_strength : 0 .. 100,
              packet_loss : 0 .. TotalLoss, latency_ms : Nat]

Scores  == 0 .. Perfect
Windows == {h \in Seq(Scores) : Len(h) <= HISTORY_WINDOW_SIZE}

RouteDecision == [current_uplink : Uplinks, recommended_uplink : Uplinks,
                  should_failover : BOOLEAN, confidence_score : Scores]

----------------------------------------------------------------------------
\* The integers round() may make of x / n.
Rounded(x, n) == {(2 * x + n) \div (2 * n), (2 * x + n - 1) \div (2 * n)}

Positive(x) == IF x > 0 THEN x ELSE 0

\* 0.3 * signal + 0.4 * (1 - loss) + 0.3 * max(0, 1 - latency / 500)
Composite(t) ==
    3000 * t.signal_strength + 40 * (TotalLoss - t.packet_loss)
    + Positive(300000 - 6 * t.latency_ms)

\* _compute_health_score: one fixed score per sample, although which one on
\* a tie is not known.  The clamp to [0, 1] has nothing to cut on the ranges
\* TelemetryPayload validates.
HealthScore(t) == CHOOSE s \in Rounded(Composite(t), 100) : TRUE

\* _needs_failover
NeedsFailover(t) ==
    \/ t.packet_loss > PacketLossThreshold
    \/ t.signal_strength < SignalThreshold

\* _select_best_uplink
BestUplink(current) ==
    IF current \in {"5g", "cellular"} THEN "satellite" ELSE "mesh"

\* sum(history); a window has at most HISTORY_WINDOW_SIZE scores.
ScoreAt(h, i) == IF i <= Len(h) THEN h[i] ELSE 0
SumOf(h) == ScoreAt(h, 1) + ScoreAt(h, 2) + ScoreAt(h, 3) + ScoreAt(h, 4)
            + ScoreAt(h, 5)

\* Mutant: the window is not averaged in.
UnsmoothedScores(h, s) == {s}

\* effective_health: the rounded mean of the window and the current score.
EffectiveScores(h, s) ==
    IF h = <<>> THEN {s} ELSE Rounded(SumOf(h) + s, Len(h) + 1)

\* Mutant: a critical loss does not override the average.
AveragedFailover(t, h, effective) ==
    IF h = <<>> THEN NeedsFailover(t) ELSE effective < UnhealthyBelow

\* Mutant: without a window only a critical loss counts.
PatientFailover(t, h, effective) ==
    IF h = <<>>
    THEN t.packet_loss > CriticalLoss
    ELSE effective < UnhealthyBelow \/ t.packet_loss > CriticalLoss

\* should_failover: the thresholds decide on a first sample, the average
\* and the critical loss on every other.
ShouldFailover(t, h, effective) ==
    IF h = <<>>
    THEN NeedsFailover(t)
    ELSE effective < UnhealthyBelow \/ t.packet_loss > CriticalLoss

Decision(t, h, effective) ==
    LET failover == ShouldFailover(t, h, effective) IN
    [current_uplink     |-> t.uplink,
     recommended_uplink |-> IF failover THEN BestUplink(t.uplink) ELSE t.uplink,
     should_failover    |-> failover,
     confidence_score   |-> IF failover THEN Perfect - effective ELSE effective]

\* calculate_optimal_route: the decisions it may return.
OptimalRoutes(t, h) ==
    {Decision(t, h, effective) : effective \in EffectiveScores(h, HealthScore(t))}

\* Mutants: the list is not trimmed; rpush, so that the trim drops the newest.
PushUntrimmed(h, s) == <<s>> \o h
PushLast(h, s) == IF Len(h) < HISTORY_WINDOW_SIZE THEN Append(h, s) ELSE h

\* lpush, ltrim: the newest score first, at most the window.
Push(h, s) ==
    [i \in 1 .. (IF Len(h) < HISTORY_WINDOW_SIZE THEN Len(h) + 1
                 ELSE HISTORY_WINDOW_SIZE)
       |-> IF i = 1 THEN s ELSE h[i - 1]]

=============================================================================
