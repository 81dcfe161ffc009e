------------------------ MODULE RouteHysteresisProofs ------------------------
(***************************************************************************)
(* Proofs about the routing decisions, for any set of samples and any      *)
(* thresholds that satisfy ThresholdsCoherent.                             *)
(*                                                                         *)
(* The leaves name their prover where the obligation holds large numerals, *)
(* which Zenon does not read.                                              *)
(***************************************************************************)
EXTENDS RouteHysteresis, TLAPS

----------------------------------------------------------------------------
(* Arithmetic of the scores. *)

\* round() keeps a quotient within integer bounds, on a tie as well.
LEMMA RoundedBounds ==
    ASSUME NEW n \in {2, 3, 4, 5, 6, 100}, NEW x \in Int,
           NEW lo \in Int, NEW hi \in Int, n * lo <= x, x <= n * hi,
           NEW r \in Rounded(x, n)
    PROVE  r \in Int /\ lo <= r /\ r <= hi
<1>1. CASE n = 2 BY SMT, <1>1 DEF Rounded
<1>2. CASE n = 3 BY SMT, <1>2 DEF Rounded
<1>3. CASE n = 4 BY SMT, <1>3 DEF Rounded
<1>4. CASE n = 5 BY SMT, <1>4 DEF Rounded
<1>5. CASE n = 6 BY SMT, <1>5 DEF Rounded
<1>6. CASE n = 100 BY SMT, <1>6 DEF Rounded
<1> QED BY SMT, <1>1, <1>2, <1>3, <1>4, <1>5, <1>6

\* Scores are the integers from 0 to 10000.
LEMMA ScoresAreInts ==
    ASSUME NEW x \in Scores PROVE x \in Int /\ 0 <= x /\ x <= 10000
BY SMT DEF Scores, Perfect

LEMMA IntsAreScores ==
    ASSUME NEW x \in Int, 0 <= x, x <= 10000 PROVE x \in Scores
BY SMT DEF Scores, Perfect

\* The fields of a sample as numbers.
LEMMA SampleFields ==
    ASSUME NEW t \in Telemetry
    PROVE  /\ t.signal_strength \in Int
           /\ 0 <= t.signal_strength /\ t.signal_strength <= 100
           /\ t.packet_loss \in Int
           /\ 0 <= t.packet_loss /\ t.packet_loss <= TotalLoss
           /\ t.latency_ms \in Int /\ 0 <= t.latency_ms
<1>1. /\ t.signal_strength \in Int
      /\ 0 <= t.signal_strength /\ t.signal_strength <= 100
  BY SMT DEF Telemetry
<1>2. t.packet_loss \in 0 .. TotalLoss
  BY SMT DEF Telemetry
<1>3. TotalLoss \in Int
  BY SMT DEF TotalLoss
<1>4. t.packet_loss \in Int /\ 0 <= t.packet_loss /\ t.packet_loss <= TotalLoss
  BY SMT, <1>2, <1>3
<1>5. t.latency_ms \in Nat
  BY SMT DEF Telemetry
<1>6. t.latency_ms \in Int /\ 0 <= t.latency_ms
  BY SMT, <1>5
<1> QED BY SMT, <1>1, <1>4, <1>6

\* A sample within the thresholds is clear of both and of a critical loss.
LEMMA WithinThresholds ==
    ASSUME NEW t \in Telemetry, ~NeedsFailover(t)
    PROVE  /\ t.packet_loss <= PacketLossThreshold
           /\ t.signal_strength >= SignalThreshold
           /\ t.packet_loss <= CriticalLoss
<1>1. t.signal_strength \in Int /\ t.packet_loss \in Int
  BY SMT, SampleFields
<1>2. PacketLossThreshold \in Int /\ SignalThreshold \in Int
  BY SMT, ThresholdAssumption
<1>3. ~(t.packet_loss > PacketLossThreshold)
  BY Zenon DEF NeedsFailover
<1>4. ~(t.signal_strength < SignalThreshold)
  BY Zenon DEF NeedsFailover
<1>5. PacketLossThreshold <= CriticalLoss /\ CriticalLoss \in Int
  BY SMT, ThresholdsCoherent DEF CriticalLoss
<1> QED BY SMT, <1>1, <1>2, <1>3, <1>4, <1>5

\* The weighted sum of a valid sample.
LEMMA CompositeBounds ==
    ASSUME NEW t \in Telemetry
    PROVE  /\ Composite(t) \in Int
           /\ 0 <= Composite(t) /\ Composite(t) <= 1000000
           /\ ~NeedsFailover(t) => Composite(t) >= 400000
<1>1. PICK s \in Int : s = t.signal_strength /\ 0 <= s /\ s <= 100
  BY SMT, SampleFields
<1>2. PICK p \in Int : p = t.packet_loss /\ 0 <= p /\ p <= 10000
  BY SMT, SampleFields DEF TotalLoss
<1>3. PICK l \in Int : l = t.latency_ms /\ 0 <= l
  BY SMT, SampleFields
<1>4. Composite(t) = 3000 * s + 40 * (10000 - p)
                     + (IF 300000 - 6 * l > 0 THEN 300000 - 6 * l ELSE 0)
  BY SMT, <1>1, <1>2, <1>3 DEF Composite, Positive, TotalLoss
<1>5. Composite(t) \in Int /\ 0 <= Composite(t) /\ Composite(t) <= 1000000
  BY SMT, <1>1, <1>2, <1>3, <1>4
<1>6. ASSUME ~NeedsFailover(t) PROVE Composite(t) >= 400000
  <2>1. p <= PacketLossThreshold /\ s >= SignalThreshold
    BY SMT, <1>1, <1>2, <1>6, WithinThresholds
  <2>2. PacketLossThreshold \in Int /\ SignalThreshold \in Int
    BY SMT, ThresholdAssumption
  <2>3. 3000 * SignalThreshold + 40 * (10000 - PacketLossThreshold) >= 400000
    BY SMT, ThresholdsCoherent DEF UnhealthyBelow, TotalLoss
  <2> QED BY SMT, <1>4, <2>1, <2>2, <2>3
<1> QED BY SMT, <1>5, <1>6

\* A health score is between 0.0 and 1.0, and a sample within the
\* thresholds scores at least 0.4.
LEMMA HealthScoreBounds ==
    ASSUME NEW t \in Telemetry
    PROVE  /\ HealthScore(t) \in Scores
           /\ ~NeedsFailover(t) => HealthScore(t) >= 4000
<1>1. HealthScore(t) \in Rounded(Composite(t), 100)
  BY Zenon DEF HealthScore, Rounded
<1>2. HealthScore(t) \in Int /\ 0 <= HealthScore(t) /\ HealthScore(t) <= 10000
  BY SMT, <1>1, CompositeBounds, RoundedBounds
<1>3. ASSUME ~NeedsFailover(t) PROVE HealthScore(t) >= 4000
  BY SMT, <1>1, <1>3, CompositeBounds, RoundedBounds
<1>4. HealthScore(t) \in Scores
  BY SMT, <1>2, IntsAreScores
<1> QED BY SMT, <1>3, <1>4

----------------------------------------------------------------------------
(* Windows. *)

\* What a window is, as far as the proofs use it.
LEMMA WindowShape ==
    ASSUME NEW h \in Windows
    PROVE  /\ h \in Seq(Scores)
           /\ Len(h) \in Nat /\ Len(h) <= 5
           /\ DOMAIN h = 1 .. Len(h)
           /\ \A i \in 1 .. Len(h) : h[i] \in Scores
<1>1. h \in Seq(Scores) /\ Len(h) <= 5
  BY SMT DEF Windows, HISTORY_WINDOW_SIZE
<1>2. Len(h) \in Nat /\ DOMAIN h = 1 .. Len(h)
  BY SMT, <1>1
<1>3. \A i \in 1 .. Len(h) : h[i] \in Scores
  BY SMT, <1>1, <1>2
<1> QED BY SMT, <1>1, <1>2, <1>3

\* The sum of a window whose scores are between two bounds.
LEMMA SumBounds ==
    ASSUME NEW h \in Windows, NEW lo \in Int, NEW hi \in Int,
           \A i \in 1 .. Len(h) : lo <= h[i] /\ h[i] <= hi
    PROVE  /\ SumOf(h) \in Int
           /\ Len(h) * lo <= SumOf(h) /\ SumOf(h) <= Len(h) * hi
<1>1. Len(h) \in Nat /\ Len(h) <= 5
  BY Zenon, WindowShape
<1>2. \A i \in 1 .. Len(h) : h[i] \in Int
  BY SMT, WindowShape, ScoresAreInts
<1>3. ASSUME NEW i \in 1 .. 5
      PROVE  /\ ScoreAt(h, i) \in Int
             /\ i <= Len(h) => lo <= ScoreAt(h, i) /\ ScoreAt(h, i) <= hi
             /\ ~(i <= Len(h)) => ScoreAt(h, i) = 0
  <2>1. i <= Len(h) => i \in 1 .. Len(h)
    BY SMT, <1>1
  <2> QED BY SMT, <1>2, <2>1 DEF ScoreAt
<1>4. PICK a \in Int, b \in Int, c \in Int, d \in Int, e \in Int :
        /\ a = ScoreAt(h, 1) /\ b = ScoreAt(h, 2) /\ c = ScoreAt(h, 3)
        /\ d = ScoreAt(h, 4) /\ e = ScoreAt(h, 5)
  BY SMT, <1>3
<1>5. SumOf(h) = a + b + c + d + e
  BY SMT, <1>4 DEF SumOf
<1>6. /\ 1 <= Len(h) => lo <= a /\ a <= hi
      /\ ~(1 <= Len(h)) => a = 0
  BY SMT, <1>3, <1>4
<1>7. /\ 2 <= Len(h) => lo <= b /\ b <= hi
      /\ ~(2 <= Len(h)) => b = 0
  BY SMT, <1>3, <1>4
<1>8. /\ 3 <= Len(h) => lo <= c /\ c <= hi
      /\ ~(3 <= Len(h)) => c = 0
  BY SMT, <1>3, <1>4
<1>9. /\ 4 <= Len(h) => lo <= d /\ d <= hi
      /\ ~(4 <= Len(h)) => d = 0
  BY SMT, <1>3, <1>4
<1>10. /\ 5 <= Len(h) => lo <= e /\ e <= hi
       /\ ~(5 <= Len(h)) => e = 0
  BY SMT, <1>3, <1>4
<1>11. \/ Len(h) = 0 \/ Len(h) = 1 \/ Len(h) = 2
       \/ Len(h) = 3 \/ Len(h) = 4 \/ Len(h) = 5
  <2>1. PICK k \in Nat : k = Len(h) /\ k <= 5
    BY Zenon, <1>1
  <2>2. k = 0 \/ k = 1 \/ k = 2 \/ k = 3 \/ k = 4 \/ k = 5
    BY SMT, <2>1
  <2> QED BY Zenon, <2>1, <2>2
<1> QED BY SMT, <1>5, <1>6, <1>7, <1>8, <1>9, <1>10, <1>11

\* The score a decision is based on stays within the bounds of the window
\* and of the current score.
LEMMA EffectiveBounds ==
    ASSUME NEW h \in Windows, NEW s \in Scores,
           NEW lo \in Int, NEW hi \in Int, lo <= s, s <= hi,
           \A i \in 1 .. Len(h) : lo <= h[i] /\ h[i] <= hi,
           NEW e \in EffectiveScores(h, s)
    PROVE  e \in Int /\ lo <= e /\ e <= hi
<1>1. s \in Int
  BY SMT, ScoresAreInts
<1>2. CASE h = <<>>
  BY SMT, <1>1, <1>2 DEF EffectiveScores
<1>3. CASE h # <<>>
  <2>1. Len(h) + 1 \in {2, 3, 4, 5, 6}
    <3>1. Len(h) \in Nat /\ Len(h) <= 5 /\ h \in Seq(Scores)
      BY Zenon, WindowShape
    <3>2. Len(h) # 0
      BY SMT, <1>3, <3>1
    <3> QED BY SMT, <3>1, <3>2
  <2>2. PICK n \in {2, 3, 4, 5, 6} : n = Len(h) + 1
    BY Zenon, <2>1
  <2>sum. /\ SumOf(h) \in Int
          /\ Len(h) * lo <= SumOf(h) /\ SumOf(h) <= Len(h) * hi
    BY Zenon, SumBounds
  <2>3. PICK x \in Int : x = SumOf(h) + s
    BY SMT, <1>1, <2>sum
  <2>4. n * lo <= x /\ x <= n * hi
    <3>0. Len(h) \in Nat
      BY Zenon, WindowShape
    <3>1. PICK k \in Nat : k = Len(h)
      BY Zenon, <3>0
    <3>2. k * lo <= SumOf(h) /\ SumOf(h) <= k * hi /\ SumOf(h) \in Int
      BY Zenon, <2>sum, <3>1
    <3>3. n = k + 1
      BY Zenon, <2>2, <3>1
    <3>4. n = 2 \/ n = 3 \/ n = 4 \/ n = 5 \/ n = 6
      BY Zenon
    <3>5. \/ n = 2 /\ k = 1
          \/ n = 3 /\ k = 2
          \/ n = 4 /\ k = 3
          \/ n = 5 /\ k = 4
          \/ n = 6 /\ k = 5
      BY SMT, <3>3, <3>4
    <3> QED BY SMT, <1>1, <2>3, <3>2, <3>5
  <2>5. e \in Rounded(x, n)
    BY Zenon, <1>3, <2>2, <2>3 DEF EffectiveScores
  <2> QED BY SMT, <2>4, <2>5, RoundedBounds
<1> QED BY Zenon, <1>2, <1>3

\* Pushing a score onto a window.
LEMMA PushWindow ==
    ASSUME NEW h \in Windows, NEW s \in Scores
    PROVE  /\ Push(h, s) \in Windows
           /\ \A i \in DOMAIN Push(h, s) :
                \/ i = 1 /\ Push(h, s)[i] = s
                \/ /\ i \in Int /\ i - 1 \in DOMAIN h
                   /\ Push(h, s)[i] = h[i - 1]
<1> DEFINE len == IF Len(h) < 5 THEN Len(h) + 1 ELSE 5
<1>1. Len(h) \in Nat /\ Len(h) <= 5 /\ DOMAIN h = 1 .. Len(h)
  BY Zenon, WindowShape
<1>2. \A i \in 1 .. Len(h) : h[i] \in Scores
  BY Zenon, WindowShape
<1>3. len \in Nat /\ len <= 5 /\ len <= Len(h) + 1
  BY SMT, <1>1
<1>4. Push(h, s) = [i \in 1 .. len |-> IF i = 1 THEN s ELSE h[i - 1]]
  BY Zenon DEF Push, HISTORY_WINDOW_SIZE
<1> HIDE DEF len
<1>5. ASSUME NEW i \in 1 .. len, i # 1 PROVE i \in Int /\ i - 1 \in 1 .. Len(h)
  BY SMT, <1>1, <1>3, <1>5
<1>6. \A i \in 1 .. len : (IF i = 1 THEN s ELSE h[i - 1]) \in Scores
  BY Zenon, <1>2, <1>5
<1>7. Push(h, s) \in [1 .. len -> Scores]
  BY Zenon, <1>4, <1>6
<1>8. Push(h, s) \in Seq(Scores) /\ Len(Push(h, s)) = len
  BY SMT, <1>3, <1>7
<1>9. Push(h, s) \in Windows
  BY SMT, <1>3, <1>8 DEF Windows, HISTORY_WINDOW_SIZE
<1> QED BY Zenon, <1>1, <1>4, <1>5, <1>9

----------------------------------------------------------------------------
(* Decisions. *)

\* Every decision on a valid sample and window is well formed.
LEMMA DecisionType ==
    ASSUME NEW t \in Telemetry, NEW h \in Windows, NEW d \in OptimalRoutes(t, h)
    PROVE  d \in RouteDecision
<1>1. PICK e \in EffectiveScores(h, HealthScore(t)) : d = Decision(t, h, e)
  BY Zenon DEF OptimalRoutes
<1>2. HealthScore(t) \in Scores
  BY SMT, HealthScoreBounds
<1>3. \A i \in 1 .. Len(h) : 0 <= h[i] /\ h[i] <= 10000
  BY SMT, WindowShape, ScoresAreInts
<1>4. e \in Int /\ 0 <= e /\ e <= 10000
  BY SMT, <1>2, <1>3, EffectiveBounds, ScoresAreInts
<1>5. e \in Scores
  BY SMT, <1>4, IntsAreScores
<1>6. Perfect - e \in Int /\ 0 <= Perfect - e /\ Perfect - e <= 10000
  BY SMT, <1>4 DEF Perfect
<1>7. Perfect - e \in Scores
  BY SMT, <1>6, IntsAreScores
<1>8. t.uplink \in Uplinks
  BY SMT DEF Telemetry
<1>9. BestUplink(t.uplink) \in Uplinks
  BY Zenon DEF BestUplink, Uplinks
<1>10. ShouldFailover(t, h, e) \in BOOLEAN
  BY Zenon DEF ShouldFailover, NeedsFailover
<1> QED BY Zenon, <1>1, <1>5, <1>7, <1>8, <1>9, <1>10
       DEF Decision, RouteDecision

\* A sample within the thresholds on a window of healthy scores never
\* causes a failover.
LEMMA HealthyStays ==
    ASSUME NEW t \in Telemetry, NEW h \in Windows, NEW d \in OptimalRoutes(t, h),
           ~NeedsFailover(t), \A i \in 1 .. Len(h) : UnhealthyBelow <= h[i]
    PROVE  ~d.should_failover
<1>1. PICK e \in EffectiveScores(h, HealthScore(t)) : d = Decision(t, h, e)
  BY Zenon DEF OptimalRoutes
<1>2. HealthScore(t) \in Scores /\ 4000 <= HealthScore(t)
  <2>1. HealthScore(t) \in Scores /\ HealthScore(t) >= 4000
    BY SMT, HealthScoreBounds
  <2> QED BY SMT, <2>1, ScoresAreInts
<1>3. \A i \in 1 .. Len(h) : 4000 <= h[i] /\ h[i] <= 10000
  BY SMT, WindowShape, ScoresAreInts DEF UnhealthyBelow
<1>4. e \in Int /\ 4000 <= e
  BY SMT, <1>2, <1>3, EffectiveBounds, ScoresAreInts
<1>5. ~(e < UnhealthyBelow)
  BY SMT, <1>4 DEF UnhealthyBelow
<1>6. ~(t.packet_loss > CriticalLoss)
  BY SMT, WithinThresholds, SampleFields DEF CriticalLoss
<1>7. ~ShouldFailover(t, h, e)
  BY Zenon, <1>5, <1>6 DEF ShouldFailover
<1> QED BY Zenon, <1>1, <1>7 DEF Decision

\* A sample that scored below 0.4 on a window of such scores, or on an
\* empty one, always causes a failover.
LEMMA UnhealthySwitches ==
    ASSUME NEW t \in Telemetry, NEW h \in Windows, NEW d \in OptimalRoutes(t, h),
           HealthScore(t) < UnhealthyBelow,
           \A i \in 1 .. Len(h) : h[i] < UnhealthyBelow
    PROVE  d.should_failover
<1>1. PICK e \in EffectiveScores(h, HealthScore(t)) : d = Decision(t, h, e)
  BY Zenon DEF OptimalRoutes
<1>2. HealthScore(t) \in Scores /\ 0 <= HealthScore(t) /\ HealthScore(t) <= 3999
  BY SMT, HealthScoreBounds, ScoresAreInts DEF UnhealthyBelow
<1>3. \A i \in 1 .. Len(h) : 0 <= h[i] /\ h[i] <= 3999
  BY SMT, WindowShape, ScoresAreInts DEF UnhealthyBelow
<1>4. e \in Int /\ e <= 3999
  BY SMT, <1>2, <1>3, EffectiveBounds
<1>5. e < UnhealthyBelow
  BY SMT, <1>4 DEF UnhealthyBelow
<1>6. NeedsFailover(t)
  <2>1. HealthScore(t) \in Int /\ (~NeedsFailover(t) => HealthScore(t) >= 4000)
    BY SMT, HealthScoreBounds, ScoresAreInts DEF UnhealthyBelow
  <2> QED BY SMT, <2>1 DEF UnhealthyBelow
<1>7. ShouldFailover(t, h, e)
  BY Zenon, <1>5, <1>6 DEF ShouldFailover
<1> QED BY Zenon, <1>1, <1>7 DEF Decision

\* The answers on a valid sample and window.
LEMMA FailoverType ==
    ASSUME NEW t \in Telemetry, NEW h \in Windows, NEW f \in Failovers(t, h)
    PROVE  f \in BOOLEAN
<1>1. PICK d \in OptimalRoutes(t, h) : f = d.should_failover
  BY Zenon DEF Failovers
<1>2. d \in RouteDecision
  BY Zenon, DecisionType
<1> QED BY SMT, <1>1, <1>2 DEF RouteDecision

LEMMA HealthyAnswer ==
    ASSUME NEW t \in Telemetry, NEW h \in Windows, NEW f \in Failovers(t, h),
           ~NeedsFailover(t), \A i \in 1 .. Len(h) : UnhealthyBelow <= h[i]
    PROVE  ~f
BY Zenon, HealthyStays DEF Failovers

LEMMA UnhealthyAnswer ==
    ASSUME NEW t \in Telemetry, NEW h \in Windows, NEW f \in Failovers(t, h),
           HealthScore(t) < UnhealthyBelow,
           \A i \in 1 .. Len(h) : h[i] < UnhealthyBelow
    PROVE  f
BY Zenon, UnhealthySwitches DEF Failovers

\* A critical loss is beyond the threshold too, so it decides on any window.
LEMMA CriticalAnswer ==
    ASSUME NEW t \in Telemetry, NEW h \in Windows, NEW f \in Failovers(t, h),
           t.packet_loss > CriticalLoss
    PROVE  f
<1>1. PICK e \in EffectiveScores(h, HealthScore(t)) :
        f = Decision(t, h, e).should_failover
  BY Zenon DEF Failovers, OptimalRoutes
<1>2. PacketLossThreshold \in Int /\ PacketLossThreshold <= CriticalLoss
  BY SMT, ThresholdAssumption, ThresholdsCoherent
<1>3. t.packet_loss \in Int /\ CriticalLoss \in Int
  BY SMT, SampleFields DEF CriticalLoss
<1>4. t.packet_loss > PacketLossThreshold
  BY SMT, <1>2, <1>3
<1>5. ShouldFailover(t, h, e)
  BY Zenon, <1>4 DEF ShouldFailover, NeedsFailover
<1> QED BY Zenon, <1>1, <1>5 DEF Decision

----------------------------------------------------------------------------
(* Type correctness. *)

LEMMA InitTyped == Init => TypeOK
<1> SUFFICES ASSUME Init PROVE TypeOK
  OBVIOUS
<1>1. history \in Windows
  BY SMT DEF Init, Windows, HISTORY_WINDOW_SIZE
<1>2. good \in 0 .. RunBound /\ bad \in 0 .. RunBound
      /\ overtaken \in 0 .. MaxOvertaken
  BY SMT, SamplesAssumption DEF Init, RunBound, HISTORY_WINDOW_SIZE
<1> QED BY Zenon, <1>1, <1>2 DEF Init, TypeOK

\* Counting a run keeps it within its bound; one that gets there covered
\* the window before, and all that may have overtaken a request.
LEMMA LongerRun ==
    ASSUME NEW r \in 0 .. RunBound
    PROVE  /\ Longer(r) \in 0 .. RunBound /\ 0 \in 0 .. RunBound
           /\ Longer(r) = RunBound => 5 + MaxOvertaken <= r
           /\ Longer(r) # 0 /\ Longer(r) <= r + 1
BY SMT, SamplesAssumption DEF Longer, RunBound, HISTORY_WINDOW_SIZE

\* The two writes of a sample.
LEMMA SetTyped ==
    ASSUME TypeOK, NEW t \in Samples, SetNode(t)
    PROVE  state' \in Samples /\ good' \in 0 .. RunBound /\ bad' \in 0 .. RunBound
BY Zenon, LongerRun DEF SetNode, TypeOK

LEMMA PushTyped ==
    ASSUME TypeOK, NEW t \in Samples, PushHealth(t)
    PROVE  /\ history' \in Windows /\ behind' \in BOOLEAN
           /\ good' \in 0 .. RunBound /\ bad' \in 0 .. RunBound
<1>1. HealthScore(t) \in Scores
  BY SMT, SamplesAssumption, HealthScoreBounds
<1>2. history' \in Windows
  BY Zenon, <1>1, PushWindow DEF PushHealth, TypeOK
<1> QED BY Zenon, <1>2, LongerRun DEF PushHealth, TypeOK

\* The slow request has ended.
LEMMA EndTyped ==
    ASSUME End
    PROVE  /\ slow' = "none" /\ asked' = NoState /\ decided' \in BOOLEAN
           /\ overtaken' \in 0 .. MaxOvertaken
<1>1. 0 \in 0 .. MaxOvertaken
  BY SMT, SamplesAssumption
<1> QED BY Zenon, <1>1 DEF End

LEMMA NextTyped == TypeOK /\ [Next]_vars => TypeOK'
<1> SUFFICES ASSUME TypeOK, [Next]_vars PROVE TypeOK'
  OBVIOUS
<1> USE DEF TypeOK
<1>0. 0 \in 0 .. MaxOvertaken
  BY SMT, SamplesAssumption
<1>1. ASSUME NEW t \in Samples, Ingest(t) PROVE TypeOK'
  <2>1. state' = t /\ PushHealth(t)
    BY Zenon, <1>1 DEF Ingest
  <2>2. failover' \in BOOLEAN
    BY Zenon, <1>1, SamplesAssumption, FailoverType DEF Ingest
  <2>3. overtaken' \in 0 .. MaxOvertaken
    BY SMT, <1>1, SamplesAssumption DEF Ingest
  <2>4. slow' = slow /\ asked' = asked /\ decided' = decided
    BY Zenon, <1>1 DEF Ingest
  <2> QED BY Zenon, <2>1, <2>2, <2>3, <2>4, PushTyped
<1>2. ASSUME Query PROVE TypeOK'
  <2>1. state \in Samples
    BY Zenon, <1>2 DEF Query
  <2>2. failover' \in BOOLEAN
    BY Zenon, <1>2, <2>1, SamplesAssumption, FailoverType DEF Query
  <2> QED BY Zenon, <1>2, <2>2 DEF Query, waiting, stored
<1>3. ASSUME NEW t \in Samples, Decide(t) PROVE TypeOK'
  <2>1. decided' \in BOOLEAN
    BY Zenon, <1>3, SamplesAssumption, FailoverType DEF Decide
  <2> QED BY Zenon, <1>0, <1>3, <2>1 DEF Decide, Begin, stored
<1>4. ASSUME SetLate PROVE TypeOK'
  <2>1. asked \in Samples /\ SetNode(asked)
    BY Zenon, <1>4 DEF SetLate
  <2> QED BY Zenon, <1>4, <2>1, SetTyped DEF SetLate
<1>5. ASSUME PushLate PROVE TypeOK'
  <2>1. asked \in Samples /\ PushHealth(asked) /\ End /\ failover' \in BOOLEAN
    BY Zenon, <1>5 DEF PushLate
  <2> QED BY Zenon, <1>5, <2>1, PushTyped, EndTyped DEF PushLate
<1>6. ASSUME ReadState PROVE TypeOK'
  BY Zenon, <1>0, <1>6 DEF ReadState, Begin, stored
<1>7. ASSUME QueryLate PROVE TypeOK'
  <2>1. asked \in Samples /\ End
    BY Zenon, <1>7 DEF QueryLate
  <2>2. failover' \in BOOLEAN
    BY Zenon, <1>7, <2>1, SamplesAssumption, FailoverType DEF QueryLate
  <2> QED BY Zenon, <1>7, <2>1, <2>2, EndTyped DEF QueryLate, stored
<1>8. ASSUME Fail PROVE TypeOK'
  BY Zenon, <1>8, EndTyped DEF Fail, stored
<1>9. CASE ExpireState
  BY Zenon, <1>9 DEF ExpireState, waiting
<1>10. ASSUME ExpireHistory PROVE TypeOK'
  <2>1. history' \in Windows
    BY SMT, <1>10 DEF ExpireHistory, Windows, HISTORY_WINDOW_SIZE
  <2> QED BY Zenon, <1>10, <2>1 DEF ExpireHistory, waiting
<1>11. CASE UNCHANGED vars
  BY Zenon, <1>11 DEF vars, stored, waiting
<1> QED BY Zenon, <1>1, <1>2, <1>3, <1>4, <1>5, <1>6, <1>7, <1>8, <1>9, <1>10,
           <1>11
       DEF Next

\* Every reachable state has the types the module declares, whatever the
\* samples: the window never holds more than its size, every score in it is
\* between 0 and 1, and a slow request keeps the sample it is about.
THEOREM TypeCorrect == Spec => []TypeOK
<1>1. Init => TypeOK
  BY Zenon, InitTyped
<1>2. TypeOK /\ [Next]_vars => TypeOK'
  BY Zenon, NextTyped
<1> QED BY <1>1, <1>2, PTL DEF Spec

----------------------------------------------------------------------------
(* A link that recovered is left alone. *)

\* What a run of samples within the thresholds leaves behind: the newest
\* scores of the window, as many as the run is long, are healthy.  The
\* stored sample, when there is one, belongs to a run of two: to a run of
\* one it need not, when the late score of a POST follows a state that
\* replaced its own; while such a POST is still to push, one is enough.
\* The sample a slow GET read belongs to the run as well, if that is longer
\* by the overtaking ones, and a slow POST decided on a window the run
\* covered, if it covers those too.
GoodRun ==
    /\ good > 1 /\ state # NoState => ~NeedsFailover(state)
    /\ slow = "push" /\ good > 0 /\ state # NoState => ~NeedsFailover(state)
    /\ \A i \in 1 .. Len(history) : i <= good => UnhealthyBelow <= history[i]
    /\ RecoveredLinkStays
    /\ slow = "read" /\ overtaken + 1 < good => ~NeedsFailover(asked)
    /\ slow \in {"set", "push"} /\ ~NeedsFailover(asked) /\ 5 + overtaken <= good => ~decided

\* A run of at least five covers the whole window.
LEMMA FullGoodRun ==
    ASSUME TypeOK, GoodRun, 5 <= good
    PROVE  \A i \in 1 .. Len(history) : UnhealthyBelow <= history[i]
<1>1. history \in Windows
  BY Zenon DEF TypeOK
<1>2. \A i \in 1 .. Len(history) : i <= 5
  BY SMT, <1>1, WindowShape
<1>3. good \in Int
  BY SMT DEF TypeOK
<1>4. \A i \in 1 .. Len(history) : i <= good
  BY SMT, <1>2, <1>3
<1> QED BY Zenon, <1>4 DEF GoodRun

\* Pushing a score keeps what the run says of the window.
LEMMA GoodRunPush ==
    ASSUME TypeOK, GoodRun, NEW t \in Samples, PushHealth(t)
    PROVE  /\ \A i \in 1 .. Len(history') : i <= good' => UnhealthyBelow <= history'[i]
           /\ good' = RunBound => ~NeedsFailover(t) /\ 5 + MaxOvertaken <= good
           /\ good \in Int /\ good' \in Int /\ (good' = 0 \/ good' <= good + 1)
           /\ good' # 0 => ~NeedsFailover(t)
<1>0. history \in Windows /\ good \in 0 .. RunBound
  BY Zenon DEF TypeOK
<1>1. t \in Telemetry /\ t # NoState
  BY Zenon, SamplesAssumption
<1>2. HealthScore(t) \in Scores
  BY SMT, <1>1, HealthScoreBounds
<1>3. CASE NeedsFailover(t)
  <2>1. good' = 0
    BY Zenon, <1>3 DEF PushHealth
  <2>2. RunBound # 0 /\ 0 \in Int /\ good \in Int
    BY SMT, <1>0, SamplesAssumption DEF RunBound, HISTORY_WINDOW_SIZE
  <2>3. \A i \in 1 .. Len(history') : ~(i <= good')
    BY SMT, <2>1
  <2> QED BY Zenon, <2>1, <2>2, <2>3
<1>4. CASE ~NeedsFailover(t)
  <2>1. good' = Longer(good)
    BY Zenon, <1>4 DEF PushHealth
  <2>2. good \in Int /\ good' <= good + 1 /\ good' \in Int
    BY SMT, <1>0, <2>1, LongerRun, SamplesAssumption
       DEF RunBound, HISTORY_WINDOW_SIZE
  <2>3. ASSUME NEW i \in 1 .. Len(history'), i <= good'
        PROVE  UnhealthyBelow <= history'[i]
    <3>1. UnhealthyBelow <= HealthScore(t)
      BY SMT, <1>1, <1>2, <1>4, HealthScoreBounds, ScoresAreInts
         DEF UnhealthyBelow
    <3>2. history' = Push(history, HealthScore(t))
      BY Zenon DEF PushHealth
    <3>3. DOMAIN history' = 1 .. Len(history')
      BY Zenon, <1>0, <1>2, <3>2, PushWindow, WindowShape
    <3>4. \/ history'[i] = HealthScore(t)
          \/ /\ i \in Int /\ i - 1 \in DOMAIN history
             /\ history'[i] = history[i - 1]
      BY Zenon, <1>0, <1>2, <3>2, <3>3, PushWindow
    <3>5. i \in Int => i - 1 <= good
      BY SMT, <2>2, <2>3
    <3>6. DOMAIN history = 1 .. Len(history)
      BY Zenon, <1>0, WindowShape
    <3> QED BY Zenon, <3>1, <3>4, <3>5, <3>6 DEF GoodRun
  <2> QED BY Zenon, <1>0, <1>4, <2>1, <2>2, <2>3, LongerRun
<1> QED BY Zenon, <1>3, <1>4

LEMMA GoodRunStep == TypeOK /\ GoodRun /\ [Next]_vars => GoodRun'
<1> SUFFICES ASSUME TypeOK, GoodRun, [Next]_vars PROVE GoodRun'
  OBVIOUS
<1>0. /\ history \in Windows /\ good \in Int /\ overtaken \in Int
      /\ overtaken <= MaxOvertaken /\ MaxOvertaken \in Int
  <2>1. history \in Windows /\ good \in 0 .. RunBound /\ overtaken \in 0 .. MaxOvertaken
    BY Zenon DEF TypeOK
  <2> QED BY SMT, <2>1, SamplesAssumption DEF RunBound, HISTORY_WINDOW_SIZE
\* A run that has reached its bound covers a window and every overtaking.
<1>full. good = RunBound => 5 <= good /\ good > 1 /\ overtaken + 1 < good
  BY SMT, <1>0, SamplesAssumption DEF RunBound, HISTORY_WINDOW_SIZE
<1>1. ASSUME NEW t \in Samples, Ingest(t) PROVE GoodRun'
  <2>1. state' = t /\ PushHealth(t)
    BY Zenon, <1>1 DEF Ingest
  <2>2. /\ \A i \in 1 .. Len(history') : i <= good' => UnhealthyBelow <= history'[i]
        /\ good' = RunBound => ~NeedsFailover(t) /\ 5 + MaxOvertaken <= good
        /\ good' \in Int /\ (good' = 0 \/ good' <= good + 1)
        /\ good' # 0 => ~NeedsFailover(t)
    BY Zenon, <2>1, GoodRunPush
  <2>3. ASSUME good' = RunBound PROVE ~failover'
    <3>1. ~NeedsFailover(t) /\ 5 <= good
      BY SMT, <1>0, <2>2, <2>3, SamplesAssumption
    <3>2. failover' \in Failovers(t, history) /\ t \in Telemetry
      BY Zenon, <1>1, SamplesAssumption DEF Ingest
    <3> QED BY Zenon, <1>0, <3>1, <3>2, FullGoodRun, HealthyAnswer
  <2>4. slow' = slow /\ asked' = asked /\ decided' = decided
    BY Zenon, <1>1 DEF Ingest
  <2>5. slow # "none" => overtaken' = overtaken + 1
    BY Zenon, <1>1 DEF Ingest
  <2>6. slow # "none" => overtaken \in Nat
    BY SMT DEF TypeOK
  <2>7. slow # "none" /\ overtaken' + 1 < good' => overtaken + 1 < good
    BY SMT, <1>0, <2>2, <2>5, <2>6
  <2>8. slow # "none" /\ 5 + overtaken' <= good' => 5 + overtaken <= good
    BY SMT, <1>0, <2>2, <2>5, <2>6
  <2>9. good' > 1 \/ good' > 0 => good' # 0
    BY SMT
  <2>10. good' # 0 => ~NeedsFailover(state')
    BY Zenon, <2>1, <2>2
  <2> QED BY Zenon, <2>2, <2>3, <2>4, <2>7, <2>8, <2>9, <2>10 DEF GoodRun, RecoveredLinkStays
<1>2. ASSUME Query PROVE GoodRun'
  <2>1. state \in Telemetry /\ state # NoState
    BY Zenon, <1>2, SamplesAssumption DEF Query, TypeOK
  <2>2. ASSUME good = RunBound PROVE ~failover'
    <3>1. failover' \in Failovers(state, history) /\ ~NeedsFailover(state)
      BY Zenon, <1>2, <1>full, <2>1, <2>2 DEF Query, GoodRun
    <3> QED BY Zenon, <1>0, <1>full, <2>1, <2>2, <3>1, FullGoodRun, HealthyAnswer
  <2> QED BY Zenon, <1>2, <2>2 DEF Query, stored, waiting, GoodRun, RecoveredLinkStays
<1>3. ASSUME NEW t \in Samples, Decide(t) PROVE GoodRun'
  <2>1. ASSUME ~NeedsFailover(t), 5 + overtaken' <= good PROVE ~decided'
    <3>1. overtaken' = 0 /\ decided' \in Failovers(t, history) /\ t \in Telemetry
      BY Zenon, <1>3, SamplesAssumption DEF Decide, Begin
    <3>2. 5 <= good
      BY SMT, <1>0, <2>1, <3>1
    <3> QED BY Zenon, <1>0, <2>1, <3>1, <3>2, FullGoodRun, HealthyAnswer
  <2> QED BY Zenon, <1>3, <2>1 DEF Decide, Begin, stored, GoodRun, RecoveredLinkStays
<1>4. ASSUME SetLate PROVE GoodRun'
  <2>1. /\ slow = "set" /\ slow' = "push" /\ state' = asked /\ SetNode(asked)
        /\ UNCHANGED <<history, asked, decided, overtaken, failover>>
    BY Zenon, <1>4 DEF SetLate, SetNode
  <2>2. CASE ~NeedsFailover(asked)
    <3>1. good' = good
      BY Zenon, <2>1, <2>2 DEF SetNode
    <3> QED BY Zenon, <2>1, <2>2, <3>1 DEF GoodRun, RecoveredLinkStays
  <2>3. CASE ~(~NeedsFailover(asked))
    <3>1. good' = 0
      BY Zenon, <2>1, <2>3 DEF SetNode
    <3>2. /\ ~(good' > 0) /\ ~(good' > 1) /\ good' # RunBound
          /\ \A i \in 1 .. Len(history) : ~(i <= good')
      BY SMT, <1>0, <3>1, SamplesAssumption DEF RunBound, HISTORY_WINDOW_SIZE
    <3> QED BY Zenon, <2>1, <2>3, <3>2 DEF GoodRun, RecoveredLinkStays
  <2> QED BY Zenon, <2>2, <2>3
<1>5. ASSUME PushLate PROVE GoodRun'
  <2>1. slow = "push" /\ asked \in Samples /\ PushHealth(asked) /\ End /\ state' = state
    BY Zenon, <1>5 DEF PushLate, TypeOK
  <2>2. /\ \A i \in 1 .. Len(history') : i <= good' => UnhealthyBelow <= history'[i]
        /\ good' = RunBound => ~NeedsFailover(asked) /\ 5 + MaxOvertaken <= good
        /\ good' \in Int /\ (good' = 0 \/ good' <= good + 1)
    BY Zenon, <2>1, GoodRunPush
  <2>3. 5 + MaxOvertaken <= good => 5 + overtaken <= good
    BY SMT, <1>0
  <2>4. good' = RunBound => ~failover'
    BY Zenon, <1>5, <2>1, <2>2, <2>3 DEF PushLate, GoodRun
  <2>5. good' > 1 => good > 0
    BY SMT, <1>0, <2>2
  <2> QED BY Zenon, <2>1, <2>2, <2>4, <2>5, EndTyped DEF GoodRun, RecoveredLinkStays
<1>6. ASSUME ReadState PROVE GoodRun'
  <2>1. overtaken' + 1 < good => good > 1
    BY SMT, <1>0, <1>6 DEF ReadState, Begin
  <2> QED BY Zenon, <1>6, <2>1 DEF ReadState, Begin, stored, GoodRun, RecoveredLinkStays
<1>7. ASSUME QueryLate PROVE GoodRun'
  <2>1. asked \in Telemetry /\ failover' \in Failovers(asked, history)
    BY Zenon, <1>7, SamplesAssumption DEF QueryLate, TypeOK
  <2>2. ASSUME good = RunBound PROVE ~failover'
    <3>1. ~NeedsFailover(asked)
      BY Zenon, <1>7, <1>full, <2>2 DEF QueryLate, GoodRun
    <3> QED BY Zenon, <1>0, <1>full, <2>1, <2>2, <3>1, FullGoodRun, HealthyAnswer
  <2>3. slow' = "none"
    BY Zenon, <1>7, EndTyped DEF QueryLate
  <2> QED BY Zenon, <1>7, <2>2, <2>3 DEF QueryLate, stored, GoodRun, RecoveredLinkStays
<1>8. CASE Fail
  BY Zenon, <1>8, EndTyped DEF Fail, stored, GoodRun, RecoveredLinkStays
<1>9. CASE ExpireState
  BY Zenon, <1>9 DEF ExpireState, waiting, GoodRun, RecoveredLinkStays
<1>10. ASSUME ExpireHistory PROVE GoodRun'
  <2>1. \A i \in 1 .. Len(history') : FALSE
    BY SMT, <1>10 DEF ExpireHistory
  <2> QED BY Zenon, <1>10, <2>1 DEF ExpireHistory, waiting, GoodRun, RecoveredLinkStays
<1>11. CASE UNCHANGED vars
  BY Zenon, <1>11 DEF vars, stored, waiting, GoodRun, RecoveredLinkStays
<1> QED BY Zenon, <1>1, <1>2, <1>3, <1>4, <1>5, <1>6, <1>7, <1>8, <1>9, <1>10,
           <1>11
       DEF Next

\* After one window, the overtaking samples and one more within the
\* thresholds no answer, late ones included, asks for a failover, for any
\* samples and any coherent thresholds.
THEOREM RecoveredLinkIsLeftAlone == Spec => []RecoveredLinkStays
<1>1. Init => GoodRun
  <2> SUFFICES ASSUME Init PROVE GoodRun
    OBVIOUS
  <2>1. good = 0 /\ RunBound # 0
    BY SMT, SamplesAssumption DEF Init, RunBound, HISTORY_WINDOW_SIZE
  <2>2. \A i \in 1 .. Len(history) : FALSE
    BY SMT DEF Init
  <2> QED BY Zenon, <2>1, <2>2 DEF Init, GoodRun, RecoveredLinkStays
<1>2. TypeOK /\ GoodRun /\ [Next]_vars => GoodRun'
  BY Zenon, GoodRunStep
<1>3. GoodRun => RecoveredLinkStays
  BY Zenon DEF GoodRun
<1>4. Spec => []TypeOK
  BY Zenon, TypeCorrect
<1> QED BY <1>1, <1>2, <1>3, <1>4, PTL DEF Spec

----------------------------------------------------------------------------
(* An unhealthy link is left. *)

\* What a run of samples below 0.4 leaves behind, as GoodRun.
BadRun ==
    /\ bad > 1 /\ state # NoState => HealthScore(state) < UnhealthyBelow
    /\ slow = "push" /\ bad > 0 /\ state # NoState => HealthScore(state) < UnhealthyBelow
    /\ \A i \in 1 .. Len(history) : i <= bad => history[i] < UnhealthyBelow
    /\ UnhealthyLinkSwitches
    /\ slow = "read" /\ overtaken + 1 < bad => HealthScore(asked) < UnhealthyBelow
    /\ slow \in {"set", "push"} /\ HealthScore(asked) < UnhealthyBelow /\ 5 + overtaken <= bad
         => decided

\* A run of at least five covers the whole window.
LEMMA FullBadRun ==
    ASSUME TypeOK, BadRun, 5 <= bad
    PROVE  \A i \in 1 .. Len(history) : history[i] < UnhealthyBelow
<1>1. history \in Windows
  BY Zenon DEF TypeOK
<1>2. \A i \in 1 .. Len(history) : i <= 5
  BY SMT, <1>1, WindowShape
<1>3. bad \in Int
  BY SMT DEF TypeOK
<1>4. \A i \in 1 .. Len(history) : i <= bad
  BY SMT, <1>2, <1>3
<1> QED BY Zenon, <1>4 DEF BadRun

\* Pushing a score keeps what the run says of the window.
LEMMA BadRunPush ==
    ASSUME TypeOK, BadRun, NEW t \in Samples, PushHealth(t)
    PROVE  /\ \A i \in 1 .. Len(history') : i <= bad' => history'[i] < UnhealthyBelow
           /\ bad' = RunBound => HealthScore(t) < UnhealthyBelow /\ 5 + MaxOvertaken <= bad
           /\ bad \in Int /\ bad' \in Int /\ (bad' = 0 \/ bad' <= bad + 1)
           /\ bad' # 0 => HealthScore(t) < UnhealthyBelow
<1>0. history \in Windows /\ bad \in 0 .. RunBound
  BY Zenon DEF TypeOK
<1>1. t \in Telemetry /\ t # NoState
  BY Zenon, SamplesAssumption
<1>2. HealthScore(t) \in Scores
  BY SMT, <1>1, HealthScoreBounds
<1>3. CASE ~(HealthScore(t) < UnhealthyBelow)
  <2>1. bad' = 0
    BY Zenon, <1>3 DEF PushHealth
  <2>2. RunBound # 0 /\ 0 \in Int /\ bad \in Int
    BY SMT, <1>0, SamplesAssumption DEF RunBound, HISTORY_WINDOW_SIZE
  <2>3. \A i \in 1 .. Len(history') : ~(i <= bad')
    BY SMT, <2>1
  <2> QED BY Zenon, <2>1, <2>2, <2>3
<1>4. CASE HealthScore(t) < UnhealthyBelow
  <2>1. bad' = Longer(bad)
    BY Zenon, <1>4 DEF PushHealth
  <2>2. bad \in Int /\ bad' <= bad + 1 /\ bad' \in Int
    BY SMT, <1>0, <2>1, LongerRun, SamplesAssumption
       DEF RunBound, HISTORY_WINDOW_SIZE
  <2>3. ASSUME NEW i \in 1 .. Len(history'), i <= bad'
        PROVE  history'[i] < UnhealthyBelow
    <3>1. HealthScore(t) < UnhealthyBelow
      BY Zenon, <1>4
    <3>2. history' = Push(history, HealthScore(t))
      BY Zenon DEF PushHealth
    <3>3. DOMAIN history' = 1 .. Len(history')
      BY Zenon, <1>0, <1>2, <3>2, PushWindow, WindowShape
    <3>4. \/ history'[i] = HealthScore(t)
          \/ /\ i \in Int /\ i - 1 \in DOMAIN history
             /\ history'[i] = history[i - 1]
      BY Zenon, <1>0, <1>2, <3>2, <3>3, PushWindow
    <3>5. i \in Int => i - 1 <= bad
      BY SMT, <2>2, <2>3
    <3>6. DOMAIN history = 1 .. Len(history)
      BY Zenon, <1>0, WindowShape
    <3> QED BY Zenon, <3>1, <3>4, <3>5, <3>6 DEF BadRun
  <2> QED BY Zenon, <1>0, <1>4, <2>1, <2>2, <2>3, LongerRun
<1> QED BY Zenon, <1>3, <1>4

LEMMA BadRunStep == TypeOK /\ BadRun /\ [Next]_vars => BadRun'
<1> SUFFICES ASSUME TypeOK, BadRun, [Next]_vars PROVE BadRun'
  OBVIOUS
<1>0. /\ history \in Windows /\ bad \in Int /\ overtaken \in Int
      /\ overtaken <= MaxOvertaken /\ MaxOvertaken \in Int
  <2>1. history \in Windows /\ bad \in 0 .. RunBound /\ overtaken \in 0 .. MaxOvertaken
    BY Zenon DEF TypeOK
  <2> QED BY SMT, <2>1, SamplesAssumption DEF RunBound, HISTORY_WINDOW_SIZE
\* A run that has reached its bound covers a window and every overtaking.
<1>full. bad = RunBound => 5 <= bad /\ bad > 1 /\ overtaken + 1 < bad
  BY SMT, <1>0, SamplesAssumption DEF RunBound, HISTORY_WINDOW_SIZE
<1>1. ASSUME NEW t \in Samples, Ingest(t) PROVE BadRun'
  <2>1. state' = t /\ PushHealth(t)
    BY Zenon, <1>1 DEF Ingest
  <2>2. /\ \A i \in 1 .. Len(history') : i <= bad' => history'[i] < UnhealthyBelow
        /\ bad' = RunBound => HealthScore(t) < UnhealthyBelow /\ 5 + MaxOvertaken <= bad
        /\ bad' \in Int /\ (bad' = 0 \/ bad' <= bad + 1)
        /\ bad' # 0 => HealthScore(t) < UnhealthyBelow
    BY Zenon, <2>1, BadRunPush
  <2>3. ASSUME bad' = RunBound PROVE failover'
    <3>1. HealthScore(t) < UnhealthyBelow /\ 5 <= bad
      BY SMT, <1>0, <2>2, <2>3, SamplesAssumption
    <3>2. failover' \in Failovers(t, history) /\ t \in Telemetry
      BY Zenon, <1>1, SamplesAssumption DEF Ingest
    <3> QED BY Zenon, <1>0, <3>1, <3>2, FullBadRun, UnhealthyAnswer
  <2>4. slow' = slow /\ asked' = asked /\ decided' = decided
    BY Zenon, <1>1 DEF Ingest
  <2>5. slow # "none" => overtaken' = overtaken + 1
    BY Zenon, <1>1 DEF Ingest
  <2>6. slow # "none" => overtaken \in Nat
    BY SMT DEF TypeOK
  <2>7. slow # "none" /\ overtaken' + 1 < bad' => overtaken + 1 < bad
    BY SMT, <1>0, <2>2, <2>5, <2>6
  <2>8. slow # "none" /\ 5 + overtaken' <= bad' => 5 + overtaken <= bad
    BY SMT, <1>0, <2>2, <2>5, <2>6
  <2>9. bad' > 1 \/ bad' > 0 => bad' # 0
    BY SMT
  <2>10. bad' # 0 => HealthScore(state') < UnhealthyBelow
    BY Zenon, <2>1, <2>2
  <2> QED BY Zenon, <2>2, <2>3, <2>4, <2>7, <2>8, <2>9, <2>10 DEF BadRun, UnhealthyLinkSwitches
<1>2. ASSUME Query PROVE BadRun'
  <2>1. state \in Telemetry /\ state # NoState
    BY Zenon, <1>2, SamplesAssumption DEF Query, TypeOK
  <2>2. ASSUME bad = RunBound PROVE failover'
    <3>1. failover' \in Failovers(state, history) /\ HealthScore(state) < UnhealthyBelow
      BY Zenon, <1>2, <1>full, <2>1, <2>2 DEF Query, BadRun
    <3> QED BY Zenon, <1>0, <1>full, <2>1, <2>2, <3>1, FullBadRun, UnhealthyAnswer
  <2> QED BY Zenon, <1>2, <2>2 DEF Query, stored, waiting, BadRun, UnhealthyLinkSwitches
<1>3. ASSUME NEW t \in Samples, Decide(t) PROVE BadRun'
  <2>1. ASSUME HealthScore(t) < UnhealthyBelow, 5 + overtaken' <= bad PROVE decided'
    <3>1. overtaken' = 0 /\ decided' \in Failovers(t, history) /\ t \in Telemetry
      BY Zenon, <1>3, SamplesAssumption DEF Decide, Begin
    <3>2. 5 <= bad
      BY SMT, <1>0, <2>1, <3>1
    <3> QED BY Zenon, <1>0, <2>1, <3>1, <3>2, FullBadRun, UnhealthyAnswer
  <2> QED BY Zenon, <1>3, <2>1 DEF Decide, Begin, stored, BadRun, UnhealthyLinkSwitches
<1>4. ASSUME SetLate PROVE BadRun'
  <2>1. /\ slow = "set" /\ slow' = "push" /\ state' = asked /\ SetNode(asked)
        /\ UNCHANGED <<history, asked, decided, overtaken, failover>>
    BY Zenon, <1>4 DEF SetLate, SetNode
  <2>2. CASE HealthScore(asked) < UnhealthyBelow
    <3>1. bad' = bad
      BY Zenon, <2>1, <2>2 DEF SetNode
    <3> QED BY Zenon, <2>1, <2>2, <3>1 DEF BadRun, UnhealthyLinkSwitches
  <2>3. CASE ~(HealthScore(asked) < UnhealthyBelow)
    <3>1. bad' = 0
      BY Zenon, <2>1, <2>3 DEF SetNode
    <3>2. /\ ~(bad' > 0) /\ ~(bad' > 1) /\ bad' # RunBound
          /\ \A i \in 1 .. Len(history) : ~(i <= bad')
      BY SMT, <1>0, <3>1, SamplesAssumption DEF RunBound, HISTORY_WINDOW_SIZE
    <3> QED BY Zenon, <2>1, <2>3, <3>2 DEF BadRun, UnhealthyLinkSwitches
  <2> QED BY Zenon, <2>2, <2>3
<1>5. ASSUME PushLate PROVE BadRun'
  <2>1. slow = "push" /\ asked \in Samples /\ PushHealth(asked) /\ End /\ state' = state
    BY Zenon, <1>5 DEF PushLate, TypeOK
  <2>2. /\ \A i \in 1 .. Len(history') : i <= bad' => history'[i] < UnhealthyBelow
        /\ bad' = RunBound => HealthScore(asked) < UnhealthyBelow /\ 5 + MaxOvertaken <= bad
        /\ bad' \in Int /\ (bad' = 0 \/ bad' <= bad + 1)
    BY Zenon, <2>1, BadRunPush
  <2>3. 5 + MaxOvertaken <= bad => 5 + overtaken <= bad
    BY SMT, <1>0
  <2>4. bad' = RunBound => failover'
    BY Zenon, <1>5, <2>1, <2>2, <2>3 DEF PushLate, BadRun
  <2>5. bad' > 1 => bad > 0
    BY SMT, <1>0, <2>2
  <2> QED BY Zenon, <2>1, <2>2, <2>4, <2>5, EndTyped DEF BadRun, UnhealthyLinkSwitches
<1>6. ASSUME ReadState PROVE BadRun'
  <2>1. overtaken' + 1 < bad => bad > 1
    BY SMT, <1>0, <1>6 DEF ReadState, Begin
  <2> QED BY Zenon, <1>6, <2>1 DEF ReadState, Begin, stored, BadRun, UnhealthyLinkSwitches
<1>7. ASSUME QueryLate PROVE BadRun'
  <2>1. asked \in Telemetry /\ failover' \in Failovers(asked, history)
    BY Zenon, <1>7, SamplesAssumption DEF QueryLate, TypeOK
  <2>2. ASSUME bad = RunBound PROVE failover'
    <3>1. HealthScore(asked) < UnhealthyBelow
      BY Zenon, <1>7, <1>full, <2>2 DEF QueryLate, BadRun
    <3> QED BY Zenon, <1>0, <1>full, <2>1, <2>2, <3>1, FullBadRun, UnhealthyAnswer
  <2>3. slow' = "none"
    BY Zenon, <1>7, EndTyped DEF QueryLate
  <2> QED BY Zenon, <1>7, <2>2, <2>3 DEF QueryLate, stored, BadRun, UnhealthyLinkSwitches
<1>8. CASE Fail
  BY Zenon, <1>8, EndTyped DEF Fail, stored, BadRun, UnhealthyLinkSwitches
<1>9. CASE ExpireState
  BY Zenon, <1>9 DEF ExpireState, waiting, BadRun, UnhealthyLinkSwitches
<1>10. ASSUME ExpireHistory PROVE BadRun'
  <2>1. \A i \in 1 .. Len(history') : FALSE
    BY SMT, <1>10 DEF ExpireHistory
  <2> QED BY Zenon, <1>10, <2>1 DEF ExpireHistory, waiting, BadRun, UnhealthyLinkSwitches
<1>11. CASE UNCHANGED vars
  BY Zenon, <1>11 DEF vars, stored, waiting, BadRun, UnhealthyLinkSwitches
<1> QED BY Zenon, <1>1, <1>2, <1>3, <1>4, <1>5, <1>6, <1>7, <1>8, <1>9, <1>10,
           <1>11
       DEF Next

\* After one window, the overtaking samples and one more that scored below
\* 0.4 every answer, late ones included, asks for a failover, for any
\* samples and any coherent thresholds.
THEOREM UnhealthyLinkIsLeft == Spec => []UnhealthyLinkSwitches
<1>1. Init => BadRun
  <2> SUFFICES ASSUME Init PROVE BadRun
    OBVIOUS
  <2>1. bad = 0 /\ RunBound # 0
    BY SMT, SamplesAssumption DEF Init, RunBound, HISTORY_WINDOW_SIZE
  <2>2. \A i \in 1 .. Len(history) : FALSE
    BY SMT DEF Init
  <2> QED BY Zenon, <2>1, <2>2 DEF Init, BadRun, UnhealthyLinkSwitches
<1>2. TypeOK /\ BadRun /\ [Next]_vars => BadRun'
  BY Zenon, BadRunStep
<1>3. BadRun => UnhealthyLinkSwitches
  BY Zenon DEF BadRun
<1>4. Spec => []TypeOK
  BY Zenon, TypeCorrect
<1> QED BY <1>1, <1>2, <1>3, <1>4, PTL DEF Spec

----------------------------------------------------------------------------
(* Single steps: hysteresis and critical loss. *)

\* The mean of at least one score of 0.6 and one of 0.2 is at least 0.4.
LEMMA DipBounds ==
    ASSUME NEW h \in Windows, h # <<>>, NEW s \in Scores,
           NEW e \in EffectiveScores(h, s)
    PROVE  2000 <= s /\ (\A i \in 1 .. Len(h) : 6000 <= h[i])
             => e \in Int /\ 4000 <= e
<1>sum. ASSUME NEW lo \in Int, NEW hi \in Int,
             \A i \in 1 .. Len(h) : lo <= h[i] /\ h[i] <= hi
      PROVE  /\ SumOf(h) \in Int
             /\ Len(h) * lo <= SumOf(h) /\ SumOf(h) <= Len(h) * hi
  BY Zenon, <1>sum, SumBounds
<1>hyp. SUFFICES ASSUME 2000 <= s, \A i \in 1 .. Len(h) : 6000 <= h[i]
               PROVE  e \in Int /\ 4000 <= e
  BY SMT
<1>1. s \in Int /\ s <= 10000
  BY SMT, ScoresAreInts
<1>2. /\ SumOf(h) \in Int
      /\ Len(h) * 6000 <= SumOf(h) /\ SumOf(h) <= Len(h) * 10000
  <2>1. PICK lo \in Int, hi \in Int : lo = 6000 /\ hi = 10000
    BY SMT
  <2>2. \A i \in 1 .. Len(h) : lo <= h[i] /\ h[i] <= hi
    BY SMT, <1>hyp, <2>1, WindowShape, ScoresAreInts
  <2>3. /\ SumOf(h) \in Int
        /\ Len(h) * lo <= SumOf(h) /\ SumOf(h) <= Len(h) * hi
    BY Zenon, <1>sum, <2>2
  <2> QED BY SMT, <2>1, <2>3
<1>3. SumOf(h) \in Int
  BY SMT, <1>2
<1>4. Len(h) \in Nat /\ Len(h) <= 5 /\ h \in Seq(Scores)
  BY SMT, WindowShape
<1>5. Len(h) # 0
  BY SMT, <1>4
<1>6. PICK k \in Nat : k = Len(h) /\ 1 <= k /\ k <= 5
  BY SMT, <1>4, <1>5
<1>7. PICK n \in {2, 3, 4, 5, 6} : n = k + 1
  BY SMT, <1>6
<1>8. PICK x \in Int : x = SumOf(h) + s
  BY SMT, <1>1, <1>3
<1>9. k * 6000 <= SumOf(h) /\ SumOf(h) <= k * 10000
  BY SMT, <1>2, <1>6
<1>10. n * 4000 <= x /\ x <= n * 10000
  BY SMT, <1>hyp, <1>1, <1>3, <1>6, <1>7, <1>8, <1>9
<1>11. e \in Rounded(x, n)
  BY SMT, <1>6, <1>7, <1>8 DEF EffectiveScores
<1> QED BY SMT, <1>10, <1>11, RoundedBounds

\* A dip on a healthy window does not cause a failover, for any samples.
THEOREM DipIsTolerated == Spec => DipTolerated
<1>1. ASSUME TypeOK, NEW t \in Samples, Ingest(t), history # <<>>,
             \A i \in DOMAIN history : history[i] >= 6000,
             t.packet_loss <= CriticalLoss, HealthScore(t) >= 2000
      PROVE  ~failover'
  <2>1. t \in Telemetry /\ history \in Windows /\ HealthScore(t) \in Scores
    BY SMT, <1>1, SamplesAssumption, HealthScoreBounds DEF TypeOK
  <2>2. PICK e \in EffectiveScores(history, HealthScore(t)) :
          failover' = Decision(t, history, e).should_failover
    BY SMT, <1>1 DEF Ingest, Failovers, OptimalRoutes
  <2>3. \A i \in 1 .. Len(history) : 6000 <= history[i]
    BY SMT, <1>1, <2>1, WindowShape, ScoresAreInts
  <2>4. 2000 <= HealthScore(t)
    BY SMT, <1>1, <2>1, ScoresAreInts
  <2>5. e \in Int /\ 4000 <= e
    BY SMT, <1>1, <2>1, <2>3, <2>4, DipBounds
  <2>6. ~(e < UnhealthyBelow)
    BY SMT, <2>5 DEF UnhealthyBelow
  <2>7. ~(t.packet_loss > CriticalLoss)
    BY SMT, <1>1, <2>1, SampleFields DEF CriticalLoss
  <2>8. ~ShouldFailover(t, history, e)
    BY SMT, <1>1, <2>6, <2>7 DEF ShouldFailover
  <2> QED BY SMT, <2>2, <2>8 DEF Decision
<1>2. TypeOK /\ [Next]_vars =>
        [\A t \in Samples :
           /\ Ingest(t)
           /\ history # <<>>
           /\ \A i \in DOMAIN history : history[i] >= 6000
           /\ t.packet_loss <= CriticalLoss
           /\ HealthScore(t) >= 2000
           => ~failover']_vars
  BY SMT, <1>1
<1>3. Spec => []TypeOK
  BY Zenon, TypeCorrect
<1> QED BY <1>2, <1>3, PTL DEF Spec, DipTolerated

\* The decision of a slow POST on a critical loss.
LateCritical ==
    slow \in {"set", "push"} /\ asked.packet_loss > CriticalLoss => decided

LEMMA LateCriticalStep == TypeOK /\ LateCritical /\ [Next]_vars => LateCritical'
<1> SUFFICES ASSUME TypeOK, LateCritical, [Next]_vars PROVE LateCritical'
  OBVIOUS
<1>1. ASSUME NEW t \in Samples, Ingest(t) PROVE LateCritical'
  BY Zenon, <1>1 DEF Ingest, LateCritical
<1>2. CASE Query
  BY Zenon, <1>2 DEF Query, waiting, LateCritical
<1>3. ASSUME NEW t \in Samples, Decide(t) PROVE LateCritical'
  <2>1. t \in Telemetry /\ history \in Windows
    BY Zenon, SamplesAssumption DEF TypeOK
  <2>2. t.packet_loss > CriticalLoss => decided'
    BY Zenon, <1>3, <2>1, CriticalAnswer DEF Decide
  <2> QED BY Zenon, <1>3, <2>2 DEF Decide, Begin, LateCritical
<1>4. CASE SetLate
  BY Zenon, <1>4 DEF SetLate, LateCritical
<1>5. CASE PushLate
  BY Zenon, <1>5, EndTyped DEF PushLate, LateCritical
<1>6. CASE ReadState
  BY Zenon, <1>6 DEF ReadState, Begin, LateCritical
<1>7. CASE QueryLate
  BY Zenon, <1>7, EndTyped DEF QueryLate, LateCritical
<1>8. CASE Fail
  BY Zenon, <1>8, EndTyped DEF Fail, LateCritical
<1>9. CASE ExpireState
  BY Zenon, <1>9 DEF ExpireState, waiting, LateCritical
<1>10. CASE ExpireHistory
  BY Zenon, <1>10 DEF ExpireHistory, waiting, LateCritical
<1>11. CASE UNCHANGED vars
  BY Zenon, <1>11 DEF vars, waiting, LateCritical
<1> QED BY Zenon, <1>1, <1>2, <1>3, <1>4, <1>5, <1>6, <1>7, <1>8, <1>9, <1>10,
           <1>11
       DEF Next

\* A critical loss switches, in the answer to the sample, in an answer from
\* the state it left and in the late ones, for any samples and any coherent
\* thresholds.
THEOREM CriticalLossIsLeft == Spec => CriticalLossSwitches
<1>1. ASSUME TypeOK, LateCritical, NEW t \in Samples,
             \/ Ingest(t)
             \/ state = t /\ Query
             \/ asked = t /\ (PushLate \/ QueryLate),
             t.packet_loss > CriticalLoss
      PROVE  failover'
  <2>1. t \in Telemetry /\ history \in Windows
    BY Zenon, <1>1, SamplesAssumption DEF TypeOK
  <2>2. CASE failover' \in Failovers(t, history)
    BY Zenon, <1>1, <2>1, <2>2, CriticalAnswer
  <2>3. CASE asked = t /\ PushLate
    BY Zenon, <1>1, <2>3 DEF PushLate, LateCritical
  <2> QED BY Zenon, <1>1, <2>2, <2>3 DEF Ingest, Query, QueryLate
<1>2. TypeOK /\ LateCritical /\ [Next]_vars =>
        [\A t \in Samples :
           /\ \/ Ingest(t)
              \/ state = t /\ Query
              \/ asked = t /\ (PushLate \/ QueryLate)
           /\ t.packet_loss > CriticalLoss
           => failover']_vars
  BY Zenon, <1>1
<1>3. Init => LateCritical
  BY Zenon DEF Init, LateCritical
<1>4. TypeOK /\ LateCritical /\ [Next]_vars => LateCritical'
  BY Zenon, LateCriticalStep
<1>5. Spec => []TypeOK
  BY Zenon, TypeCorrect
<1> QED BY <1>2, <1>3, <1>4, <1>5, PTL DEF Spec, CriticalLossSwitches

=============================================================================
