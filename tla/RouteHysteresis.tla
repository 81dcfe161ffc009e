-------------------------- MODULE RouteHysteresis --------------------------
(***************************************************************************)
(* The routing of one node over time: the samples it sends, the two Redis  *)
(* keys the control plane keeps for it (node:<id> and health:<id>), and    *)
(* the answers of POST /telemetry and GET /route/<id>.                     *)
(*                                                                         *)
(* One request at a time is slow: a POST that has decided on a window and  *)
(* not stored its sample yet, or stored it and not pushed its score, or a  *)
(* GET that has read the state and not the window.  The others run to      *)
(* their end meanwhile.  ControlPlane has all the interleavings, without   *)
(* the decisions.  The answer to a duplicate is left out: it is computed   *)
(* from the replayed sample, changes neither key, and goes to a drain or a *)
(* relay, neither of which reads it.                                       *)
(* good and bad only observe: how many samples in a row were recorded that *)
(* are within the thresholds, and how many that scored below 0.4.          *)
(***************************************************************************)
EXTENDS RoutingEngine

CONSTANTS
    Samples,       \* the telemetry the node may send
    NoState,       \* the key does not exist
    MaxOvertaken   \* BOUND: samples recorded while a slow request waits

ASSUME SamplesAssumption ==
    /\ Samples \subseteq Telemetry
    /\ NoState \notin Samples
    /\ MaxOvertaken \in Nat

\* The two hard-coded limits and the two configurable thresholds fit
\* together: a sample within the thresholds cannot score below 0.4, and a
\* critical loss is beyond the threshold.  The defaults satisfy it; the
\* code does not check it.
ASSUME ThresholdsCoherent ==
    /\ 3000 * SignalThreshold + 40 * (TotalLoss - PacketLossThreshold)
         >= 100 * UnhealthyBelow
    /\ PacketLossThreshold <= CriticalLoss

VARIABLES
    (* Redis *)
    state,     \* the sample in node:<id>, or NoState
    history,   \* health:<id>, newest score first
    behind,    \* node:<id> was written after health:<id>
    (* the slow request *)
    slow,      \* its next await: a POST's "set" or "push", a GET's "read"
    asked,     \* the sample it is about, or NoState
    decided,   \* should_failover of a POST's decision
    overtaken, \* samples recorded since it read
    (* observation only *)
    failover,  \* should_failover of the answer returned last
    good,      \* samples in a row within the thresholds
    bad        \* samples in a row that scored below 0.4

waiting == <<slow, asked, decided, overtaken>>
stored  == <<state, history, behind>>
vars    == <<stored, waiting, failover, good, bad>>

\* One window, the sample that decides on it, and those it may have missed.
RunBound == HISTORY_WINDOW_SIZE + 1 + MaxOvertaken

TypeOK ==
    /\ state \in Samples \cup {NoState}
    /\ history \in Windows
    /\ behind \in BOOLEAN
    /\ slow \in {"none", "set", "push", "read"}
    /\ asked \in (IF slow = "none" THEN {NoState} ELSE Samples)
    /\ decided \in BOOLEAN
    /\ overtaken \in 0 .. MaxOvertaken
    /\ failover \in BOOLEAN
    /\ good \in 0 .. RunBound
    /\ bad \in 0 .. RunBound

Init ==
    /\ state = NoState
    /\ history = <<>>
    /\ behind = FALSE
    /\ slow = "none"
    /\ asked = NoState
    /\ decided = FALSE
    /\ overtaken = 0
    /\ failover = FALSE
    /\ good = 0
    /\ bad = 0

Failovers(t, h) == {d.should_failover : d \in OptimalRoutes(t, h)}

Longer(run) == IF run < RunBound THEN run + 1 ELSE run

\* update_node_state, first await: set(node:<id>).  A sample that does not
\* belong to a run ends it here, for the state is read from now on.
SetNode(t) ==
    /\ state' = t
    /\ good' = IF NeedsFailover(t) THEN 0 ELSE good
    /\ bad' = IF HealthScore(t) < UnhealthyBelow THEN bad ELSE 0

\* Second await: lpush, ltrim and expire in one MULTI.  The sample is
\* recorded.
PushHealth(t) ==
    /\ history' = Push(history, HealthScore(t))
    /\ behind' = FALSE
    /\ good' = IF NeedsFailover(t) THEN 0 ELSE Longer(good)
    /\ bad' = IF HealthScore(t) < UnhealthyBelow THEN Longer(bad) ELSE 0

----------------------------------------------------------------------------
(* Requests that run to their end. *)

\* POST /telemetry: decide on the window as it is, then write both keys.
Ingest(t) ==
    /\ slow # "none" => overtaken < MaxOvertaken
    /\ failover' \in Failovers(t, history)
    /\ state' = t
    /\ PushHealth(t)
    /\ overtaken' = IF slow = "none" THEN 0 ELSE overtaken + 1
    /\ UNCHANGED <<slow, asked, decided>>

\* GET /route/<id>: recompute from the stored sample, whose score is the
\* first of the window unless its POST is still to push it.
Query ==
    /\ state # NoState
    /\ failover' \in Failovers(state, history)
    /\ UNCHANGED <<stored, waiting, good, bad>>

----------------------------------------------------------------------------
(* The slow request. *)

Begin(next, t) ==
    /\ slow = "none"
    /\ slow' = next
    /\ asked' = t
    /\ overtaken' = 0
    /\ UNCHANGED <<stored, failover, good, bad>>

End ==
    /\ slow' = "none"
    /\ asked' = NoState
    /\ decided' = FALSE
    /\ overtaken' = 0

\* A POST has read the window and decided; its first write follows.
Decide(t) ==
    /\ Begin("set", t)
    /\ decided' \in Failovers(t, history)

\* Its state replaces the one others wrote meanwhile.
SetLate ==
    /\ slow = "set"
    /\ SetNode(asked)
    /\ behind' = TRUE
    /\ slow' = "push"
    /\ UNCHANGED <<history, asked, decided, overtaken, failover>>

\* Its score follows those that others pushed meanwhile, whose states may
\* have replaced its own; the decision is returned as it was.
PushLate ==
    /\ slow = "push"
    /\ PushHealth(asked)
    /\ failover' = decided
    /\ End
    /\ UNCHANGED state

\* A GET has read the state; its read of the window follows.
ReadState ==
    /\ state # NoState
    /\ Begin("read", state)
    /\ UNCHANGED decided

\* It puts the state it read together with the window as it is now.
QueryLate ==
    /\ slow = "read"
    /\ failover' \in Failovers(asked, history)
    /\ End
    /\ UNCHANGED <<stored, good, bad>>

\* Its Redis call raises, also between the two writes.
Fail ==
    /\ slow # "none"
    /\ End
    /\ UNCHANGED <<stored, failover, good, bad>>

----------------------------------------------------------------------------
\* node:<id> expires, or delete_node removed it.
ExpireState ==
    /\ state # NoState
    /\ state' = NoState
    /\ behind' = FALSE
    /\ UNCHANGED <<history, waiting, failover, good, bad>>

\* health:<id> expires: after node:<id>, unless that was written again and
\* the push that follows is late or never came.
ExpireHistory ==
    /\ state = NoState \/ behind
    /\ history # <<>>
    /\ history' = <<>>
    /\ UNCHANGED <<state, behind, waiting, failover, good, bad>>

Next ==
    \/ \E t \in Samples : Ingest(t)
    \/ Query
    \/ \E t \in Samples : Decide(t)
    \/ SetLate
    \/ PushLate
    \/ ReadState
    \/ QueryLate
    \/ Fail
    \/ ExpireState
    \/ ExpireHistory

Spec == Init /\ [][Next]_vars

----------------------------------------------------------------------------
\* A link that recovered is left alone: after one window and one sample
\* within the thresholds, and one more for each that may overtake a request,
\* no answer asks for a failover any more, whatever the scores before,
\* whenever the keys expired or only one of them was written, and although
\* a late answer follows an old window or an old state.
RecoveredLinkStays == good = RunBound => ~failover

\* An unhealthy link is left: after as many samples that scored below 0.4,
\* every answer asks for a failover, also across an expiry, where the
\* decision falls back to the thresholds.
UnhealthyLinkSwitches == bad = RunBound => failover

\* Hysteresis: on a window of scores of at least 0.6, one sample of at
\* least 0.2 without critical loss does not cause a failover, however few
\* scores the window holds.
DipTolerated ==
    [][\A t \in Samples :
         /\ Ingest(t)
         /\ history # <<>>
         /\ \A i \in DOMAIN history : history[i] >= 6000
         /\ t.packet_loss <= CriticalLoss
         /\ HealthScore(t) >= 2000
         => ~failover']_vars

\* A critical loss asks for a failover, whether or not there is a window
\* and however good it is: the answer to the sample, an answer from the
\* state it left, and the late ones of both kinds, whatever was recorded
\* between reading and answering.
CriticalLossSwitches ==
    [][\A t \in Samples :
         /\ \/ Ingest(t)
            \/ state = t /\ Query
            \/ asked = t /\ (PushLate \/ QueryLate)
         /\ t.packet_loss > CriticalLoss
         => failover']_vars

=============================================================================
