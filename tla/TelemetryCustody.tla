-------------------------- MODULE TelemetryCustody --------------------------
(***************************************************************************)
(* What the swarm promises about a telemetry sample, whoever carries it:   *)
(* its agent owes it to the control plane until the control plane has      *)
(* recorded it, and settles the debt only then.  An agent may abandon a    *)
(* sample, which must not look like settling it; what is recorded stays    *)
(* recorded.  How requests, retries, relays and crashes bring this about   *)
(* is the matter of Swarm.                                                 *)
(***************************************************************************)
CONSTANT Packets  \* samples

VARIABLES
    debt,     \* where the agent stands with each sample
    recorded  \* the samples the control plane has taken

vars == <<debt, recorded>>

Init ==
    /\ debt = [p \in Packets |-> "none"]
    /\ recorded = {}

\* The agent measures a sample.
Take(p) ==
    /\ debt[p] = "none"
    /\ debt' = [debt EXCEPT ![p] = "owed"]
    /\ UNCHANGED recorded

\* The control plane takes a sample, also one its agent has abandoned.
Record(p) ==
    /\ debt[p] # "none"
    /\ recorded' = recorded \cup {p}
    /\ UNCHANGED debt

\* The agent learns that its sample was recorded.
Settle(p) ==
    /\ debt[p] \in {"owed", "abandoned"}
    /\ p \in recorded
    /\ debt' = [debt EXCEPT ![p] = "settled"]
    /\ UNCHANGED recorded

Abandon(p) ==
    /\ debt[p] = "owed"
    /\ debt' = [debt EXCEPT ![p] = "abandoned"]
    /\ UNCHANGED recorded

Next == \E p \in Packets : Take(p) \/ Record(p) \/ Settle(p) \/ Abandon(p)

Spec == Init /\ [][Next]_vars

\* Nothing is settled that was not recorded.
SettledIsRecorded == \A p \in Packets : debt[p] = "settled" => p \in recorded

=============================================================================
