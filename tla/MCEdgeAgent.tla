---------------------------- MODULE MCEdgeAgent ----------------------------
(* Small instances of EdgeAgent for TLC. *)
EXTENDS EdgeAgent, TLC

CONSTANTS n1, n2, s1, s2, s3, s4

\* One agent: enough identities for a full table of three rows and the
\* sample in hand.
OneAgent == {n1} \X {s1, s2, s3, s4}

\* Two agents: n1 has a sample in hand and up to two in its table or on the
\* air; n2 has one sample, whose POSTs decide whether n2 still relays.
TwoAgents == {<<n1, s1>>, <<n1, s2>>, <<n1, s3>>, <<n2, s4>>}

\* Names of samples are interchangeable within one agent.
TwoAgentsSymmetry == Permutations({s1, s2, s3})

=============================================================================
