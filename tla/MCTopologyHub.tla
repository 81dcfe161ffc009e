--------------------------- MODULE MCTopologyHub ---------------------------
(* Small instances of TopologyHub for TLC. *)
EXTENDS TopologyHub, TLC

CONSTANTS n1, n2, h1, h2, c1, c2, c3

HubSymmetry == Permutations(Handlers) \cup Permutations(Clients)

=============================================================================
