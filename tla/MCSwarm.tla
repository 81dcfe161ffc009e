------------------------------ MODULE MCSwarm ------------------------------
(* A small instance of Swarm for TLC. *)
EXTENDS Swarm, TLC

CONSTANTS n1, h1, h2

\* Two samples of one agent, taken a second apart.
TwoSamples == {<<n1, 0>>, <<n1, 1>>}

HandlerSymmetry == Permutations(Handlers)

=============================================================================
