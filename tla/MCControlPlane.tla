--------------------------- MODULE MCControlPlane ---------------------------
(* Small instances of ControlPlane for TLC. *)
EXTENDS ControlPlane, TLC

CONSTANTS n1, h1, h2

TwoSamples == {<<n1, 0>>, <<n1, 1>>}

\* With two stamps to the second the first two fall into the same second.
ThreeSamples == {<<n1, 0>>, <<n1, 1>>, <<n1, 2>>}

HandlerSymmetry == Permutations(Handlers)

=============================================================================
