---------------------------- MODULE MCProofReplay ----------------------------
(* Small instances of ProofReplay for TLC. *)
EXTENDS ProofReplay, TLC

Symmetry == Permutations(Threads) \cup Permutations(Jtis)

\* An ordinary iat: future-skewed at first, then past its window.
OneIat == {1}

\* That one, and one whose distance from a reachable second overflows.
EdgeIats == {MinInt + 1, 1}
=============================================================================
