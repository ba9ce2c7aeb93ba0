---------------------------- MODULE MCReplayStore ----------------------------
(* Small instances of ReplayStore for TLC. *)
EXTENDS ReplayStore, TLC

Symmetry == Permutations(Threads) \cup Permutations(Jtis)
=============================================================================
