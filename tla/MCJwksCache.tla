----------------------------- MODULE MCJwksCache -----------------------------
(* Small instances of JwksCache for TLC. *)
EXTENDS JwksCache, TLC

Symmetry == Permutations(Threads) \cup Permutations(Issuers)
=============================================================================
