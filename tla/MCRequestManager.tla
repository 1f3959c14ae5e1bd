-------------------------- MODULE MCRequestManager --------------------------
(* Small instances of RequestManager for TLC. *)
EXTENDS RequestManager, TLC

CONSTANTS h1, h2, p1, p2, t1, t2

Symmetry == Permutations(Hashes) \cup Permutations(Peers) \cup Permutations(Threads)
=============================================================================
