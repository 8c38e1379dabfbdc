----------------------------- MODULE MCLoopback -----------------------------
(* Loopback on small instances. *)
EXTENDS Loopback, TLC

LoSymmetry == Permutations(Threads) \cup Permutations(Fds)
=============================================================================
