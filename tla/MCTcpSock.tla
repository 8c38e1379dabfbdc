----------------------------- MODULE MCTcpSock -----------------------------
(* TcpSock on small instances. *)
EXTENDS TcpSock, TLC

ThreadSymmetry == Permutations(Threads)
=============================================================================
