----------------------------- MODULE MCCoreLock -----------------------------
(* CoreLock alone, with one thread of each kind. *)
EXTENDS CoreLock
=============================================================================
