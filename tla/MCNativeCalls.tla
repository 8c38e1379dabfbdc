--------------------------- MODULE MCNativeCalls ----------------------------
(* NativeCalls with its constants from the cfg.                            *)
EXTENDS NativeCalls

MCWait == [connect |-> 2, send |-> 3, recv |-> 3, accept |-> 1, select |-> 1]
=============================================================================
