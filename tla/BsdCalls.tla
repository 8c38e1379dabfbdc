------------------------------ MODULE BsdCalls ------------------------------
(***************************************************************************)
(* The BSD wrappers: descriptors and their sockets (FdTable), and select() *)
(* on four of them (Select).  A behaviour is one of the two, chosen at the *)
(* start; the variables of the other stay as they are.                     *)
(***************************************************************************)
EXTENDS FdTable

CONSTANTS rd_in, wr_in, MaxQ                         \* Select

VARIABLES
    part,                                            \* the part this behaviour is about
    slot, lo_rx, udp, tcp, rx, room, at, rd, wr, doing   \* Select

Sel == INSTANCE Select

selVars == <<slot, lo_rx, udp, tcp, rx, room, at, rd, wr, doing>>

BsdInit == part \in {"table", "select"} /\ Init /\ Sel!Init

TableStep == part = "table" /\ Next /\ UNCHANGED <<part, selVars>>
SelectStep == part = "select" /\ Sel!Next /\ UNCHANGED <<part, vars>>

BsdSpec ==
    /\ BsdInit /\ [][TableStep \/ SelectStep]_<<part, vars, selVars>>
    /\ part = "select" => Sel!Fairness
-----------------------------------------------------------------------------
(***************************************************************************)
(* A call on a descriptor that select() reported readable waits only when  *)
(* the connection has ended since or before the report (Select).           *)
(***************************************************************************)
WaitsOnlyAtTheEnd == Sel!WaitsOnlyAtTheEnd

(***************************************************************************)
(* A server that keeps calling select() is told of the bytes, datagrams    *)
(* and connections that arrive (Select).                                   *)
(***************************************************************************)
EverythingReported == part = "select" => Sel!EverythingReported
=============================================================================
