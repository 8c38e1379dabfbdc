---------------------------- MODULE NativeCalls -----------------------------
(***************************************************************************)
(* The blocking calls of the native API: on a socket that the poll task    *)
(* serves (TcpSock), and on one that makes no progress (Deadline).  A      *)
(* behaviour is one of the two, chosen at the start; the variables of the  *)
(* other stay as they are.                                                 *)
(***************************************************************************)
EXTENDS TcpSock

CONSTANTS Ticks, Default, SndDefault, AcceptLimit, Wait, Timeouts    \* Deadline

VARIABLES
    part,                                               \* the part this behaviour is about
    now, rcv_timeout, snd_timeout, nonblocking,
    call, start, until, limit, elapsed                  \* Deadline; until: its deadline

Stuck == INSTANCE Deadline WITH deadline <- until

\* a tick counter of 32 bits does not wrap during one accept()
ASSUME DeadlineAssumption ==
    /\ Ticks \in Nat \ {0}
    /\ {Default, SndDefault, AcceptLimit} \cup Timeouts \subseteq Nat
    /\ Wait \in [Stuck!Kinds -> Nat]
    /\ AcceptLimit + Wait["accept"] < Ticks

stuckVars == <<now, rcv_timeout, snd_timeout, nonblocking, call, start, until, limit, elapsed>>

CallsInit == part \in {"served", "stuck"} /\ Init /\ Stuck!Init

ServedStep == part = "served" /\ Next /\ UNCHANGED <<part, stuckVars>>
StuckStep == part = "stuck" /\ Stuck!Next /\ UNCHANGED <<part, vars>>

CallsSpec ==
    /\ CallsInit /\ [][ServedStep \/ StuckStep]_<<part, vars, stuckVars>>
    /\ part = "served" => Fairness
-----------------------------------------------------------------------------
(***************************************************************************)
(* A blocking call on a stuck stack gives up between its timeout and one   *)
(* wait later, accept even when the tick counter wraps (Deadline).         *)
(***************************************************************************)
GivesUpInTime == Stuck!GivesUpInTime
=============================================================================
