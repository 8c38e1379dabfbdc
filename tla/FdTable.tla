------------------------------ MODULE FdTable ------------------------------
(***************************************************************************)
(* The descriptor table and the smoltcp sockets its entries own: socket(), *)
(* bind(), connect(), shutdown() and close() on TCP and UDP descriptors,   *)
(* by several threads.  Listening descriptors are in Listener, loopback    *)
(* binds in Loopback.                                                      *)
(*                                                                         *)
(* fd_alloc and fd_free hold s_lock from end to end and are one step each; *)
(* everything else touches an entry without it.  A thread uses descriptors *)
(* no other thread is using at the moment, but may pass them on.           *)
(***************************************************************************)
EXTENDS Naturals

CONSTANTS
    Threads,
    Fds,         \* entries of s_table
    Socks,       \* smoltcp sockets
    None,        \* NET_SOCK_INVALID
    Reconnect    \* connect() is also called on descriptors that have a socket,
                 \* connected or left by a connect() that failed

ASSUME FdTableAssumption == None \notin Socks \cup Fds /\ Reconnect \in BOOLEAN

VARIABLES
    kind,        \* kind[f]: "free", "tcp", "udp"
    sock,        \* sock[f]: e->sock; it keeps its value in a free entry
    connected,   \* connected[f]
    open,        \* the sockets in smoltcp's socket set
    pc,          \* pc[t]: where thread t is
    fd           \* fd[t]: the descriptor its call is about

vars == <<kind, sock, connected, open, pc, fd>>

Init ==
    /\ kind = [f \in Fds |-> "free"] /\ sock = [f \in Fds |-> None]
    /\ connected = [f \in Fds |-> FALSE]
    /\ open = {}
    /\ pc = [t \in Threads |-> "idle"] /\ fd = [t \in Threads |-> None]

\* ids are not reused, so no entry still names a socket just opened
NewSock == {s \in Socks : s \notin open /\ \A f \in Fds : sock[f] # s}

Idle(t, f) == pc[t] = "idle" /\ kind[f] # "free" /\ \A u \in Threads : fd[u] # f

Enter(t, f, l) ==
    /\ Idle(t, f)
    /\ pc' = [pc EXCEPT ![t] = l] /\ fd' = [fd EXCEPT ![t] = f]

Return(t) == pc' = [pc EXCEPT ![t] = "idle"] /\ fd' = [fd EXCEPT ![t] = None]

-----------------------------------------------------------------------------
(* socket()                                                                *)

\* fd_alloc, in both of its uses
Alloc(t) ==
    /\ pc[t] = "idle"
    /\ \E f \in Fds, k \in {"tcp", "udp"} :
          /\ kind[f] = "free"
          /\ kind' = [kind EXCEPT ![f] = k]
          /\ sock' = [sock EXCEPT ![f] = None] /\ connected' = [connected EXCEPT ![f] = FALSE]
          /\ IF k = "udp" THEN pc' = [pc EXCEPT ![t] = "udpOpen"] /\ fd' = [fd EXCEPT ![t] = f]
             ELSE UNCHANGED <<pc, fd>>
    /\ UNCHANGED open

\* net_udp_open for socket() and for bind()
UdpOpen(t) ==
    /\ pc[t] \in {"udpOpen", "bindOpen"}
    /\ \E s \in NewSock :
          sock' = [sock EXCEPT ![fd[t]] = s] /\ open' = open \cup {s}
    /\ Return(t)
    /\ UNCHANGED <<kind, connected>>

\* net_udp_open fails: socket() frees the entry, bind() leaves it socketless
UdpOpenFails(t) ==
    /\ \/ pc[t] = "udpOpen" /\ kind' = [kind EXCEPT ![fd[t]] = "free"] /\ UNCHANGED sock
       \/ pc[t] = "bindOpen" /\ sock' = [sock EXCEPT ![fd[t]] = None] /\ UNCHANGED kind
    /\ Return(t)
    /\ UNCHANGED <<connected, open>>

-----------------------------------------------------------------------------
(* bind(), connect(), shutdown(), close()                                  *)

\* Faulty variant of Bind: the old socket stays open.
BindLeak(t) ==
    /\ \E f \in Fds : kind[f] = "udp" /\ Enter(t, f, "bindOpen")
    /\ UNCHANGED <<kind, sock, connected, open>>

\* a UDP descriptor: net_udp_close, then net_udp_open on the new port
Bind(t) ==
    /\ \E f \in Fds : kind[f] = "udp" /\ Enter(t, f, "bindOpen") /\ open' = open \ {sock[f]}
    /\ UNCHANGED <<kind, sock, connected>>

\* a TCP descriptor: e->sock = net_tcp_open(), then net_tcp_connect.  net_tcp_open
\* fails only before the attach, when the entry has no socket, and changes nothing.
\* The code has no guard on e->sock: that is a Reconnect of the caller's, and it
\* overwrites the socket without closing it.
Connect(t) ==
    /\ \E f \in Fds, s \in NewSock :
          /\ kind[f] = "tcp" /\ (sock[f] = None \/ Reconnect)
          /\ Enter(t, f, "connecting")
          /\ sock' = [sock EXCEPT ![f] = s] /\ open' = open \cup {s}
    /\ UNCHANGED <<kind, connected>>

\* it returns ESP_OK, or the connect timed out; the entry keeps the socket either way
ConnectReturns(t) ==
    /\ pc[t] = "connecting"
    /\ \E b \in BOOLEAN : connected' = [connected EXCEPT ![fd[t]] = b \/ @]
    /\ Return(t)
    /\ UNCHANGED <<kind, sock, open>>

\* net_tcp_close, then e->sock = NET_SOCK_INVALID
Shutdown(t) ==
    /\ \E f \in Fds : /\ kind[f] = "tcp" /\ sock[f] # None
                      /\ Enter(t, f, "shut") /\ open' = open \ {sock[f]}
    /\ UNCHANGED <<kind, sock, connected>>

\* Faulty variant of ShutdownEnds: the entry keeps the closed socket.
ShutdownEndsStale(t) ==
    /\ pc[t] = "shut"
    /\ connected' = [connected EXCEPT ![fd[t]] = FALSE]
    /\ Return(t)
    /\ UNCHANGED <<kind, sock, open>>

ShutdownEnds(t) ==
    /\ pc[t] = "shut"
    /\ sock' = [sock EXCEPT ![fd[t]] = None]
    /\ connected' = [connected EXCEPT ![fd[t]] = FALSE]
    /\ Return(t)
    /\ UNCHANGED <<kind, open>>

\* fd_is_socket and fd_get, then the lock
Close(t) ==
    /\ \E f \in Fds : Enter(t, f, "close")
    /\ UNCHANGED <<kind, sock, connected, open>>

\* fd_free, under s_lock
Free(t) ==
    /\ pc[t] = "close"
    /\ open' = open \ {sock[fd[t]]}
    /\ kind' = [kind EXCEPT ![fd[t]] = "free"]
    /\ Return(t)
    /\ UNCHANGED <<sock, connected>>

Next ==
    \E t \in Threads :
        \/ Alloc(t) \/ UdpOpen(t) \/ UdpOpenFails(t)
        \/ Bind(t) \/ Connect(t) \/ ConnectReturns(t)
        \/ Shutdown(t) \/ ShutdownEnds(t) \/ Close(t) \/ Free(t)

Spec == Init /\ [][Next]_vars
-----------------------------------------------------------------------------
(***************************************************************************)
(* The table keeps what Ownership promises: an entry owns the socket it    *)
(* names while that socket is open, opens one only when it has none, and   *)
(* close(), bind() and shutdown() close what they let go, whatever other   *)
(* threads do with other entries and however entries are recycled.         *)
(***************************************************************************)
owned == [f \in Fds |-> IF sock[f] \in open THEN sock[f] ELSE None]
O == INSTANCE Ownership WITH Owners <- Fds, own <- owned, live <- open
ImplementsOwnership == O!Spec

(***************************************************************************)
(* An allocated TCP entry never names a closed socket between two calls:   *)
(* what send() and recv() use next is the entry's own socket or none.      *)
(***************************************************************************)
NoDanglingHandle ==
    \A f \in Fds : kind[f] # "free" /\ (\A t \in Threads : fd[t] # f) /\ sock[f] # None
        => sock[f] \in open

(***************************************************************************)
(* fd_table.h:66: "Free an entry (closes any owned smoltcp socket)".  Once *)
(* every entry is free, no socket is open.                                 *)
(* The code does not keep this: see Departures in README.md.               *)
(***************************************************************************)
FreeClosesOwned == (\A f \in Fds : kind[f] = "free") => open = {}
=============================================================================
