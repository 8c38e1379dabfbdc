------------------------------- MODULE SockId -------------------------------
(***************************************************************************)
(* What a net_sock_t denotes.  IfaceCtx numbers the sockets of an interface*)
(* and maps the numbers to slots of smoltcp's SocketSet, which reuses the  *)
(* slots of removed sockets.  The C side packs the interface and the low 24*)
(* bits of the number into the handle it gives the application, which may  *)
(* keep a copy of a handle that another thread has closed.                 *)
(***************************************************************************)
EXTENDS Naturals

CONSTANTS
    Ifaces,
    LocalMod,     \* 2^24: the handle keeps the number modulo LocalMod
    IdMod,        \* 2^32: next_id is a u32
    Slots,        \* slots of the SocketSet
    MaxOpens,     \* a bound: how many sockets are opened on an interface
    None

Ids == 0 .. IdMod - 1
Serials == 1 .. MaxOpens

ASSUME SockIdAssumption ==
    /\ LocalMod \in Nat /\ IdMod \in Nat /\ MaxOpens \in Nat
    /\ MaxOpens < LocalMod /\ LocalMod < IdMod /\ Ifaces \subseteq Nat
    /\ None \notin Slots /\ None \notin Serials

VARIABLES
    next_id,      \* per interface
    handles,      \* number of a socket -> its slot, or None
    slots,        \* slot -> the socket in it (the n-th one opened), or None
    count,        \* sockets opened so far, per interface
    name,         \* the handle open returned for the n-th socket
    open          \* sockets the application has opened and not closed

vars == <<next_id, handles, slots, count, name, open>>

Init ==
    /\ next_id = [i \in Ifaces |-> 1]
    /\ handles = [x \in Ifaces \X Ids |-> None]
    /\ slots = [x \in Ifaces \X Slots |-> None]
    /\ count = [i \in Ifaces |-> 0]
    /\ name = [x \in Ifaces \X Serials |-> <<0, 0>>]
    /\ open = {}
-----------------------------------------------------------------------------
\* (iface << 24) | (id & 0x00FFFFFF); IFACE(s) and LOCAL(s) are its two parts
Encode(i, id) == <<i, id % LocalMod>>

Successor(id) == IF (id + 1) % IdMod = 0 THEN 1 ELSE (id + 1) % IdMod

\* Faulty variant of Open: numbers are taken from the slots, as smoltcp's handles are.
OpenBySlot(i, s) ==
    /\ count[i] < MaxOpens /\ slots[<<i, s>>] = None
    /\ LET n == count[i] + 1
           id == CHOOSE m \in Ids \ {0} : handles[<<i, m>>] = None
       IN  /\ slots' = [slots EXCEPT ![<<i, s>>] = n]
           /\ handles' = [handles EXCEPT ![<<i, id>>] = s]
           /\ name' = [name EXCEPT ![<<i, n>>] = Encode(i, id)]
           /\ count' = [count EXCEPT ![i] = n]
           /\ open' = open \cup {<<i, n>>}
    /\ UNCHANGED next_id

\* net_tcp_open, net_udp_open: SocketSet::add takes a free slot
Open(i, s) ==
    /\ count[i] < MaxOpens /\ slots[<<i, s>>] = None
    /\ LET n == count[i] + 1
           id == next_id[i]
       IN  /\ slots' = [slots EXCEPT ![<<i, s>>] = n]
           /\ handles' = [handles EXCEPT ![<<i, id>>] = s]
           /\ next_id' = [next_id EXCEPT ![i] = Successor(id)]
           /\ name' = [name EXCEPT ![<<i, n>>] = Encode(i, id)]
           /\ count' = [count EXCEPT ![i] = n]
           /\ open' = open \cup {<<i, n>>}

\* Faulty variant of Close: the number is forgotten, the socket stays in the set.
CloseLeavesSocket(i, n) ==
    /\ n <= count[i]
    /\ open' = open \ {<<i, n>>}
    /\ handles' = [handles EXCEPT ![name[<<i, n>>]] = None]
    /\ UNCHANGED <<slots, next_id, count, name>>

\* net_tcp_close, net_udp_close of a handle that was once opened: closed already or not
Close(i, n) ==
    /\ n <= count[i]
    /\ open' = open \ {<<i, n>>}
    /\ LET h == name[<<i, n>>]
       IN  IF handles[h] = None THEN UNCHANGED <<slots, handles>>
           ELSE /\ slots' = [slots EXCEPT ![<<h[1], handles[h]>>] = None]
                /\ handles' = [handles EXCEPT ![h] = None]
    /\ UNCHANGED <<next_id, count, name>>

Next ==
    \E i \in Ifaces : \/ \E s \in Slots : Open(i, s)
                      \/ \E n \in Serials : Close(i, n)

Spec == Init /\ [][Next]_vars
-----------------------------------------------------------------------------
\* the socket an operation on handle h reaches: handle_for(IFACE), lookup(LOCAL)
lookup(h) == IF handles[h] = None THEN None ELSE slots[<<h[1], handles[h]>>]

(***************************************************************************)
(* Every handle of an open socket reaches that socket, and a copy of a     *)
(* handle that was closed reaches nothing, whatever was opened in the slot *)
(* since.                                                                  *)
(***************************************************************************)
HandlesDenote ==
    \A i \in Ifaces, n \in Serials :
        n <= count[i] =>
            lookup(name[<<i, n>>]) = IF <<i, n>> \in open THEN n ELSE None

(***************************************************************************)
(* No socket is left in smoltcp that no open handle reaches: what          *)
(* smoltcp_iface_socket_count reports is what the application holds.       *)
(***************************************************************************)
NothingStranded ==
    \A i \in Ifaces, s \in Slots :
        slots[<<i, s>>] # None => <<i, slots[<<i, s>>]>> \in open
=============================================================================
