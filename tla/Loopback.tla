------------------------------ MODULE Loopback ------------------------------
(***************************************************************************)
(* UDP on 127.0.0.0/8: the port slots, the queue of each descriptor, and   *)
(* socket(), bind(), connect(), send(), sendto(), recvfrom() and close()   *)
(* of UDP descriptors, by several threads.                                 *)
(*                                                                         *)
(* lo_deliver looks the port up under the lock and queues the datagram     *)
(* after releasing it.  close() clears the slot under the lock, drains the *)
(* queue and deletes it, each a step of its own, which deliveries and the  *)
(* reuse of the descriptor may overlap.  What lo_bind stores before it     *)
(* takes the lock is one step with the slot: nobody finds the entry        *)
(* before.                                                                 *)
(***************************************************************************)
EXTENDS Naturals, SequencesExt

CONSTANTS
    Threads,     \* callers of sendto()
    Fds,
    Ports,       \* port numbers, not 0
    NSlots,      \* LO_PORT_SLOTS
    Depth,       \* LO_QUEUE_DEPTH
    MaxMsgs,     \* bound: datagrams allocated
    NULL,
    Rebind       \* bind() and connect() are called on descriptors with a port

ASSUME LoopbackAssumption ==
    /\ Ports \subseteq Nat \ {0} /\ NSlots \in Nat \ {0} /\ Depth \in Nat \ {0} /\ MaxMsgs \in Nat
    /\ NULL \notin Fds /\ NULL \notin Seq(Nat)
    /\ Rebind \in BOOLEAN

VARIABLES
    st,          \* st[f]: "free", "open", or what close() does next, "drain" or "delete"
    ip, port,    \* local_ipv4_be ("any", "net" or "lo") and local_port; connect() stores the peer here
    connected,
    loopback,
    lo_rx,       \* NULL, or the queued datagrams
    bound,       \* bound[f]: e->sock has a port
    slots,       \* s_slots
    call,        \* call[t]: lo_deliver's step, destination port, target and datagram;
                 \* late: the target was closed since the lookup
    heap,        \* datagrams allocated and not freed
    stray,       \* datagrams queued between the drain and the deletion of a queue
    made,        \* datagrams allocated so far
    wire         \* a datagram for 127.0.0.0/8 was given to smoltcp

entry == <<st, ip, port, connected, loopback, lo_rx, bound>>
vars == <<entry, slots, call, heap, stray, made, wire>>

Slot == 1 .. NSlots
Unused == [port |-> 0, fd |-> NULL]
NoCall == [at |-> "idle", port |-> 0, fd |-> NULL, msg |-> 0, late |-> FALSE]

Init ==
    /\ st = [f \in Fds |-> "free"]
    /\ ip = [f \in Fds |-> "any"] /\ port = [f \in Fds |-> 0]
    /\ connected = [f \in Fds |-> FALSE] /\ loopback = [f \in Fds |-> FALSE]
    /\ lo_rx = [f \in Fds |-> NULL] /\ bound = [f \in Fds |-> FALSE]
    /\ slots = [i \in Slot |-> Unused]
    /\ call = [t \in Threads |-> NoCall]
    /\ heap = {} /\ stray = {} /\ made = 0 /\ wire = FALSE
-----------------------------------------------------------------------------
\* fd_alloc; the UDP socket has no port yet
Socket(f) ==
    /\ st[f] = "free"
    /\ st' = [st EXCEPT ![f] = "open"]
    /\ ip' = [ip EXCEPT ![f] = "any"] /\ port' = [port EXCEPT ![f] = 0]
    /\ connected' = [connected EXCEPT ![f] = FALSE] /\ loopback' = [loopback EXCEPT ![f] = FALSE]
    /\ lo_rx' = [lo_rx EXCEPT ![f] = NULL] /\ bound' = [bound EXCEPT ![f] = FALSE]
    /\ UNCHANGED <<slots, call, heap, stray, made, wire>>

Address(f, a, p) ==
    /\ st[f] = "open" /\ (port[f] = 0 \/ Rebind)
    /\ ip' = [ip EXCEPT ![f] = a] /\ port' = [port EXCEPT ![f] = p]

\* the slot lo_bind stores into: the one with this port, else the first free one
SlotFor(p) ==
    LET same == {i \in Slot : slots[i].port = p}
        free == {i \in Slot : slots[i].port = 0}
        S == IF same # {} THEN same ELSE free
    IN  {i \in S : \A j \in S : i <= j}

\* bind() to 127.x: lo_bind; with no slot left it fails, the queue and the flag stay
BindLo(f, p) ==
    /\ p # 0 /\ Address(f, "lo", p)
    /\ lo_rx' = [lo_rx EXCEPT ![f] = IF @ = NULL THEN <<>> ELSE @]
    /\ loopback' = [loopback EXCEPT ![f] = TRUE]
    /\ slots' = [i \in Slot |-> IF i \in SlotFor(p) THEN [port |-> p, fd |-> f] ELSE slots[i]]
    /\ UNCHANGED <<st, connected, bound, call, heap, stray, made, wire>>

\* lo_bind refuses port 0, or has no memory for the queue: the address stays stored
BindLoFails(f, p) ==
    /\ p = 0 \/ lo_rx[f] = NULL
    /\ Address(f, "lo", p)
    /\ UNCHANGED <<st, connected, loopback, lo_rx, bound, slots, call, heap, stray, made, wire>>

\* bind() to another address: the smoltcp socket is opened anew, with port 0 unbound
BindNet(f, p) ==
    /\ Address(f, "net", p)
    /\ bound' = [bound EXCEPT ![f] = p # 0]
    /\ UNCHANGED <<st, connected, loopback, lo_rx, slots, call, heap, stray, made, wire>>

Connect(f, a, p) ==
    /\ Address(f, a, p)
    /\ connected' = [connected EXCEPT ![f] = TRUE]
    /\ UNCHANGED <<st, loopback, lo_rx, bound, slots, call, heap, stray, made, wire>>

\* send(): net_udp_sendto to the stored address, which needs a socket with a port
Send(f) ==
    /\ st[f] = "open" /\ connected[f]
    /\ wire' = (wire \/ (bound[f] /\ ip[f] = "lo"))
    /\ UNCHANGED <<entry, slots, call, heap, stray, made>>
-----------------------------------------------------------------------------
(* sendto() a port of 127.x: lo_deliver                                    *)

Lookup(t, p) ==
    /\ call[t].at = "idle"
    /\ \E i \in Slot :
          /\ slots[i].port = p /\ \A j \in Slot : slots[j].port = p => i <= j
          /\ call' = [call EXCEPT ![t] = [at |-> "found", port |-> p, fd |-> slots[i].fd, msg |-> 0,
                                           late |-> FALSE]]
    /\ UNCHANGED <<entry, slots, heap, stray, made, wire>>

\* no queue, or malloc fails: return -1; else allocate the datagram
Build(t) ==
    /\ call[t].at = "found"
    /\ \/ call' = [call EXCEPT ![t] = NoCall] /\ UNCHANGED <<heap, made>>
       \/ /\ lo_rx[call[t].fd] # NULL
          /\ made < MaxMsgs /\ made' = made + 1 /\ heap' = heap \cup {made'}
          /\ call' = [call EXCEPT ![t] = [@ EXCEPT !.at = "queue", !.msg = made']]
    /\ UNCHANGED <<entry, slots, stray, wire>>

\* xQueueSend(target->lo_rx, ..., 0): stored, or freed when the queue is full;
\* a queue deleted since Build stops the thread there (xQueueSend asserts)
Enqueue(t) ==
    LET f == call[t].fd  m == call[t].msg IN
    /\ call[t].at = "queue" /\ lo_rx[f] # NULL
    /\ IF Len(lo_rx[f]) < Depth
       THEN /\ lo_rx' = [lo_rx EXCEPT ![f] = Append(@, m)] /\ UNCHANGED heap
            /\ stray' = IF st[f] = "delete" THEN stray \cup {m} ELSE stray
       ELSE heap' = heap \ {m} /\ UNCHANGED <<lo_rx, stray>>
    /\ call' = [call EXCEPT ![t] = NoCall]
    /\ UNCHANGED <<st, ip, port, connected, loopback, bound, slots, made, wire>>

\* recvfrom() with a datagram queued
Recv(f) ==
    /\ st[f] = "open" /\ loopback[f] /\ lo_rx[f] \notin {NULL, <<>>}
    /\ heap' = heap \ {Head(lo_rx[f])}
    /\ lo_rx' = [lo_rx EXCEPT ![f] = Tail(@)]
    /\ UNCHANGED <<st, ip, port, connected, loopback, bound, slots, call, stray, made, wire>>
-----------------------------------------------------------------------------
(* close(): fd_free, with lo_unbind for a loopback descriptor              *)

\* the deliveries that have f for a target go on with it
Overtake(f) ==
    call' = [t \in Threads |-> IF call[t].fd = f THEN [call[t] EXCEPT !.late = TRUE] ELSE call[t]]

\* Faulty variant of Unbind: it clears the port's slot, whoever has it.
UnbindPort(f) ==
    /\ st[f] = "open" /\ loopback[f]
    /\ st' = [st EXCEPT ![f] = "drain"] /\ Overtake(f)
    /\ slots' = [i \in Slot |-> IF slots[i].port = port[f] THEN Unused ELSE slots[i]]
    /\ UNCHANGED <<ip, port, connected, loopback, lo_rx, bound, heap, stray, made, wire>>

\* Faulty variant of Unbind: close() does not clear the slot.
UnbindNot(f) ==
    /\ st[f] = "open" /\ loopback[f]
    /\ st' = [st EXCEPT ![f] = "drain"] /\ Overtake(f)
    /\ UNCHANGED <<ip, port, connected, loopback, lo_rx, bound, slots, heap, stray, made, wire>>

Unbind(f) ==
    /\ st[f] = "open" /\ loopback[f]
    /\ st' = [st EXCEPT ![f] = "drain"] /\ Overtake(f)
    /\ slots' = [i \in Slot |->
                    IF slots[i] = [port |-> port[f], fd |-> f] THEN Unused ELSE slots[i]]
    /\ UNCHANGED <<ip, port, connected, loopback, lo_rx, bound, heap, stray, made, wire>>

\* Faulty variant of Drain: nothing is drained.
DrainNot(f) ==
    /\ st[f] = "drain"
    /\ st' = [st EXCEPT ![f] = "delete"]
    /\ UNCHANGED <<ip, port, connected, loopback, lo_rx, bound, slots, call, heap, stray, made, wire>>

Drain(f) ==
    /\ st[f] = "drain"
    /\ st' = [st EXCEPT ![f] = "delete"]
    /\ heap' = heap \ ToSet(lo_rx[f]) /\ lo_rx' = [lo_rx EXCEPT ![f] = <<>>]
    /\ UNCHANGED <<ip, port, connected, loopback, bound, slots, call, stray, made, wire>>

\* vQueueDelete and the rest; a descriptor without a queue has only this step
Delete(f) ==
    /\ st[f] = "delete" \/ (st[f] = "open" /\ ~loopback[f])
    /\ st' = [st EXCEPT ![f] = "free"]
    /\ loopback' = [loopback EXCEPT ![f] = FALSE]
    /\ lo_rx' = [lo_rx EXCEPT ![f] = NULL]
    /\ UNCHANGED <<ip, port, connected, bound, slots, call, heap, stray, made, wire>>

Next ==
    \/ \E f \in Fds : Socket(f) \/ Send(f) \/ Recv(f) \/ Unbind(f) \/ Drain(f) \/ Delete(f)
    \/ \E f \in Fds, p \in Ports \cup {0} :
          \/ BindLo(f, p) \/ BindLoFails(f, p) \/ BindNet(f, p)
          \/ \E a \in {"net", "lo"} : Connect(f, a, p)
    \/ \E t \in Threads : Build(t) \/ Enqueue(t) \/ \E p \in Ports : Lookup(t, p)

Spec == Init /\ [][Next]_vars
-----------------------------------------------------------------------------
Queued == UNION {ToSet(lo_rx[f]) : f \in {g \in Fds : lo_rx[g] # NULL}}
InHand == {call[t].msg : t \in {u \in Threads : call[u].at = "queue"}}

(***************************************************************************)
(* Every datagram in a queue or in the hands of a sender is allocated, and *)
(* every allocated one is there, however sends, receives and closes        *)
(* overlap, except those queued between close()'s drain and its deletion   *)
(* of the queue (loopback.c:96 after fd_table.c:90): nothing else leaks    *)
(* and nothing is freed twice.                                             *)
(***************************************************************************)
NoLeak == Queued \cup InHand \subseteq heap /\ heap \subseteq Queued \cup InHand \cup stray

TargetBound(t) ==
    LET f == call[t].fd IN st[f] = "open" /\ loopback[f] /\ port[f] = call[t].port

(***************************************************************************)
(* loopback.h:47: "Push a datagram onto the loopback FD bound to           *)
(* `dst_port`."  The descriptor that lo_deliver holds is open, and bound   *)
(* to the datagram's port, until a close() of that descriptor overtakes    *)
(* the delivery: the lookup never finds one whose close has begun.         *)
(***************************************************************************)
DeliveredToBound ==
    \A t \in Threads : call[t].at # "idle" /\ ~call[t].late => TargetBound(t)

Registered(f, p) == \E i \in Slot : slots[i] = [port |-> p, fd |-> f]
RegistrationKept ==
    \A f \in Fds, p \in Ports :
        Registered(f, p) => (\E g \in Fds : Registered(g, p)') \/ st'[f] = "drain"

(***************************************************************************)
(* A registered receiver stays registered until it closes or another       *)
(* descriptor takes the port over: the close of a descriptor that lost its *)
(* port does not silence the new owner (lo_unbind compares port and fd).   *)
(***************************************************************************)
KeepsRegistration == [][RegistrationKept]_vars

(***************************************************************************)
(* loopback.h:47, with no exception: a delivery that a close() overtook    *)
(* has lost its target, and may find another one in the same entry.        *)
(* The code does not keep this: see Departures in README.md.               *)
(***************************************************************************)
AlwaysToBound == \A t \in Threads : call[t].at # "idle" => TargetBound(t)

(***************************************************************************)
(* loopback.c:67: "Drain any pending messages so we don't leak".           *)
(* The code does not keep this: see Departures in README.md.               *)
(***************************************************************************)
DrainIsLast == stray = {}

(***************************************************************************)
(* README.md:162: "127.0.0.0/8 loopback | in-RAM, never touches the wire". *)
(* The code does not keep this: see Departures in README.md.               *)
(***************************************************************************)
NeverOnWire == ~wire
=============================================================================
