------------------------------ MODULE Listener ------------------------------
(***************************************************************************)
(* A listening descriptor: the pool of pre-listening smoltcp sockets that  *)
(* listen() arms, accept() by one or more threads, and the peers.          *)
(*                                                                         *)
(* Between two calls into smoltcp or the descriptor table, which lock,     *)
(* accept() runs unlocked; each such stretch is one step.  An entry of the *)
(* table is its smoltcp socket: FREE, None (no socket yet) or a socket.    *)
(***************************************************************************)
EXTENDS Naturals

CONSTANTS
    Threads,     \* the threads that call accept()
    Fds,         \* descriptors for accepted connections
    Socks,       \* smoltcp sockets
    PoolLen,     \* e->pool_len
    None,        \* NET_SOCK_INVALID
    FREE         \* FD_FREE

ASSUME ListenerAssumption ==
    /\ PoolLen \in Nat \ {0}
    /\ None \notin Socks \cup Fds /\ FREE \notin Socks /\ None # FREE
    /\ Fds \cap Nat = {}

VARIABLES
    st,          \* st[s]: TCP state of socket s, "gone" if it does not exist; "reset"
                 \* is CLOSED with data left in the receive buffer
    pool,        \* e->pool
    pool_next,   \* e->pool_next
    armed,       \* how many slots listen() has opened
    listened,    \* what listen() returned: "ok", "error" or, before that, "no"
    sock,        \* sock[f]: entry f of the table
    pc,          \* pc[t]: where thread t is in accept()
    i,           \* i[t]: its loop variable, then idx
    cand,        \* cand[t]
    newfd        \* newfd[t]

listenVars == <<armed, listened>>
vars == <<st, pool, pool_next, listenVars, sock, pc, i, cand, newfd>>
acceptVars == <<pc, i, cand, newfd>>

Slots == 0 .. PoolLen - 1

Init ==
    /\ st = [s \in Socks |-> "gone"]
    /\ pool = [k \in Slots |-> None] /\ pool_next = 0 /\ armed = 0 /\ listened = "no"
    /\ sock = [f \in Fds |-> FREE]
    /\ pc = [t \in Threads |-> "idle"] /\ i = [t \in Threads |-> 0]
    /\ cand = [t \in Threads |-> None] /\ newfd = [t \in Threads |-> None]

\* Faulty variant of is_connected: is_active, which is also true in SYN-RECEIVED.
is_connectedActive(s) == s # None /\ st[s] \in {"synrcvd", "est", "closewait"}

\* may_recv(), true of any socket with data to read, or may_send()
is_connected(s) == s # None /\ st[s] \in {"est", "closewait", "reset"}

\* the places that hold socket s
Holders(s) == {k \in Slots : pool[k] = s} \cup {f \in Fds : sock[f] = s}

\* a socket net_tcp_open may return: ids are not reused
Unused(s) == st[s] = "gone" /\ Holders(s) = {} /\ \A t \in Threads : cand[t] # s

-----------------------------------------------------------------------------
(* listen(), and close() of the listening descriptor                       *)

\* net_tcp_open for the next slot, which leaves the socket in state x, and the
\* result r of listen()
ArmSlot(x, r) ==
    /\ listened = "no"
    /\ \E s \in Socks : /\ Unused(s)
                        /\ pool' = [pool EXCEPT ![armed] = s]
                        /\ st' = [st EXCEPT ![s] = x]
    /\ armed' = armed + 1
    /\ listened' = r
    /\ UNCHANGED <<pool_next, sock, acceptVars>>

\* net_tcp_open and net_tcp_listen; listen() returns 0 after the last slot
Arm == ArmSlot("listen", IF armed + 1 = PoolLen THEN "ok" ELSE "no")

\* net_tcp_listen fails: EADDRINUSE.  The descriptor is FD_TCP_LISTEN already and
\* keeps the slots armed so far
ListenFails == ArmSlot("closed", "error")

\* net_tcp_open fails: ENOBUFS, and the slot stays empty
OpenFails ==
    /\ listened = "no" /\ listened' = "error"
    /\ UNCHANGED <<st, pool, pool_next, armed, sock, acceptVars>>

\* fd_free of the listener, when no accept() runs
CloseListen ==
    /\ listened # "no" /\ \A t \in Threads : pc[t] = "idle"
    /\ st' = [s \in Socks |-> IF \E k \in Slots : pool[k] = s THEN "gone" ELSE st[s]]
    /\ pool' = [k \in Slots |-> None] /\ pool_next' = 0 /\ armed' = 0 /\ listened' = "no"
    /\ UNCHANGED <<sock, acceptVars>>

-----------------------------------------------------------------------------
(* accept()                                                                *)

Goto(t, l) == pc' = [pc EXCEPT ![t] = l]

\* after listen() returned, with an error too: the kind is FD_TCP_LISTEN
AcceptCall(t) ==
    /\ pc[t] = "idle" /\ listened # "no"
    /\ Goto(t, "scan") /\ i' = [i EXCEPT ![t] = 0]
    /\ UNCHANGED <<st, pool, pool_next, listenVars, sock, cand, newfd>>

Idx(t) == (pool_next + i[t]) % PoolLen

\* the slot's socket is connected: fd_alloc is next
Found(t) ==
    /\ pc[t] = "scan" /\ i[t] < PoolLen
    /\ is_connected(pool[Idx(t)])
    /\ cand' = [cand EXCEPT ![t] = pool[Idx(t)]]
    /\ i' = [i EXCEPT ![t] = Idx(t)]
    /\ Goto(t, "alloc")
    /\ UNCHANGED <<st, pool, pool_next, listenVars, sock, newfd>>

NotThisSlot(t) ==
    /\ pc[t] = "scan" /\ i[t] < PoolLen
    /\ ~is_connected(pool[Idx(t)])
    /\ i' = [i EXCEPT ![t] = @ + 1]
    /\ UNCHANGED <<st, pool, pool_next, listenVars, sock, pc, cand, newfd>>

Return(t) ==
    /\ Goto(t, "idle")
    /\ i' = [i EXCEPT ![t] = 0]
    /\ cand' = [cand EXCEPT ![t] = None] /\ newfd' = [newfd EXCEPT ![t] = None]

\* nothing connected: EWOULDBLOCK, ETIMEDOUT, or scan again after 2 ms
NoneFound(t) ==
    /\ pc[t] = "scan" /\ i[t] = PoolLen
    /\ \/ Return(t)
       \/ i' = [i EXCEPT ![t] = 0] /\ UNCHANGED <<pc, cand, newfd>>
    /\ UNCHANGED <<st, pool, pool_next, listenVars, sock>>

Alloc(t) ==
    /\ pc[t] = "alloc"
    /\ \E f \in Fds : /\ sock[f] = FREE
                      /\ sock' = [sock EXCEPT ![f] = None]
                      /\ newfd' = [newfd EXCEPT ![t] = f]
    /\ Goto(t, "open")
    /\ UNCHANGED <<st, pool, pool_next, listenVars, i, cand>>

\* ENFILE
NoFd(t) ==
    /\ pc[t] = "alloc"
    /\ \A f \in Fds : sock[f] # FREE
    /\ Return(t)
    /\ UNCHANGED <<st, pool, pool_next, listenVars, sock>>

\* Faulty variant of Replenish: the slot keeps the accepted socket.
ReplenishNot(t) ==
    /\ pc[t] = "open"
    /\ sock' = [sock EXCEPT ![newfd[t]] = cand[t]]
    /\ Goto(t, "listen")
    /\ UNCHANGED <<st, pool, pool_next, listenVars, i, cand, newfd>>

\* ne->sock = cand, and e->pool[idx] = net_tcp_open()
Replenish(t) ==
    /\ pc[t] = "open"
    /\ sock' = [sock EXCEPT ![newfd[t]] = cand[t]]
    /\ \E s \in Socks : /\ Unused(s)
                        /\ pool' = [pool EXCEPT ![i[t]] = s]
                        /\ st' = [st EXCEPT ![s] = "closed"]
    /\ Goto(t, "listen")
    /\ UNCHANGED <<pool_next, listenVars, i, cand, newfd>>

\* Faulty variant of AfterSlot: every scan starts at the first slot.
AfterSlotFirst(k) == 0
AfterSlot(k) == (k + 1) % PoolLen

\* net_tcp_open fails: the slot is empty from now on
NotReplenished(t) ==
    /\ pc[t] = "open"
    /\ sock' = [sock EXCEPT ![newfd[t]] = cand[t]]
    /\ pool' = [pool EXCEPT ![i[t]] = None]
    /\ pool_next' = AfterSlot(i[t])
    /\ Return(t)
    /\ UNCHANGED <<st, listenVars>>

\* net_tcp_listen(e->pool[idx]), pool_next, return
Listen(t) ==
    /\ pc[t] = "listen"
    /\ st' = IF st[pool[i[t]]] = "closed" THEN [st EXCEPT ![pool[i[t]]] = "listen"] ELSE st
    /\ pool_next' = AfterSlot(i[t])
    /\ Return(t)
    /\ UNCHANGED <<pool, listenVars, sock>>

\* close() of an accepted descriptor that accept() has returned
CloseFd(f) ==
    /\ sock[f] \in Socks /\ \A t \in Threads : newfd[t] # f
    /\ st' = [st EXCEPT ![sock[f]] = "gone"]
    /\ sock' = [sock EXCEPT ![f] = FREE]
    /\ UNCHANGED <<pool, pool_next, listenVars, acceptVars>>

-----------------------------------------------------------------------------
(* The peers, seen by the poll task.                                       *)

Segment(s) ==
    /\ \E a \in {<<"listen", "synrcvd">>, <<"synrcvd", "est">>, <<"synrcvd", "listen">>,
                 <<"est", "closewait">>, <<"est", "closed">>, <<"closewait", "closed">>,
                 <<"est", "reset">>, <<"closewait", "reset">>} :
          st[s] = a[1] /\ st' = [st EXCEPT ![s] = a[2]]
    /\ UNCHANGED <<pool, pool_next, listenVars, sock, acceptVars>>

Accept(t) ==
    \/ AcceptCall(t) \/ Found(t) \/ NotThisSlot(t) \/ NoneFound(t) \/ Alloc(t) \/ NoFd(t)
    \/ Replenish(t) \/ NotReplenished(t) \/ Listen(t)

Next ==
    \/ Arm \/ ListenFails \/ OpenFails \/ CloseListen
    \/ \E t \in Threads : Accept(t)
    \/ \E f \in Fds : CloseFd(f)
    \/ \E s \in Socks : Segment(s)

Spec == Init /\ [][Next]_vars

\* a server keeps accepting and closes what it accepted
FairSpec ==
    /\ Spec /\ WF_vars(Arm)
    /\ \A t \in Threads : WF_vars(Accept(t))
    /\ \A f \in Fds : WF_vars(CloseFd(f))
-----------------------------------------------------------------------------
(***************************************************************************)
(* Every smoltcp socket of the listener and of its connections has one     *)
(* owner, a pool slot or a descriptor: accept() moves it from the one to   *)
(* the other as it replenishes the slot, and closing both closes all,      *)
(* wherever listen() or the replenishing failed.                           *)
(***************************************************************************)
owned == [o \in Slots \cup Fds |->
             IF o \in Slots THEN pool[o] ELSE IF sock[o] = FREE THEN None ELSE sock[o]]
liveSocks == {s \in Socks : st[s] # "gone"}
O == INSTANCE Ownership WITH Owners <- Slots \cup Fds, own <- owned, live <- liveSocks
ImplementsOwnership == O!Spec

(***************************************************************************)
(* accept() hands over a socket only after the three-way handshake         *)
(* (lib.rs:548: "True only when the three-way handshake is complete").     *)
(***************************************************************************)
HandshakeComplete ==
    \A t \in Threads :
        pc[t] = "alloc" => st[cand[t]] \in {"est", "closewait", "closed", "reset"}

(***************************************************************************)
(* No connection starves: with a server that keeps accepting and closing,  *)
(* an established connection in any slot is accepted unless it is reset    *)
(* with nothing left to read, whatever the traffic on the other slots      *)
(* (pool_next rotates).                                                    *)
(***************************************************************************)
EveryConnectionAccepted ==
    \A k \in Slots : \A s \in Socks :
        (pool[k] = s /\ is_connected(s)) ~> (pool[k] # s \/ ~is_connected(s))

(***************************************************************************)
(* fd_table.h:40: "a pool of pre-listening sockets on `port` so we can     *)
(* accept multiple connections without races".  No connection is handed to *)
(* two descriptors.                                                        *)
(* The code does not keep this: see Departures in README.md.               *)
(***************************************************************************)
AcceptedOnce == \A f, g \in Fds : sock[f] = sock[g] /\ sock[f] \in Socks => f = g

(***************************************************************************)
(* lwip_compat/Kconfig:20 on the pool: "listen()/accept() is implemented   *)
(* as a pool of pre-listening sockets on the same port".  While the        *)
(* listener is open, not every slot is dead.                               *)
(* The code does not keep this: see Departures in README.md.               *)
(***************************************************************************)
StillListening ==
    listened = "ok" /\ (\A t \in Threads : pc[t] \in {"idle", "scan"}) =>
        \E k \in Slots : pool[k] # None /\ st[pool[k]] # "closed"
=============================================================================
