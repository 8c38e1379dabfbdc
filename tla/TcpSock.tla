------------------------------ MODULE TcpSock ------------------------------
(***************************************************************************)
(* One TCP socket of the native API, net_tcp_..., used by several threads  *)
(* at once, together with the poll task that moves its bytes and the two   *)
(* signals between them: the task notification that kicks the poll task    *)
(* and the event-group bit that wakes threads in wait_progress.            *)
(*                                                                         *)
(* A LOCK..UNLOCK section, a notification and an event-group call are one  *)
(* step each.  The TCP engine is smoltcp, which is external: a poll does   *)
(* to the socket what the glue relies on.  The peer, the network and the   *)
(* link are choices made in the poll: which segment came, if any, and how  *)
(* much could be transmitted, if anything.  No thread resolves names: only *)
(* the poll task polls smoltcp.                                            *)
(***************************************************************************)
EXTENDS Naturals, Sequences

CONSTANTS
    Threads,      \* the threads that share the socket
    TxCap,        \* TCP_TX
    RxCap,        \* TCP_RX
    MaxLen,       \* bound: longest buffer passed to one net_tcp_send
    Lens          \* the lengths of the buffers passed to net_tcp_send

ASSUME TcpSockAssumption ==
    /\ TxCap \in Nat \ {0} /\ RxCap \in Nat \ {0}
    /\ MaxLen \in Nat /\ Lens \subseteq 1 .. MaxLen

VARIABLES
    tcp,        \* the socket's TCP state, "gone" once it left the socket set
    synDue,     \* a SYN waits to be transmitted
    winDue,     \* a window update waits to be transmitted
    txbuf,      \* unacknowledged bytes: whose, and which byte of the buffer
    sent,       \* how many of them were transmitted
    rxlen,      \* bytes in the receive buffer
    ppc,        \* where the poll task is
    notified,   \* its notification value is not zero
    deadline,   \* it waits with a finite timeout
    bit,        \* PROGRESS_BIT
    blocked,    \* the threads blocked in xEventGroupWaitBits
    pc,         \* pc[t]: where thread t is
    len,        \* len[t]: the buffer length of its net_tcp_send
    total,      \* total[t]: the bytes accepted so far
    expired     \* expired[t]: the deadline of the call has passed

sockVars == <<tcp, synDue, winDue, txbuf, sent, rxlen>>
pollVars == <<ppc, deadline>>
waitVars == <<bit, blocked>>
callVars == <<len, total, expired>>
vars == <<sockVars, pollVars, notified, waitVars, pc, callVars>>

\* smoltcp's is_active, can_send
is_active == tcp \notin {"closed", "listen", "gone"}
can_send == tcp \in {"est", "closewait"}

\* the socket was opened (smoltcp_tcp_open) and nothing else happened
Init ==
    /\ tcp = "closed" /\ synDue = FALSE /\ winDue = FALSE
    /\ txbuf = <<>> /\ sent = 0 /\ rxlen = 0
    /\ ppc = "poll" /\ notified = FALSE /\ deadline = FALSE
    /\ bit = FALSE /\ blocked = {}
    /\ pc = [t \in Threads |-> "idle"]
    /\ len = [t \in Threads |-> 0]
    /\ total = [t \in Threads |-> 0]
    /\ expired = [t \in Threads |-> FALSE]

Goto(t, l) == pc' = [pc EXCEPT ![t] = l]

\* the call of t ends, and with it the call's variables
Return(t) ==
    /\ Goto(t, "idle")
    /\ len' = [len EXCEPT ![t] = 0]
    /\ total' = [total EXCEPT ![t] = 0]
    /\ expired' = [expired EXCEPT ![t] = FALSE]

\* net_stack_kick_poll
kick_poll == notified' = TRUE

\* smoltcp's reset of a socket that is about to connect or listen
ClearBuffers == txbuf' = <<>> /\ sent' = 0 /\ rxlen' = 0 /\ winDue' = FALSE

-----------------------------------------------------------------------------
(* net_tcp_connect, net_tcp_listen, net_tcp_close                          *)

\* smoltcp_tcp_connect succeeds on a closed socket; the poll task is not kicked
Connect(t) ==
    /\ pc[t] = "idle"
    /\ tcp = "closed"
    /\ tcp' = "synsent" /\ synDue' = TRUE
    /\ ClearBuffers
    /\ Goto(t, "connect")
    /\ UNCHANGED <<pollVars, notified, waitVars, callVars>>

\* while (now < deadline) { active = is_active(); if (active) return ESP_OK; ... }
ConnectOk(t) ==
    /\ pc[t] = "connect"
    /\ ~expired[t]
    /\ is_active
    /\ Return(t)
    /\ UNCHANGED <<sockVars, pollVars, notified, waitVars>>

ConnectTimeout(t) ==
    /\ pc[t] = "connect"
    /\ expired[t]
    /\ Return(t)
    /\ UNCHANGED <<sockVars, pollVars, notified, waitVars>>

Listen(t) ==
    /\ pc[t] = "idle"
    /\ tcp = "closed"
    /\ tcp' = "listen"
    /\ ClearBuffers
    /\ UNCHANGED <<synDue, pollVars, notified, waitVars, pc, callVars>>

\* close() and, in the same section, sockets.remove()
Close(t) ==
    /\ pc[t] = "idle"
    /\ tcp' = "gone" /\ synDue' = FALSE
    /\ ClearBuffers
    /\ UNCHANGED <<pollVars, notified, waitVars, pc, callVars>>

-----------------------------------------------------------------------------
(* net_tcp_send                                                            *)

Send(t) ==
    /\ pc[t] = "idle"
    /\ \E n \in Lens : len' = [len EXCEPT ![t] = n]
    /\ Goto(t, "send")
    /\ UNCHANGED <<sockVars, pollVars, notified, waitVars, total, expired>>

\* Faulty variant of Room: the capacity, whatever is buffered.
RoomAll == IF can_send THEN TxCap ELSE 0

\* what send_slice accepts of the rest of the buffer
Room == IF can_send THEN TxCap - Len(txbuf) ELSE 0
Accepts(t) == IF len[t] - total[t] <= Room THEN len[t] - total[t] ELSE Room

Bytes(t, first, n) == [k \in 1 .. n |-> [by |-> t, off |-> first + k - 1]]

\* Faulty variants of SendSome: every piece starts at the front of the buffer
\* again (buf instead of buf + total); the kick is forgotten.
SendSomeRestart(t) ==
    /\ pc[t] = "send"
    /\ Accepts(t) > 0
    /\ txbuf' = txbuf \o Bytes(t, 1, Accepts(t))
    /\ total' = [total EXCEPT ![t] = @ + Accepts(t)]
    /\ Goto(t, "sendKick")
    /\ UNCHANGED <<tcp, synDue, winDue, sent, rxlen, pollVars, notified, waitVars, len, expired>>

SendSomeNoKick(t) ==
    /\ pc[t] = "send"
    /\ Accepts(t) > 0
    /\ txbuf' = txbuf \o Bytes(t, total[t] + 1, Accepts(t))
    /\ IF Accepts(t) = len[t] - total[t] THEN Return(t)
       ELSE /\ total' = [total EXCEPT ![t] = @ + Accepts(t)]
            /\ UNCHANGED <<pc, len, expired>>
    /\ UNCHANGED <<tcp, synDue, winDue, sent, rxlen, pollVars, notified, waitVars>>

\* n > 0: the bytes are in the transmit buffer; next, the kick
SendSome(t) ==
    /\ pc[t] = "send"
    /\ Accepts(t) > 0
    /\ txbuf' = txbuf \o Bytes(t, total[t] + 1, Accepts(t))
    /\ total' = [total EXCEPT ![t] = @ + Accepts(t)]
    /\ Goto(t, "sendKick")
    /\ UNCHANGED <<tcp, synDue, winDue, sent, rxlen, pollVars, notified, waitVars, len, expired>>

SendKick(t) ==
    /\ pc[t] = "sendKick"
    /\ kick_poll
    /\ IF total[t] < len[t] THEN Goto(t, "send") /\ UNCHANGED callVars ELSE Return(t)
    /\ UNCHANGED <<sockVars, pollVars, waitVars>>

\* n <= 0 (buffer full, or no connection)
SendNone(t) ==
    /\ pc[t] = "send"
    /\ Accepts(t) = 0
    /\ Goto(t, "sendFull")
    /\ UNCHANGED <<sockVars, pollVars, notified, waitVars, callVars>>

\* if (now >= deadline) break
SendGiveUp(t) ==
    /\ pc[t] = "sendFull"
    /\ expired[t]
    /\ Return(t)
    /\ UNCHANGED <<sockVars, pollVars, notified, waitVars>>

\* Faulty variant of SendRetry: the deadline is not looked at.
SendRetryForever(t) ==
    /\ pc[t] = "sendFull"
    /\ kick_poll
    /\ Goto(t, "sendWait")
    /\ UNCHANGED <<sockVars, pollVars, waitVars, callVars>>

SendRetry(t) ==
    /\ pc[t] = "sendFull"
    /\ ~expired[t]
    /\ kick_poll
    /\ Goto(t, "sendWait")
    /\ UNCHANGED <<sockVars, pollVars, waitVars, callVars>>

-----------------------------------------------------------------------------
(* net_tcp_recv                                                            *)

Recv(t) ==
    /\ pc[t] = "idle"
    /\ Goto(t, "recv")
    /\ UNCHANGED <<sockVars, pollVars, notified, waitVars, callVars>>

\* n > 0: recv_slice took bytes; a buffer that was full owes a window update
RecvSome(t) ==
    /\ pc[t] = "recv"
    /\ ~expired[t]
    /\ \E n \in 1 .. rxlen : rxlen' = rxlen - n
    /\ winDue' = (winDue \/ (rxlen = RxCap /\ tcp = "est"))
    /\ Goto(t, "recvKick")
    /\ UNCHANGED <<tcp, synDue, txbuf, sent, pollVars, notified, waitVars, callVars>>

RecvKick(t) ==
    /\ pc[t] = "recvKick"
    /\ kick_poll
    /\ Return(t)
    /\ UNCHANGED <<sockVars, pollVars, waitVars>>

RecvNone(t) ==
    /\ pc[t] = "recv"
    /\ ~expired[t]
    /\ rxlen = 0
    /\ Goto(t, "recvWait")
    /\ UNCHANGED <<sockVars, pollVars, notified, waitVars, callVars>>

\* while (now <= deadline) is over: return 0
RecvTimeout(t) ==
    /\ pc[t] = "recv"
    /\ expired[t]
    /\ Return(t)
    /\ UNCHANGED <<sockVars, pollVars, notified, waitVars>>

-----------------------------------------------------------------------------
(* net_stack_wait_progress                                                 *)

WaitPoints == {"sendWait", "recvWait"}
AfterWait(l) == IF l = "sendWait" THEN "send" ELSE "recv"

\* xEventGroupWaitBits finds the bit set (it clears it) or blocks
WaitBits(t) ==
    /\ pc[t] \in WaitPoints
    /\ t \notin blocked
    /\ IF bit
       THEN Goto(t, AfterWait(pc[t])) /\ bit' = FALSE /\ UNCHANGED blocked
       ELSE blocked' = blocked \cup {t} /\ UNCHANGED <<pc, bit>>
    /\ UNCHANGED <<sockVars, pollVars, notified, callVars>>

\* the 50 ms cap
WaitExpires(t) ==
    /\ t \in blocked
    /\ Goto(t, AfterWait(pc[t]))
    /\ blocked' = blocked \ {t}
    /\ UNCHANGED <<sockVars, pollVars, notified, bit, callVars>>

\* the tick count passes the deadline of t's call
Tick(t) ==
    /\ pc[t] # "idle"
    /\ ~expired[t]
    /\ expired' = [expired EXCEPT ![t] = TRUE]
    /\ UNCHANGED <<sockVars, pollVars, notified, waitVars, pc, len, total>>

-----------------------------------------------------------------------------
(* The poll task: poll_iface, then the wait of net_stack_task.             *)

Segments == {"none", "syn", "synack", "ack", "data", "fin", "rst"}

\* the state after segment s
Received(s) ==
    CASE s = "syn" /\ tcp = "listen" -> "synrcvd"
      [] s = "synack" /\ tcp = "synsent" /\ ~synDue -> "est"
      [] s = "ack" /\ tcp = "synrcvd" -> "est"
      [] s = "fin" /\ tcp \in {"synrcvd", "est"} -> "closewait"
      [] s = "rst" /\ tcp = "synrcvd" -> "listen"
      [] s = "rst" /\ tcp = "synsent" /\ ~synDue -> "closed"
      [] s = "rst" /\ can_send -> "closed"
      [] OTHER -> tcp

\* how many transmitted bytes segment s may acknowledge
Acks(s) == IF s \in {"ack", "data", "fin"} /\ can_send THEN 0 .. sent ELSE {0}

\* interface.poll: ingress of at most one frame, then egress as far as the
\* link, the neighbor cache and the peer's window allow.  What a reset
\* connection had buffered for the peer is never sent
PollIface ==
    /\ ppc = "poll"
    /\ \E s \in Segments : \E n \in Acks(s) :
          /\ tcp' = Received(s)
          /\ \/ /\ tcp' = "closed"
                /\ txbuf' = <<>> /\ sent' = 0
             \/ /\ tcp' # "closed"
                /\ txbuf' = SubSeq(txbuf, n + 1, Len(txbuf))
                /\ sent' \in IF can_send THEN sent - n .. Len(txbuf) - n ELSE {sent}
          /\ rxlen' = IF s = "data" /\ tcp = "est" /\ rxlen < RxCap
                      THEN rxlen + 1 ELSE rxlen
    /\ synDue' \in {FALSE, synDue}
    /\ winDue' \in {FALSE, winDue /\ tcp' = "est"}
    /\ ppc' = "signal"
    /\ UNCHANGED <<deadline, notified, waitVars, pc, callVars>>

\* Faulty variant of SetBits: only threads already blocked are woken.
SetBitsPulse ==
    /\ ppc = "signal"
    /\ pc' = [t \in Threads |-> IF t \in blocked THEN AfterWait(pc[t]) ELSE pc[t]]
    /\ bit' = FALSE
    /\ blocked' = {}
    /\ ppc' = "delay"
    /\ UNCHANGED <<sockVars, deadline, notified, callVars>>

\* xEventGroupSetBits wakes every blocked thread, and the bit is then cleared
\* on their behalf; with nobody blocked it stays set
SetBits ==
    /\ ppc = "signal"
    /\ pc' = [t \in Threads |-> IF t \in blocked THEN AfterWait(pc[t]) ELSE pc[t]]
    /\ bit' = (blocked = {})
    /\ blocked' = {}
    /\ ppc' = "delay"
    /\ UNCHANGED <<sockVars, deadline, notified, callVars>>

Unsent == can_send /\ sent < Len(txbuf)
SynOwed == tcp = "synsent" /\ synDue
WindowOwed == tcp = "est" /\ winDue

\* poll_delay is finite while smoltcp has something to send or to retransmit
HasTimer ==
    \/ WindowOwed
    \/ tcp \in {"synsent", "synrcvd"}
    \/ can_send /\ txbuf # <<>>

\* other sockets of the interface may have timers as well
ComputeWait ==
    /\ ppc = "delay"
    /\ deadline' \in IF HasTimer THEN {TRUE} ELSE BOOLEAN
    /\ ppc' = "wait"
    /\ UNCHANGED <<sockVars, notified, waitVars, pc, callVars>>

\* ulTaskNotifyTake returns
Woken ==
    /\ ppc = "wait"
    /\ notified \/ deadline
    /\ notified' = FALSE
    /\ deadline' = FALSE
    /\ ppc' = "poll"
    /\ UNCHANGED <<sockVars, waitVars, pc, callVars>>

\* a frame arrives, the link changes or another socket's user kicks
Notify ==
    /\ kick_poll
    /\ UNCHANGED <<sockVars, pollVars, waitVars, pc, callVars>>

-----------------------------------------------------------------------------
Call(t) == Connect(t) \/ Listen(t) \/ Send(t) \/ Recv(t) \/ Close(t)

\* what a thread inside a call may do
Proceed(t) ==
    \/ ConnectOk(t) \/ ConnectTimeout(t)
    \/ SendSome(t) \/ SendKick(t) \/ SendNone(t) \/ SendGiveUp(t) \/ SendRetry(t)
    \/ RecvSome(t) \/ RecvKick(t) \/ RecvNone(t) \/ RecvTimeout(t)
    \/ WaitBits(t)

PollTask == PollIface \/ SetBits \/ ComputeWait \/ Woken

Next ==
    \/ \E t \in Threads : Call(t) \/ Proceed(t) \/ WaitExpires(t) \/ Tick(t)
    \/ PollTask
    \/ Notify

Spec == Init /\ [][Next]_vars

(***************************************************************************)
(* Ready threads run, the tick interrupt never stops, and a 50 ms wait     *)
(* ends.  Nothing makes the peer answer.                                   *)
(***************************************************************************)
Fairness ==
    /\ WF_vars(PollTask)
    /\ \A t \in Threads : WF_vars(Proceed(t)) /\ WF_vars(WaitExpires(t)) /\ WF_vars(Tick(t))

FairSpec == Spec /\ Fairness
-----------------------------------------------------------------------------
TypeOK ==
    /\ tcp \in {"closed", "listen", "synsent", "synrcvd", "est", "closewait", "gone"}
    /\ synDue \in BOOLEAN /\ winDue \in BOOLEAN
    /\ txbuf \in Seq([by : Threads, off : 1 .. MaxLen]) /\ Len(txbuf) <= TxCap
    /\ sent \in 0 .. Len(txbuf)
    /\ rxlen \in 0 .. RxCap
    /\ ppc \in {"poll", "signal", "delay", "wait"}
    /\ notified \in BOOLEAN /\ deadline \in BOOLEAN /\ bit \in BOOLEAN
    /\ pc \in [Threads -> {"idle", "connect", "send", "sendKick", "sendFull", "sendWait",
                           "recv", "recvKick", "recvWait"}]
    /\ len \in [Threads -> 0 .. MaxLen]
    /\ total \in [Threads -> 0 .. MaxLen]
    /\ \A t \in Threads : total[t] <= len[t]
    /\ expired \in [Threads -> BOOLEAN]
    /\ blocked \subseteq {t \in Threads : pc[t] \in WaitPoints}

\* outside net_tcp_send its variables are zero; with TypeOK and NotStranded the
\* inductive invariant of TcpSockProofs
CallLocals ==
    \A t \in Threads :
        pc[t] \notin {"send", "sendKick", "sendFull", "sendWait"} => len[t] = 0 /\ total[t] = 0

\* the poll task sleeps until somebody notifies it
Asleep == ppc = "wait" /\ ~notified /\ ~deadline

(***************************************************************************)
(* Data that net_tcp_send queued, and the window update that net_tcp_recv  *)
(* makes due, never wait for a poll task that sleeps without a timeout,    *)
(* unless the thread that caused them is still about to kick it            *)
(* (net_stack_kick_poll: "Wake the poll task immediately").                *)
(***************************************************************************)
NotStranded ==
    Asleep /\ (Unsent \/ WindowOwed) =>
        \E t \in Threads : pc[t] \in {"sendKick", "recvKick"}

\* the transmit buffer's bytes of thread t, in order: the positions
Mine(t) == {i \in DOMAIN txbuf : txbuf[i].by = t}

(***************************************************************************)
(* Concurrent net_tcp_send calls that a full buffer cuts into pieces still *)
(* put each buffer into the stream in order, without a gap or repetition,  *)
(* and `total`, the value returned, says how far each has come.            *)
(***************************************************************************)
SendKeepsOrder ==
    \A t \in Threads : \A j \in Mine(t) :
        /\ \A i \in Mine(t) : (i < j /\ \A k \in Mine(t) : ~(i < k /\ k < j))
              => txbuf[j].off \in {1, txbuf[i].off + 1}
        /\ (\A k \in Mine(t) : k <= j) /\ total[t] > 0 => txbuf[j].off = total[t]

(***************************************************************************)
(* With one thread using the socket, it is never blocked in wait_progress  *)
(* while what it waits for is there: the bit is a latch, so a poll between *)
(* the failed attempt and the wait is not missed.                          *)
(***************************************************************************)
NoStalledWaiter ==
    \A t \in blocked : ppc # "signal" =>
        /\ pc[t] = "recvWait" => rxlen = 0
        /\ pc[t] = "sendWait" => Accepts(t) = 0

(***************************************************************************)
(* Every call returns: neither a dead connection nor a silent peer nor a   *)
(* poll task that makes no progress keeps net_tcp_connect, net_tcp_send or *)
(* net_tcp_recv from reaching its deadline.                                *)
(***************************************************************************)
CallsReturn == \A t \in Threads : pc[t] # "idle" ~> pc[t] = "idle"

(***************************************************************************)
(* esp_smoltcp_sock.c:55, in net_tcp_connect: "Poll-wait for the           *)
(* handshake": a connect that returns ESP_OK has seen it complete.         *)
(* The code does not keep this: see Departures in README.md.               *)
(***************************************************************************)
ConnectedIsEstablished ==
    [][\A t \in Threads : ConnectOk(t) => can_send]_vars

(***************************************************************************)
(* esp_smoltcp_internal.h:23 on net_stack_kick_poll: "call after any       *)
(* socket-state change that should trigger TX": the SYN of a connect that  *)
(* has returned does not wait for a poll task asleep without a timeout.    *)
(* The code does not keep this: see Departures in README.md.               *)
(***************************************************************************)
SynNotStranded == ~(Asleep /\ SynOwed /\ \A t \in Threads : pc[t] # "connect")

(***************************************************************************)
(* sock_wrap.c:299, in shutdown: "smoltcp's TCP socket close() is graceful *)
(* (sends FIN)": closing a connection does not discard bytes that send     *)
(* accepted and the poll task has yet to transmit.                         *)
(* The code does not keep this: see Departures in README.md.               *)
(***************************************************************************)
GracefulClose == [][\A t \in Threads : Close(t) => ~Unsent]_vars

(***************************************************************************)
(* esp_smoltcp.c:280, in net_stack_wait_progress: "each wait represents    *)
(* one full poll cycle since the wait started".  At the least, a wait that *)
(* ends has blocked, to be woken by the poll task or by its timeout.       *)
(* The code does not keep this: see Departures in README.md.               *)
(***************************************************************************)
FullCycleSinceWait ==
    [][\A t \in Threads : pc[t] \in WaitPoints /\ pc'[t] \notin WaitPoints => t \in blocked]_vars
=============================================================================
