------------------------------- MODULE Select -------------------------------
(***************************************************************************)
(* select(): a thread that waits on a UDP descriptor, a listener, a        *)
(* loopback UDP descriptor and a TCP connection, then calls accept(),      *)
(* recv(), recvfrom() or send() on those reported, with the peers acting   *)
(* between any two steps.  A probe, and each attempt of a call, is one     *)
(* step: it holds the smoltcp lock, or reads one queue.                    *)
(***************************************************************************)
EXTENDS Naturals, Sequences

CONSTANTS
    rd_in, wr_in,   \* the descriptors asked for
    MaxQ            \* bound: bytes or datagrams queued

\* the descriptors, in the order of their numbers
Watched == <<"udp", "listen", "lo", "tcp">>

VARIABLES
    slot,        \* TCP state of the listener's slot: "listen", "est", "closed"
    lo_rx, udp,  \* datagrams queued on the loopback and the smoltcp UDP socket
    tcp,         \* TCP state of the connection: "est", "closewait", "closed"
    rx, room,    \* its received bytes; its send buffer has space
    at,          \* 0: outside select(); else the number of the next descriptor to probe
    rd, wr,      \* what select() reported and has not been served
    doing        \* the call that waits, <<call, descriptor>>, or <<>>

vars == <<slot, lo_rx, udp, tcp, rx, room, at, rd, wr, doing>>
netVars == <<slot, lo_rx, udp, tcp, rx, room>>

Init ==
    /\ slot = "listen" /\ lo_rx = 0 /\ udp = 0 /\ tcp = "est" /\ rx = 0 /\ room = TRUE
    /\ at = 0 /\ rd = {} /\ wr = {} /\ doing = <<>>

\* may_recv() or may_send()
is_connected(s, n) == s \in {"est", "closewait"} \/ (s # "listen" /\ n > 0)

\* Faulty variant of fd_readable: a connected TCP socket counts as readable.
fd_readableConnected(fd) ==
    CASE fd = "listen" -> is_connected(slot, 0)
      [] fd = "lo" -> lo_rx > 0
      [] fd = "tcp" -> rx > 0 \/ is_connected(tcp, rx)
      [] fd = "udp" -> FALSE

\* e->connected is true of the connection; a zero-length read of UDP never
\* returns more than zero
fd_readable(fd) ==
    CASE fd = "listen" -> is_connected(slot, 0)
      [] fd = "lo" -> lo_rx > 0
      [] fd = "tcp" -> rx > 0 \/ ~is_connected(tcp, rx)
      [] fd = "udp" -> FALSE

\* smoltcp_tcp_send_capacity is 0 unless can_send()
fd_writable(fd) ==
    \/ fd = "tcp" /\ tcp \in {"est", "closewait"} /\ room
    \/ fd \in {"lo", "udp"}
-----------------------------------------------------------------------------
(* The caller                                                              *)

\* Faulty variant of NFds: the loop ends before the highest descriptor.
NFdsShort == Len(Watched) - 1
NFds == Len(Watched)

\* the previous report has been served
Call ==
    /\ at = 0 /\ rd = {} /\ wr = {} /\ doing = <<>>
    /\ at' = 1
    /\ UNCHANGED <<netVars, rd, wr, doing>>

\* The probe of a UDP descriptor is net_udp_recvfrom with no room: it takes a
\* datagram off the queue, and tries again until the tick has passed.
Probe ==
    /\ at \in 1 .. NFds
    /\ LET fd == Watched[at] IN
       /\ rd' = IF fd \in rd_in /\ fd_readable(fd) THEN rd \cup {fd} ELSE rd
       /\ wr' = IF fd \in wr_in /\ fd_writable(fd) THEN wr \cup {fd} ELSE wr
       /\ udp' \in IF fd = "udp" /\ fd \in rd_in /\ udp > 0 THEN 0 .. udp - 1 ELSE {udp}
    /\ at' = at + 1
    /\ UNCHANGED <<slot, lo_rx, tcp, rx, room, doing>>

\* something is ready, or the deadline has passed, or sleep a tick and scan again
EndOfScan ==
    /\ at > NFds
    /\ \/ at' = 0
       \/ rd = {} /\ wr = {} /\ at' = 1
    /\ UNCHANGED <<netVars, rd, wr, doing>>

\* the calls made on a descriptor reported readable
Reads == {<<"accept", "listen">>, <<"recv", "lo">>, <<"recvfrom", "lo">>, <<"recv", "tcp">>}

\* What an attempt of a call finds.  recv() of a UDP descriptor asks the smoltcp
\* socket, and that of a loopback descriptor has no port and receives nothing.
Finds(c) ==
    CASE c = <<"accept", "listen">> -> is_connected(slot, 0)
      [] c = <<"recvfrom", "lo">> -> lo_rx > 0
      [] c = <<"recv", "lo">> -> FALSE
      [] c = <<"recv", "tcp">> -> rx > 0
      [] c = <<"send", "tcp">> -> tcp \in {"est", "closewait"} /\ room

\* The call returns, or waits for progress and tries again; send() also waits
\* with the rest of a message that the buffer has no room for.
Attempt(c) ==
    \/ /\ Finds(c)
       /\ slot' = IF c[2] = "listen" THEN "listen" ELSE slot
       /\ lo_rx' = IF c[2] = "lo" THEN lo_rx - 1 ELSE lo_rx
       /\ rx' = IF c[1] = "recv" THEN 0 ELSE rx
       /\ room' \in IF c[1] = "send" THEN BOOLEAN ELSE {room}
       /\ doing' \in IF c[1] = "send" THEN {<<>>, c} ELSE {<<>>}
    \/ /\ ~Finds(c)
       /\ doing' = c
       /\ UNCHANGED <<slot, lo_rx, rx, room>>

Serve(fd) ==
    /\ at = 0 /\ doing = <<>> /\ fd \in rd
    /\ rd' = rd \ {fd}
    /\ \E c \in Reads : c[2] = fd /\ Attempt(c)
    /\ UNCHANGED <<udp, tcp, at, wr>>

\* sendto() on a UDP descriptor never waits
ServeWrite(fd) ==
    /\ at = 0 /\ doing = <<>> /\ fd \in wr
    /\ wr' = wr \ {fd}
    /\ IF fd = "tcp" THEN Attempt(<<"send", fd>>) ELSE UNCHANGED <<slot, lo_rx, rx, room, doing>>
    /\ UNCHANGED <<udp, tcp, at, rd>>

Retry ==
    /\ doing # <<>> /\ Finds(doing)
    /\ Attempt(doing)
    /\ UNCHANGED <<udp, tcp, at, rd, wr>>

\* the call's deadline has passed: 60 s for accept(), 30 s for recv() and
\* recvfrom(), 5 s for send() unless set, or one attempt when nonblocking
GiveUp ==
    /\ doing # <<>>
    /\ doing' = <<>>
    /\ UNCHANGED <<netVars, at, rd, wr>>

Caller ==
    \/ Call \/ Probe \/ EndOfScan \/ Retry \/ GiveUp
    \/ \E fd \in rd \cup wr : Serve(fd) \/ ServeWrite(fd)
-----------------------------------------------------------------------------
(* The peers, and the threads that send on the loopback                    *)

Traffic ==
    /\ \/ lo_rx < MaxQ /\ lo_rx' = lo_rx + 1 /\ UNCHANGED <<slot, udp, tcp, rx, room>>
       \/ udp < MaxQ /\ udp' = udp + 1 /\ UNCHANGED <<slot, lo_rx, tcp, rx, room>>
       \/ tcp = "est" /\ rx < MaxQ /\ rx' = rx + 1 /\ UNCHANGED <<slot, lo_rx, udp, tcp, room>>
       \/ tcp # "closed" /\ room' = TRUE /\ UNCHANGED <<slot, lo_rx, udp, tcp, rx>>
       \/ /\ \E a \in {<<"est", "closewait">>, <<"est", "closed">>, <<"closewait", "closed">>} :
                tcp = a[1] /\ tcp' = a[2]
          /\ UNCHANGED <<slot, lo_rx, udp, rx, room>>
       \/ /\ \E a \in {<<"listen", "est">>, <<"est", "closed">>} : slot = a[1] /\ slot' = a[2]
          /\ UNCHANGED <<lo_rx, udp, tcp, rx, room>>
    /\ UNCHANGED <<at, rd, wr, doing>>

Next == Caller \/ Traffic

Spec == Init /\ [][Next]_vars

\* the calling thread is scheduled; messages are finite and deadlines pass
Fairness == WF_vars(Caller) /\ WF_vars(GiveUp)
-----------------------------------------------------------------------------
(***************************************************************************)
(* A call on a descriptor select() reported readable waits only when the   *)
(* peer has ended: recv() on a closed connection with nothing left to      *)
(* read, accept() after the reported connection was reset.  recvfrom() of  *)
(* a loopback datagram never waits.  This is so whatever arrived or broke  *)
(* between the probe and the call.  recv() on the loopback descriptor is   *)
(* not covered: see LoopbackRead.                                          *)
(***************************************************************************)
WaitsOnlyAtTheEnd ==
    /\ doing = <<"recv", "tcp">> => rx = 0 /\ tcp = "closed"
    /\ doing = <<"accept", "listen">> => slot = "closed"
    /\ doing # <<"recvfrom", "lo">>

(***************************************************************************)
(* select() misses nothing: bytes on the connection, a loopback datagram   *)
(* and a connection in the pool are each reported, however the traffic on  *)
(* the others falls between the probes and however often it times out.     *)
(***************************************************************************)
EverythingReported ==
    /\ (rx > 0) ~> ("tcp" \in rd)
    /\ (lo_rx > 0) ~> ("lo" \in rd)
    /\ (slot = "est") ~> ("listen" \in rd \/ slot # "est")

(***************************************************************************)
(* select_wrap.c:38: "Also report ready on a half-closed/closing socket so *)
(* the caller can drain the close (read returns 0)".                       *)
(* The code does not keep this: see Departures in README.md.               *)
(***************************************************************************)
HalfClosedReadable == tcp \in {"closewait", "closed"} => fd_readable("tcp")

(***************************************************************************)
(* select_wrap.c:38: "so the caller can drain the close (read returns 0)". *)
(* A recv() that follows the report of a closed connection returns, and    *)
(* does not wait for bytes that cannot come.                               *)
(* The code does not keep this: see Departures in README.md.               *)
(***************************************************************************)
CloseReadReturns == doing # <<"recv", "tcp">>

(***************************************************************************)
(* sock_wrap.c:181: "treating subsequent send()/recv() like sendto/        *)
(* recvfrom".  recv() on a loopback descriptor takes the datagram that     *)
(* select() reported.                                                      *)
(* The code does not keep this: see Departures in README.md.               *)
(***************************************************************************)
LoopbackRead == doing # <<"recv", "lo">>

(***************************************************************************)
(* select_wrap.c:45: "Probe with a zero-length read".  A probe leaves what *)
(* it looks at for the recvfrom() that follows.                            *)
(* The code does not keep this: see Departures in README.md.               *)
(***************************************************************************)
ProbeKeepsDatagrams == [][Probe => udp' >= udp]_vars
=============================================================================
