--------------------------- MODULE BsdCallsProofs ---------------------------
(***************************************************************************)
(* The BSD wrappers, for any threads, entries and sockets: a table on      *)
(* which connect() is called once per socket implements Ownership and      *)
(* leaves no socket open, no entry keeps a closed socket, and a call on    *)
(* what select() reported readable waits only when the peer has ended.     *)
(* Together they are what holds of BsdCalls.                               *)
(***************************************************************************)
EXTENDS BsdCalls, TLAPS

TypeOK ==
    /\ kind \in [Fds -> {"free", "tcp", "udp"}]
    /\ sock \in [Fds -> Socks \cup {None}]
    /\ connected \in [Fds -> BOOLEAN]
    /\ open \subseteq Socks
    /\ pc \in [Threads -> {"idle", "udpOpen", "bindOpen", "connecting", "shut", "close"}]
    /\ fd \in [Threads -> Fds \cup {None}]

\* one call at a time on an entry, and only on an allocated one
OneCall ==
    /\ \A t \in Threads : IF pc[t] = "idle" THEN fd[t] = None
                          ELSE fd[t] \in Fds /\ kind[fd[t]] # "free"
    /\ \A t, u \in Threads : fd[t] = fd[u] /\ fd[t] # None => t = u

\* what a call in progress has done to its entry's socket
InCall ==
    \A t \in Threads :
        /\ pc[t] \in {"udpOpen", "bindOpen", "shut"} => sock[fd[t]] \notin open
        /\ pc[t] = "udpOpen" => sock[fd[t]] = None
        /\ pc[t] \in {"connecting", "close"} => sock[fd[t]] \in open \cup {None}

\* no two entries name one open socket, no free entry names one
Distinct ==
    /\ \A f \in Fds : kind[f] = "free" => sock[f] \notin open
    /\ \A f, g \in Fds : sock[f] = sock[g] /\ sock[f] \in open => f = g

IndInv == TypeOK /\ OneCall /\ InCall /\ Distinct /\ NoDanglingHandle

LEMMA InitInv == Init => IndInv
  BY FdTableAssumption DEF Init, IndInv, TypeOK, OneCall, InCall, Distinct, NoDanglingHandle

\* Every step of every thread keeps the inductive invariant.
LEMMA NextInv ==
    ASSUME IndInv, [Next]_vars
    PROVE  IndInv'
<1> USE FdTableAssumption
    DEF IndInv, TypeOK, OneCall, InCall, Distinct, NoDanglingHandle, Enter, Idle, Return, NewSock
<1>1. ASSUME NEW t \in Threads, Alloc(t) PROVE IndInv'
  BY <1>1 DEF Alloc
<1>2. ASSUME NEW t \in Threads, UdpOpen(t) PROVE IndInv'
  BY <1>2 DEF UdpOpen
<1>3. ASSUME NEW t \in Threads, UdpOpenFails(t) PROVE IndInv'
  BY <1>3 DEF UdpOpenFails
<1>4. ASSUME NEW t \in Threads, Bind(t) PROVE IndInv'
  BY <1>4 DEF Bind
<1>5. ASSUME NEW t \in Threads, Connect(t) PROVE IndInv'
  BY <1>5 DEF Connect
<1>6. ASSUME NEW t \in Threads, ConnectReturns(t) PROVE IndInv'
  BY <1>6 DEF ConnectReturns
<1>7. ASSUME NEW t \in Threads, Shutdown(t) PROVE IndInv'
  BY <1>7 DEF Shutdown
<1>8. ASSUME NEW t \in Threads, ShutdownEnds(t) PROVE IndInv'
  BY <1>8 DEF ShutdownEnds
<1>9. ASSUME NEW t \in Threads, Close(t) PROVE IndInv'
  BY <1>9 DEF Close
<1>10. ASSUME NEW t \in Threads, Free(t) PROVE IndInv'
  BY <1>10 DEF Free
<1>11. CASE UNCHANGED vars
  BY <1>11 DEF vars
<1> QED
  BY <1>1, <1>2, <1>3, <1>4, <1>5, <1>6, <1>7, <1>8, <1>9, <1>10, <1>11 DEF Next

\* Every step is an abstract opening or closing, or changes no owner.
LEMMA StepRefines ==
    ASSUME Reconnect = FALSE, IndInv, [Next]_vars
    PROVE  [O!Next]_(O!vars)
<1> USE FdTableAssumption DEF IndInv, TypeOK, OneCall, Enter, Idle, Return, owned, O!vars
<1>1. ASSUME NEW f \in Fds, NEW s \in NewSock, sock[f] \notin open,
             sock' = [sock EXCEPT ![f] = s], open' = open \cup {s}
      PROVE  O!Next
  <2>1. O!Open(f)
    BY <1>1 DEF O!Open, NewSock, Distinct
  <2> QED
    BY <2>1 DEF O!Next
<1>2. ASSUME NEW f \in Fds, sock' = sock, open' = open \ {sock[f]}
      PROVE  O!Next
  <2>1. O!Close({f})
    BY <1>2 DEF O!Close, Distinct
  <2> QED
    BY <2>1 DEF O!Next
<1>3. ASSUME NEW f \in Fds, sock[f] \notin open, sock' = [sock EXCEPT ![f] = None], open' = open
      PROVE  UNCHANGED O!vars
  BY <1>3
<1>4. ASSUME NEW t \in Threads, Alloc(t) PROVE UNCHANGED O!vars
  BY <1>3, <1>4 DEF Alloc, Distinct
<1>5. ASSUME NEW t \in Threads, UdpOpen(t) PROVE O!Next
  BY <1>1, <1>5 DEF UdpOpen, InCall
<1>6. ASSUME NEW t \in Threads, UdpOpenFails(t) PROVE UNCHANGED O!vars
  BY <1>3, <1>6 DEF UdpOpenFails, InCall
<1>7. ASSUME NEW t \in Threads, Bind(t) PROVE O!Next
  BY <1>2, <1>7 DEF Bind
<1>8. ASSUME NEW t \in Threads, Connect(t) PROVE O!Next
  <2>1. PICK f \in Fds, s \in NewSock :
           sock[f] = None /\ sock' = [sock EXCEPT ![f] = s] /\ open' = open \cup {s}
    BY <1>8, Zenon DEF Connect
  <2> QED
    BY <2>1, <1>1
<1>9. ASSUME NEW t \in Threads, ConnectReturns(t) PROVE UNCHANGED O!vars
  BY <1>9 DEF ConnectReturns
<1>10. ASSUME NEW t \in Threads, Shutdown(t) PROVE O!Next
  BY <1>2, <1>10 DEF Shutdown
<1>11. ASSUME NEW t \in Threads, ShutdownEnds(t) PROVE UNCHANGED O!vars
  BY <1>3, <1>11 DEF ShutdownEnds, InCall
<1>12. ASSUME NEW t \in Threads, Close(t) PROVE UNCHANGED O!vars
  BY <1>12 DEF Close
<1>13. ASSUME NEW t \in Threads, Free(t) PROVE O!Next
  BY <1>2, <1>13 DEF Free
<1>14. CASE UNCHANGED vars
  BY <1>14 DEF vars
<1> QED
  BY <1>4, <1>5, <1>6, <1>7, <1>8, <1>9, <1>10, <1>11, <1>12, <1>13, <1>14 DEF Next

\* socket(), bind(), connect(), shutdown() and close() implement Ownership for
\* any number of threads and descriptors, as long as connect() is not called on a
\* descriptor that has a socket, not even to retry a connect() that failed: no
\* smoltcp socket leaks and none is closed under another entry.
THEOREM FdTableOwns ==
    ASSUME Reconnect = FALSE
    PROVE  Spec => ImplementsOwnership
<1>1. Init => O!Init
  BY FdTableAssumption DEF Init, O!Init, owned
<1>2. IndInv /\ [Next]_vars => IndInv' /\ [O!Next]_(O!vars)
  BY NextInv, StepRefines
<1> QED
  BY <1>1, <1>2, InitInv, PTL DEF Spec, ImplementsOwnership, O!Spec

\* An allocated entry that no call is using names an open socket or none: what
\* send() and recv() find in it is never a socket already closed, even after a
\* second connect().
THEOREM HandlesLive == Spec => []NoDanglingHandle
<1>1. IndInv /\ [Next]_vars => IndInv'
  BY NextInv
<1>2. IndInv => NoDanglingHandle
  BY DEF IndInv
<1> QED
  BY <1>1, <1>2, InitInv, PTL DEF Spec

\* fd_table.h:66, for any threads and entries: once every entry is free no smoltcp
\* socket is left open, as long as connect() is not called on a descriptor that
\* has a socket, connected or left by a failed connect().
THEOREM NothingLeftOpen ==
    ASSUME Reconnect = FALSE
    PROVE  Spec => []FreeClosesOwned
<1>1. Spec => []O!ExactlyOne
  <2>1. None \notin Socks
    BY FdTableAssumption
  <2>2. O!Spec => []O!ExactlyOne
    BY <2>1, O!OneOwnerEach, Zenon
  <2> QED
    BY <2>2, FdTableOwns, PTL DEF ImplementsOwnership
<1>2. IndInv /\ [Next]_vars => IndInv'
  BY NextInv
<1>3. IndInv /\ O!ExactlyOne => FreeClosesOwned
  BY DEF IndInv, Distinct, O!ExactlyOne, owned, FreeClosesOwned
<1> QED
  BY <1>1, <1>2, <1>3, InitInv, PTL DEF Spec

-----------------------------------------------------------------------------
(* select().                                                               *)

Accept == <<"accept", "listen">>
RecvLo == <<"recv", "lo">>
RecvfromLo == <<"recvfrom", "lo">>
RecvTcp == <<"recv", "tcp">>
SendTcp == <<"send", "tcp">>

SelType ==
    /\ tcp \in {"est", "closewait", "closed"}
    /\ slot \in {"listen", "est", "closed"}
    /\ lo_rx \in Nat /\ rx \in Nat
    /\ doing \in {<<>>, Accept, RecvLo, RecvfromLo, RecvTcp, SendTcp}

\* what select() reported and has not been served is still there, or has ended
Reported ==
    /\ "tcp" \in rd => rx > 0 \/ tcp = "closed"
    /\ "lo" \in rd => lo_rx > 0
    /\ "listen" \in rd => slot # "listen"

\* WaitsOnlyAtTheEnd in the names above
Waits ==
    /\ doing = RecvTcp => rx = 0 /\ tcp = "closed"
    /\ doing = Accept => slot = "closed"
    /\ doing # RecvfromLo

SelInv == SelType /\ Reported /\ Waits

\* The calls are different, with their parts.
LEMMA Calls ==
    /\ Accept[1] = "accept" /\ Accept[2] = "listen"
    /\ RecvLo[1] = "recv" /\ RecvLo[2] = "lo"
    /\ RecvfromLo[1] = "recvfrom" /\ RecvfromLo[2] = "lo"
    /\ RecvTcp[1] = "recv" /\ RecvTcp[2] = "tcp"
    /\ SendTcp[1] = "send" /\ SendTcp[2] = "tcp"
    /\ <<>> \notin {Accept, RecvLo, RecvfromLo, RecvTcp, SendTcp}
    /\ Accept \notin {RecvLo, RecvfromLo, RecvTcp, SendTcp}
    /\ RecvLo \notin {RecvfromLo, RecvTcp, SendTcp}
    /\ RecvfromLo \notin {RecvTcp, SendTcp}
    /\ RecvTcp # SendTcp
  BY DEF Accept, RecvLo, RecvfromLo, RecvTcp, SendTcp

\* What an attempt of each call finds.
LEMMA FindsEach ==
    /\ SelType => (Sel!Finds(Accept) <=> slot = "est")
    /\ ~Sel!Finds(RecvLo)
    /\ Sel!Finds(RecvfromLo) <=> lo_rx > 0
    /\ Sel!Finds(RecvTcp) <=> rx > 0
<1>1. Sel!Finds(Accept) = Sel!is_connected(slot, 0)
  BY Calls DEF Sel!Finds, Accept
<1>2. SelType => (Sel!is_connected(slot, 0) <=> slot = "est")
  BY DEF SelType, Sel!is_connected
<1>3. Sel!Finds(RecvLo) = FALSE
  BY Calls DEF Sel!Finds, RecvLo, Accept, RecvfromLo
<1>4. Sel!Finds(RecvfromLo) = (lo_rx > 0)
  BY Calls DEF Sel!Finds, RecvfromLo, Accept
<1>5. Sel!Finds(RecvTcp) = (rx > 0)
  BY Calls DEF Sel!Finds, RecvTcp, Accept, RecvfromLo, RecvLo
<1> QED
  BY <1>1, <1>2, <1>3, <1>4, <1>5

\* A call on a reported descriptor, in its first attempt, takes what is its own
\* descriptor's and waits only if the peer has ended.
LEMMA ServeKeeps ==
    ASSUME NEW f, SelInv, Sel!Serve(f)
    PROVE  SelInv'
<1> USE DEF SelInv, SelType, Reported, Waits
<1>1. PICK c \in {Accept, RecvLo, RecvfromLo, RecvTcp} : c[2] = f /\ Sel!Attempt(c)
  BY DEF Sel!Serve, Sel!Reads, Accept, RecvLo, RecvfromLo, RecvTcp
<1>2. f \in rd /\ rd' = rd \ {f} /\ tcp' = tcp
  BY DEF Sel!Serve
<1>3. CASE c = Accept
  BY <1>1, <1>2, <1>3, Calls, FindsEach DEF Sel!Attempt
<1>4. CASE c = RecvLo
  BY <1>1, <1>2, <1>4, Calls, FindsEach DEF Sel!Attempt
<1>5. CASE c = RecvfromLo
  BY <1>1, <1>2, <1>5, Calls, FindsEach DEF Sel!Attempt
<1>6. CASE c = RecvTcp
  BY <1>1, <1>2, <1>6, Calls, FindsEach DEF Sel!Attempt
<1> QED
  BY <1>1, <1>3, <1>4, <1>5, <1>6

\* send() touches nothing that a report or a waiting read is about.
LEMMA SendKeeps ==
    ASSUME SelInv, Sel!Attempt(SendTcp), rd' = rd, tcp' = tcp
    PROVE  SelInv'
  BY Calls DEF SelInv, SelType, Reported, Waits, Sel!Attempt

\* A waiting call that finds something at last is a send(): what a waiting read
\* asks for cannot come any more.
LEMMA RetryKeeps ==
    ASSUME SelInv, Sel!Retry
    PROVE  SelInv'
<1>1. Sel!Finds(doing) /\ doing # <<>>
  BY DEF Sel!Retry
<1>2. doing = SendTcp
  BY <1>1, FindsEach DEF SelInv, SelType, Waits
<1>3. Sel!Attempt(SendTcp) /\ rd' = rd /\ tcp' = tcp
  BY <1>2 DEF Sel!Retry
<1> QED
  BY <1>3, SendKeeps

\* Every step of select()'s caller and of the peers keeps the reports true: only
\* serving a report takes away what it said.
LEMMA NextReport == SelInv /\ [Sel!Next]_(Sel!vars) => SelInv'
<1> SUFFICES ASSUME SelInv, [Sel!Next]_(Sel!vars)
             PROVE  SelInv'
  OBVIOUS
<1> USE DEF SelInv, SelType, Reported, Waits, Sel!netVars
<1>1. CASE Sel!Call \/ Sel!EndOfScan
  BY <1>1 DEF Sel!Call, Sel!EndOfScan
<1>2. CASE Sel!Probe
  <2>1. UNCHANGED <<slot, lo_rx, tcp, rx, room, doing>>
    BY <1>2 DEF Sel!Probe
  <2>2. \A f \in rd' : f \in rd \/ Sel!fd_readable(f)
    BY <1>2 DEF Sel!Probe
  <2>3. Sel!fd_readable("tcp") => rx > 0 \/ tcp = "closed"
    BY DEF Sel!fd_readable, Sel!is_connected
  <2>4. Sel!fd_readable("lo") => lo_rx > 0
    BY DEF Sel!fd_readable
  <2>5. Sel!fd_readable("listen") => slot # "listen"
    BY DEF Sel!fd_readable, Sel!is_connected
  <2> QED
    BY <2>1, <2>2, <2>3, <2>4, <2>5
<1>3. ASSUME NEW f, Sel!Serve(f) PROVE SelInv'
  BY <1>3, ServeKeeps
<1>4. ASSUME NEW f, Sel!ServeWrite(f) PROVE SelInv'
  <2>1. CASE f = "tcp"
    BY <1>4, <2>1, SendKeeps DEF Sel!ServeWrite, SendTcp
  <2>2. CASE f # "tcp"
    BY <1>4, <2>2 DEF Sel!ServeWrite
  <2> QED
    BY <2>1, <2>2
<1>5. CASE Sel!Retry
  BY <1>5, RetryKeeps
<1>6. CASE Sel!GiveUp
  BY <1>6, Calls DEF Sel!GiveUp
<1>7. CASE Sel!Traffic
  BY <1>7 DEF Sel!Traffic
<1>8. CASE UNCHANGED Sel!vars
  BY <1>8 DEF Sel!vars
<1> QED
  BY <1>1, <1>2, <1>3, <1>4, <1>5, <1>6, <1>7, <1>8 DEF Sel!Next, Sel!Caller

\* Whatever descriptors select() is asked for and whatever arrives or breaks
\* between its probe and the call that follows, recvfrom() of a loopback datagram
\* does not wait, and recv() and accept() wait only if the peer has closed or reset.
THEOREM ReportsHold == Sel!Spec => []WaitsOnlyAtTheEnd
<1>1. Sel!Init => SelInv
  BY Calls DEF Sel!Init, SelInv, SelType, Reported, Waits
<1>2. SelInv => WaitsOnlyAtTheEnd
  BY DEF SelInv, Waits, WaitsOnlyAtTheEnd, Sel!WaitsOnlyAtTheEnd, Accept, RecvTcp, RecvfromLo
<1> QED
  BY <1>1, <1>2, NextReport, PTL DEF Sel!Spec

-----------------------------------------------------------------------------
(* The composition.                                                        *)

\* A behaviour of the composition is one of each part: a step of one part leaves the
\* variables of the other alone.  So the theorems above hold of BsdSpec.
THEOREM EachPart == BsdSpec => Spec /\ Sel!Spec
<1> DEFINE Any == TableStep \/ SelectStep
           all == <<part, vars, selVars>>
<1>1. [Any]_all => [Next]_vars
  BY DEF TableStep, SelectStep
<1>2. [Any]_all => [Sel!Next]_(Sel!vars)
  BY DEF TableStep, SelectStep, selVars, Sel!vars
<1>3. BsdInit => Init /\ Sel!Init
  BY DEF BsdInit
<1> QED
  BY <1>1, <1>2, <1>3, PTL DEF BsdSpec, Spec, Sel!Spec

\* What the fd_own run checks of the descriptors' state, for every value of the
\* constants: no descriptor names a closed socket, calls on what select() reported
\* wait only at the end of a connection, and when connect() is not called on a
\* descriptor that has a socket the table implements Ownership.
THEOREM BsdCorrect ==
    ASSUME Reconnect = FALSE
    PROVE  BsdSpec => [](NoDanglingHandle /\ WaitsOnlyAtTheEnd) /\ ImplementsOwnership
  BY EachPart, HandlesLive, ReportsHold, FdTableOwns, PTL
=============================================================================
