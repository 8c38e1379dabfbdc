------------------------- MODULE NativeCallsProofs --------------------------
(***************************************************************************)
(* The blocking calls of the native API. TcpSock, for every set of threads *)
(* and every buffer capacity: its type invariant, data and window updates  *)
(* are never left to a poll task that sleeps, bytes leave in the order     *)
(* they were handed over, and a lone caller is always woken. Deadline, for *)
(* every timeout and tick counter: a call on a stuck stack gives up in     *)
(* time. Together they are what holds of NativeCalls.                      *)
(***************************************************************************)
EXTENDS NativeCalls, Integers, TLAPS

Byte == [by : Threads, off : 1 .. MaxLen]

\* What send_slice accepts fits into the rest of the buffer and the room left.
LEMMA AcceptsBounds ==
  ASSUME TypeOK, NEW t \in Threads
  PROVE  /\ Accepts(t) \in Nat
         /\ total[t] + Accepts(t) <= len[t]
         /\ Accepts(t) > 0 => can_send /\ Len(txbuf) + Accepts(t) <= TxCap
<1>1. Len(txbuf) \in Nat /\ Len(txbuf) <= TxCap /\ TxCap \in Nat
  BY TcpSockAssumption DEF TypeOK
<1>2. total[t] \in Nat /\ len[t] \in Nat /\ total[t] <= len[t]
  BY TcpSockAssumption DEF TypeOK
<1> QED
  BY <1>1, <1>2 DEF Accepts, Room

\* The bytes send_slice appends are bytes of the caller's buffer.
LEMMA BytesType ==
  ASSUME NEW t \in Threads, NEW first \in Nat \ {0}, NEW n \in Nat, first + n - 1 <= MaxLen
  PROVE  Bytes(t, first, n) \in Seq(Byte) /\ Len(Bytes(t, first, n)) = n
<1>1. \A k \in 1 .. n : [by |-> t, off |-> first + k - 1] \in Byte
  BY TcpSockAssumption DEF Byte
<1>2. Bytes(t, first, n) \in [1 .. n -> Byte]
  BY <1>1 DEF Bytes
<1> QED
  BY <1>2, SMT

\* An empty transmit buffer is a transmit buffer.
LEMMA EmptyBuffer ==
  /\ <<>> \in Seq([by : Threads, off : 1 .. MaxLen])
  /\ Len(<<>>) = 0 /\ 0 <= TxCap /\ 0 \in 0 .. 0 /\ 0 \in 0 .. RxCap
BY TcpSockAssumption

\* Initially the buffers are empty and nobody is in a call.
LEMMA InitType == Init => TypeOK
<1> SUFFICES ASSUME Init PROVE TypeOK
  OBVIOUS
<1>1. /\ txbuf \in Seq([by : Threads, off : 1 .. MaxLen]) /\ Len(txbuf) <= TxCap
      /\ sent \in 0 .. Len(txbuf) /\ rxlen \in 0 .. RxCap
  BY EmptyBuffer DEF Init
<1>2. /\ len \in [Threads -> 0 .. MaxLen] /\ total \in [Threads -> 0 .. MaxLen]
      /\ \A t \in Threads : total[t] <= len[t]
  BY TcpSockAssumption DEF Init
<1> QED
  BY <1>1, <1>2 DEF Init, TypeOK, WaitPoints

\* Dropping acknowledged bytes from the front keeps a buffer a buffer.
LEMMA Acknowledge ==
  ASSUME NEW s \in Seq(Byte), NEW n \in 0 .. Len(s)
  PROVE  SubSeq(s, n + 1, Len(s)) \in Seq(Byte) /\ Len(SubSeq(s, n + 1, Len(s))) = Len(s) - n
OBVIOUS

\* Bytes appended to a buffer: the type and the length of the result.
LEMMA Enqueue ==
  ASSUME NEW s \in Seq(Byte), NEW b \in Seq(Byte)
  PROVE  s \o b \in Seq(Byte) /\ Len(s \o b) = Len(s) + Len(b)
<1> HIDE DEF Byte
<1> QED
  OBVIOUS

\* What remains of the transmit buffer after an acknowledgement is within bounds.
LEMMA Remaining ==
  ASSUME NEW l \in Nat, NEW m \in Nat, NEW n \in 0 .. m, m <= l, NEW c \in Nat, l <= c
  PROVE  l - n <= c /\ (m - n .. l - n) \subseteq (0 .. l - n) /\ (n = 0 => m \in 0 .. l - n)
OBVIOUS

\* Every step keeps the type invariant.
LEMMA NextType == TypeOK /\ CallLocals /\ [Next]_vars => TypeOK'
<1> SUFFICES ASSUME TypeOK, CallLocals, [Next]_vars PROVE TypeOK'
  OBVIOUS
<1> USE TcpSockAssumption DEF TypeOK, WaitPoints, sockVars, pollVars, waitVars, callVars
<1>0. ASSUME ClearBuffers
      PROVE  /\ txbuf' \in Seq([by : Threads, off : 1 .. MaxLen]) /\ Len(txbuf') <= TxCap
             /\ sent' \in 0 .. Len(txbuf') /\ rxlen' \in 0 .. RxCap /\ winDue' \in BOOLEAN
  BY <1>0, EmptyBuffer DEF ClearBuffers
<1>Stutter. CASE UNCHANGED vars
  BY <1>Stutter DEF vars
<1>Connect. ASSUME NEW t \in Threads, Connect(t) PROVE TypeOK'
  BY <1>Connect, <1>0 DEF Connect, Goto
<1>ConnectOk. ASSUME NEW t \in Threads, ConnectOk(t) PROVE TypeOK'
  BY <1>ConnectOk DEF ConnectOk, Goto, Return
<1>ConnectTimeout. ASSUME NEW t \in Threads, ConnectTimeout(t) PROVE TypeOK'
  BY <1>ConnectTimeout DEF ConnectTimeout, Goto, Return
<1>Listen. ASSUME NEW t \in Threads, Listen(t) PROVE TypeOK'
  BY <1>Listen, <1>0 DEF Listen
<1>Close. ASSUME NEW t \in Threads, Close(t) PROVE TypeOK'
  BY <1>Close, <1>0 DEF Close
<1>Send. ASSUME NEW t \in Threads, Send(t) PROVE TypeOK'
  <2>0. PICK n \in Lens : len' = [len EXCEPT ![t] = n]
    BY <1>Send DEF Send
  <2>1. len' \in [Threads -> 0 .. MaxLen] /\ \A u \in Threads : total'[u] <= len'[u]
    <3>1. total' = total /\ total[t] = 0
      BY <1>Send DEF Send, CallLocals
    <3>2. len' \in [Threads -> 0 .. MaxLen]
      BY <2>0
    <3>3. \A u \in Threads : total[u] <= len'[u]
      BY <2>0, <3>1
    <3> QED
      BY <3>1, <3>2, <3>3
  <2> QED
    BY <1>Send, <2>1 DEF Send, Goto
<1>SendSome. ASSUME NEW t \in Threads, SendSome(t) PROVE TypeOK'
  <2> DEFINE n == Accepts(t)
             new == Bytes(t, total[t] + 1, n)
  <2>1. n \in Nat /\ total[t] + n <= len[t] /\ len[t] <= MaxLen
        /\ Len(txbuf) + n <= TxCap /\ total[t] \in Nat /\ len[t] \in Nat
    BY <1>SendSome, AcceptsBounds DEF SendSome
  <2>2. new \in Seq(Byte) /\ Len(new) = n
    BY <2>1, BytesType
  <2>3. txbuf \in Seq(Byte)
    BY DEF Byte
  <2> HIDE DEF new
  <2>4. txbuf \o new \in Seq(Byte) /\ Len(txbuf \o new) = Len(txbuf) + n
    BY <2>2, <2>3, Enqueue
  <2>5. txbuf' = txbuf \o new
    BY <1>SendSome DEF SendSome, new
  <2>6. /\ txbuf' \in Seq([by : Threads, off : 1 .. MaxLen]) /\ Len(txbuf') <= TxCap
        /\ sent' \in 0 .. Len(txbuf')
    <3>0. sent' = sent
      BY <1>SendSome DEF SendSome
    <3>1. Len(txbuf') = Len(txbuf) + n /\ sent' = sent /\ Len(txbuf) \in Nat
      BY <2>3, <2>4, <2>5, <3>0
    <3>2. sent \in 0 .. Len(txbuf)
      OBVIOUS
    <3>3. Len(txbuf') <= TxCap /\ sent' \in 0 .. Len(txbuf')
      BY <2>1, <3>1, <3>2
    <3> QED
      BY <2>4, <2>5, <3>3 DEF Byte
  <2>7. total' \in [Threads -> 0 .. MaxLen] /\ \A u \in Threads : total'[u] <= len'[u]
    <3>1. total' = [total EXCEPT ![t] = total[t] + n] /\ len' = len
      BY <1>SendSome DEF SendSome
    <3> HIDE DEF n
    <3>2. total[t] + n \in 0 .. MaxLen
      BY <2>1
    <3>3. total' \in [Threads -> 0 .. MaxLen]
      BY <3>1, <3>2
    <3> QED
      BY <2>1, <3>1, <3>3
  <2> QED
    BY <1>SendSome, <2>6, <2>7 DEF SendSome, Goto
<1>SendKick. ASSUME NEW t \in Threads, SendKick(t) PROVE TypeOK'
  <2>1. CASE total[t] < len[t]
    BY <1>SendKick, <2>1 DEF SendKick, Goto, kick_poll
  <2>2. CASE ~(total[t] < len[t])
    <3>1. Return(t) /\ notified' = TRUE /\ UNCHANGED <<sockVars, pollVars, waitVars>>
      BY <1>SendKick, <2>2 DEF SendKick, kick_poll
    <3>2. /\ len' \in [Threads -> 0 .. MaxLen] /\ total' \in [Threads -> 0 .. MaxLen]
          /\ \A u \in Threads : total'[u] <= len'[u]
      BY <3>1 DEF Return
    <3> QED
      BY <1>SendKick, <3>1, <3>2 DEF SendKick, Return, Goto
  <2> QED
    BY <2>1, <2>2
<1>SendNone. ASSUME NEW t \in Threads, SendNone(t) PROVE TypeOK'
  BY <1>SendNone DEF SendNone, Goto
<1>SendGiveUp. ASSUME NEW t \in Threads, SendGiveUp(t) PROVE TypeOK'
  BY <1>SendGiveUp DEF SendGiveUp, Goto, Return
<1>SendRetry. ASSUME NEW t \in Threads, SendRetry(t) PROVE TypeOK'
  BY <1>SendRetry DEF SendRetry, Goto, kick_poll
<1>Recv. ASSUME NEW t \in Threads, Recv(t) PROVE TypeOK'
  BY <1>Recv DEF Recv, Goto
<1>RecvSome. ASSUME NEW t \in Threads, RecvSome(t) PROVE TypeOK'
  BY <1>RecvSome DEF RecvSome, Goto
<1>RecvKick. ASSUME NEW t \in Threads, RecvKick(t) PROVE TypeOK'
  BY <1>RecvKick DEF RecvKick, Goto, Return, kick_poll
<1>RecvNone. ASSUME NEW t \in Threads, RecvNone(t) PROVE TypeOK'
  BY <1>RecvNone DEF RecvNone, Goto
<1>RecvTimeout. ASSUME NEW t \in Threads, RecvTimeout(t) PROVE TypeOK'
  BY <1>RecvTimeout DEF RecvTimeout, Goto, Return
<1>WaitBits. ASSUME NEW t \in Threads, WaitBits(t) PROVE TypeOK'
  <2>1. CASE bit
    <3>1. /\ pc' = [pc EXCEPT ![t] = AfterWait(pc[t])] /\ bit' = FALSE /\ blocked' = blocked
          /\ t \notin blocked
          /\ UNCHANGED <<sockVars, pollVars, notified, callVars>>
      BY <1>WaitBits, <2>1 DEF WaitBits, Goto
    <3>2. AfterWait(pc[t]) \in {"send", "recv"}
      BY DEF AfterWait
    <3> QED
      BY <3>1, <3>2
  <2>2. CASE ~bit
    <3>1. /\ pc' = pc /\ bit' = bit /\ blocked' = blocked \cup {t}
          /\ pc[t] \in WaitPoints
          /\ UNCHANGED <<sockVars, pollVars, notified, callVars>>
      BY <1>WaitBits, <2>2 DEF WaitBits
    <3> QED
      BY <3>1
  <2> QED
    BY <2>1, <2>2
<1>WaitExpires. ASSUME NEW t \in Threads, WaitExpires(t) PROVE TypeOK'
  BY <1>WaitExpires DEF WaitExpires, Goto, AfterWait
<1>Tick. ASSUME NEW t \in Threads, Tick(t) PROVE TypeOK'
  BY <1>Tick DEF Tick
<1>PollIface. CASE PollIface
  <2>0. PICK s \in Segments : \E n \in Acks(s) :
          /\ tcp' = Received(s)
          /\ \/ /\ tcp' = "closed"
                /\ txbuf' = <<>> /\ sent' = 0
             \/ /\ tcp' # "closed"
                /\ txbuf' = SubSeq(txbuf, n + 1, Len(txbuf))
                /\ sent' \in IF can_send THEN sent - n .. Len(txbuf) - n ELSE {sent}
          /\ rxlen' = IF s = "data" /\ tcp = "est" /\ rxlen < RxCap THEN rxlen + 1 ELSE rxlen
    BY <1>PollIface DEF PollIface
  <2>1. PICK n \in Acks(s) :
          /\ tcp' = Received(s)
          /\ \/ /\ tcp' = "closed"
                /\ txbuf' = <<>> /\ sent' = 0
             \/ /\ tcp' # "closed"
                /\ txbuf' = SubSeq(txbuf, n + 1, Len(txbuf))
                /\ sent' \in IF can_send THEN sent - n .. Len(txbuf) - n ELSE {sent}
          /\ rxlen' = IF s = "data" /\ tcp = "est" /\ rxlen < RxCap THEN rxlen + 1 ELSE rxlen
    BY <2>0
  <2>2. n \in 0 .. sent /\ (~can_send => n = 0) /\ sent \in 0 .. Len(txbuf) /\ Len(txbuf) \in Nat
    BY <2>1 DEF Acks
  <2>3. txbuf \in Seq(Byte) /\ n \in 0 .. Len(txbuf)
    BY <2>2 DEF Byte
  <2>4. ASSUME tcp' = "closed"
        PROVE  txbuf' \in Seq(Byte) /\ sent' \in 0 .. Len(txbuf') /\ Len(txbuf') <= TxCap
    BY <2>1, <2>4, EmptyBuffer DEF Byte
  <2>5. ASSUME tcp' # "closed"
        PROVE  txbuf' \in Seq(Byte) /\ sent' \in 0 .. Len(txbuf') /\ Len(txbuf') <= TxCap
    <3>0. txbuf' \in Seq(Byte) /\ Len(txbuf') = Len(txbuf) - n
      BY <2>1, <2>3, <2>5, Acknowledge
    <3>1. sent' \in (sent - n .. Len(txbuf) - n) \/ (n = 0 /\ sent' = sent)
      BY <2>1, <2>2, <2>5
    <3>2. sent \in Nat /\ sent <= Len(txbuf) /\ Len(txbuf) <= TxCap /\ TxCap \in Nat
      BY <2>2
    <3>3. /\ Len(txbuf) - n <= TxCap
          /\ (sent - n .. Len(txbuf) - n) \subseteq (0 .. Len(txbuf) - n)
          /\ n = 0 => sent \in 0 .. Len(txbuf) - n
      BY <2>2, <3>2, Remaining
    <3> QED
      BY <3>0, <3>1, <3>3
  <2>B. txbuf' \in Seq(Byte) /\ sent' \in 0 .. Len(txbuf') /\ Len(txbuf') <= TxCap
    BY <2>4, <2>5
  <2>6. tcp' \in {"closed", "listen", "synsent", "synrcvd", "est", "closewait", "gone"}
    BY <2>1 DEF Received
  <2>7. rxlen' \in 0 .. RxCap
    BY <2>1
  <2>8. txbuf' \in Seq([by : Threads, off : 1 .. MaxLen])
    BY <2>B DEF Byte
  <2>9. synDue' \in BOOLEAN /\ winDue' \in BOOLEAN
    BY <1>PollIface DEF PollIface
  <2> QED
    BY <1>PollIface, <2>B, <2>6, <2>7, <2>8, <2>9 DEF PollIface
<1>SetBits. CASE SetBits
  BY <1>SetBits DEF SetBits, AfterWait
<1>ComputeWait. CASE ComputeWait
  BY <1>ComputeWait DEF ComputeWait
<1>Woken. CASE Woken
  BY <1>Woken DEF Woken
<1>Notify. CASE Notify
  BY <1>Notify DEF Notify, kick_poll
<1> QED
  BY <1>Stutter, <1>Connect, <1>ConnectOk, <1>ConnectTimeout, <1>Listen, <1>Close, <1>Send,
     <1>SendSome, <1>SendKick, <1>SendNone, <1>SendGiveUp, <1>SendRetry, <1>Recv, <1>RecvSome,
     <1>RecvKick, <1>RecvNone, <1>RecvTimeout, <1>WaitBits, <1>WaitExpires, <1>Tick,
     <1>PollIface, <1>SetBits, <1>ComputeWait, <1>Woken, <1>Notify
  DEF Next, Call, Proceed, PollTask

\* Every step keeps a call's variables zero outside net_tcp_send.
LEMMA NextLocals == TypeOK /\ CallLocals /\ [Next]_vars => CallLocals'
<1> SUFFICES ASSUME TypeOK, CallLocals, [Next]_vars PROVE CallLocals'
  OBVIOUS
<1> USE DEF CallLocals, sockVars, pollVars, waitVars, callVars, Goto, Return
<1>0. /\ pc \in [Threads -> {"idle", "connect", "send", "sendKick", "sendFull", "sendWait",
                            "recv", "recvKick", "recvWait"}]
      /\ len \in [Threads -> 0 .. MaxLen] /\ total \in [Threads -> 0 .. MaxLen]
      /\ \A t \in blocked : pc[t] \in WaitPoints
  BY DEF TypeOK
<1>1. CASE UNCHANGED vars
  BY <1>1 DEF vars
<1>2. ASSUME NEW t \in Threads, Call(t) PROVE CallLocals'
  BY <1>0, <1>2 DEF Call, Connect, Listen, Close, Send, Recv
<1>3. ASSUME NEW t \in Threads, ConnectOk(t) \/ ConnectTimeout(t) PROVE CallLocals'
  BY <1>0, <1>3 DEF ConnectOk, ConnectTimeout
<1>4. ASSUME NEW t \in Threads, SendSome(t) \/ SendNone(t) \/ SendRetry(t) PROVE CallLocals'
  BY <1>0, <1>4 DEF SendSome, SendNone, SendRetry
<1>5. ASSUME NEW t \in Threads, SendKick(t) \/ SendGiveUp(t) PROVE CallLocals'
  BY <1>0, <1>5 DEF SendKick, SendGiveUp
<1>6. ASSUME NEW t \in Threads, RecvSome(t) \/ RecvKick(t) \/ RecvNone(t) \/ RecvTimeout(t)
      PROVE  CallLocals'
  BY <1>0, <1>6 DEF RecvSome, RecvKick, RecvNone, RecvTimeout
<1>7. ASSUME NEW t \in Threads, WaitBits(t) \/ WaitExpires(t) \/ Tick(t) PROVE CallLocals'
  BY <1>0, <1>7 DEF WaitBits, WaitExpires, Tick, WaitPoints, AfterWait
<1>8. CASE PollIface \/ ComputeWait \/ Woken \/ Notify
  BY <1>8 DEF PollIface, ComputeWait, Woken, Notify
<1>9. CASE SetBits
  BY <1>0, <1>9 DEF SetBits, WaitPoints, AfterWait
<1> QED
  BY <1>1, <1>2, <1>3, <1>4, <1>5, <1>6, <1>7, <1>8, <1>9 DEF Next, Proceed, PollTask

\* TcpSock is type-correct: the buffers respect their capacities, `sent` never
\* passes what is buffered, and a call never counts more bytes than it was given.
THEOREM TypeCorrect == Spec => []TypeOK
<1>1. Init => CallLocals
  BY DEF Init, CallLocals
<1> QED
  BY <1>1, InitType, NextType, NextLocals, PTL DEF Spec

\* Every step keeps queued data and window updates within reach of a poll: the
\* step that makes them due leaves its thread at the kick.
LEMMA NextNotStranded == TypeOK /\ NotStranded /\ [Next]_vars => NotStranded'
<1> SUFFICES ASSUME TypeOK, NotStranded, [Next]_vars PROVE NotStranded'
  OBVIOUS
<1> USE DEF NotStranded, Asleep, sockVars, pollVars, waitVars
<1>0. /\ pc \in [Threads -> {"idle", "connect", "send", "sendKick", "sendFull", "sendWait",
                            "recv", "recvKick", "recvWait"}]
      /\ blocked \subseteq {t \in Threads : pc[t] \in WaitPoints}
  BY DEF TypeOK
<1>1. CASE UNCHANGED vars
  BY <1>1 DEF vars, Unsent, WindowOwed, can_send
<1>2. ASSUME NEW t \in Threads,
             Connect(t) \/ Listen(t) \/ Close(t) \/ ConnectOk(t) \/ ConnectTimeout(t)
      PROVE  NotStranded'
  <2>1. CASE UNCHANGED sockVars
    BY <1>0, <1>2, <2>1 DEF Connect, Listen, Close, ConnectOk, ConnectTimeout, Goto, Return,
       Unsent, WindowOwed, can_send
  <2>2. CASE tcp' \in {"synsent", "listen", "gone"}
    BY <2>2 DEF Unsent, WindowOwed, can_send
  <2> QED
    BY <1>2, <2>1, <2>2 DEF Connect, Listen, Close, ConnectOk, ConnectTimeout
<1>3. ASSUME NEW t \in Threads,
             Send(t) \/ Recv(t) \/ SendNone(t) \/ SendGiveUp(t) \/ RecvNone(t) \/ RecvTimeout(t)
      PROVE  NotStranded'
  BY <1>0, <1>3 DEF Send, Recv, SendNone, SendGiveUp, RecvNone, RecvTimeout, Goto, Return,
     Unsent, WindowOwed, can_send
<1>4. ASSUME NEW t \in Threads, SendSome(t) \/ RecvSome(t) PROVE NotStranded'
  <2>1. pc'[t] \in {"sendKick", "recvKick"}
    BY <1>0, <1>4 DEF SendSome, RecvSome, Goto
  <2> QED
    BY <2>1
<1>5. ASSUME NEW t \in Threads, SendKick(t) \/ RecvKick(t) \/ SendRetry(t) PROVE NotStranded'
  <2>1. notified' = TRUE
    BY <1>5 DEF SendKick, RecvKick, SendRetry, kick_poll
  <2> QED
    BY <2>1
<1>6. ASSUME NEW t \in Threads, WaitBits(t) \/ WaitExpires(t) \/ Tick(t) PROVE NotStranded'
  <2>1. \A u \in Threads : pc[u] \in {"sendKick", "recvKick"} => pc'[u] = pc[u]
    BY <1>0, <1>6 DEF WaitBits, WaitExpires, Tick, Goto, WaitPoints
  <2>2. UNCHANGED <<sockVars, pollVars, notified>>
    BY <1>6 DEF WaitBits, WaitExpires, Tick
  <2> QED
    BY <2>1, <2>2 DEF Unsent, WindowOwed, can_send
<1>7. CASE PollIface \/ SetBits \/ Woken
  BY <1>7 DEF PollIface, SetBits, Woken
<1>8. CASE ComputeWait
  <2>1. Unsent => txbuf # <<>>
    <3>1. sent \in 0 .. Len(txbuf) /\ txbuf \in Seq([by : Threads, off : 1 .. MaxLen])
      BY DEF TypeOK
    <3>2. Unsent => Len(txbuf) # 0
      BY <3>1 DEF Unsent
    <3> QED
      BY <3>2, EmptyBuffer
  <2>2. Unsent \/ WindowOwed => HasTimer
    BY <2>1 DEF HasTimer, Unsent
  <2>3. HasTimer => deadline' = TRUE
    BY <1>8 DEF ComputeWait
  <2>4. (Unsent' <=> Unsent) /\ (WindowOwed' <=> WindowOwed)
    BY <1>8 DEF ComputeWait, Unsent, WindowOwed, can_send
  <2> QED
    BY <2>2, <2>3, <2>4
<1>9. CASE Notify
  BY <1>9 DEF Notify, kick_poll
<1> QED
  BY <1>1, <1>2, <1>3, <1>4, <1>5, <1>6, <1>7, <1>8, <1>9 DEF Next, Call, Proceed, PollTask

\* Data that net_tcp_send queued and window updates that net_tcp_recv made due
\* are never left to a poll task that sleeps without a timeout.
THEOREM NothingStranded == Spec => []NotStranded
<1>1. Init => NotStranded
  BY DEF Init, NotStranded, Asleep
<1> QED
  BY <1>1, TypeCorrect, NextNotStranded, PTL DEF Spec

-----------------------------------------------------------------------------
(* The order of the bytes in the transmit buffer.                          *)

\* the positions of t's bytes in buffer s; SendKeepsOrder of one thread, for a
\* buffer s and a call that has come to m
Of(s, t) == {i \in DOMAIN s : s[i].by = t}
InOrder(s, t, m) ==
    \A j \in Of(s, t) :
        /\ \A i \in Of(s, t) : (i < j /\ \A k \in Of(s, t) : ~(i < k /\ k < j))
              => s[j].off \in {1, s[i].off + 1}
        /\ (\A k \in Of(s, t) : k <= j) /\ m > 0 => s[j].off = m

\* An acknowledgement takes bytes from the front and disturbs no order.
LEMMA OrderAfterAck ==
  ASSUME NEW s \in Seq(Byte), NEW n \in 0 .. Len(s), NEW t, NEW m, InOrder(s, t, m)
  PROVE  InOrder(SubSeq(s, n + 1, Len(s)), t, m)
<1> DEFINE r == SubSeq(s, n + 1, Len(s))
<1>1. DOMAIN r = 1 .. Len(s) - n /\ DOMAIN s = 1 .. Len(s) /\ Len(s) \in Nat
  OBVIOUS
<1>2. \A i \in DOMAIN r : i + n \in DOMAIN s /\ r[i] = s[i + n]
  BY <1>1
<1> HIDE DEF r
<1>3. \A i \in DOMAIN r : i \in Of(r, t) <=> i + n \in Of(s, t)
  BY <1>2 DEF Of
<1>4. \A k \in Of(s, t) : k > n => k - n \in Of(r, t)
  <2> SUFFICES ASSUME NEW k \in Of(s, t), k > n PROVE k - n \in Of(r, t)
    OBVIOUS
  <2>1. k \in 1 .. Len(s) /\ k - n \in DOMAIN r /\ (k - n) + n = k
    BY <1>1 DEF Of
  <2> QED
    BY <2>1, <1>3
<1>5. ASSUME NEW j \in Of(r, t), NEW i \in Of(r, t), i < j,
             \A k \in Of(r, t) : ~(i < k /\ k < j)
      PROVE  r[j].off \in {1, r[i].off + 1}
  <2>1. i \in DOMAIN r /\ j \in DOMAIN r /\ i \in Nat /\ j \in Nat
    BY <1>1 DEF Of
  <2>2. i + n \in Of(s, t) /\ j + n \in Of(s, t) /\ i + n < j + n
    BY <1>3, <1>5, <2>1
  <2>3. \A k \in Of(s, t) : ~(i + n < k /\ k < j + n)
    <3> SUFFICES ASSUME NEW k \in Of(s, t), i + n < k, k < j + n PROVE FALSE
      OBVIOUS
    <3>1. k \in Nat
      BY <1>1 DEF Of
    <3>2. k - n \in Of(r, t)
      BY <1>4, <2>1, <3>1
    <3> QED
      BY <1>5, <2>1, <3>1, <3>2
  <2> QED
    BY <1>2, <2>1, <2>2, <2>3 DEF InOrder
<1>6. ASSUME NEW j \in Of(r, t), \A k \in Of(r, t) : k <= j, m > 0
      PROVE  r[j].off = m
  <2>1. j \in DOMAIN r /\ j \in Nat /\ j + n \in Of(s, t)
    BY <1>1, <1>3 DEF Of
  <2>2. \A k \in Of(s, t) : k <= j + n
    <3> SUFFICES ASSUME NEW k \in Of(s, t), k > j + n PROVE FALSE
      BY <1>1, <2>1 DEF Of
    <3>1. k \in Nat
      BY <1>1 DEF Of
    <3>2. k - n \in Of(r, t)
      BY <1>4, <2>1, <3>1
    <3> QED
      BY <1>6, <2>1, <3>1, <3>2
  <2> QED
    BY <1>2, <1>6, <2>1, <2>2 DEF InOrder
<1>7. InOrder(r, t, m)
  BY <1>5, <1>6 DEF InOrder
<1> QED
  BY <1>7 DEF r

\* r is s with n bytes of t behind it, from number `first` of t's buffer on
Extended(r, s, t, first, n) ==
    /\ Len(s) \in Nat /\ DOMAIN s = 1 .. Len(s) /\ DOMAIN r = 1 .. Len(s) + n
    /\ \A i \in 1 .. Len(s) : r[i] = s[i]
    /\ \A i \in Len(s) + 1 .. Len(s) + n : r[i].by = t /\ r[i].off = first - 1 + (i - Len(s))

\* What send_slice accepts goes behind what is buffered.
LEMMA Appended ==
  ASSUME NEW s \in Seq(Byte), NEW t \in Threads, NEW first \in Nat \ {0}, NEW n \in Nat,
         first + n - 1 <= MaxLen
  PROVE  Extended(s \o Bytes(t, first, n), s, t, first, n)
<1> DEFINE b == Bytes(t, first, n)
<1>1. b \in Seq(Byte) /\ Len(b) = n
  BY BytesType
<1>2. \A i \in 1 .. n : b[i].by = t /\ b[i].off = first - 1 + i
  BY DEF Bytes
<1> HIDE DEF b, Byte
<1> DEFINE r == s \o b
<1>3. /\ Len(r) = Len(s) + n
      /\ \A i \in 1 .. Len(s) + n : r[i] = IF i <= Len(s) THEN s[i] ELSE b[i - Len(s)]
      /\ r \in Seq(Byte)
  BY <1>1
<1> HIDE DEF r
<1>4. Len(s) \in Nat /\ DOMAIN s = 1 .. Len(s) /\ DOMAIN r = 1 .. Len(s) + n
  BY <1>3
<1>5. \A i \in 1 .. Len(s) : r[i] = s[i]
  BY <1>3, <1>4
<1>6. \A i \in Len(s) + 1 .. Len(s) + n : i - Len(s) \in 1 .. n /\ r[i] = b[i - Len(s)]
  BY <1>3, <1>4
<1>7. Extended(r, s, t, first, n)
  BY <1>2, <1>4, <1>5, <1>6 DEF Extended
<1> QED
  BY <1>7 DEF r, b

\* Bytes of another thread do not disturb the order of t's.
LEMMA OrderOfOthers ==
  ASSUME NEW s \in Seq(Byte), NEW u \in Threads, NEW first \in Nat \ {0}, NEW n \in Nat,
         first + n - 1 <= MaxLen, NEW t, t # u, NEW m, InOrder(s, t, m)
  PROVE  InOrder(s \o Bytes(u, first, n), t, m)
<1>0. PICK r : r = s \o Bytes(u, first, n)
  OBVIOUS
<1>1. /\ Len(s) \in Nat /\ DOMAIN s = 1 .. Len(s) /\ DOMAIN r = 1 .. Len(s) + n
      /\ \A i \in 1 .. Len(s) : r[i] = s[i]
      /\ \A i \in Len(s) + 1 .. Len(s) + n : r[i].by = u
  <2>1. Extended(r, s, u, first, n)
    BY <1>0, Appended
  <2> QED
    BY <2>1 DEF Extended
<1>2. Of(r, t) = Of(s, t)
  BY <1>1 DEF Of
<1>3. \A i \in Of(s, t) : r[i] = s[i]
  BY <1>1 DEF Of
<1>4. InOrder(r, t, m)
  BY <1>2, <1>3 DEF InOrder
<1> QED
  BY <1>0, <1>4

\* The next piece of t's buffer continues where the one before it ended.
LEMMA OrderAfterSend ==
  ASSUME NEW s \in Seq(Byte), NEW t \in Threads, NEW m \in Nat, NEW n \in Nat \ {0},
         m + n <= MaxLen, InOrder(s, t, m)
  PROVE  InOrder(s \o Bytes(t, m + 1, n), t, m + n)
<1>0. PICK r, l : r = s \o Bytes(t, m + 1, n) /\ l = Len(s)
  OBVIOUS
<1>1. /\ l \in Nat /\ DOMAIN s = 1 .. l /\ DOMAIN r = 1 .. l + n
      /\ \A i \in 1 .. l : r[i] = s[i]
      /\ \A i \in l + 1 .. l + n : r[i].by = t /\ r[i].off = m + (i - l)
  <2>1. m + 1 \in Nat \ {0} /\ (m + 1) + n - 1 <= MaxLen /\ (m + 1) - 1 = m
    BY TcpSockAssumption
  <2>2. Extended(r, s, t, m + 1, n)
    BY <1>0, <2>1, Appended
  <2> QED
    BY <1>0, <2>1, <2>2 DEF Extended
<1>2. /\ \A i \in Of(r, t) : i \in 1 .. l => i \in Of(s, t) /\ r[i] = s[i]
      /\ Of(s, t) \subseteq Of(r, t) /\ Of(r, t) \subseteq 1 .. l + n
      /\ l + 1 .. l + n \subseteq Of(r, t) /\ Of(s, t) \subseteq 1 .. l
  BY <1>1 DEF Of
<1>3. ASSUME NEW j \in Of(r, t), NEW i \in Of(r, t), i < j,
             \A k \in Of(r, t) : ~(i < k /\ k < j)
      PROVE  r[j].off \in {1, r[i].off + 1}
  <2>1. CASE j <= l
    <3>0. i \in 1 .. l /\ j \in 1 .. l
      BY <1>1, <1>2, <1>3, <2>1
    <3>1. i \in Of(s, t) /\ j \in Of(s, t) /\ r[i] = s[i] /\ r[j] = s[j]
      BY <1>2, <1>3, <3>0
    <3>2. \A k \in Of(s, t) : ~(i < k /\ k < j)
      BY <1>2, <1>3
    <3> QED
      BY <1>3, <3>1, <3>2 DEF InOrder
  <2>2. CASE j = l + 1
    <3>1. r[j].off = m + 1
      BY <1>1, <2>2
    <3>2. i \in Of(s, t) /\ r[i] = s[i]
      BY <1>1, <1>2, <1>3, <2>2
    <3>3. \A k \in Of(s, t) : k <= i
      BY <1>1, <1>2, <1>3, <2>2
    <3>4. CASE m > 0
      BY <3>1, <3>2, <3>3, <3>4 DEF InOrder
    <3>5. CASE m = 0
      BY <3>1, <3>5
    <3> QED
      BY <3>4, <3>5
  <2>3. CASE j > l + 1
    <3>1. j \in Int /\ l + 1 <= j - 1 /\ j <= l + n
      BY <1>1, <1>2, <2>3
    <3>2. j - 1 \in l + 1 .. l + n /\ j \in l + 1 .. l + n
      BY <1>1, <3>1
    <3>3. j - 1 \in Of(r, t) /\ i \in Int /\ i <= j - 1
      BY <1>1, <1>2, <1>3, <3>1, <3>2
    <3>4. ~(i < j - 1 /\ j - 1 < j)
      BY <1>3, <3>3
    <3>5. i = j - 1
      BY <3>1, <3>3, <3>4
    <3>6. r[j].off = m + (j - l) /\ r[j - 1].off = m + ((j - 1) - l)
      BY <1>1, <3>2
    <3> QED
      BY <1>1, <3>1, <3>5, <3>6
  <2>4. j \in Int
    BY <1>1, <1>2
  <2> QED
    BY <1>1, <2>1, <2>2, <2>3, <2>4
<1>4. ASSUME NEW j \in Of(r, t), \A k \in Of(r, t) : k <= j
      PROVE  r[j].off = m + n
  <2>1. l + n \in l + 1 .. l + n
    BY <1>1
  <2>2. l + n \in Of(r, t) /\ j \in Int /\ j <= l + n
    BY <1>1, <1>2, <2>1
  <2>3. l + n <= j
    BY <1>4, <2>2
  <2>4. j = l + n
    BY <1>1, <2>2, <2>3
  <2>5. r[l + n].off = m + ((l + n) - l)
    BY <1>1, <2>1
  <2> QED
    BY <1>1, <2>4, <2>5
<1>5. InOrder(r, t, m + n)
  BY <1>3, <1>4 DEF InOrder
<1> QED
  BY <1>0, <1>5

\* SendKeepsOrder is InOrder of every thread, before and after a step.
LEMMA OrderByThread ==
  /\ SendKeepsOrder <=> \A t \in Threads : InOrder(txbuf, t, total[t])
  /\ SendKeepsOrder' <=> \A t \in Threads : InOrder(txbuf', t, total'[t])
BY DEF SendKeepsOrder, InOrder, Mine, Of

\* An empty buffer is in order; so is one whose writer starts over.
LEMMA OrderForFree ==
  ASSUME NEW s, NEW t, NEW m
  PROVE  InOrder(<<>>, t, m) /\ (InOrder(s, t, m) => InOrder(s, t, 0))
<1>1. Of(<<>>, t) = {}
  BY DEF Of
<1> QED
  BY <1>1 DEF InOrder

\* Every step keeps the bytes of every thread in order.
LEMMA NextKeepsOrder == TypeOK /\ SendKeepsOrder /\ [Next]_vars => SendKeepsOrder'
<1> SUFFICES ASSUME TypeOK, SendKeepsOrder, [Next]_vars,
                    NEW u \in Threads
             PROVE  InOrder(txbuf', u, total'[u])
  BY OrderByThread
<1>0. InOrder(txbuf, u, total[u]) /\ txbuf \in Seq(Byte) /\ total \in [Threads -> 0 .. MaxLen]
  BY OrderByThread DEF TypeOK, Byte
<1> USE DEF sockVars, pollVars, waitVars, callVars
<1>1. ASSUME txbuf' = txbuf, total'[u] \in {total[u], 0} PROVE InOrder(txbuf', u, total'[u])
  BY <1>0, <1>1, OrderForFree
<1>2. ASSUME txbuf' = <<>> PROVE InOrder(txbuf', u, total'[u])
  BY <1>2, OrderForFree
<1>3. CASE UNCHANGED vars
  BY <1>1, <1>3 DEF vars
<1>4. ASSUME NEW t \in Threads, Connect(t) \/ Listen(t) \/ Close(t)
      PROVE  InOrder(txbuf', u, total'[u])
  BY <1>2, <1>4 DEF Connect, Listen, Close, ClearBuffers
<1>5. ASSUME NEW t \in Threads, \/ Send(t) \/ Recv(t) \/ SendNone(t) \/ SendRetry(t)
                                \/ RecvSome(t) \/ RecvNone(t)
                                \/ WaitBits(t) \/ WaitExpires(t) \/ Tick(t)
      PROVE  InOrder(txbuf', u, total'[u])
  BY <1>1, <1>5 DEF Send, Recv, SendNone, SendRetry, RecvSome, RecvNone, WaitBits, WaitExpires, Tick
<1>6. ASSUME NEW t \in Threads, \/ ConnectOk(t) \/ ConnectTimeout(t) \/ SendKick(t)
                                \/ SendGiveUp(t) \/ RecvKick(t) \/ RecvTimeout(t)
      PROVE  InOrder(txbuf', u, total'[u])
  <2>1. txbuf' = txbuf /\ (total' = total \/ Return(t))
    BY <1>6 DEF ConnectOk, ConnectTimeout, SendKick, SendGiveUp, RecvKick, RecvTimeout
  <2>2. total'[u] \in {total[u], 0}
    BY <1>0, <2>1 DEF Return
  <2> QED
    BY <1>1, <2>1, <2>2
<1>7. ASSUME NEW t \in Threads, SendSome(t) PROVE InOrder(txbuf', u, total'[u])
  <2> DEFINE n == Accepts(t)
  <2>1. /\ n \in Nat \ {0} /\ total[t] \in Nat /\ total[t] + n <= MaxLen
        /\ txbuf' = txbuf \o Bytes(t, total[t] + 1, n)
        /\ total' = [total EXCEPT ![t] = total[t] + n]
    <3>1. Accepts(t) \in Nat /\ total[t] + Accepts(t) <= len[t]
      BY AcceptsBounds
    <3>2. total[t] \in 0 .. MaxLen /\ len[t] \in 0 .. MaxLen /\ MaxLen \in Nat
      BY TcpSockAssumption DEF TypeOK
    <3>3. Accepts(t) > 0 /\ txbuf' = txbuf \o Bytes(t, total[t] + 1, Accepts(t))
          /\ total' = [total EXCEPT ![t] = total[t] + Accepts(t)]
      BY <1>7 DEF SendSome
    <3> HIDE DEF n
    <3>4. Accepts(t) \in Nat \ {0} /\ total[t] \in Nat /\ total[t] + Accepts(t) <= MaxLen
      BY <3>1, <3>2, <3>3
    <3> QED
      BY <3>3, <3>4 DEF n
  <2> HIDE DEF n
  <2>2. CASE u = t
    <3>1. InOrder(txbuf \o Bytes(t, total[t] + 1, n), t, total[t] + n)
      BY <1>0, <2>1, <2>2, OrderAfterSend
    <3>2. total'[t] = total[t] + n
      BY <1>0, <2>1
    <3> QED
      BY <2>1, <2>2, <3>1, <3>2
  <2>3. CASE u # t
    <3>1. total[t] + 1 \in Nat \ {0} /\ (total[t] + 1) + n - 1 <= MaxLen
      BY <2>1, TcpSockAssumption
    <3>2. InOrder(txbuf \o Bytes(t, total[t] + 1, n), u, total[u])
      BY <1>0, <2>1, <2>3, <3>1, OrderOfOthers
    <3>3. total'[u] = total[u]
      BY <1>0, <2>1, <2>3
    <3> QED
      BY <2>1, <3>2, <3>3
  <2> QED
    BY <2>2, <2>3
<1>8. CASE PollIface
  <2>0. PICK s \in Segments : \E n \in Acks(s) :
          txbuf' = <<>> \/ txbuf' = SubSeq(txbuf, n + 1, Len(txbuf))
    BY <1>8 DEF PollIface
  <2>1. PICK n \in Acks(s) : txbuf' = <<>> \/ txbuf' = SubSeq(txbuf, n + 1, Len(txbuf))
    BY <2>0
  <2>2. n \in 0 .. Len(txbuf)
    BY <1>0, <2>1 DEF Acks, TypeOK
  <2>3. total' = total
    BY <1>8 DEF PollIface
  <2>4. ASSUME txbuf' = SubSeq(txbuf, n + 1, Len(txbuf)) PROVE InOrder(txbuf', u, total'[u])
    BY <1>0, <2>2, <2>3, <2>4, OrderAfterAck
  <2> QED
    BY <1>2, <2>1, <2>4
<1>9. CASE SetBits \/ ComputeWait \/ Woken \/ Notify
  BY <1>1, <1>9 DEF SetBits, ComputeWait, Woken, Notify
<1> QED
  BY <1>3, <1>4, <1>5, <1>6, <1>7, <1>8, <1>9 DEF Next, Call, Proceed, PollTask

\* For every number of threads and every capacity, net_tcp_send calls that a full
\* buffer cuts into pieces put their buffers into the stream in order, without a
\* gap or repetition, and `total` says how far each has come.
THEOREM StreamInOrder == Spec => []SendKeepsOrder
<1>1. Init => SendKeepsOrder
  BY OrderByThread, OrderForFree DEF Init
<1> QED
  BY <1>1, TypeCorrect, NextKeepsOrder, PTL DEF Spec

-----------------------------------------------------------------------------
(* One thread and the progress bit.                                        *)

\* t has failed and could go on
Unblocked(t) == \/ pc[t] = "recvWait" /\ rxlen > 0
                \/ pc[t] \in {"sendFull", "sendWait"} /\ Accepts(t) > 0

\* the poll task is about to signal, or has, and the bit lets t through
Signalled(t) == ppc = "signal" \/ (bit /\ t \notin blocked)

\* what a thread that failed waits for has not come, or the poll task is about
\* to signal it, or has, and the bit will let the thread through
Latched == \A t \in Threads : Unblocked(t) => Signalled(t)

\* What Accepts depends on.
LEMMA SameAccepts ==
  ASSUME NEW t \in Threads, UNCHANGED <<tcp, txbuf, len, total>>
  PROVE  Accepts(t)' = Accepts(t)
BY DEF Accepts, Room, can_send

\* Every step of a socket with one thread keeps the latch.
LEMMA NextLatched ==
  (\A t, u \in Threads : t = u) /\ TypeOK /\ Latched /\ [Next]_vars => Latched'
<1>H. SUFFICES ASSUME \A v, u \in Threads : v = u, TypeOK, Latched, [Next]_vars,
                      NEW t \in Threads, Unblocked(t)'
               PROVE  Signalled(t)'
  BY DEF Latched
<1>0. /\ pc \in [Threads -> {"idle", "connect", "send", "sendKick", "sendFull", "sendWait",
                            "recv", "recvKick", "recvWait"}]
      /\ blocked \subseteq {v \in Threads : pc[v] \in WaitPoints}
  BY <1>H DEF TypeOK
<1>A. \A v \in Threads : v = t
  BY <1>H
<1>N. \/ pc'[t] = "recvWait" /\ rxlen' > 0
      \/ pc'[t] \in {"sendFull", "sendWait"} /\ Accepts(t)' > 0
  BY <1>H DEF Unblocked
<1>1. Unblocked(t) => Signalled(t)
  BY <1>H DEF Latched
<1>S. ASSUME UNCHANGED <<sockVars, len, total, pc, bit, blocked>>, ppc = "signal" => ppc' = "signal"
      PROVE  Signalled(t)'
  <2>1. Accepts(t)' = Accepts(t) /\ rxlen' = rxlen /\ pc' = pc
    BY <1>S, SameAccepts DEF sockVars
  <2>2. Unblocked(t)
    BY <1>N, <2>1 DEF Unblocked
  <2> QED
    BY <1>1, <1>S, <2>2 DEF Signalled
<1>2. CASE UNCHANGED vars
  BY <1>S, <1>2 DEF vars, pollVars, waitVars, callVars
<1>3. ASSUME NEW v \in Threads, Call(v) PROVE FALSE
  <2>1. pc'[v] \in {"connect", "idle", "send", "recv"}
    BY <1>0, <1>3 DEF Call, Connect, Listen, Send, Recv, Close, Goto
  <2> QED
    BY <1>A, <1>N, <2>1
<1>4. ASSUME NEW v \in Threads, ConnectOk(v) \/ ConnectTimeout(v) \/ SendGiveUp(v) \/ RecvKick(v)
                  \/ RecvTimeout(v)
      PROVE  FALSE
  <2>1. pc'[v] = "idle"
    BY <1>0, <1>4 DEF ConnectOk, ConnectTimeout, SendGiveUp, RecvKick, RecvTimeout, Goto, Return
  <2> QED
    BY <1>A, <1>N, <2>1
<1>5. ASSUME NEW v \in Threads, SendSome(v) \/ SendKick(v) \/ RecvSome(v) PROVE FALSE
  <2>1. pc'[v] \in {"idle", "send", "sendKick", "recvKick"}
    BY <1>0, <1>5 DEF SendSome, SendKick, RecvSome, Goto, Return
  <2> QED
    BY <1>A, <1>N, <2>1
<1>6. ASSUME NEW v \in Threads, SendNone(v) PROVE FALSE
  <2>1. v = t
    BY <1>A
  <2>2. Accepts(t) = 0 /\ pc'[t] = "sendFull" /\ UNCHANGED <<tcp, txbuf, len, total>>
    BY <1>0, <1>6, <2>1 DEF SendNone, Goto, sockVars, callVars
  <2>3. Accepts(t)' = 0
    BY <2>2, SameAccepts
  <2> QED
    BY <1>N, <2>2, <2>3
<1>7. ASSUME NEW v \in Threads, SendRetry(v) PROVE Signalled(t)'
  <2>1. v = t
    BY <1>A
  <2>2. /\ pc'[t] = "sendWait" /\ pc[t] = "sendFull" /\ UNCHANGED <<tcp, txbuf, len, total>>
        /\ ppc' = ppc /\ bit' = bit /\ blocked' = blocked
    BY <1>0, <1>7, <2>1 DEF SendRetry, Goto, sockVars, pollVars, waitVars, callVars
  <2>3. Accepts(t)' = Accepts(t)
    BY <2>2, SameAccepts
  <2>4. Unblocked(t)
    BY <1>N, <2>2, <2>3 DEF Unblocked
  <2> QED
    BY <1>1, <2>2, <2>4 DEF Signalled
<1>8. ASSUME NEW v \in Threads, RecvNone(v) PROVE FALSE
  <2>1. v = t
    BY <1>A
  <2>2. rxlen' = 0 /\ pc'[t] = "recvWait"
    BY <1>0, <1>8, <2>1 DEF RecvNone, Goto, sockVars
  <2> QED
    BY <1>N, <2>2
<1>9. ASSUME NEW v \in Threads, WaitBits(v) PROVE Signalled(t)'
  <2>1. v = t
    BY <1>A
  <2>2. CASE bit
    <3>1. pc'[t] \in {"send", "recv"}
      BY <1>0, <1>9, <2>1, <2>2 DEF WaitBits, Goto, AfterWait
    <3> QED
      BY <1>N, <3>1
  <2>3. CASE ~bit
    <3>1. pc' = pc /\ rxlen' = rxlen /\ ppc' = ppc /\ UNCHANGED <<tcp, txbuf, len, total>>
      BY <1>9, <2>3 DEF WaitBits, sockVars, pollVars, callVars
    <3>2. Accepts(t)' = Accepts(t)
      BY <3>1, SameAccepts
    <3>3. Unblocked(t)
      BY <1>N, <3>1, <3>2 DEF Unblocked
    <3> QED
      BY <1>1, <2>3, <3>1, <3>3 DEF Signalled
  <2> QED
    BY <2>2, <2>3
<1>10. ASSUME NEW v \in Threads, WaitExpires(v) PROVE FALSE
  <2>1. pc'[v] \in {"send", "recv"}
    BY <1>0, <1>10 DEF WaitExpires, Goto, AfterWait
  <2> QED
    BY <1>A, <1>N, <2>1
<1>11. ASSUME NEW v \in Threads, Tick(v) PROVE Signalled(t)'
  BY <1>S, <1>11 DEF Tick, pollVars, waitVars
<1>12. CASE PollIface
  BY <1>12 DEF PollIface, Signalled
<1>13. CASE SetBits
  <2>1. pc'[t] = IF t \in blocked THEN AfterWait(pc[t]) ELSE pc[t]
    BY <1>13 DEF SetBits
  <2>2. t \notin blocked
    BY <1>N, <2>1 DEF AfterWait
  <2>3. blocked = {}
    BY <1>0, <1>A, <2>2
  <2> QED
    BY <1>13, <2>3 DEF SetBits, Signalled
<1>14. CASE ComputeWait \/ Woken \/ Notify
  BY <1>S, <1>14 DEF ComputeWait, Woken, Notify, pollVars, waitVars, callVars
<1> QED
  BY <1>H, <1>2, <1>3, <1>4, <1>5, <1>6, <1>7, <1>8, <1>9, <1>10, <1>11, <1>12, <1>13, <1>14
  DEF Next, Proceed, PollTask

\* A thread that is alone on its socket never waits for what is already there: a
\* poll between its failed attempt and the wait leaves the bit set for it.
THEOREM OneThreadNeverStalls ==
    ASSUME \A t, u \in Threads : t = u
    PROVE  Spec => []NoStalledWaiter
<1>1. Init => Latched
  BY DEF Init, Latched, Unblocked
<1>2. TypeOK /\ Latched /\ [Next]_vars => Latched'
  BY NextLatched
<1>3. TypeOK /\ Latched => NoStalledWaiter
  <2> SUFFICES ASSUME TypeOK, Latched, NEW t \in blocked, ppc # "signal"
               PROVE  /\ pc[t] = "recvWait" => rxlen = 0
                      /\ pc[t] = "sendWait" => Accepts(t) = 0
    BY DEF NoStalledWaiter
  <2>1. t \in Threads /\ rxlen \in Nat
    BY TcpSockAssumption DEF TypeOK
  <2>2. Accepts(t) \in Nat
    BY <2>1, AcceptsBounds
  <2> QED
    BY <2>1, <2>2 DEF Latched, Unblocked, Signalled
<1> QED
  BY <1>1, <1>2, <1>3, TypeCorrect, PTL DEF Spec

-----------------------------------------------------------------------------
(* Deadlines.                                                              *)

\* One turn of the tick counter at most.
LEMMA OneTurn ==
  ASSUME NEW a \in Nat, a < 2 * Ticks
  PROVE  a % Ticks = (IF a < Ticks THEN a ELSE a - Ticks) /\ a % Ticks \in 0 .. Ticks - 1
<1>1. Ticks \in Nat \ {0}
  BY DeadlineAssumption
<1>2. CASE a < Ticks
  BY <1>1, <1>2
<1>3. CASE a >= Ticks
  BY <1>1, <1>3
<1> QED
  BY <1>1, <1>2, <1>3

\* A deadline before the counter wraps is a plain sum.
LEMMA NoTurn ==
  ASSUME NEW a \in Nat, NEW b \in Nat, NEW c \in Nat, a + b + c < Ticks - 1
  PROVE  (a + b) % Ticks = a + b
<1>1. Ticks \in Nat \ {0}
  BY DeadlineAssumption
<1>2. a + b \in Nat /\ a + b < Ticks
  BY <1>1
<1> QED
  BY <1>1, <1>2

\* the deadline of a call comes before the tick counter wraps
NoWrap == call # "none" /\ start + limit + Wait[call] < Ticks - 1

StuckType ==
    /\ now \in 0 .. Ticks - 1 /\ start \in 0 .. Ticks - 1
    /\ rcv_timeout \in Nat /\ snd_timeout \in Nat /\ nonblocking \in BOOLEAN
    /\ call \in Stuck!Kinds \cup {"none"}
    /\ until \in Nat /\ limit \in Nat /\ elapsed \in Nat

\* how the counter, the time a call has waited and its deadline are related
Clocked ==
    /\ call \notin {"none", "accept"} /\ NoWrap =>
           /\ until = start + limit /\ now = start + elapsed
           /\ elapsed <= limit + Wait[call]
    /\ call = "accept" =>
           /\ limit = IF nonblocking THEN 0 ELSE AcceptLimit
           /\ now \in {start + elapsed, start + elapsed - Ticks}
           /\ elapsed <= limit + Wait[call] /\ (nonblocking => elapsed = 0)

\* The waits of the calls are numbers of ticks.
LEMMA WaitType == call \in Stuck!Kinds => Wait[call] \in Nat
BY DeadlineAssumption

\* The result of a remainder is a tick.
LEMMA TickType == ASSUME NEW a \in Nat PROVE a % Ticks \in 0 .. Ticks - 1
BY DeadlineAssumption

\* accept() compares the ticks since its start, whatever the counter did.
LEMMA AcceptTimedOut ==
  ASSUME StuckType, Clocked, call = "accept"
  PROVE  Stuck!TimedOut <=> nonblocking \/ elapsed > AcceptLimit
<1>1. Ticks \in Nat \ {0} /\ AcceptLimit \in Nat /\ Wait["accept"] \in Nat
      /\ AcceptLimit + Wait["accept"] < Ticks
  BY DeadlineAssumption DEF Stuck!Kinds
<1>2. elapsed \in Nat /\ elapsed < Ticks
  BY <1>1 DEF StuckType, Clocked
<1>3. now + Ticks - start \in {elapsed + Ticks, elapsed}
  BY <1>1, <1>2 DEF StuckType, Clocked
<1>4. (elapsed + Ticks) % Ticks = elapsed /\ elapsed % Ticks = elapsed
  <2>1. elapsed + Ticks \in Nat /\ elapsed + Ticks < 2 * Ticks /\ elapsed < 2 * Ticks
        /\ ~(elapsed + Ticks < Ticks) /\ (elapsed + Ticks) - Ticks = elapsed
    BY <1>1, <1>2
  <2> QED
    BY <1>2, <2>1, OneTurn
<1>5. (now + Ticks - start) % Ticks = elapsed
  BY <1>3, <1>4
<1> QED
  BY <1>5 DEF Stuck!TimedOut

\* A call with an absolute deadline that does not wrap looks at the time it has waited.
LEMMA AbsoluteTimedOut ==
  ASSUME StuckType, Clocked, call \notin {"none", "accept"}, NoWrap
  PROVE  /\ ~Stuck!TimedOut => elapsed <= limit
         /\ Stuck!TimedOut => elapsed >= limit
<1>1. Ticks \in Nat \ {0} /\ Wait[call] \in Nat
  BY DeadlineAssumption DEF StuckType
<1>2. until = start + limit /\ now = start + elapsed /\ until < Ticks - 1
      /\ start \in Nat /\ limit \in Nat /\ elapsed \in Nat
  BY <1>1 DEF StuckType, Clocked, NoWrap
<1>3. (now < until <=> elapsed < limit) /\ (now <= until <=> elapsed <= limit)
      /\ (now >= until <=> elapsed >= limit)
  BY <1>2
<1>4. until # Stuck!portMAX_DELAY
  BY <1>1, <1>2 DEF Stuck!portMAX_DELAY
<1>5. call \in {"connect", "send", "recv", "select"}
  BY DEF StuckType, Stuck!Kinds
<1>6. CASE call = "connect"
  BY <1>2, <1>3, <1>6 DEF Stuck!TimedOut
<1>9. CASE call = "send"
  BY <1>2, <1>3, <1>9 DEF Stuck!TimedOut
<1>7. CASE call = "recv"
  BY <1>2, <1>3, <1>7 DEF Stuck!TimedOut
<1>8. CASE call = "select"
  <2>1. Stuck!TimedOut <=> now >= until
    BY <1>4, <1>8 DEF Stuck!TimedOut
  <2> QED
    BY <1>2, <1>3, <2>1
<1> QED
  BY <1>5, <1>6, <1>7, <1>8, <1>9

\* Every step keeps the variables of Deadline in their types.
LEMMA StuckNextType == StuckType /\ [Stuck!Next]_(Stuck!vars) => StuckType'
<1> SUFFICES ASSUME StuckType, [Stuck!Next]_(Stuck!vars) PROVE StuckType'
  OBVIOUS
<1>0. /\ Ticks \in Nat \ {0} /\ AcceptLimit \in Nat /\ Default \in Nat /\ SndDefault \in Nat
      /\ \A t \in Timeouts : t \in Nat
      /\ \A d \in Nat : (now + d) % Ticks \in 0 .. Ticks - 1
  BY DeadlineAssumption, TickType DEF StuckType
<1> USE DEF StuckType, Stuck!options, Stuck!locals
<1>1. ASSUME NEW t \in Timeouts, Stuck!SetTimeout(t) PROVE StuckType'
  BY <1>0, <1>1 DEF Stuck!SetTimeout
<1>2. ASSUME NEW t \in Timeouts, NEW k \in Stuck!Kinds, Stuck!Call(k, t) PROVE StuckType'
  <2>1. Stuck!LimitOf(k, t) \in Nat
    BY <1>0 DEF Stuck!LimitOf, Stuck!OrDefault, Stuck!Kinds
  <2>2. until' \in Nat
    <3>1. until' = (now + limit') % Ticks /\ limit' \in Nat
      BY <1>2, <2>1 DEF Stuck!Call
    <3>2. until' \in 0 .. Ticks - 1
      BY <1>0, <3>1
    <3> QED
      BY <1>0, <3>2
  <2> QED
    BY <1>2, <2>1, <2>2 DEF Stuck!Call
<1>3. ASSUME NEW b \in BOOLEAN, Stuck!SetNonblocking(b) PROVE StuckType'
  BY <1>3 DEF Stuck!SetNonblocking
<1>4. ASSUME call # "none", NEW d \in 1 .. Wait[call], Stuck!WaitTicks(d) PROVE StuckType'
  <2>1. Wait[call] \in Nat /\ d \in Nat
    BY <1>4, WaitType
  <2>2. now' \in 0 .. Ticks - 1
    BY <1>0, <1>4, <2>1 DEF Stuck!WaitTicks
  <2>3. elapsed' \in Nat
    BY <1>4, <2>1 DEF Stuck!WaitTicks, Stuck!Late
  <2> QED
    BY <1>4, <2>2, <2>3 DEF Stuck!WaitTicks
<1>5. CASE Stuck!Return
  BY <1>0, <1>5 DEF Stuck!Return
<1>6. CASE Stuck!Run
  BY <1>0, <1>6 DEF Stuck!Run
<1>7. CASE UNCHANGED Stuck!vars
  BY <1>7 DEF Stuck!vars
<1> QED
  BY <1>1, <1>2, <1>3, <1>4, <1>5, <1>6, <1>7 DEF Stuck!Next

\* Every step keeps the clocks related.
LEMMA StuckNextClocked == StuckType /\ Clocked /\ [Stuck!Next]_(Stuck!vars) => Clocked'
<1> SUFFICES ASSUME StuckType, Clocked, [Stuck!Next]_(Stuck!vars) PROVE Clocked'
  OBVIOUS
<1>0. Ticks \in Nat \ {0} /\ StuckType'
  BY DeadlineAssumption, StuckNextType
<1> USE DEF Stuck!options, Stuck!locals
<1>1. ASSUME call = "none", call' = "none" PROVE Clocked'
  BY <1>1 DEF Clocked
<1>2. ASSUME NEW t \in Timeouts, Stuck!SetTimeout(t) PROVE Clocked'
  BY <1>1, <1>2 DEF Stuck!SetTimeout
<1>3. ASSUME NEW b \in BOOLEAN, Stuck!SetNonblocking(b) PROVE Clocked'
  BY <1>1, <1>3 DEF Stuck!SetNonblocking
<1>4. ASSUME NEW t \in Timeouts, NEW k \in Stuck!Kinds, Stuck!Call(k, t) PROVE Clocked'
  <2>1. /\ call' = k /\ limit' = Stuck!LimitOf(k, t) /\ elapsed' = 0 /\ start' = now
        /\ until' = (now + limit') % Ticks /\ now' = now /\ nonblocking' = nonblocking
    BY <1>4 DEF Stuck!Call
  <2>2. now \in Nat /\ limit' \in Nat /\ Wait[k] \in Nat
    BY <1>0, DeadlineAssumption DEF StuckType
  <2>3. k = "accept" => limit' = IF nonblocking THEN 0 ELSE AcceptLimit
    BY <2>1 DEF Stuck!LimitOf
  <2>4. now + limit' + Wait[k] < Ticks - 1 => until' = now + limit'
    <3>1. PICK l \in Nat : l = limit'
      BY <2>2
    <3>2. now + l + Wait[k] < Ticks - 1 => (now + l) % Ticks = now + l
      BY <2>2, NoTurn
    <3> QED
      BY <2>1, <3>1, <3>2
  <2> QED
    BY <2>1, <2>2, <2>3, <2>4 DEF Clocked, NoWrap
<1>5. ASSUME call # "none", NEW d \in 1 .. Wait[call], Stuck!WaitTicks(d) PROVE Clocked'
  <2>0. /\ Wait[call] \in Nat /\ d \in Nat /\ d <= Wait[call]
        /\ now \in Nat /\ now < Ticks /\ limit \in Nat /\ elapsed \in Nat
    BY <1>0, <1>5, WaitType DEF StuckType
  <2>1. /\ now' = (now + d) % Ticks /\ UNCHANGED <<call, start, until, limit, nonblocking>>
        /\ elapsed + d <= limit + Wait[call] => elapsed' = elapsed + d
        /\ ~Stuck!TimedOut
    BY <1>5, <2>0 DEF Stuck!WaitTicks, Stuck!Late
  <2>2. ASSUME call # "accept", NoWrap
        PROVE  elapsed' = elapsed + d /\ now' = start + elapsed' /\ elapsed' <= limit + Wait[call]
    <3>1. elapsed <= limit /\ now = start + elapsed
      BY <1>5, <2>1, <2>2, AbsoluteTimedOut DEF Clocked
    <3>2. elapsed' = elapsed + d /\ elapsed' <= limit + Wait[call]
      BY <2>0, <2>1, <3>1
    <3>3. now + d < Ticks /\ start \in Nat
      BY <1>0, <2>0, <2>2, <3>1 DEF NoWrap, StuckType
    <3>4. now' = now + d
      BY <1>0, <2>0, <2>1, <3>3
    <3> QED
      BY <2>0, <3>1, <3>2, <3>3, <3>4
  <2>3. ASSUME call = "accept"
        PROVE  /\ ~nonblocking /\ elapsed' <= limit + Wait[call]
               /\ now' \in {start + elapsed', start + elapsed' - Ticks}
    <3>1. /\ ~nonblocking /\ elapsed <= AcceptLimit /\ limit = AcceptLimit
          /\ now \in {start + elapsed, start + elapsed - Ticks}
      <4>1. ~nonblocking /\ elapsed <= AcceptLimit
        BY <1>0, <2>0, <2>1, <2>3, AcceptTimedOut, DeadlineAssumption
      <4>2. limit = AcceptLimit /\ now \in {start + elapsed, start + elapsed - Ticks}
        BY <2>3, <4>1 DEF Clocked
      <4> QED
        BY <4>1, <4>2
    <3>2. elapsed' = elapsed + d /\ elapsed' <= limit + Wait[call]
      BY <2>0, <2>1, <3>1
    <3>3. AcceptLimit + Wait[call] < Ticks /\ AcceptLimit \in Nat /\ start \in 0 .. Ticks - 1
      BY <2>3, DeadlineAssumption DEF StuckType
    <3>4. now + d \in Nat /\ now + d < 2 * Ticks
      BY <1>0, <2>0, <3>1, <3>3
    <3>5. now' \in {now + d, now + d - Ticks} /\ now' \in 0 .. Ticks - 1
      <4> DEFINE a == now + d
      <4>1. now' = a % Ticks /\ a \in Nat /\ a < 2 * Ticks
        BY <2>1, <3>4
      <4> HIDE DEF a
      <4>2. now' = (IF a < Ticks THEN a ELSE a - Ticks) /\ now' \in 0 .. Ticks - 1
        BY <4>1, OneTurn
      <4> QED
        BY <1>0, <2>0, <4>1, <4>2 DEF a
    <3>6. start + elapsed' < 2 * Ticks
      BY <1>0, <2>0, <3>1, <3>2, <3>3
    <3> QED
      BY <1>0, <2>0, <3>1, <3>2, <3>3, <3>5, <3>6
  <2> QED
    BY <1>5, <2>1, <2>2, <2>3 DEF Clocked, NoWrap
<1>6. CASE Stuck!Return
  BY <1>6 DEF Stuck!Return, Clocked
<1>7. CASE Stuck!Run
  BY <1>1, <1>7 DEF Stuck!Run
<1>8. CASE UNCHANGED Stuck!vars
  BY <1>8 DEF Stuck!vars, Clocked, NoWrap
<1> QED
  BY <1>2, <1>3, <1>4, <1>5, <1>6, <1>7, <1>8 DEF Stuck!Next

\* For every width of the tick counter and all timeouts, a call on a stack that
\* makes no progress gives up no earlier than its timeout and at most one wait
\* later: accept always, the others if the counter does not wrap before then.
THEOREM StuckCallsGiveUp == Stuck!Spec => []GivesUpInTime
<1>1. Stuck!Init => StuckType /\ Clocked
  <2>1. Ticks \in Nat \ {0}
    BY DeadlineAssumption
  <2>2. Stuck!Init => StuckType
    <3>1. 0 \in Nat /\ 0 \in 0 .. Ticks - 1
      BY <2>1
    <3> QED
      BY <3>1, Zenon DEF Stuck!Init, StuckType
  <2>3. Stuck!Init => Clocked
    BY DEF Stuck!Init, Clocked
  <2> QED
    BY <2>2, <2>3
<1>2. StuckType /\ Clocked => GivesUpInTime
  <2> SUFFICES ASSUME StuckType, Clocked,
                      call = "accept" \/ (call # "none" /\ start + limit + Wait[call] < Ticks - 1)
               PROVE  elapsed <= limit + Wait[call] /\ (Stuck!TimedOut => elapsed >= limit)
    BY DEF GivesUpInTime, Stuck!GivesUpInTime, Stuck!OnTime, Stuck!portMAX_DELAY
  <2>1. CASE call = "accept"
    <3>1. elapsed <= limit + Wait[call] /\ limit \in {0, AcceptLimit} /\ (nonblocking => limit = 0)
      BY <2>1 DEF Clocked
    <3>2. Stuck!TimedOut => nonblocking \/ elapsed > AcceptLimit
      BY <2>1, AcceptTimedOut
    <3>3. elapsed \in Nat /\ AcceptLimit \in Nat
      BY DeadlineAssumption DEF StuckType
    <3> QED
      BY <3>1, <3>2, <3>3
  <2>2. CASE call # "accept"
    BY <2>2, AbsoluteTimedOut DEF Clocked, NoWrap
  <2> QED
    BY <2>1, <2>2
<1> QED
  BY <1>1, <1>2, StuckNextType, StuckNextClocked, PTL DEF Stuck!Spec

-----------------------------------------------------------------------------
(* The composition.                                                        *)

\* A behaviour of the composition is one of each part: a step of one part leaves the
\* variables of the other alone.  So the theorems above hold of CallsSpec.
THEOREM EachPart == CallsSpec => Spec /\ Stuck!Spec
<1> DEFINE Any == ServedStep \/ StuckStep
           all == <<part, vars, stuckVars>>
<1>1. [Any]_all => [Next]_vars
  BY DEF ServedStep, StuckStep
<1>2. [Any]_all => [Stuck!Next]_(Stuck!vars)
  BY DEF ServedStep, StuckStep, stuckVars, Stuck!vars, Stuck!options, Stuck!locals
<1>3. CallsInit => Init /\ Stuck!Init
  BY DEF CallsInit
<1> QED
  BY <1>1, <1>2, <1>3, PTL DEF CallsSpec, Spec, Stuck!Spec

\* What the tcp_single run checks of the blocking calls' state, for every value of
\* the constants: with one thread, neither a served nor a stuck call waits too long.
THEOREM CallsCorrect ==
    ASSUME \A t, u \in Threads : t = u
    PROVE  CallsSpec => [](NoStalledWaiter /\ GivesUpInTime)
  BY EachPart, OneThreadNeverStalls, StuckCallsGiveUp, PTL
=============================================================================
