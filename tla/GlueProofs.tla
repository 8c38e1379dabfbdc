----------------------------- MODULE GlueProofs -----------------------------
(***************************************************************************)
(* The Rust glue. SockId, for every number of interfaces and slots and     *)
(* every width of the handle: HandlesDenote and NothingStranded, as long   *)
(* as fewer sockets are opened than the handle's number part can tell      *)
(* apart. Then the transmit buffers, the copies of an interface's address, *)
(* the resolver with its parser and the address encodings, each for every  *)
(* value of its constants. Together they are what holds of Glue.           *)
(***************************************************************************)
EXTENDS Glue, Integers, Sequences, WellFoundedInduction, TLAPS

TypeOK ==
    /\ next_id \in [Ifaces -> Nat] /\ count \in [Ifaces -> 0..MaxOpens]
    /\ handles \in [Ifaces \X Ids -> Slots \cup {None}]
    /\ slots \in [Ifaces \X Slots -> Serials \cup {None}]
    /\ name \in [Ifaces \X Serials -> Nat \X Nat]
    /\ open \in SUBSET (Ifaces \X Serials)

\* The n-th socket of an interface has number n, which its handle keeps whole.
Numbered ==
    \A i \in Ifaces :
        /\ next_id[i] = count[i] + 1
        /\ \A n \in Serials : n <= count[i] => name[<<i, n>>] = <<i, n>>

\* The map and the socket set are inverse to each other on the open sockets.
OpenMapped ==
    \A i \in Ifaces, n \in Serials :
        <<i, n>> \in open => /\ n <= count[i] /\ handles[<<i, n>>] \in Slots
                             /\ slots[<<i, handles[<<i, n>>]>>] = n

ClosedUnmapped ==
    \A i \in Ifaces, n \in Ids : <<i, n>> \notin open => handles[<<i, n>>] = None

SlotsOpen ==
    \A i \in Ifaces, s \in Slots, n \in Serials :
        slots[<<i, s>>] = n => <<i, n>> \in open /\ handles[<<i, n>>] = s

IndInv == TypeOK /\ Numbered /\ OpenMapped /\ ClosedUnmapped /\ SlotsOpen

LEMMA SerialIsId ==
    ASSUME NEW n \in Serials
    PROVE  n \in Ids /\ n \in Nat /\ n % LocalMod = n
  BY SockIdAssumption, SMT DEF Serials, Ids

LEMMA InitInv == Init => IndInv
<1> SUFFICES ASSUME Init PROVE IndInv
  OBVIOUS
<1> USE SockIdAssumption DEF Init
<1>1. TypeOK
  BY DEF TypeOK
<1>2. Numbered
  <2>1. \A n \in Serials : ~(n <= 0)
    BY SMT DEF Serials
  <2>2. \A i \in Ifaces : next_id[i] = 1 /\ count[i] = 0
    OBVIOUS
  <2>3. 0 + 1 = 1
    OBVIOUS
  <2> HIDE DEF Init
  <2> QED
    BY <2>1, <2>2, <2>3 DEF Numbered
<1>3. OpenMapped /\ ClosedUnmapped /\ SlotsOpen
  BY DEF OpenMapped, ClosedUnmapped, SlotsOpen
<1> QED
  BY <1>1, <1>2, <1>3 DEF IndInv

LEMMA StutterInv ==
    ASSUME IndInv, UNCHANGED vars
    PROVE  IndInv'
<1>1. TypeOK'
  BY DEF IndInv, vars, TypeOK
<1>2. Numbered'
  BY DEF IndInv, vars, Numbered
<1>3. OpenMapped'
  BY DEF IndInv, vars, OpenMapped
<1>4. ClosedUnmapped'
  BY DEF IndInv, vars, ClosedUnmapped
<1>5. SlotsOpen'
  BY DEF IndInv, vars, SlotsOpen
<1> QED
  BY <1>1, <1>2, <1>3, <1>4, <1>5 DEF IndInv

\* Opening a socket and closing a handle, fresh or stale, keep the invariant.
LEMMA NextInv ==
    ASSUME IndInv, [Next]_vars
    PROVE  IndInv'
<1> USE SockIdAssumption DEF IndInv
<1>1. ASSUME NEW i \in Ifaces, NEW s \in Slots, Open(i, s) PROVE IndInv'
  <2> DEFINE n == count[i] + 1
  <2>1. /\ n \in Serials /\ next_id[i] = n /\ n \in Ids /\ n \in Nat
        /\ Encode(i, n) = <<i, n>> /\ slots[<<i, s>>] = None
    <3>1. n \in Serials /\ next_id[i] = n /\ slots[<<i, s>>] = None
      BY <1>1 DEF Open, TypeOK, Numbered, Serials
    <3> QED
      BY <3>1, SerialIsId DEF Encode
  <2>2. /\ slots' = [slots EXCEPT ![<<i, s>>] = n]
        /\ handles' = [handles EXCEPT ![<<i, n>>] = s]
        /\ next_id' = [next_id EXCEPT ![i] = Successor(n)]
        /\ name' = [name EXCEPT ![<<i, n>>] = <<i, n>>]
        /\ count' = [count EXCEPT ![i] = n]
        /\ open' = open \cup {<<i, n>>}
    BY <1>1, <2>1, Zenon DEF Open
  <2>3. <<i, n>> \notin open
    <3>1. count[i] \in Nat /\ ~(n <= count[i])
      BY SMT DEF TypeOK
    <3> QED
      BY <2>1, <3>1, Zenon DEF OpenMapped
  <2>4. Successor(n) = n + 1
    <3>1. n + 1 \in 2 .. IdMod - 1 /\ IdMod \in Nat
      BY <2>1, SMT DEF Serials
    <3>2. (n + 1) % IdMod = n + 1
      BY <3>1, SMT
    <3> QED
      BY <3>1, <3>2, SMT DEF Successor
  <2> HIDE DEF n
  <2>5. TypeOK'
    BY <2>1, <2>2, <2>4 DEF TypeOK, Serials
  <2>6. Numbered'
    <3>1. \A j \in Ifaces : next_id'[j] = count'[j] + 1
      BY <2>1, <2>2, <2>4 DEF TypeOK, Numbered
    <3>2. ASSUME NEW j \in Ifaces, NEW m \in Serials, m <= count'[j]
          PROVE  name'[<<j, m>>] = <<j, m>>
      <4>1. CASE j = i /\ m = n
        BY <2>1, <2>2, <4>1 DEF TypeOK
      <4>2. CASE ~(j = i /\ m = n)
        <5>1. m <= count[j]
          BY <2>1, <2>2, <3>2, <4>2 DEF TypeOK, Serials, n
        <5>2. name'[<<j, m>>] = name[<<j, m>>]
          BY <2>2, <4>2 DEF TypeOK
        <5> QED
          BY <5>1, <5>2, Zenon DEF Numbered
      <4> QED
        BY <4>1, <4>2
    <3> QED
      BY <3>1, <3>2, Zenon DEF Numbered
  <2>7. OpenMapped'
    <3> SUFFICES ASSUME NEW j \in Ifaces, NEW m \in Serials, (<<j, m>> \in open)'
                 PROVE  (/\ m <= count[j] /\ handles[<<j, m>>] \in Slots
                         /\ slots[<<j, handles[<<j, m>>]>>] = m)'
      BY DEF OpenMapped
    <3>1. m \in Ids /\ m \in Nat
      BY SerialIsId
    <3>2. CASE <<j, m>> = <<i, n>>
      BY <2>1, <2>2, <3>1, <3>2 DEF TypeOK
    <3>3. CASE <<j, m>> # <<i, n>>
      <4>1. /\ <<j, m>> \in open /\ handles'[<<j, m>>] = handles[<<j, m>>]
            /\ m <= count[j] /\ handles[<<j, m>>] \in Slots
            /\ slots[<<j, handles[<<j, m>>]>>] = m
        BY <2>1, <2>2, <3>1, <3>3 DEF TypeOK, OpenMapped
      <4>2. <<j, handles[<<j, m>>]>> # <<i, s>>
        BY <2>1, <4>1
      <4>3. slots'[<<j, handles[<<j, m>>]>>] = m
        BY <2>2, <4>1, <4>2 DEF TypeOK
      <4>4. count[j] \in Nat /\ count'[j] = IF j = i THEN count[i] + 1 ELSE count[j]
        BY <2>2 DEF TypeOK, n
      <4>5. m <= count'[j]
        BY <3>1, <4>1, <4>4
      <4> QED
        BY <4>1, <4>3, <4>5
    <3> QED
      BY <3>2, <3>3
  <2>8. ClosedUnmapped'
    BY <2>1, <2>2 DEF TypeOK, ClosedUnmapped
  <2>9. SlotsOpen'
    <3> SUFFICES ASSUME NEW j \in Ifaces, NEW t \in Slots, NEW m \in Serials,
                        slots'[<<j, t>>] = m
                 PROVE  <<j, m>> \in open' /\ handles'[<<j, m>>] = t
      BY Zenon DEF SlotsOpen
    <3>1. CASE <<j, t>> = <<i, s>>
      <4>1. j = i /\ t = s /\ m = n
        BY <2>1, <2>2, <3>1 DEF TypeOK
      <4> QED
        BY <2>1, <2>2, <4>1 DEF TypeOK
    <3>2. CASE <<j, t>> # <<i, s>>
      <4>1. <<j, m>> \in open /\ handles[<<j, m>>] = t
        BY <2>2, <3>2 DEF TypeOK, SlotsOpen
      <4>2. <<j, m>> # <<i, n>> /\ <<j, m>> \in Ifaces \X Ids
        BY <2>3, <4>1, SerialIsId
      <4> QED
        BY <2>2, <4>1, <4>2 DEF TypeOK
    <3> QED
      BY <3>1, <3>2
  <2> QED
    BY <2>5, <2>6, <2>7, <2>8, <2>9
<1>2. ASSUME NEW i \in Ifaces, NEW n \in Serials, Close(i, n) PROVE IndInv'
  <2>1. name[<<i, n>>] = <<i, n>> /\ n \in Ids
    BY <1>2, SerialIsId DEF Close, Numbered
  <2>2. open' = open \ {<<i, n>>} /\ UNCHANGED <<next_id, count, name>>
    BY <1>2 DEF Close
  <2>3. CASE handles[<<i, n>>] = None
    <3>1. UNCHANGED <<slots, handles>> /\ <<i, n>> \notin open
      BY <1>2, <2>1, <2>3, Zenon DEF Close, OpenMapped
    <3>2. open' = open
      BY <2>2, <3>1
    <3>3. UNCHANGED vars
      BY <2>2, <3>1, <3>2 DEF vars
    <3> QED
      BY <3>3, StutterInv
  <2>4. CASE handles[<<i, n>>] # None
    <3>1. PICK s \in Slots : handles[<<i, n>>] = s
      BY <2>1, <2>4 DEF TypeOK
    <3>2. /\ slots' = [slots EXCEPT ![<<i, s>>] = None]
          /\ handles' = [handles EXCEPT ![<<i, n>>] = None]
      BY <1>2, <2>1, <2>4, <3>1 DEF Close
    <3>3. TypeOK' /\ Numbered'
      BY <2>1, <2>2, <3>2 DEF TypeOK, Numbered
    <3>4. <<i, n>> \in open /\ slots[<<i, s>>] = n
      BY <2>1, <2>4, <3>1, Zenon DEF ClosedUnmapped, OpenMapped
    <3>5. OpenMapped'
      <4> SUFFICES ASSUME NEW j \in Ifaces, NEW m \in Serials, <<j, m>> \in open'
                   PROVE  /\ m <= count'[j] /\ handles'[<<j, m>>] \in Slots
                          /\ slots'[<<j, handles'[<<j, m>>]>>] = m
        BY DEF OpenMapped
      <4>1. <<j, m>> # <<i, n>> /\ <<j, m>> \in open
        BY <2>2
      <4>2. /\ m <= count[j] /\ handles[<<j, m>>] \in Slots
            /\ slots[<<j, handles[<<j, m>>]>>] = m
        BY <4>1, Zenon DEF OpenMapped
      <4>3. handles'[<<j, m>>] = handles[<<j, m>>]
        BY <3>2, <4>1, SerialIsId DEF TypeOK
      <4>4. <<j, handles[<<j, m>>]>> # <<i, s>>
        BY <3>4, <4>1, <4>2
      <4> QED
        BY <2>2, <3>2, <4>2, <4>3, <4>4, Zenon DEF TypeOK
    <3>6. ClosedUnmapped'
      BY <2>1, <2>2, <3>2 DEF TypeOK, ClosedUnmapped
    <3>7. SlotsOpen'
      <4> SUFFICES ASSUME NEW j \in Ifaces, NEW t \in Slots, NEW m \in Serials,
                          slots'[<<j, t>>] = m
                   PROVE  <<j, m>> \in open' /\ handles'[<<j, m>>] = t
        BY DEF SlotsOpen
      <4>1. <<j, t>> # <<i, s>> /\ slots[<<j, t>>] = m
        BY <3>2 DEF TypeOK
      <4>2. <<j, m>> \in open /\ handles[<<j, m>>] = t
        BY <4>1, Zenon DEF SlotsOpen
      <4>3. <<j, m>> # <<i, n>>
        BY <3>1, <4>1, <4>2
      <4> QED
        BY <2>2, <3>2, <4>2, <4>3, SerialIsId DEF TypeOK
    <3> QED
      BY <3>3, <3>5, <3>6, <3>7
  <2> QED
    BY <2>3, <2>4
<1>3. CASE UNCHANGED vars
  BY <1>3, StutterInv
<1> QED
  BY <1>1, <1>2, <1>3 DEF Next

\* lookup() of a handle finds its socket while that is open, and nothing afterwards.
THEOREM HandlesReachTheirSocket == Spec => []HandlesDenote
<1>1. IndInv => HandlesDenote
  <2> SUFFICES ASSUME IndInv, NEW i \in Ifaces, NEW n \in Serials, n <= count[i]
               PROVE  lookup(name[<<i, n>>]) = IF <<i, n>> \in open THEN n ELSE None
    BY DEF HandlesDenote
  <2>1. name[<<i, n>>] = <<i, n>> /\ n \in Ids
    BY SerialIsId DEF IndInv, Numbered
  <2> QED
    BY <2>1, SockIdAssumption DEF lookup, IndInv, OpenMapped, ClosedUnmapped
<1> QED
  BY <1>1, InitInv, NextInv, PTL DEF Spec

\* Every socket in smoltcp's set belongs to a handle the application still holds.
THEOREM NoSocketStranded == Spec => []NothingStranded
<1>1. IndInv => NothingStranded
  BY DEF IndInv, TypeOK, SlotsOpen, NothingStranded
<1> QED
  BY <1>1, InitInv, NextInv, PTL DEF Spec

-----------------------------------------------------------------------------
(* Transmit buffers.                                                       *)

\* what is not free is the token of the one poll that runs, and the copy of
\* free_mask that an allocation or a Drop works on is up to date
TokensCounted ==
    /\ pc \in [Callers -> {"idle", "poll", "alloc", "token", "free"}]
    /\ mask \in [Callers -> SUBSET Tx!Bufs]
    /\ buf \in [Callers -> Nat]
    /\ free_mask \subseteq Tx!Bufs
    /\ \A c, d \in Callers : pc[c] # "idle" /\ pc[d] # "idle" => c = d
    /\ \A c \in Callers : pc[c] \in {"alloc", "free"} => mask[c] = free_mask
    /\ \A c \in Callers : pc[c] = "alloc" => free_mask # {}
    /\ \A c \in Callers : pc[c] \in {"token", "free"} =>
           buf[c] \in Tx!Bufs /\ free_mask = Tx!Bufs \ {buf[c]}
    /\ (\A c \in Callers : pc[c] \notin {"token", "free"}) => free_mask = Tx!Bufs

\* Every step of a poll that holds the lock keeps count of the buffers.
LEMMA TxNextCounted ==
  ASSUME Unlocked = {}, TokensCounted, [Tx!Next]_(Tx!vars)
  PROVE  TokensCounted'
<1> USE DEF TokensCounted, Tx!Goto
<1>0. Tx!Bufs \subseteq Nat
  BY GlueAssumption DEF Tx!Bufs
<1>1. ASSUME NEW c \in Callers, Tx!Enter(c) PROVE TokensCounted'
  BY <1>1 DEF Tx!Enter
<1>2. ASSUME NEW c \in Callers, Tx!Leave(c) PROVE TokensCounted'
  BY <1>2 DEF Tx!Leave
<1>3. ASSUME NEW c \in Callers, Tx!PushRx(c) \/ \E b \in BOOLEAN : Tx!SetLinkUp(c, b)
      PROVE  TokensCounted'
  BY <1>3 DEF Tx!PushRx, Tx!SetLinkUp
<1>4. ASSUME NEW c \in Callers, Tx!receive(c) \/ Tx!transmit(c) PROVE TokensCounted'
  <2>1. /\ pc[c] = "poll" /\ UNCHANGED <<free_mask, buf>>
        /\ mask' = [mask EXCEPT ![c] = free_mask]
        /\ pc' = [pc EXCEPT ![c] = IF free_mask = {} THEN "poll" ELSE "alloc"]
    BY <1>4 DEF Tx!receive, Tx!transmit, Tx!ReadMask
  <2> QED
    BY <2>1
<1>5. ASSUME NEW c \in Callers, Tx!TakeBuf(c) PROVE TokensCounted'
  <2>1. /\ pc[c] = "alloc" /\ mask[c] = free_mask /\ free_mask # {} /\ free_mask = Tx!Bufs
    BY <1>5 DEF Tx!TakeBuf
  <2>2. PICK b \in Tx!Bufs : buf' = [buf EXCEPT ![c] = b] /\ free_mask' = Tx!Bufs \ {b}
    BY <1>5, <2>1, Zenon DEF Tx!TakeBuf
  <2>3. pc' = [pc EXCEPT ![c] = "token"] /\ mask' = mask
    BY <1>5 DEF Tx!TakeBuf
  <2> QED
    BY <1>0, <2>1, <2>2, <2>3
<1>6. ASSUME NEW c \in Callers, Tx!Drop(c) PROVE TokensCounted'
  BY <1>6 DEF Tx!Drop
<1>7. ASSUME NEW c \in Callers, Tx!FreeBuf(c) PROVE TokensCounted'
  BY <1>7 DEF Tx!FreeBuf
<1>8. CASE UNCHANGED Tx!vars
  BY <1>8 DEF Tx!vars
<1> QED
  BY <1>1, <1>2, <1>3, <1>4, <1>5, <1>6, <1>7, <1>8, Zenon DEF Tx!Next

\* For any number of callers and buffers: while every poll holds SMOLTCP_LOCK, no
\* transmit buffer is lost, consumed or not.
THEOREM BuffersComeBack ==
    ASSUME Unlocked = {}
    PROVE  Tx!Spec => []AllReturned
<1>1. Tx!Init => TokensCounted
  BY GlueAssumption DEF Tx!Init, TokensCounted
<1>2. TokensCounted /\ [Tx!Next]_(Tx!vars) => TokensCounted'
  BY TxNextCounted
<1>3. TokensCounted => AllReturned
  BY DEF TokensCounted, AllReturned, Tx!AllReturned
<1> QED
  BY <1>1, <1>2, <1>3, PTL DEF Tx!Spec

\* lib.rs:164, for any number of callers and buffers: while every poll holds
\* SMOLTCP_LOCK, receive() always finds a buffer, so no received frame is dropped.
THEOREM FramesHeld ==
    ASSUME Unlocked = {}, TX_POOL_N > 0
    PROVE  Tx!Spec => []Tx!FrameHeld
<1>1. Tx!Init => TokensCounted /\ Tx!FrameHeld
  BY GlueAssumption DEF Tx!Init, TokensCounted, Tx!FrameHeld
<1>2. TokensCounted /\ Tx!FrameHeld /\ [Tx!Next]_(Tx!vars) => (TokensCounted /\ Tx!FrameHeld)'
  <2> SUFFICES ASSUME TokensCounted, ~lost, [Tx!Next]_(Tx!vars) PROVE ~lost'
    BY TxNextCounted DEF Tx!FrameHeld
  <2>1. 0 \in Tx!Bufs
    BY GlueAssumption DEF Tx!Bufs
  <2>2. ASSUME NEW c \in Callers, Tx!receive(c) PROVE ~lost'
    <3>1. \A d \in Callers : pc[d] \notin {"token", "free"}
      BY <2>2 DEF Tx!receive, TokensCounted
    <3>2. free_mask # {}
      BY <2>1, <3>1, Zenon DEF TokensCounted
    <3> QED
      BY <2>2, <3>2, Zenon DEF Tx!receive
  <2>3. CASE UNCHANGED lost
    BY <2>3
  <2> QED
    BY <2>2, <2>3 DEF Tx!Next, Tx!vars, Tx!Enter, Tx!Leave, Tx!PushRx, Tx!SetLinkUp,
       Tx!transmit, Tx!TakeBuf, Tx!Drop, Tx!FreeBuf
<1> QED
  BY <1>1, <1>2, PTL DEF Tx!Spec

-----------------------------------------------------------------------------
(* The address of an interface.                                            *)

\* the copies of the address, and what get_ip_info has read of them
Copies ==
    /\ has_ip = (addr # 0)
    /\ addr = 0 => netmask_be = 0 /\ gateway_be = 0 /\ route = 0
    /\ addr # 0 => Ip!Config \in Leases \cup Statics
    /\ mode = "new" => addr = 0
ReadSoFar ==
    /\ info = [addr |-> info.addr, mask |-> info.mask, router |-> info.router]
    /\ read \in {"idle", "gw", "mask", "done"}
    /\ read = "idle" => ~changed
    /\ ~changed /\ read \in {"gw", "mask", "done"} => info.addr = addr
    /\ ~changed /\ read \in {"mask", "done"} => info.router = gateway_be
    /\ ~changed /\ read = "done" => info.mask = netmask_be

\* Every step keeps the copies in agreement.
LEMMA IpNextCopies == Copies /\ [Ip!Next]_(Ip!vars) => Copies'
<1> SUFFICES ASSUME Copies, [Ip!Next]_(Ip!vars) PROVE Copies'
  OBVIOUS
<1>0. \A l \in Leases \cup Statics :
        l.addr # 0 /\ l = [addr |-> l.addr, mask |-> l.mask, router |-> l.router]
  BY GlueAssumption
<1> USE DEF Copies, Ip!Config, Ip!ipVars, Ip!callVars, Ip!Noted
<1>1. ASSUME NEW l \in Statics, Ip!SetStatic(l) PROVE Copies'
  BY <1>0, <1>1, Zenon DEF Ip!SetStatic
<1>2. ASSUME NEW l \in Leases, Ip!Configured(l) PROVE Copies'
  BY <1>0, <1>2, Zenon DEF Ip!Configured
<1>3. CASE Ip!EnableDhcp \/ Ip!PollStatic
  <2>1. UNCHANGED <<addr, netmask_be, gateway_be, route>> /\ (mode' = "new" => mode = "new")
    BY <1>3 DEF Ip!EnableDhcp, Ip!PollStatic
  <2>2. has_ip' = (addr # 0)
    BY <1>3 DEF Ip!EnableDhcp, Ip!PollStatic
  <2> QED
    BY <2>1, <2>2
<1>4. CASE Ip!Deconfigured
  BY <1>4, Zenon DEF Ip!Deconfigured
<1>5. CASE Ip!ReadAddr \/ Ip!ReadGateway \/ Ip!ReadNetmask \/ Ip!Return
  <2>1. UNCHANGED <<mode, addr, netmask_be, gateway_be, has_ip, route>>
    BY <1>5 DEF Ip!ReadAddr, Ip!ReadGateway, Ip!ReadNetmask, Ip!Return
  <2> QED
    BY <2>1
<1>6. CASE UNCHANGED Ip!vars
  BY <1>6 DEF Ip!vars
<1> HIDE DEF Copies, Ip!Config, Ip!ipVars, Ip!callVars, Ip!Noted
<1> QED
  BY <1>1, <1>2, <1>3, <1>4, <1>5, <1>6 DEF Ip!Next

\* Every step keeps what get_ip_info has read current, or notes the change.
LEMMA IpNextRead == Copies /\ ReadSoFar /\ [Ip!Next]_(Ip!vars) => ReadSoFar'
<1> SUFFICES ASSUME Copies, ReadSoFar, [Ip!Next]_(Ip!vars) PROVE ReadSoFar'
  OBVIOUS
<1> USE DEF ReadSoFar, Ip!ipVars, Ip!callVars
<1>1. ASSUME Ip!Noted, UNCHANGED <<read, info>> PROVE ReadSoFar'
  <2>1. ~changed' /\ read # "idle" => /\ ~changed /\ addr' = addr
                                      /\ netmask_be' = netmask_be /\ gateway_be' = gateway_be
    BY <1>1, Zenon DEF Ip!Noted, Ip!Config, Copies
  <2>2. read = "idle" => ~changed'
    BY <1>1, Zenon DEF Ip!Noted
  <2> QED
    BY <1>1, <2>1, <2>2
<1>2. ASSUME NEW l \in Statics, Ip!SetStatic(l) PROVE ReadSoFar'
  BY <1>1, <1>2 DEF Ip!SetStatic
<1>3. ASSUME NEW l \in Leases, Ip!Configured(l) PROVE ReadSoFar'
  BY <1>1, <1>3 DEF Ip!Configured
<1>4. CASE Ip!Deconfigured
  BY <1>1, <1>4 DEF Ip!Deconfigured
<1>5. CASE Ip!EnableDhcp \/ Ip!PollStatic
  BY <1>5 DEF Ip!EnableDhcp, Ip!PollStatic
<1>6. CASE Ip!ReadAddr
  BY <1>6 DEF Ip!ReadAddr
<1>7. CASE Ip!ReadGateway
  BY <1>7 DEF Ip!ReadGateway
<1>8. CASE Ip!ReadNetmask
  BY <1>8 DEF Ip!ReadNetmask
<1>9. CASE Ip!Return
  BY <1>9 DEF Ip!Return
<1>10. CASE UNCHANGED Ip!vars
  BY <1>10 DEF Ip!vars
<1> QED
  BY <1>2, <1>3, <1>4, <1>5, <1>6, <1>7, <1>8, <1>9, <1>10, Zenon DEF Ip!Next

\* For any leases and static addresses the copies in IfaceCtx agree with smoltcp,
\* and get_ip_info mixes two configurations only if one replaced the other
\* during the call.
THEOREM OneLease == Ip!Spec => []CopiesAgree
<1>1. Ip!Init => Copies /\ ReadSoFar
  BY Zenon DEF Ip!Init, Copies, ReadSoFar
<1>2. Copies /\ ReadSoFar => CopiesAgree
  BY Zenon DEF Copies, ReadSoFar, CopiesAgree, Ip!CopiesAgree, Ip!Config
<1> QED
  BY <1>1, <1>2, IpNextCopies, IpNextRead, PTL DEF Ip!Spec

-----------------------------------------------------------------------------
(* parse_a_response.  Its loops are recursive functions in Resolver; what  *)
(* they compute is shown by induction over the labels of a name, over the  *)
(* chunks of a message and over the turns of the loop over the answers.    *)

\* Induction, for sets of naturals.
LEMMA NatSet ==
  ASSUME NEW S, 0 \in S, \A n \in Nat : n \in S => n + 1 \in S
  PROVE  Nat \subseteq S
<1> DEFINE C == Nat \ S
<1>1. SUFFICES ASSUME C # {} PROVE FALSE
  OBVIOUS
<1>2. PICK x \in C : \A y \in C : ~(<<y, x>> \in OpToRel(<, Nat))
  BY <1>1, NatLessThanWellFounded, WFMin
<1>3. \A y \in C : ~(y < x)
  BY <1>2, Zenon DEF OpToRel
<1>4. x \in Nat /\ x # 0 /\ x \notin S
  OBVIOUS
<1>5. x - 1 \in Nat /\ x - 1 < x
  BY <1>4
<1>6. x - 1 \in S
  BY <1>3, <1>5
<1>7. (x - 1) + 1 \in S
  BY <1>5, <1>6
<1> QED
  BY <1>4, <1>7

\* f concatenates the first 0, 1, ... of n chunks
Concats(f, s, n) == f = [i \in 0 .. n |-> IF i = 0 THEN <<>> ELSE f[i - 1] \o s[i]]

\* one step of the concatenation
Appends(f, s, i) == (i = 0 => f[i] = <<>>) /\ (i # 0 => f[i] = f[i - 1] \o s[i])

\* What f is at i.
LEMMA ConcatsAt ==
  ASSUME NEW f, NEW s, NEW n \in Nat, Concats(f, s, n), NEW i \in 0 .. n
  PROVE  Appends(f, s, i)
<1> DEFINE h == [k \in 0 .. n |-> IF k = 0 THEN <<>> ELSE f[k - 1] \o s[k]]
<1>1. h[i] = IF i = 0 THEN <<>> ELSE f[i - 1] \o s[i]
  OBVIOUS
<1>2. f = h
  BY Zenon DEF Concats
<1> QED
  BY <1>1, <1>2, Zenon DEF Appends

\* There is such a function, for any number of chunks.
LEMMA ConcatsExist ==
  ASSUME NEW s, NEW N \in Nat
  PROVE  \E f : Concats(f, s, N)
<1> DEFINE S == {n \in Nat : \E f : Concats(f, s, n)}
<1>1. 0 \in S
  <2> DEFINE e == [i \in 0 .. 0 |-> <<>>]
  <2>1. \A i \in 0 .. 0 : i = 0
    OBVIOUS
  <2>2. e = [i \in 0 .. 0 |-> IF i = 0 THEN <<>> ELSE e[i - 1] \o s[i]]
    BY <2>1, Zenon
  <2> HIDE DEF e
  <2>3. Concats(e, s, 0)
    BY <2>2, Zenon DEF Concats
  <2> QED
    BY <2>3
<1>2. ASSUME NEW n \in Nat, n \in S PROVE n + 1 \in S
  <2>1. PICK f : Concats(f, s, n)
    BY <1>2
  <2> DEFINE g == [i \in 0 .. n + 1 |-> IF i = 0 THEN <<>> ELSE f[i - 1] \o s[i]]
  <2>2. ASSUME NEW i \in 0 .. n PROVE g[i] = f[i]
    <3>1. g[i] = IF i = 0 THEN <<>> ELSE f[i - 1] \o s[i]
      OBVIOUS
    <3> HIDE DEF g
    <3> QED
      BY <2>1, <3>1, ConcatsAt, Zenon DEF Appends
  <2>3. \A i \in 0 .. n + 1 : i # 0 => g[i - 1] = f[i - 1]
    <3> HIDE DEF g
    <3> QED
      BY <2>2
  <2>4. \A i \in 0 .. n + 1 :
          (IF i = 0 THEN <<>> ELSE f[i - 1] \o s[i]) = (IF i = 0 THEN <<>> ELSE g[i - 1] \o s[i])
    BY <2>3, Zenon
  <2>5. g = [i \in 0 .. n + 1 |-> IF i = 0 THEN <<>> ELSE g[i - 1] \o s[i]]
    BY <2>4, Zenon
  <2> HIDE DEF g
  <2>6. Concats(g, s, n + 1)
    BY <2>5, Zenon DEF Concats
  <2> QED
    BY <2>6
<1> HIDE DEF S
<1>3. N \in S
  BY <1>1, <1>2, NatSet
<1> QED
  BY <1>3 DEF S

\* The parts of a concatenation.
LEMMA Joined ==
  ASSUME NEW T, NEW a \in Seq(T), NEW b \in Seq(T)
  PROVE  /\ a \o b \in Seq(T) /\ Len(a) \in Nat /\ Len(b) \in Nat
         /\ Len(a \o b) = Len(a) + Len(b)
         /\ \A j \in 1 .. Len(a) : (a \o b)[j] = a[j]
         /\ \A j \in 1 .. Len(b) : (a \o b)[Len(a) + j] = b[j]
  OBVIOUS

\* the first n chunks of s are in c one behind the other, chunk k up to off[k]
Placed(c, s, off, n) ==
    \A k \in 1 .. n :
        /\ off[k] \in Nat /\ off[k - 1] \in Nat /\ off[k] <= Len(c)
        /\ off[k] = off[k - 1] + Len(s[k])
        /\ \A j \in 1 .. Len(s[k]) : c[off[k - 1] + j] = s[k][j]

\* One chunk more behind the others.
LEMMA PlacedAppend ==
  ASSUME NEW T, NEW s \in Seq(Seq(T)), NEW a \in Seq(T), NEW off, NEW m \in Nat,
         m + 1 <= Len(s), Placed(a, s, off, m),
         off[m] = Len(a), off[m + 1] = Len(a) + Len(s[m + 1])
  PROVE  Placed(a \o s[m + 1], s, off, m + 1)
<1> DEFINE b == s[m + 1]
           c == a \o b
<1>1. b \in Seq(T)
  OBVIOUS
<1> HIDE DEF b
<1>2. /\ Len(a) \in Nat /\ Len(b) \in Nat /\ Len(c) = Len(a) + Len(b)
      /\ \A j \in 1 .. Len(a) : c[j] = a[j]
      /\ \A j \in 1 .. Len(b) : c[Len(a) + j] = b[j]
  BY <1>1, Joined
<1> HIDE DEF c
<1>3. SUFFICES ASSUME NEW k \in 1 .. m + 1
               PROVE  /\ off[k] \in Nat /\ off[k - 1] \in Nat /\ off[k] <= Len(c)
                      /\ off[k] = off[k - 1] + Len(s[k])
                      /\ \A j \in 1 .. Len(s[k]) : c[off[k - 1] + j] = s[k][j]
  BY Zenon DEF Placed, b, c
<1>4. CASE k = m + 1
  <2>1. k - 1 = m /\ s[k] = b
    BY <1>4 DEF b
  <2>2. off[k - 1] = Len(a) /\ off[k] = Len(a) + Len(b)
    BY <1>4, <2>1 DEF b
  <2> QED
    BY <1>2, <2>1, <2>2
<1>5. CASE k # m + 1
  <2>1. k \in 1 .. m
    BY <1>5
  <2>2. /\ off[k] \in Nat /\ off[k - 1] \in Nat /\ off[k] <= Len(a)
        /\ off[k] = off[k - 1] + Len(s[k])
    BY <2>1 DEF Placed
  <2>3. \A j \in 1 .. Len(s[k]) : a[off[k - 1] + j] = s[k][j]
    BY <2>1, Zenon DEF Placed
  <2>4. Len(s[k]) \in Nat
    OBVIOUS
  <2>5. ASSUME NEW j \in 1 .. Len(s[k]) PROVE off[k - 1] + j \in 1 .. Len(a)
    <3> DEFINE l == Len(s[k])
               o == off[k - 1]
               e == Len(a)
    <3>1. o \in Nat /\ l \in Nat /\ e \in Nat /\ o + l <= e
      BY <1>2, <2>2, <2>4
    <3> HIDE DEF l, o, e
    <3>2. j \in 1 .. l
      BY DEF l
    <3>3. o + j \in 1 .. e
      BY <3>1, <3>2
    <3> QED
      BY <3>3 DEF o, e
  <2>6. \A j \in 1 .. Len(s[k]) : c[off[k - 1] + j] = s[k][j]
    BY <1>2, <2>3, <2>5, Zenon
  <2> QED
    BY <1>2, <2>2, <2>6
<1> QED
  BY <1>4, <1>5, Zenon

\* b is made of the chunks of s and nothing else
Layout(b, s, off) ==
    /\ off \in [0 .. Len(s) -> Nat] /\ off[0] = 0 /\ off[Len(s)] = Len(b)
    /\ Placed(b, s, off, Len(s))

\* Concat puts the chunks one behind the other.
LEMMA ConcatLayout ==
  ASSUME NEW T, NEW s \in Seq(Seq(T))
  PROVE  /\ Dns!Concat(s) \in Seq(T)
         /\ \E off : Layout(Dns!Concat(s), s, off)
<1> DEFINE N == Len(s)
           f == CHOOSE g : Concats(g, s, N)
<1>1. N \in Nat
  OBVIOUS
<1>2. Concats(f, s, N)
  BY <1>1, ConcatsExist
<1>3. Dns!Concat(s) = f[N]
  BY DEF Dns!Concat, Concats
<1> HIDE DEF f, N
<1>4. ASSUME NEW i \in 0 .. N PROVE (i = 0 => f[i] = <<>>) /\ (i # 0 => f[i] = f[i - 1] \o s[i])
  <2>1. Appends(f, s, i)
    BY <1>1, <1>2, ConcatsAt, Zenon
  <2> QED
    BY <2>1, Zenon DEF Appends
<1>5. \A i \in 1 .. N : s[i] \in Seq(T)
  BY DEF N
<1> DEFINE off == [k \in 0 .. N |-> Len(f[k])]
           Good(n) == f[n] \in Seq(T) /\ Placed(f[n], s, off, n)
           S == {n \in Nat : n <= N => Good(n)}
<1>6. (\A k \in 0 .. N : off[k] = Len(f[k])) /\ off = [k \in 0 .. N |-> off[k]]
  BY Zenon
<1> HIDE DEF off
<1>7. 0 \in 0 .. N /\ N \in 0 .. N
  BY <1>1
<1>8. 0 \in S
  <2>1. f[0] = <<>>
    BY <1>4, <1>7, Zenon
  <2>2. <<>> \in Seq(T) /\ 1 .. 0 = {}
    OBVIOUS
  <2> QED
    BY <2>1, <2>2, Zenon DEF Placed
<1>9. ASSUME NEW n \in Nat, n \in S PROVE n + 1 \in S
  <2>1. SUFFICES ASSUME n + 1 <= N PROVE Good(n + 1)
    OBVIOUS
  <2>2. n \in 0 .. N /\ n + 1 \in 0 .. N /\ n + 1 \in 1 .. N /\ n + 1 # 0 /\ (n + 1) - 1 = n /\ n <= N
    BY <1>1, <2>1
  <2>3. f[n] \in Seq(T) /\ Placed(f[n], s, off, n)
    BY <1>9, <2>2, Zenon
  <2>4. f[n + 1] = f[n] \o s[n + 1]
    BY <1>4, <2>2, Zenon
  <2>5. s[n + 1] \in Seq(T)
    BY <1>5, <2>2
  <2>6. f[n + 1] \in Seq(T) /\ Len(f[n + 1]) = Len(f[n]) + Len(s[n + 1])
    BY <2>3, <2>4, <2>5, Joined
  <2>7. off[n] = Len(f[n]) /\ off[n + 1] = Len(f[n]) + Len(s[n + 1])
    BY <1>6, <2>2, <2>6, Zenon
  <2>8. Placed(f[n] \o s[n + 1], s, off, n + 1)
    BY <2>1, <2>3, <2>7, PlacedAppend, Zenon DEF N
  <2> QED
    BY <2>4, <2>6, <2>8
<1>10. Nat \subseteq S
  <2> HIDE DEF S
  <2> QED
    BY <1>8, <1>9, NatSet, Zenon
<1>11. \A n \in 0 .. N : Good(n)
  <2> HIDE DEF Good
  <2> QED
    BY <1>1, <1>10
<1>12. off \in [0 .. N -> Nat]
  <2>1. \A k \in 0 .. N : off[k] \in Nat
    BY <1>6, <1>11
  <2> QED
    BY <1>6, <2>1
<1>13. off[0] = 0 /\ off[N] = Len(f[N])
  BY <1>4, <1>6, <1>7, Zenon
<1>14. Layout(f[N], s, off)
  BY <1>7, <1>11, <1>12, <1>13 DEF Layout, N
<1> QED
  BY <1>3, <1>7, <1>11, <1>14

\* f is the loop over a name, for the offsets in D
Skips(f, pkt, D) ==
    f = [i \in D |-> IF i >= Len(pkt) \/ pkt[i + 1] = 0 THEN i ELSE f[i + 1 + pkt[i + 1]]]

\* What f is at i.
LEMMA SkipsAt ==
  ASSUME NEW f, NEW pkt, NEW D, Skips(f, pkt, D), NEW i \in D
  PROVE  /\ i >= Len(pkt) \/ pkt[i + 1] = 0 => f[i] = i
         /\ ~(i >= Len(pkt) \/ pkt[i + 1] = 0) => f[i] = f[i + 1 + pkt[i + 1]]
<1> DEFINE h == [k \in D |-> IF k >= Len(pkt) \/ pkt[k + 1] = 0 THEN k ELSE f[k + 1 + pkt[k + 1]]]
<1>1. h[i] = IF i >= Len(pkt) \/ pkt[i + 1] = 0 THEN i ELSE f[i + 1 + pkt[i + 1]]
  OBVIOUS
<1>2. f = h
  BY Zenon DEF Skips
<1> QED
  BY <1>1, <1>2, Zenon

\* The loop ends from every offset: it only moves on, and stops behind the packet.
LEMMA SkipsExist ==
  ASSUME NEW pkt \in Seq(Nat)
  PROVE  \E f : Skips(f, pkt, Nat)
<1> DEFINE From(n) == {i \in Nat : i + n >= Len(pkt)}
           Ends(i) == i >= Len(pkt) \/ pkt[i + 1] = 0
           next(i) == i + 1 + pkt[i + 1]
           S == {n \in Nat : \E f : Skips(f, pkt, From(n))}
<1>0. Len(pkt) \in Nat
  OBVIOUS
<1>1. 0 \in S
  <2> DEFINE e == [i \in From(0) |-> i]
  <2>1. \A i \in From(0) : i >= Len(pkt)
    BY <1>0
  <2>2. \A i \in From(0) : i = IF Ends(i) THEN i ELSE e[next(i)]
    BY <2>1
  <2>3. e = [i \in From(0) |-> IF Ends(i) THEN i ELSE e[next(i)]]
    BY <2>2, Zenon
  <2> HIDE DEF e
  <2>4. Skips(e, pkt, From(0))
    BY <2>3, Zenon DEF Skips
  <2> QED
    BY <2>4, Zenon
<1>2. ASSUME NEW n \in Nat, n \in S PROVE n + 1 \in S
  <2>1. PICK f : Skips(f, pkt, From(n))
    BY <1>2, Zenon
  <2> DEFINE g == [i \in From(n + 1) |-> IF Ends(i) THEN i ELSE f[next(i)]]
  <2>2. ASSUME NEW i \in From(n) PROVE i \in From(n + 1) /\ g[i] = f[i]
    <3>1. i \in From(n + 1)
      BY <1>0
    <3>2. g[i] = IF Ends(i) THEN i ELSE f[next(i)]
      BY <3>1
    <3>3. /\ Ends(i) => f[i] = i
          /\ ~Ends(i) => f[i] = f[next(i)]
      <4> HIDE DEF From
      <4> QED
        BY <2>1, SkipsAt
    <3> HIDE DEF g, Ends, next
    <3> QED
      BY <3>1, <3>2, <3>3
  <2>3. ASSUME NEW i \in From(n + 1), ~Ends(i) PROVE next(i) \in From(n)
    <3>1. i \in Nat /\ i < Len(pkt) /\ i + (n + 1) >= Len(pkt)
      BY <1>0, <2>3
    <3>2. pkt[i + 1] \in Nat
      BY <1>0, <3>1
    <3> QED
      BY <1>0, <3>1, <3>2
  <2> HIDE DEF From, next, Ends
  <2>4. \A i \in From(n + 1) :
          (IF Ends(i) THEN i ELSE f[next(i)]) = (IF Ends(i) THEN i ELSE g[next(i)])
    <3> HIDE DEF g
    <3> QED
      BY <2>2, <2>3
  <2>5. g = [i \in From(n + 1) |-> IF Ends(i) THEN i ELSE g[next(i)]]
    BY <2>4, Zenon
  <2> HIDE DEF g
  <2>6. Skips(g, pkt, From(n + 1))
    BY <2>5, Zenon DEF Skips, Ends, next
  <2> QED
    BY <2>6
<1>3. Len(pkt) \in S
  <2> HIDE DEF S
  <2> QED
    BY <1>0, <1>1, <1>2, NatSet, Zenon
<1>4. From(Len(pkt)) = Nat
  BY <1>0
<1> HIDE DEF From
<1> QED
  BY <1>3, <1>4, Zenon

\* One turn of the loop.
LEMMA SkipTurn ==
  ASSUME NEW pkt \in Seq(Nat), NEW i \in Nat
  PROVE  /\ i >= Len(pkt) \/ pkt[i + 1] = 0 => Dns!SkipName(pkt, i) = i
         /\ ~(i >= Len(pkt) \/ pkt[i + 1] = 0) =>
               Dns!SkipName(pkt, i) = Dns!SkipName(pkt, i + 1 + pkt[i + 1])
<1> DEFINE f == CHOOSE g : Skips(g, pkt, Nat)
<1>1. Skips(f, pkt, Nat)
  BY SkipsExist
<1>2. \A k : Dns!SkipName(pkt, k) = f[k]
  BY DEF Dns!SkipName, Skips
<1> HIDE DEF f
<1> QED
  BY <1>1, <1>2, SkipsAt

\* b stands in pkt behind offset i
At(pkt, i, b) == i + Len(b) <= Len(pkt) /\ \A j \in 1 .. Len(b) : pkt[i + j] = b[j]

\* What is made of two parts stands in a packet where they do.
LEMMA AtParts ==
  ASSUME NEW pkt \in Seq(Nat), NEW i \in Nat, NEW a \in Seq(Nat), NEW b \in Seq(Nat),
         At(pkt, i, a \o b)
  PROVE  At(pkt, i, a) /\ At(pkt, i + Len(a), b) /\ i + Len(a) \in Nat
<1>1. /\ Len(a) \in Nat /\ Len(b) \in Nat /\ Len(a \o b) = Len(a) + Len(b)
      /\ \A j \in 1 .. Len(a) : (a \o b)[j] = a[j]
      /\ \A j \in 1 .. Len(b) : (a \o b)[Len(a) + j] = b[j]
  BY Joined
<1> DEFINE c == a \o b
<1>2. i + Len(c) <= Len(pkt) /\ \A j \in 1 .. Len(c) : pkt[i + j] = c[j]
  BY DEF At
<1> HIDE DEF c
<1>3. /\ Len(c) = Len(a) + Len(b) /\ Len(pkt) \in Nat
      /\ \A j \in 1 .. Len(a) : c[j] = a[j]
      /\ \A j \in 1 .. Len(b) : c[Len(a) + j] = b[j]
  BY <1>1 DEF c
<1>4. ASSUME NEW j \in 1 .. Len(a) PROVE pkt[i + j] = a[j]
  <2>1. j \in 1 .. Len(c)
    BY <1>1, <1>3
  <2> QED
    BY <1>2, <1>3, <2>1, Zenon
<1>5. ASSUME NEW j \in 1 .. Len(b) PROVE pkt[(i + Len(a)) + j] = b[j]
  <2>1. Len(a) + j \in 1 .. Len(c) /\ i + (Len(a) + j) = (i + Len(a)) + j
    BY <1>1, <1>3
  <2> QED
    BY <1>2, <1>3, <2>1, Zenon
<1> QED
  BY <1>1, <1>2, <1>3, <1>4, <1>5 DEF At

\* Sequences and their elements.
LEMMA SeqElems ==
  ASSUME NEW T, NEW b \in Seq(T)
  PROVE  Len(b) \in Nat /\ b = [j \in 1 .. Len(b) |-> b[j]] /\ \A j \in 1 .. Len(b) : b[j] \in T
  OBVIOUS

\* A function on 1..n is a sequence of length n.
LEMMA SeqIntro ==
  ASSUME NEW T, NEW n \in Nat, NEW b, b = [j \in 1 .. n |-> b[j]], \A j \in 1 .. n : b[j] \in T
  PROVE  b \in Seq(T) /\ Len(b) = n
  OBVIOUS

\* Bytes are numbers.
LEMMA ByteSeq ==
  ASSUME NEW b \in Seq(Dns!Byte)
  PROVE  b \in Seq(Nat) /\ Len(b) \in Nat
<1>1. Dns!Byte \subseteq Nat
  BY DEF Dns!Byte
<1>2. Len(b) \in Nat /\ b = [j \in 1 .. Len(b) |-> b[j]] /\ \A j \in 1 .. Len(b) : b[j] \in Dns!Byte
  BY SeqElems
<1>3. \A j \in 1 .. Len(b) : b[j] \in Nat
  BY <1>1, <1>2
<1> QED
  BY <1>2, <1>3, SeqIntro

\* the labels of a name, each behind its length
Labels(nm) == [k \in 1 .. Len(nm) |-> <<Len(nm[k])>> \o nm[k]]

\* Each chunk of a name is a length and that many bytes.
LEMMA LabelsType ==
  ASSUME NEW nm \in Seq(Seq(Dns!Byte))
  PROVE  /\ Labels(nm) \in Seq(Seq(Nat)) /\ Len(Labels(nm)) = Len(nm)
         /\ \A k \in 1 .. Len(nm) :
               /\ Len(Labels(nm)[k]) = 1 + Len(nm[k])
               /\ Labels(nm)[k][1] = Len(nm[k])
<1>1. ASSUME NEW k \in 1 .. Len(nm)
      PROVE  /\ Labels(nm)[k] \in Seq(Nat) /\ Len(Labels(nm)[k]) = 1 + Len(nm[k])
             /\ Labels(nm)[k][1] = Len(nm[k])
  <2>1. Labels(nm)[k] = <<Len(nm[k])>> \o nm[k]
    BY DEF Labels
  <2>2. nm[k] \in Seq(Nat) /\ Len(nm[k]) \in Nat
    <3>1. nm[k] \in Seq(Dns!Byte)
      OBVIOUS
    <3> QED
      BY <3>1, ByteSeq
  <2>3. <<Len(nm[k])>> \in Seq(Nat) /\ Len(<<Len(nm[k])>>) = 1 /\ <<Len(nm[k])>>[1] = Len(nm[k])
    BY <2>2
  <2> QED
    BY <2>1, <2>2, <2>3, Joined
<1>2. Labels(nm) = [k \in 1 .. Len(nm) |-> Labels(nm)[k]] /\ Len(nm) \in Nat
  BY DEF Labels
<1>3. Labels(nm) \in Seq(Seq(Nat)) /\ Len(Labels(nm)) = Len(nm)
  BY <1>1, <1>2
<1> QED
  BY <1>1, <1>3

\* A name on the wire: its bytes, which end in the only zero the loop stops at.
LEMMA NameType ==
  ASSUME NEW nm \in Seq(Seq(Dns!Byte))
  PROVE  /\ Dns!Concat(Labels(nm)) \in Seq(Nat)
         /\ Dns!NameBytes(nm) = Dns!Concat(Labels(nm)) \o <<0>>
         /\ Dns!NameBytes(nm) \in Seq(Nat)
         /\ Len(Dns!NameBytes(nm)) = Len(Dns!Concat(Labels(nm))) + 1
<1>1. Dns!Concat(Labels(nm)) \in Seq(Nat)
  BY LabelsType, ConcatLayout
<1>2. Dns!NameBytes(nm) = Dns!Concat(Labels(nm)) \o <<0>>
  BY DEF Dns!NameBytes, Labels
<1>3. <<0>> \in Seq(Nat) /\ Len(<<0>>) = 1
  OBVIOUS
<1> QED
  BY <1>1, <1>2, <1>3, Joined

\* The loop over a name stops at its zero byte.
LEMMA SkipOverName ==
  ASSUME NEW pkt \in Seq(Nat), NEW nm \in Seq(Seq(Dns!Byte)), Dns!ValidName(nm),
         NEW i \in Nat, At(pkt, i, Dns!NameBytes(nm))
  PROVE  Dns!SkipName(pkt, i) = i + Len(Dns!NameBytes(nm)) - 1
<1> DEFINE c == Labels(nm)
           b == Dns!Concat(c)
           N == Len(nm)
<1>1. /\ c \in Seq(Seq(Nat)) /\ Len(c) = N /\ N \in Nat
      /\ \A k \in 1 .. N : Len(c[k]) = 1 + Len(nm[k]) /\ c[k][1] = Len(nm[k])
  BY LabelsType
<1>2. b \in Seq(Nat) /\ Len(b) \in Nat /\ Dns!NameBytes(nm) = b \o <<0>>
      /\ Len(Dns!NameBytes(nm)) = Len(b) + 1
  BY NameType
<1>3. At(pkt, i, b) /\ At(pkt, i + Len(b), <<0>>)
  <2>1. At(pkt, i, b \o <<0>>)
    BY <1>2
  <2>2. <<0>> \in Seq(Nat)
    OBVIOUS
  <2> QED
    BY <1>2, <2>1, <2>2, AtParts, Zenon
<1>4. PICK off : Layout(b, c, off)
  BY <1>1, ConcatLayout, Zenon
<1>5. \A k \in 1 .. N : Len(nm[k]) \in Nat /\ Len(nm[k]) # 0
  <2> SUFFICES ASSUME NEW k \in 1 .. N PROVE Len(nm[k]) \in Nat /\ Len(nm[k]) # 0
    OBVIOUS
  <2>1. Len(nm[k]) \in 1 .. 63
    BY DEF Dns!ValidName
  <2>2. \A x \in 1 .. 63 : x \in Nat /\ x # 0
    OBVIOUS
  <2> QED
    BY <2>1, <2>2, Zenon
<1> HIDE DEF b, c, N
<1>6. /\ off[0] = 0 /\ off[N] = Len(b) /\ Placed(b, c, off, N)
      /\ \A k \in 0 .. N : off[k] \in Nat
  BY <1>1, <1>4 DEF Layout
<1> DEFINE S == {n \in Nat : n <= N => Dns!SkipName(pkt, i) = Dns!SkipName(pkt, i + off[n])}
<1>7. 0 \in S
  BY <1>6
<1>8. ASSUME NEW n \in Nat, n \in S PROVE n + 1 \in S
  <2>1. SUFFICES ASSUME n + 1 <= N
                 PROVE  Dns!SkipName(pkt, i) = Dns!SkipName(pkt, i + off[n + 1])
    OBVIOUS
  <2>2. n + 1 \in 1 .. N /\ (n + 1) - 1 = n /\ n \in 0 .. N /\ n + 1 \in 0 .. N
    BY <1>1, <2>1
  <2>3. Dns!SkipName(pkt, i) = Dns!SkipName(pkt, i + off[n])
    BY <1>1, <1>8, <2>1
  <2> DEFINE l == Len(nm[n + 1])
             p == i + off[n]
  <2>4. l \in Nat /\ l # 0 /\ Len(c[n + 1]) = 1 + l /\ c[n + 1][1] = l
    BY <1>1, <1>5, <2>2
  <2>5. /\ off[n] \in Nat /\ off[n + 1] = off[n] + (1 + l) /\ off[n + 1] <= Len(b)
    BY <1>6, <2>2, <2>4 DEF Placed
  <2>6. b[off[n] + 1] = l
    <3>1. \A j \in 1 .. Len(c[n + 1]) : b[off[n] + j] = c[n + 1][j]
      BY <1>6, <2>2 DEF Placed
    <3>2. 1 \in 1 .. Len(c[n + 1])
      BY <2>4
    <3> QED
      BY <2>4, <3>1, <3>2, Zenon
  <2>7. /\ off[n] + 1 \in 1 .. Len(b) /\ i + (off[n] + 1) = p + 1 /\ p \in Nat
        /\ ~(p >= Len(pkt)) /\ p + 1 + l = i + (off[n] + (1 + l))
    <3>1. i + Len(b) <= Len(pkt) /\ Len(pkt) \in Nat
      BY <1>3 DEF At
    <3> DEFINE o == off[n]
               e == Len(b)
               z == Len(pkt)
    <3>2. /\ o \in Nat /\ l \in Nat /\ e \in Nat /\ z \in Nat
          /\ o + (1 + l) <= e /\ i + e <= z
      BY <1>2, <2>4, <2>5, <3>1
    <3> HIDE DEF l, o, e, z
    <3>3. /\ o + 1 \in 1 .. e /\ i + (o + 1) = (i + o) + 1 /\ i + o \in Nat
          /\ ~(i + o >= z) /\ (i + o) + 1 + l = i + (o + (1 + l))
      BY ONLY <3>2, i \in Nat
    <3> QED
      BY ONLY <3>3 DEF o, e, z
  <2>8. pkt[p + 1] = l
    <3>1. pkt[i + (off[n] + 1)] = b[off[n] + 1]
      BY <1>3, <2>7, Zenon DEF At
    <3> HIDE DEF p, l
    <3> QED
      BY <2>6, <2>7, <3>1
  <2> HIDE DEF p, l
  <2>9. Dns!SkipName(pkt, p) = Dns!SkipName(pkt, p + 1 + l)
    BY <2>4, <2>7, <2>8, SkipTurn, Zenon
  <2> QED
    BY <2>3, <2>5, <2>7, <2>9 DEF p
<1>9. N \in S
  <2> HIDE DEF S
  <2> QED
    BY <1>1, <1>7, <1>8, NatSet, Zenon
<1>10. Dns!SkipName(pkt, i + Len(b)) = i + Len(b)
  <2>1. pkt[(i + Len(b)) + 1] = 0
    BY <1>3 DEF At
  <2> QED
    BY <1>2, <2>1, SkipTurn
<1>11. Dns!SkipName(pkt, i) = Dns!SkipName(pkt, i + off[N])
  BY <1>1, <1>9
<1> QED
  BY <1>2, <1>6, <1>10, <1>11

\* A name that is sent is not empty, and begins with a length.
LEMMA NameStart ==
  ASSUME NEW nm \in Seq(Seq(Dns!Byte)), Dns!ValidName(nm), nm # <<>>
  PROVE  /\ Len(Dns!NameBytes(nm)) \in Nat /\ Len(Dns!NameBytes(nm)) >= 2
         /\ Dns!NameBytes(nm)[1] \in 1 .. 63
<1> DEFINE c == Labels(nm)
           b == Dns!Concat(c)
           l == Len(nm[1])
<1>1. Len(nm) \in Nat /\ 1 \in 1 .. Len(nm)
  OBVIOUS
<1>2. l \in 1 .. 63
  BY <1>1 DEF Dns!ValidName
<1>3. /\ c \in Seq(Seq(Nat)) /\ Len(c) = Len(nm) /\ Len(c[1]) = 1 + l /\ c[1][1] = l
  BY <1>1, LabelsType
<1>4. b \in Seq(Nat) /\ Len(b) \in Nat /\ Dns!NameBytes(nm) = b \o <<0>>
      /\ Len(Dns!NameBytes(nm)) = Len(b) + 1
  BY NameType
<1>5. PICK off : Layout(b, c, off)
  BY <1>3, ConcatLayout
<1> HIDE DEF b, c, l
<1>6. /\ off[0] = 0 /\ off[1] \in Nat /\ off[1] <= Len(b) /\ off[1] = off[0] + (1 + l)
      /\ \A j \in 1 .. 1 + l : b[off[0] + j] = c[1][j]
  <2>1. off[0] = 0 /\ Placed(b, c, off, Len(c)) /\ 1 - 1 = 0
    BY <1>5 DEF Layout
  <2>2. 1 \in 1 .. Len(c)
    BY <1>1, <1>3
  <2>3. /\ off[1] \in Nat /\ off[1] <= Len(b)
        /\ off[1] = off[1 - 1] + Len(c[1])
        /\ \A j \in 1 .. Len(c[1]) : b[off[1 - 1] + j] = c[1][j]
    BY <2>1, <2>2, Zenon DEF Placed
  <2> QED
    BY <1>3, <2>1, <2>3, Zenon
<1>7. 1 \in 1 .. 1 + l /\ 1 <= Len(b)
  <2> DEFINE e == Len(b)
             o == off[1]
  <2>1. e \in Nat /\ o \in Nat /\ o <= e /\ o = 0 + (1 + l)
    BY <1>4, <1>6
  <2> HIDE DEF e, o
  <2>2. 1 \in 1 .. 1 + l /\ 1 <= e
    BY ONLY <1>2, <2>1
  <2> QED
    BY <2>2 DEF e
<1>8. b[1] = l
  <2>1. b[off[0] + 1] = c[1][1]
    BY <1>6, <1>7
  <2> QED
    BY <1>3, <1>6, <2>1
<1>9. (b \o <<0>>)[1] = b[1]
  <2>1. <<0>> \in Seq(Nat) /\ 1 \in 1 .. Len(b)
    BY <1>4, <1>7
  <2> QED
    BY <1>4, <2>1, Joined
<1>10. Dns!NameBytes(nm)[1] = l
  BY <1>4, <1>8, <1>9
<1> DEFINE e == Len(b)
<1>11. Len(Dns!NameBytes(nm)) = e + 1 /\ e \in Nat /\ 1 <= e
  BY <1>4, <1>7
<1> HIDE DEF e
<1>12. e + 1 \in Nat /\ e + 1 >= 2
  BY ONLY <1>11
<1> QED
  BY <1>2, <1>10, <1>11, <1>12, Zenon

\* The end of a record's owner, be it a pointer or a name.
LEMMA OwnerAt ==
  ASSUME NEW pkt \in Seq(Nat), NEW nm \in Seq(Seq(Dns!Byte)), Dns!ValidName(nm), nm # <<>>,
         NEW own \in {"ptr", "full"}, NEW i \in Nat, At(pkt, i, Dns!OwnerBytes(own, nm))
  PROVE  Dns!EndOfOwner(pkt, i) = i + Len(Dns!OwnerBytes(own, nm))
<1>1. CASE own = "ptr"
  <2>1. Dns!OwnerBytes(own, nm) = <<192, 12>>
    BY <1>1 DEF Dns!OwnerBytes
  <2>2. pkt[i + 1] = 192 /\ Len(<<192, 12>>) = 2
    BY <2>1 DEF At
  <2> QED
    BY <2>1, <2>2 DEF Dns!EndOfOwner
<1>2. CASE own = "full"
  <2> DEFINE b == Dns!NameBytes(nm)
  <2>1. Dns!OwnerBytes(own, nm) = b
    BY <1>2 DEF Dns!OwnerBytes
  <2>2. Len(b) \in Nat /\ Len(b) >= 2 /\ b[1] \in 1 .. 63
    BY NameStart
  <2>3. At(pkt, i, b)
    BY <2>1
  <2>4. Dns!SkipName(pkt, i) = i + Len(b) - 1
    BY <2>3, SkipOverName
  <2> HIDE DEF b
  <2>5. pkt[i + 1] = b[1]
    BY <2>2, <2>3 DEF At
  <2>6. ~(b[1] >= 192)
    <3>1. \A x \in 1 .. 63 : ~(x >= 192)
      OBVIOUS
    <3> QED
      BY <2>2, <3>1, Zenon
  <2>7. Dns!EndOfOwner(pkt, i) = Dns!SkipName(pkt, i) + 1
    BY <2>5, <2>6, Zenon DEF Dns!EndOfOwner
  <2> DEFINE e == Len(b)
  <2>8. Dns!EndOfOwner(pkt, i) = (i + e - 1) + 1 /\ e \in Nat
    BY <2>2, <2>4, <2>7, Zenon
  <2> HIDE DEF e
  <2>9. Dns!EndOfOwner(pkt, i) = i + e
    BY ONLY <2>8, i \in Nat
  <2> QED
    BY <2>1, <2>9, Zenon DEF e
<1> QED
  BY <1>1, <1>2

\* An owner has at least two bytes.
LEMMA OwnerType ==
  ASSUME NEW nm \in Seq(Seq(Dns!Byte)), Dns!ValidName(nm), nm # <<>>, NEW own \in {"ptr", "full"}
  PROVE  /\ Dns!OwnerBytes(own, nm) \in Seq(Nat)
         /\ Len(Dns!OwnerBytes(own, nm)) \in Nat /\ Len(Dns!OwnerBytes(own, nm)) >= 2
<1>1. CASE own = "ptr"
  <2>1. Dns!OwnerBytes(own, nm) = <<192, 12>>
    BY <1>1 DEF Dns!OwnerBytes
  <2> QED
    BY <2>1
<1>2. CASE own = "full"
  <2>1. Dns!OwnerBytes(own, nm) = Dns!NameBytes(nm)
    BY <1>2 DEF Dns!OwnerBytes
  <2>2. Dns!NameBytes(nm) \in Seq(Nat)
    BY NameType
  <2> QED
    BY <2>1, <2>2, NameStart
<1> QED
  BY <1>1, <1>2

\* A number below 65536 is read back from its two bytes.
LEMMA Be16Type ==
  ASSUME NEW n \in Nat
  PROVE  /\ Dns!Be16(n) \in Seq(Nat) /\ Len(Dns!Be16(n)) = 2
         /\ 256 * Dns!Be16(n)[1] + Dns!Be16(n)[2] = n
<1>1. n \div 256 \in Nat /\ n % 256 \in Nat /\ n - 256 * (n \div 256) = n % 256
  OBVIOUS
<1> DEFINE h == n \div 256
           l == n % 256
<1>2. Dns!Be16(n) = <<h, l>>
  BY DEF Dns!Be16
<1>a. h \in Nat /\ l \in Nat /\ n - 256 * h = l
  BY <1>1
<1> HIDE DEF h, l
<1>3. h \in Nat /\ l \in Nat /\ 256 * h + l = n
  BY <1>a
<1>4. <<h, l>> \in Seq(Nat) /\ Len(<<h, l>>) = 2 /\ <<h, l>>[1] = h /\ <<h, l>>[2] = l
  BY <1>3
<1> QED
  BY <1>2, <1>3, <1>4, Zenon

\* x is a sequence of n numbers; left folded, it keeps the sequences out of a proof.
Bytes(x, n) == n \in Nat /\ x \in Seq(Nat) /\ Len(x) = n

\* The lengths of two sequences add up.
LEMMA BytesJoin ==
  ASSUME NEW a, NEW b, NEW m, NEW n, Bytes(a, m), Bytes(b, n)
  PROVE  Bytes(a \o b, m + n)
<1>1. a \in Seq(Nat) /\ b \in Seq(Nat) /\ Len(a) = m /\ Len(b) = n /\ m + n \in Nat
  BY DEF Bytes
<1>2. a \o b \in Seq(Nat) /\ Len(a \o b) = Len(a) + Len(b)
  BY <1>1, Joined, Zenon
<1> QED
  BY <1>1, <1>2 DEF Bytes

\* The parts of what stands in a packet stand in it too.
LEMMA AtJoin ==
  ASSUME NEW pkt, NEW z, Bytes(pkt, z), NEW i \in Nat,
         NEW a, NEW b, NEW m, NEW n, Bytes(a, m), Bytes(b, n), At(pkt, i, a \o b)
  PROVE  At(pkt, i, a) /\ At(pkt, i + m, b) /\ i + m \in Nat
<1>1. a \in Seq(Nat) /\ b \in Seq(Nat) /\ pkt \in Seq(Nat) /\ Len(a) = m
  BY DEF Bytes
<1>2. At(pkt, i, a) /\ At(pkt, i + Len(a), b) /\ i + Len(a) \in Nat
  BY <1>1, AtParts, Zenon
<1> QED
  BY <1>1, <1>2, Zenon

\* A record has 10 bytes between its owner and its data.
LEMMA RecordType ==
  ASSUME NEW o, NEW t, NEW c, NEW l, NEW d, NEW w, NEW n,
         Bytes(o, w), Bytes(t, 2), Bytes(c, 6), Bytes(l, 2), Bytes(d, n)
  PROVE  /\ Bytes(o \o t, w + 2) /\ Bytes(o \o t \o c, w + 8) /\ Bytes(o \o t \o c \o l, w + 10)
         /\ Bytes(o \o t \o c \o l \o d, w + 10 + n)
<1>1. w \in Nat
  BY DEF Bytes
<1>2. (w + 2) + 6 = w + 8 /\ (w + 8) + 2 = w + 10
  BY <1>1
<1>3. Bytes(o \o t, w + 2)
  BY BytesJoin
<1>4. Bytes(o \o t \o c, (w + 2) + 6)
  BY <1>3, BytesJoin
<1>5. Bytes(o \o t \o c \o l, (w + 8) + 2)
  BY <1>2, <1>4, BytesJoin
<1>6. Bytes(o \o t \o c \o l \o d, w + 10 + n)
  BY <1>2, <1>5, BytesJoin
<1> QED
  BY <1>2, <1>3, <1>4, <1>5, <1>6

\* Where a record's fields are, behind an owner that ends at offset e.
LEMMA RecordAt ==
  ASSUME NEW pkt, NEW z, Bytes(pkt, z), NEW i \in Nat,
         NEW o, NEW t, NEW c, NEW l, NEW d, NEW w, NEW n,
         Bytes(o, w), Bytes(t, 2), Bytes(c, 6), Bytes(l, 2), Bytes(d, n),
         At(pkt, i, o \o t \o c \o l \o d), NEW e, e = i + w
  PROVE  /\ At(pkt, i, o) /\ At(pkt, e, t) /\ At(pkt, e + 8, l) /\ At(pkt, e + 10, d)
         /\ e \in Nat
<1> DEFINE x2 == o \o t
           x3 == x2 \o c
           x4 == x3 \o l
<1>1. Bytes(x2, w + 2) /\ Bytes(x3, w + 8) /\ Bytes(x4, w + 10)
  BY RecordType
<1>2. w \in Nat
  BY DEF Bytes
<1> HIDE DEF x4
<1>3. At(pkt, i, x4 \o d)
  BY DEF x4
<1>4. At(pkt, i, x4) /\ At(pkt, i + (w + 10), d)
  BY <1>1, <1>3, AtJoin
<1> HIDE DEF x3
<1>5. At(pkt, i, x3 \o l)
  BY <1>4 DEF x4
<1>6. At(pkt, i, x3) /\ At(pkt, i + (w + 8), l)
  BY <1>1, <1>5, AtJoin
<1> HIDE DEF x2
<1>7. At(pkt, i, x2 \o c)
  BY <1>6 DEF x3
<1>8. At(pkt, i, x2)
  BY <1>1, <1>7, AtJoin
<1>9. At(pkt, i, o \o t)
  BY <1>8 DEF x2
<1>10. At(pkt, i, o) /\ At(pkt, i + w, t)
  BY <1>9, AtJoin
<1>11. i + (w + 10) = e + 10 /\ i + (w + 8) = e + 8 /\ e \in Nat
  BY <1>2
<1> QED
  BY <1>4, <1>6, <1>10, <1>11

\* Two bytes of a packet.
LEMMA TwoAt ==
  ASSUME NEW pkt, NEW e \in Nat, NEW t, Bytes(t, 2), At(pkt, e, t)
  PROVE  pkt[e + 1] = t[1] /\ pkt[e + 2] = t[2]
  BY DEF At, Bytes

\* What SubSeq cuts out.
LEMMA Cut ==
  ASSUME NEW T, NEW p \in Seq(T), NEW w \in Nat, NEW n \in Nat, w + n <= Len(p)
  PROVE  /\ SubSeq(p, w + 1, w + n) \in Seq(T) /\ Len(SubSeq(p, w + 1, w + n)) = n
         /\ \A j \in 1 .. n : SubSeq(p, w + 1, w + n)[j] = p[w + j]
<1>1. SubSeq(p, w + 1, w + n) \in Seq(T) /\ Len(SubSeq(p, w + 1, w + n)) = n
  OBVIOUS
<1>2. ASSUME NEW j \in 1 .. n PROVE SubSeq(p, w + 1, w + n)[j] = p[w + j]
  OBVIOUS
<1> QED
  BY <1>1, <1>2

\* Sequences with the same elements are the same.
LEMMA SameBytes ==
  ASSUME NEW a, NEW b, NEW n, Bytes(a, n), Bytes(b, n), \A j \in 1 .. n : a[j] = b[j]
  PROVE  a = b
<1>1. a = [j \in 1 .. n |-> a[j]] /\ b = [j \in 1 .. n |-> b[j]]
  BY SeqElems DEF Bytes
<1> QED
  BY <1>1, Zenon

\* The data of a record is read back from where it stands.
LEMMA DataAt ==
  ASSUME NEW pkt, NEW z, Bytes(pkt, z), NEW w \in Nat, NEW d, NEW n, Bytes(d, n), At(pkt, w, d)
  PROVE  SubSeq(pkt, w + 1, w + n) = d
<1> DEFINE s == SubSeq(pkt, w + 1, w + n)
<1>1. n \in Nat /\ Len(d) = n /\ pkt \in Seq(Nat)
  BY DEF Bytes
<1>2. w + n <= Len(pkt) /\ \A j \in 1 .. n : pkt[w + j] = d[j]
  BY <1>1, Zenon DEF At
<1>3. s \in Seq(Nat) /\ Len(s) = n /\ \A j \in 1 .. n : s[j] = pkt[w + j]
  BY <1>1, <1>2, Cut
<1> HIDE DEF s
<1>4. Bytes(s, n)
  BY <1>1, <1>3 DEF Bytes
<1>5. \A j \in 1 .. n : s[j] = d[j]
  BY <1>2, <1>3, Zenon
<1>6. s = d
  BY <1>4, <1>5, SameBytes
<1> QED
  BY <1>6 DEF s

\* a packet of z bytes has, at offset i, a record whose owner ends at e, of type ty
\* and with n bytes of data
Reads(pkt, z, i, e, ty, n) ==
    /\ z \in Nat /\ Len(pkt) = z /\ i \in Nat /\ e \in Nat /\ n \in Nat
    /\ Dns!EndOfOwner(pkt, i) = e /\ 256 * pkt[e + 1] + pkt[e + 2] = ty
    /\ 256 * pkt[e + 9] + pkt[e + 10] = n /\ i + 2 <= e /\ e + 10 + n <= z

\* the turn at i takes the n bytes behind the owner's end e and the fixed fields, or
\* goes on behind them
Takes(pkt, i, e, ty, n) ==
    /\ ty = 1 /\ n = 4 =>
         Dns!Turn(pkt, i) =
           [more |-> FALSE, addr |-> SubSeq(pkt, e + 11, e + 10 + n), pos |-> e + 10 + n]
    /\ ~(ty = 1 /\ n = 4) =>
         Dns!Turn(pkt, i) = [more |-> TRUE, addr |-> None, pos |-> e + 10 + n]

\* One turn of the loop, from what it reads.
LEMMA TurnReads ==
  ASSUME NEW pkt, NEW z, NEW i, NEW e, NEW ty, NEW n, Reads(pkt, z, i, e, ty, n)
  PROVE  Takes(pkt, i, e, ty, n)
<1> DEFINE o == Dns!EndOfOwner(pkt, i)
           rdlen == 256 * pkt[o + 9] + pkt[o + 10]
           type == 256 * pkt[o + 1] + pkt[o + 2]
           end == o + 10 + rdlen
           none == [more |-> FALSE, addr |-> None, pos |-> i]
<1>1. Dns!Turn(pkt, i) =
        IF i + 12 > Len(pkt) THEN none ELSE IF o + 10 > Len(pkt) THEN none
        ELSE IF end > Len(pkt) THEN none
        ELSE IF type = 1 /\ rdlen = 4
             THEN [more |-> FALSE, addr |-> SubSeq(pkt, o + 11, end), pos |-> end]
        ELSE [more |-> TRUE, addr |-> None, pos |-> end]
  BY Zenon DEF Dns!Turn
<1>2. o = e /\ rdlen = n /\ type = ty
  BY Zenon DEF Reads
<1> HIDE DEF o, rdlen, type
<1>3. end = e + 10 + n
  BY <1>2, Zenon
<1>4. ~(i + 12 > Len(pkt)) /\ ~(o + 10 > Len(pkt)) /\ ~(end > Len(pkt))
  BY <1>2 DEF Reads
<1> HIDE DEF none, end
<1>5. Dns!Turn(pkt, i) =
        IF type = 1 /\ rdlen = 4
        THEN [more |-> FALSE, addr |-> SubSeq(pkt, o + 11, end), pos |-> end]
        ELSE [more |-> TRUE, addr |-> None, pos |-> end]
  BY <1>1, <1>4, Zenon
<1> QED
  BY <1>2, <1>3, <1>5, Zenon DEF Takes

\* r is sent with an owner o of w bytes, its type t, a length l and n bytes of data
Comprises(r, nm, o, t, l, w, n) ==
    /\ Dns!Record(r, nm) = o \o t \o <<0, 1, 0, 0, 0, 0>> \o l \o r.rdata
    /\ o = Dns!OwnerBytes(r.owner, nm) /\ r.owner \in {"ptr", "full"}
    /\ Bytes(o, w) /\ Bytes(t, 2) /\ Bytes(<<0, 1, 0, 0, 0, 0>>, 6) /\ Bytes(l, 2)
    /\ Bytes(r.rdata, n) /\ w >= 2 /\ w \in Nat /\ n \in Nat
    /\ 256 * t[1] + t[2] = r.rtype /\ 256 * l[1] + l[2] = n
    /\ (r.rtype = 1 => n = 4)

\* The parts of a record.
LEMMA RecordFields ==
  ASSUME NEW nm \in Seq(Seq(Dns!Byte)), Dns!ValidName(nm), nm # <<>>,
         NEW r \in Dns!ResourceRecords, r.owner # "mixed"
  PROVE  \E o, t, l, w, n : Comprises(r, nm, o, t, l, w, n)
<1> DEFINE O1 == Dns!OwnerBytes(r.owner, nm)
           T1 == Dns!Be16(r.rtype)
           D1 == r.rdata
           N1 == Len(D1)
           L1 == Dns!Be16(N1)
<1>1. r.owner \in {"ptr", "full"} /\ r.rtype \in 0 .. (2^16 - 1) /\ D1 \in Seq(Dns!Byte)
      /\ (r.rtype = 1 => N1 = 4)
  BY Zenon DEF Dns!ResourceRecords
<1>2. D1 \in Seq(Nat) /\ N1 \in Nat
  <2> HIDE DEF D1
  <2> QED
    BY <1>1, ByteSeq
<1>3. Bytes(O1, Len(O1)) /\ Len(O1) >= 2 /\ Len(O1) \in Nat
  BY <1>1, OwnerType, Zenon DEF Bytes
<1>4. Bytes(T1, 2) /\ 256 * T1[1] + T1[2] = r.rtype
  <2>1. r.rtype \in Nat
    <3>1. \A x \in 0 .. (2^16 - 1) : x \in Nat
      OBVIOUS
    <3> QED
      BY <1>1, <3>1, Zenon
  <2> QED
    BY <2>1, Be16Type, Zenon DEF Bytes
<1>5. Bytes(L1, 2) /\ 256 * L1[1] + L1[2] = N1
  <2> HIDE DEF N1
  <2> QED
    BY <1>2, Be16Type, Zenon DEF Bytes
<1>6. Bytes(D1, N1)
  BY <1>2 DEF Bytes
<1>7. Bytes(<<0, 1, 0, 0, 0, 0>>, 6)
  BY DEF Bytes
<1>8. Dns!Record(r, nm) = O1 \o T1 \o <<0, 1, 0, 0, 0, 0>> \o L1 \o D1
  BY Zenon DEF Dns!Record
<1>9. O1 = Dns!OwnerBytes(r.owner, nm)
  OBVIOUS
<1> HIDE DEF O1, T1, L1, N1
<1>10. Comprises(r, nm, O1, T1, L1, Len(O1), N1)
  BY <1>1, <1>2, <1>3, <1>4, <1>5, <1>6, <1>7, <1>8, <1>9, Zenon DEF Comprises
<1> QED
  BY <1>10, Zenon

\* the same, with the record's parts
Fields(pkt, z, i, w, ty, n, o, t, c, l, d) ==
    /\ Bytes(pkt, z) /\ i \in Nat /\ At(pkt, i, o \o t \o c \o l \o d)
    /\ Bytes(o, w) /\ Bytes(t, 2) /\ Bytes(c, 6) /\ Bytes(l, 2) /\ Bytes(d, n)
    /\ w >= 2 /\ Dns!EndOfOwner(pkt, i) = i + w
    /\ 256 * t[1] + t[2] = ty /\ 256 * l[1] + l[2] = n

\* One turn of the loop at a record whose owner it has skipped.
LEMMA TurnOnFields ==
  ASSUME NEW pkt, NEW z, NEW i, NEW w, NEW ty, NEW n, NEW o, NEW t, NEW c, NEW l, NEW d,
         Fields(pkt, z, i, w, ty, n, o, t, c, l, d)
  PROVE  /\ ty = 1 /\ n = 4 => ~Dns!Turn(pkt, i).more /\ Dns!Turn(pkt, i).addr = d
         /\ ~(ty = 1 /\ n = 4) =>
              Dns!Turn(pkt, i) =
                [more |-> TRUE, addr |-> None, pos |-> i + Len(o \o t \o c \o l \o d)]
<1> DEFINE R == o \o t \o c \o l \o d
           e == i + w
<1> USE DEF Fields
<1>1. Bytes(R, w + 10 + n)
  BY RecordType
<1>2. At(pkt, e, t) /\ At(pkt, e + 8, l) /\ At(pkt, e + 10, d) /\ e \in Nat
  BY RecordAt
<1> HIDE DEF R
<1>3. w \in Nat /\ n \in Nat /\ z \in Nat /\ Len(pkt) = z /\ Len(R) = w + 10 + n
  BY <1>1, Zenon DEF Bytes
<1>4. i + (w + 10 + n) <= z
  <2>1. i + Len(R) <= Len(pkt)
    BY Zenon DEF At, R
  <2> QED
    BY <1>3, <2>1, Zenon
<1>5. i + 2 <= e /\ e + 10 + n <= z /\ i + (w + 10 + n) = e + 10 + n
      /\ e + 8 \in Nat /\ (e + 8) + 1 = e + 9 /\ (e + 8) + 2 = e + 10
      /\ e + 10 \in Nat /\ (e + 10) + 1 = e + 11
  BY <1>3, <1>4
<1>6. Dns!EndOfOwner(pkt, i) = e /\ i + Len(R) = e + 10 + n
  BY <1>3, <1>5, Zenon
<1> HIDE DEF e
<1>7. pkt[e + 1] = t[1] /\ pkt[e + 2] = t[2]
  BY <1>2, TwoAt, Zenon
<1>8. pkt[e + 9] = l[1] /\ pkt[e + 10] = l[2]
  <2>1. pkt[(e + 8) + 1] = l[1] /\ pkt[(e + 8) + 2] = l[2]
    BY <1>2, <1>5, TwoAt
  <2> QED
    BY <1>5, <2>1, Zenon
<1>9. SubSeq(pkt, e + 11, e + 10 + n) = d
  <2>1. SubSeq(pkt, (e + 10) + 1, (e + 10) + n) = d
    BY <1>2, <1>5, DataAt
  <2> QED
    BY <1>5, <2>1, Zenon
<1>10. 256 * pkt[e + 1] + pkt[e + 2] = ty /\ 256 * pkt[e + 9] + pkt[e + 10] = n
  BY <1>7, <1>8, Zenon
<1>11. Takes(pkt, i, e, ty, n)
  <2>1. Reads(pkt, z, i, e, ty, n)
    BY <1>2, <1>3, <1>5, <1>6, <1>10, Zenon DEF Reads
  <2> QED
    BY ONLY <2>1, TurnReads, Zenon
<1>12. ASSUME ty = 1, n = 4 PROVE ~Dns!Turn(pkt, i).more /\ Dns!Turn(pkt, i).addr = d
  <2>1. Dns!Turn(pkt, i) = [more |-> FALSE, addr |-> d, pos |-> e + 10 + n]
    BY <1>9, <1>11, <1>12, Zenon DEF Takes
  <2> QED
    BY <2>1
<1>13. ASSUME ~(ty = 1 /\ n = 4)
       PROVE  Dns!Turn(pkt, i) = [more |-> TRUE, addr |-> None, pos |-> i + Len(R)]
  BY <1>6, <1>11, <1>13, Zenon DEF Takes
<1> QED
  BY <1>12, <1>13, Zenon DEF R

\* A turn of the loop at a record takes its address, or goes on behind it.
LEMMA TurnOnRecord ==
  ASSUME NEW pkt, NEW z, Bytes(pkt, z), NEW nm \in Seq(Seq(Dns!Byte)), Dns!ValidName(nm),
         nm # <<>>, NEW r \in Dns!ResourceRecords, r.owner # "mixed",
         NEW i \in Nat, At(pkt, i, Dns!Record(r, nm))
  PROVE  /\ r.rtype = 1 => ~Dns!Turn(pkt, i).more /\ Dns!Turn(pkt, i).addr = r.rdata
         /\ r.rtype # 1 =>
              Dns!Turn(pkt, i) =
                [more |-> TRUE, addr |-> None, pos |-> i + Len(Dns!Record(r, nm))]
<1> DEFINE c == <<0, 1, 0, 0, 0, 0>>
<1>0. PICK o, t, l, w, n : Comprises(r, nm, o, t, l, w, n)
  BY RecordFields, Zenon
<1>1. /\ Dns!Record(r, nm) = o \o t \o c \o l \o r.rdata
      /\ o = Dns!OwnerBytes(r.owner, nm) /\ r.owner \in {"ptr", "full"}
      /\ Bytes(o, w) /\ Bytes(t, 2) /\ Bytes(c, 6) /\ Bytes(l, 2)
      /\ Bytes(r.rdata, n) /\ w >= 2 /\ w \in Nat /\ n \in Nat
      /\ 256 * t[1] + t[2] = r.rtype /\ 256 * l[1] + l[2] = n
      /\ (r.rtype = 1 => n = 4)
  BY <1>0, Zenon DEF Comprises
<1> HIDE DEF c
<1>2. At(pkt, i, o \o t \o c \o l \o r.rdata)
  BY <1>1, Zenon
<1>3. At(pkt, i, o)
  <2>1. Bytes(o, w) /\ Bytes(t, 2) /\ Bytes(c, 6) /\ Bytes(l, 2) /\ Bytes(r.rdata, n)
    BY <1>1, Zenon
  <2> DEFINE d == r.rdata
             e == i + w
  <2>2. e = i + w /\ At(pkt, i, o \o t \o c \o l \o d) /\ Bytes(d, n)
    BY <1>2, <2>1, Zenon
  <2> HIDE DEF d, e
  <2> QED
    BY <2>1, <2>2, RecordAt, Zenon
<1>4. Dns!EndOfOwner(pkt, i) = i + w
  <2>1. pkt \in Seq(Nat)
    BY Zenon DEF Bytes
  <2>2. At(pkt, i, Dns!OwnerBytes(r.owner, nm))
    BY <1>1, <1>3, Zenon
  <2>3. Dns!EndOfOwner(pkt, i) = i + Len(Dns!OwnerBytes(r.owner, nm))
    <3>1. r.owner \in {"ptr", "full"}
      BY <1>1, Zenon
    <3> QED
      BY <2>1, <2>2, <3>1, OwnerAt, Zenon
  <2>4. Len(o) = w
    BY <1>1, Zenon DEF Bytes
  <2> QED
    BY <1>1, <2>3, <2>4, Zenon
<1>5. /\ r.rtype = 1 /\ n = 4 => ~Dns!Turn(pkt, i).more /\ Dns!Turn(pkt, i).addr = r.rdata
      /\ ~(r.rtype = 1 /\ n = 4) =>
            Dns!Turn(pkt, i) =
              [more |-> TRUE, addr |-> None, pos |-> i + Len(o \o t \o c \o l \o r.rdata)]
  <2> DEFINE d == r.rdata
             ty == r.rtype
  <2>1. Fields(pkt, z, i, w, ty, n, o, t, c, l, d)
    BY <1>1, <1>2, <1>4, Zenon DEF Fields
  <2> HIDE DEF d, ty
  <2>2. /\ ty = 1 /\ n = 4 => ~Dns!Turn(pkt, i).more /\ Dns!Turn(pkt, i).addr = d
        /\ ~(ty = 1 /\ n = 4) =>
              Dns!Turn(pkt, i) =
                [more |-> TRUE, addr |-> None, pos |-> i + Len(o \o t \o c \o l \o d)]
    BY <2>1, TurnOnFields
  <2> QED
    BY <2>2, Zenon DEF d, ty
<1> QED
  BY <1>1, <1>5, Zenon

\* the loop's state before its first turn
Begin(start) == [more |-> TRUE, addr |-> None, pos |-> start]

\* f is the loop's state after 0, 1, ... of n turns
Turns(f, pkt, n, start) ==
    f = [k \in 0 .. n |->
           IF k = 0 THEN Begin(start)
           ELSE IF f[k - 1].more THEN Dns!Turn(pkt, f[k - 1].pos) ELSE f[k - 1]]

\* What f is at k.
LEMMA TurnsAt ==
  ASSUME NEW f, NEW pkt, NEW n \in Nat, NEW start, Turns(f, pkt, n, start), NEW k \in 0 .. n
  PROVE  f[k] = IF k = 0 THEN Begin(start)
                ELSE IF f[k - 1].more THEN Dns!Turn(pkt, f[k - 1].pos) ELSE f[k - 1]
<1> DEFINE h == [j \in 0 .. n |->
                   IF j = 0 THEN Begin(start)
                   ELSE IF f[j - 1].more THEN Dns!Turn(pkt, f[j - 1].pos) ELSE f[j - 1]]
<1>1. h[k] = IF k = 0 THEN Begin(start)
             ELSE IF f[k - 1].more THEN Dns!Turn(pkt, f[k - 1].pos) ELSE f[k - 1]
  BY Zenon
<1>2. f = h
  BY Zenon DEF Turns
<1> HIDE DEF h
<1> QED
  BY <1>1, <1>2, Zenon

\* There is such a function, for any number of turns.
LEMMA TurnsExist ==
  ASSUME NEW pkt, NEW start, NEW N \in Nat
  PROVE  \E f : Turns(f, pkt, N, start)
<1> DEFINE next(x) == IF x.more THEN Dns!Turn(pkt, x.pos) ELSE x
           S == {n \in Nat : \E f : Turns(f, pkt, n, start)}
<1>1. 0 \in S
  <2> DEFINE e == [k \in 0 .. 0 |-> Begin(start)]
  <2>1. \A k \in 0 .. 0 : k = 0
    OBVIOUS
  <2>2. e = [k \in 0 .. 0 |-> IF k = 0 THEN Begin(start) ELSE next(e[k - 1])]
    BY <2>1, Zenon
  <2> HIDE DEF e
  <2>3. Turns(e, pkt, 0, start)
    BY <2>2, Zenon DEF Turns
  <2> QED
    BY <2>3
<1>2. ASSUME NEW n \in Nat, n \in S PROVE n + 1 \in S
  <2>1. PICK f : Turns(f, pkt, n, start)
    BY <1>2
  <2> DEFINE g == [k \in 0 .. n + 1 |-> IF k = 0 THEN Begin(start) ELSE next(f[k - 1])]
  <2>2. ASSUME NEW k \in 0 .. n PROVE g[k] = f[k]
    <3>0. k \in 0 .. n + 1
      OBVIOUS
    <3> DEFINE v == IF k = 0 THEN Begin(start) ELSE next(f[k - 1])
    <3>1. g[k] = v
      BY <3>0, Zenon
    <3> HIDE DEF g
    <3>2. f[k] = v
      BY <2>1, TurnsAt
    <3> HIDE DEF v
    <3> QED
      BY <3>1, <3>2, Zenon
  <2>3. \A k \in 0 .. n + 1 : k # 0 => g[k - 1] = f[k - 1]
    <3> HIDE DEF g
    <3>1. \A k \in 0 .. n + 1 : k # 0 => k - 1 \in 0 .. n
      OBVIOUS
    <3> QED
      BY <2>2, <3>1, Zenon
  <2>4. \A k \in 0 .. n + 1 :
          (IF k = 0 THEN Begin(start) ELSE next(f[k - 1])) =
          (IF k = 0 THEN Begin(start) ELSE next(g[k - 1]))
    BY <2>3, Zenon
  <2>5. g = [k \in 0 .. n + 1 |-> IF k = 0 THEN Begin(start) ELSE next(g[k - 1])]
    BY <2>4, Zenon
  <2> HIDE DEF g
  <2>6. Turns(g, pkt, n + 1, start)
    BY <2>5, Zenon DEF Turns
  <2> QED
    BY <2>6
<1> HIDE DEF S
<1>3. N \in S
  BY <1>1, <1>2, NatSet
<1> QED
  BY <1>3 DEF S

\* The loop's last state is what FirstA reads its address from.
LEMMA FirstAIs ==
  ASSUME NEW pkt, NEW start, NEW N \in Nat
  PROVE  \E f : Turns(f, pkt, N, start) /\ Dns!FirstA(pkt, N, start) = f[N].addr
<1> DEFINE f == CHOOSE g : Turns(g, pkt, N, start)
<1>1. Turns(f, pkt, N, start)
  BY TurnsExist
<1>2. Dns!FirstA(pkt, N, start) = f[N].addr
  BY Zenon DEF Dns!FirstA, Turns, Begin
<1> QED
  BY <1>1, <1>2, Zenon

\* each turn over rrs, record k of which ends at pos[k], does what it should
Walks(pkt, rrs, pos) ==
    \A k \in 1 .. Len(rrs) :
        /\ rrs[k].rtype = 1 =>
             ~Dns!Turn(pkt, pos[k - 1]).more /\ Dns!Turn(pkt, pos[k - 1]).addr = rrs[k].rdata
        /\ rrs[k].rtype # 1 =>
             Dns!Turn(pkt, pos[k - 1]) = [more |-> TRUE, addr |-> None, pos |-> pos[k]]

\* Of some A records there is a first.
LEMMA FirstExists ==
  ASSUME NEW rrs, NEW N \in Nat, \E k \in 1 .. N : rrs[k].rtype = 1
  PROVE  \E k \in 1 .. N : Dns!FirstAt(rrs, k)
<1> DEFINE S == {n \in Nat : (\E k \in 1 .. n : rrs[k].rtype = 1) => \E k \in 1 .. n : Dns!FirstAt(rrs, k)}
<1>1. 0 \in S
  <2>1. 1 .. 0 = {}
    OBVIOUS
  <2> QED
    BY <2>1, Zenon
<1>2. ASSUME NEW n \in Nat, n \in S PROVE n + 1 \in S
  <2>1. /\ n + 1 \in Nat /\ n + 1 \in 1 .. n + 1 /\ (n + 1) - 1 = n
        /\ \A k \in 1 .. n + 1 : k \in 1 .. n \/ k = n + 1
        /\ \A k \in 1 .. n : k \in 1 .. n + 1
    OBVIOUS
  <2>2. CASE \E k \in 1 .. n : rrs[k].rtype = 1
    BY <1>2, <2>1, <2>2, Zenon
  <2>3. CASE ~\E k \in 1 .. n : rrs[k].rtype = 1
    <3>1. rrs[n + 1].rtype = 1 => Dns!FirstAt(rrs, n + 1)
      BY <2>1, <2>3, Zenon DEF Dns!FirstAt
    <3> QED
      BY <2>1, <2>3, <3>1, Zenon
  <2> QED
    BY <2>2, <2>3
<1>3. N \in S
  <2> HIDE DEF S
  <2> QED
    BY <1>1, <1>2, NatSet
<1> QED
  BY <1>3

\* a is the data of the first A record among the n of rrs, if there is one
Finds(a, rrs, n) ==
    /\ (\A k \in 1 .. n : rrs[k].rtype # 1) => a = None
    /\ \A k \in 1 .. n : Dns!FirstAt(rrs, k) => a = rrs[k].rdata

\* The loop over an answer section that it walks finds the first A record, if any.
LEMMA WalkFinds ==
  ASSUME NEW pkt, NEW rrs, NEW pos, NEW N \in Nat, Len(rrs) = N, Walks(pkt, rrs, pos)
  PROVE  Finds(Dns!FirstA(pkt, N, pos[0]), rrs, N)
<1>1. PICK f : Turns(f, pkt, N, pos[0]) /\ Dns!FirstA(pkt, N, pos[0]) = f[N].addr
  BY FirstAIs
<1> DEFINE NoneIn(n) == \A k \in 1 .. n : rrs[k].rtype # 1
           Good(n) == /\ NoneIn(n) => f[n] = [more |-> TRUE, addr |-> None, pos |-> pos[n]]
                      /\ \A k \in 1 .. n :
                            Dns!FirstAt(rrs, k) => ~f[n].more /\ f[n].addr = rrs[k].rdata
           S == {n \in Nat : n <= N => Good(n)}
<1>2. 0 \in S
  <2>1. f[0] = Begin(pos[0])
    <3>1. 0 \in 0 .. N
      OBVIOUS
    <3>2. ASSUME NEW k \in 0 .. N, k = 0 PROVE f[k] = Begin(pos[0])
      <4>1. f[k] = IF k = 0 THEN Begin(pos[0])
                   ELSE IF f[k - 1].more THEN Dns!Turn(pkt, f[k - 1].pos) ELSE f[k - 1]
        BY <1>1, TurnsAt
      <4> QED
        BY <3>2, <4>1, Zenon
    <3> QED
      BY <3>1, <3>2, Zenon
  <2>2. 1 .. 0 = {}
    OBVIOUS
  <2> QED
    BY <2>1, <2>2, Zenon DEF Begin
<1>3. ASSUME NEW n \in Nat, n \in S PROVE n + 1 \in S
  <2> DEFINE m == n + 1
  <2>1. SUFFICES ASSUME m <= N PROVE Good(m)
    <3> HIDE DEF Good
    <3>1. m \in Nat
      BY ONLY n \in Nat
    <3> QED
      BY <3>1, Zenon
  <2>2. /\ m \in Nat /\ m \in 0 .. N /\ m # 0 /\ m \in 1 .. N /\ m - 1 = n /\ n <= N
        /\ \A k \in 1 .. m : k \in 1 .. n \/ k = m
        /\ \A k \in 1 .. n : k \in 1 .. m
        /\ m \in 1 .. m /\ n \in Nat
    BY <2>1
  <2>3. Good(n)
    BY <1>3, <2>2, Zenon
  <2> HIDE DEF m
  <2>4. f[m] = IF f[n].more THEN Dns!Turn(pkt, f[n].pos) ELSE f[n]
    <3>1. f[m] = IF m = 0 THEN Begin(pos[0])
                 ELSE IF f[m - 1].more THEN Dns!Turn(pkt, f[m - 1].pos) ELSE f[m - 1]
      BY <1>1, <2>2, TurnsAt, Zenon
    <3> QED
      BY <2>2, <3>1, Zenon
  <2>5. CASE NoneIn(n)
    <3>1. f[n] = [more |-> TRUE, addr |-> None, pos |-> pos[n]]
      BY <2>3, <2>5, Zenon
    <3>2. f[m] = Dns!Turn(pkt, pos[n])
      <4>1. f[n].more /\ f[n].pos = pos[n]
        BY ONLY <3>1
      <4> QED
        BY <2>4, <4>1, Zenon
    <3>3. /\ rrs[m].rtype = 1 => ~f[m].more /\ f[m].addr = rrs[m].rdata
          /\ rrs[m].rtype # 1 => f[m] = [more |-> TRUE, addr |-> None, pos |-> pos[m]]
      BY <2>2, <3>2, Zenon DEF Walks
    <3>4. \A k \in 1 .. m : Dns!FirstAt(rrs, k) => k = m /\ rrs[m].rtype = 1
      BY <2>2, <2>5, Zenon DEF Dns!FirstAt
    <3>5. NoneIn(m) => rrs[m].rtype # 1
      BY <2>2, Zenon
    <3> QED
      BY <3>3, <3>4, <3>5, Zenon
  <2>6. CASE ~NoneIn(n)
    <3>1. \E k \in 1 .. n : Dns!FirstAt(rrs, k)
      BY <2>6, FirstExists
    <3>2. ~f[n].more
      BY <2>3, <3>1, Zenon
    <3>3. f[m] = f[n]
      BY <2>4, <3>2, Zenon
    <3>4. ~NoneIn(m)
      BY <2>2, <2>6, Zenon
    <3>5. \A k \in 1 .. m : Dns!FirstAt(rrs, k) => k \in 1 .. n
      <4>1. ~Dns!FirstAt(rrs, m)
        BY <2>2, <2>6, Zenon DEF Dns!FirstAt
      <4> QED
        BY <2>2, <4>1, Zenon
    <3> QED
      BY <2>3, <3>3, <3>4, <3>5, Zenon
  <2> QED
    BY <2>5, <2>6, Zenon
<1>4. Good(N)
  <2> HIDE DEF Good
  <2>1. N \in S
    <3> HIDE DEF S
    <3> QED
      BY <1>2, <1>3, NatSet
  <2> QED
    BY <2>1
<1>5. (\A k \in 1 .. N : rrs[k].rtype # 1) => f[N].addr = None
  <2>1. SUFFICES ASSUME NoneIn(N) PROVE f[N].addr = None
    BY Zenon
  <2>2. f[N] = [more |-> TRUE, addr |-> None, pos |-> pos[N]]
    BY <1>4, <2>1, Zenon
  <2> QED
    BY ONLY <2>2
<1>6. \A k \in 1 .. N : Dns!FirstAt(rrs, k) => f[N].addr = rrs[k].rdata
  BY <1>4, Zenon
<1> QED
  BY <1>1, <1>5, <1>6, Zenon DEF Finds

\* Chunk k of what stands in a packet from offset i on.
LEMMA AtPlaced ==
  ASSUME NEW pkt, NEW z, Bytes(pkt, z), NEW i \in Nat, NEW F, At(pkt, i, F),
         NEW s, NEW off, NEW k, NEW n, n = Len(s[k]), n \in Nat, NEW a, NEW e, NEW y, y = Len(F), y \in Nat,
         a \in Nat, e \in Nat, e <= y, e = a + n, \A j \in 1 .. n : F[a + j] = s[k][j]
  PROVE  At(pkt, i + a, s[k])
<1>1. i + y <= Len(pkt) /\ \A j \in 1 .. y : pkt[i + j] = F[j]
  BY Zenon DEF At
<1>2. Len(pkt) = z /\ z \in Nat
  BY Zenon DEF Bytes
<1>3. (i + a) + n <= z
  <2>1. i + y <= z /\ z \in Nat /\ y \in Nat /\ a \in Nat /\ n \in Nat /\ a + n <= y
    BY <1>1, <1>2, Zenon
  <2> QED
    BY ONLY <2>1, i \in Nat
<1>4. \A j \in 1 .. n : a + j \in 1 .. y /\ i + (a + j) = (i + a) + j
  OBVIOUS
<1>5. \A j \in 1 .. n : pkt[(i + a) + j] = s[k][j]
  BY <1>1, <1>4, Zenon
<1> QED
  BY <1>2, <1>3, <1>5, Zenon DEF At

\* the records of an answer section, as bytes
Records(rrs, nm) == [k \in 1 .. Len(rrs) |-> Dns!Record(rrs[k], nm)]

\* They are sequences of bytes.
LEMMA RecordsType ==
  ASSUME NEW nm \in Seq(Seq(Dns!Byte)), Dns!ValidName(nm), nm # <<>>, NEW N \in Nat,
         NEW rrs, Len(rrs) = N,
         \A k \in 1 .. N : rrs[k] \in Dns!ResourceRecords /\ rrs[k].owner # "mixed"
  PROVE  /\ Records(rrs, nm) \in Seq(Seq(Nat)) /\ Len(Records(rrs, nm)) = N
         /\ \A k \in 1 .. N : Records(rrs, nm)[k] = Dns!Record(rrs[k], nm)
<1>1. ASSUME NEW k \in 1 .. N PROVE Dns!Record(rrs[k], nm) \in Seq(Nat)
  <2> DEFINE r == rrs[k]
             c == <<0, 1, 0, 0, 0, 0>>
             d == r.rdata
  <2>1. r \in Dns!ResourceRecords /\ r.owner # "mixed"
    BY Zenon
  <2> HIDE DEF r, c, d
  <2>2. PICK o, t, l, w, n : Comprises(r, nm, o, t, l, w, n)
    BY <2>1, RecordFields, Zenon
  <2>3. /\ Dns!Record(r, nm) = o \o t \o c \o l \o d
        /\ Bytes(o, w) /\ Bytes(t, 2) /\ Bytes(c, 6) /\ Bytes(l, 2) /\ Bytes(d, n)
    BY <2>2, Zenon DEF Comprises, c, d
  <2>4. Bytes(o \o t \o c \o l \o d, w + 10 + n)
    BY ONLY <2>3, RecordType
  <2> QED
    BY <2>3, <2>4, Zenon DEF Bytes, r
<1> DEFINE c == Records(rrs, nm)
<1>2. c = [k \in 1 .. N |-> Dns!Record(rrs[k], nm)]
  BY Zenon DEF Records
<1>3. \A k \in 1 .. N : c[k] = Dns!Record(rrs[k], nm)
  BY <1>2, Zenon
<1>4. c = [k \in 1 .. N |-> c[k]]
  BY <1>2, <1>3, Zenon
<1> HIDE DEF c
<1>5. \A k \in 1 .. N : c[k] \in Seq(Nat)
  BY <1>1, <1>3, Zenon
<1>6. c \in Seq(Seq(Nat)) /\ Len(c) = N
  BY <1>4, <1>5, SeqIntro, Zenon
<1> QED
  BY <1>3, <1>6, Zenon DEF c

\* What a message consists of.
LEMMA MessageAt ==
  ASSUME NEW nm \in Seq(Seq(Dns!Byte)), Dns!ValidName(nm), nm # <<>>, NEW N \in Nat,
         NEW rrs, Len(rrs) = N,
         \A k \in 1 .. N : rrs[k] \in Dns!ResourceRecords /\ rrs[k].owner # "mixed"
  PROVE  \E z, start, f :
           /\ Bytes(Dns!Message(nm, rrs), z) /\ start \in Nat
           /\ At(Dns!Message(nm, rrs), start, Dns!Concat(Records(rrs, nm)))
           /\ Bytes(Dns!Concat(Records(rrs, nm)), f)
           /\ Dns!SkipName(Dns!Message(nm, rrs), 0) + 5 = start
<1> DEFINE B == Dns!NameBytes(nm)
           Q == <<0, 1, 0, 1>>
           F == Dns!Concat(Records(rrs, nm))
           M == B \o Q \o F
           a == Len(B)
           y == Len(F)
<1>1. Dns!Message(nm, rrs) = M
  BY Zenon DEF Dns!Message, Records
<1>2. Bytes(B, a) /\ a \in Nat
  BY NameType DEF Bytes
<1>3. Bytes(Q, 4)
  BY DEF Bytes
<1>4. Bytes(F, y)
  <2>1. Records(rrs, nm) \in Seq(Seq(Nat))
    BY RecordsType
  <2>2. F \in Seq(Nat)
    BY <2>1, ConcatLayout
  <2> HIDE DEF F
  <2>3. y \in Nat
    BY <2>2
  <2> QED
    BY <2>2, <2>3 DEF Bytes
<1> HIDE DEF B, Q, F, a, y
<1>5. Bytes(B \o Q, a + 4)
  BY <1>2, <1>3, BytesJoin, Zenon
<1>6. Bytes(M, a + 4 + y)
  BY <1>4, <1>5, BytesJoin
<1> DEFINE z == a + 4 + y
<1>7. At(M, 0, M)
  <2> HIDE DEF M
  <2>1. z \in Nat /\ Len(M) = z
    BY <1>6, Zenon DEF Bytes
  <2> HIDE DEF z
  <2>2. 0 + z <= z /\ \A j \in 1 .. z : 0 + j = j
    BY <2>1
  <2> QED
    BY <2>1, <2>2, Zenon DEF At
<1> HIDE DEF z
<1>8. Bytes(M, z)
  BY <1>6 DEF z
<1>9. At(M, 0, B \o Q) /\ At(M, a + 4, F) /\ a + 4 \in Nat
  <2> DEFINE X == B \o Q
  <2>1. At(M, 0, X \o F) /\ Bytes(X, a + 4)
    BY <1>5, <1>7, Zenon
  <2>0. 0 \in Nat
    OBVIOUS
  <2> HIDE DEF M, X
  <2>2. At(M, 0, X) /\ At(M, 0 + (a + 4), F)
    BY <1>4, <1>8, <2>0, <2>1, AtJoin, Zenon
  <2>3. 0 + (a + 4) = a + 4 /\ a + 4 \in Nat
    BY <1>2
  <2> QED
    BY <2>2, <2>3, Zenon DEF X
<1> HIDE DEF M
<1>10. At(M, 0, B)
  BY <1>2, <1>3, <1>8, <1>9, AtJoin
<1>11. Dns!SkipName(M, 0) = 0 + a - 1
  <2>1. M \in Seq(Nat)
    BY <1>8 DEF Bytes
  <2>2. At(M, 0, Dns!NameBytes(nm))
    BY <1>10 DEF B
  <2>3. Dns!SkipName(M, 0) = 0 + Len(Dns!NameBytes(nm)) - 1
    BY <2>1, <2>2, SkipOverName
  <2> QED
    BY <2>3 DEF a, B
<1>12. (0 + a - 1) + 5 = a + 4
  BY <1>2
<1> QED
  BY <1>1, <1>4, <1>8, <1>9, <1>11, <1>12, Zenon DEF F

\* The loop finds its way through the answers of a message.
LEMMA MessageWalks ==
  ASSUME NEW nm \in Seq(Seq(Dns!Byte)), Dns!ValidName(nm), nm # <<>>, NEW N \in Nat,
         NEW rrs, Len(rrs) = N,
         \A k \in 1 .. N : rrs[k] \in Dns!ResourceRecords /\ rrs[k].owner # "mixed"
  PROVE  \E pos : /\ Walks(Dns!Message(nm, rrs), rrs, pos)
                  /\ pos[0] = Dns!SkipName(Dns!Message(nm, rrs), 0) + 5
<1> DEFINE M == Dns!Message(nm, rrs)
           c == Records(rrs, nm)
           F == Dns!Concat(c)
<1>1. PICK z, start, y :
        /\ Bytes(M, z) /\ start \in Nat /\ At(M, start, F) /\ Bytes(F, y)
        /\ Dns!SkipName(M, 0) + 5 = start
  BY MessageAt, Zenon
<1>2. c \in Seq(Seq(Nat)) /\ Len(c) = N /\ \A k \in 1 .. N : c[k] = Dns!Record(rrs[k], nm)
  BY RecordsType
<1>3. PICK off : Layout(F, c, off)
  BY <1>2, ConcatLayout, Zenon
<1> HIDE DEF M, c, F
<1>4. off[0] = 0 /\ \A k \in 0 .. N : off[k] \in Nat
  BY <1>2, <1>3, Zenon DEF Layout
<1>5. Placed(F, c, off, N)
  BY <1>2, <1>3, Zenon DEF Layout
<1> DEFINE pos == [k \in 0 .. N |-> start + off[k]]
<1>6. ASSUME NEW k \in 1 .. N
      PROVE  /\ rrs[k].rtype = 1 =>
                  ~Dns!Turn(M, pos[k - 1]).more /\ Dns!Turn(M, pos[k - 1]).addr = rrs[k].rdata
             /\ rrs[k].rtype # 1 =>
                  Dns!Turn(M, pos[k - 1]) = [more |-> TRUE, addr |-> None, pos |-> pos[k]]
  <2> DEFINE n == Len(c[k])
             a == off[k - 1]
             e == off[k]
             i == start + a
             r == rrs[k]
  <2>1. /\ e \in Nat /\ a \in Nat /\ e <= Len(F) /\ e = a + n
        /\ \A j \in 1 .. n : F[a + j] = c[k][j]
    BY <1>5, Zenon DEF Placed
  <2>2. c[k] \in Seq(Nat) /\ n \in Nat
    BY <1>2
  <2>3. k \in 0 .. N /\ k - 1 \in 0 .. N
    OBVIOUS
  <2>4. pos[k - 1] = i /\ pos[k] = start + e
    BY <2>3, Zenon
  <2> HIDE DEF n, a, e
  <2>5. i \in Nat /\ start + e = i + n
    BY <1>1, <2>1, <2>2
  <2>6. At(M, i, c[k])
    <3>1. Len(F) = y /\ y \in Nat /\ e <= y
      BY <1>1, <2>1, Zenon DEF Bytes
    <3> QED
      BY <1>1, <2>1, <2>2, <3>1, AtPlaced, Zenon DEF n
  <2>7. At(M, i, Dns!Record(r, nm)) /\ Len(Dns!Record(r, nm)) = n
    BY <1>2, <2>6, Zenon DEF n
  <2>8. r \in Dns!ResourceRecords /\ r.owner # "mixed"
    BY Zenon
  <2> HIDE DEF i, r, pos
  <2>9. /\ r.rtype = 1 => ~Dns!Turn(M, i).more /\ Dns!Turn(M, i).addr = r.rdata
        /\ r.rtype # 1 =>
             Dns!Turn(M, i) = [more |-> TRUE, addr |-> None, pos |-> i + Len(Dns!Record(r, nm))]
    BY <1>1, <2>5, <2>7, <2>8, TurnOnRecord, Zenon
  <2> QED
    BY <2>4, <2>5, <2>7, <2>9, Zenon DEF r
<1>7. pos[0] = start
  <2>1. start + 0 = start /\ 0 \in 0 .. N
    BY <1>1
  <2> QED
    BY <1>4, <2>1, Zenon
<1> HIDE DEF pos
<1>8. Walks(M, rrs, pos)
  BY <1>6, Zenon DEF Walks
<1> QED
  BY <1>1, <1>7, <1>8, Zenon DEF M

-----------------------------------------------------------------------------
(* The resolver.                                                           *)

\* what Ask sends
Queries == [id : QueryIds, port : Ports, name : {n \in Names : Dns!ValidName(n)}]

\* the call in progress has its socket and nobody else has one; whatever is under
\* way with its id and port belongs to it, if pairs do not repeat
OneQuery ==
    /\ query \in Queries \cup {None}
    /\ sockets = IF query = None THEN {} ELSE {query.port}
    /\ sent \subseteq Queries
    /\ net \subseteq [q : Queries, rcode : {0, 3}, rrs : Answers]
    /\ query # None /\ ~Repeats => \A p \in sent \cup {m.q : m \in net} :
           p.id = query.id /\ p.port = query.port => p = query

\* Every step keeps the socket, and what is under way, with the query.
LEMMA DnsNextOneQuery == OneQuery /\ [Dns!Next]_(Dns!vars) => OneQuery'
<1> SUFFICES ASSUME OneQuery, [Dns!Next]_(Dns!vars) PROVE OneQuery'
  OBVIOUS
<1> USE DEF OneQuery
<1>0. None \notin Queries
  BY GlueAssumption, Zenon DEF Queries
<1>1. ASSUME NEW q \in [id : QueryIds, port : Ports, name : Names], Dns!Ask(q) PROVE OneQuery'
  <2>1. q \in Queries
    BY <1>1, Zenon DEF Dns!Ask, Queries
  <2> QED
    BY <1>0, <1>1, <2>1, Zenon DEF Dns!Ask
<1>2. CASE Dns!Timeout
  BY <1>0, <1>2 DEF Dns!Timeout, Dns!Finish
<1>3. ASSUME NEW m \in net, Dns!Receive(m) PROVE OneQuery'
  <2>1. net' \subseteq net /\ sent' = sent
    BY <1>3 DEF Dns!Receive
  <2>2. CASE UNCHANGED <<query, sockets>>
    BY <2>1, <2>2
  <2>3. CASE query # None /\ query' = None /\ sockets' = sockets \ {query.port}
    BY <2>1, <2>3
  <2> QED
    BY <1>3, <2>2, <2>3, Zenon DEF Dns!Receive, Dns!Finish
<1>4. ASSUME NEW m \in net, Dns!Lose(m) PROVE OneQuery'
  BY <1>4 DEF Dns!Lose
<1>5. ASSUME NEW q \in sent, NEW rcode \in {0, 3}, NEW rrs \in Answers, Dns!Answer(q, rcode, rrs)
      PROVE  OneQuery'
  <2>1. PICK m \in [q : Queries, rcode : {0, 3}, rrs : Answers] :
           m.q = q /\ net' = net \cup {m}
    BY <1>5, Zenon DEF Dns!Answer
  <2> QED
    BY <1>5, <2>1 DEF Dns!Answer
<1>6. ASSUME NEW n \in Names, Dns!Refuse(n) PROVE OneQuery'
  BY <1>6 DEF Dns!Refuse
<1>7. CASE UNCHANGED Dns!vars
  BY <1>7 DEF Dns!vars
<1> QED
  BY <1>1, <1>2, <1>3, <1>4, <1>5, <1>6, <1>7, Zenon DEF Dns!Next

\* Initially there is no query and no socket.
LEMMA DnsInit == Dns!Init => OneQuery
  BY DEF Dns!Init, OneQuery

\* For any names, identifiers, ports and answers: however a call of
\* smoltcp_resolve ends, its socket is removed.
THEOREM ResolverCleansUp == Dns!Spec => []SocketsRestored
<1>1. OneQuery => SocketsRestored
  BY DEF OneQuery, SocketsRestored, Dns!SocketsRestored
<1> QED
  BY <1>1, DnsInit, DnsNextOneQuery, PTL DEF Dns!Spec

\* no answer has a record whose owner is a label and a pointer, which the loop over
\* a name reads as a length
WholeOwners == \A rrs \in Answers : \A k \in 1 .. Len(rrs) : rrs[k].owner # "mixed"

\* What parse_a_response returns for a message that is under way.
LEMMA ParseFinds ==
  ASSUME OneQuery, WholeOwners, NEW m \in net, m.rcode = 0
  PROVE  \/ /\ \A k \in 1 .. Len(m.rrs) : m.rrs[k].rtype # 1
            /\ Dns!parse_a_response(m, m.q.id) = None
         \/ \E k \in 1 .. Len(m.rrs) :
               /\ Dns!FirstAt(m.rrs, k)
               /\ Dns!parse_a_response(m, m.q.id) = m.rrs[k].rdata
<1> DEFINE nm == m.q.name
           rrs == m.rrs
           N == Len(rrs)
           M == Dns!Message(nm, rrs)
           start == Dns!SkipName(M, 0) + 5
           p == Dns!parse_a_response(m, m.q.id)
<1>1. nm \in Names /\ Dns!ValidName(nm) /\ rrs \in Answers
  BY Zenon DEF OneQuery, Queries
<1>2. nm \in Seq(Seq(Dns!Byte)) /\ nm # <<>> /\ rrs \in Seq(Dns!ResourceRecords)
  BY <1>1, GlueAssumption, Zenon
<1>3. p = IF rrs = <<>> THEN None ELSE Dns!FirstA(M, N, start)
  BY Zenon DEF Dns!parse_a_response
<1>4. \A k \in 1 .. N : rrs[k].owner # "mixed"
  BY <1>1, Zenon DEF WholeOwners
<1> HIDE DEF nm, rrs, M, start, p
<1>5. N \in Nat /\ \A k \in 1 .. N : rrs[k] \in Dns!ResourceRecords
  BY <1>2, SeqElems, Zenon
<1>6. CASE rrs = <<>>
  <2>1. 1 .. Len(<<>>) = {}
    OBVIOUS
  <2> QED
    BY <1>3, <1>6, <2>1, Zenon DEF p, rrs
<1>7. CASE rrs # <<>>
  <2>1. PICK pos : Walks(M, rrs, pos) /\ pos[0] = start
    BY <1>1, <1>2, <1>4, <1>5, MessageWalks, Zenon DEF M, start
  <2>2. p = Dns!FirstA(M, N, pos[0])
    BY <1>3, <1>7, <2>1, Zenon
  <2>3. /\ (\A k \in 1 .. N : rrs[k].rtype # 1) => p = None
        /\ \A k \in 1 .. N : Dns!FirstAt(rrs, k) => p = rrs[k].rdata
    <3>1. Len(rrs) = N /\ N \in Nat /\ Walks(M, rrs, pos)
      BY <1>5, <2>1, Zenon
    <3>2. Finds(Dns!FirstA(M, N, pos[0]), rrs, N)
      BY <3>1, WalkFinds, Zenon
    <3> QED
      BY <2>2, <3>2, Zenon DEF Finds
  <2>4. (\E k \in 1 .. N : rrs[k].rtype = 1) => \E k \in 1 .. N : Dns!FirstAt(rrs, k)
    BY <1>5, FirstExists
  <2> QED
    BY <2>3, <2>4, Zenon DEF p, rrs
<1> QED
  BY <1>6, <1>7, Zenon

\* For any names and any answers without mixed owners: parse_a_response returns
\* the first A record of a successful answer, whatever records of whatever length
\* precede it and however their owners are written, and nothing if there is none.
THEOREM ParserFindsA == ASSUME WholeOwners PROVE Dns!Spec => []ARecordFound
<1>1. OneQuery => ARecordFound
  BY ParseFinds, Zenon DEF ARecordFound, Dns!ARecordFound
<1> QED
  BY <1>1, DnsInit, DnsNextOneQuery, PTL DEF Dns!Spec

\* What the resolver takes from a datagram.
LEMMA Parsed ==
  ASSUME OneQuery, WholeOwners, NEW m \in net, NEW i, Dns!parse_a_response(m, i) # None
  PROVE  /\ m.q.id = i /\ m.rcode = 0
         /\ \E k \in 1 .. Len(m.rrs) :
               Dns!FirstAt(m.rrs, k) /\ Dns!parse_a_response(m, i) = m.rrs[k].rdata
<1>1. m.q.id = i /\ m.rcode = 0
  BY Zenon DEF Dns!parse_a_response
<1> QED
  BY <1>1, ParseFinds, Zenon

\* Every step keeps the result that of an answer to its own query.
LEMMA DnsNextOwnAnswer ==
  ASSUME WholeOwners, ~Repeats, OneQuery, OwnAnswer, [Dns!Next]_(Dns!vars)
  PROVE  OwnAnswer'
<1> USE DEF OwnAnswer, Dns!OwnAnswer
<1>1. CASE result' = None
  BY <1>1, Zenon
<1>2. CASE result' = result
  BY <1>2, Zenon
<1>3. ASSUME NEW m \in net, Dns!Receive(m), result' # result PROVE OwnAnswer'
  <2> DEFINE a == Dns!parse_a_response(m, query.id)
  <2>1. /\ query # None /\ m.q.port = query.port /\ a # None
        /\ result' = [name |-> query.name, addr |-> a, from |-> m]
    BY <1>3 DEF Dns!Receive, Dns!Finish
  <2>2. /\ m.q.id = query.id /\ m.rcode = 0
        /\ \E k \in 1 .. Len(m.rrs) : Dns!FirstAt(m.rrs, k) /\ a = m.rrs[k].rdata
    BY <2>1, Parsed, Zenon
  <2> HIDE DEF a
  <2>3. m.q = query
    BY <2>1, <2>2 DEF OneQuery
  <2>4. /\ result'.from = m /\ result'.name = query.name /\ result'.addr = a
    BY <2>1, Zenon
  <2> QED
    BY <2>2, <2>3, <2>4, Zenon
<1> QED
  BY <1>1, <1>2, <1>3, Zenon
     DEF Dns!Next, Dns!vars, Dns!Ask, Dns!Refuse, Dns!Timeout, Dns!Finish, Dns!Lose, Dns!Answer

\* For any names, ids, ports and answers without mixed owners: smoltcp_resolve
\* returns the first A record of a successful answer to its own query, however
\* many answers to other queries arrive, late or repeated, as long as it does not
\* draw the random id and port of one of those.
THEOREM AnswerIsOwn == ASSUME WholeOwners, ~Repeats PROVE Dns!Spec => []OwnAnswer
<1>1. Dns!Init => OwnAnswer
  BY DEF Dns!Init, OwnAnswer, Dns!OwnAnswer
<1>2. OneQuery /\ OwnAnswer /\ [Dns!Next]_(Dns!vars) => OwnAnswer'
  BY DnsNextOwnAnswer
<1> QED
  BY <1>1, <1>2, DnsInit, DnsNextOneQuery, PTL DEF Dns!Spec

-----------------------------------------------------------------------------
(* The encodings of addresses.                                             *)

\* Turning the bytes of a value round twice changes nothing.
LEMMA SwapTwice ==
  ASSUME NEW v, v = [k \in 1 .. 4 |-> v[k]]
  PROVE  Code!swap_bytes(Code!swap_bytes(v)) = v
<1>1. Code!swap_bytes(Code!swap_bytes(v)) = [k \in 1 .. 4 |-> v[5 - (5 - k)]]
  BY DEF Code!swap_bytes
<1>2. \A k \in 1 .. 4 : 5 - (5 - k) = k
  OBVIOUS
<1> QED
  BY <1>1, <1>2

\* The powers of two in an octet.
LEMMA Powers ==
  /\ 2^0 = 1 /\ 2^1 = 2 /\ 2^2 = 4 /\ 2^3 = 8 /\ 2^4 = 16 /\ 2^5 = 32 /\ 2^6 = 64 /\ 2^7 = 128
  OBVIOUS

\* The bits of an octet from bit n on.
Upper(n) ==
    LET bit(b) == IF b >= n THEN 2^b ELSE 0
    IN  bit(7) + bit(6) + bit(5) + bit(4) + bit(3) + bit(2) + bit(1) + bit(0)

\* They are all ones, none, or the octet less the bits below n.
LEMMA UpperIs ==
  ASSUME NEW n \in Int
  PROVE  Upper(n) = IF n <= 0 THEN 255 ELSE IF n >= 8 THEN 0 ELSE 256 - 2^n
<1> DEFINE s(b, v) == IF b >= n THEN v ELSE 0
<1>1. Upper(n) = s(7, 128) + s(6, 64) + s(5, 32) + s(4, 16) + s(3, 8) + s(2, 4) + s(1, 2) + s(0, 1)
  BY Powers DEF Upper
<1>2. CASE n <= 0
  BY <1>1, <1>2
<1>3. CASE n >= 8
  BY <1>1, <1>3
<1>4. CASE n \in 1 .. 7
  <2> DEFINE w == 2^n
  <2>1. n = 1 \/ n = 2 \/ n = 3 \/ n = 4 \/ n = 5 \/ n = 6 \/ n = 7
    BY <1>4
  <2>2. (n = 1 => w = 2) /\ (n = 2 => w = 4) /\ (n = 3 => w = 8) /\ (n = 4 => w = 16)
    BY Powers, Zenon
  <2>3. (n = 5 => w = 32) /\ (n = 6 => w = 64) /\ (n = 7 => w = 128)
    BY Powers, Zenon
  <2> HIDE DEF w
  <2>4. Upper(n) = 256 - w
    BY <1>1, <2>1, <2>2, <2>3
  <2>5. ~(n <= 0) /\ ~(n >= 8)
    BY <1>4
  <2> QED
    BY <2>4, <2>5, Zenon DEF w
<1> QED
  BY <1>2, <1>3, <1>4

\* The netmask of a prefix, octet by octet.
LEMMA MaskIs ==
  ASSUME prefix \in 0 .. 32
  PROVE  Code!cidr_to_mask(prefix) = [k \in 1 .. 4 |-> Code!MaskOctet(k)]
<1> DEFINE c(k) == LET bit(b) == IF 8 * (4 - k) + b >= 32 - prefix THEN 2^b ELSE 0
                   IN  bit(7) + bit(6) + bit(5) + bit(4) + bit(3) + bit(2) + bit(1) + bit(0)
<1>1. ASSUME NEW k \in 1 .. 4
      PROVE  /\ \A b \in 0 .. 7 : 8 * (4 - k) + b >= 32 - prefix <=> b >= 8 * k - prefix
             /\ 8 * k - prefix \in Int
             /\ 8 * k - prefix <= 0 <=> prefix >= 8 * k
             /\ 8 * k - prefix >= 8 <=> prefix <= 8 * (k - 1)
  OBVIOUS
<1>2. ASSUME NEW k \in 1 .. 4 PROVE c(k) = Upper(8 * k - prefix)
  <2>1. 0 \in 0 .. 7 /\ 1 \in 0 .. 7 /\ 2 \in 0 .. 7 /\ 3 \in 0 .. 7 /\ 4 \in 0 .. 7
        /\ 5 \in 0 .. 7 /\ 6 \in 0 .. 7 /\ 7 \in 0 .. 7
    OBVIOUS
  <2> DEFINE old(b) == IF 8 * (4 - k) + b >= 32 - prefix THEN 2^b ELSE 0
             new(b) == IF b >= 8 * k - prefix THEN 2^b ELSE 0
  <2>2. \A b \in 0 .. 7 : old(b) = new(b)
    BY <1>1, Zenon
  <2> HIDE DEF old, new
  <2>3. old(7) + old(6) + old(5) + old(4) + old(3) + old(2) + old(1) + old(0)
          = new(7) + new(6) + new(5) + new(4) + new(3) + new(2) + new(1) + new(0)
    BY <2>1, <2>2, Zenon
  <2> QED
    BY <2>3, Zenon DEF old, new, Upper
<1>3. ASSUME NEW k \in 1 .. 4 PROVE Upper(8 * k - prefix) = Code!MaskOctet(k)
  <2> DEFINE n == 8 * k - prefix
  <2>1. Upper(n) = IF n <= 0 THEN 255 ELSE IF n >= 8 THEN 0 ELSE 256 - 2^n
    BY <1>1, UpperIs
  <2> QED
    BY <1>1, <2>1, Zenon DEF Code!MaskOctet
<1>4. Code!cidr_to_mask(prefix) = [k \in 1 .. 4 |-> c(k)]
  BY Zenon DEF Code!cidr_to_mask
<1> HIDE DEF c
<1>5. \A k \in 1 .. 4 : c(k) = Code!MaskOctet(k)
  BY <1>2, <1>3, Zenon
<1> QED
  BY <1>4, <1>5, Zenon

\* The netmask of a prefix is printed with its one bits in front.
LEMMA MaskPrinted ==
  ASSUME prefix \in 0 .. 32
  PROVE  Code!inet_ntop(Code!netmask_be) = [k \in 1 .. 4 |-> Code!decimal(Code!MaskOctet(k))]
<1> DEFINE v == Code!cidr_to_mask(prefix)
<1>1. v = [k \in 1 .. 4 |-> Code!MaskOctet(k)]
  BY MaskIs
<1> HIDE DEF v
<1>2. v = [k \in 1 .. 4 |-> v[k]]
  BY <1>1, Zenon
<1>3. Code!to_le_bytes(Code!netmask_be) = Code!swap_bytes(Code!swap_bytes(v))
  BY Zenon DEF Code!netmask_be, Code!to_le_bytes, Code!to_be, v
<1>4. Code!to_le_bytes(Code!netmask_be) = [k \in 1 .. 4 |-> Code!MaskOctet(k)]
  BY <1>1, <1>2, <1>3, SwapTwice
<1> QED
  BY <1>4, Zenon DEF Code!inet_ntop

\* For any texts and every prefix length: an address keeps its octets through
\* ipv4_to_be and back, is printed as it is written, and read back with its bytes
\* swapped; a text that parses stands for its four numbers, swapped alike; and the
\* netmask is printed with its one bits in front.
THEOREM EncodingsSurvive == Code!Spec => []EncodingsAgree
<1> DEFINE T == str \in Seq(Parts \cup {Bad}) /\ prefix \in 0 .. 32
<1>1. Code!Init => T
  BY DEF Code!Init
<1>2. T /\ [Code!Next]_(Code!vars) => T'
  <2> SUFFICES ASSUME T, [Code!Next]_(Code!vars) PROVE T'
    OBVIOUS
  <2>1. ASSUME NEW p \in Parts \cup {Bad}, Code!AnotherPart(p) PROVE T'
    BY <2>1 DEF Code!AnotherPart
  <2>2. CASE Code!AnotherPrefix
    BY <2>2 DEF Code!AnotherPrefix
  <2>3. CASE Code!StartOver
    BY <2>3 DEF Code!StartOver
  <2>4. CASE UNCHANGED Code!vars
    BY <2>4 DEF Code!vars
  <2> QED
    BY <2>1, <2>2, <2>3, <2>4 DEF Code!Next
<1>3. T => Code!AddressesAgree
  <2> SUFFICES ASSUME T PROVE Code!AddressesAgree
    OBVIOUS
  <2> DEFINE o == Code!octets
             v == Code!ipv4_to_be(o)
  <2>1. o = [k \in 1 .. 4 |-> o[k]]
    BY Zenon DEF Code!octets
  <2>2. Code!swap_bytes(v) = o
    BY <2>1, SwapTwice DEF Code!ipv4_to_be, Code!from_le_bytes
  <2>3. Code!is_loopback_ip(v) <=> o[1] = 127
    BY DEF Code!is_loopback_ip, Code!ipv4_to_be, Code!from_le_bytes, Code!swap_bytes
  <2>4. Code!parse_ipv4(str) # <<>> => Code!parse_ipv4(str) = o
    BY Zenon DEF Code!parse_ipv4, Code!from_be_bytes, Code!octets
  <2>5. ASSUME Code!Quad PROVE Code!inet_ntop(v) = str
    <3>1. \A k \in 1 .. 4 : str[k] = Code!decimal(o[k])
      <4> SUFFICES ASSUME NEW k \in 1 .. 4 PROVE str[k] = Code!decimal(o[k])
        OBVIOUS
      <4>1. PICK n \in 0 .. 255 : str[k] = Code!decimal(n)
        BY <2>5, Zenon DEF Code!Quad
      <4>2. o[k] = str[k].num
        BY DEF Code!octets
      <4>3. Code!decimal(n).num = n
        BY DEF Code!decimal
      <4> QED
        BY <4>1, <4>2, <4>3, Zenon
    <3>2. str = [k \in 1 .. 4 |-> str[k]]
      BY <2>5 DEF Code!Quad
    <3>3. Code!inet_ntop(v) = [k \in 1 .. 4 |-> Code!decimal(o[k])]
      BY <2>2, Zenon DEF Code!inet_ntop, Code!to_le_bytes
    <3> QED
      BY <3>1, <3>2, <3>3, Zenon
  <2>6. ASSUME Code!Quad PROVE Code!parse_ipv4(str) = o
    <3>1. \A k \in 1 .. 4 : Code!is_u8(str[k])
      <4> SUFFICES ASSUME NEW k \in 1 .. 4 PROVE Code!is_u8(str[k])
        OBVIOUS
      <4>1. PICK n \in 0 .. 255 : str[k] = Code!decimal(n)
        BY <2>6, Zenon DEF Code!Quad
      <4>2. Code!decimal(n) \in Code!Numerals /\ Code!decimal(n).num = n
        BY DEF Code!decimal, Code!Numerals
      <4>3. n < 256
        OBVIOUS
      <4>4. Code!decimal(n) # Bad
        BY <4>2, GlueAssumption, Zenon
      <4> QED
        BY <4>1, <4>2, <4>3, <4>4, Zenon DEF Code!is_u8
    <3> QED
      BY <2>6, <3>1 DEF Code!parse_ipv4, Code!Quad, Code!from_be_bytes, Code!octets
  <2> HIDE DEF o, v
  <2>7. ASSUME Code!Quad
        PROVE  /\ Code!ipv4_from_be(v) = o /\ Code!inet_ntop(v) = str
               /\ Code!parse_ipv4(Code!inet_ntop(v)) = Code!swap_bytes(v)
    BY <2>2, <2>5, <2>6, <2>7, Zenon DEF Code!ipv4_from_be, Code!to_le_bytes
  <2>8. Code!parse_ipv4(str) # <<>> => Code!parse_ipv4(str) = Code!swap_bytes(v)
    BY <2>2, <2>4, Zenon
  <2> QED
    BY <2>3, <2>7, <2>8, Zenon DEF Code!AddressesAgree, o, v
<1>4. T => EncodingsAgree
  BY <1>3, MaskPrinted, Zenon DEF EncodingsAgree, Code!EncodingsAgree
<1> QED
  BY <1>1, <1>2, <1>4, PTL DEF Code!Spec

-----------------------------------------------------------------------------
(* The composition.                                                        *)

\* A behaviour of the composition is one of every part: a step of one part leaves
\* the variables of the others alone.  So the theorems above hold of GlueSpec.
THEOREM EachPart == GlueSpec => Spec /\ Tx!Spec /\ Ip!Spec /\ Code!Spec /\ Dns!Spec
<1> DEFINE Any == SockStep \/ TxStep \/ IpStep \/ CodeStep \/ DnsStep
           all == <<part, vars, txVars, ipVars, codeVars, dnsVars>>
<1>1. [Any]_all => [Next]_vars
  BY DEF SockStep, TxStep, IpStep, CodeStep, DnsStep
<1>2. [Any]_all => [Tx!Next]_(Tx!vars)
  BY Zenon DEF SockStep, TxStep, IpStep, CodeStep, DnsStep, txVars, Tx!vars
<1>3. [Any]_all => [Ip!Next]_(Ip!vars)
  BY Zenon DEF SockStep, TxStep, IpStep, CodeStep, DnsStep, ipVars, Ip!vars
<1>4. [Any]_all => [Code!Next]_(Code!vars)
  BY DEF SockStep, TxStep, IpStep, CodeStep, DnsStep, codeVars, Code!vars
<1>5. [Any]_all => [Dns!Next]_(Dns!vars)
  BY DEF SockStep, TxStep, IpStep, CodeStep, DnsStep, dnsVars, Dns!vars
<1>6. GlueInit => Init /\ Tx!Init /\ Ip!Init /\ Code!Init /\ Dns!Init
  BY DEF GlueInit
<1> QED
  BY <1>1, <1>2, <1>3, <1>4, <1>5, <1>6, PTL
  DEF GlueSpec, Spec, Tx!Spec, Ip!Spec, Code!Spec, Dns!Spec

\* What the glue run checks, for every value of the constants: all eight invariants
\* hold of the composition when polls hold the lock, no answer has a mixed owner and
\* no query has the id and port of one that is still to be answered.
THEOREM GlueCorrect ==
    ASSUME Unlocked = {}, WholeOwners, ~Repeats
    PROVE  GlueSpec => [](/\ HandlesDenote /\ NothingStranded /\ AllReturned /\ CopiesAgree
                          /\ EncodingsAgree /\ OwnAnswer /\ SocketsRestored /\ ARecordFound)
  BY EachPart, HandlesReachTheirSocket, NoSocketStranded, BuffersComeBack, OneLease,
     EncodingsSurvive, AnswerIsOwn, ResolverCleansUp, ParserFindsA, PTL
=============================================================================
