--------------------------- MODULE LoopbackProofs ---------------------------
(***************************************************************************)
(* For any threads, descriptors, ports, slots and queue depth, and         *)
(* however closes and deliveries overlap: registrations last, and only a   *)
(* datagram queued after a drain leaks.  When each descriptor gets one     *)
(* address, a delivery has the descriptor bound to its port until that one *)
(* is closed, and no datagram for 127.0.0.0/8 leaves.                      *)
(***************************************************************************)
EXTENDS Loopback, SequenceTheorems, TLAPS

Calls == [at : {"idle", "found", "queue"}, port : Ports \cup {0}, fd : Fds \cup {NULL},
          msg : Nat, late : BOOLEAN]

TypeOK ==
    /\ st \in [Fds -> {"free", "open", "drain", "delete"}]
    /\ ip \in [Fds -> {"any", "net", "lo"}]
    /\ port \in [Fds -> Ports \cup {0}]
    /\ connected \in [Fds -> BOOLEAN] /\ loopback \in [Fds -> BOOLEAN] /\ bound \in [Fds -> BOOLEAN]
    /\ slots \in [Slot -> [port : Ports \cup {0}, fd : Fds \cup {NULL}]]
    /\ call \in [Threads -> Calls]
    /\ made \in Nat

\* slots in use and deliveries in progress name a descriptor
Targets ==
    /\ \A i \in Slot : slots[i].port # 0 => slots[i].fd \in Fds
    /\ \A t \in Threads : call[t].at # "idle" => call[t].port \in Ports /\ call[t].fd \in Fds

Types == TypeOK /\ Targets

\* a slot in use names an open descriptor bound to its port
SlotsLive ==
    \A i \in Slot : slots[i].port # 0 =>
        LET f == slots[i].fd IN st[f] = "open" /\ loopback[f] /\ port[f] = slots[i].port

Live == SlotsLive /\ DeliveredToBound

LEMMA InitControl == Init => Types /\ Live
  BY LoopbackAssumption
  DEF Init, Types, TypeOK, Calls, Targets, Live, SlotsLive, DeliveredToBound, NoCall, Unused

\* What the steps of a delivery and of close() do to the calls.
LEMMA LookupCall ==
    ASSUME Types, NEW t \in Threads, NEW p \in Ports, Lookup(t, p)
    PROVE  /\ call' \in [Threads -> Calls]
           /\ \A u \in Threads : u # t => call'[u] = call[u]
           /\ \E i \in Slot : /\ slots[i].port = p /\ slots[i].fd \in Fds
                              /\ call'[t].port = p /\ call'[t].fd = slots[i].fd
<1>1. PICK i \in Slot : /\ slots[i].port = p
         /\ call' = [call EXCEPT ![t] = [at |-> "found", port |-> p, fd |-> slots[i].fd, msg |-> 0,
                                           late |-> FALSE]]
  BY Zenon DEF Lookup
<1> DEFINE r == [at |-> "found", port |-> p, fd |-> slots[i].fd, msg |-> 0, late |-> FALSE]
<1>2. slots[i].fd \in Fds
  BY <1>1, LoopbackAssumption DEF Types, Targets
<1>3. r \in Calls /\ r.port = p /\ r.fd = slots[i].fd
  BY <1>2 DEF Calls
<1>4. call' = [call EXCEPT ![t] = r]
  BY <1>1
<1> HIDE DEF r
<1>5. call' \in [Threads -> Calls] /\ call'[t] = r /\ \A u \in Threads : u # t => call'[u] = call[u]
  BY <1>3, <1>4 DEF Types, TypeOK
<1> QED
  BY <1>1, <1>2, <1>3, <1>5

LEMMA BuildCall ==
    ASSUME Types, NEW t \in Threads, Build(t)
    PROVE  /\ call' \in [Threads -> Calls]
           /\ \A u \in Threads : call'[u].at # "idle" =>
                /\ call[u].at # "idle" /\ call'[u].late = call[u].late
                /\ call'[u].port = call[u].port /\ call'[u].fd = call[u].fd
<1> DEFINE Kept(r) == r.at # "idle" => /\ call[t].at # "idle" /\ r.late = call[t].late
                                       /\ r.port = call[t].port /\ r.fd = call[t].fd
<1>1. ASSUME NEW r \in Calls, Kept(r), call' = [call EXCEPT ![t] = r]
      PROVE  /\ call' \in [Threads -> Calls]
             /\ \A u \in Threads : call'[u].at # "idle" =>
                  /\ call[u].at # "idle" /\ call'[u].late = call[u].late
                  /\ call'[u].port = call[u].port /\ call'[u].fd = call[u].fd
  <2>1. /\ call' \in [Threads -> Calls] /\ call'[t] = r
        /\ \A u \in Threads : u # t => call'[u] = call[u]
    BY <1>1 DEF Types, TypeOK
  <2> QED
    BY <1>1, <2>1, Zenon
<1>2. CASE call' = [call EXCEPT ![t] = NoCall]
  <2>1. NoCall \in Calls /\ NoCall.at = "idle"
    BY LoopbackAssumption DEF NoCall, Calls
  <2>2. Kept(NoCall)
    BY <2>1
  <2> QED
    BY <1>1, <1>2, <2>1, <2>2
<1>3. CASE made' = made + 1 /\ call' = [call EXCEPT ![t] = [@ EXCEPT !.at = "queue", !.msg = made']]
  <2> DEFINE c == call[t]
             r == [c EXCEPT !.at = "queue", !.msg = made']
  <2>1. c \in Calls /\ made' \in Nat /\ c.at = "found"
    BY <1>3 DEF Types, TypeOK, Build
  <2>2. call' = [call EXCEPT ![t] = r]
    BY <1>3
  <2> HIDE DEF c
  <2>3. r \in Calls /\ r.late = c.late /\ r.port = c.port /\ r.fd = c.fd
    BY <2>1 DEF Calls
  <2>4. Kept(r)
    <3>1. c.at # "idle"
      BY <2>1
    <3> HIDE DEF r
    <3> QED
      BY <2>3, <3>1, Zenon DEF c
  <2> HIDE DEF r, Kept
  <2> QED
    BY <1>1, <2>2, <2>3, <2>4
<1> QED
  BY <1>2, <1>3 DEF Build

LEMMA OvertakeCall ==
    ASSUME Types, NEW f \in Fds, Overtake(f)
    PROVE  /\ call' \in [Threads -> Calls]
           /\ \A t \in Threads :
                /\ call'[t].at = call[t].at /\ call'[t].port = call[t].port
                /\ call'[t].fd = call[t].fd /\ call'[t].msg = call[t].msg
                /\ call[t].late => call'[t].late
                /\ call[t].fd = f => call'[t].late
<1>1. ASSUME NEW c \in Calls
      PROVE  LET r == [c EXCEPT !.late = TRUE]
             IN  /\ r \in Calls /\ r.late
                 /\ r.at = c.at /\ r.port = c.port /\ r.fd = c.fd /\ r.msg = c.msg
  BY DEF Calls
<1>2. \A t \in Threads : call[t] \in Calls
  BY DEF Types, TypeOK
<1>3. \A t \in Threads : call'[t] = IF call[t].fd = f THEN [call[t] EXCEPT !.late = TRUE] ELSE call[t]
  BY DEF Overtake
<1>4. call' = [t \in Threads |-> call'[t]]
  BY Zenon DEF Overtake
<1>5. ASSUME NEW t \in Threads
      PROVE  /\ call'[t] \in Calls
             /\ call'[t].at = call[t].at /\ call'[t].port = call[t].port
             /\ call'[t].fd = call[t].fd /\ call'[t].msg = call[t].msg
             /\ call[t].late => call'[t].late
             /\ call[t].fd = f => call'[t].late
  <2>1. CASE call[t].fd = f
    BY <1>1, <1>2, <1>3, <2>1, Zenon
  <2>2. CASE call[t].fd # f
    BY <1>2, <1>3, <2>2, Zenon
  <2> QED
    BY <2>1, <2>2
<1> QED
  BY <1>4, <1>5

\* Every step keeps the types, whatever the callers do.
LEMMA NextTypes ==
    ASSUME Types, [Next]_vars
    PROVE  Types'
<1> USE LoopbackAssumption DEF Types, TypeOK, Targets, Address, Unused, entry
<1>1. ASSUME NEW f \in Fds, Socket(f) PROVE Types'
  BY <1>1 DEF Socket
<1>2. ASSUME NEW f \in Fds, Send(f) \/ Recv(f) PROVE Types'
  BY <1>2 DEF Send, Recv
<1>a. ASSUME NEW f \in Fds, Drain(f) PROVE Types'
  BY <1>a DEF Drain
<1>b. ASSUME NEW f \in Fds, Delete(f) PROVE Types'
  BY <1>b DEF Delete
<1>3. ASSUME NEW f \in Fds, Unbind(f) PROVE Types'
  <2>1. Overtake(f) /\ UNCHANGED <<ip, port, connected, loopback, bound, made>>
    BY <1>3 DEF Unbind
  <2>2. slots' = [i \in Slot |-> IF slots[i] = [port |-> port[f], fd |-> f] THEN Unused ELSE slots[i]]
        /\ st' = [st EXCEPT ![f] = "drain"]
    BY <1>3 DEF Unbind
  <2>3. /\ call' \in [Threads -> Calls]
        /\ \A t \in Threads : /\ call'[t].at = call[t].at /\ call'[t].port = call[t].port
                              /\ call'[t].fd = call[t].fd
    BY <2>1, OvertakeCall
  <2>4. TypeOK'
    BY <2>1, <2>2, <2>3
  <2>5. \A i \in Slot : slots'[i].port # 0 => slots'[i].fd \in Fds
    BY <2>2
  <2> QED
    BY <2>3, <2>4, <2>5
<1>4. ASSUME NEW f \in Fds, NEW p \in Ports \cup {0}, BindLo(f, p) PROVE Types'
  BY <1>4 DEF BindLo
<1>5. ASSUME NEW f \in Fds, NEW p \in Ports \cup {0}, BindLoFails(f, p) PROVE Types'
  BY <1>5 DEF BindLoFails
<1>c. ASSUME NEW f \in Fds, NEW p \in Ports \cup {0}, BindNet(f, p) PROVE Types'
  BY <1>c DEF BindNet
<1>6. ASSUME NEW f \in Fds, NEW p \in Ports \cup {0}, NEW a \in {"net", "lo"}, Connect(f, a, p)
      PROVE  Types'
  BY <1>6 DEF Connect
<1>7. ASSUME NEW t \in Threads, Build(t) PROVE Types'
  <2>1. UNCHANGED <<entry, slots>> /\ made' \in Nat
    BY <1>7 DEF Build
  <2>2. /\ call' \in [Threads -> Calls]
        /\ \A u \in Threads : call'[u].at # "idle" =>
             /\ call[u].at # "idle" /\ call'[u].port = call[u].port /\ call'[u].fd = call[u].fd
    BY <1>7, BuildCall
  <2>3. TypeOK'
    BY <2>1, <2>2
  <2>4. \A u \in Threads : call'[u].at # "idle" => call'[u].port \in Ports /\ call'[u].fd \in Fds
    BY <2>2
  <2> QED
    BY <2>1, <2>3, <2>4
<1>8. ASSUME NEW t \in Threads, Enqueue(t) PROVE Types'
  <2>1. UNCHANGED <<st, ip, port, connected, loopback, bound, slots, made>>
    BY <1>8 DEF Enqueue
  <2>2. call' = [call EXCEPT ![t] = NoCall] /\ NoCall \in Calls /\ NoCall.at = "idle"
    BY <1>8 DEF Enqueue, NoCall, Calls
  <2> QED
    BY <2>1, <2>2
<1>9. ASSUME NEW t \in Threads, NEW p \in Ports, Lookup(t, p) PROVE Types'
  <2>1. UNCHANGED <<entry, slots, made>>
    BY <1>9 DEF Lookup
  <2>2. /\ call' \in [Threads -> Calls] /\ call'[t].port = p /\ call'[t].fd \in Fds
        /\ \A u \in Threads : u # t => call'[u] = call[u]
    BY <1>9, LookupCall
  <2>3. TypeOK'
    BY <2>1, <2>2
  <2>4. \A u \in Threads : call'[u].at # "idle" => call'[u].port \in Ports /\ call'[u].fd \in Fds
    BY <2>2
  <2> QED
    BY <2>1, <2>3, <2>4
<1>10. CASE UNCHANGED vars
  BY <1>10 DEF vars
<1> HIDE DEF Types, Address
<1> QED
  BY <1>1, <1>2, <1>3, <1>4, <1>5, <1>6, <1>7, <1>8, <1>9, <1>10, <1>a, <1>b, <1>c DEF Next

\* Every step keeps slots on bound descriptors, and deliveries that no close overtook.
LEMMA NextLive ==
    ASSUME Rebind = FALSE, Types, Live, [Next]_vars
    PROVE  Live'
<1> USE LoopbackAssumption
    DEF Types, TypeOK, Targets, Live, SlotsLive, DeliveredToBound, TargetBound, Address, Unused, entry
<1>1. ASSUME NEW f \in Fds, Socket(f) PROVE Live'
  BY <1>1 DEF Socket
<1>2. ASSUME NEW f \in Fds, Send(f) PROVE Live'
  BY <1>2 DEF Send
<1>3. ASSUME NEW f \in Fds, Recv(f) PROVE Live'
  BY <1>3 DEF Recv
<1>4. ASSUME NEW f \in Fds, Unbind(f) PROVE Live'
  <2>1. Overtake(f) /\ UNCHANGED <<port, loopback>>
    BY <1>4 DEF Unbind
  <2>2. slots' = [i \in Slot |-> IF slots[i] = [port |-> port[f], fd |-> f] THEN Unused ELSE slots[i]]
        /\ st' = [st EXCEPT ![f] = "drain"]
    BY <1>4 DEF Unbind
  <2>3. SlotsLive'
    BY <2>1, <2>2
  <2>4. ASSUME NEW t \in Threads, call'[t].at # "idle", ~call'[t].late PROVE TargetBound(t)'
    <3>1. call[t].at # "idle" /\ ~call[t].late /\ call[t].fd # f /\ call[t].fd \in Fds
          /\ call'[t].fd = call[t].fd /\ call'[t].port = call[t].port
      BY <2>1, <2>4, OvertakeCall
    <3> QED
      BY <2>1, <2>2, <3>1
  <2> QED
    BY <2>3, <2>4
<1>5. ASSUME NEW f \in Fds, Drain(f) PROVE Live'
  BY <1>5 DEF Drain
<1>6. ASSUME NEW f \in Fds, Delete(f) PROVE Live'
  BY <1>6 DEF Delete
<1>7. ASSUME NEW f \in Fds, NEW p \in Ports \cup {0}, BindLo(f, p) PROVE Live'
  BY <1>7 DEF BindLo
<1>8. ASSUME NEW f \in Fds, NEW p \in Ports \cup {0}, BindLoFails(f, p) \/ BindNet(f, p) PROVE Live'
  BY <1>8 DEF BindLoFails, BindNet
<1>9. ASSUME NEW f \in Fds, NEW p \in Ports \cup {0}, NEW a \in {"net", "lo"}, Connect(f, a, p)
      PROVE  Live'
  BY <1>9 DEF Connect
<1>10. ASSUME NEW t \in Threads, Build(t) PROVE Live'
  <2>1. UNCHANGED <<entry, slots>>
    BY <1>10 DEF Build
  <2>2. \A u \in Threads : call'[u].at # "idle" =>
             /\ call[u].at # "idle" /\ call'[u].late = call[u].late
             /\ call'[u].port = call[u].port /\ call'[u].fd = call[u].fd
    BY <1>10, BuildCall
  <2> QED
    BY <2>1, <2>2
<1>11. ASSUME NEW t \in Threads, Enqueue(t) PROVE Live'
  <2>1. UNCHANGED <<st, port, loopback, slots>>
    BY <1>11 DEF Enqueue
  <2>2. call' = [call EXCEPT ![t] = NoCall] /\ NoCall.at = "idle"
    BY <1>11 DEF Enqueue, NoCall
  <2> QED
    BY <2>1, <2>2
<1>12. ASSUME NEW t \in Threads, NEW p \in Ports, Lookup(t, p) PROVE Live'
  <2>1. UNCHANGED <<entry, slots>>
    BY <1>12 DEF Lookup
  <2>2. /\ \A u \in Threads : u # t => call'[u] = call[u]
        /\ \E i \in Slot : /\ slots[i].port = p
                           /\ call'[t].port = p /\ call'[t].fd = slots[i].fd
    BY <1>12, LookupCall
  <2>3. TargetBound(t)'
    BY <2>1, <2>2
  <2>4. ASSUME NEW u \in Threads, call'[u].at # "idle", ~call'[u].late, u # t PROVE TargetBound(u)'
    BY <2>1, <2>2, <2>4
  <2> QED
    BY <2>1, <2>3, <2>4
<1>13. CASE UNCHANGED vars
  BY <1>13 DEF vars
<1> HIDE DEF Live, Address
<1> QED
  BY <1>1, <1>2, <1>3, <1>4, <1>5, <1>6, <1>7, <1>8, <1>9, <1>10, <1>11, <1>12, <1>13 DEF Next

\* When each descriptor gets one address, a delivery holds an open descriptor bound to
\* its port from the lookup to the end, unless that descriptor is closed meanwhile,
\* for any threads, slots and ports and with closes at any moment.
THEOREM DeliveryBound ==
    ASSUME Rebind = FALSE
    PROVE  Spec => []DeliveredToBound
<1>1. Types /\ Live /\ [Next]_vars => (Types /\ Live)'
  BY NextTypes, NextLive
<1>2. Live => DeliveredToBound
  BY DEF Live
<1> QED
  BY <1>1, <1>2, InitControl, PTL DEF Spec

\* No step silences a receiver that neither closes nor loses its port, whatever
\* descriptors are bound again and whoever sends meanwhile.
THEOREM RegistrationLasts == Spec => KeepsRegistration
<1> DEFINE Entries == DOMAIN st = Fds
<1>1. ASSUME Entries, Next PROVE RegistrationKept
  <2> SUFFICES ASSUME NEW f \in Fds, NEW p \in Ports, NEW i \in Slot,
                      slots[i] = [port |-> p, fd |-> f]
               PROVE  (\E g \in Fds : Registered(g, p)') \/ st'[f] = "drain"
    BY DEF Registered, RegistrationKept
  <2> USE <1>1 DEF Registered
  <2>1. CASE UNCHANGED slots
    BY <2>1
  <2>2. ASSUME NEW g \in Fds, Unbind(g) PROVE (\E h \in Fds : Registered(h, p)') \/ st'[f] = "drain"
    BY <2>2 DEF Unbind, Unused
  <2>3. ASSUME NEW g \in Fds, NEW q \in Ports \cup {0}, BindLo(g, q) PROVE \E h \in Fds : Registered(h, p)'
    <3>1. ASSUME NEW j \in SlotFor(q) PROVE slots[j].port \in {0, q} /\ j \in Slot
      BY <3>1 DEF SlotFor
    <3>2. CASE i \in SlotFor(q)
      <4>1. p = q /\ slots'[i] = [port |-> p, fd |-> g]
        BY <2>3, <3>1, <3>2, LoopbackAssumption DEF BindLo
      <4> QED
        BY <4>1
    <3>3. CASE i \notin SlotFor(q)
      BY <2>3, <3>3 DEF BindLo
    <3> QED
      BY <3>2, <3>3
  <2> QED
    BY <2>1, <2>2, <2>3
    DEF Next, Socket, Send, Recv, Drain, Delete, BindLoFails, BindNet, Connect, Build, Enqueue, Lookup
<1>2. Init => Entries
  BY DEF Init
<1>3. Entries /\ [Next]_vars => Entries'
  BY DEF Next, vars, entry, Socket, Send, Recv, Unbind, Drain, Delete, BindLo, BindLoFails,
     BindNet, Connect, Build, Enqueue, Lookup
<1>4. Entries /\ [Next]_vars => [RegistrationKept]_vars
  BY <1>1
<1> QED
  BY <1>2, <1>3, <1>4, PTL DEF Spec, KeepsRegistration
-----------------------------------------------------------------------------
(* The datagrams                                                           *)

Injective(s) == \A i, j \in 1 .. Len(s) : s[i] = s[j] => i = j

LEMMA EmptySet == ToSet(<<>>) = {} /\ Injective(<<>>)
  BY DEF ToSet, Injective

\* queueing adds one datagram, which stays single if it was not there
LEMMA AppendSet ==
    ASSUME NEW s \in Seq(Nat), NEW m \in Nat, Injective(s), m \notin ToSet(s)
    PROVE  /\ Append(s, m) \in Seq(Nat)
           /\ ToSet(Append(s, m)) = ToSet(s) \cup {m} /\ Injective(Append(s, m))
<1>1. /\ Append(s, m) \in Seq(Nat) /\ Len(Append(s, m)) = Len(s) + 1 /\ Len(s) \in Nat
      /\ \A i \in 1 .. Len(s) : Append(s, m)[i] = s[i]
      /\ Append(s, m)[Len(s) + 1] = m
  BY AppendProperties, LenProperties
<1>2. DOMAIN s = 1 .. Len(s) /\ DOMAIN Append(s, m) = 1 .. Len(s) + 1
  BY <1>1, LenProperties
<1>3. ToSet(Append(s, m)) = ToSet(s) \cup {m}
  BY <1>1, <1>2 DEF ToSet
<1>4. \A i \in 1 .. Len(s) : s[i] # m
  BY <1>2 DEF ToSet
<1>5. Injective(Append(s, m))
  BY <1>1, <1>4 DEF Injective
<1> QED
  BY <1>1, <1>3, <1>5

\* receiving removes the first one
LEMMA TailSet ==
    ASSUME NEW s \in Seq(Nat), s # <<>>, Injective(s)
    PROVE  /\ Tail(s) \in Seq(Nat) /\ Head(s) \in ToSet(s)
           /\ ToSet(Tail(s)) = ToSet(s) \ {Head(s)} /\ Injective(Tail(s))
<1>1. Len(s) \in Nat \ {0} /\ Head(s) = s[1] /\ s \in [1 .. Len(s) -> Nat]
  BY EmptySeq, LenProperties
<1>2. Tail(s) \in Seq(Nat) /\ Len(Tail(s)) = Len(s) - 1 /\ \A i \in 1 .. Len(s) - 1 : Tail(s)[i] = s[i + 1]
  BY HeadTailProperties
<1>3. ToSet(Tail(s)) = {s[i] : i \in 2 .. Len(s)}
  <2>1. \A i \in 1 .. Len(s) - 1 : i + 1 \in 2 .. Len(s)
    BY <1>1
  <2>2. \A i \in 2 .. Len(s) : i - 1 \in 1 .. Len(s) - 1 /\ s[i] = Tail(s)[i - 1]
    BY <1>1, <1>2
  <2>3. DOMAIN Tail(s) = 1 .. Len(s) - 1
    BY <1>2, LenProperties
  <2>4. ToSet(Tail(s)) = {Tail(s)[i] : i \in 1 .. Len(s) - 1}
    BY <2>3 DEF ToSet
  <2>5. ASSUME NEW i \in 1 .. Len(s) - 1 PROVE Tail(s)[i] \in {s[j] : j \in 2 .. Len(s)}
    BY <1>2, <2>1
  <2>6. ASSUME NEW j \in 2 .. Len(s) PROVE s[j] \in {Tail(s)[i] : i \in 1 .. Len(s) - 1}
    BY <2>2
  <2> QED
    BY <2>4, <2>5, <2>6, Zenon
<1>4. ToSet(s) = {s[i] : i \in 1 .. Len(s)}
  BY <1>1, LenProperties DEF ToSet
<1>5. {s[i] : i \in 2 .. Len(s)} = {s[i] : i \in 1 .. Len(s)} \ {s[1]}
  BY <1>1 DEF Injective
<1>6. Injective(Tail(s))
  BY <1>1, <1>2 DEF Injective
<1> QED
  BY <1>1, <1>2, <1>3, <1>4, <1>5, <1>6

Queue(f) == IF loopback[f] THEN ToSet(lo_rx[f]) ELSE {}
Sending(t) == call[t].at = "queue"

\* a descriptor has a queue exactly while it is marked loopback, without doubles
Queues ==
    /\ lo_rx \in [Fds -> Seq(Nat) \cup {NULL}]
    /\ \A f \in Fds :
        /\ IF loopback[f] THEN lo_rx[f] \in Seq(Nat) /\ Injective(lo_rx[f]) ELSE lo_rx[f] = NULL
        /\ st[f] \in {"drain", "delete"} => loopback[f]
        /\ st[f] = "free" => ~loopback[f]
        /\ st[f] = "delete" => Queue(f) \subseteq stray

\* a datagram is in one place only
Single ==
    /\ \A f, g \in Fds : f # g => Queue(f) \cap Queue(g) = {}
    /\ \A t \in Threads, f \in Fds : Sending(t) => call[t].msg \notin Queue(f)
    /\ \A t, u \in Threads : Sending(t) /\ Sending(u) /\ call[t].msg = call[u].msg => t = u

\* where a datagram on the heap can be
Placed(m) ==
    \/ m \in stray
    \/ \E f \in Fds : m \in Queue(f)
    \/ \E t \in Threads : Sending(t) /\ m = call[t].msg

\* what is on the heap is somewhere, and conversely
Accounted ==
    /\ \A m \in heap : m \in 1 .. made /\ Placed(m)
    /\ \A f \in Fds : Queue(f) \subseteq heap
    /\ \A t \in Threads : Sending(t) => call[t].msg \in heap

\* a step that moves no datagram keeps both
LEMMA SameDatagrams ==
    ASSUME Single, Accounted, UNCHANGED <<heap, stray, made>>,
           \A f \in Fds : Queue(f)' = Queue(f),
           \A t \in Threads : Sending(t)' <=> Sending(t),
           \A t \in Threads : Sending(t) => call'[t].msg = call[t].msg
    PROVE  Single' /\ Accounted'
<1>1. Single'
  BY DEF Single
<1>2. \A m \in heap' : m \in 1 .. made' /\ Placed(m)'
  BY DEF Accounted, Placed
<1>3. \A f \in Fds : Queue(f)' \subseteq heap'
  BY DEF Accounted
<1>4. \A t \in Threads : Sending(t)' => call'[t].msg \in heap'
  BY DEF Accounted
<1> QED
  BY <1>1, <1>2, <1>3, <1>4 DEF Accounted

IndInv == Types /\ Queues /\ Single /\ Accounted

LEMMA InitIndInv == Init => IndInv
  BY InitControl DEF Init, IndInv, Queues, Single, Accounted, Placed, Queue, Sending, NoCall

\* Every step keeps every datagram on the heap in exactly one place.
LEMMA NextIndInv ==
    ASSUME IndInv, [Next]_vars
    PROVE  IndInv'
<1>0. Types /\ Queues /\ Single /\ Accounted
  BY DEF IndInv
<1> USE <1>0, LoopbackAssumption
<1> DEFINE Rest == Queues' /\ Single' /\ Accounted'
<1>1. ASSUME UNCHANGED <<st, loopback, lo_rx, call, heap, stray, made>> PROVE Rest
  BY <1>1 DEF Queues, Single, Accounted, Placed, Queue, Sending
<1>2. ASSUME NEW f \in Fds, Socket(f) PROVE Rest
  <2>1. \A g \in Fds : Queue(g)' = Queue(g)
    BY <1>2 DEF Socket, Queue, Queues, Types, TypeOK
  <2>2. Queues'
    BY <1>2, <2>1 DEF Socket, Queues, Types, TypeOK
  <2>3. UNCHANGED <<call, heap, stray, made>> /\ \A t \in Threads : Sending(t)' <=> Sending(t)
    BY <1>2 DEF Socket, Sending
  <2> QED
    BY <2>1, <2>2, <2>3, SameDatagrams
<1>3. ASSUME NEW f \in Fds, Recv(f) PROVE Rest
  <2>1. Injective(lo_rx[f]) /\ lo_rx[f] \in Seq(Nat) /\ lo_rx[f] # <<>> /\ loopback[f] /\ st[f] = "open"
    BY <1>3 DEF Recv, Queues
  <2>2. Tail(lo_rx[f]) \in Seq(Nat) /\ Injective(Tail(lo_rx[f])) /\ Head(lo_rx[f]) \in Queue(f)
    BY <2>1, TailSet DEF Queue
  <2>3. \A g \in Fds : Queue(g)' = IF g = f THEN Queue(f) \ {Head(lo_rx[f])} ELSE Queue(g)
    BY <1>3, <2>1, TailSet DEF Recv, Queue, Queues
  <2>4. Queues'
    BY <1>3, <2>1, <2>2, <2>3 DEF Recv, Queues, Types, TypeOK
  <2>5. Single'
    BY <1>3, <2>3 DEF Recv, Single, Sending
  <2>6. Accounted'
    <3>1. PICK x : x = Head(lo_rx[f])
      OBVIOUS
    <3>2. heap' = heap \ {x} /\ UNCHANGED <<stray, made, call>> /\ \A t \in Threads : Sending(t)' <=> Sending(t)
      BY <1>3, <3>1 DEF Recv, Sending
    <3>3. /\ \A g \in Fds : x \notin Queue(g)' /\ Queue(g) \ {x} = Queue(g)'
          /\ \A t \in Threads : Sending(t) => call[t].msg # x
      BY <2>2, <2>3, <3>1 DEF Single
    <3> QED
      BY <3>2, <3>3 DEF Accounted, Placed
  <2> QED
    BY <2>4, <2>5, <2>6
<1>4. ASSUME NEW f \in Fds, Unbind(f) PROVE Rest
  <2>1. /\ UNCHANGED <<loopback, lo_rx, heap, stray, made>> /\ Overtake(f)
        /\ \A g \in Fds : Queue(g)' = Queue(g)
    BY <1>4 DEF Unbind, Queue
  <2>2. Queues'
    BY <1>4, <2>1 DEF Unbind, Queues, Types, TypeOK
  <2>3. \A t \in Threads : call'[t].at = call[t].at /\ call'[t].msg = call[t].msg
    BY <2>1, OvertakeCall
  <2>4. \A t \in Threads : Sending(t)' <=> Sending(t)
    BY <2>3 DEF Sending
  <2> QED
    BY <2>1, <2>2, <2>3, <2>4, SameDatagrams
<1>5. ASSUME NEW f \in Fds, Drain(f) PROVE Rest
  <2>1. \A g \in Fds : Queue(g)' = IF g = f THEN {} ELSE Queue(g)
    <3>1. ASSUME NEW g \in Fds, g # f PROVE Queue(g)' = Queue(g)
      BY <1>5, <3>1 DEF Drain, Queue, Queues
    <3>2. Queue(f)' = {}
      BY <1>5, EmptySet DEF Drain, Queue, Queues
    <3> QED
      BY <3>1, <3>2
  <2>2. heap' = heap \ Queue(f) /\ UNCHANGED <<stray, made, call>>
    BY <1>5 DEF Drain, Queue, Queues
  <2>3. Queues'
    BY <1>5, <2>1, EmptySet DEF Drain, Queues, Types, TypeOK
  <2>4. \A t \in Threads : Sending(t)' <=> Sending(t)
    BY <2>2 DEF Sending
  <2>5. Single'
    BY <2>1, <2>2, <2>4 DEF Single
  <2>6. Accounted'
    <3>1. ASSUME NEW m \in heap' PROVE m \in 1 .. made' /\ Placed(m)'
      BY <2>1, <2>2, <2>4 DEF Accounted, Placed
    <3>2. \A g \in Fds : Queue(g)' \subseteq heap'
      BY <2>1, <2>2 DEF Accounted, Single
    <3>3. \A t \in Threads : Sending(t)' => call'[t].msg \in heap'
      BY <2>2, <2>4 DEF Accounted, Single
    <3> QED
      BY <3>1, <3>2, <3>3 DEF Accounted
  <2> QED
    BY <2>3, <2>5, <2>6
<1>6. ASSUME NEW f \in Fds, Delete(f) PROVE Rest
  <2>1. \A g \in Fds : Queue(g)' = IF g = f THEN {} ELSE Queue(g)
    <3>1. ASSUME NEW g \in Fds, g # f PROVE Queue(g)' = Queue(g)
      BY <1>6, <3>1 DEF Delete, Queue, Queues, Types, TypeOK
    <3>2. Queue(f)' = {}
      BY <1>6 DEF Delete, Queue, Types, TypeOK
    <3> QED
      BY <3>1, <3>2
  <2>2. Queue(f) \subseteq stray
    BY <1>6 DEF Delete, Queue, Queues
  <2>3. UNCHANGED <<call, heap, stray, made>> /\ \A t \in Threads : Sending(t)' <=> Sending(t)
    BY <1>6 DEF Delete, Sending
  <2>4. Queues'
    BY <1>6, <2>1 DEF Delete, Queues, Types, TypeOK
  <2>5. Single'
    BY <2>1, <2>3 DEF Single
  <2>6. Accounted'
    <3>1. ASSUME NEW m \in heap' PROVE m \in 1 .. made' /\ Placed(m)'
      BY <2>1, <2>2, <2>3 DEF Accounted, Placed
    <3>2. \A g \in Fds : Queue(g)' \subseteq heap'
      BY <2>1, <2>3 DEF Accounted
    <3>3. \A t \in Threads : Sending(t)' => call'[t].msg \in heap'
      BY <2>3 DEF Accounted
    <3> QED
      BY <3>1, <3>2, <3>3 DEF Accounted
  <2> QED
    BY <2>4, <2>5, <2>6
<1>7. ASSUME NEW f \in Fds, NEW p \in Ports \cup {0}, BindLo(f, p) PROVE Rest
  <2>1. \A g \in Fds : Queue(g)' = Queue(g)
    <3>1. ASSUME NEW g \in Fds, g # f PROVE Queue(g)' = Queue(g)
      BY <1>7, <3>1 DEF BindLo, Queue, Queues, Types, TypeOK
    <3>2. ASSUME loopback[f] PROVE Queue(f)' = Queue(f)
      BY <1>7, <3>2 DEF BindLo, Queue, Queues, Types, TypeOK
    <3>3. ASSUME ~loopback[f] PROVE Queue(f)' = Queue(f)
      BY <1>7, <3>3, EmptySet DEF BindLo, Queue, Queues, Types, TypeOK
    <3> QED
      BY <3>1, <3>2, <3>3
  <2>2. Queues'
    BY <1>7, <2>1 DEF BindLo, Address, Queues, Types, TypeOK, Injective
  <2>3. Single' /\ Accounted'
    <3>1. UNCHANGED <<call, heap, stray, made>>
      BY <1>7 DEF BindLo
    <3>2. \A t \in Threads : Sending(t)' <=> Sending(t)
      BY <3>1 DEF Sending
    <3> QED
      BY <2>1, <3>1, <3>2, SameDatagrams
  <2> QED
    BY <2>2, <2>3
<1>8. ASSUME NEW t \in Threads, Build(t) PROVE Rest
  <2>1. \A g \in Fds : Queue(g)' = Queue(g)
    BY <1>8 DEF Build, Queue, entry
  <2>2. Queues' /\ UNCHANGED stray
    BY <1>8, <2>1 DEF Build, entry, Queues
  <2>3. CASE call' = [call EXCEPT ![t] = NoCall] /\ UNCHANGED <<heap, made>>
    <3>1. \A u \in Threads : Sending(u)' <=> Sending(u)
      BY <1>8, <2>3 DEF Build, Sending, NoCall, Types, TypeOK
    <3>2. \A u \in Threads : Sending(u) => call'[u].msg = call[u].msg
      BY <1>8, <2>3 DEF Build, Sending, NoCall, Types, TypeOK
    <3> QED
      BY <2>1, <2>2, <2>3, <3>1, <3>2, SameDatagrams
  <2>4. CASE /\ made' = made + 1 /\ heap' = heap \cup {made'}
             /\ call' = [call EXCEPT ![t] = [@ EXCEPT !.at = "queue", !.msg = made']]
    <3>1. made' \notin heap /\ made \in Nat
      BY <2>4 DEF Accounted, Types, TypeOK
    <3>2. call[t].at = "found" /\ call \in [Threads -> Calls]
      BY <1>8 DEF Build, Types, TypeOK
    <3>3. /\ ~Sending(t) /\ Sending(t)' /\ call'[t].msg = made'
          /\ \A u \in Threads : u # t => call'[u] = call[u]
      BY <2>4, <3>2 DEF Sending, Calls
    <3>4. \A u \in Threads : u # t => (Sending(u)' <=> Sending(u))
      BY <3>3 DEF Sending
    <3>5. Single'
      BY <2>1, <3>1, <3>3, <3>4 DEF Single, Accounted
    <3>6. Accounted'
      <4>1. \A f \in Fds : Queue(f)' \subseteq heap'
        BY <2>1, <2>4 DEF Accounted
      <4>2. \A u \in Threads : Sending(u)' => call'[u].msg \in heap'
        BY <2>4, <3>3, <3>4 DEF Accounted
      <4>3. ASSUME NEW m \in heap' PROVE m \in 1 .. made' /\ Placed(m)'
        BY <2>1, <2>2, <2>4, <3>1, <3>3, <3>4 DEF Accounted, Placed
      <4> QED
        BY <4>1, <4>2, <4>3 DEF Accounted
    <3> QED
      BY <2>2, <3>5, <3>6
  <2> QED
    BY <1>8, <2>3, <2>4 DEF Build
<1>9. ASSUME NEW t \in Threads, Enqueue(t) PROVE Rest
  <2>1. PICK f \in Fds, m \in Nat : f = call[t].fd /\ m = call[t].msg /\ Sending(t) /\ loopback[f]
    <3>1. Sending(t) /\ call[t].at # "idle" /\ lo_rx[call[t].fd] # NULL
      BY <1>9 DEF Enqueue, Sending
    <3>2. call[t].msg \in Nat
      BY DEF Types, TypeOK, Calls
    <3>3. call[t].fd \in Fds
      BY <3>1 DEF Types, Targets
    <3> QED
      BY <3>1, <3>2, <3>3 DEF Queues
  <2>2. lo_rx[f] \in Seq(Nat) /\ Injective(lo_rx[f]) /\ m \notin ToSet(lo_rx[f])
    BY <2>1 DEF Queues, Single, Queue
  <2>3. call' = [call EXCEPT ![t] = NoCall] /\ UNCHANGED <<st, loopback, made>>
    BY <1>9 DEF Enqueue
  <2>4. \A u \in Threads : Sending(u)' <=> Sending(u) /\ u # t
    BY <2>3 DEF Sending, NoCall, Types, TypeOK
  <2>5. \A u \in Threads : u # t => call'[u] = call[u]
    BY <2>3
  <2>a. m \in heap /\ \A g \in Fds : Queue(g) \subseteq heap
    BY <2>1 DEF Accounted
  <2>b. \A n \in heap : n \in 1 .. made
    BY DEF Accounted
  <2>6. CASE /\ lo_rx' = [lo_rx EXCEPT ![f] = Append(@, m)] /\ UNCHANGED heap
             /\ stray' = IF st[f] = "delete" THEN stray \cup {m} ELSE stray
    <3>1. \A g \in Fds : Queue(g)' = IF g = f THEN Queue(f) \cup {m} ELSE Queue(g)
      <4>1. lo_rx'[f] = Append(lo_rx[f], m) /\ loopback'[f]
        BY <2>1, <2>3, <2>6 DEF Queues
      <4>2. ToSet(Append(lo_rx[f], m)) = ToSet(lo_rx[f]) \cup {m}
        BY <2>2, AppendSet
      <4>3. Queue(f)' = Queue(f) \cup {m}
        BY <4>1, <4>2, <2>1 DEF Queue
      <4>4. \A g \in Fds : g # f => Queue(g)' = Queue(g)
        BY <2>3, <2>6 DEF Queue, Queues
      <4> QED
        BY <4>3, <4>4
    <3>2. Queues'
      BY <2>1, <2>2, <2>3, <2>6, <3>1, AppendSet DEF Queues
    <3>3. Single' /\ Accounted'
      <4>1. Single'
        BY <2>1, <2>4, <2>5, <3>1 DEF Single
      <4>2. \A g \in Fds : Queue(g)' \subseteq heap'
        BY <2>a, <2>6, <3>1
      <4>3. \A u \in Threads : Sending(u)' => call'[u].msg \in heap'
        BY <2>4, <2>5, <2>6 DEF Accounted
      <4>4. ASSUME NEW n \in heap' PROVE n \in 1 .. made' /\ Placed(n)'
        <5>1. n \in heap /\ n \in 1 .. made' /\ stray \subseteq stray'
          BY <2>b, <2>3, <2>6
        <5>2. ASSUME NEW g \in Fds, n \in Queue(g) PROVE n \in Queue(g)'
          <6>1. CASE g = f
            BY <3>1, <5>2, <6>1
          <6>2. CASE g # f
            BY <3>1, <5>2, <6>2
          <6> QED
            BY <6>1, <6>2
        <5>3. ASSUME NEW u \in Threads, Sending(u), n = call[u].msg
              PROVE  \/ \E g \in Fds : n \in Queue(g)'
                     \/ \E v \in Threads : Sending(v)' /\ n = call'[v].msg
          <6>1. CASE u = t
            BY <2>1, <3>1, <5>3, <6>1
          <6>2. CASE u # t
            BY <2>4, <2>5, <5>3, <6>2
          <6> QED
            BY <6>1, <6>2
        <5> QED
          BY <5>1, <5>2, <5>3 DEF Accounted, Placed
      <4> QED
        BY <4>1, <4>2, <4>3, <4>4 DEF Accounted
    <3> QED
      BY <3>2, <3>3
  <2>7. CASE heap' = heap \ {m} /\ UNCHANGED <<lo_rx, stray>>
    <3>1. \A g \in Fds : Queue(g)' = Queue(g)
      BY <2>3, <2>7 DEF Queue
    <3>2. Queues'
      BY <2>3, <2>7, <3>1 DEF Queues
    <3>3. Single' /\ Accounted'
      <4>1. Single'
        BY <2>4, <2>5, <3>1 DEF Single
      <4>2. \A g \in Fds : Queue(g)' \subseteq heap'
        BY <2>1, <2>7, <3>1 DEF Accounted, Single
      <4>3. \A u \in Threads : Sending(u)' => call'[u].msg \in heap'
        BY <2>1, <2>4, <2>5, <2>7 DEF Accounted, Single
      <4>4. ASSUME NEW n \in heap' PROVE n \in 1 .. made' /\ Placed(n)'
        <5>1. n \in heap /\ n # m /\ n \in 1 .. made'
          BY <2>b, <2>3, <2>7
        <5>2. CASE n \in stray \/ \E g \in Fds : n \in Queue(g)
          BY <2>7, <3>1, <5>1, <5>2 DEF Placed
        <5>3. ASSUME NEW u \in Threads, Sending(u), n = call[u].msg
              PROVE  Sending(u)' /\ n = call'[u].msg
          BY <2>1, <2>4, <2>5, <5>1, <5>3
        <5> QED
          BY <5>1, <5>2, <5>3 DEF Accounted, Placed
      <4> QED
        BY <4>1, <4>2, <4>3, <4>4 DEF Accounted
    <3> QED
      BY <3>2, <3>3
  <2> QED
    BY <1>9, <2>1, <2>6, <2>7 DEF Enqueue
<1>10. ASSUME NEW t \in Threads, NEW p \in Ports, Lookup(t, p) PROVE Rest
  <2>1. UNCHANGED <<st, loopback, lo_rx, heap, stray, made>> /\ \A g \in Fds : Queue(g)' = Queue(g)
    BY <1>10 DEF Lookup, entry, Queue
  <2>2. \A u \in Threads : Sending(u)' <=> Sending(u)
    BY <1>10 DEF Lookup, Sending, NoCall, Types, TypeOK
  <2>3. \A u \in Threads : Sending(u) => call'[u].msg = call[u].msg
    BY <1>10 DEF Lookup, Sending, Types, TypeOK
  <2>4. Queues'
    BY <2>1 DEF Queues
  <2>5. Single' /\ Accounted'
    BY <2>1, <2>2, <2>3, SameDatagrams
  <2> QED
    BY <2>4, <2>5
<1>11. ASSUME UNCHANGED vars PROVE Rest
  BY <1>1, <1>11 DEF vars, entry
<1>12. ASSUME NEW f \in Fds, Send(f) PROVE Rest
  BY <1>1, <1>12 DEF Send, entry
<1>13. ASSUME NEW f \in Fds, NEW p \in Ports \cup {0}, BindNet(f, p) \/ BindLoFails(f, p) PROVE Rest
  BY <1>1, <1>13 DEF BindNet, BindLoFails
<1>14. ASSUME NEW f \in Fds, NEW p \in Ports \cup {0}, NEW a \in {"net", "lo"}, Connect(f, a, p) PROVE Rest
  BY <1>1, <1>14 DEF Connect
<1> HIDE DEF Rest
<1>15. Rest
  BY <1>2, <1>3, <1>4, <1>5, <1>6, <1>7, <1>8, <1>9, <1>10, <1>11, <1>12, <1>13, <1>14 DEF Next
<1>16. Types'
  BY NextTypes DEF IndInv
<1> QED
  BY <1>15, <1>16 DEF IndInv, Rest

\* Whatever descriptors are bound again and however closes overlap deliveries: what
\* lo_deliver allocates is in the queue of a descriptor or in a thread's hands until it
\* is received, refused by a full queue, or drained by close(), and is allocated while
\* it is there; only a datagram queued after the drain can leak.
THEOREM NothingLeaks == Spec => []NoLeak
<1>1. IndInv /\ [Next]_vars => IndInv'
  BY NextIndInv
<1>2. IndInv => NoLeak
  <2> SUFFICES ASSUME IndInv PROVE NoLeak
    OBVIOUS
  <2>1. \A f \in Fds : lo_rx[f] # NULL <=> loopback[f]
    BY LoopbackAssumption DEF IndInv, Queues
  <2>2. Queued = UNION {Queue(f) : f \in Fds}
    BY <2>1 DEF Queue, Queued
  <2>3. \A m : m \in InHand <=> \E t \in Threads : Sending(t) /\ m = call[t].msg
    BY DEF Sending, InHand
  <2>4. ASSUME NEW m \in heap PROVE m \in Queued \cup InHand \cup stray
    BY <2>2, <2>3, Zenon DEF IndInv, Accounted, Placed
  <2>5. ASSUME NEW m \in Queued \cup InHand PROVE m \in heap
    <3>1. CASE m \in Queued
      BY <2>2, <3>1, Zenon DEF IndInv, Accounted
    <3>2. CASE m \in InHand
      BY <2>3, <3>2, Zenon DEF IndInv, Accounted
    <3> QED
      BY <2>5, <3>1, <3>2
  <2> QED
    BY <2>4, <2>5, Zenon DEF NoLeak
<1> QED
  BY <1>1, <1>2, InitIndInv, PTL DEF Spec

\* a descriptor whose smoltcp socket has a port got its one address from bind()
BoundToNet ==
    /\ DOMAIN st = Fds /\ DOMAIN ip = Fds /\ DOMAIN port = Fds /\ DOMAIN bound = Fds
    /\ \A f \in Fds : st[f] = "open" /\ bound[f] => ip[f] = "net" /\ port[f] # 0

\* Every step keeps the addresses of bound sockets, and none sends to the wire.
LEMMA NextOffWire ==
    ASSUME Rebind = FALSE, BoundToNet, NeverOnWire, [Next]_vars
    PROVE  (BoundToNet /\ NeverOnWire)'
<1> USE LoopbackAssumption DEF BoundToNet, NeverOnWire, Address, entry
<1>1. ASSUME NEW f \in Fds, Socket(f) PROVE (BoundToNet /\ NeverOnWire)'
  BY <1>1 DEF Socket
<1>2. ASSUME NEW f \in Fds, Send(f) PROVE (BoundToNet /\ NeverOnWire)'
  BY <1>2 DEF Send
<1>3. ASSUME NEW f \in Fds, Recv(f) PROVE (BoundToNet /\ NeverOnWire)'
  BY <1>3 DEF Recv
<1>4. ASSUME NEW f \in Fds, Unbind(f) \/ Drain(f) \/ Delete(f) PROVE (BoundToNet /\ NeverOnWire)'
  BY <1>4 DEF Unbind, Drain, Delete
<1>5. ASSUME NEW f \in Fds, NEW p \in Ports \cup {0}, BindLo(f, p) PROVE (BoundToNet /\ NeverOnWire)'
  BY <1>5 DEF BindLo
<1>6. ASSUME NEW f \in Fds, NEW p \in Ports \cup {0}, BindNet(f, p) \/ BindLoFails(f, p)
      PROVE  (BoundToNet /\ NeverOnWire)'
  BY <1>6 DEF BindNet, BindLoFails
<1>7. ASSUME NEW f \in Fds, NEW p \in Ports \cup {0}, NEW a \in {"net", "lo"}, Connect(f, a, p)
      PROVE  (BoundToNet /\ NeverOnWire)'
  BY <1>7 DEF Connect
<1>8. ASSUME NEW t \in Threads, Build(t) \/ Enqueue(t) \/ \E p \in Ports : Lookup(t, p)
      PROVE  (BoundToNet /\ NeverOnWire)'
  <2>1. UNCHANGED <<st, ip, port, bound, wire>>
    BY <1>8 DEF Build, Enqueue, Lookup
  <2> QED
    BY <2>1
<1>9. CASE UNCHANGED vars
  BY <1>9 DEF vars
<1> HIDE DEF BoundToNet, NeverOnWire, Address
<1> QED
  BY <1>1, <1>2, <1>3, <1>4, <1>5, <1>6, <1>7, <1>8, <1>9 DEF Next

\* README.md:162, for any threads, descriptors and ports: when each descriptor gets one
\* address, no datagram for 127.0.0.0/8 is given to smoltcp.  send() to a connected
\* 127.x peer is refused, because its smoltcp socket has no port.
THEOREM StaysInRam ==
    ASSUME Rebind = FALSE
    PROVE  Spec => []NeverOnWire
<1>1. Init => BoundToNet /\ NeverOnWire
  BY DEF Init, BoundToNet, NeverOnWire
<1>2. BoundToNet /\ NeverOnWire /\ [Next]_vars => (BoundToNet /\ NeverOnWire)'
  BY NextOffWire
<1> QED
  BY <1>1, <1>2, PTL DEF Spec
=============================================================================
