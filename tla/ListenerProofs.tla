--------------------------- MODULE ListenerProofs ---------------------------
(***************************************************************************)
(* For a pool of any length and one accepting thread: the listener         *)
(* implements Ownership, accepts complete handshakes only and each         *)
(* connection once.                                                        *)
(***************************************************************************)
EXTENDS Listener, TLAPS

OneThread == \A t, u \in Threads : t = u

TypeOK ==
    /\ st \in [Socks -> {"gone", "closed", "listen", "synrcvd", "est", "closewait", "reset"}]
    /\ pool \in [Slots -> Socks \cup {None}]
    /\ pool_next \in Slots
    /\ armed \in 0 .. PoolLen
    /\ listened \in {"no", "ok", "error"}
    /\ sock \in [Fds -> Socks \cup {None, FREE}]
    /\ pc \in [Threads -> {"idle", "scan", "alloc", "open", "listen"}]
    /\ i \in [Threads -> 0 .. PoolLen]
    /\ cand \in [Threads -> Socks \cup {None}]
    /\ newfd \in [Threads -> Fds \cup {None}]

\* listen() fills the slots in order, up to the last or to the one that fails
Armed ==
    /\ \A k \in Slots : k >= armed => pool[k] = None
    /\ listened = "no" => armed < PoolLen

\* what accept() knows at each of its points
InAccept ==
    \A t \in Threads :
        /\ pc[t] # "idle" => listened # "no"
        /\ pc[t] \in {"alloc", "open", "listen"} => i[t] \in Slots /\ pool[i[t]] \in Socks
        /\ pc[t] \in {"alloc", "open"} => cand[t] = pool[i[t]]
        /\ pc[t] = "open" => newfd[t] \in Fds /\ sock[newfd[t]] = None

\* no socket is in two places
Distinct ==
    /\ \A k, l \in Slots : pool[k] = pool[l] /\ pool[k] \in Socks => k = l
    /\ \A k \in Slots, f \in Fds : pool[k] \in Socks => pool[k] # sock[f]

IndInv == TypeOK /\ Armed /\ InAccept /\ Distinct /\ HandshakeComplete

\* A remainder is a slot.
LEMMA ModSlot ==
    ASSUME NEW n \in Nat
    PROVE  n % PoolLen \in Slots
  BY ListenerAssumption, SMT DEF Slots

LEMMA InitInv == Init => IndInv
  BY ListenerAssumption DEF Init, IndInv, TypeOK, Armed, InAccept, Distinct, HandshakeComplete, Slots

\* Every step of listen(), accept(), close() and the peers keeps the invariant.
LEMMA NextInv ==
    ASSUME OneThread, IndInv, [Next]_vars
    PROVE  IndInv'
<1> USE ListenerAssumption
    DEF IndInv, TypeOK, Armed, InAccept, Distinct, HandshakeComplete, OneThread, Goto, Unused, Holders,
        acceptVars, listenVars
<1>0. ASSUME NEW t \in Threads PROVE Idx(t) \in Slots
  <2>1. pool_next + i[t] \in Nat
    BY DEF Slots
  <2> QED
    BY <2>1, ModSlot DEF Idx
<1>1. ASSUME NEW x \in {"listen", "closed"}, NEW r \in {"no", "ok", "error"}, ArmSlot(x, r),
             r = "no" => armed + 1 < PoolLen
      PROVE  IndInv'
  <2>0. /\ armed \in Slots /\ armed' = armed + 1 /\ listened' = r
        /\ UNCHANGED <<pool_next, sock, acceptVars>>
    BY <1>1 DEF ArmSlot, Slots
  <2>1. PICK s \in Socks : /\ Unused(s) /\ pool' = [pool EXCEPT ![armed] = s]
                           /\ st' = [st EXCEPT ![s] = x]
    BY <1>1 DEF ArmSlot
  <2>2. \A t \in Threads : pc[t] = "idle"
    BY <1>1 DEF ArmSlot
  <2>3. TypeOK' /\ InAccept' /\ HandshakeComplete'
    BY <1>1, <2>0, <2>1, <2>2 DEF Slots
  <2>4. Armed'
    BY <1>1, <2>0, <2>1 DEF Slots
  <2>5. Distinct'
    BY <2>0, <2>1
  <2> QED
    BY <2>3, <2>4, <2>5
<1>a. CASE Arm
  <2>1. PICK r : r = IF armed + 1 = PoolLen THEN "ok" ELSE "no"
    OBVIOUS
  <2>2. ArmSlot("listen", r) /\ r \in {"no", "ok", "error"} /\ (r = "no" => armed + 1 < PoolLen)
    <3>1. listened = "no"
      BY <1>a DEF Arm, ArmSlot
    <3> QED
      BY <1>a, <2>1, <3>1 DEF Arm
  <2> QED
    BY <1>1, <2>2
<1>b. CASE ListenFails
  BY <1>1, <1>b DEF ListenFails
<1>c. CASE OpenFails
  BY <1>c DEF OpenFails
<1>2. CASE CloseListen
  BY <1>2 DEF CloseListen, Slots
<1>3. ASSUME NEW t \in Threads, AcceptCall(t) PROVE IndInv'
  BY <1>3 DEF AcceptCall, Slots
<1>4. ASSUME NEW t \in Threads, Found(t) PROVE IndInv'
  BY <1>0, <1>4 DEF Found, is_connected, Slots
<1>5. ASSUME NEW t \in Threads, NotThisSlot(t) PROVE IndInv'
  BY <1>5 DEF NotThisSlot
<1>6. ASSUME NEW t \in Threads, NoneFound(t) PROVE IndInv'
  BY <1>6 DEF NoneFound, Return
<1>7. ASSUME NEW t \in Threads, Alloc(t) PROVE IndInv'
  BY <1>7 DEF Alloc
<1>8. ASSUME NEW t \in Threads, NoFd(t) PROVE IndInv'
  BY <1>8 DEF NoFd, Return
<1>9. ASSUME NEW t \in Threads, Replenish(t) PROVE IndInv'
  <2>1. PICK s \in Socks : /\ Unused(s) /\ pool' = [pool EXCEPT ![i[t]] = s]
                           /\ st' = [st EXCEPT ![s] = "closed"]
    BY <1>9 DEF Replenish
  <2>2. /\ i[t] \in Slots /\ cand[t] = pool[i[t]] /\ cand[t] \in Socks
        /\ newfd[t] \in Fds /\ sock[newfd[t]] = None
    BY <1>9 DEF Replenish, Slots
  <2>3. sock' = [sock EXCEPT ![newfd[t]] = cand[t]] /\ pc' = [pc EXCEPT ![t] = "listen"]
        /\ UNCHANGED <<pool_next, armed, listened, i, cand, newfd>>
    BY <1>9 DEF Replenish
  <2>4. TypeOK' /\ Armed'
    BY <2>1, <2>2, <2>3
  <2>5. InAccept' /\ HandshakeComplete'
    BY <2>1, <2>2, <2>3, <1>9 DEF Replenish
  <2>6. Distinct'
    BY <2>1, <2>2, <2>3
  <2> QED
    BY <2>4, <2>5, <2>6
<1>d. ASSUME NEW t \in Threads, NotReplenished(t) PROVE IndInv'
  <2>1. /\ i[t] \in Slots /\ cand[t] = pool[i[t]] /\ cand[t] \in Socks
        /\ newfd[t] \in Fds /\ sock[newfd[t]] = None
    BY <1>d DEF NotReplenished
  <2>2. i[t] + 1 \in Nat
    BY <2>1 DEF Slots
  <2>3. AfterSlot(i[t]) \in Slots
    BY <2>2, ModSlot DEF AfterSlot
  <2>4. /\ sock' = [sock EXCEPT ![newfd[t]] = cand[t]] /\ pool' = [pool EXCEPT ![i[t]] = None]
        /\ UNCHANGED <<st, armed, listened>>
    BY <1>d DEF NotReplenished
  <2>5. TypeOK' /\ Armed'
    BY <1>d, <2>1, <2>3, <2>4 DEF NotReplenished, Return
  <2>6. \A u \in Threads : pc'[u] = "idle"
    BY <1>d DEF NotReplenished, Return
  <2>7. Distinct'
    BY <2>1, <2>4
  <2> QED
    BY <2>5, <2>6, <2>7
<1>10. ASSUME NEW t \in Threads, Listen(t) PROVE IndInv'
  <2>1. i[t] \in Slots
    BY <1>10 DEF Listen
  <2>2. i[t] + 1 \in Nat
    BY <2>1 DEF Slots
  <2>3. AfterSlot(i[t]) \in Slots
    BY <2>2, ModSlot DEF AfterSlot
  <2>4. pool[i[t]] \in Socks
    BY <1>10, <2>1 DEF Listen, Slots
  <2>5. /\ st' \in [Socks -> {"gone", "closed", "listen", "synrcvd", "est", "closewait", "reset"}]
        /\ pc' = [pc EXCEPT ![t] = "idle"]
    BY <1>10, <2>4 DEF Listen, Return
  <2>6. \A u \in Threads : pc'[u] = "idle"
    BY <2>5
  <2> QED
    BY <1>10, <2>3, <2>5, <2>6 DEF Listen, Return
<1>11. ASSUME NEW f \in Fds, CloseFd(f) PROVE IndInv'
  BY <1>11 DEF CloseFd
<1>12. ASSUME NEW s \in Socks, Segment(s) PROVE IndInv'
  BY <1>12 DEF Segment
<1>13. CASE UNCHANGED vars
  BY <1>13 DEF vars
<1> QED
  BY <1>a, <1>b, <1>c, <1>d, <1>2, <1>3, <1>4, <1>5, <1>6, <1>7, <1>8, <1>9, <1>10, <1>11, <1>12,
     <1>13 DEF Next, Accept

\* Every step is an abstract opening, move or closing, or changes no owner.
LEMMA StepRefines ==
    ASSUME OneThread, IndInv, [Next]_vars
    PROVE  [O!Next]_(O!vars)
<1> USE ListenerAssumption
    DEF IndInv, TypeOK, Goto, acceptVars, listenVars, owned, liveSocks, O!vars
<1>0. Slots \cap Fds = {}
  BY DEF Slots
<1>1. ASSUME NEW x \in {"listen", "closed"}, NEW r, ArmSlot(x, r) PROVE O!Next
  <2>0. armed \in Slots /\ UNCHANGED sock
    BY <1>1 DEF ArmSlot, Armed, Slots
  <2>1. PICK s \in Socks : /\ Unused(s)
                           /\ pool' = [pool EXCEPT ![armed] = s] /\ st' = [st EXCEPT ![s] = x]
    BY <1>1 DEF ArmSlot
  <2>2. pool[armed] = None
    BY <2>0 DEF Armed, Slots
  <2>3. s \notin liveSocks /\ liveSocks' = liveSocks \cup {s}
    BY <1>1, <2>1 DEF Unused
  <2>4. owned' = [owned EXCEPT ![armed] = s]
    BY <1>0, <2>0, <2>1
  <2>5. PICK k \in Slots : k = armed
    BY <2>0
  <2>6. O!Open(k)
    BY <1>0, <2>2, <2>3, <2>4, <2>5 DEF O!Open
  <2> QED
    BY <2>6 DEF O!Next
<1>a. CASE Arm \/ ListenFails
  BY <1>1, <1>a DEF Arm, ListenFails
<1>b. CASE OpenFails
  BY <1>b DEF OpenFails
<1>2. CASE CloseListen
  <2>1. O!Close(Slots)
    BY <1>0, <1>2 DEF CloseListen, O!Close
  <2> QED
    BY <2>1 DEF O!Next
<1>3. ASSUME NEW t \in Threads, AcceptCall(t) \/ Found(t) \/ NotThisSlot(t) \/ NoneFound(t) \/ NoFd(t)
      PROVE  UNCHANGED O!vars
  BY <1>3 DEF AcceptCall, Found, NotThisSlot, NoneFound, NoFd
<1>4. ASSUME NEW t \in Threads, Alloc(t) PROVE UNCHANGED O!vars
  BY <1>0, <1>4 DEF Alloc
<1>5. ASSUME NEW t \in Threads, Replenish(t) PROVE O!Next
  <2>1. PICK s \in Socks : /\ Unused(s) /\ pool' = [pool EXCEPT ![i[t]] = s]
                           /\ st' = [st EXCEPT ![s] = "closed"]
    BY <1>5 DEF Replenish
  <2>2. /\ i[t] \in Slots /\ cand[t] = pool[i[t]] /\ cand[t] \in Socks
        /\ newfd[t] \in Fds /\ sock[newfd[t]] = None
    BY <1>5 DEF Replenish, InAccept
  <2>3. sock' = [sock EXCEPT ![newfd[t]] = cand[t]]
    BY <1>5 DEF Replenish
  <2>4. s \notin liveSocks /\ liveSocks' = liveSocks \cup ({s} \ {None})
    BY <2>1 DEF Unused
  <2>5. owned' = [owned EXCEPT ![newfd[t]] = owned[i[t]], ![i[t]] = s]
    BY <1>0, <2>1, <2>2, <2>3
  <2>6. PICK o \in Slots, p \in Fds : o = i[t] /\ p = newfd[t]
    BY <2>2
  <2>7. O!Move(o, p)
    BY <1>0, <2>2, <2>4, <2>5, <2>6 DEF O!Move
  <2> QED
    BY <2>7 DEF O!Next
<1>c. ASSUME NEW t \in Threads, NotReplenished(t) PROVE O!Next
  <2>1. /\ i[t] \in Slots /\ cand[t] = pool[i[t]] /\ cand[t] \in Socks
        /\ newfd[t] \in Fds /\ sock[newfd[t]] = None
    BY <1>c DEF NotReplenished, InAccept
  <2>2. /\ sock' = [sock EXCEPT ![newfd[t]] = cand[t]] /\ pool' = [pool EXCEPT ![i[t]] = None]
        /\ UNCHANGED st
    BY <1>c DEF NotReplenished
  <2>3. owned' = [owned EXCEPT ![newfd[t]] = owned[i[t]], ![i[t]] = None]
    BY <1>0, <2>1, <2>2
  <2>4. liveSocks' = liveSocks \cup ({None} \ {None})
    BY <2>2
  <2>5. PICK o \in Slots, p \in Fds : o = i[t] /\ p = newfd[t]
    BY <2>1
  <2>6. O!Move(o, p)
    BY <1>0, <2>1, <2>3, <2>4, <2>5 DEF O!Move
  <2> QED
    BY <2>6 DEF O!Next
<1>6. ASSUME NEW t \in Threads, Listen(t) PROVE UNCHANGED O!vars
  <2>1. pool[i[t]] \in Socks
    BY <1>6 DEF Listen, InAccept
  <2> QED
    BY <1>6, <2>1 DEF Listen
<1>7. ASSUME NEW f \in Fds, CloseFd(f) PROVE O!Next
  <2>1. O!Close({f})
    BY <1>0, <1>7 DEF CloseFd, O!Close
  <2> QED
    BY <2>1 DEF O!Next
<1>8. ASSUME NEW s \in Socks, Segment(s) PROVE UNCHANGED O!vars
  BY <1>8 DEF Segment
<1>9. CASE UNCHANGED vars
  BY <1>9 DEF vars
<1> QED
  BY <1>a, <1>b, <1>c, <1>2, <1>3, <1>4, <1>5, <1>6, <1>7, <1>8, <1>9 DEF Next, Accept

\* listen(), accept() and close() with one accepting thread implement Ownership
\* for every pool length: an accepted socket leaves its slot as it enters its
\* descriptor, and no socket of the pool is lost or closed twice, wherever listen()
\* or the replenishing of a slot fails.
THEOREM ListenerOwns ==
    ASSUME OneThread
    PROVE  Spec => ImplementsOwnership
<1>1. Init => O!Init
  BY ListenerAssumption DEF Init, O!Init, owned, liveSocks, Slots
<1>2. IndInv /\ [Next]_vars => IndInv' /\ [O!Next]_(O!vars)
  BY NextInv, StepRefines
<1> QED
  BY <1>1, <1>2, InitInv, PTL DEF Spec, ImplementsOwnership, O!Spec

\* accept() hands over no half-open connection, for every pool length: the socket
\* it picked has completed its handshake, whatever the peers did since.
THEOREM AcceptsComplete ==
    ASSUME OneThread
    PROVE  Spec => []HandshakeComplete
<1>1. IndInv /\ [Next]_vars => IndInv'
  BY NextInv
<1>2. IndInv => HandshakeComplete
  BY DEF IndInv
<1> QED
  BY <1>1, <1>2, InitInv, PTL DEF Spec

\* fd_table.h:40, for every pool length: while one thread accepts, no connection is
\* handed to two descriptors.
THEOREM AcceptsOnce ==
    ASSUME OneThread
    PROVE  Spec => []AcceptedOnce
<1>1. Spec => []O!ExactlyOne
  <2>1. None \notin Socks
    BY ListenerAssumption
  <2>2. O!Spec => []O!ExactlyOne
    BY <2>1, O!OneOwnerEach, Zenon
  <2> QED
    BY <2>2, ListenerOwns, PTL DEF ImplementsOwnership
<1>2. O!ExactlyOne => AcceptedOnce
  <2>1. Slots \cap Fds = {}
    BY ListenerAssumption DEF Slots
  <2> QED
    BY <2>1, ListenerAssumption DEF O!ExactlyOne, owned, AcceptedOnce
<1> QED
  BY <1>1, <1>2, PTL
=============================================================================
