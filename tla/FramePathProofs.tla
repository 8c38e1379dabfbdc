-------------------------- MODULE FramePathProofs --------------------------
(***************************************************************************)
(* Proofs about FramePath, for every pool, queue depth and number of       *)
(* interfaces.                                                             *)
(***************************************************************************)
EXTENDS FramePath, SequenceTheorems, FiniteSetTheorems, TLAPS

-----------------------------------------------------------------------------
(* Queues without duplicates.                                              *)

\* Queueing an element that is not in a queue adds it, once.
LEMMA AppendFresh ==
    ASSUME NEW S, NEW s \in Seq(S), NEW x \in S
    PROVE  /\ Range(Append(s, x)) = Range(s) \cup {x}
           /\ IsInjective(s) /\ x \notin Range(s) => IsInjective(Append(s, x))
<1>1. /\ Append(s, x) \in Seq(S)
      /\ Len(Append(s, x)) = Len(s) + 1
      /\ \A k \in 1 .. Len(s) : Append(s, x)[k] = s[k]
      /\ Append(s, x)[Len(s) + 1] = x
  BY AppendProperties
<1>2. /\ DOMAIN s = 1 .. Len(s) /\ Len(s) \in Nat
      /\ DOMAIN Append(s, x) = 1 .. (Len(s) + 1)
  BY <1>1, LenProperties
<1>3. Range(Append(s, x)) = Range(s) \cup {x}
  BY <1>1, <1>2 DEF Range
<1>4. ASSUME IsInjective(s), x \notin Range(s)
      PROVE  IsInjective(Append(s, x))
  BY <1>1, <1>2, <1>4 DEF IsInjective, Range
<1> QED
  BY <1>3, <1>4

\* Taking the head of a queue without duplicates removes it for good.
LEMMA TailDistinct ==
    ASSUME NEW S, NEW s \in Seq(S), s # <<>>, IsInjective(s)
    PROVE  /\ Head(s) \in S
           /\ Head(s) \in Range(s)
           /\ Tail(s) \in Seq(S)
           /\ Len(Tail(s)) <= Len(s)
           /\ Range(Tail(s)) = Range(s) \ {Head(s)}
           /\ IsInjective(Tail(s))
<1>1. /\ Head(s) = s[1] /\ Head(s) \in S
      /\ Tail(s) \in Seq(S)
      /\ Len(Tail(s)) = Len(s) - 1
      /\ \A k \in 1 .. Len(Tail(s)) : Tail(s)[k] = s[k + 1]
  BY HeadTailProperties
<1>2. /\ DOMAIN s = 1 .. Len(s) /\ Len(s) \in Nat /\ Len(s) > 0
      /\ DOMAIN Tail(s) = 1 .. (Len(s) - 1)
  BY <1>1, LenProperties, EmptySeq
<1>3. IsInjective(Tail(s))
  BY <1>1, <1>2 DEF IsInjective
<1>4. Range(Tail(s)) \subseteq Range(s) \ {Head(s)}
  BY <1>1, <1>2 DEF IsInjective, Range
<1>5. ASSUME NEW y \in Range(s) \ {Head(s)}
      PROVE  y \in Range(Tail(s))
  <2>1. PICK k \in 1 .. Len(s) : s[k] = y
    BY <1>2 DEF Range
  <2>2. k # 1 /\ k - 1 \in 1 .. Len(Tail(s)) /\ Tail(s)[k - 1] = y
    BY <1>1, <1>2, <2>1
  <2> QED
    BY <1>1, <1>2, <2>2 DEF Range
<1> QED
  BY <1>1, <1>2, <1>3, <1>4, <1>5 DEF Range

\* A queue without duplicates that lacks an element of a finite set has room.
LEMMA RoomForOne ==
    ASSUME NEW S, IsFiniteSet(S), NEW s \in Seq(S), IsInjective(s),
           NEW x \in S, x \notin Range(s)
    PROVE  Len(s) < Cardinality(S)
<1>1. Len(s) \in Nat /\ s \in [1 .. Len(s) -> S] /\ DOMAIN s = 1 .. Len(s)
  BY LenProperties
<1>2. s \in Injection(1 .. Len(s), S \ {x})
  BY <1>1 DEF Injection, IsInjective, Range
<1>3. IsFiniteSet(1 .. Len(s)) /\ Cardinality(1 .. Len(s)) = Len(s)
  BY <1>1, FS_Interval
<1>4. /\ IsFiniteSet(S \ {x})
      /\ Cardinality(S \ {x}) = Cardinality(S) - 1
      /\ Cardinality(S) \in Nat
  BY FS_RemoveElement, FS_CardinalityType
<1>5. Cardinality(1 .. Len(s)) <= Cardinality(S \ {x})
  BY <1>2, <1>3, <1>4, FS_Injection DEF ExistsInjection
<1> QED
  BY <1>1, <1>3, <1>4, <1>5
-----------------------------------------------------------------------------
(* Places.                                                                 *)

\* There are four kinds of place: free list, poll task, RX queues, drivers.
LEMMA PlaceCases ==
    /\ <<"free", 0>> \in Place /\ <<"poll", 0>> \in Place
    /\ \A i \in Iface : <<"rxq", i>> \in Place /\ <<"driver", i>> \in Place
    /\ \A p \in Place : \/ p = <<"free", 0>>
                        \/ p = <<"poll", 0>>
                        \/ \E i \in Iface : p = <<"rxq", i>>
                        \/ \E i \in Iface : p = <<"driver", i>>
BY DEF Place

\* The frames in each kind of place.
LEMMA AtCases ==
    /\ At(<<"free", 0>>) = Range(freeq)
    /\ At(<<"poll", 0>>) = {held} \ {NoFrame}
    /\ \A i \in Iface : At(<<"rxq", i>>) = Range(rxq[i])
    /\ \A i \in Iface : At(<<"driver", i>>) = {dframe[i]} \ {NoFrame}
BY DEF At

\* The frames in each kind of place after a step.
LEMMA AtCasesPrime ==
    /\ At(<<"free", 0>>)' = Range(freeq')
    /\ At(<<"poll", 0>>)' = {held'} \ {NoFrame}
    /\ \A i \in Iface : At(<<"rxq", i>>)' = Range(rxq'[i])
    /\ \A i \in Iface : At(<<"driver", i>>)' = {dframe'[i]} \ {NoFrame}
BY DEF At

\* each element of S is in exactly one of the sets A[p]
ExactlyOne(S, P, A) ==
    \A f \in S : \E p \in P : f \in A[p] /\ \A q \in P : f \in A[q] => q = p

\* Moving one element from one place to another keeps every element in
\* exactly one place.
LEMMA MoveOne ==
    ASSUME NEW S, NEW P, NEW A, NEW B, ExactlyOne(S, P, A),
           NEW x \in S, NEW from \in P, NEW to \in P, from # to,
           x \in A[from],
           B[from] = A[from] \ {x},
           B[to] = A[to] \cup {x},
           \A p \in P \ {from, to} : B[p] = A[p]
    PROVE  ExactlyOne(S, P, B)
<1> SUFFICES ASSUME NEW f \in S
             PROVE  \E p \in P : f \in B[p] /\ \A q \in P : f \in B[q] => q = p
  BY DEF ExactlyOne
<1>1. PICK p \in P : f \in A[p] /\ \A q \in P : f \in A[q] => q = p
  BY DEF ExactlyOne
<1>2. CASE f = x
  <2>1. p = from
    BY <1>1, <1>2
  <2>2. f \in B[to]
    BY <1>2
  <2>3. ASSUME NEW q \in P, f \in B[q] PROVE q = to
    BY <1>1, <1>2, <2>1, <2>3
  <2> QED
    BY <2>2, <2>3
<1>3. CASE f # x
  <2>1. f \in B[p]
    BY <1>1, <1>3
  <2>2. ASSUME NEW q \in P, f \in B[q] PROVE q = p
    BY <1>1, <1>3, <2>2
  <2> QED
    BY <2>1, <2>2
<1> QED
  BY <1>2, <1>3

AtFun == [p \in Place |-> At(p)]

\* AtCases for the function AtFun, which the provers handle better than At.
LEMMA AtFunCases ==
    /\ AtFun[<<"free", 0>>] = Range(freeq)
    /\ AtFun[<<"poll", 0>>] = {held} \ {NoFrame}
    /\ \A i \in Iface : AtFun[<<"rxq", i>>] = Range(rxq[i])
    /\ \A i \in Iface : AtFun[<<"driver", i>>] = {dframe[i]} \ {NoFrame}
BY PlaceCases, AtCases DEF AtFun

\* The same after a step.
LEMMA AtFunCasesPrime ==
    /\ AtFun'[<<"free", 0>>] = Range(freeq')
    /\ AtFun'[<<"poll", 0>>] = {held'} \ {NoFrame}
    /\ \A i \in Iface : AtFun'[<<"rxq", i>>] = Range(rxq'[i])
    /\ \A i \in Iface : AtFun'[<<"driver", i>>] = {dframe'[i]} \ {NoFrame}
BY PlaceCases, AtCasesPrime DEF AtFun

\* Frame conservation stated with AtFun, so that MoveOne applies to it.
LEMMA ConservationAsFunction ==
    /\ FrameConservation <=> NoDuplicates /\ ExactlyOne(Frames, Place, AtFun)
    /\ FrameConservation' <=> NoDuplicates' /\ ExactlyOne(Frames, Place, AtFun')
<1>1. FrameConservation <=> NoDuplicates /\ ExactlyOne(Frames, Place, AtFun)
  BY DEF FrameConservation, ExactlyOne, AtFun
<1>2. FrameConservation' <=> NoDuplicates' /\ ExactlyOne(Frames, Place, AtFun')
  BY ZenonT(60) DEF FrameConservation, ExactlyOne, AtFun, Place, Iface
<1> QED
  BY <1>1, <1>2
-----------------------------------------------------------------------------
(* Frame conservation, one lemma per step that moves a frame.              *)

\* A step that moves no frame keeps conservation.
LEMMA StayConserves ==
    ASSUME FrameConservation, UNCHANGED <<freeq, held, rxq, dframe>>
    PROVE  FrameConservation'
<1>1. NoDuplicates'
  BY DEF NoDuplicates, FrameConservation
<1>2. AtFun' = AtFun
  BY DEF AtFun, At
<1> QED
  BY <1>1, <1>2, ConservationAsFunction

\* A frame is in at most one place.
LEMMA NotBoth ==
    ASSUME FrameConservation, NEW f \in Frames,
           NEW p \in Place, NEW q \in Place, p # q, f \in AtFun[p]
    PROVE  f \notin AtFun[q]
BY DEF FrameConservation, AtFun

\* A frame in somebody's hands is on no queue; a queued frame is not free.
LEMMA InHand ==
    ASSUME FrameConservation, NEW f \in Frames
    PROVE  /\ f = held => f \notin Range(freeq)
           /\ \A j \in Iface : f = held => f \notin Range(rxq[j])
           /\ \A i \in Iface : f = dframe[i] => f \notin Range(freeq)
           /\ \A i, j \in Iface : f = dframe[i] => f \notin Range(rxq[j])
           /\ \A j \in Iface : f \in Range(rxq[j]) => f \notin Range(freeq)
<1>1. f # NoFrame
  BY FramePathAssumption
<1>2. ASSUME f = held PROVE f \notin Range(freeq)
  <2>1. f \in AtFun[<<"poll", 0>>]
    BY <1>1, <1>2, AtFunCases
  <2> QED
    BY <2>1, NotBoth, PlaceCases, AtFunCases
<1>3. ASSUME f = held, NEW j \in Iface PROVE f \notin Range(rxq[j])
  <2>1. f \in AtFun[<<"poll", 0>>]
    BY <1>1, <1>3, AtFunCases
  <2>2. <<"rxq", j>> \in Place /\ <<"poll", 0>> \in Place /\ <<"rxq", j>> # <<"poll", 0>>
    BY PlaceCases
  <2>3. f \notin AtFun[<<"rxq", j>>]
    BY <2>1, <2>2, NotBoth
  <2> QED
    BY <2>3, AtFunCases
<1>4. ASSUME NEW i \in Iface, f = dframe[i] PROVE f \notin Range(freeq)
  <2>1. f \in AtFun[<<"driver", i>>]
    BY <1>1, <1>4, AtFunCases
  <2>2. <<"driver", i>> \in Place /\ <<"free", 0>> \in Place /\ <<"driver", i>> # <<"free", 0>>
    BY PlaceCases
  <2>3. f \notin AtFun[<<"free", 0>>]
    BY <2>1, <2>2, NotBoth
  <2> QED
    BY <2>3, AtFunCases
<1>5. ASSUME NEW i \in Iface, NEW j \in Iface, f = dframe[i] PROVE f \notin Range(rxq[j])
  <2>1. f \in AtFun[<<"driver", i>>]
    BY <1>1, <1>5, AtFunCases
  <2>2. <<"driver", i>> \in Place /\ <<"rxq", j>> \in Place /\ <<"driver", i>> # <<"rxq", j>>
    BY PlaceCases
  <2>3. f \notin AtFun[<<"rxq", j>>]
    BY <2>1, <2>2, NotBoth
  <2> QED
    BY <2>3, AtFunCases
<1>6. ASSUME NEW j \in Iface, f \in Range(rxq[j]) PROVE f \notin Range(freeq)
  <2>1. f \in AtFun[<<"rxq", j>>]
    BY <1>6, AtFunCases
  <2>2. <<"free", 0>> \in Place /\ <<"rxq", j>> \in Place /\ <<"free", 0>> # <<"rxq", j>>
    BY PlaceCases
  <2>3. f \notin AtFun[<<"free", 0>>]
    BY <2>1, <2>2, NotBoth
  <2> QED
    BY <2>3, AtFunCases
<1> QED
  BY <1>2, <1>3, <1>4, <1>5, <1>6

\* net_frame_free keeps the free list a sequence that fits its queue.
LEMMA FreeStaysTyped ==
    ASSUME freeq \in Seq(Frames), Len(freeq) <= Cardinality(Frames),
           NEW f \in Frames, net_frame_free(f)
    PROVE  freeq' \in Seq(Frames) /\ Len(freeq') <= Cardinality(Frames)
<1>1. Append(freeq, f) \in Seq(Frames) /\ Len(Append(freeq, f)) = Len(freeq) + 1
  BY AppendProperties
<1>2. Len(freeq) \in Nat /\ Cardinality(Frames) \in Nat
  BY LenProperties, FramePathAssumption, FS_CardinalityType
<1> QED
  BY <1>1, <1>2 DEF net_frame_free

\* A place whose variable a step leaves alone keeps its frames.
LEMMA SamePlace ==
    ASSUME NEW p \in Place,
           p = <<"free", 0>> => freeq' = freeq,
           p = <<"poll", 0>> => held' = held,
           \A i \in Iface : p = <<"rxq", i>> => rxq'[i] = rxq[i],
           \A i \in Iface : p = <<"driver", i>> => dframe'[i] = dframe[i]
    PROVE  AtFun'[p] = AtFun[p]
<1>1. CASE p = <<"free", 0>>
  BY <1>1, AtFunCases, AtFunCasesPrime
<1>2. CASE p = <<"poll", 0>>
  BY <1>2, AtFunCases, AtFunCasesPrime
<1>3. ASSUME NEW i \in Iface, p = <<"rxq", i>> PROVE AtFun'[p] = AtFun[p]
  <2>1. rxq'[i] = rxq[i]
    BY <1>3
  <2> QED
    <3>1. AtFun[<<"rxq", i>>] = Range(rxq[i])
      BY AtFunCases, Zenon
    <3>2. AtFun'[<<"rxq", i>>] = Range(rxq'[i])
      BY AtFunCasesPrime, Zenon
    <3> QED
      BY <1>3, <2>1, <3>1, <3>2
<1>4. ASSUME NEW i \in Iface, p = <<"driver", i>> PROVE AtFun'[p] = AtFun[p]
  <2>1. dframe'[i] = dframe[i]
    BY <1>4
  <2> QED
    <3>1. AtFun[<<"driver", i>>] = {dframe[i]} \ {NoFrame}
      BY AtFunCases, Zenon
    <3>2. AtFun'[<<"driver", i>>] = {dframe'[i]} \ {NoFrame}
      BY AtFunCasesPrime, Zenon
    <3> QED
      BY <1>4, <2>1, <3>1, <3>2
<1> QED
  BY <1>1, <1>2, <1>3, <1>4, PlaceCases

\* A step that moves one frame and duplicates none keeps conservation.
LEMMA MoveConserves ==
    ASSUME FrameConservation, NoDuplicates',
           NEW x \in Frames, NEW from \in Place, NEW to \in Place, from # to,
           x \in AtFun[from],
           AtFun'[from] = AtFun[from] \ {x},
           AtFun'[to] = AtFun[to] \cup {x},
           \A p \in Place \ {from, to} : AtFun'[p] = AtFun[p]
    PROVE  FrameConservation'
<1>1. ExactlyOne(Frames, Place, AtFun)
  BY ConservationAsFunction
<1>2. ExactlyOne(Frames, Place, AtFun')
  BY <1>1, MoveOne
<1> QED
  BY <1>2, ConservationAsFunction

\* net_frame_alloc moves the head of the free list to the driver.
LEMMA RxAllocConserves ==
    ASSUME IndInv, NEW i \in Iface, NEW d \in Payload, RxAlloc(i, d)
    PROVE  FrameConservation'
<1> DEFINE x == Head(freeq)
           from == <<"free", 0>>
           to == <<"driver", i>>
<1>1. TypeOK /\ Control /\ FrameConservation
  BY DEF IndInv
<1>2. /\ x \in Frames /\ x # NoFrame /\ x \in Range(freeq)
      /\ Range(freeq') = Range(freeq) \ {x}
      /\ IsInjective(freeq')
      /\ dframe[i] = NoFrame /\ dframe'[i] = x
  <2>1. dframe[i] = NoFrame
    BY <1>1 DEF RxAlloc, Control
  <2> QED
    BY <1>1, <2>1, TailDistinct, FramePathAssumption
       DEF RxAlloc, TypeOK, FrameConservation, NoDuplicates
<1>3. NoDuplicates'
  BY <1>1, <1>2 DEF RxAlloc, NoDuplicates, FrameConservation
<1>4. /\ x \in AtFun[from]
      /\ AtFun'[from] = AtFun[from] \ {x}
      /\ AtFun'[to] = AtFun[to] \cup {x}
  BY <1>2, AtFunCases, AtFunCasesPrime
<1>5. ASSUME NEW p \in Place \ {from, to} PROVE AtFun'[p] = AtFun[p]
  <2>1. /\ held' = held /\ rxq' = rxq
        /\ \A j \in Iface : j # i => dframe'[j] = dframe[j]
    BY <1>1 DEF RxAlloc, pollVars, TypeOK
  <2> QED
    BY <2>1, SamePlace
<1>6. from \in Place /\ to \in Place /\ from # to
  BY <1>2, PlaceCases
<1> HIDE DEF x, from, to
<1> QED
  BY <1>1, <1>2, <1>3, <1>4, <1>5, <1>6, MoveConserves

\* A successful xQueueSend moves the driver's frame to the RX queue.
LEMMA PostRxConserves ==
    ASSUME IndInv, NEW i \in Iface, PostRx(i)
    PROVE  FrameConservation'
<1> DEFINE x == dframe[i]
           from == <<"driver", i>>
           to == <<"rxq", i>>
<1>1. TypeOK /\ Control /\ FrameConservation
  BY DEF IndInv
<1>2. x \in Frames /\ x # NoFrame /\ x \notin Range(rxq[i])
  <2>1. x \in Frames /\ x # NoFrame
    BY <1>1 DEF PostRx, Control, TypeOK
  <2> QED
    BY <1>1, <2>1, InHand
<1>3. NoDuplicates'
  <2>1. IsInjective(Append(rxq[i], x))
    BY <1>1, <1>2, AppendFresh DEF TypeOK, FrameConservation, NoDuplicates
  <2> QED
    BY <1>1, <2>1 DEF PostRx, TypeOK, NoDuplicates, FrameConservation
<1>4. /\ x \in AtFun[from]
      /\ AtFun'[from] = AtFun[from] \ {x}
      /\ AtFun'[to] = AtFun[to] \cup {x}
  <2>1. Range(rxq'[i]) = Range(rxq[i]) \cup {x}
    BY <1>1, <1>2, AppendFresh DEF PostRx, TypeOK
  <2>2. dframe'[i] = NoFrame
    BY <1>1 DEF PostRx, TypeOK
  <2> QED
    BY <1>2, <2>1, <2>2, AtFunCases, AtFunCasesPrime
<1>5. ASSUME NEW p \in Place \ {from, to} PROVE AtFun'[p] = AtFun[p]
  <2>1. /\ held' = held /\ freeq' = freeq
        /\ \A j \in Iface : j # i => dframe'[j] = dframe[j] /\ rxq'[j] = rxq[j]
    BY <1>1 DEF PostRx, pollVars, TypeOK
  <2> QED
    BY <2>1, SamePlace
<1>6. from \in Place /\ to \in Place /\ from # to
  BY <1>2, PlaceCases
<1> HIDE DEF x, from, to
<1> QED
  BY <1>1, <1>2, <1>3, <1>4, <1>5, <1>6, MoveConserves

\* A full RX queue sends the driver's frame back to the free list, which has
\* room for it.
LEMMA RejectConserves ==
    ASSUME IndInv, NEW i \in Iface, Reject(i)
    PROVE  FrameConservation'
<1> DEFINE x == dframe[i]
           from == <<"driver", i>>
           to == <<"free", 0>>
<1>1. TypeOK /\ Control /\ FrameConservation
  BY DEF IndInv
<1>2. /\ x \in Frames /\ x # NoFrame /\ x \notin Range(freeq)
      /\ freeq' = Append(freeq, x)
  <2>1. x \in Frames /\ x # NoFrame
    BY <1>1 DEF Reject, Control, TypeOK
  <2>3. x \notin Range(freeq)
    BY <1>1, <2>1, InHand
  <2>4. Len(freeq) < Cardinality(Frames)
    BY <1>1, <2>1, <2>3, RoomForOne, FramePathAssumption
       DEF TypeOK, FrameConservation, NoDuplicates
  <2> QED
    BY <2>1, <2>3, <2>4 DEF Reject, net_frame_free
<1>3. NoDuplicates'
  <2>1. IsInjective(freeq')
    BY <1>1, <1>2, AppendFresh DEF TypeOK, FrameConservation, NoDuplicates
  <2> QED
    BY <1>1, <2>1 DEF Reject, NoDuplicates, FrameConservation
<1>4. /\ x \in AtFun[from]
      /\ AtFun'[from] = AtFun[from] \ {x}
      /\ AtFun'[to] = AtFun[to] \cup {x}
  <2>1. Range(freeq') = Range(freeq) \cup {x}
    BY <1>1, <1>2, AppendFresh DEF TypeOK
  <2>2. dframe'[i] = NoFrame
    BY <1>1 DEF Reject, TypeOK
  <2> QED
    BY <1>2, <2>1, <2>2, AtFunCases, AtFunCasesPrime
<1>5. ASSUME NEW p \in Place \ {from, to} PROVE AtFun'[p] = AtFun[p]
  <2>1. /\ held' = held /\ rxq' = rxq
        /\ \A j \in Iface : j # i => dframe'[j] = dframe[j]
    BY <1>1 DEF Reject, pollVars, TypeOK
  <2> QED
    BY <2>1, SamePlace
<1>6. from \in Place /\ to \in Place /\ from # to
  BY <1>2, PlaceCases
<1> HIDE DEF x, from, to
<1> QED
  BY <1>1, <1>2, <1>3, <1>4, <1>5, <1>6, MoveConserves

\* The poll task's net_frame_free moves its frame to the free list, which has
\* room for it.
LEMMA FreeFrameConserves ==
    ASSUME IndInv, FreeFrame
    PROVE  FrameConservation'
<1> DEFINE x == held
           from == <<"poll", 0>>
           to == <<"free", 0>>
<1>1. TypeOK /\ Control /\ FrameConservation
  BY DEF IndInv
<1>2. /\ x \in Frames /\ x # NoFrame /\ x \notin Range(freeq)
      /\ freeq' = Append(freeq, x)
  <2>1. x \in Frames /\ x # NoFrame
    BY <1>1 DEF FreeFrame, Control, TypeOK
  <2>3. x \notin Range(freeq)
    BY <1>1, <2>1, InHand
  <2>4. Len(freeq) < Cardinality(Frames)
    BY <1>1, <2>1, <2>3, RoomForOne, FramePathAssumption
       DEF TypeOK, FrameConservation, NoDuplicates
  <2> QED
    BY <2>1, <2>3, <2>4 DEF FreeFrame, net_frame_free
<1>3. NoDuplicates'
  <2>1. IsInjective(freeq')
    BY <1>1, <1>2, AppendFresh DEF TypeOK, FrameConservation, NoDuplicates
  <2> QED
    BY <1>1, <2>1 DEF FreeFrame, NoDuplicates, FrameConservation
<1>4. /\ x \in AtFun[from]
      /\ AtFun'[from] = AtFun[from] \ {x}
      /\ AtFun'[to] = AtFun[to] \cup {x}
  <2>1. Range(freeq') = Range(freeq) \cup {x}
    BY <1>1, <1>2, AppendFresh DEF TypeOK
  <2>2. held' = NoFrame
    BY <1>1 DEF FreeFrame, TypeOK
  <2> QED
    BY <1>2, <2>1, <2>2, AtFunCases, AtFunCasesPrime
<1>5. ASSUME NEW p \in Place \ {from, to} PROVE AtFun'[p] = AtFun[p]
  <2>1. dframe' = dframe /\ rxq' = rxq
    BY DEF FreeFrame, drvVars
  <2> QED
    BY <2>1, SamePlace
<1>6. from \in Place /\ to \in Place /\ from # to
  BY <1>2, PlaceCases
<1> HIDE DEF x, from, to
<1> QED
  BY <1>1, <1>2, <1>3, <1>4, <1>5, <1>6, MoveConserves

\* xQueueReceive moves the head of the RX queue to the poll task.
LEMMA TakeFrameConserves ==
    ASSUME IndInv, TakeFrame
    PROVE  FrameConservation'
<1> DEFINE x == Head(rxq[cur])
           from == <<"rxq", cur>>
           to == <<"poll", 0>>
<1>1. TypeOK /\ Control /\ FrameConservation
  BY DEF IndInv
<1>2. /\ cur \in Iface
      /\ x \in Frames /\ x # NoFrame /\ x \in Range(rxq[cur])
      /\ Range(rxq'[cur]) = Range(rxq[cur]) \ {x}
      /\ IsInjective(rxq'[cur])
      /\ held = NoFrame /\ held' = x
  <2>1. cur \in Iface /\ held = NoFrame
    BY <1>1 DEF TakeFrame, Control
  <2>2. /\ rxq[cur] \in Seq(Frames) /\ rxq[cur] # <<>> /\ IsInjective(rxq[cur])
        /\ rxq'[cur] = Tail(rxq[cur])
        /\ held' = x
    BY <1>1, <2>1 DEF TakeFrame, TypeOK, FrameConservation, NoDuplicates
  <2> QED
    BY <2>1, <2>2, TailDistinct, FramePathAssumption
<1>3. NoDuplicates'
  BY <1>1, <1>2 DEF TakeFrame, TypeOK, NoDuplicates, FrameConservation
<1>4. /\ x \in AtFun[from]
      /\ AtFun'[from] = AtFun[from] \ {x}
      /\ AtFun'[to] = AtFun[to] \cup {x}
  BY <1>2, AtFunCases, AtFunCasesPrime
<1>5. ASSUME NEW p \in Place \ {from, to} PROVE AtFun'[p] = AtFun[p]
  <2>1. /\ freeq' = freeq /\ dframe' = dframe
        /\ \A j \in Iface : j # cur => rxq'[j] = rxq[j]
    BY <1>1 DEF TakeFrame, drvVars, TypeOK
  <2> QED
    BY <2>1, SamePlace
<1>6. from \in Place /\ to \in Place /\ from # to
  BY <1>2, PlaceCases
<1> HIDE DEF x, from, to
<1> QED
  BY <1>1, <1>2, <1>3, <1>4, <1>5, <1>6, MoveConserves

-----------------------------------------------------------------------------
(* The inductive invariant.                                                *)

\* After net_stack_init every frame is on the free list, once.
LEMMA InitIndInv == Init => IndInv
<1> SUFFICES ASSUME Init PROVE IndInv
  OBVIOUS
<1>1. Cardinality(Frames) \in Nat
  BY FS_CardinalityType, FramePathAssumption
<1>2. /\ freeq \in [1 .. Cardinality(Frames) -> Frames]
      /\ IsInjective(freeq)
      /\ \A f \in Frames : \E k \in 1 .. Cardinality(Frames) : freeq[k] = f
  BY DEF Init, Bijection, Injection, Surjection
<1>3. freeq \in Seq(Frames) /\ Len(freeq) = Cardinality(Frames)
  BY <1>1, <1>2
<1>4. Range(freeq) = Frames
  BY <1>2 DEF Range
<1>5. TypeOK
  <2>1. rxq \in [Iface -> Seq(Frames)] /\ \A i \in Iface : Len(rxq[i]) <= Depth
    BY FramePathAssumption DEF Init
  <2>2. cur \in 0 .. NumIfaces
    BY FramePathAssumption DEF Init
  <2>3. Len(freeq) <= Cardinality(Frames)
    BY <1>1, <1>3
  <2> QED
    BY <1>3, <2>1, <2>2, <2>3 DEF Init, TypeOK
<1>6. Control
  BY FramePathAssumption DEF Init, Control, Iface, HasInput
<1>7. FrameConservation
  <2>1. NoDuplicates
    BY <1>2 DEF Init, NoDuplicates, IsInjective
  <2>2. /\ AtFun[<<"free", 0>>] = Frames
        /\ \A p \in Place : p # <<"free", 0>> => AtFun[p] = {}
    <3>1. \A i \in Iface : Range(rxq[i]) = {}
      BY DEF Init, Range
    <3>2. held = NoFrame /\ \A i \in Iface : dframe[i] = NoFrame
      BY DEF Init
    <3> QED
      BY <1>4, <3>1, <3>2, AtFunCases, PlaceCases
  <2>3. ExactlyOne(Frames, Place, AtFun)
    BY <2>2, PlaceCases DEF ExactlyOne
  <2> QED
    BY <2>1, <2>3, ConservationAsFunction
<1>8. WakeupPending
  BY DEF Init, WakeupPending
<1>9. Written
  BY <1>4 DEF Written
<1> QED
  BY <1>5, <1>6, <1>7, <1>8, <1>9 DEF IndInv

\* Every step of the drivers, an attach, a kick, a resolver and the poll task
\* preserves the inductive invariant.
LEMMA NextIndInv == IndInv /\ [Next]_vars => IndInv'
<1> SUFFICES ASSUME IndInv, [Next]_vars PROVE IndInv'
  OBVIOUS
<1> USE FramePathAssumption
<1>AttachEnable. ASSUME NEW i \in Iface, AttachEnable(i) PROVE IndInv'
  <2>1. TypeOK' /\ Control'
    BY <1>AttachEnable DEF IndInv, TypeOK, Control, AttachEnable, drvVars, pollVars, Iface, HasInput, HasHandle, Enabled
  <2>2. FrameConservation'
    BY <1>AttachEnable, StayConserves DEF IndInv, AttachEnable, drvVars, pollVars
  <2>3. WakeupPending'
    BY <1>AttachEnable DEF IndInv, TypeOK, Control, WakeupPending, Passed, AttachEnable, drvVars, pollVars, Iface, HasInput, Enabled
  <2>4. Written'
    BY <1>AttachEnable DEF IndInv, Written, AttachEnable
  <2> QED
    BY <2>1, <2>2, <2>3, <2>4 DEF IndInv
<1>AttachInput. ASSUME NEW i \in Iface, AttachInput(i) PROVE IndInv'
  <2>1. TypeOK' /\ Control'
    BY <1>AttachInput DEF IndInv, TypeOK, Control, AttachInput, drvVars, pollVars, Iface, HasInput, HasHandle, Enabled
  <2>2. FrameConservation'
    BY <1>AttachInput, StayConserves DEF IndInv, AttachInput, drvVars, pollVars
  <2>3. WakeupPending'
    BY <1>AttachInput DEF IndInv, TypeOK, Control, WakeupPending, Passed, AttachInput, drvVars, pollVars, Iface, HasInput, Enabled
  <2>4. Written'
    BY <1>AttachInput DEF IndInv, Written, AttachInput
  <2> QED
    BY <2>1, <2>2, <2>3, <2>4 DEF IndInv
<1>AttachHandle. ASSUME NEW i \in Iface, AttachHandle(i) PROVE IndInv'
  <2>1. TypeOK' /\ Control'
    BY <1>AttachHandle DEF IndInv, TypeOK, Control, AttachHandle, drvVars, pollVars, Iface, HasInput, HasHandle, Enabled
  <2>2. FrameConservation'
    BY <1>AttachHandle, StayConserves DEF IndInv, AttachHandle, drvVars, pollVars
  <2>3. WakeupPending'
    BY <1>AttachHandle DEF IndInv, TypeOK, Control, WakeupPending, Passed, AttachHandle, drvVars, pollVars, Iface, HasInput, Enabled
  <2>4. Written'
    BY <1>AttachHandle DEF IndInv, Written, AttachHandle
  <2> QED
    BY <2>1, <2>2, <2>3, <2>4 DEF IndInv
<1>AttachDone. ASSUME NEW i \in Iface, AttachDone(i) PROVE IndInv'
  <2>1. TypeOK' /\ Control'
    BY <1>AttachDone DEF IndInv, TypeOK, Control, AttachDone, drvVars, pollVars, Iface, HasInput, HasHandle, Enabled
  <2>2. FrameConservation'
    BY <1>AttachDone, StayConserves DEF IndInv, AttachDone, drvVars, pollVars
  <2>3. WakeupPending'
    BY <1>AttachDone DEF IndInv, TypeOK, Control, WakeupPending, Passed, AttachDone, drvVars, pollVars, Iface, HasInput, Enabled
  <2>4. Written'
    BY <1>AttachDone DEF IndInv, Written, AttachDone
  <2> QED
    BY <2>1, <2>2, <2>3, <2>4 DEF IndInv
<1>PostRxFull. ASSUME NEW i \in Iface, PostRxFull(i) PROVE IndInv'
  <2>1. TypeOK' /\ Control'
    BY <1>PostRxFull DEF IndInv, TypeOK, Control, PostRxFull, drvVars, pollVars, Iface, HasInput, HasHandle, Enabled
  <2>2. FrameConservation'
    BY <1>PostRxFull, StayConserves DEF IndInv, PostRxFull, drvVars, pollVars
  <2>3. WakeupPending'
    BY <1>PostRxFull DEF IndInv, TypeOK, Control, WakeupPending, Passed, PostRxFull, drvVars, pollVars, Iface, HasInput, Enabled
  <2>4. Written'
    BY <1>PostRxFull DEF IndInv, Written, PostRxFull
  <2> QED
    BY <2>1, <2>2, <2>3, <2>4 DEF IndInv
<1>Notify. ASSUME NEW i \in Iface, Notify(i) PROVE IndInv'
  <2>1. TypeOK' /\ Control'
    BY <1>Notify DEF IndInv, TypeOK, Control, Notify, drvVars, pollVars, Iface, HasInput, HasHandle, Enabled
  <2>2. FrameConservation'
    BY <1>Notify, StayConserves DEF IndInv, Notify, drvVars, pollVars
  <2>3. WakeupPending'
    BY <1>Notify DEF IndInv, TypeOK, Control, WakeupPending, Passed, Notify, drvVars, pollVars, Iface, HasInput, Enabled
  <2>4. Written'
    BY <1>Notify DEF IndInv, Written, Notify
  <2> QED
    BY <2>1, <2>2, <2>3, <2>4 DEF IndInv
<1>KickPoll. CASE KickPoll
  <2>1. TypeOK' /\ Control'
    BY <1>KickPoll DEF IndInv, TypeOK, Control, KickPoll, drvVars, pollVars, Iface, HasInput, HasHandle, Enabled
  <2>2. FrameConservation'
    BY <1>KickPoll, StayConserves DEF IndInv, KickPoll, drvVars, pollVars
  <2>3. WakeupPending'
    BY <1>KickPoll DEF IndInv, TypeOK, Control, WakeupPending, Passed, KickPoll, drvVars, pollVars, Iface, HasInput, Enabled
  <2>4. Written'
    BY <1>KickPoll DEF IndInv, Written, KickPoll
  <2> QED
    BY <2>1, <2>2, <2>3, <2>4 DEF IndInv
<1>ResolverPoll. ASSUME NEW i \in Iface, ResolverPoll(i) PROVE IndInv'
  <2>1. TypeOK' /\ Control'
    BY <1>ResolverPoll DEF IndInv, TypeOK, Control, ResolverPoll, drvVars, pollVars, Iface, HasInput, HasHandle, Enabled
  <2>2. FrameConservation'
    BY <1>ResolverPoll, StayConserves DEF IndInv, ResolverPoll, drvVars, pollVars
  <2>3. WakeupPending'
    BY <1>ResolverPoll DEF IndInv, TypeOK, Control, WakeupPending, Passed, ResolverPoll, drvVars, pollVars, Iface, HasInput, Enabled
  <2>4. Written'
    BY <1>ResolverPoll DEF IndInv, Written, ResolverPoll
  <2> QED
    BY <2>1, <2>2, <2>3, <2>4 DEF IndInv
<1>SkipIface. CASE SkipIface
  <2>1. TypeOK' /\ Control'
    BY <1>SkipIface DEF IndInv, TypeOK, Control, SkipIface, drvVars, pollVars, Iface, HasInput, HasHandle, Enabled
  <2>2. FrameConservation'
    BY <1>SkipIface, StayConserves DEF IndInv, SkipIface, drvVars, pollVars
  <2>3. WakeupPending'
    <3>1. cur \in Iface /\ rxq[cur] = <<>>
      <4>1. cur \in Iface
        BY <1>SkipIface DEF IndInv, TypeOK, SkipIface, Iface
      <4>2. ~HasInput(cur)
        BY <1>SkipIface DEF SkipIface, HasInput, Enabled
      <4> QED
        BY <4>1, <4>2 DEF IndInv, Control
    <3>2. \A i \in Iface : Passed(i)' => Passed(i) \/ i = cur
      BY <1>SkipIface DEF IndInv, TypeOK, Passed, SkipIface, Iface
    <3> QED
      BY <1>SkipIface, <3>1, <3>2 DEF IndInv, WakeupPending, SkipIface, drvVars
  <2>4. Written'
    BY <1>SkipIface DEF IndInv, Written, SkipIface
  <2> QED
    BY <2>1, <2>2, <2>3, <2>4 DEF IndInv
<1>EnterIface. CASE EnterIface
  <2>1. TypeOK' /\ Control'
    BY <1>EnterIface DEF IndInv, TypeOK, Control, EnterIface, drvVars, pollVars, Iface, HasInput, HasHandle, Enabled
  <2>2. FrameConservation'
    BY <1>EnterIface, StayConserves DEF IndInv, EnterIface, drvVars, pollVars
  <2>3. WakeupPending'
    BY <1>EnterIface DEF IndInv, TypeOK, Control, WakeupPending, Passed, EnterIface, drvVars, pollVars, Iface, HasInput, Enabled
  <2>4. Written'
    BY <1>EnterIface DEF IndInv, Written, EnterIface
  <2> QED
    BY <2>1, <2>2, <2>3, <2>4 DEF IndInv
<1>QueueDrained. CASE QueueDrained
  <2>1. TypeOK' /\ Control'
    BY <1>QueueDrained DEF IndInv, TypeOK, Control, QueueDrained, drvVars, pollVars, Iface, HasInput, HasHandle, Enabled
  <2>2. FrameConservation'
    BY <1>QueueDrained, StayConserves DEF IndInv, QueueDrained, drvVars, pollVars
  <2>3. WakeupPending'
    BY <1>QueueDrained DEF IndInv, TypeOK, Control, WakeupPending, Passed, QueueDrained, drvVars, pollVars, Iface, HasInput, Enabled
  <2>4. Written'
    BY <1>QueueDrained DEF IndInv, Written, QueueDrained
  <2> QED
    BY <2>1, <2>2, <2>3, <2>4 DEF IndInv
<1>DispatchTap. CASE DispatchTap
  <2>1. TypeOK' /\ Control'
    BY <1>DispatchTap DEF IndInv, TypeOK, Control, DispatchTap, drvVars, pollVars, Iface, HasInput, HasHandle, Enabled
  <2>2. FrameConservation'
    BY <1>DispatchTap, StayConserves DEF IndInv, DispatchTap, drvVars, pollVars
  <2>3. WakeupPending'
    BY <1>DispatchTap DEF IndInv, TypeOK, Control, WakeupPending, Passed, DispatchTap, drvVars, pollVars, Iface, HasInput, Enabled
  <2>4. Written'
    BY <1>DispatchTap DEF IndInv, Written, DispatchTap
  <2> QED
    BY <2>1, <2>2, <2>3, <2>4 DEF IndInv
<1>DispatchRx. CASE DispatchRx
  <2>1. TypeOK' /\ Control'
    BY <1>DispatchRx DEF IndInv, TypeOK, Control, DispatchRx, drvVars, pollVars, Iface, HasInput, HasHandle, Enabled
  <2>2. FrameConservation'
    BY <1>DispatchRx, StayConserves DEF IndInv, DispatchRx, drvVars, pollVars
  <2>3. WakeupPending'
    BY <1>DispatchRx DEF IndInv, TypeOK, Control, WakeupPending, Passed, DispatchRx, drvVars, pollVars, Iface, HasInput, Enabled
  <2>4. Written'
    BY <1>DispatchRx DEF IndInv, Written, DispatchRx
  <2> QED
    BY <2>1, <2>2, <2>3, <2>4 DEF IndInv
<1>PollIface. CASE PollIface
  <2>1. TypeOK' /\ Control'
    BY <1>PollIface DEF IndInv, TypeOK, Control, PollIface, drvVars, pollVars, Iface, HasInput, HasHandle, Enabled
  <2>2. FrameConservation'
    BY <1>PollIface, StayConserves DEF IndInv, PollIface, drvVars, pollVars
  <2>3. WakeupPending'
    BY <1>PollIface DEF IndInv, TypeOK, Control, WakeupPending, Passed, PollIface, drvVars, pollVars, Iface, HasInput, Enabled
  <2>4. Written'
    BY <1>PollIface DEF IndInv, Written, PollIface
  <2> QED
    BY <2>1, <2>2, <2>3, <2>4 DEF IndInv
<1>ComputeWait. CASE ComputeWait
  <2>1. TypeOK' /\ Control'
    BY <1>ComputeWait DEF IndInv, TypeOK, Control, ComputeWait, drvVars, pollVars, Iface, HasInput, HasHandle, Enabled
  <2>2. FrameConservation'
    BY <1>ComputeWait, StayConserves DEF IndInv, ComputeWait, drvVars, pollVars
  <2>3. WakeupPending'
    BY <1>ComputeWait DEF IndInv, TypeOK, Control, WakeupPending, Passed, ComputeWait, drvVars, pollVars, Iface, HasInput, Enabled
  <2>4. Written'
    BY <1>ComputeWait DEF IndInv, Written, ComputeWait
  <2> QED
    BY <2>1, <2>2, <2>3, <2>4 DEF IndInv
<1>Woken. CASE Woken
  <2>1. TypeOK' /\ Control'
    <3>1. (0 \in Iface \/ 0 = NumIfaces) /\ 0 \in 0 .. NumIfaces
      BY DEF Iface
    <3>2. TypeOK'
      BY <1>Woken, <3>1 DEF IndInv, TypeOK, Woken, drvVars
    <3>3. Control'
      BY <1>Woken, <3>1 DEF IndInv, Control, Woken, drvVars, HasInput
    <3> QED
      BY <3>2, <3>3
  <2>2. FrameConservation'
    BY <1>Woken, StayConserves DEF IndInv, Woken, drvVars, pollVars
  <2>3. WakeupPending'
    BY <1>Woken DEF IndInv, TypeOK, Control, WakeupPending, Passed, Woken, drvVars, pollVars, Iface, HasInput, Enabled
  <2>4. Written'
    BY <1>Woken DEF IndInv, Written, Woken
  <2> QED
    BY <2>1, <2>2, <2>3, <2>4 DEF IndInv
<1>WaitTimeout. CASE WaitTimeout
  <2>1. TypeOK' /\ Control'
    BY <1>WaitTimeout DEF IndInv, TypeOK, Control, WaitTimeout, drvVars, pollVars, Iface, HasInput, HasHandle, Enabled
  <2>2. FrameConservation'
    BY <1>WaitTimeout, StayConserves DEF IndInv, WaitTimeout, drvVars, pollVars
  <2>3. WakeupPending'
    BY <1>WaitTimeout DEF IndInv, TypeOK, Control, WakeupPending, Passed, WaitTimeout, drvVars, pollVars, Iface, HasInput, Enabled
  <2>4. Written'
    BY <1>WaitTimeout DEF IndInv, Written, WaitTimeout
  <2> QED
    BY <2>1, <2>2, <2>3, <2>4 DEF IndInv
<1>RxAlloc. ASSUME NEW i \in Iface, NEW d \in Payload, RxAlloc(i, d) PROVE IndInv'
  <2>1. TypeOK' /\ Control'
    <3>1. Head(freeq) \in Frames /\ Tail(freeq) \in Seq(Frames) /\ Len(Tail(freeq)) <= Len(freeq)
      BY <1>RxAlloc, TailDistinct DEF IndInv, TypeOK, RxAlloc, FrameConservation, NoDuplicates
    <3> QED
      BY <1>RxAlloc, <3>1, FS_CardinalityType DEF IndInv, TypeOK, Control, RxAlloc, pollVars, HasInput, Iface
  <2>2. FrameConservation'
    BY <1>RxAlloc, RxAllocConserves
  <2>3. WakeupPending'
    BY <1>RxAlloc DEF IndInv, TypeOK, Control, WakeupPending, Passed, RxAlloc, pollVars, drvVars, Iface
  <2>4. Written'
    <3>1. Head(freeq) \in Frames /\ Range(freeq') = Range(freeq) \ {Head(freeq)}
      BY <1>RxAlloc, TailDistinct DEF IndInv, TypeOK, RxAlloc, FrameConservation, NoDuplicates
    <3> QED
      BY <1>RxAlloc, <3>1 DEF IndInv, TypeOK, Written, RxAlloc
  <2> QED
    BY <2>1, <2>2, <2>3, <2>4 DEF IndInv
<1>PostRx. ASSUME NEW i \in Iface, PostRx(i) PROVE IndInv'
  <2>1. TypeOK' /\ Control'
    <3>1. dframe[i] \in Frames
      BY <1>PostRx DEF IndInv, TypeOK, Control, PostRx
    <3>2. /\ Append(rxq[i], dframe[i]) \in Seq(Frames)
          /\ Len(Append(rxq[i], dframe[i])) = Len(rxq[i]) + 1
      <4>1. rxq[i] \in Seq(Frames)
        BY DEF IndInv, TypeOK
      <4> QED
        BY <3>1, <4>1, AppendProperties
    <3> QED
      BY <1>PostRx, <3>1, <3>2, LenProperties DEF IndInv, TypeOK, Control, PostRx, pollVars, HasInput, Iface
  <2>2. FrameConservation'
    BY <1>PostRx, PostRxConserves
  <2>3. WakeupPending'
    BY <1>PostRx DEF IndInv, TypeOK, Control, WakeupPending, Passed, PostRx, pollVars, drvVars, Iface
  <2>4. Written'
    BY <1>PostRx DEF IndInv, Written, PostRx
  <2> QED
    BY <2>1, <2>2, <2>3, <2>4 DEF IndInv
<1>Reject. ASSUME NEW i \in Iface, Reject(i) PROVE IndInv'
  <2>1. TypeOK' /\ Control'
    <3>1. dframe[i] \in Frames
      BY <1>Reject DEF IndInv, TypeOK, Control, Reject
    <3>2. freeq' \in Seq(Frames) /\ Len(freeq') <= Cardinality(Frames)
      BY <1>Reject, <3>1, FreeStaysTyped DEF IndInv, TypeOK, Reject
    <3> QED
      BY <1>Reject, <3>1, <3>2 DEF IndInv, TypeOK, Control, Reject, pollVars, HasInput, Iface
  <2>2. FrameConservation'
    BY <1>Reject, RejectConserves
  <2>3. WakeupPending'
    BY <1>Reject DEF IndInv, TypeOK, Control, WakeupPending, Passed, Reject, pollVars, drvVars, Iface
  <2>4. Written'
    <3>1. dframe[i] \in Frames
      BY <1>Reject DEF IndInv, TypeOK, Control, Reject
    <3>2. Range(freeq) \subseteq Range(freeq')
      BY <1>Reject, <3>1, AppendFresh DEF IndInv, TypeOK, Reject, net_frame_free
    <3> QED
      BY <1>Reject, <3>2 DEF IndInv, Written, Reject
  <2> QED
    BY <2>1, <2>2, <2>3, <2>4 DEF IndInv
<1>FreeFrame. CASE FreeFrame
  <2>1. TypeOK' /\ Control'
    <3>1. held \in Frames
      BY <1>FreeFrame DEF IndInv, TypeOK, Control, FreeFrame
    <3>2. freeq' \in Seq(Frames) /\ Len(freeq') <= Cardinality(Frames)
      BY <1>FreeFrame, <3>1, FreeStaysTyped DEF IndInv, TypeOK, FreeFrame
    <3> QED
      BY <1>FreeFrame, <3>1, <3>2 DEF IndInv, TypeOK, Control, FreeFrame, drvVars, HasInput, Iface
  <2>2. FrameConservation'
    BY <1>FreeFrame, FreeFrameConserves
  <2>3. WakeupPending'
    BY <1>FreeFrame DEF IndInv, TypeOK, Control, WakeupPending, Passed, FreeFrame, pollVars, drvVars, Iface
  <2>4. Written'
    <3>1. held \in Frames
      BY <1>FreeFrame DEF IndInv, TypeOK, Control, FreeFrame
    <3>2. Range(freeq) \subseteq Range(freeq')
      BY <1>FreeFrame, <3>1, AppendFresh DEF IndInv, TypeOK, FreeFrame, net_frame_free
    <3> QED
      BY <1>FreeFrame, <3>2 DEF IndInv, Written, FreeFrame
  <2> QED
    BY <2>1, <2>2, <2>3, <2>4 DEF IndInv
<1>TakeFrame. CASE TakeFrame
  <2>1. TypeOK' /\ Control'
    <3>1. cur \in Iface
      BY <1>TakeFrame DEF IndInv, Control, TakeFrame
    <3>2. /\ Head(rxq[cur]) \in Frames /\ Tail(rxq[cur]) \in Seq(Frames)
          /\ Len(Tail(rxq[cur])) <= Len(rxq[cur])
      BY <1>TakeFrame, <3>1, TailDistinct DEF IndInv, TypeOK, TakeFrame, FrameConservation, NoDuplicates
    <3>3. \A i \in Iface : Len(rxq'[i]) <= Depth
      BY <1>TakeFrame, <3>1, <3>2, LenProperties DEF IndInv, TypeOK, TakeFrame
    <3> QED
      BY <1>TakeFrame, <3>1, <3>2, <3>3 DEF IndInv, TypeOK, Control, TakeFrame, drvVars, HasInput, Iface
  <2>2. FrameConservation'
    BY <1>TakeFrame, TakeFrameConserves
  <2>3. WakeupPending'
    BY <1>TakeFrame DEF IndInv, TypeOK, Control, WakeupPending, Passed, TakeFrame, pollVars, drvVars, Iface
  <2>4. Written'
    BY <1>TakeFrame DEF IndInv, Written, TakeFrame
  <2> QED
    BY <2>1, <2>2, <2>3, <2>4 DEF IndInv
<1>Stutter. CASE UNCHANGED vars
  <2>1. FrameConservation'
    BY <1>Stutter, StayConserves DEF IndInv, vars
  <2> QED
    BY <1>Stutter, <2>1 DEF IndInv, vars, TypeOK, Control, HasInput, WakeupPending, Passed, Written
<1> QED
  BY <1>AttachEnable, <1>AttachInput, <1>AttachHandle, <1>AttachDone, <1>PostRxFull,
     <1>Notify, <1>KickPoll, <1>ResolverPoll, <1>SkipIface, <1>EnterIface, <1>QueueDrained, <1>DispatchTap,
     <1>DispatchRx, <1>PollIface, <1>ComputeWait, <1>Woken, <1>WaitTimeout, <1>RxAlloc,
     <1>PostRx, <1>Reject, <1>FreeFrame, <1>TakeFrame, <1>Stutter
     DEF Next, Attach, Driver, DriverBusy, PollTask

\* The inductive invariant of the receive path holds throughout.
THEOREM Invariance == Spec => []IndInv
BY InitIndInv, NextIndInv, PTL DEF Spec

-----------------------------------------------------------------------------
(* The results.                                                            *)

\* Every variable of the receive path keeps its type; in particular no RX
\* queue exceeds its depth and the free list never exceeds the pool.
THEOREM TypeCorrect == Spec => []TypeOK
<1>1. IndInv => TypeOK
  BY DEF IndInv
<1> QED
  BY <1>1, Invariance, PTL

\* Each frame of the slab is always in exactly one place, whatever the pool
\* size, queue depth and number of interfaces: no leak, no double free.
THEOREM Conservation == Spec => []FrameConservation
<1>1. IndInv => FrameConservation
  BY DEF IndInv
<1> QED
  BY <1>1, Invariance, PTL

\* The poll task never sleeps over a queued frame it was not told about.
THEOREM WakeupNotLost == Spec => []NoLostWakeup
<1>1. IndInv => NoLostWakeup
  <2> SUFFICES ASSUME IndInv, ppc = "wait", ~notified, NEW i \in Iface, rxq[i] # <<>>
               PROVE  dpc[i] = "notify"
    BY DEF NoLostWakeup
  <2>1. Passed(i)
    BY FramePathAssumption DEF IndInv, Control, Passed, Iface
  <2> QED
    BY <2>1 DEF IndInv, WakeupPending
<1> QED
  BY <1>1, Invariance, PTL

\* Only RxAlloc writes frame contents, and only into a frame from the free
\* list.
LEMMA DataStable ==
    ASSUME IndInv, [Next]_vars, NEW f \in Frames,
           f = held \/ \E i \in Iface : f \in Range(rxq[i])
    PROVE  data'[f] = data[f]
<1>1. f \notin Range(freeq)
  BY InHand DEF IndInv
<1>2. ASSUME NEW i \in Iface, NEW d \in Payload, RxAlloc(i, d)
      PROVE  data'[f] = data[f]
  <2>1. Head(freeq) \in Range(freeq)
    BY <1>2, TailDistinct DEF IndInv, TypeOK, FrameConservation, NoDuplicates, RxAlloc
  <2> QED
    BY <1>1, <1>2, <2>1 DEF IndInv, TypeOK, RxAlloc
<1>3. ASSUME ~ \E i \in Iface, d \in Payload : RxAlloc(i, d)
      PROVE  data' = data
  BY <1>3 DEF Next, Attach, Driver, DriverBusy, PollTask, AttachEnable,
     AttachInput, AttachHandle, AttachDone, PostRx, PostRxFull, Reject, Notify,
     KickPoll, ResolverPoll, SkipIface, EnterIface, TakeFrame, QueueDrained, DispatchTap,
     DispatchRx, FreeFrame, PollIface, ComputeWait, Woken, WaitTimeout, vars
<1> QED
  BY <1>2, <1>3

\* The bytes of a frame that is queued or in the poll task's hands are never
\* written.
THEOREM NoOverwrite == Spec => NoOverwriteInFlight
<1>1. IndInv /\ [Next]_vars =>
        [\A f \in Frames :
          (f = held \/ \E i \in Iface : f \in Range(rxq[i])) => data'[f] = data[f]]_vars
  BY DataStable
<1> QED
  BY <1>1, Invariance, PTL DEF Spec, NoOverwriteInFlight
-----------------------------------------------------------------------------
(* The receive path implements RxChannel.                                  *)

\* An empty queue of frames has no contents.
LEMMA ContentsEmpty ==
    ASSUME NEW d PROVE Contents(d, <<>>) = <<>>
BY DEF Contents

\* what a frame may hold
Bytes == Payload \cup {NoData}

\* A queue of frames has a sequence of contents of the same length.
LEMMA ContentsType ==
    ASSUME NEW d \in [Frames -> Bytes], NEW q \in Seq(Frames)
    PROVE  /\ Contents(d, q) \in Seq(Bytes)
           /\ Len(Contents(d, q)) = Len(q)
           /\ \A k \in 1 .. Len(q) : Contents(d, q)[k] = d[q[k]]
<1>1. DOMAIN q = 1 .. Len(q) /\ Len(q) \in Nat
  BY LenProperties
<1>2. Contents(d, q) \in [1 .. Len(q) -> Bytes]
  BY <1>1 DEF Contents
<1> QED
  BY <1>1, <1>2 DEF Contents

\* Queueing a frame appends its bytes to the contents.
LEMMA ContentsAppend ==
    ASSUME NEW d \in [Frames -> Bytes], NEW q \in Seq(Frames), NEW x \in Frames
    PROVE  Contents(d, Append(q, x)) = Append(Contents(d, q), d[x])
<1>1. /\ Append(q, x) \in Seq(Frames) /\ Len(Append(q, x)) = Len(q) + 1
      /\ \A k \in 1 .. Len(q) : Append(q, x)[k] = q[k]
      /\ Append(q, x)[Len(q) + 1] = x
      /\ DOMAIN q = 1 .. Len(q) /\ Len(q) \in Nat
      /\ DOMAIN Append(q, x) = 1 .. (Len(q) + 1)
  BY AppendProperties, LenProperties
<1>3. /\ Contents(d, Append(q, x)) \in Seq(Bytes)
      /\ Len(Contents(d, Append(q, x))) = Len(q) + 1
      /\ \A k \in 1 .. (Len(q) + 1) : Contents(d, Append(q, x))[k] = d[Append(q, x)[k]]
  BY <1>1, ContentsType, ZenonT(60)
<1>4. /\ Contents(d, q) \in Seq(Bytes) /\ Len(Contents(d, q)) = Len(q)
      /\ \A k \in 1 .. Len(q) : Contents(d, q)[k] = d[q[k]]
  BY ContentsType
<1>5. /\ Append(Contents(d, q), d[x]) \in Seq(Bytes)
      /\ Len(Append(Contents(d, q), d[x])) = Len(q) + 1
      /\ \A k \in 1 .. Len(q) : Append(Contents(d, q), d[x])[k] = Contents(d, q)[k]
      /\ Append(Contents(d, q), d[x])[Len(q) + 1] = d[x]
  BY <1>4, AppendProperties
<1>6. \A k \in 1 .. (Len(q) + 1) :
         Contents(d, Append(q, x))[k] = Append(Contents(d, q), d[x])[k]
  BY <1>1, <1>3, <1>4, <1>5
<1> DEFINE a == Contents(d, Append(q, x))
           b == Append(Contents(d, q), d[x])
<1>7. a \in Seq(Bytes) /\ b \in Seq(Bytes) /\ Len(a) = Len(b)
  BY <1>3, <1>5
<1>8. \A k \in 1 .. Len(a) : a[k] = b[k]
  BY <1>3, <1>6
<1> HIDE DEF a, b
<1>9. a = b
  BY <1>7, <1>8, SeqEqual
<1> QED
  BY <1>9 DEF a, b

\* Taking a frame takes its bytes, the head of the contents.
LEMMA ContentsTail ==
    ASSUME NEW d \in [Frames -> Bytes], NEW q \in Seq(Frames), q # <<>>
    PROVE  /\ Contents(d, q) # <<>>
           /\ Head(Contents(d, q)) = d[Head(q)]
           /\ Contents(d, Tail(q)) = Tail(Contents(d, q))
<1>1. /\ Head(q) = q[1] /\ Tail(q) \in Seq(Frames) /\ Len(Tail(q)) = Len(q) - 1
      /\ \A k \in 1 .. Len(Tail(q)) : Tail(q)[k] = q[k + 1]
      /\ DOMAIN q = 1 .. Len(q) /\ Len(q) \in Nat /\ Len(q) > 0
      /\ DOMAIN Tail(q) = 1 .. (Len(q) - 1)
  BY HeadTailProperties, LenProperties, EmptySeq
<1>2. /\ Contents(d, q) \in Seq(Bytes) /\ Len(Contents(d, q)) = Len(q)
      /\ \A k \in 1 .. Len(q) : Contents(d, q)[k] = d[q[k]]
  BY ContentsType
<1>3. Contents(d, q) # <<>>
  BY <1>1, <1>2
<1>5. /\ Contents(d, Tail(q)) \in Seq(Bytes) /\ Len(Contents(d, Tail(q))) = Len(q) - 1
      /\ \A k \in 1 .. (Len(q) - 1) : Contents(d, Tail(q))[k] = d[Tail(q)[k]]
  BY <1>1, ContentsType
<1>6. /\ Head(Contents(d, q)) = Contents(d, q)[1]
      /\ Tail(Contents(d, q)) \in Seq(Bytes)
      /\ Len(Tail(Contents(d, q))) = Len(q) - 1
      /\ \A k \in 1 .. (Len(q) - 1) : Tail(Contents(d, q))[k] = Contents(d, q)[k + 1]
  BY <1>2, <1>3, HeadTailProperties
<1>7. \A k \in 1 .. (Len(q) - 1) : Contents(d, Tail(q))[k] = Tail(Contents(d, q))[k]
  BY <1>1, <1>2, <1>5, <1>6
<1>8. Contents(d, Tail(q)) = Tail(Contents(d, q))
  BY <1>1, <1>5, <1>6, <1>7, SeqEqual
<1> QED
  BY <1>1, <1>2, <1>3, <1>6, <1>8

\* A step that leaves a queue alone leaves its contents alone.
LEMMA SameQueue ==
    ASSUME IndInv, [Next]_vars, NEW i \in Iface, rxq'[i] = rxq[i]
    PROVE  Contents(data', rxq'[i]) = Contents(data, rxq[i])
<1>1. rxq[i] \in Seq(Frames) /\ DOMAIN rxq[i] = 1 .. Len(rxq[i])
  BY LenProperties DEF IndInv, TypeOK
<1>2. \A k \in DOMAIN rxq[i] : data'[rxq[i][k]] = data[rxq[i][k]]
  <2> TAKE k \in DOMAIN rxq[i]
  <2>1. rxq[i][k] \in Frames /\ rxq[i][k] \in Range(rxq[i])
    BY <1>1, ElementOfSeq DEF Range
  <2> QED
    BY <2>1, DataStable
<1> QED
  BY <1>2 DEF Contents
\* What a step that leaves queues and the held frame alone maps to.
LEMMA StutterMaps ==
    ASSUME IndInv, [Next]_vars, rxq' = rxq, held' = held
    PROVE  UNCHANGED <<chanBar, seenBar>>
<1>1. \A i \in Iface : Contents(data', rxq'[i]) = Contents(data, rxq[i])
  BY SameQueue
<1>2. chanBar' = chanBar
  BY <1>1 DEF chanBar
<1>3. held # NoFrame => data'[held] = data[held]
  BY DataStable DEF IndInv, TypeOK
<1>4. seenBar' = seenBar
  BY <1>3 DEF seenBar
<1> QED
  BY <1>2, <1>4

\* A successful net_stack_post_rx is a Put of the frame's bytes.
LEMMA PostRxMaps ==
    ASSUME IndInv, [Next]_vars, NEW i \in Iface, PostRx(i)
    PROVE  Channel!Put(i, data[dframe[i]]) /\ data[dframe[i]] \in Payload
<1> DEFINE x == dframe[i]
<1>1. /\ x \in Frames
      /\ data \in [Frames -> Bytes] /\ rxq[i] \in Seq(Frames)
      /\ DOMAIN rxq = Iface
      /\ Len(rxq[i]) < Depth
      /\ data' = data /\ held' = held
      /\ rxq' = [rxq EXCEPT ![i] = Append(@, x)]
  BY DEF IndInv, TypeOK, Control, PostRx, pollVars, Bytes
<1>2. data[x] \in Payload
  BY <1>1, InHand DEF IndInv, Written
<1>3. Len(Contents(data, rxq[i])) = Len(rxq[i])
  BY <1>1, ContentsType
<1>4. Contents(data, Append(rxq[i], x)) = Append(Contents(data, rxq[i]), data[x])
  BY <1>1, ContentsAppend
<1>5. chanBar' = [chanBar EXCEPT ![i] = Append(@, data[x])]
  BY <1>1, <1>4 DEF chanBar
<1>6. seenBar' = seenBar
  BY <1>1 DEF seenBar
<1>7. chanBar[i] = Contents(data, rxq[i])
  BY DEF chanBar
<1> QED
  BY <1>1, <1>2, <1>3, <1>5, <1>6, <1>7 DEF Channel!Put

\* Taking a frame off the RX queue is a Get.
LEMMA TakeFrameMaps ==
    ASSUME IndInv, [Next]_vars, TakeFrame
    PROVE  cur \in Iface /\ Channel!Get(cur)
<1>1. /\ cur \in Iface /\ held = NoFrame
      /\ data \in [Frames -> Bytes] /\ rxq[cur] \in Seq(Frames)
      /\ DOMAIN rxq = Iface
      /\ rxq[cur] # <<>> /\ IsInjective(rxq[cur])
      /\ data' = data /\ held' = Head(rxq[cur])
      /\ rxq' = [rxq EXCEPT ![cur] = Tail(@)]
  <2>1. cur \in Iface /\ held = NoFrame
    BY DEF IndInv, Control, TakeFrame
  <2> QED
    BY <2>1 DEF IndInv, TypeOK, FrameConservation, NoDuplicates, TakeFrame, Bytes
<1>2. Head(rxq[cur]) # NoFrame
  BY <1>1, TailDistinct, FramePathAssumption
<1>3. /\ Contents(data, rxq[cur]) # <<>>
      /\ Head(Contents(data, rxq[cur])) = data[Head(rxq[cur])]
      /\ Contents(data, Tail(rxq[cur])) = Tail(Contents(data, rxq[cur]))
  BY <1>1, ContentsTail
<1>4. chanBar[cur] = Contents(data, rxq[cur])
  BY <1>1 DEF chanBar
<1>5. chanBar' = [chanBar EXCEPT ![cur] = Tail(@)]
  BY <1>1, <1>3 DEF chanBar
<1>6. seenBar = NoData /\ seenBar' = Head(chanBar[cur])
  BY <1>1, <1>2, <1>3, <1>4 DEF seenBar
<1> QED
  BY <1>1, <1>3, <1>4, <1>5, <1>6 DEF Channel!Get

\* Giving the frame back is a Done.
LEMMA FreeFrameMaps ==
    ASSUME IndInv, [Next]_vars, FreeFrame
    PROVE  Channel!Done
<1>1. held \in Frames /\ held' = NoFrame /\ rxq' = rxq
  BY DEF IndInv, TypeOK, Control, FreeFrame
<1>2. data[held] \in Payload
  BY <1>1, InHand DEF IndInv, Written
<1>3. \A i \in Iface : Contents(data', rxq'[i]) = Contents(data, rxq[i])
  BY <1>1, SameQueue
<1>4. chanBar' = chanBar
  BY <1>3 DEF chanBar
<1>5. seenBar # NoData /\ seenBar' = NoData
  BY <1>1, <1>2, FramePathAssumption DEF seenBar
<1> QED
  BY <1>4, <1>5 DEF Channel!Done

\* Passing pointers into a recycled slab behaves like passing the contents:
\* the receive path implements RxChannel for every pool, depth and number of
\* interfaces.
THEOREM ChannelRefinement == Spec => ImplementsChannel
<1>1. Init => Channel!Init
  <2> SUFFICES ASSUME Init PROVE Channel!Init
    OBVIOUS
  <2>1. chanBar = [i \in Iface |-> <<>>]
    BY ContentsEmpty DEF Init, chanBar
  <2> QED
    BY <2>1 DEF Init, seenBar, Channel!Init
<1>2. IndInv /\ [Next]_vars => [Channel!Next]_(Channel!vars)
  <2> SUFFICES ASSUME IndInv, [Next]_vars
               PROVE  Channel!Next \/ UNCHANGED <<chanBar, seenBar>>
    BY DEF Channel!vars
  <2>1. CASE \E i \in Iface : PostRx(i)
    BY <2>1, PostRxMaps DEF Channel!Next
  <2>2. CASE TakeFrame
    BY <2>2, TakeFrameMaps DEF Channel!Next
  <2>3. CASE FreeFrame
    BY <2>3, FreeFrameMaps DEF Channel!Next
  <2>4. ASSUME ~ \E i \in Iface : PostRx(i), ~TakeFrame, ~FreeFrame
        PROVE  UNCHANGED <<chanBar, seenBar>>
    <3>1. rxq' = rxq /\ held' = held
      BY <2>4 DEF Next, Attach, Driver, DriverBusy, PollTask, AttachEnable,
         AttachInput, AttachHandle, AttachDone, RxAlloc, PostRxFull, Reject,
         Notify, KickPoll, ResolverPoll, SkipIface, EnterIface, QueueDrained, DispatchTap,
         DispatchRx, PollIface, ComputeWait, Woken, WaitTimeout, vars, pollVars
    <3> QED
      BY <3>1, StutterMaps
  <2> QED
    BY <2>1, <2>2, <2>3, <2>4
<1> QED
  BY <1>1, <1>2, Invariance, PTL DEF Spec, ImplementsChannel, Channel!Spec
=============================================================================
