--------------------------- MODULE NetStackProofs ---------------------------
(***************************************************************************)
(* What surrounds the receive path. CoreLock, for every set of threads:    *)
(* the mutexes exclude, no wait is circular, no callback runs with a mutex *)
(* held, and without name resolution the Rust core is entered by one       *)
(* thread at a time. L2Tap, for any table: taps are a map. BringUp, for    *)
(* any faults: IP reports agree, no link event is lost, and as long as a   *)
(* failed init is not repeated, nothing is used before it exists and an    *)
(* init that reports success is complete. Together they are what holds of  *)
(* NetStack.                                                               *)
(***************************************************************************)
EXTENDS NetStack, Sequences, WellFoundedInduction, TLAPS

\* Initially no mutex is held and every thread is idle.
LEMMA InitIndInv == Init => IndInv
<1> SUFFICES ASSUME Init PROVE IndInv
  OBVIOUS
<1> USE CoreLockAssumption DEF Init
<1>1. TypeOK
  BY DEF TypeOK, Mutex
<1>2. Held
  BY DEF Held, InFd, InLo, InCore, Mutex
<1>3. Control
  BY DEF Control, Points
<1> QED
  BY <1>1, <1>2, <1>3 DEF IndInv

\* Every step of every operation preserves the inductive invariant: a mutex
\* is held exactly in the stretch of code that counts on it.
LEMMA NextIndInv == IndInv /\ [Next]_vars => IndInv'
<1> SUFFICES ASSUME IndInv, [Next]_vars PROVE IndInv'
  OBVIOUS
<1> USE CoreLockAssumption DEF IndInv, TypeOK, Held, Control, Points, InFd, InLo, InCore, Mutex,
     opVars, taskVars
<1>Stutter. CASE UNCHANGED vars
  BY <1>Stutter DEF vars
<1>BeginNet. ASSUME NEW t \in Threads, BeginNet(t) PROVE IndInv'
  BY <1>BeginNet DEF BeginNet, Begin
<1>BeginAlloc. ASSUME NEW t \in Threads, BeginAlloc(t) PROVE IndInv'
  BY <1>BeginAlloc DEF BeginAlloc, Begin, MayCall
<1>BeginFree. ASSUME NEW t \in Threads, BeginFree(t) PROVE IndInv'
  BY <1>BeginFree DEF BeginFree, Begin, MayCall
<1>BeginLo. ASSUME NEW t \in Threads, BeginLo(t) PROVE IndInv'
  BY <1>BeginLo DEF BeginLo, Begin, MayCall
<1>BeginResolve. ASSUME NEW t \in Threads, BeginResolve(t) PROVE IndInv'
  BY <1>BeginResolve DEF BeginResolve, Begin, MayCall
<1>BeginLink. ASSUME NEW t \in Threads, BeginLink(t) PROVE IndInv'
  BY <1>BeginLink DEF BeginLink, Moves
<1>BeginPoll. ASSUME NEW t \in Threads, BeginPoll(t) PROVE IndInv'
  BY <1>BeginPoll DEF BeginPoll, Moves
<1>TaskSection. ASSUME NEW t \in Threads, TaskSection(t) PROVE IndInv'
  BY <1>TaskSection DEF TaskSection, Begin
<1>Callback. ASSUME NEW t \in Threads, Callback(t) PROVE IndInv'
  BY <1>Callback DEF Callback, Moves
<1>CallbackReturns. ASSUME NEW t \in Threads, CallbackReturns(t) PROVE IndInv'
  BY <1>CallbackReturns DEF CallbackReturns, Moves
<1>NoEvent. ASSUME NEW t \in Threads, NoEvent(t) PROVE IndInv'
  BY <1>NoEvent DEF NoEvent, Moves
<1>TakeFd. ASSUME NEW t \in Threads, TakeFd(t) PROVE IndInv'
  BY <1>TakeFd DEF TakeFd, Take, Goto
<1>LoUnbind. ASSUME NEW t \in Threads, LoUnbind(t) PROVE IndInv'
  BY <1>LoUnbind DEF LoUnbind, Goto
<1>TakeLo. ASSUME NEW t \in Threads, TakeLo(t) PROVE IndInv'
  BY <1>TakeLo DEF TakeLo, Take, Goto
<1>GiveLo. ASSUME NEW t \in Threads, GiveLo(t) PROVE IndInv'
  BY <1>GiveLo DEF GiveLo, Give, Goto, Finish
<1>EnterSection. ASSUME NEW t \in Threads, EnterSection(t) PROVE IndInv'
  BY <1>EnterSection DEF EnterSection, Goto
<1>TakeCore. ASSUME NEW t \in Threads, TakeCore(t) PROVE IndInv'
  BY <1>TakeCore DEF TakeCore, Take, Goto
<1>GiveCore. ASSUME NEW t \in Threads, GiveCore(t) PROVE IndInv'
  BY <1>GiveCore DEF GiveCore, Give, Goto, Finish
<1>GiveFd. ASSUME NEW t \in Threads, GiveFd(t) PROVE IndInv'
  BY <1>GiveFd DEF GiveFd, Give, Finish
<1>ResolveShortcut. ASSUME NEW t \in Threads, ResolveShortcut(t) PROVE IndInv'
  BY <1>ResolveShortcut DEF ResolveShortcut, Finish
<1>ResolveUnlocked. ASSUME NEW t \in Threads, ResolveUnlocked(t) PROVE IndInv'
  BY <1>ResolveUnlocked DEF ResolveUnlocked, Goto
<1>ResolveReturns. ASSUME NEW t \in Threads, ResolveReturns(t) PROVE IndInv'
  BY <1>ResolveReturns DEF ResolveReturns, Finish
<1> QED
  BY <1>Stutter, <1>BeginNet, <1>BeginAlloc, <1>BeginFree, <1>BeginLo, <1>BeginResolve,
     <1>BeginLink, <1>BeginPoll, <1>TaskSection, <1>Callback, <1>CallbackReturns, <1>NoEvent,
     <1>TakeFd, <1>LoUnbind, <1>TakeLo, <1>GiveLo, <1>EnterSection, <1>TakeCore,
     <1>GiveCore, <1>GiveFd, <1>ResolveShortcut, <1>ResolveUnlocked, <1>ResolveReturns
  DEF Next, Call, Step

\* The inductive invariant holds throughout.
THEOREM Invariance == Spec => []IndInv
  BY InitIndInv, NextIndInv, PTL DEF Spec

\* Every thread is at one of the code's lock points and every mutex has at most one holder.
THEOREM TypeCorrect == Spec => []TypeOK
<1>1. IndInv => TypeOK
  BY DEF IndInv
<1> QED
  BY <1>1, Invariance, PTL

\* The stretches of code under one mutex never overlap.
THEOREM Exclusion == Spec => []SectionsExclusive
<1>1. IndInv => SectionsExclusive
  BY DEF IndInv, Held, SectionsExclusive
<1> QED
  BY <1>1, Invariance, PTL

\* No tap or event callback runs, no operation returns and no name is resolved with
\* a mutex held.
THEOREM Unlocked == Spec => []CallbacksUnlocked
<1>1. IndInv => CallbacksUnlocked
  BY DEF IndInv, TypeOK, Held, Control, Points, CallbacksUnlocked, InFd, InLo, InCore, Mutex
<1> QED
  BY <1>1, Invariance, PTL

\* Whoever waits for lo or core waits for a thread that runs: inside those
\* two no other mutex is requested.
LEMMA LeafMutex ==
  ASSUME IndInv, NEW t \in Threads, NEW u \in Threads,
         NEW m \in {"lo", "core"}, Wants(t, m), holder[m] = u
  PROVE  Running(u)
BY DEF IndInv, Held, InLo, InCore, Running, BlockedBy, Wants, Mutex

\* No wait is circular: fd is requested only by threads that hold nothing,
\* and lo and core are leaves.
THEOREM DeadlockFreedom == Spec => []NoCircularWait
<1>1. IndInv => NoCircularWait
  <2> SUFFICES ASSUME IndInv, NEW t \in Threads, NEW u \in Threads, BlockedBy(t, u)
               PROVE  Running(u) \/ \E v \in Threads : BlockedBy(u, v) /\ Running(v)
    BY DEF NoCircularWait
  <2>1. PICK m \in Mutex : Wants(t, m) /\ holder[m] = u
    BY DEF BlockedBy
  <2>2. CASE m \in {"lo", "core"}
    BY <2>1, <2>2, LeafMutex
  <2>3. CASE m = "fd"
    <3>1. InFd(u)
      BY <2>1, <2>3 DEF IndInv, Held
    <3>2. at[u] \notin {"idle", "wantFd"}
      BY <3>1 DEF InFd, IndInv, Control, Points
    <3>3. CASE \A v \in Threads : ~BlockedBy(u, v)
      BY <3>2, <3>3 DEF Running
    <3>4. CASE \E v \in Threads : BlockedBy(u, v)
      <4>1. PICK v \in Threads : BlockedBy(u, v)
        BY <3>4
      <4>2. PICK k \in Mutex : Wants(u, k) /\ holder[k] = v
        BY <4>1 DEF BlockedBy
      <4>3. k \in {"lo", "core"}
        BY <3>2, <4>2 DEF Wants, Mutex
      <4> QED
        BY <4>1, <4>2, <4>3, LeafMutex
    <3> QED
      BY <3>3, <3>4
  <2> QED
    BY <2>2, <2>3 DEF Mutex
<1> QED
  BY <1>1, Invariance, PTL

\* As long as nobody resolves names, no two threads are inside the Rust core
\* at once: the unlocked smoltcp_resolve is the only way in without the mutex.
THEOREM SerialWithoutResolvers == Resolvers = {} /\ Spec => []CoreExclusive
<1>1. Resolvers = {} /\ IndInv => CoreExclusive
  BY DEF IndInv, Held, Control, Points, CoreExclusive, InsideRust, InCore, TypeOK
<1>2. Resolvers = {} => [](Resolvers = {})
  OBVIOUS
<1> QED
  BY <1>1, <1>2, Invariance, PTL

-----------------------------------------------------------------------------
(* The tap table.                                                          *)

\* The scan for a slot stops at one that has what it looks for.
LEMMA FirstSlot ==
  ASSUME NEW S \in SUBSET Tap!Slots, S # {}
  PROVE  Tap!Min(S) \in S
<1>0. S \subseteq Nat
  BY NetStackAssumption DEF Tap!Slots
<1>1. PICK x \in S : \A y \in S : ~(<<y, x>> \in OpToRel(<, Nat))
  BY <1>0, NatLessThanWellFounded, WFMin
<1>2. \A y \in S : ~(y < x)
  BY <1>0, <1>1 DEF OpToRel
<1>3. \A y \in S : x <= y
  BY <1>0, <1>2
<1> QED
  BY <1>3 DEF Tap!Min

Slot(e, c, u) == [ethertype |-> e, cb |-> c, user |-> u]
Records == [ethertype : Types \cup {0}, cb : Cbs \cup {0}, user : Cbs \cup {0}]
Tables == [Tap!Slots -> Records]

\* table s with slot i replaced
With(s, i, r) == [j \in Tap!Slots |-> IF j = i THEN r ELSE s[j]]

\* table s after the field write h
Written(s, h) == [s EXCEPT ![h[1]][h[2]] = h[3]]

\* table s holds what tap says, an EtherType in at most one slot
Describes(s, tap) ==
    /\ \A i, j \in Tap!Slots :
           s[i].ethertype # 0 /\ s[i].ethertype = s[j].ethertype => i = j
    /\ \A i \in Tap!Slots : s[i].ethertype # 0 =>
           /\ tap[s[i].ethertype] = s[i].cb
           /\ s[i].cb # 0 /\ s[i].user = s[i].cb
    /\ \A i \in Tap!Slots : s[i].ethertype = 0 => s[i].cb = 0
    /\ \A e \in Types : tap[e] # 0 => \E i \in Tap!Slots : s[i].ethertype = e

\* the writes w are what is left of a call that makes r of slot i, which holds old;
\* a new slot is filled from its EtherType on, a cleared one loses it last
Remaining(w, i, r, old) ==
    LET E == <<i, "ethertype", r.ethertype>>
        C == <<i, "cb", r.cb>>
        U == <<i, "user", r.user>>
    IN  \/ w = <<E, C, U>>
        \/ w = <<C, U>> /\ old.ethertype = r.ethertype
        \/ w = <<U>> /\ old.ethertype = r.ethertype /\ old.cb = r.cb
        \/ w = <<C, U, E>>
        \/ w = <<U, E>> /\ old.cb = r.cb
        \/ w = <<E>> /\ old.cb = r.cb /\ old.user = r.user

TapsDescribed ==
    /\ s_taps \in Tables
    /\ todo = [t \in Threads |-> todo[t]]
    /\ tapped \in [Types -> Cbs \cup {0}]
    /\ \A t, u \in Threads : todo[t] # <<>> /\ todo[u] # <<>> => t = u
    /\ \A t \in Threads : todo[t] # <<>> =>
           \E i \in Tap!Slots, r \in Records :
               Remaining(todo[t], i, r, s_taps[i]) /\ Describes(With(s_taps, i, r), tapped)
    /\ Tap!Settled => Describes(s_taps, tapped)

\* dispatch_tap, between its test and its call
Chosen ==
    slot # 0 => /\ Tap!Settled /\ slot \in Tap!Slots
                /\ loaded = s_taps[slot].cb /\ loaded # 0 /\ s_taps[slot].user = loaded

\* A slot in use, or none.
LEMMA SlotType ==
  ASSUME NEW e \in Types \cup {0}, NEW c \in Cbs \cup {0}
  PROVE  \E r \in Records : r = Slot(e, c, c) /\ r.ethertype = e /\ r.cb = c /\ r.user = c
<1>1. Slot(e, c, c) \in Records
  BY DEF Records, Slot
<1>2. Slot(e, c, c).ethertype = e /\ Slot(e, c, c).cb = c /\ Slot(e, c, c).user = c
  BY DEF Slot
<1> QED
  BY <1>1, <1>2

\* A slot with one field replaced.
LEMMA FieldOfSlot ==
  ASSUME NEW r \in Records, NEW v
  PROVE  /\ r = Slot(r.ethertype, r.cb, r.user)
         /\ [r EXCEPT !["ethertype"] = v] = Slot(v, r.cb, r.user)
         /\ [r EXCEPT !["cb"] = v] = Slot(r.ethertype, v, r.user)
         /\ [r EXCEPT !["user"] = v] = Slot(r.ethertype, r.cb, v)
<1>1. r = [ethertype |-> r.ethertype, cb |-> r.cb, user |-> r.user]
  BY DEF Records
<1>2. PICK e, c, u : e = r.ethertype /\ c = r.cb /\ u = r.user
  OBVIOUS
<1>3. r = [ethertype |-> e, cb |-> c, user |-> u]
  BY <1>1, <1>2
<1>4. [r EXCEPT !["ethertype"] = v] = [ethertype |-> v, cb |-> c, user |-> u]
  BY <1>3
<1>5. [r EXCEPT !["cb"] = v] = [ethertype |-> e, cb |-> v, user |-> u]
  BY <1>3
<1>6. [r EXCEPT !["user"] = v] = [ethertype |-> e, cb |-> c, user |-> v]
  BY <1>3
<1> QED
  BY <1>2, <1>3, <1>4, <1>5, <1>6 DEF Slot

\* What one field write h does.
LEMMA FieldWritten ==
  ASSUME NEW s \in Tables, NEW i \in Tap!Slots, NEW v, NEW p, NEW h,
         p = Written(s, h)
  PROVE  /\ h = <<i, "ethertype", v>> => p = With(s, i, Slot(v, s[i].cb, s[i].user))
         /\ h = <<i, "cb", v>> => p = With(s, i, Slot(s[i].ethertype, v, s[i].user))
         /\ h = <<i, "user", v>> => p = With(s, i, Slot(s[i].ethertype, s[i].cb, v))
<1>1. s[i] \in Records /\ DOMAIN s = Tap!Slots
  BY DEF Tables
<1>2. /\ [s[i] EXCEPT !["ethertype"] = v] = Slot(v, s[i].cb, s[i].user)
      /\ [s[i] EXCEPT !["cb"] = v] = Slot(s[i].ethertype, v, s[i].user)
      /\ [s[i] EXCEPT !["user"] = v] = Slot(s[i].ethertype, s[i].cb, v)
  BY <1>1, FieldOfSlot
<1>3. ASSUME h = <<i, "ethertype", v>> PROVE p = With(s, i, Slot(v, s[i].cb, s[i].user))
  <2>1. p = [s EXCEPT ![i]["ethertype"] = v]
    BY <1>3 DEF Written
  <2> QED
    BY <1>1, <1>2, <2>1 DEF With
<1>4. ASSUME h = <<i, "cb", v>> PROVE p = With(s, i, Slot(s[i].ethertype, v, s[i].user))
  <2>1. p = [s EXCEPT ![i]["cb"] = v]
    BY <1>4 DEF Written
  <2> QED
    BY <1>1, <1>2, <2>1 DEF With
<1>5. ASSUME h = <<i, "user", v>> PROVE p = With(s, i, Slot(s[i].ethertype, s[i].cb, v))
  <2>1. p = [s EXCEPT ![i]["user"] = v]
    BY <1>5 DEF Written
  <2> QED
    BY <1>1, <1>2, <2>1 DEF With
<1> QED
  BY <1>3, <1>4, <1>5

\* Replacing slots.
LEMMA Replaced ==
  ASSUME NEW s \in Tables, NEW i \in Tap!Slots, NEW q \in Records, NEW r
  PROVE  /\ With(s, i, q) \in Tables /\ With(s, i, q)[i] = q
         /\ With(With(s, i, q), i, r) = With(s, i, r)
  BY DEF Tables, With

\* A field write of a call in progress: one fewer is left, or the slot is as the
\* call wants it.
LEMMA OneFewer ==
  ASSUME NEW s \in Tables, NEW i \in Tap!Slots, NEW r \in Records, NEW w,
         Remaining(w, i, r, s[i]),
         NEW h, h = Head(w), NEW p, p = Written(s, h)
  PROVE  \E q \in Records : /\ p = With(s, i, q)
                            /\ Tail(w) # <<>> => Remaining(Tail(w), i, r, q)
                            /\ Tail(w) = <<>> => q = r
<1>1. PICK E, C, U : /\ E = <<i, "ethertype", r.ethertype>>
                     /\ C = <<i, "cb", r.cb>> /\ U = <<i, "user", r.user>>
  OBVIOUS
<1>2. PICK o \in Records : o = s[i]
  BY DEF Tables
<1>3. /\ r = Slot(r.ethertype, r.cb, r.user)
      /\ Slot(r.ethertype, o.cb, o.user) \in Records
      /\ Slot(o.ethertype, r.cb, o.user) \in Records
      /\ Slot(o.ethertype, o.cb, r.user) \in Records
  <2>1. r = Slot(r.ethertype, r.cb, r.user)
    BY FieldOfSlot
  <2> QED
    BY <2>1 DEF Records, Slot
<1>4. /\ h = E => p = With(s, i, Slot(r.ethertype, o.cb, o.user))
      /\ h = C => p = With(s, i, Slot(o.ethertype, r.cb, o.user))
      /\ h = U => p = With(s, i, Slot(o.ethertype, o.cb, r.user))
  <2>1. h = E => p = With(s, i, Slot(r.ethertype, o.cb, o.user))
    BY <1>1, <1>2, FieldWritten
  <2>2. h = C => p = With(s, i, Slot(o.ethertype, r.cb, o.user))
    BY <1>1, <1>2, FieldWritten
  <2>3. h = U => p = With(s, i, Slot(o.ethertype, o.cb, r.user))
    BY <1>1, <1>2, FieldWritten
  <2> QED
    BY <2>1, <2>2, <2>3
<1>5. CASE w = <<E, C, U>>
  <2>1. h = E /\ Tail(w) = <<C, U>>
    BY <1>5
  <2>2. PICK q \in Records : q = Slot(r.ethertype, o.cb, o.user) /\ p = With(s, i, q)
    BY <1>3, <1>4, <2>1
  <2>3. Tail(w) # <<>> /\ Remaining(Tail(w), i, r, q)
    BY <1>1, <1>5, <2>1, <2>2 DEF Slot, Remaining
  <2> QED
    BY <2>2, <2>3
<1>6. CASE w = <<C, U>> /\ o.ethertype = r.ethertype
  <2>1. h = C /\ Tail(w) = <<U>>
    BY <1>6
  <2>2. PICK q \in Records : q = Slot(o.ethertype, r.cb, o.user) /\ p = With(s, i, q)
    BY <1>3, <1>4, <2>1
  <2>3. Tail(w) # <<>> /\ Remaining(Tail(w), i, r, q)
    BY <1>1, <1>6, <2>1, <2>2 DEF Slot, Remaining
  <2> QED
    BY <2>2, <2>3
<1>7. CASE w = <<U>> /\ o.ethertype = r.ethertype /\ o.cb = r.cb
  <2>1. h = U /\ Tail(w) = <<>>
    BY <1>7
  <2>2. PICK q \in Records : q = Slot(o.ethertype, o.cb, r.user) /\ p = With(s, i, q)
    BY <1>3, <1>4, <2>1
  <2>3. Tail(w) = <<>> /\ q = r
    BY <1>1, <1>7, <2>1, <2>2, <1>3 DEF Slot
  <2> QED
    BY <2>2, <2>3
<1>8. CASE w = <<C, U, E>>
  <2>1. h = C /\ Tail(w) = <<U, E>>
    BY <1>8
  <2>2. PICK q \in Records : q = Slot(o.ethertype, r.cb, o.user) /\ p = With(s, i, q)
    BY <1>3, <1>4, <2>1
  <2>3. Tail(w) # <<>> /\ Remaining(Tail(w), i, r, q)
    BY <1>1, <1>8, <2>1, <2>2 DEF Slot, Remaining
  <2> QED
    BY <2>2, <2>3
<1>9. CASE w = <<U, E>> /\ o.cb = r.cb
  <2>1. h = U /\ Tail(w) = <<E>>
    BY <1>9
  <2>2. PICK q \in Records : q = Slot(o.ethertype, o.cb, r.user) /\ p = With(s, i, q)
    BY <1>3, <1>4, <2>1
  <2>3. Tail(w) # <<>> /\ Remaining(Tail(w), i, r, q)
    BY <1>1, <1>9, <2>1, <2>2 DEF Slot, Remaining
  <2> QED
    BY <2>2, <2>3
<1>10. CASE w = <<E>> /\ o.cb = r.cb /\ o.user = r.user
  <2>1. h = E /\ Tail(w) = <<>>
    BY <1>10
  <2>2. PICK q \in Records : q = Slot(r.ethertype, o.cb, o.user) /\ p = With(s, i, q)
    BY <1>3, <1>4, <2>1
  <2>3. Tail(w) = <<>> /\ q = r
    BY <1>1, <1>10, <2>1, <2>2, <1>3 DEF Slot
  <2> QED
    BY <2>2, <2>3
<1> QED
  BY <1>1, <1>2, <1>5, <1>6, <1>7, <1>8, <1>9, <1>10 DEF Remaining

\* Filling a free slot adds a tap.
LEMMA TapAdded ==
  ASSUME NEW s \in Tables, NEW tap \in [Types -> Cbs \cup {0}], Describes(s, tap),
         NEW i \in Tap!Slots, s[i].ethertype = 0, NEW e \in Types, NEW c \in Cbs,
         \A j \in Tap!Slots : s[j].ethertype # e
  PROVE  Describes(With(s, i, Slot(e, c, c)), [tap EXCEPT ![e] = c])
<1>1. PICK p : p = With(s, i, Slot(e, c, c))
  OBVIOUS
<1>2. /\ \A j \in Tap!Slots : j # i => p[j] = s[j]
      /\ p[i].ethertype = e /\ p[i].cb = c /\ p[i].user = c
  BY <1>1 DEF With, Slot
<1>3. \A j \in Tap!Slots : s[j].ethertype \in Types \cup {0}
  BY DEF Tables, Records
<1>4. PICK q : q = [tap EXCEPT ![e] = c]
  OBVIOUS
<1>5. q[e] = c /\ \A f \in Types : f # e => q[f] = tap[f]
  BY <1>4
<1>6. \A j, k \in Tap!Slots : p[j].ethertype # 0 /\ p[j].ethertype = p[k].ethertype => j = k
  BY <1>2 DEF Describes
<1>7. \A j \in Tap!Slots : p[j].ethertype # 0 =>
        q[p[j].ethertype] = p[j].cb /\ p[j].cb # 0 /\ p[j].user = p[j].cb
  BY <1>2, <1>3, <1>5, NetStackAssumption DEF Describes
<1>8. \A j \in Tap!Slots : p[j].ethertype = 0 => p[j].cb = 0
  BY <1>2, NetStackAssumption DEF Describes
<1>9. \A f \in Types : q[f] # 0 => \E j \in Tap!Slots : p[j].ethertype = f
  BY <1>2, <1>3, <1>5, NetStackAssumption DEF Describes
<1>10. Describes(p, q)
  BY <1>6, <1>7, <1>8, <1>9 DEF Describes
<1> QED
  BY <1>1, <1>4, <1>10

\* Replacing the callback of a tap.
LEMMA TapChanged ==
  ASSUME NEW s \in Tables, NEW tap \in [Types -> Cbs \cup {0}], Describes(s, tap),
         NEW i \in Tap!Slots, NEW e \in Types, s[i].ethertype = e, NEW c \in Cbs
  PROVE  Describes(With(s, i, Slot(e, c, c)), [tap EXCEPT ![e] = c])
<1>1. PICK p : p = With(s, i, Slot(e, c, c))
  OBVIOUS
<1>2. /\ \A j \in Tap!Slots : j # i => p[j] = s[j]
      /\ p[i].ethertype = e /\ p[i].cb = c /\ p[i].user = c
  BY <1>1 DEF With, Slot
<1>3. \A j \in Tap!Slots : s[j].ethertype \in Types \cup {0}
  BY DEF Tables, Records
<1>4. PICK q : q = [tap EXCEPT ![e] = c]
  OBVIOUS
<1>5. q[e] = c /\ \A f \in Types : f # e => q[f] = tap[f]
  BY <1>4
<1>6. \A j, k \in Tap!Slots : p[j].ethertype # 0 /\ p[j].ethertype = p[k].ethertype => j = k
  BY <1>2 DEF Describes
<1>7. \A j \in Tap!Slots : p[j].ethertype # 0 =>
        q[p[j].ethertype] = p[j].cb /\ p[j].cb # 0 /\ p[j].user = p[j].cb
  BY <1>2, <1>3, <1>5, NetStackAssumption DEF Describes
<1>8. \A j \in Tap!Slots : p[j].ethertype = 0 => p[j].cb = 0
  BY <1>2, NetStackAssumption DEF Describes
<1>9. \A f \in Types : q[f] # 0 => \E j \in Tap!Slots : p[j].ethertype = f
  BY <1>2, <1>3, <1>5, NetStackAssumption DEF Describes
<1>10. Describes(p, q)
  BY <1>6, <1>7, <1>8, <1>9 DEF Describes
<1> QED
  BY <1>1, <1>4, <1>10

\* Clearing a tap.
LEMMA TapCleared ==
  ASSUME NEW s \in Tables, NEW tap \in [Types -> Cbs \cup {0}], Describes(s, tap),
         NEW i \in Tap!Slots, NEW e \in Types, s[i].ethertype = e
  PROVE  Describes(With(s, i, Slot(0, 0, 0)), [tap EXCEPT ![e] = 0])
<1>1. PICK p : p = With(s, i, Slot(0, 0, 0))
  OBVIOUS
<1>2. /\ \A j \in Tap!Slots : j # i => p[j] = s[j]
      /\ p[i].ethertype = 0 /\ p[i].cb = 0 /\ p[i].user = 0
  BY <1>1 DEF With, Slot
<1>3. \A j \in Tap!Slots : s[j].ethertype \in Types \cup {0}
  BY DEF Tables, Records
<1>4. PICK q : q = [tap EXCEPT ![e] = 0]
  OBVIOUS
<1>5. q[e] = 0 /\ \A f \in Types : f # e => q[f] = tap[f]
  BY <1>4
<1>6. \A j, k \in Tap!Slots : p[j].ethertype # 0 /\ p[j].ethertype = p[k].ethertype => j = k
  BY <1>2 DEF Describes
<1>7. \A j \in Tap!Slots : p[j].ethertype # 0 =>
        q[p[j].ethertype] = p[j].cb /\ p[j].cb # 0 /\ p[j].user = p[j].cb
  BY <1>2, <1>3, <1>5, NetStackAssumption DEF Describes
<1>8. \A j \in Tap!Slots : p[j].ethertype = 0 => p[j].cb = 0
  BY <1>2, NetStackAssumption DEF Describes
<1>9. \A f \in Types : q[f] # 0 => \E j \in Tap!Slots : p[j].ethertype = f
  BY <1>2, <1>3, <1>5, NetStackAssumption DEF Describes
<1>10. Describes(p, q)
  BY <1>6, <1>7, <1>8, <1>9 DEF Describes
<1> QED
  BY <1>1, <1>4, <1>10

\* Every registration, field write and dispatch keeps the table described.
LEMMA TapNextDescribed ==
  ASSUME ~Concurrent, TapsDescribed, Chosen, [Tap!Next]_(Tap!vars)
  PROVE  TapsDescribed'
<1>1. ASSUME NEW t \in Threads, Tap!Write(t) PROVE TapsDescribed'
  <2>1. PICK w, h : w = todo[t] /\ h = Head(w)
    OBVIOUS
  <2>2. /\ w # <<>> /\ s_taps' = Written(s_taps, h)
        /\ todo' = [todo EXCEPT ![t] = Tail(w)] /\ tapped' = tapped
    BY <1>1, <2>1 DEF Tap!Write, Written, TapsDescribed
  <2>3. PICK i \in Tap!Slots, r \in Records :
          Remaining(w, i, r, s_taps[i]) /\ Describes(With(s_taps, i, r), tapped)
    BY <2>1, <2>2 DEF TapsDescribed
  <2>4. PICK q \in Records : /\ s_taps' = With(s_taps, i, q)
                             /\ Tail(w) # <<>> => Remaining(Tail(w), i, r, q)
                             /\ Tail(w) = <<>> => q = r
    BY <2>1, <2>2, <2>3, OneFewer DEF TapsDescribed
  <2>5. s_taps' \in Tables /\ s_taps'[i] = q /\ With(s_taps', i, r) = With(s_taps, i, r)
    BY <2>4, Replaced DEF TapsDescribed
  <2>6. /\ \A u \in Threads : u # t => todo'[u] = todo[u] /\ todo[u] = <<>>
        /\ todo'[t] = Tail(w) /\ todo' = [u \in Threads |-> todo'[u]]
    BY <2>1, <2>2 DEF TapsDescribed
  <2>7. ASSUME NEW u \in Threads, todo'[u] # <<>>
        PROVE  \E k \in Tap!Slots, x \in Records :
                 Remaining(todo'[u], k, x, s_taps'[k]) /\ Describes(With(s_taps', k, x), tapped')
    BY <2>2, <2>3, <2>4, <2>5, <2>6, <2>7
  <2>8. Tap!Settled' => Describes(s_taps', tapped')
    BY <2>2, <2>3, <2>4, <2>6 DEF Tap!Settled
  <2>9. tapped' \in [Types -> Cbs \cup {0}]
    BY <2>2 DEF TapsDescribed
  <2> QED
    BY <2>5, <2>6, <2>7, <2>8, <2>9 DEF TapsDescribed
<1>2. ASSUME NEW t \in Threads, NEW e \in Types, NEW c \in Cbs \cup {0}, Tap!Call(t, e, c)
      PROVE  TapsDescribed'
  <2>1. PICK w : w = Tap!Writes(e, c)
    OBVIOUS
  <2>2. /\ Tap!Settled /\ s_taps' = s_taps /\ todo' = [todo EXCEPT ![t] = w]
        /\ tapped' = IF w = <<>> THEN tapped ELSE [tapped EXCEPT ![e] = c]
    BY <1>2, <2>1 DEF Tap!Call
  <2>3. /\ Describes(s_taps, tapped) /\ s_taps \in Tables /\ tapped \in [Types -> Cbs \cup {0}]
        /\ \A u \in Threads : todo[u] = <<>>
        /\ todo'[t] = w /\ todo' = [u \in Threads |-> todo'[u]]
        /\ \A u \in Threads : u # t => todo'[u] = <<>>
    BY <2>2 DEF TapsDescribed, Tap!Settled
  <2>4. tapped' \in [Types -> Cbs \cup {0}]
    BY <2>2, <2>3
  <2>5. CASE w = <<>>
    BY <2>2, <2>3, <2>4, <2>5 DEF TapsDescribed
  <2>6. ASSUME NEW i \in Tap!Slots, NEW r \in Records, w # <<>>,
               Remaining(w, i, r, s_taps[i]),
               Describes(With(s_taps, i, r), [tapped EXCEPT ![e] = c])
        PROVE  TapsDescribed'
    <3>1. \A u \in Threads : todo'[u] # <<>> =>
            \E k \in Tap!Slots, x \in Records :
              Remaining(todo'[u], k, x, s_taps'[k]) /\ Describes(With(s_taps', k, x), tapped')
      BY <2>2, <2>3, <2>6
    <3>2. ~Tap!Settled'
      BY <2>3, <2>6 DEF Tap!Settled
    <3> QED
      BY <2>2, <2>3, <2>4, <3>1, <3>2 DEF TapsDescribed
  <2>7. CASE w # <<>> /\ Tap!Matching(e) # {}
    <3>1. PICK i \in Tap!Slots : i = Tap!Min(Tap!Matching(e)) /\ s_taps[i].ethertype = e
      BY <2>7, FirstSlot DEF Tap!Matching
    <3>2. CASE c = 0
      <4>1. w = <<<<i, "cb", 0>>, <<i, "user", 0>>, <<i, "ethertype", 0>>>>
        BY <2>1, <2>7, <3>1, <3>2 DEF Tap!Writes
      <4>2. PICK r \in Records : /\ r = Slot(0, 0, 0)
                                 /\ r.ethertype = 0 /\ r.cb = 0 /\ r.user = 0
        BY SlotType
      <4>3. Remaining(w, i, r, s_taps[i])
        BY <4>1, <4>2 DEF Remaining
      <4> QED
        BY <2>3, <2>6, <2>7, <3>1, <3>2, <4>2, <4>3, TapCleared
    <3>3. CASE c # 0
      <4>1. w = <<<<i, "cb", c>>, <<i, "user", c>>>>
        BY <2>1, <2>7, <3>1, <3>3 DEF Tap!Writes
      <4>2. PICK r \in Records : /\ r = Slot(e, c, c)
                                 /\ r.ethertype = e /\ r.cb = c /\ r.user = c
        BY SlotType
      <4>3. Remaining(w, i, r, s_taps[i])
        BY <3>1, <4>1, <4>2 DEF Remaining
      <4> QED
        BY <2>3, <2>6, <2>7, <3>1, <3>3, <4>2, <4>3, TapChanged
    <3> QED
      BY <3>2, <3>3
  <2>8. CASE w # <<>> /\ Tap!Matching(e) = {}
    <3>1. c # 0 /\ Tap!Matching(0) # {}
      BY <2>1, <2>8 DEF Tap!Writes
    <3>2. PICK i \in Tap!Slots : i = Tap!Min(Tap!Matching(0)) /\ s_taps[i].ethertype = 0
      BY <3>1, FirstSlot DEF Tap!Matching
    <3>3. w = <<<<i, "ethertype", e>>, <<i, "cb", c>>, <<i, "user", c>>>>
      BY <2>1, <2>8, <3>1, <3>2 DEF Tap!Writes, Tap!Fill
    <3>4. PICK r \in Records : /\ r = Slot(e, c, c)
                               /\ r.ethertype = e /\ r.cb = c /\ r.user = c
      BY SlotType
    <3>5. Remaining(w, i, r, s_taps[i])
      BY <3>3, <3>4 DEF Remaining
    <3>6. \A j \in Tap!Slots : s_taps[j].ethertype # e
      BY <2>8 DEF Tap!Matching
    <3> QED
      BY <2>3, <2>6, <2>8, <3>1, <3>2, <3>4, <3>5, <3>6, TapAdded
  <2> QED
    BY <2>5, <2>7, <2>8
<1>3. ASSUME UNCHANGED <<s_taps, todo, tapped>> PROVE TapsDescribed'
  BY <1>3 DEF TapsDescribed, Tap!Settled
<1> QED
  BY <1>1, <1>2, <1>3 DEF Tap!Next, Tap!Lookup, Tap!Dispatch, Tap!vars

\* What dispatch_tap has chosen does not change under it.
LEMMA TapNextChosen ==
  ASSUME ~Concurrent, TapsDescribed, Chosen, [Tap!Next]_(Tap!vars)
  PROVE  Chosen'
<1>1. ASSUME NEW t \in Threads, Tap!Write(t) PROVE Chosen'
  BY <1>1 DEF Tap!Write, Chosen, Tap!Settled
<1>2. ASSUME NEW t \in Threads, NEW e \in Types, NEW c \in Cbs \cup {0}, Tap!Call(t, e, c)
      PROVE  Chosen'
  BY <1>2 DEF Tap!Call, Chosen
<1>3. ASSUME NEW e \in Types \cup {0}, Tap!Lookup(e) PROVE Chosen'
  <2>1. PICK S : S = {i \in Tap!Matching(e) : s_taps[i].cb # 0}
    OBVIOUS
  <2>2. PICK i \in Tap!Slots : i = Tap!Min(S) /\ s_taps[i].cb # 0
    <3>1. S \in SUBSET Tap!Slots /\ S # {}
      BY <1>3, <2>1 DEF Tap!Lookup, Tap!Matching
    <3> QED
      BY <2>1, <3>1, FirstSlot
  <2>3. /\ slot' = i /\ loaded' = s_taps[i].cb /\ Tap!Settled
        /\ UNCHANGED <<s_taps, todo>>
    BY <1>3, <2>1, <2>2 DEF Tap!Lookup
  <2>4. s_taps[i].user = s_taps[i].cb
    BY <2>2, <2>3 DEF TapsDescribed, Describes
  <2> QED
    BY <2>2, <2>3, <2>4 DEF Chosen, Tap!Settled
<1>4. CASE Tap!Dispatch
  BY <1>4 DEF Tap!Dispatch, Chosen
<1>5. CASE UNCHANGED Tap!vars
  BY <1>5 DEF Tap!vars, Chosen, Tap!Settled
<1> QED
  BY <1>1, <1>2, <1>3, <1>4, <1>5 DEF Tap!Next

\* Initially no slot is in use.
LEMMA TapInit == Tap!Init => TapsDescribed /\ Chosen
<1> SUFFICES ASSUME Tap!Init PROVE TapsDescribed /\ Chosen
  OBVIOUS
<1>1. s_taps \in Tables /\ \A i \in Tap!Slots : s_taps[i].ethertype = 0 /\ s_taps[i].cb = 0
  BY DEF Tap!Init, Tables, Records
<1>2. tapped \in [Types -> Cbs \cup {0}] /\ \A e \in Types : tapped[e] = 0
  BY DEF Tap!Init
<1>3. Describes(s_taps, tapped)
  BY <1>1, <1>2 DEF Describes
<1> QED
  BY <1>1, <1>2, <1>3 DEF Tap!Init, TapsDescribed, Chosen

\* For any number of slots, EtherTypes, callbacks and callers: while taps are
\* registered one at a time and not during a dispatch, the table is the map that
\* the calls of net_stack_l2_tap describe, and a cleared tap has given its slot back.
THEOREM TapsAreAMap ==
    ASSUME ~Concurrent
    PROVE  Tap!Spec => []TableIsMap
<1>1. TapsDescribed => TableIsMap
  <2> SUFFICES ASSUME TapsDescribed, Tap!Settled PROVE Tap!TableIsMap
    BY DEF TableIsMap, Tap!TableIsMap
  <2>1. Describes(s_taps, tapped) /\ s_taps \in Tables
    BY DEF TapsDescribed
  <2>2. \A e \in Types \cup {0}, c \in Cbs :
          (\E i \in Tap!Slots : s_taps[i].ethertype = e /\ s_taps[i].cb = c)
            <=> e # 0 /\ tapped[e] = c
    <3> SUFFICES ASSUME NEW e \in Types \cup {0}, NEW c \in Cbs
                 PROVE  (\E i \in Tap!Slots : s_taps[i].ethertype = e /\ s_taps[i].cb = c)
                          <=> e # 0 /\ tapped[e] = c
      OBVIOUS
    <3>1. c # 0
      BY NetStackAssumption
    <3> QED
      BY <2>1, <3>1 DEF Describes
  <2>3. \A i \in Tap!Slots : s_taps[i].ethertype # 0 => tapped[s_taps[i].ethertype] # 0
    BY <2>1 DEF Describes
  <2> QED
    BY <2>2, <2>3 DEF Tap!TableIsMap
<1>2. TapsDescribed /\ Chosen /\ [Tap!Next]_(Tap!vars) => TapsDescribed' /\ Chosen'
  BY TapNextDescribed, TapNextChosen
<1> QED
  BY <1>1, <1>2, TapInit, PTL DEF Tap!Spec

\* Under the same condition dispatch_tap calls registered callbacks only, each
\* with its own user pointer.
THEOREM TapsCalledAsRegistered ==
    ASSUME ~Concurrent
    PROVE  Tap!Spec => []CalledAsRegistered
<1>1. Tap!Init => CalledAsRegistered
  BY DEF Tap!Init, CalledAsRegistered, Tap!CalledAsRegistered
<1>2. Chosen /\ CalledAsRegistered /\ [Tap!Next]_(Tap!vars) => CalledAsRegistered'
  <2> SUFFICES ASSUME Chosen, CalledAsRegistered, [Tap!Next]_(Tap!vars)
               PROVE  CalledAsRegistered'
    OBVIOUS
  <2>1. CASE Tap!Dispatch
    BY <2>1 DEF Tap!Dispatch, Chosen, CalledAsRegistered, Tap!CalledAsRegistered
  <2>2. CASE called' = called
    BY <2>2 DEF CalledAsRegistered, Tap!CalledAsRegistered
  <2> QED
    BY <2>1, <2>2 DEF Tap!Next, Tap!Write, Tap!Call, Tap!Lookup, Tap!vars
<1>3. TapsDescribed /\ Chosen /\ [Tap!Next]_(Tap!vars) => TapsDescribed' /\ Chosen'
  BY TapNextDescribed, TapNextChosen
<1> QED
  BY <1>1, <1>2, <1>3, TapInit, PTL DEF Tap!Spec

-----------------------------------------------------------------------------
(* Bring-up.                                                               *)

InitStepSet == {"nvs", "loop", "evt", "lock", "pool", "task"}
AttachStepSet == {"mac", "input", "handler", "iface", "start", "config", "notify"}

\* Which step of which call is where.
LEMMA StepsAt ==
  /\ Len(Up!Steps["init"]) = 6 /\ Len(Up!Steps["attach"]) = 7
  /\ \A k \in 1 .. 6 : /\ Up!Steps["init"][k] \in InitStepSet
                       /\ Up!Steps["init"][k] = "task" <=> k = 6
                       /\ Up!Steps["init"][k] = "evt" <=> k = 3
                       /\ Up!Steps["init"][k] = "lock" <=> k = 4
                       /\ Up!Steps["init"][k] = "pool" <=> k = 5
                       /\ Up!Steps["init"][k] = "loop" <=> k = 2
  /\ \A k \in 1 .. 7 : /\ Up!Steps["attach"][k] \in AttachStepSet
                       /\ Up!Steps["attach"][k] = "handler" <=> k = 3
                       /\ Up!Steps["attach"][k] = "iface" <=> k = 4
                       /\ Up!Steps["attach"][k] = "start" <=> k = 5
<1>1. Up!Steps["init"] = <<"nvs", "loop", "evt", "lock", "pool", "task">>
  BY DEF Up!Steps, Up!InitSteps
<1>2. Up!Steps["attach"] = <<"mac", "input", "handler", "iface", "start", "config", "notify">>
  BY DEF Up!Steps, Up!AttachSteps
<1>3. /\ Len(Up!Steps["init"]) = 6 /\ Len(Up!Steps["attach"]) = 7
  BY <1>1, <1>2
<1>4. \A k \in 1 .. 6 : k = 1 \/ k = 2 \/ k = 3 \/ k = 4 \/ k = 5 \/ k = 6
  OBVIOUS
<1>5. \A k \in 1 .. 7 : k = 1 \/ k = 2 \/ k = 3 \/ k = 4 \/ k = 5 \/ k = 6 \/ k = 7
  OBVIOUS
<1>6. \A k \in 1 .. 6 : /\ Up!Steps["init"][k] \in InitStepSet
                        /\ Up!Steps["init"][k] = "task" <=> k = 6
                        /\ Up!Steps["init"][k] = "evt" <=> k = 3
                        /\ Up!Steps["init"][k] = "lock" <=> k = 4
                        /\ Up!Steps["init"][k] = "pool" <=> k = 5
                        /\ Up!Steps["init"][k] = "loop" <=> k = 2
  BY <1>1, <1>4 DEF InitStepSet
<1>7. \A k \in 1 .. 7 : /\ Up!Steps["attach"][k] \in AttachStepSet
                        /\ Up!Steps["attach"][k] = "handler" <=> k = 3
                        /\ Up!Steps["attach"][k] = "iface" <=> k = 4
                        /\ Up!Steps["attach"][k] = "start" <=> k = 5
  BY <1>2, <1>5 DEF AttachStepSet
<1> QED
  BY <1>3, <1>6, <1>7

\* where the application task is, and what it has done on its way there
Progress ==
    /\ call \in {"none", "init", "attach"}
    /\ call = "init" => step \in 1 .. 6 /\ Up!Has("inited")
    /\ call = "attach" => step \in 1 .. 7
    /\ call = "init" /\ step > 3 => Up!Has("evt")
    /\ call = "init" /\ step > 4 => Up!Has("lock")
    /\ call = "init" /\ step > 5 => Up!Has("pool")
    /\ call = "attach" /\ step > 3 => Up!Has("handler") /\ Up!Has("loop")
    /\ call = "attach" /\ step > 4 => Up!Has("iface")
    /\ call = "init" \/ ~Up!Has("inited") => ~Up!Has("task")
    /\ Up!Has("task") <=> ppc # "none"
    /\ Up!Has("task") => Up!Has("evt") /\ Up!Has("lock") /\ Up!Has("pool")

\* Every step of the application keeps its progress.
LEMMA NextProgress == Progress /\ [Up!Next]_(Up!vars) => Progress'
<1> SUFFICES ASSUME Progress, [Up!Next]_(Up!vars) PROVE Progress'
  OBVIOUS
<1> USE DEF Progress, Up!Has
<1>1. CASE Up!InitCall
  BY <1>1 DEF Up!InitCall, Up!Enter
<1>2. CASE Up!AttachCall
  BY <1>2 DEF Up!AttachCall, Up!Enter
<1>3. CASE Up!InitAgain
  BY <1>3 DEF Up!InitAgain
<1>4. CASE Up!CallStep
  <2>1. PICK s : s = Up!Steps[call][step]
    OBVIOUS
  <2>2. /\ call # "none" /\ ~Up!CannotSucceed(s) /\ done' = done \cup {s}
        /\ ppc' = IF s = "task" THEN "poll" ELSE ppc
        /\ IF step < Len(Up!Steps[call]) THEN step' = step + 1 /\ call' = call
           ELSE step' = 1 /\ call' = "none"
    BY <1>4, <2>1 DEF Up!CallStep
  <2>3. CASE call = "init"
    <3>1. /\ s \in InitStepSet /\ (s = "task" <=> step = 6) /\ (s = "evt" <=> step = 3)
          /\ (s = "lock" <=> step = 4) /\ (s = "pool" <=> step = 5)
      BY <2>1, <2>3, StepsAt
    <3>2. IF step < 6 THEN step' = step + 1 /\ call' = "init" ELSE step' = 1 /\ call' = "none"
      BY <2>2, <2>3, StepsAt
    <3>3. s # "inited"
      BY <3>1 DEF InitStepSet
    <3> QED
      BY <2>2, <2>3, <3>1, <3>2, <3>3
  <2>4. CASE call = "attach"
    <3>1. /\ s \in AttachStepSet /\ (s = "handler" <=> step = 3) /\ (s = "iface" <=> step = 4)
      BY <2>1, <2>4, StepsAt
    <3>2. IF step < 7 THEN step' = step + 1 /\ call' = "attach" ELSE step' = 1 /\ call' = "none"
      BY <2>2, <2>4, StepsAt
    <3>3. s # "inited" /\ s # "task"
      BY <3>1 DEF AttachStepSet
    <3>4. s = "handler" => Up!Has("loop")
      BY <2>2 DEF Up!CannotSucceed
    <3> QED
      BY <2>2, <2>4, <3>1, <3>2, <3>3, <3>4
  <2> QED
    BY <2>2, <2>3, <2>4
<1>5. CASE Up!CallFails
  BY <1>5 DEF Up!CallFails
<1>6. CASE Up!AppStarts
  BY <1>6 DEF Up!AppStarts
<1>7. CASE Up!CableChanges \/ Up!LinkCheck \/ Up!LinkEvent
  BY <1>7 DEF Up!CableChanges, Up!LinkCheck, Up!LinkEvent, Up!appVars
<1>8. CASE Up!PollTask
  BY <1>8 DEF Up!PollTask, Up!PollCore, Up!PollEvent, Up!PollBit, Up!PollWakes, Up!appVars
<1>9. CASE UNCHANGED Up!vars
  BY <1>9 DEF Up!vars, Up!appVars
<1> HIDE DEF Progress
<1> QED
  BY <1>1, <1>2, <1>3, <1>4, <1>5, <1>6, <1>7, <1>8, <1>9 DEF Up!Next

\* Initially no call has been made.
LEMMA InitProgress == Up!Init => Progress
  BY DEF Up!Init, Progress, Up!Has

\* The poll task never runs without the event groups, the mutex and the queues,
\* however init and attach fail: it is the last thing that net_stack_init starts.
THEOREM PollTaskEquipped ==
    Up!Spec => [](ppc # "none" => {"evt", "lock", "pool"} \subseteq done)
<1>1. Progress => (ppc # "none" => {"evt", "lock", "pool"} \subseteq done)
  BY DEF Progress, Up!Has
<1> QED
  BY <1>1, InitProgress, NextProgress, PTL DEF Up!Spec

\* what a successful init leaves behind
Ready ==
    /\ ~Up!Has("inited") \/ call = "init" => result.init = "none"
    /\ result.init = "ok" => Up!Has("task")
    /\ call = "attach" => Up!Has("inited") /\ Up!Has("task")
    /\ Up!Has("input") \/ Up!Has("handler") => Up!Has("task")
    /\ result = [init |-> result.init, attach |-> result.attach]

\* If a failed init is not repeated, init is complete before the attach begins.
LEMMA NextReady ==
  ASSUME ~Retries, Progress, Ready, [Up!Next]_(Up!vars)
  PROVE  Ready'
<1> USE DEF Ready, Up!Has
<1>1. CASE Up!InitCall
  BY <1>1 DEF Up!InitCall, Up!Enter
<1>2. CASE Up!AttachCall
  BY <1>2 DEF Up!AttachCall, Up!Enter
<1>3. CASE Up!InitAgain
  BY <1>3 DEF Up!InitAgain
<1>4. CASE Up!CallStep
  <2>1. PICK s : s = Up!Steps[call][step]
    OBVIOUS
  <2>2. /\ call # "none" /\ done' = done \cup {s}
        /\ IF step < Len(Up!Steps[call])
           THEN step' = step + 1 /\ UNCHANGED <<call, result>>
           ELSE step' = 1 /\ call' = "none" /\ result' = [result EXCEPT ![call] = "ok"]
    BY <1>4, <2>1 DEF Up!CallStep
  <2>3. CASE call = "init"
    <3>1. s \in InitStepSet /\ (s = "task" <=> step = 6) /\ step \in 1 .. 6
      BY <2>1, <2>3, StepsAt DEF Progress
    <3>2. IF step < 6 THEN step' = step + 1 /\ UNCHANGED <<call, result>>
          ELSE step' = 1 /\ call' = "none" /\ result' = [result EXCEPT !["init"] = "ok"]
      BY <2>2, <2>3, StepsAt
    <3>3. s \notin {"inited", "input", "handler"}
      BY <3>1 DEF InitStepSet
    <3> QED
      BY <2>2, <2>3, <3>1, <3>2, <3>3 DEF Progress
  <2>4. CASE call = "attach"
    <3>1. s \in AttachStepSet
      BY <2>1, <2>4, StepsAt DEF Progress
    <3>2. s # "inited"
      BY <3>1 DEF AttachStepSet
    <3>3. /\ (call' = call /\ result' = result)
              \/ (call' = "none" /\ result' = [result EXCEPT !["attach"] = "ok"])
      BY <2>2, <2>4
    <3> QED
      BY <2>2, <2>4, <3>2, <3>3
  <2> QED
    BY <2>2, <2>3, <2>4 DEF Progress
<1>5. CASE Up!CallFails
  BY <1>5 DEF Up!CallFails, Progress
<1>6. CASE Up!AppStarts
  BY <1>6 DEF Up!AppStarts
<1>7. CASE Up!CableChanges \/ Up!LinkCheck \/ Up!LinkEvent
  BY <1>7 DEF Up!CableChanges, Up!LinkCheck, Up!LinkEvent, Up!appVars
<1>8. CASE Up!PollTask
  BY <1>8 DEF Up!PollTask, Up!PollCore, Up!PollEvent, Up!PollBit, Up!PollWakes, Up!appVars
<1>9. CASE UNCHANGED Up!vars
  BY <1>9 DEF Up!vars, Up!appVars
<1> HIDE DEF Ready
<1> QED
  BY <1>1, <1>2, <1>3, <1>4, <1>5, <1>6, <1>7, <1>8, <1>9 DEF Up!Next

\* Wherever init or attach fails, whether or not there is an event loop already,
\* however early the driver runs and for any number of events: no task meets a
\* missing object, as long as the application does not repeat a failed init.
THEOREM NothingBeforeItsTime ==
    ASSUME ~Retries
    PROVE  Up!Spec => []ObjectsBeforeUse
<1>1. Up!Init => Ready
  BY DEF Up!Init, Ready, Up!Has
<1>2. Progress /\ Ready /\ [Up!Next]_(Up!vars) => Ready'
  BY NextReady
<1>3. Progress /\ Ready => ObjectsBeforeUse
  BY DEF Progress, Ready, ObjectsBeforeUse, Up!ObjectsBeforeUse, Up!Has
<1> QED
  BY <1>1, <1>2, <1>3, InitProgress, NextProgress, PTL DEF Up!Spec

\* esp_smoltcp.h:59: whichever calls of net_stack_init fail, every esp_smoltcp_init
\* that returns ESP_OK, the first and the repeated ones, leaves the poll task, the
\* slab pool, the mutex and the event groups in place, as long as the application
\* does not repeat one that returned an error (`inited` stays set by that one, and
\* the repeated call reports success).
THEOREM InitOkIsReady ==
    ASSUME ~Retries
    PROVE  Up!Spec => []Up!InitOkMeansReady
<1>1. Up!Init => Ready
  BY DEF Up!Init, Ready, Up!Has
<1>2. Progress /\ Ready /\ [Up!Next]_(Up!vars) => Ready'
  BY NextReady
<1>3. Progress /\ Ready => Up!InitOkMeansReady
  BY DEF Progress, Ready, Up!InitOkMeansReady, Up!Has
<1> QED
  BY <1>1, <1>2, <1>3, InitProgress, NextProgress, PTL DEF Up!Spec

\* what the poll task has yet to report
Reporting ==
    /\ ppc = "event" => told = ip_up /\ ipbit = ip_up
    /\ ppc = "bit" => told = ip_up

\* For any faults, in any order of calls and events: between two polls the flag,
\* the callback and the event bit report the same IP state.
THEOREM ReportsTogether == Up!Spec => []IpReportsAgree
<1>1. Up!Init => Reporting /\ IpReportsAgree
  BY DEF Up!Init, Reporting, IpReportsAgree, Up!IpReportsAgree
<1>2. Progress /\ Reporting /\ IpReportsAgree /\ [Up!Next]_(Up!vars)
        => (Reporting /\ IpReportsAgree)'
  <2> SUFFICES ASSUME Progress, Reporting, IpReportsAgree, [Up!Next]_(Up!vars)
               PROVE  (Reporting /\ IpReportsAgree)'
    OBVIOUS
  <2> USE DEF Reporting, IpReportsAgree, Up!IpReportsAgree
  <2>1. CASE Up!PollCore
    BY <2>1 DEF Up!PollCore
  <2>2. CASE Up!PollEvent
    BY <2>2 DEF Up!PollEvent
  <2>3. CASE Up!PollBit
    BY <2>3 DEF Up!PollBit, Up!IpBit
  <2>4. CASE Up!PollWakes
    BY <2>4 DEF Up!PollWakes, Up!ipVars
  <2>5. CASE Up!CallStep
    <3>1. PICK s : s = Up!Steps[call][step]
      OBVIOUS
    <3>2. /\ call # "none" /\ UNCHANGED <<ip_up, told, ipbit>>
          /\ ppc' = IF s = "task" THEN "poll" ELSE ppc
      BY <2>5, <3>1 DEF Up!CallStep, Up!ipVars
    <3>3. s = "task" => call = "init"
      BY <3>1, <3>2, StepsAt DEF Progress, AttachStepSet
    <3>4. s = "task" => ppc = "none"
      BY <3>3 DEF Progress
    <3> QED
      BY <3>2, <3>4
  <2>6. CASE UNCHANGED <<ppc, ip_up, told, ipbit>>
    BY <2>6
  <2> HIDE DEF Reporting, IpReportsAgree
  <2> QED
    BY <2>1, <2>2, <2>3, <2>4, <2>5, <2>6 DEF Up!Next, Up!PollTask, Up!InitCall, Up!Enter,
       Up!AttachCall, Up!InitAgain, Up!CallFails, Up!AppStarts, Up!CableChanges, Up!LinkCheck,
       Up!LinkEvent, Up!ipVars, Up!vars
<1> QED
  BY <1>1, <1>2, InitProgress, NextProgress, PTL DEF Up!Spec

\* while the driver was started by the attach: the device will be told of the
\* link state last
Linked ==
    /\ phy \in BOOLEAN /\ cable \in BOOLEAN /\ link_up \in BOOLEAN /\ events \in Seq(BOOLEAN)
    /\ ~Up!Has("early") =>
         /\ Up!Has("start") => Up!Has("handler") /\ Up!Has("iface") /\ Up!Has("loop")
         /\ ~Up!Has("start") => events = <<>>
         /\ events = <<>> => link_up = phy
         /\ events # <<>> => events[Len(events)] = phy

\* The last of a sequence.
LEMMA LastOf ==
  ASSUME NEW es \in Seq(BOOLEAN), NEW b \in BOOLEAN
  PROVE  /\ Append(es, b) \in Seq(BOOLEAN) /\ Append(es, b) # <<>>
         /\ Append(es, b)[Len(Append(es, b))] = b
         /\ es # <<>> => /\ Head(es) \in BOOLEAN /\ Tail(es) \in Seq(BOOLEAN)
                         /\ Tail(es) = <<>> => Head(es) = es[Len(es)]
                         /\ Tail(es) # <<>> => Tail(es)[Len(Tail(es))] = es[Len(es)]
<1>1. /\ Append(es, b) \in Seq(BOOLEAN) /\ Append(es, b) # <<>>
      /\ Append(es, b)[Len(Append(es, b))] = b
  OBVIOUS
<1>2. ASSUME es # <<>>
      PROVE  /\ Head(es) \in BOOLEAN /\ Tail(es) \in Seq(BOOLEAN)
             /\ Tail(es) = <<>> => Head(es) = es[Len(es)]
             /\ Tail(es) # <<>> => Tail(es)[Len(Tail(es))] = es[Len(es)]
  <2>0. Len(es) \in Nat /\ Tail(es) \in Seq(BOOLEAN) /\ Head(es) \in BOOLEAN
    BY <1>2
  <2>1. PICK n \in Nat, ts \in Seq(BOOLEAN) : n = Len(es) /\ ts = Tail(es)
    BY <2>0
  <2>2. Len(ts) = n - 1 /\ Head(es) \in BOOLEAN
    BY <1>2, <2>0, <2>1
  <2>3. ASSUME ts = <<>> PROVE Head(es) = es[n]
    <3>1. n - 1 = 0
      BY <2>2, <2>3
    <3>2. n = 1
      BY <3>1
    <3> QED
      BY <1>2, <2>1, <3>2
  <2>4. ASSUME ts # <<>> PROVE ts[Len(ts)] = es[n]
    BY <1>2, <2>1, <2>4
  <2> QED
    BY <2>1, <2>2, <2>3, <2>4
<1> QED
  BY <1>1, <1>2

\* No step loses the last link event of a driver that the attach started.
LEMMA NextLinked == Progress /\ Linked /\ [Up!Next]_(Up!vars) => Linked'
<1> SUFFICES ASSUME Progress, Linked, [Up!Next]_(Up!vars) PROVE Linked'
  OBVIOUS
<1>1. ASSUME UNCHANGED <<phy, link_up, events>>, cable' \in BOOLEAN, done \subseteq done',
             Up!Has("start")' /\ ~Up!Has("early")' =>
               Up!Has("start") \/ (Up!Has("handler") /\ Up!Has("iface") /\ Up!Has("loop"))
      PROVE  Linked'
  BY <1>1 DEF Linked, Up!Has
<1>2. CASE Up!CallStep
  <2>1. PICK s : s = Up!Steps[call][step]
    OBVIOUS
  <2>2. /\ call # "none" /\ done' = done \cup {s} /\ UNCHANGED <<cable, phy, events, link_up>>
    BY <1>2, <2>1 DEF Up!CallStep, Up!linkVars
  <2>3. s = "start" => call = "attach" /\ step = 5
    BY <2>1, <2>2, StepsAt DEF Progress, InitStepSet
  <2>4. Up!Has("start")' => Up!Has("start") \/ (Up!Has("handler") /\ Up!Has("iface") /\ Up!Has("loop"))
    BY <2>2, <2>3 DEF Progress, Up!Has
  <2> QED
    BY <1>1, <2>2, <2>4 DEF Linked
<1>3. CASE Up!AppStarts
  <2>1. "early" \in done' /\ UNCHANGED <<cable, phy, events, link_up>>
    BY <1>3 DEF Up!AppStarts, Up!linkVars
  <2> QED
    BY <2>1 DEF Linked, Up!Has
<1>4. CASE Up!InitCall \/ Up!AttachCall
  <2>1. PICK f \in {"inited", "enabled"} : done' = done \cup {f}
    BY <1>4 DEF Up!InitCall, Up!AttachCall, Up!Enter
  <2>2. UNCHANGED <<cable, phy, events, link_up>>
    BY <1>4 DEF Up!InitCall, Up!AttachCall, Up!Enter, Up!linkVars
  <2> QED
    BY <1>1, <2>1, <2>2 DEF Up!Has, Linked
<1>5. CASE Up!CableChanges
  <2>1. cable' = ~cable /\ UNCHANGED <<done, phy, events, link_up>>
    BY <1>5 DEF Up!CableChanges, Up!appVars
  <2> QED
    BY <2>1 DEF Linked, Up!Has
<1>6. CASE Up!LinkCheck
  <2>1. /\ Up!Has("start") /\ phy' = cable /\ UNCHANGED <<done, cable, link_up>>
        /\ events' = IF Up!Has("loop") THEN Append(events, cable) ELSE events
    BY <1>6 DEF Up!LinkCheck, Up!appVars
  <2>2. events' \in Seq(BOOLEAN)
    BY <2>1, LastOf DEF Linked
  <2>3. ~Up!Has("early") => events' # <<>> /\ events'[Len(events')] = phy'
    BY <2>1, LastOf DEF Linked
  <2> QED
    BY <2>1, <2>2, <2>3 DEF Linked, Up!Has
<1>7. CASE Up!LinkEvent
  <2>1. /\ events # <<>> /\ events' = Tail(events) /\ UNCHANGED <<done, cable, phy>>
        /\ link_up' = IF Up!Has("handler") /\ Up!Has("iface") THEN Head(events) ELSE link_up
    BY <1>7 DEF Up!LinkEvent, Up!appVars
  <2>2. events' \in Seq(BOOLEAN) /\ link_up' \in BOOLEAN
    BY <2>1, LastOf DEF Linked
  <2>3. ~Up!Has("early") => /\ events' = <<>> => link_up' = phy
                            /\ events' # <<>> => events'[Len(events')] = phy
    BY <2>1, LastOf DEF Linked
  <2> QED
    BY <2>1, <2>2, <2>3 DEF Linked, Up!Has
<1>8. CASE UNCHANGED <<done, cable, phy, events, link_up>>
  BY <1>8 DEF Linked, Up!Has
<1> QED
  BY <1>2, <1>3, <1>4, <1>5, <1>6, <1>7, <1>8 DEF Up!Next, Up!PollTask, Up!PollCore, Up!PollEvent,
     Up!PollBit, Up!PollWakes, Up!InitAgain, Up!CallFails, Up!appVars, Up!linkVars, Up!vars

\* For any faults and any number of waiting events: once the event loop is empty,
\* the Rust device knows the link state of a driver that the attach started.
THEOREM LinkNotLost == Up!Spec => []LinkInSync
<1>1. Up!Init => Linked
  <2> SUFFICES ASSUME Up!Init PROVE Linked
    OBVIOUS
  <2>1. /\ phy = FALSE /\ cable \in BOOLEAN /\ link_up = FALSE /\ events = <<>>
        /\ ~Up!Has("start")
    BY DEF Up!Init, Up!Has
  <2>2. events \in Seq(BOOLEAN)
    BY <2>1
  <2> QED
    BY <2>1, <2>2 DEF Linked
<1>2. Linked => LinkInSync
  BY DEF Linked, LinkInSync, Up!LinkInSync
<1> QED
  BY <1>1, <1>2, InitProgress, NextProgress, NextLinked, PTL DEF Up!Spec

-----------------------------------------------------------------------------
(* The composition.                                                        *)

\* A behaviour of the composition is one of every part: a step of one part leaves
\* the variables of the others alone.  So the theorems above hold of StackSpec.
THEOREM EachPart == StackSpec => Spec /\ Tap!Spec /\ Up!Spec
<1> DEFINE Any == LockStep \/ TapStep \/ UpStep
           all == <<part, vars, tapVars, upVars>>
<1>1. [Any]_all => [Next]_vars
  BY DEF LockStep, TapStep, UpStep
<1>2. [Any]_all => [Tap!Next]_(Tap!vars)
  BY DEF LockStep, TapStep, UpStep, tapVars, Tap!vars
<1>3. [Any]_all => [Up!Next]_(Up!vars)
  BY DEF LockStep, TapStep, UpStep, upVars, Up!vars, Up!appVars, Up!linkVars, Up!ipVars
<1>4. StackInit => Init /\ Tap!Init /\ Up!Init
  BY DEF StackInit
<1> QED
  BY <1>1, <1>2, <1>3, <1>4, PTL DEF StackSpec, Spec, Tap!Spec, Up!Spec

\* What the lock_order run checks of the stack's state, for every value of the
\* constants: its eight invariants hold of the composition when taps change between
\* frames and a failed init is not repeated.
THEOREM StackCorrect ==
    ASSUME ~Concurrent, ~Retries
    PROVE  StackSpec => [](/\ SectionsExclusive /\ NoCircularWait /\ CallbacksUnlocked
                           /\ TableIsMap /\ CalledAsRegistered
                           /\ ObjectsBeforeUse /\ IpReportsAgree /\ LinkInSync)
  BY EachPart, Exclusion, DeadlockFreedom, Unlocked, TapsAreAMap, TapsCalledAsRegistered,
     NothingBeforeItsTime, ReportsTogether, LinkNotLost, PTL
=============================================================================
