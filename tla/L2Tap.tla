-------------------------------- MODULE L2Tap -------------------------------
(***************************************************************************)
(* The table of L2 taps: net_stack_l2_tap, called by any task, writes a    *)
(* slot field by field and without a lock, while dispatch_tap on the poll  *)
(* task looks a frame's EtherType up and calls the slot's callback.        *)
(***************************************************************************)
EXTENDS Naturals, Sequences, FiniteSetsExt

CONSTANTS
    Threads,       \* callers of net_stack_l2_tap
    Types,         \* EtherTypes that are registered: not 0, which marks an unused slot
                   \* (net_stack_l2_tap does not refuse it, and would match one)
    Cbs,           \* callbacks; 0 is NULL.  Callback c is registered with user c
    L2_TAP_SLOTS,
    Concurrent     \* TRUE: taps are registered while frames are dispatched

Slots == 1 .. L2_TAP_SLOTS

VARIABLES
    s_taps,        \* slot -> [ethertype, cb, user]
    todo,          \* per thread, the field writes its call has yet to make
    tapped,        \* EtherType -> the callback last registered for it, or 0
    at, loaded,    \* dispatch_tap has chosen slot at, having read loaded from its cb
    called         \* the last call: <<callback, user>>, or <<>>

vars == <<s_taps, todo, tapped, at, loaded, called>>

Init ==
    /\ s_taps = [i \in Slots |-> [ethertype |-> 0, cb |-> 0, user |-> 0]]
    /\ todo = [t \in Threads |-> <<>>] /\ tapped = [e \in Types |-> 0]
    /\ at = 0 /\ loaded = 0 /\ called = <<>>

Settled == \A t \in Threads : todo[t] = <<>>
-----------------------------------------------------------------------------
Matching(e) == {i \in Slots : s_taps[i].ethertype = e}

\* s_taps[i] = (l2_tap_t){ e, c, user }
Fill(i, e, c) == <<<<i, "ethertype", e>>, <<i, "cb", c>>, <<i, "user", c>>>>

\* Faulty variant of Writes: a registered EtherType gets another slot.
WritesNewSlot(e, c) ==
    IF c = 0 /\ Matching(e) # {} THEN Fill(Min(Matching(e)), 0, 0)
    ELSE IF c # 0 /\ Matching(0) # {} THEN Fill(Min(Matching(0)), e, c)
    ELSE <<>>

\* Faulty variant of Writes: a new callback is given the old one's user pointer.
WritesKeepUser(e, c) ==
    IF Matching(e) # {} THEN
        LET i == Min(Matching(e))
        IN  <<<<i, "cb", c>>>> \o (IF c = 0 THEN <<<<i, "ethertype", 0>>>> ELSE <<>>)
    ELSE IF c # 0 /\ Matching(0) # {} THEN Fill(Min(Matching(0)), e, c)
    ELSE <<>>

\* The writes of net_stack_l2_tap(e, c, c), in order: none if there is nothing to
\* clear or no slot left.
Writes(e, c) ==
    IF Matching(e) # {} THEN
        LET i == Min(Matching(e))
        IN  IF c # 0 THEN <<<<i, "cb", c>>, <<i, "user", c>>>>
            ELSE <<<<i, "cb", 0>>, <<i, "user", 0>>, <<i, "ethertype", 0>>>>
    ELSE IF c # 0 /\ Matching(0) # {} THEN Fill(Min(Matching(0)), e, c)
    ELSE <<>>

Call(t, e, c) ==
    /\ todo[t] = <<>>
    /\ Concurrent \/ (Settled /\ at = 0)
    /\ todo' = [todo EXCEPT ![t] = Writes(e, c)]
    /\ tapped' = IF Writes(e, c) = <<>> THEN tapped ELSE [tapped EXCEPT ![e] = c]
    /\ UNCHANGED <<s_taps, at, loaded, called>>

Write(t) ==
    /\ todo[t] # <<>>
    /\ LET w == Head(todo[t]) IN s_taps' = [s_taps EXCEPT ![w[1]][w[2]] = w[3]]
    /\ todo' = [todo EXCEPT ![t] = Tail(@)]
    /\ UNCHANGED <<tapped, at, loaded, called>>

\* dispatch_tap finds a slot for a frame of type e; without one smoltcp gets the frame
Lookup(e) ==
    LET taps == {i \in Matching(e) : s_taps[i].cb # 0}
    IN  /\ at = 0 /\ taps # {}
        /\ Concurrent \/ Settled
        /\ at' = Min(taps) /\ loaded' = s_taps[Min(taps)].cb
        /\ UNCHANGED <<s_taps, todo, tapped, called>>

\* cb(..., user): the compiler may have kept cb from the test, or load it again
Dispatch ==
    /\ at # 0
    /\ \E c \in {loaded, s_taps[at].cb} : called' = <<c, s_taps[at].user>>
    /\ at' = 0 /\ loaded' = 0
    /\ UNCHANGED <<s_taps, todo, tapped>>

Next ==
    \/ \E t \in Threads : Write(t) \/ \E e \in Types, c \in Cbs \cup {0} : Call(t, e, c)
    \/ \E e \in Types \cup {0} : Lookup(e)
    \/ Dispatch

Spec == Init /\ [][Next]_vars
-----------------------------------------------------------------------------
(***************************************************************************)
(* Between registrations the table is the map they describe: a frame goes  *)
(* to the callback last registered for its EtherType, to smoltcp if that   *)
(* was cleared or there was no slot, and type 0 is never tapped.  A        *)
(* cleared tap has given its slot back, so registrations fail only while   *)
(* as many EtherTypes are tapped as there are slots.                       *)
(***************************************************************************)
TableIsMap ==
    Settled =>
        /\ \A e \in Types \cup {0}, c \in Cbs :
               (\E i \in Slots : s_taps[i].ethertype = e /\ s_taps[i].cb = c)
                   <=> e # 0 /\ tapped[e] = c
        /\ \A i \in Slots : s_taps[i].ethertype # 0 => tapped[s_taps[i].ethertype] # 0

(***************************************************************************)
(* esp_smoltcp.h:124-126: "Register a callback for a specific EtherType so *)
(* frames bypass smoltcp. [...] Pass cb=NULL to clear."  What dispatch_tap *)
(* calls is a registered callback, with the user pointer registered for it.*)
(***************************************************************************)
CalledAsRegistered == called # <<>> => called[1] # 0 /\ called[2] = called[1]
=============================================================================
