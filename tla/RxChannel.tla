----------------------------- MODULE RxChannel -----------------------------
(***************************************************************************)
(* What the receive path promises, without frames, pointers or pools: one  *)
(* bounded FIFO of frame CONTENTS per interface, filled by that            *)
(* interface's L2 driver, and one consumer (the poll task) that looks at   *)
(* one content at a time.  A driver may lose a frame instead of putting it *)
(* (nothing happens then); what is put comes out unchanged and in order.   *)
(* FramePath implements this module.                                       *)
(***************************************************************************)
EXTENDS Naturals, Sequences

CONSTANTS
    Iface,      \* the interfaces
    Depth,      \* capacity of each FIFO
    Payload,    \* frame contents
    NoData      \* the consumer is looking at nothing

VARIABLES
    chan,       \* chan[i]: contents waiting on interface i, oldest first
    seen        \* the content the consumer is looking at

Init ==
    /\ chan = [i \in Iface |-> <<>>]
    /\ seen = NoData

Put(i, d) ==
    /\ Len(chan[i]) < Depth
    /\ chan' = [chan EXCEPT ![i] = Append(@, d)]
    /\ UNCHANGED seen

Get(i) ==
    /\ chan[i] # <<>>
    /\ seen = NoData
    /\ seen' = Head(chan[i])
    /\ chan' = [chan EXCEPT ![i] = Tail(@)]

Done ==
    /\ seen # NoData
    /\ seen' = NoData
    /\ UNCHANGED chan

Next ==
    \/ \E i \in Iface, d \in Payload : Put(i, d)
    \/ \E i \in Iface : Get(i)
    \/ Done

vars == <<chan, seen>>

Spec == Init /\ [][Next]_vars
=============================================================================
