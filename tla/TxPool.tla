------------------------------- MODULE TxPool -------------------------------
(***************************************************************************)
(* The transmit buffers of the glue: smoltcp's poll takes a token for each *)
(* frame it receives or may send, consumes it or drops it unused, and Drop *)
(* returns the buffer.  free_mask is read and written back without a lock  *)
(* of its own.  Callers of poll hold SMOLTCP_LOCK, smoltcp_resolve does    *)
(* not.                                                                    *)
(***************************************************************************)
EXTENDS Naturals

CONSTANTS
    Callers,      \* of Interface::poll
    Unlocked,     \* those that poll without SMOLTCP_LOCK
    TX_POOL_N

Bufs == 0 .. TX_POOL_N - 1

VARIABLES
    free_mask,    \* the set of free buffers
    rx_inbox,     \* a received frame is waiting
    lost,         \* a frame was taken out of rx_inbox and not handed to smoltcp
    link_up,
    pc, mask, buf \* per caller: where its poll is, the free_mask it read, its token

vars == <<free_mask, rx_inbox, lost, link_up, pc, mask, buf>>

Init ==
    /\ free_mask = Bufs /\ rx_inbox = FALSE /\ lost = FALSE /\ link_up = FALSE
    /\ pc = [c \in Callers |-> "idle"] /\ mask = [c \in Callers |-> {}]
    /\ buf = [c \in Callers |-> 0]

Goto(c, label) == pc' = [pc EXCEPT ![c] = label]
-----------------------------------------------------------------------------
Enter(c) ==
    /\ pc[c] = "idle"
    /\ c \in Unlocked \/ \A d \in Callers \ Unlocked : pc[d] = "idle"
    /\ Goto(c, "poll") /\ UNCHANGED <<free_mask, rx_inbox, lost, link_up, mask, buf>>

Leave(c) ==
    /\ pc[c] = "poll" /\ Goto(c, "idle")
    /\ UNCHANGED <<free_mask, rx_inbox, lost, link_up, mask, buf>>

\* smoltcp_iface_rx and smoltcp_iface_set_link_up, called with the lock
PushRx(c) ==
    /\ pc[c] = "poll" /\ c \notin Unlocked
    /\ rx_inbox' = TRUE
    /\ UNCHANGED <<free_mask, lost, link_up, pc, mask, buf>>

SetLinkUp(c, b) ==
    /\ pc[c] = "poll" /\ c \notin Unlocked
    /\ link_up' = b
    /\ UNCHANGED <<free_mask, rx_inbox, lost, pc, mask, buf>>

\* tx_pool_alloc, up to its test of free_mask
ReadMask(c) ==
    /\ mask' = [mask EXCEPT ![c] = free_mask]
    /\ Goto(c, IF free_mask = {} THEN "poll" ELSE "alloc")

receive(c) ==
    /\ pc[c] = "poll" /\ rx_inbox
    /\ rx_inbox' = FALSE /\ lost' = (lost \/ free_mask = {})
    /\ ReadMask(c)
    /\ UNCHANGED <<free_mask, link_up, buf>>

transmit(c) ==
    /\ pc[c] = "poll" /\ link_up
    /\ ReadMask(c)
    /\ UNCHANGED <<free_mask, rx_inbox, lost, link_up, buf>>

\* the rest of tx_pool_alloc: free_mask &= !(1 << trailing_zeros)
TakeBuf(c) ==
    /\ pc[c] = "alloc"
    /\ \E b \in mask[c] :
          /\ \A d \in mask[c] : b <= d
          /\ buf' = [buf EXCEPT ![c] = b] /\ free_mask' = mask[c] \ {b}
    /\ Goto(c, "token")
    /\ UNCHANGED <<rx_inbox, lost, link_up, mask>>

\* Faulty variant of Drop: a token smoltcp does not consume is not returned.
DropConsumedOnly(c) ==
    /\ pc[c] = "token"
    /\ mask' = [mask EXCEPT ![c] = free_mask]
    /\ \/ Goto(c, "free")
       \/ Goto(c, "poll")
    /\ UNCHANGED <<free_mask, rx_inbox, lost, link_up, buf>>

\* smoltcp consumes the token or drops it; either way Drop runs tx_pool_free
Drop(c) ==
    /\ pc[c] = "token"
    /\ mask' = [mask EXCEPT ![c] = free_mask] /\ Goto(c, "free")
    /\ UNCHANGED <<free_mask, rx_inbox, lost, link_up, buf>>

\* the rest of tx_pool_free: free_mask |= 1 << idx
FreeBuf(c) ==
    /\ pc[c] = "free"
    /\ free_mask' = mask[c] \cup {buf[c]} /\ Goto(c, "poll")
    /\ UNCHANGED <<rx_inbox, lost, link_up, mask, buf>>

Next ==
    \E c \in Callers :
        \/ Enter(c) \/ Leave(c) \/ PushRx(c) \/ \E b \in BOOLEAN : SetLinkUp(c, b)
        \/ receive(c) \/ transmit(c) \/ TakeBuf(c) \/ Drop(c) \/ FreeBuf(c)

Spec == Init /\ [][Next]_vars
-----------------------------------------------------------------------------
(***************************************************************************)
(* lib.rs:58-59, on the pool: "Single-threaded by virtue of being touched  *)
(* only under SMOLTCP_LOCK on the C side."  So no buffer is lost: while no *)
(* poll runs, all of them are free (the comment on Drop, lib.rs:135-140,   *)
(* says that the stack stops once they are not).                           *)
(***************************************************************************)
AllReturned == (\A c \in Callers : pc[c] = "idle") => free_mask = Bufs

(***************************************************************************)
(* lib.rs:162-165, on receive() finding the pool empty: "the frame is held *)
(* in inbox until next poll."  No received frame is lost there.            *)
(* The code does not keep this: see Departures in README.md.               *)
(***************************************************************************)
FrameHeld == ~lost
=============================================================================
