----------------------------- MODULE FramePath -----------------------------
(***************************************************************************)
(* The receive path of esp_smoltcp: the slab of frames and its free-list   *)
(* queue, the L2 driver's input callback, the per-interface RX queue, and  *)
(* the poll task that drains the queue into smoltcp's one-frame inbox.     *)
(*                                                                         *)
(* Actors: one driver task per interface (eth_input_cb), the thread that   *)
(* attaches an interface, the poll task (net_stack_task), and every thread *)
(* that kicks the poll task, or polls smoltcp itself to resolve a name.  A *)
(* FreeRTOS queue or notification call is one step; what lies between two  *)
(* of them belongs to the step before.  A call into smoltcp is one step    *)
(* too; CoreLock is about the mutex around them.  Counters are left out.   *)
(***************************************************************************)
EXTENDS Naturals, Sequences, FiniteSets, Functions

CONSTANTS
    Frames,      \* s_frame_pool: POOL_SZ frames
    NumIfaces,   \* NET_IFACE_MAX
    Depth,       \* CONFIG_NETSTACK_RX_QUEUE_DEPTH
    Payload,     \* what a driver copies into a frame
    Tapped,      \* the contents whose EtherType has an L2 tap
    NoFrame,     \* a NULL net_frame_t pointer
    NoData       \* an empty rx_inbox

Iface == 0 .. NumIfaces - 1

ASSUME FramePathAssumption ==
    /\ IsFiniteSet(Frames)
    /\ NumIfaces \in Nat
    /\ Depth \in Nat
    /\ NoFrame \notin Frames
    /\ NoData \notin Payload

VARIABLES
    freeq,      \* s_frame_free_q
    data,       \* data[f]: the bytes in frame f
    att,        \* att[i]: how far attaching interface i has come
    dpc,        \* dpc[i]: where the driver of interface i is
    dframe,     \* dframe[i]: the frame that driver holds
    rxq,        \* rxq[i]: rx_queue of interface i
    notified,   \* the poll task's notification value is not zero
    ppc,        \* where the poll task is
    cur,        \* the poll task's loop index
    held,       \* the frame the poll task holds
    deadline,   \* the poll task waits with a finite timeout
    inbox       \* inbox[i]: rx_inbox of interface i's EspDevice

drvVars == <<dpc, dframe>>
pollVars == <<ppc, cur, held, deadline>>
vars == <<freeq, data, att, dpc, dframe, rxq, notified, ppc, cur, held,
          deadline, inbox>>

(***************************************************************************)
(* After a successful net_stack_init: every frame is on the free list and  *)
(* the poll task runs with no interface attached.                          *)
(***************************************************************************)
Init ==
    /\ freeq \in Bijection(1 .. Cardinality(Frames), Frames)
    /\ data = [f \in Frames |-> NoData]
    /\ att = [i \in Iface |-> "detached"]
    /\ dpc = [i \in Iface |-> "idle"]
    /\ dframe = [i \in Iface |-> NoFrame]
    /\ rxq = [i \in Iface |-> <<>>]
    /\ notified = FALSE
    /\ ppc = "scan"
    /\ cur = 0
    /\ held = NoFrame
    /\ deadline = FALSE
    /\ inbox = [i \in Iface |-> NoData]

(***************************************************************************)
(* net_frame_free: the result of xQueueSend is ignored, so a frame that    *)
(* did not fit would be lost.                                              *)
(***************************************************************************)
net_frame_free(f) ==
    freeq' = IF Len(freeq) < Cardinality(Frames) THEN Append(freeq, f) ELSE freeq

-----------------------------------------------------------------------------
(* esp_smoltcp_attach_eth, as far as the receive path sees it.  Any step   *)
(* may be the last: the calls between them return early on an error.       *)

\* iface->enabled = true
AttachEnable(i) ==
    /\ att[i] = "detached"
    /\ att' = [att EXCEPT ![i] = "enabled"]
    /\ UNCHANGED <<freeq, data, drvVars, rxq, notified, pollVars, inbox>>

\* esp_eth_update_input_path: from here on the driver calls eth_input_cb
AttachInput(i) ==
    /\ att[i] = "enabled"
    /\ att' = [att EXCEPT ![i] = "input"]
    /\ UNCHANGED <<freeq, data, drvVars, rxq, notified, pollVars, inbox>>

\* iface->smoltcp_handle = smoltcp_iface_new(...): the handle was NULL before
AttachHandle(i) ==
    /\ att[i] = "input"
    /\ att' = [att EXCEPT ![i] = "handle"]
    /\ UNCHANGED <<freeq, data, drvVars, rxq, notified, pollVars, inbox>>

\* the closing xTaskNotifyGive
AttachDone(i) ==
    /\ att[i] = "handle"
    /\ att' = [att EXCEPT ![i] = "done"]
    /\ notified' = TRUE
    /\ UNCHANGED <<freeq, data, drvVars, rxq, pollVars, inbox>>

Enabled(i)   == att[i] # "detached"
HasInput(i)  == att[i] \in {"input", "handle", "done"}
HasHandle(i) == att[i] \in {"handle", "done"}

-----------------------------------------------------------------------------
(* The driver's RX task, in eth_input_cb.                                  *)

\* net_frame_alloc, then the memcpy into the frame.  With an empty free
\* list, or a frame longer than NET_FRAME_BUF, only a counter changes.
RxAlloc(i, d) ==
    /\ HasInput(i)
    /\ dpc[i] = "idle"
    /\ freeq # <<>>
    /\ dframe' = [dframe EXCEPT ![i] = Head(freeq)]
    /\ data' = [data EXCEPT ![Head(freeq)] = d]
    /\ freeq' = Tail(freeq)
    /\ dpc' = [dpc EXCEPT ![i] = "post"]
    /\ UNCHANGED <<att, rxq, notified, pollVars, inbox>>

\* Faulty variants of PostRx: no check that the queue has room; the frame put
\* at the front (xQueueSendToFront); the notification forgotten.
PostRxUnchecked(i) ==
    /\ dpc[i] = "post"
    /\ rxq' = [rxq EXCEPT ![i] = Append(@, dframe[i])]
    /\ dframe' = [dframe EXCEPT ![i] = NoFrame]
    /\ dpc' = [dpc EXCEPT ![i] = "notify"]
    /\ UNCHANGED <<freeq, data, att, notified, pollVars, inbox>>

PostRxFront(i) ==
    /\ dpc[i] = "post"
    /\ Len(rxq[i]) < Depth
    /\ rxq' = [rxq EXCEPT ![i] = <<dframe[i]>> \o @]
    /\ dframe' = [dframe EXCEPT ![i] = NoFrame]
    /\ dpc' = [dpc EXCEPT ![i] = "notify"]
    /\ UNCHANGED <<freeq, data, att, notified, pollVars, inbox>>

PostRxSilent(i) ==
    /\ dpc[i] = "post"
    /\ Len(rxq[i]) < Depth
    /\ rxq' = [rxq EXCEPT ![i] = Append(@, dframe[i])]
    /\ dframe' = [dframe EXCEPT ![i] = NoFrame]
    /\ dpc' = [dpc EXCEPT ![i] = "idle"]
    /\ UNCHANGED <<freeq, data, att, notified, pollVars, inbox>>

\* net_stack_post_rx, queue accepted the frame.  The !enabled branch cannot
\* be taken: the input path is installed after `enabled` and stays.
PostRx(i) ==
    /\ dpc[i] = "post"
    /\ Len(rxq[i]) < Depth
    /\ rxq' = [rxq EXCEPT ![i] = Append(@, dframe[i])]
    /\ dframe' = [dframe EXCEPT ![i] = NoFrame]
    /\ dpc' = [dpc EXCEPT ![i] = "notify"]
    /\ UNCHANGED <<freeq, data, att, notified, pollVars, inbox>>

\* net_stack_post_rx, queue full: rx_drops++ and on to net_frame_free
PostRxFull(i) ==
    /\ dpc[i] = "post"
    /\ Len(rxq[i]) >= Depth
    /\ dpc' = [dpc EXCEPT ![i] = "reject"]
    /\ UNCHANGED <<freeq, data, att, dframe, rxq, notified, pollVars, inbox>>

\* Faulty variant of Reject: the frame is not given back.
RejectLeak(i) ==
    /\ dpc[i] = "reject"
    /\ dframe' = [dframe EXCEPT ![i] = NoFrame]
    /\ dpc' = [dpc EXCEPT ![i] = "idle"]
    /\ UNCHANGED <<freeq, data, att, rxq, notified, pollVars, inbox>>

Reject(i) ==
    /\ dpc[i] = "reject"
    /\ net_frame_free(dframe[i])
    /\ dframe' = [dframe EXCEPT ![i] = NoFrame]
    /\ dpc' = [dpc EXCEPT ![i] = "idle"]
    /\ UNCHANGED <<data, att, rxq, notified, pollVars, inbox>>

\* vTaskNotifyGiveFromISR
Notify(i) ==
    /\ dpc[i] = "notify"
    /\ notified' = TRUE
    /\ dpc' = [dpc EXCEPT ![i] = "idle"]
    /\ UNCHANGED <<freeq, data, att, dframe, rxq, pollVars, inbox>>

\* net_stack_kick_poll and net_stack_link_event, from any thread
KickPoll ==
    /\ notified' = TRUE
    /\ UNCHANGED <<freeq, data, att, drvVars, rxq, pollVars, inbox>>

\* smoltcp_resolve, in the thread of its caller, polls the interface as well
ResolverPoll(i) ==
    /\ HasHandle(i)
    /\ inbox' = [inbox EXCEPT ![i] = NoData]
    /\ UNCHANGED <<freeq, data, att, drvVars, rxq, notified, pollVars>>

-----------------------------------------------------------------------------
(* The poll task: net_stack_task and poll_iface.                           *)

\* for (i = 0; i < NET_IFACE_MAX; i++) if (!enabled) continue
SkipIface ==
    /\ ppc = "scan"
    /\ cur < NumIfaces
    /\ ~Enabled(cur)
    /\ cur' = cur + 1
    /\ UNCHANGED <<freeq, data, att, drvVars, rxq, notified, ppc, held,
                   deadline, inbox>>

EnterIface ==
    /\ ppc = "scan"
    /\ cur < NumIfaces
    /\ Enabled(cur)
    /\ ppc' = "drain"
    /\ UNCHANGED <<freeq, data, att, drvVars, rxq, notified, cur, held,
                   deadline, inbox>>

\* Faulty variant of TakeFrame: the frame is freed before it is dispatched.
TakeFrameEarlyFree ==
    /\ ppc = "drain"
    /\ rxq[cur] # <<>>
    /\ held' = Head(rxq[cur])
    /\ net_frame_free(Head(rxq[cur]))
    /\ rxq' = [rxq EXCEPT ![cur] = Tail(@)]
    /\ ppc' = "dispatch"
    /\ UNCHANGED <<data, att, drvVars, notified, cur, deadline, inbox>>

\* while (xQueueReceive(i->rx_queue, &f, 0) == pdTRUE)
TakeFrame ==
    /\ ppc = "drain"
    /\ rxq[cur] # <<>>
    /\ held' = Head(rxq[cur])
    /\ rxq' = [rxq EXCEPT ![cur] = Tail(@)]
    /\ ppc' = "dispatch"
    /\ UNCHANGED <<freeq, data, att, drvVars, notified, cur, deadline, inbox>>

\* Faulty variant of QueueDrained: smoltcp is not polled after the drain.
QueueDrainedSkip ==
    /\ ppc = "drain"
    /\ rxq[cur] = <<>>
    /\ ppc' = "scan"
    /\ cur' = cur + 1
    /\ UNCHANGED <<freeq, data, att, drvVars, rxq, notified, held, deadline, inbox>>

QueueDrained ==
    /\ ppc = "drain"
    /\ rxq[cur] = <<>>
    /\ ppc' = "poll"
    /\ UNCHANGED <<freeq, data, att, drvVars, rxq, notified, cur, held,
                   deadline, inbox>>

\* dispatch_tap handed the frame to a callback
DispatchTap ==
    /\ ppc = "dispatch"
    /\ data[held] \in Tapped
    /\ ppc' = "free"
    /\ UNCHANGED <<freeq, data, att, drvVars, rxq, notified, cur, held,
                   deadline, inbox>>

\* smoltcp_iface_rx: push_rx copies the frame unless one is pending already;
\* a NULL handle ignores it
DispatchRx ==
    /\ ppc = "dispatch"
    /\ data[held] \notin Tapped
    /\ inbox' = IF HasHandle(cur) /\ inbox[cur] = NoData
                THEN [inbox EXCEPT ![cur] = data[held]] ELSE inbox
    /\ ppc' = "free"
    /\ UNCHANGED <<freeq, data, att, drvVars, rxq, notified, cur, held,
                   deadline>>

FreeFrame ==
    /\ ppc = "free"
    /\ net_frame_free(held)
    /\ held' = NoFrame
    /\ ppc' = "drain"
    /\ UNCHANGED <<data, att, drvVars, rxq, notified, cur, deadline, inbox>>

\* smoltcp_iface_poll consumes the inbox; then the progress bit and the IP
\* events, which this module leaves out
PollIface ==
    /\ ppc = "poll"
    /\ inbox' = [inbox EXCEPT ![cur] = NoData]
    /\ cur' = cur + 1
    /\ ppc' = "scan"
    /\ UNCHANGED <<freeq, data, att, drvVars, rxq, notified, held, deadline>>

\* Faulty variant of ComputeWait: pending notifications are cleared first.
ComputeWaitClear ==
    /\ ppc = "scan"
    /\ cur = NumIfaces
    /\ deadline' \in BOOLEAN
    /\ ppc' = "wait"
    /\ notified' = FALSE
    /\ UNCHANGED <<freeq, data, att, drvVars, rxq, cur, held, inbox>>

\* the soonest smoltcp deadline, which may be none (portMAX_DELAY)
ComputeWait ==
    /\ ppc = "scan"
    /\ cur = NumIfaces
    /\ deadline' \in BOOLEAN
    /\ ppc' = "wait"
    /\ UNCHANGED <<freeq, data, att, drvVars, rxq, notified, cur, held, inbox>>

\* ulTaskNotifyTake(pdTRUE, wait) returns: a notification clears the count
Woken ==
    /\ ppc = "wait"
    /\ notified
    /\ notified' = FALSE
    /\ ppc' = "scan"
    /\ cur' = 0
    /\ UNCHANGED <<freeq, data, att, drvVars, rxq, held, deadline, inbox>>

\* ... or the timeout elapsed
WaitTimeout ==
    /\ ppc = "wait"
    /\ deadline
    /\ ~notified
    /\ ppc' = "scan"
    /\ cur' = 0
    /\ UNCHANGED <<freeq, data, att, drvVars, rxq, notified, held, deadline, inbox>>

-----------------------------------------------------------------------------
Attach(i) == AttachEnable(i) \/ AttachInput(i) \/ AttachHandle(i) \/ AttachDone(i)

\* the driver callback once it has a frame: it runs to its end
DriverBusy(i) == PostRx(i) \/ PostRxFull(i) \/ Reject(i) \/ Notify(i)

Driver(i) == (\E d \in Payload : RxAlloc(i, d)) \/ DriverBusy(i)

PollTask ==
    \/ SkipIface \/ EnterIface
    \/ TakeFrame \/ QueueDrained \/ DispatchTap \/ DispatchRx \/ FreeFrame
    \/ PollIface
    \/ ComputeWait \/ Woken \/ WaitTimeout

Next ==
    \/ \E i \in Iface : Attach(i) \/ Driver(i) \/ ResolverPoll(i)
    \/ KickPoll
    \/ PollTask

Spec == Init /\ [][Next]_vars

(***************************************************************************)
(* The scheduler keeps running a task that is ready: the poll task         *)
(* (priority 10 by default) and a driver callback that has begun.  Nothing *)
(* makes frames arrive, threads kick or an attach go on.                   *)
(***************************************************************************)
Fairness ==
    /\ WF_vars(PollTask)
    /\ \A i \in Iface : WF_vars(DriverBusy(i))

FairSpec == Spec /\ Fairness
-----------------------------------------------------------------------------
TypeOK ==
    /\ freeq \in Seq(Frames) /\ Len(freeq) <= Cardinality(Frames)
    /\ data \in [Frames -> Payload \cup {NoData}]
    /\ att \in [Iface -> {"detached", "enabled", "input", "handle", "done"}]
    /\ dpc \in [Iface -> {"idle", "post", "reject", "notify"}]
    /\ dframe \in [Iface -> Frames \cup {NoFrame}]
    /\ rxq \in [Iface -> Seq(Frames)]
    /\ \A i \in Iface : Len(rxq[i]) <= Depth
    /\ notified \in BOOLEAN
    /\ ppc \in {"scan", "drain", "dispatch", "free", "poll", "wait"}
    /\ cur \in 0 .. NumIfaces
    /\ held \in Frames \cup {NoFrame}
    /\ deadline \in BOOLEAN
    /\ inbox \in [Iface -> Payload \cup {NoData}]

(***************************************************************************)
(* The places a frame can be in, and the frames in each.                   *)
(***************************************************************************)
Place == {<<"free", 0>>, <<"poll", 0>>} \cup ({"rxq", "driver"} \X Iface)

At(p) ==
    CASE p[1] = "free"   -> Range(freeq)
      [] p[1] = "poll"   -> {held} \ {NoFrame}
      [] p[1] = "rxq"    -> Range(rxq[p[2]])
      [] p[1] = "driver" -> {dframe[p[2]]} \ {NoFrame}

NoDuplicates == IsInjective(freeq) /\ \A i \in Iface : IsInjective(rxq[i])

(***************************************************************************)
(* Frame conservation (net_frame_alloc/free, net_stack_post_rx,            *)
(* poll_iface): at any moment each frame of the slab is in exactly one     *)
(* place, once.  No path leaks a frame, frees it twice, or leaves a        *)
(* pointer to it behind; so net_frame_free's unchecked xQueueSend always   *)
(* has room.                                                               *)
(***************************************************************************)
FrameConservation ==
    /\ NoDuplicates
    /\ \A f \in Frames : \E p \in Place :
          /\ f \in At(p)
          /\ \A q \in Place : f \in At(q) => q = p

(***************************************************************************)
(* No lost wakeup: the poll task never sleeps in ulTaskNotifyTake without  *)
(* a pending notification while a frame waits in an RX queue, unless the   *)
(* driver that queued it is still about to notify (post_rx enqueues before *)
(* it notifies; the task drains before it waits).                          *)
(***************************************************************************)
NoLostWakeup ==
    ppc = "wait" /\ ~notified =>
        \A i \in Iface : rxq[i] # <<>> => dpc[i] = "notify"

(***************************************************************************)
(* Frames are handed over by pointer, yet no step changes the bytes of a   *)
(* frame that is queued or in the poll task's hands (the driver only       *)
(* writes into a frame it took off the free list).                         *)
(***************************************************************************)
NoOverwriteInFlight ==
    [][\A f \in Frames :
          (f = held \/ \E i \in Iface : f \in Range(rxq[i])) => data'[f] = data[f]]_vars

(***************************************************************************)
(* Every queued frame is taken by the poll task, whatever smoltcp's        *)
(* deadlines are, provided the drivers of the other interfaces fall        *)
(* silent: poll_iface stays with one queue until it finds it empty.        *)
(***************************************************************************)
Silent(i) == dpc[i] = "idle"

EveryFrameTaken ==
    \A i \in Iface :
        (\A j \in Iface \ {i} : <>[]Silent(j)) =>
            \A f \in Frames : f \in Range(rxq[i]) ~> f \notin Range(rxq[i])

(***************************************************************************)
(* A frame that reached smoltcp's inbox is processed by a poll of that     *)
(* interface, provided the drivers fall silent (the drain loop runs to an  *)
(* empty queue before smoltcp_iface_poll).                                 *)
(***************************************************************************)
InboxProcessed ==
    (\A j \in Iface : <>[]Silent(j)) =>
        \A i \in Iface : inbox[i] # NoData ~> inbox[i] = NoData

\* the bytes d behind a queue q of frame pointers
Contents(d, q) == [k \in DOMAIN q |-> d[q[k]]]

chanBar == [i \in Iface |-> Contents(data, rxq[i])]
seenBar == IF held = NoFrame THEN NoData ELSE data[held]

Channel == INSTANCE RxChannel WITH chan <- chanBar, seen <- seenBar

(***************************************************************************)
(* The receive path implements a FIFO of frame contents per interface,     *)
(* although it passes pointers into a recycled slab.                       *)
(***************************************************************************)
ImplementsChannel == Channel!Spec

(***************************************************************************)
(* EspDevice::push_rx (lib.rs:99): "smoltcp is polled immediately after    *)
(* each rx": when poll_iface hands smoltcp a frame, the previous one has   *)
(* been polled, so the inbox is empty and nothing is dropped.              *)
(* The code does not keep this: see Departures in README.md.               *)
(***************************************************************************)
PolledAfterEachRx ==
    ppc = "dispatch" /\ data[held] \notin Tapped /\ HasHandle(cur) => inbox[cur] = NoData

-----------------------------------------------------------------------------
(* The inductive strengthening used by FramePathProofs.                    *)

\* what the control points say about the frames in hand
Control ==
    /\ cur \in Iface \/ (cur = NumIfaces /\ ppc \in {"scan", "wait"})
    /\ ppc = "wait" => cur = NumIfaces
    /\ held # NoFrame <=> ppc \in {"dispatch", "free"}
    /\ \A i \in Iface :
          /\ dframe[i] # NoFrame <=> dpc[i] \in {"post", "reject"}
          /\ ~HasInput(i) => dpc[i] = "idle" /\ rxq[i] = <<>>

\* the poll task has seen queue i empty since it last waited
Passed(i) == i < cur \/ (i = cur /\ ppc = "poll")

WakeupPending ==
    \A i \in Iface :
        Passed(i) /\ rxq[i] # <<>> => notified \/ dpc[i] = "notify"

\* a frame that left the driver's hands has been written
Written ==
    \A f \in Frames :
        f \notin Range(freeq) => data[f] \in Payload

IndInv == TypeOK /\ Control /\ FrameConservation /\ WakeupPending /\ Written
=============================================================================
