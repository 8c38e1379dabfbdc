# A TLA+ verification of esp-smoltcp

esp-smoltcp replaces lwIP on ESP-IDF by the Rust stack smoltcp. This directory
holds TLA+ models of its concurrent core, the TLC configurations that check them
on small instances, and TLAPS proofs of the main properties for every instance.
`PROJECT.json` lists runs, mutants, theorems, hazards, and the source lines each
definition stands for.

## The system

| Part | Source | State | Operations |
|---|---|---|---|
| Frame slab | `esp_smoltcp.c:34-77` | pool, free-list queue | init, alloc, free |
| RX queue, driver callback | `esp_smoltcp.c:102-120, 423-432` | one queue per interface | `eth_input_cb`, `net_stack_post_rx` |
| Poll task | `esp_smoltcp.c:196-259` | notification value, loop index, frame in hand | drain, poll, signal, sleep |
| L2 tap | `esp_smoltcp.c:122-164` | four slots | register, dispatch |
| smoltcp device | `lib.rs:62-180` | one-frame inbox, TX pool, link flag | `push_rx`, `receive`, `transmit` |
| Interface context | `lib.rs:196-476` | addresses, routes, DHCP socket, socket ids | poll, static, DHCP, getters |
| Native sockets | `esp_smoltcp_sock.c`, `lib.rs:481-660` | smoltcp sockets | TCP and UDP open .. close |
| Progress signal | `esp_smoltcp.c:219, 269-284` | event bit | `kick_poll`, `wait_progress` |
| Bring-up | `esp_smoltcp.c:369-408, 456-506` | `inited`, `enabled`, handle | init, attach, link events |
| Descriptor table | `fd_table.c` | entries, lock | alloc, get, free |
| Loopback | `loopback.c` | four port slots, queues, lock | bind, unbind, deliver |
| BSD wrappers | `sock_wrap.c`, `select_wrap.c` | descriptor entries, listener pool | socket .. close, select, poll |
| Name resolution | `netdb_wrap.c`, `dns.rs` | a temporary UDP socket | getaddrinfo, gethostbyname |
| esp_netif shim, SNTP, PTP | `esp_netif_shim.c`, `ntp.c`, `ptp.c` | little | lookups, request loop, stub |

An L2 driver copies each frame into the slab, queues the pointer and notifies the
poll task. The poll task drains the queue into smoltcp's inbox, polls smoltcp and
sets the progress bit. Application threads call the native API directly or
through the BSD wrappers; each call enters smoltcp under `g_smoltcp_lock`, then
kicks the poll task or waits for its progress bit. The hard parts are those
handovers: pointers in a recycled pool, two kinds of wakeup, three nested mutexes,
calls that span many polls, and bring-up with early returns.

## Modules

**RxChannel** is the abstract receive path: a bounded FIFO of frame contents per
interface and one consumer.

**FramePath** is the receive path as written. `freeq`, `rxq`, `dframe` and `held`
are the four places a frame pointer can be; `dpc[i]` is the driver of interface `i`
in `eth_input_cb`, `att[i]` the progress of an attach, `ppc` and `cur` the poll
task. One action is one FreeRTOS queue or notification call with the code up to
the next. `ResolverPoll` is `smoltcp_resolve` polling from another thread.
Contents are `Payload` values; `Tapped` are those an L2 tap takes. Counters are
left out. `ImplementsChannel` says FramePath implements RxChannel, mapping a queue
of pointers to the contents behind them.

**CoreLock** has the three mutexes and, per thread, the operation and program
point. `BeginNet` is any single `LOCK`/`UNLOCK` section; `BeginAlloc` and
`BeginFree` are `fd_alloc` and `fd_free` with the sections nested in them (`left`
counts them); `BeginLo` is the loopback; `BeginResolve` a name lookup, which only
threads in `Resolvers` make. `PollThread` and `EventThread` are the two threads that
call the application: the poll task from `dispatch_tap` in the middle of a drain
(`esp_smoltcp.c:159`) and from `emit_event` after the poll (225), the event-loop task
from `emit_event` in `net_stack_link_event` (98). `base` says whether a thread is
outside, in that code or in a callback, `due` how many lock sections the code
still runs itself; any operation may be called from a callback. Data is left out.

**TcpSock** is one native TCP socket used by several threads, the poll task, the
notification and the progress bit. smoltcp's TCP engine is external and modelled
by what the glue relies on: `PollIface` takes at most one segment (`Segments`),
moves the state (`Received`), acknowledges, and transmits as much as link and
window allow, possibly nothing. A byte in `txbuf` is the thread that sent it and
its offset in that thread's buffer. `expired[t]` abstracts the tick deadline of a
call. The model assumes no thread is in `smoltcp_resolve`, and one socket; the
wakeups other sockets cause are `Notify` and a free choice of `deadline`.

**BringUp** is boot to address. `done` is the set of steps of `net_stack_init` and
`esp_smoltcp_attach_eth` that took effect, `call` and `step` the call in progress;
any step in `Faults` may fail and ends its call where the code returns, and the
default event loop may exist before init, which then fails. `Retries` lets an
application repeat an init that failed. `phy`,
`events` and `link_up` follow the link from driver to smoltcp; `has_ip`, the bit
and the callback follow the address. `static` is the build's choice between a
static address and DHCP; the application may start the driver itself before the
attach does, which `done` records as `"early"`.

**Ownership** is abstract: a smoltcp socket is opened for one owner, may be moved,
and is closed with its owner. **FdTable** (`socket` .. `close` on descriptors) and
**Listener** (`listen`, `accept`, the peers, `close`) both implement it: in the
first the owners are descriptors, in the second pool slots and descriptors. In
Listener any open or listen may fail, in `listen()`, which leaves a listening
descriptor with part of its pool, and when `accept()` replenishes a slot; state
`reset` is a closed connection with data left to read, which still counts as
connected.

**Loopback** has the port slots, the queue of each descriptor and a heap of
datagrams; a delivery is a lookup under the lock and a queueing after it, a close
is unbind, drain and delete, and may fall between any two steps of a delivery.
`call[t].late` marks a delivery whose target was closed under it, `stray` the
datagrams queued between a drain and the deletion of the queue. A bind fails on
port 0, without memory for the queue or without a free slot. `Rebind` lets a
descriptor be given a second address.

**Select** is a thread that selects on four kinds of descriptor and makes a call on
each that is reported; peers act between any two probes and before each call.
`doing` is a call that found nothing and waits: it tries again after each
progress or gives up at its deadline. **Deadline** is the loop of each
blocking call on a stack that makes no progress, with a tick counter modulo
`Ticks`. **SockId** is the numbering of sockets, `handles` and the recycled slots
of smoltcp's set.

**IpConfig** has the address, netmask, gateway and route that DHCP events and a
static configuration install, and `get_ip_info` reading them in three calls.
**TxPool** is the transmit buffers and tokens inside `smoltcp_iface_poll`, with
callers that hold the mutex and, in `Unlocked`, those that do not. **L2Tap** is the
tap table, written field by field while the poll task dispatches. EtherType 0 is
taken not to be registered: `net_stack_l2_tap` does not refuse it and would match
an unused slot with it (`esp_smoltcp.c:136`).

**Codec** defines the IPv4 conversions as operators on bytes; a text is a sequence
of parts, each a number in one of the forms Rust's parser takes ("1", "+1",
"001") or no number. **Resolver** is
`smoltcp_resolve` with its answer parser, byte by byte behind the 12-byte header,
and a network that loses, repeats and delays. A name is a sequence of labels, one
a sequence of bytes; `Refuse` is the return before there is a socket, for an empty
or overlong label or a query that the 512-byte buffer does not take. Id and port
are random and checked against nothing (`dns.rs:34, 54`): `Repeats` lets a query
draw those of an earlier one that is still to be answered. The model
has no limit on the length of a response: one of more than 512 bytes, which smoltcp
drops, is among those that may be lost.

**NetStack** (CoreLock, L2Tap, BringUp), **NativeCalls** (TcpSock, Deadline),
**BsdCalls** (FdTable, Select) and **Glue** (SockId, TxPool, IpConfig, Codec,
Resolver) put several components into one run and one module of proofs. A
variable `part`, chosen in the initial state, says which component the behaviour
exercises; the variables of the others keep their initial values. Such a run is
the union of the components' runs, not their interleaving: the parts share no
state that the others' properties mention.

The **MC** modules add symmetry sets and constants; the **Proofs** modules hold
the theorems (Ownership holds its own). Definitions commented as a "faulty
variant" are the mutants: each replaces one definition by a plausible mistake,
and the property it is paired with must then fail.

## Runs

| Run | Module | Instance | States | Shows |
|---|---|---|---|---|
| `frame_safety` | MCFramePath | 2 interfaces, 3 frames, depth 2 | 382,572 | types, conservation of frames, no lost wakeup, no overwrite, refinement of RxChannel |
| `frame_liveness` | MCFramePath | 2 interfaces, 2 frames, depth 2 | 171,368 | queued frames are taken, inbox frames processed |
| `lock_order` | NetStack | application, poll and event-loop thread, the first two resolving, 1 frame per drain; tap table: 3 types, 2 callbacks, 2 slots; bring-up: failing init and attach, DHCP and static address | 228,000 | mutexes exclude, no circular wait, callbacks run unlocked; the tap table is the map registered; nothing is used before it exists, IP reports agree, no link event lost, address announced |
| `tcp_safety` | MCTcpSock | 2 threads, TX 2, RX 1, sends of 2 | 1,239,390 | nothing stranded, send order |
| `tcp_single` | MCNativeCalls | 1 thread, TX 2, RX 1, sends of 1 to 3; 32 ticks | 108,292 | no stalled waiter, calls return; blocking calls give up in time |
| `fd_own` | BsdCalls | 2 threads, 2 descriptors, 3 sockets; select on 4 descriptors | 17,282 | refinement of Ownership, no dangling handle; calls on what is reported wait only where the peer has ended, nothing is passed over |
| `listen_one` | MCListener | 1 thread, 2 slots, 2 descriptors, 3 sockets | 62,207 | refinement of Ownership, complete handshakes, every connection is accepted |
| `lo_safe` | MCLoopback | 2 threads, 2 descriptors, 2 ports, 1 slot, depth 2, 3 datagrams | 1,246,649 | no other leak than the stray datagrams, no double free, right receiver, registrations last |
| `glue` | MCGlue | socket ids: 2 interfaces, 3 slots, 4 opens; 3 callers and 3 TX buffers; 6 leases; octets 0, 1, 127, 128, 255, with "+1" and "001"; 4 names (two of which are refused), 2 ids and ports | 100,570 | handles reach their socket or none; buffers come back; one lease at a time in the getters; encodings; own answer and first A record |

## Departures

Three runs check what a comment says and find it violated:

| Run | The repository says | The model shows |
|---|---|---|
| `lock_resolve` | one mutex serialises every smoltcp call (`esp_smoltcp_internal.h:14`) | a lookup runs inside the core beside another thread |
| `tcp_connect` | connect waits for the handshake (`esp_smoltcp_sock.c:55`) | it returns ESP_OK in SYN-SENT |
| `tcp_close` | close is graceful (`sock_wrap.c:299`) | accepted, untransmitted bytes are discarded |

The modules state further claims of the repository that the code does not keep.
No run is kept for them; TLC finds each violated when the module is instantiated
as the last column says (otherwise as in the run above).

| Property | The repository says | The model shows | Instance |
|---|---|---|---|
| FramePath `PolledAfterEachRx` | smoltcp is polled after each rx (`lib.rs:99`) | two queued frames reach the inbox before one poll; the second is dropped uncounted | any |
| TcpSock `SynNotStranded` | kick after any change that triggers TX (`esp_smoltcp_internal.h:23`) | connect does not kick; the SYN waits for a sleeping task | any |
| TcpSock `FullCycleSinceWait` | a wait is one full poll cycle (`esp_smoltcp.c:280`) | a bit set earlier ends the wait at once | any |
| BringUp `InitOkMeansReady` | init is idempotent (`esp_smoltcp.h:59`) | after a failed call the next reports success with nothing ready | `Retries = TRUE` |
| BringUp `QuickStartWorks` | create the event loop, then init (`README.md:65`) | init fails because the loop exists | any |
| BringUp `LinkInSync` | safe if the driver already runs (`esp_smoltcp.c:477`) | its link-up event is lost and the link stays down | any, without `~Has("early")` |
| FdTable `FreeClosesOwned` | freeing an entry closes its socket (`fd_table.h:66`) | a second connect, also after one that failed, leaks the first socket | `Reconnect = TRUE` |
| Listener `AcceptedOnce` | accepts without races (`fd_table.h:40`) | two threads accept one connection | two `Threads` |
| Listener `StillListening` | a pool of listening sockets (compat `Kconfig:20`) | slots reset before accept stay closed | any |
| Loopback `DrainIsLast` | close drains so nothing leaks (`loopback.c:67`) | a datagram queued after the drain leaks | any |
| Loopback `AlwaysToBound` | delivery to the descriptor bound to the port (`loopback.h:47`) | a close after the lookup frees the entry, which may be reused before the datagram is queued | any |
| Loopback `DeliveredToBound` | delivery to the descriptor bound to the port (`loopback.h:47`) | a stale slot delivers to a closed or reused entry | `Rebind = TRUE` |
| Loopback `NeverOnWire` | 127.x never touches the wire (`README.md:162`) | connect and send do | `Rebind = TRUE` |
| Select `HalfClosedReadable` | half-closed sockets are readable (`select_wrap.c:38`) | CLOSE-WAIT is not reported | any |
| Select `CloseReadReturns` | a read after the close returns 0 (`select_wrap.c:38`) | recv on the reported, closed connection waits out its timeout first | any |
| Select `LoopbackRead` | recv is treated like recvfrom (`sock_wrap.c:181`) | it never reads the loopback queue | any |
| Select `ProbeKeepsDatagrams` | a zero-length read probes (`select_wrap.c:45`) | it discards the datagram | any |
| IpConfig `NoGatewayNoRoute` | the getter returns 0 if unset (`esp_smoltcp.h:85`) | gateway 0 while the old route is installed | any |
| Deadline `StuckSendTimesOut` | a stuck stack still times out (`esp_smoltcp_sock.c:96`) | not on time when ticks wrap | any |
| TxPool `AllReturned` | the pool is touched under the lock (`lib.rs:58`) | a lookup loses a buffer | a caller in `Unlocked` |
| TxPool `FrameHeld` | the frame is held until the next poll (`lib.rs:164`) | with the pool empty it is dropped | a caller in `Unlocked` |
| L2Tap `CalledAsRegistered` | frames go to the registered callback, NULL clears (`esp_smoltcp.h:124`) | a torn slot is called | `Concurrent = TRUE` |
| Codec `ParsedIsAddress` | parse yields network byte order (`smoltcp_glue.h:95`) | consumers read it reversed | any |
| Resolver `ARecordFound` | the first A record is found (`dns.rs:3`) | a label followed by a pointer derails the parser | such owners in `Answers` |

## Bounds and fairness

**Bounds.** Three frames and queues of depth two let the pool run dry, a queue
fill up, and both interfaces hold frames while the poll task holds one. Three
threads are enough for the longest wait chain (a thread waits for the table lock,
its holder for an inner mutex, a third holds that). Two senders against a
two-byte buffer interleave and cut each other (`Lens` are the sends made); the
one-thread run adds sends that do not fit the buffer. A receive buffer of one byte
is full after one segment, so window updates become due. Descriptors are fewer
than connections, so `accept` meets a full table, and sockets fewer than slots and
descriptors together; either loopback descriptor may take over the other's port, and
slots are fewer than ports, so a bind fails; tap slots are fewer than EtherTypes; slots
of the socket set fewer than opens, so they are recycled. `MaxEvents`, `MaxMsgs`,
`MaxOpens`, `MaxInFlight`, `MaxFrames`, `MaxQ`, `MaxParts` and `MaxLen` bound queues and
counters. The theorems remove these bounds for the properties they cover.

**Fairness.** FramePath assumes weak fairness of the poll task and of a driver
callback that has begun: FreeRTOS runs ready tasks, and neither blocks elsewhere.
Nothing makes frames arrive. `EveryFrameTaken` has the premise that the other
drivers fall silent and `InboxProcessed` that all do, because the drain loop
`poll_iface` runs until its queue is empty: with endless traffic the conclusions
are false in the code. TcpSock adds weak fairness of a thread inside a call, of
the tick and of the 50 ms cap; nothing makes the peer answer. BringUp assumes that
the application's call, the driver's link check, the event loop and the poll task
run. Listener and Select assume a server that keeps calling accept or select and
serves or closes what it got: `EveryConnectionAccepted` and `EverythingReported`
are about such servers. Select also assumes that a call which waits gives up at its
deadline. In a composite run a component's fairness is assumed of
the behaviours that exercise it.

Deadlock checking is on in every run.

## Proofs

Theorems are `Spec => []P` (or an action property or refinement) for every value
of the constants satisfying the module's `ASSUME`; in the four modules of several
components `Spec` is the component's own (`Tap!Spec`, `Up!Spec`, ...). There
`EachPart` shows that a behaviour of the composition satisfies the specification
of every part, and `StackCorrect`, `CallsCorrect`, `BsdCorrect` and `GlueCorrect`
conclude that what the run checks of a composition, liveness apart, holds of it for
every value of the constants.

Hypotheses are named below; TLC finds each property violated without its
hypothesis: as the table of departures says, and `OwnAnswer` with `Repeats =
TRUE`. Five theorems exist to locate a departure: `FreeClosesOwned`,
`AcceptedOnce`, `InitOkMeansReady`, `NeverOnWire` and `FrameHeld` hold, for every
instance, unless `connect()` is called on a descriptor that has a socket
(connected, or left by a connect that failed), two threads accept, an init that
failed is repeated, a descriptor gets a second address, or a caller polls without
the lock. Nothing else that is modelled breaks them.

- **FramePathProofs.** `FrameConservation` alone is not inductive: that a frame
  leaves the hand it is in needs to know where each actor stands. `IndInv` adds
  `Control` (who holds a frame at which program point), `WakeupPending` (a
  non-empty queue the poll task already passed has a notification pending or
  coming) and `Written` (a frame off the free list has contents). Each action
  moves at most one frame between two places; the lemma `MoveConserves` does the
  counting once. `RoomForOne` shows that the free list has room for a frame not
  on it, so `net_frame_free`'s unchecked send cannot fail. Theorems:
  `TypeCorrect`, `Conservation`, `WakeupNotLost`, `NoOverwrite`,
  `ChannelRefinement`.
- **NetStackProofs**, mutexes. `IndInv` adds `Held` (a mutex is held exactly in
  the stretch that counts on it) and `Control` (the points of each operation, and
  where its thread goes back to). `Unlocked` covers the callback points themselves:
  no mutex is held while a tap or event callback runs.
  `LeafMutex`: the holder of the loopback or smoltcp mutex wants nothing, hence
  no circular wait. Theorems: `TypeCorrect`, `Exclusion`, `Unlocked`,
  `DeadlockFreedom`, and `SerialWithoutResolvers`: without name lookups the core
  is entered by one thread at a time, so they are the only exception.
- **NetStackProofs**, taps. `TapsAreAMap` and `TapsCalledAsRegistered`, when
  registrations and dispatches do not overlap (`~Concurrent`). A registration is
  several stores, so in the middle of one the table describes nothing.
  `TapsDescribed` says instead that completing the stores still in `todo`
  (`Remaining`) makes it describe the map (`Describes`); `Chosen` carries the slot
  from `dispatch_tap`'s test to its call. That the lowest matching slot is a
  matching slot (`FirstSlot`) rests on the least-element principle of the naturals.
- **NetStackProofs**, bring-up. `Progress` ties `step` to what is done.
  `PollTaskEquipped`, with no hypothesis, says that a poll task has its event
  group, lock and pool; `NothingBeforeItsTime` extends this to driver and attach,
  whatever fails, when an application does not repeat an init that failed
  (`~Retries`; the repeated call breaks it), with `Ready`, and `InitOkIsReady`,
  under the same hypothesis, is `InitOkMeansReady`. `ReportsTogether` needs
  `Reporting`, the half-made reports inside a poll. `LinkNotLost` needs `Linked`:
  the last event waiting is the state of the link, and a driver the attach started
  sends none before there is a handler and an interface.
- **NativeCallsProofs**, the served socket. `TypeOK` needs `CallLocals` (outside a
  send its variables are zero). `NotStranded` is inductive with them: a poll that
  leaves something unsent also leaves a finite timeout, and between queuing and
  kicking the thread's own program point covers the gap. `StreamInOrder`, for any
  number of senders: a thread's bytes in the buffer carry consecutive offsets and
  end at the number it has handed over (`InOrder`); appending a thread's next piece
  continues its own and leaves the others' (`OrderAfterSend`), taking bytes off the
  front keeps both. `OneThreadNeverStalls` has the hypothesis of one thread, since
  the progress bit is cleared by the first of several to wake; `Latched` says that
  a thread that failed and could now go on has the bit set or about to be set.
  Theorems: `TypeCorrect`, `NothingStranded`, `StreamInOrder`,
  `OneThreadNeverStalls`.
- **NativeCallsProofs**, the stuck socket. `StuckCallsGiveUp`: `Clocked` relates the
  tick counter to the ticks since the call began. Calls that compare an absolute
  deadline are covered when it does not wrap (`NoWrap`, the premise in
  `GivesUpInTime`), accept, which compares a difference, always.
- **Ownership.OneOwnerEach** is the point of the abstract specification: owned
  sockets are open and no two owners share one.
- **BsdCallsProofs.** `FdTableOwns` (refinement) assumes `Reconnect = FALSE`: no
  `connect()` on a descriptor that has a socket. That is an assumption about the
  application, `sock_wrap.c:171` has no such test, and without it
  `FreeClosesOwned` fails; `HandlesLive` needs no such hypothesis.
  `NothingLeftOpen` is `FreeClosesOwned` itself, drawn from the refinement: what
  `OneOwnerEach` says of owners holds of descriptors. `IndInv` adds `OneCall` (one
  thread at a time on an entry), `InCall` (what a call in progress did to its
  entry's socket) and `Distinct` (no two entries name one open socket).
  `ReportsHold` is `WaitsOnlyAtTheEnd`: only the caller consumes what a probe saw,
  so when its call finds nothing the connection ended in between (`FindsEach`).
- **ListenerProofs.** `ListenerOwns` and `AcceptsComplete`, for any pool length,
  one accepting thread and any failures of listen and replenish. `AcceptsOnce` is
  `AcceptedOnce`, again from the refinement by `OneOwnerEach`; two threads break
  it. `IndInv` adds `Armed` (listen fills slots in order, up to the one that
  fails), `InAccept` and `Distinct`.
- **LoopbackProofs.** `NothingLeaks` and `RegistrationLasts` have no hypothesis:
  closes fall anywhere in a delivery, and `NoLeak` excepts the stray datagrams by
  name. `DeliveryBound` assumes one address per descriptor (`Rebind = FALSE`) and
  holds of every delivery that no close of its target has overtaken. `StaysInRam` is
  `NeverOnWire` for one address per descriptor: `BoundToNet` says that a descriptor
  whose socket has a port was bound to an address of the network, so `send()` on a
  127.x peer is refused. `SlotsLive` and `Live` tie slots and deliveries to bound
  descriptors; `Queues`, `Single` and `Accounted` say where each datagram is.
- **GlueProofs.** `HandlesReachTheirSocket` and `NoSocketStranded`, for fewer
  opens than the 24-bit part of a handle tells apart: the map from numbers to
  slots and the socket set are shown inverse to each other. `BuffersComeBack`,
  when every caller holds the lock (`Unlocked = {}`): `TokensCounted` accounts for
  each buffer as free or in the hands of the one caller inside. `OneLease`:
  `Copies` and `ReadSoFar`, what `get_ip_info` has read so far is the present
  configuration unless that changed. `ResolverCleansUp` and `AnswerIsOwn`:
  `OneQuery`, whatever is on its way with the query's id and port belongs to it;
  `AnswerIsOwn` assumes that pairs do not repeat (`~Repeats`), which for random
  ones is likely, not certain. `FramesHeld`: under the lock `receive()` always
  finds a buffer.
- **GlueProofs**, the parser. `ParserFindsA` is `ARecordFound` for all names and
  answer sections, of any length and with any data, whose owners are written out or
  one pointer (`WholeOwners`; a label followed by a pointer derails the parser, as
  the table of departures says); `AnswerIsOwn` rests on it. The loops are
  recursive functions, and what they compute takes induction over data. The
  library's induction theorems have an operator as parameter, which the provers do
  not instantiate; `NatSet` states induction for a set of naturals instead and is
  proved from the well-foundedness of `<`. For each loop a predicate says that a
  function satisfies the recursion (`Concats`, `Turns`), one lemma that such a
  function exists for every number of rounds, another what it is at each round. The
  argument then follows the message: `ConcatLayout` says at which offset each
  piece of it lies, `SkipOverName` that `SkipName` stops at a name's zero byte,
  `OwnerAt` that `EndOfOwner` is behind the owner, `TurnOnRecord` that one turn of
  the loop takes an A record's address and otherwise goes on at the next record,
  and `WalkFinds` that the turns together find the first.
- **GlueProofs**, encodings. `EncodingsSurvive` is `EncodingsAgree`, for any strings
  and every prefix length: that the parser's byte order is the opposite one is part
  of the statement. `MaskIs` relates the shift that makes a netmask to
  powers of two (`Powers`), `MaskPrinted` its bytes to its bits.

Only model-checked, for the instances in the table, is liveness
(`EveryFrameTaken`, `InboxProcessed`, `CallsReturn`, `IpAnnounced`,
`EveryConnectionAccepted`, `EverythingReported`): the prover reasons neither about
fairness nor about ENABLED. No module uses RECURSIVE operators, which would be out
of its reach as well. Every invariant, action property and refinement that a run
checks is also proved.

## Not modelled

- smoltcp itself, FreeRTOS, the Ethernet driver and the event loop are external:
  modelled by what the code relies on.
- The SNTP client: its socket has no local port (`ntp.c:49`), so smoltcp refuses
  every send and the reply path is never reached.
- `poll()` translates its arguments and calls select. `getsockopt`,
  `getsockname`, `getpeername` and the options that are accepted and ignored
  change no state.
- The allocation of `addrinfo` and the static `hostent`; IPv6 addressing; multicast
  groups, which live in smoltcp (their calls are lock sections in CoreLock).
- `esp_netif` lookups in constant tables, the PTP stub, the Rust allocator and
  panic shims, raw L2 send, statistics: no decision of the stack depends on them.
- FramePath and TcpSock are not composed: they share the poll task, and each
  stands for the other by arbitrary notifications and timeouts.
- The native UDP sendto and recvfrom: one lock section each in CoreLock, without
  their data.
- Two threads that close one descriptor at the same time, and more than 2^24 opens
  on an interface: `PROJECT.json` lists both as hazards with the reason.
- The first use of the loopback lock by two threads (`loopback.c:26`): the models
  begin with the lock created.
- A tap for EtherType 0 (`esp_smoltcp.c:136`), excluded by `NetStackAssumption`.
