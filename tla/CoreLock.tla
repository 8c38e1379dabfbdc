------------------------------ MODULE CoreLock ------------------------------
(***************************************************************************)
(* The three mutexes of the stack and every way a thread nests them:       *)
(*                                                                         *)
(*   core  g_smoltcp_lock, which serialises calls into the Rust core;      *)
(*   fd    s_lock of fd_table.c;                                           *)
(*   lo    s_lock of loopback.c.                                           *)
(*                                                                         *)
(* A thread is an application task, the poll task or the event-loop task.  *)
(* All of them call the APIs: application tasks at any time, the poll task *)
(* from the tap and event callbacks of poll_iface, the event-loop task     *)
(* from the event callback of net_stack_link_event and from the            *)
(* application's own handlers.  Only Resolvers look names up.              *)
(***************************************************************************)
EXTENDS Naturals, FiniteSets

CONSTANTS
    Threads,
    PollThread,    \* the thread of net_stack_task
    EventThread,   \* the thread of the default event loop
    Resolvers,     \* the threads that call getaddrinfo or gethostbyname
    MaxFrames,     \* bound: frames that one drain passes to the core
    MaxOwned,      \* the most smoltcp sockets one descriptor owns
    NumIfaces,     \* NET_IFACE_MAX
    Nobody         \* the holder of a free mutex

ASSUME CoreLockAssumption ==
    /\ PollThread \in Threads /\ EventThread \in Threads /\ PollThread # EventThread
    /\ Resolvers \subseteq Threads
    /\ MaxFrames \in Nat
    /\ MaxOwned \in Nat
    /\ NumIfaces \in Nat
    /\ Nobody \notin Threads

Mutex == {"core", "fd", "lo"}

VARIABLES
    holder,     \* holder[m]: the thread that holds mutex m
    op,         \* op[t]: the operation thread t is in
    at,         \* at[t]: where in that operation it is
    left,       \* left[t]: core sections the operation still has to run
    unbind,     \* unbind[t]: fd_free still has to call lo_unbind
    base,       \* base[t]: where t is between two operations: "idle", in the code of
                \* poll_iface or net_stack_link_event ("task"), or in a user callback
    due         \* due[t]: core sections that code still has to run itself

opVars == <<op, left, unbind>>
taskVars == <<base, due>>
vars == <<holder, at, opVars, taskVars>>

Init ==
    /\ holder = [m \in Mutex |-> Nobody]
    /\ op = [t \in Threads |-> "none"]
    /\ at = [t \in Threads |-> "idle"]
    /\ left = [t \in Threads |-> 0]
    /\ unbind = [t \in Threads |-> FALSE]
    /\ base = [t \in Threads |-> "idle"]
    /\ due = [t \in Threads |-> 0]

Begin(t, o, a) ==
    /\ op' = [op EXCEPT ![t] = o]
    /\ at' = [at EXCEPT ![t] = a]
    /\ UNCHANGED holder

\* an API may be called: by the poll task in callbacks only
MayCall(t) == at[t] = "callback" \/ (at[t] = "idle" /\ t # PollThread)

\* the operation of t is over
Finish(t) ==
    /\ op' = [op EXCEPT ![t] = "none"]
    /\ at' = [at EXCEPT ![t] = base[t]]

\* t moves on to b between two operations
Moves(t, b) ==
    /\ base' = [base EXCEPT ![t] = b]
    /\ at' = [at EXCEPT ![t] = b]
    /\ UNCHANGED <<holder, opVars>>

Goto(t, a) == at' = [at EXCEPT ![t] = a] /\ UNCHANGED op

Take(t, m) == holder[m] = Nobody /\ holder' = [holder EXCEPT ![m] = t]

Give(m) == holder' = [holder EXCEPT ![m] = Nobody]

-----------------------------------------------------------------------------
(* The operations.                                                         *)

\* one LOCK/UNLOCK section: every net_tcp_*, net_udp_* and net_mcast_* call and
\* the getters; net_stack_task has one for the next deadline
BeginNet(t) ==
    /\ at[t] \in {"idle", "callback"}
    /\ Begin(t, "net", "wantCore")
    /\ UNCHANGED <<left, unbind, taskVars>>

\* fd_alloc: with a free entry, fd_default_iface asks each enabled interface
\* for its address, up to the first that has one
BeginAlloc(t) ==
    /\ MayCall(t)
    /\ Begin(t, "alloc", "wantFd")
    /\ \E n \in 0 .. NumIfaces : left' = [left EXCEPT ![t] = n]
    /\ UNCHANGED <<unbind, taskVars>>

\* fd_free: lo_unbind for a loopback descriptor, then close e->sock and the
\* listener pool
BeginFree(t) ==
    /\ MayCall(t)
    /\ Begin(t, "free", "wantFd")
    /\ \E n \in 0 .. MaxOwned : left' = [left EXCEPT ![t] = n]
    /\ \E b \in BOOLEAN : unbind' = [unbind EXCEPT ![t] = b]
    /\ UNCHANGED taskVars

\* lo_bind, lo_deliver
BeginLo(t) ==
    /\ MayCall(t)
    /\ Begin(t, "lo", "wantLo")
    /\ UNCHANGED <<left, unbind, taskVars>>

\* getaddrinfo and gethostbyname: pick_iface queries the interfaces
BeginResolve(t) ==
    /\ t \in Resolvers
    /\ MayCall(t)
    /\ Begin(t, "resolve", "pick")
    /\ \E n \in 0 .. NumIfaces : left' = [left EXCEPT ![t] = n]
    /\ UNCHANGED <<unbind, taskVars>>

\* net_stack_link_event in the event-loop task: one section, then emit_event
BeginLink(t) ==
    /\ t = EventThread /\ at[t] = "idle"
    /\ due' = [due EXCEPT ![t] = 1]
    /\ Moves(t, "task")

\* poll_iface in the poll task: one section for each frame that no tap takes, and
\* one for the poll
BeginPoll(t) ==
    /\ t = PollThread /\ at[t] = "idle"
    /\ \E n \in 0 .. MaxFrames : due' = [due EXCEPT ![t] = n + 1]
    /\ Moves(t, "task")

\* SMOLTCP_LOCK around smoltcp_iface_rx, smoltcp_iface_poll or set_link_up
TaskSection(t) ==
    /\ at[t] = "task" /\ due[t] > 0
    /\ due' = [due EXCEPT ![t] = @ - 1]
    /\ Begin(t, "net", "wantCore")
    /\ UNCHANGED <<left, unbind, base>>

\* dispatch_tap calls a tap in the middle of the drain; emit_event calls the user
\* callback after the last section
Callback(t) ==
    /\ at[t] = "task"
    /\ t = PollThread \/ due[t] = 0
    /\ Moves(t, "callback")
    /\ UNCHANGED due

\* back into the drain; nothing but the IP bit follows emit_event
CallbackReturns(t) ==
    /\ at[t] = "callback"
    /\ Moves(t, IF due[t] > 0 THEN "task" ELSE "idle")
    /\ UNCHANGED due

\* no callback is registered, or the IP state is as before
NoEvent(t) ==
    /\ at[t] = "task" /\ due[t] = 0
    /\ Moves(t, "idle")
    /\ UNCHANGED due

-----------------------------------------------------------------------------
(* The steps between the lock calls.                                       *)

TakeFd(t) ==
    /\ at[t] = "wantFd"
    /\ Take(t, "fd")
    /\ Goto(t, "haveFd")
    /\ UNCHANGED <<left, unbind, taskVars>>

\* Faulty variant of LoUnbind: fd_free drops s_lock around lo_unbind and does
\* not take it back.
LoUnbindDropsFd(t) ==
    /\ at[t] = "haveFd"
    /\ unbind[t]
    /\ unbind' = [unbind EXCEPT ![t] = FALSE]
    /\ Goto(t, "wantLo")
    /\ Give("fd")
    /\ UNCHANGED <<left, taskVars>>

\* Faulty variant of LoUnbind: s_lock is taken again under itself.
LoUnbindRelocks(t) ==
    /\ at[t] = "haveFd"
    /\ unbind[t]
    /\ unbind' = [unbind EXCEPT ![t] = FALSE]
    /\ Goto(t, "wantFd")
    /\ UNCHANGED <<holder, left, taskVars>>

\* fd_free calls lo_unbind
LoUnbind(t) ==
    /\ at[t] = "haveFd"
    /\ unbind[t]
    /\ unbind' = [unbind EXCEPT ![t] = FALSE]
    /\ Goto(t, "wantLo")
    /\ UNCHANGED <<holder, left, taskVars>>

TakeLo(t) ==
    /\ at[t] = "wantLo"
    /\ Take(t, "lo")
    /\ Goto(t, "inLo")
    /\ UNCHANGED <<left, unbind, taskVars>>

GiveLo(t) ==
    /\ at[t] = "inLo"
    /\ Give("lo")
    /\ IF op[t] = "free" THEN Goto(t, "haveFd") ELSE Finish(t)
    /\ UNCHANGED <<left, unbind, taskVars>>

\* the next net_stack_get_ipv4 or net_*_close of fd_alloc, fd_free, pick_iface
EnterSection(t) ==
    /\ at[t] \in {"haveFd", "pick"}
    /\ ~unbind[t]
    /\ left[t] > 0
    /\ left' = [left EXCEPT ![t] = @ - 1]
    /\ Goto(t, "wantCore")
    /\ UNCHANGED <<holder, unbind, taskVars>>

TakeCore(t) ==
    /\ at[t] = "wantCore"
    /\ Take(t, "core")
    /\ Goto(t, "inCore")
    /\ UNCHANGED <<left, unbind, taskVars>>

\* Faulty variant of GiveCore: the last section of a poll or a link event is left
\* after emit_event.
GiveCoreLate(t) ==
    /\ at[t] = "inCore"
    /\ IF base[t] = "task" /\ due[t] = 0 THEN UNCHANGED holder ELSE Give("core")
    /\ \/ op[t] = "net" /\ Finish(t)
       \/ op[t] \in {"alloc", "free"} /\ Goto(t, "haveFd")
       \/ op[t] = "resolve" /\ Goto(t, "pick")
    /\ UNCHANGED <<left, unbind, taskVars>>

GiveCore(t) ==
    /\ at[t] = "inCore"
    /\ Give("core")
    /\ \/ op[t] = "net" /\ Finish(t)
       \/ op[t] \in {"alloc", "free"} /\ Goto(t, "haveFd")
       \/ op[t] = "resolve" /\ Goto(t, "pick")
    /\ UNCHANGED <<left, unbind, taskVars>>

GiveFd(t) ==
    /\ at[t] = "haveFd"
    /\ ~unbind[t]
    /\ left[t] = 0
    /\ Give("fd")
    /\ Finish(t)
    /\ UNCHANGED <<left, unbind, taskVars>>

\* no interface, a dotted quad or a malformed name: nothing shared is touched
ResolveShortcut(t) ==
    /\ at[t] = "pick"
    /\ left[t] = 0
    /\ Finish(t)
    /\ UNCHANGED <<holder, left, unbind, taskVars>>

\* smoltcp_resolve touches ctx.iface, ctx.dev and ctx.sockets and polls the
\* interface, and its callers hold no mutex
ResolveUnlocked(t) ==
    /\ at[t] = "pick"
    /\ left[t] = 0
    /\ Goto(t, "resolving")
    /\ UNCHANGED <<holder, left, unbind, taskVars>>

ResolveReturns(t) ==
    /\ at[t] = "resolving"
    /\ Finish(t)
    /\ UNCHANGED <<holder, left, unbind, taskVars>>

\* everything a busy thread may do next
Step(t) ==
    \/ TakeFd(t) \/ LoUnbind(t) \/ TakeLo(t) \/ GiveLo(t)
    \/ EnterSection(t) \/ TakeCore(t) \/ GiveCore(t) \/ GiveFd(t)
    \/ ResolveShortcut(t) \/ ResolveUnlocked(t) \/ ResolveReturns(t)
    \/ TaskSection(t) \/ Callback(t) \/ CallbackReturns(t) \/ NoEvent(t)

Call(t) ==
    \/ BeginNet(t) \/ BeginAlloc(t) \/ BeginFree(t) \/ BeginLo(t) \/ BeginResolve(t)
    \/ BeginLink(t) \/ BeginPoll(t)

Next == \E t \in Threads : Call(t) \/ Step(t)

Spec == Init /\ [][Next]_vars
-----------------------------------------------------------------------------
TypeOK ==
    /\ holder \in [Mutex -> Threads \cup {Nobody}]
    /\ op \in [Threads -> {"none", "net", "alloc", "free", "lo", "resolve"}]
    /\ at \in [Threads -> {"idle", "wantFd", "haveFd", "wantLo", "inLo", "wantCore",
                           "inCore", "pick", "resolving", "task", "callback"}]
    /\ left \in [Threads -> Nat]
    /\ unbind \in [Threads -> BOOLEAN]
    /\ base \in [Threads -> {"idle", "task", "callback"}]
    /\ due \in [Threads -> Nat]

\* the stretches of code that count on a mutex, by program point
InFd(t) == op[t] \in {"alloc", "free"} /\ at[t] # "wantFd"
InLo(t) == at[t] = "inLo"
InCore(t) == at[t] = "inCore"

(***************************************************************************)
(* The stretches under one mutex never overlap, although fd_alloc and      *)
(* fd_free take and release other mutexes in the middle of theirs: they    *)
(* claim and tear down table entries one after the other.  (fd_get takes   *)
(* no lock, so readers of the table are not excluded.)                     *)
(***************************************************************************)
SectionsExclusive ==
    \A t, u \in Threads : t # u =>
        /\ ~(InFd(t) /\ InFd(u))
        /\ ~(InLo(t) /\ InLo(u))
        /\ ~(InCore(t) /\ InCore(u))

Wants(t, m) ==
    \/ m = "fd" /\ at[t] = "wantFd"
    \/ m = "lo" /\ at[t] = "wantLo"
    \/ m = "core" /\ at[t] = "wantCore"

\* t is blocked in xSemaphoreTake on a mutex that u holds
BlockedBy(t, u) == \E m \in Mutex : Wants(t, m) /\ holder[m] = u

\* u is inside an operation and not blocked
Running(u) == at[u] # "idle" /\ \A v \in Threads : ~BlockedBy(u, v)

(***************************************************************************)
(* No deadlock, self-deadlock included (the mutexes are not recursive):    *)
(* whoever is blocked waits for a thread that can run, directly or through *)
(* one other thread.  The order is fd before lo and fd before core.        *)
(***************************************************************************)
NoCircularWait ==
    \A t, u \in Threads : BlockedBy(t, u) =>
        Running(u) \/ \E v \in Threads : BlockedBy(u, v) /\ Running(v)

(***************************************************************************)
(* The tap and event callbacks run with no mutex held, whatever sections   *)
(* the code around them has and whatever they called before, so they may   *)
(* call any API; no operation returns with a mutex held, and name          *)
(* resolution runs with none.                                              *)
(***************************************************************************)
CallbacksUnlocked ==
    \A t \in Threads, m \in Mutex :
        at[t] \in {"idle", "task", "callback", "pick", "resolving"} => holder[m] # t

(***************************************************************************)
(* esp_smoltcp_internal.h:14: "Single mutex serializing every smoltcp      *)
(* call": no two threads are inside the Rust core at once.                 *)
(* The code does not keep this: see Departures in README.md.               *)
(***************************************************************************)
InsideRust(t) == at[t] \in {"inCore", "resolving"}

CoreExclusive ==
    \A t, u \in Threads : InsideRust(t) /\ InsideRust(u) => t = u

-----------------------------------------------------------------------------
(* The inductive strengthening used by NetStackProofs.                     *)

\* a mutex is held exactly in the stretch of code that counts on it
Held ==
    \A t \in Threads :
        /\ holder["fd"] = t <=> InFd(t)
        /\ holder["lo"] = t <=> InLo(t)
        /\ holder["core"] = t <=> InCore(t)

\* the program points an operation passes through
Points ==
    [none |-> {"idle", "task", "callback"},
     net |-> {"wantCore", "inCore"},
     alloc |-> {"wantFd", "haveFd", "wantCore", "inCore"},
     free |-> {"wantFd", "haveFd", "wantLo", "inLo", "wantCore", "inCore"},
     lo |-> {"wantLo", "inLo"},
     resolve |-> {"pick", "wantCore", "inCore", "resolving"}]

Control ==
    \A t \in Threads :
        /\ at[t] \in Points[op[t]]
        /\ op[t] = "none" => at[t] = base[t]
        /\ op[t] = "resolve" => t \in Resolvers
        /\ unbind[t] => op[t] = "free"

IndInv == TypeOK /\ Held /\ Control
=============================================================================
