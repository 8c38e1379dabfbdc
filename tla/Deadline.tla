------------------------------ MODULE Deadline ------------------------------
(***************************************************************************)
(* How the blocking socket calls time out on a stack that makes no         *)
(* progress.  xTaskGetTickCount is a counter of fixed width: connect, send,*)
(* recv, recvfrom and select compare it with an absolute deadline, accept  *)
(* with the ticks since its start.  The timeouts come from the descriptor. *)
(***************************************************************************)
EXTENDS Naturals

CONSTANTS
    Ticks,        \* the tick counter counts modulo Ticks (2^32 in the code)
    Default, SndDefault, AcceptLimit, \* 30000, 5000 and 60000 ms in the code
    Wait,         \* the longest wait between two looks at the counter, per call
    Timeouts      \* what setsockopt and select are given

Kinds == {"connect", "send", "recv", "accept", "select"}
portMAX_DELAY == Ticks - 1

VARIABLES
    now,                                      \* xTaskGetTickCount()
    rcv_timeout, snd_timeout, nonblocking,    \* of the descriptor
    call, start, deadline,                    \* the call in progress and its locals
    limit, elapsed                            \* what it was asked to wait, and has waited

options == <<rcv_timeout, snd_timeout, nonblocking>>
locals == <<call, start, deadline, limit>>
vars == <<now, options, locals, elapsed>>

Init ==
    /\ now = 0 /\ rcv_timeout = 0 /\ snd_timeout = 0 /\ nonblocking = FALSE
    /\ call = "none" /\ start = 0 /\ deadline = 0 /\ limit = 0 /\ elapsed = 0
-----------------------------------------------------------------------------
\* setsockopt(SO_RCVTIMEO), setsockopt(SO_SNDTIMEO)
SetTimeout(t) ==
    /\ call = "none"
    /\ \/ rcv_timeout' = t /\ UNCHANGED snd_timeout
       \/ snd_timeout' = t /\ UNCHANGED rcv_timeout
    /\ UNCHANGED <<now, nonblocking, locals, elapsed>>

\* fcntl(F_SETFL), ioctl(FIONBIO)
SetNonblocking(b) ==
    /\ call = "none" /\ nonblocking' = b
    /\ UNCHANGED <<now, rcv_timeout, snd_timeout, locals, elapsed>>

OrDefault(t, d) == IF t # 0 THEN t ELSE d

\* t is select's argument; only recv and accept look at nonblocking
LimitOf(k, t) ==
    CASE k = "connect" -> OrDefault(snd_timeout, Default)
      [] k = "send"    -> OrDefault(snd_timeout, SndDefault)
      [] k = "recv"    -> IF nonblocking THEN 0 ELSE OrDefault(rcv_timeout, Default)
      [] k = "accept"  -> IF nonblocking THEN 0 ELSE AcceptLimit
      [] k = "select"  -> t

Call(k, t) ==
    /\ call = "none" /\ call' = k
    /\ limit' = LimitOf(k, t) /\ elapsed' = 0
    /\ start' = now /\ deadline' = (now + limit') % Ticks
    /\ UNCHANGED <<now, options>>

\* Faulty variant of TimedOut: accept has an absolute deadline like the others.
TimedOutAbsolute ==
    CASE call = "connect" -> ~(now < deadline)
      [] call = "send"    -> now >= deadline
      [] call = "recv"    -> ~(now <= deadline)
      [] call = "select"  -> deadline # portMAX_DELAY /\ now >= deadline
      [] call = "accept"  -> nonblocking \/ now > deadline

TimedOut ==
    CASE call = "connect" -> ~(now < deadline)
      [] call = "send"    -> now >= deadline
      [] call = "recv"    -> ~(now <= deadline)
      [] call = "select"  -> deadline # portMAX_DELAY /\ now >= deadline
      [] call = "accept"  -> nonblocking \/ (now + Ticks - start) % Ticks > AcceptLimit

OnTime == elapsed <= limit + Wait[call]

\* a bound: how late a late call is does not matter
Late == limit + Wait[call] + 1

\* net_stack_wait_progress(50) or vTaskDelay, d ticks long
WaitTicks(d) ==
    /\ call # "none" /\ ~TimedOut
    /\ now' = (now + d) % Ticks
    /\ elapsed' = IF elapsed + d < Late THEN elapsed + d ELSE Late
    /\ UNCHANGED <<options, locals>>

Return ==
    /\ call # "none" /\ TimedOut
    /\ call' = "none" /\ start' = 0 /\ deadline' = 0 /\ limit' = 0 /\ elapsed' = 0
    /\ UNCHANGED <<now, options>>

\* the system runs on between two calls
Run ==
    /\ call = "none" /\ now' = (now + 1) % Ticks
    /\ UNCHANGED <<options, locals, elapsed>>

Next ==
    \/ \E t \in Timeouts : SetTimeout(t) \/ \E k \in Kinds : Call(k, t)
    \/ \E b \in BOOLEAN : SetNonblocking(b)
    \/ call # "none" /\ \E d \in 1..Wait[call] : WaitTicks(d)
    \/ Return \/ Run

Spec == Init /\ [][Next]_vars
-----------------------------------------------------------------------------
(***************************************************************************)
(* A call on a stuck stack gives up no earlier than its timeout and at     *)
(* most one wait later: accept always, the calls with an absolute deadline *)
(* as long as the tick counter does not wrap before it.                    *)
(***************************************************************************)
GivesUpInTime ==
    call = "accept" \/ (call # "none" /\ start + limit + Wait[call] < portMAX_DELAY)
        => OnTime /\ (TimedOut => elapsed >= limit)

(***************************************************************************)
(* esp_smoltcp_sock.c:95-97, on net_tcp_send's wait: "Cap the wait so a    *)
(* stuck stack still times out.".                                          *)
(* The code does not keep this: see Departures in README.md.               *)
(***************************************************************************)
StuckSendTimesOut == call = "send" => OnTime
=============================================================================
