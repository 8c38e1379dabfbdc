------------------------------ MODULE BringUp ------------------------------
(***************************************************************************)
(* From boot to an address: net_stack_init and esp_smoltcp_attach_eth with *)
(* every early return, the Ethernet driver's link events, and the IP state *)
(* that the poll task reports by callback and by the bit that              *)
(* esp_smoltcp_wait_for_ip waits for.                                      *)
(*                                                                         *)
(* An application task makes the calls, one fallible or visible call of    *)
(* theirs a step.  The driver, the default event loop and the DHCP client  *)
(* are external.                                                           *)
(***************************************************************************)
EXTENDS Naturals, Sequences

CONSTANTS
    Retries,       \* the application calls init again after it returned an error
    Faults,        \* the calls of init and attach that may fail
    MaxEvents      \* bound: link events waiting in the event loop

VARIABLES
    static,     \* the address is static (NETSTACK_DHCPV4_CLIENT is off in the build)
    done,       \* the steps of init and attach that took effect, the flags "inited"
                \* and "enabled", and "early" if the driver ran before the attach
    call,       \* the call the application task is in
    step,       \* which of its steps is next
    result,     \* what each call returned last
    cable,      \* the link is there
    phy,        \* the link state the driver reported last
    events,     \* its link events, waiting in the event loop
    link_up,    \* dev.link_up of the Rust device
    has_ip,     \* has_ip of the Rust interface
    notified,   \* the notification value of the poll task is not zero
    ppc,        \* where the poll task is
    now,        \* its ip_up_now
    ip_up,      \* s_ifaces[NET_IFACE_ETH].ip_up
    told,       \* the last IP event of the user callback was GOT_IP
    ipbit       \* IP_UP_BIT

appVars == <<static, done, call, step, result>>
linkVars == <<cable, phy, events, link_up>>
ipVars == <<now, ip_up, told, ipbit>>
vars == <<appVars, linkVars, has_ip, notified, ppc, ipVars>>

Has(s) == s \in done

\* Faulty variant of InitSteps: the poll task is spawned before the mutex exists.
InitStepsTaskEarly == <<"nvs", "loop", "evt", "task", "lock", "pool">>

\* what net_stack_init does, in order ("pool" is the slab and the RX queues)
InitSteps == <<"nvs", "loop", "evt", "lock", "pool", "task">>

\* Faulty variant of AttachSteps: the driver starts before the interface exists.
AttachStepsStartEarly == <<"mac", "input", "start", "handler", "iface", "config", "notify">>

\* what esp_smoltcp_attach_eth does, in order ("input": see FramePath)
AttachSteps == <<"mac", "input", "handler", "iface", "start", "config", "notify">>

Steps == [init |-> InitSteps, attach |-> AttachSteps]

Init ==
    /\ static \in BOOLEAN
    /\ done \in {{}, {"loop"}}    \* the application may have created the event loop
    /\ call = "none" /\ step = 1 /\ result = [init |-> "none", attach |-> "none"]
    /\ cable \in BOOLEAN /\ phy = FALSE /\ events = <<>> /\ link_up = FALSE
    /\ has_ip = FALSE /\ notified = FALSE /\ ppc = "none"
    /\ now = FALSE /\ ip_up = FALSE /\ told = FALSE /\ ipbit = FALSE

-----------------------------------------------------------------------------
(* The application task.                                                   *)

Enter(c, flag) ==
    /\ call = "none" /\ ~Has(flag)
    /\ done' = done \cup {flag}
    /\ call' = c /\ step' = 1
    /\ UNCHANGED <<static, result, linkVars, has_ip, notified, ppc, ipVars>>

InitCall == Enter("init", "inited")

\* if (inited) return ESP_OK
InitAgain ==
    /\ call = "none" /\ Has("inited")
    /\ result.init = "ok" \/ Retries
    /\ result' = [result EXCEPT !.init = "ok"]
    /\ UNCHANGED <<static, done, call, step, linkVars, has_ip, notified, ppc, ipVars>>

\* the application attaches once init returned ESP_OK; a second attach finds
\* `enabled` set and changes nothing
AttachCall == result.init = "ok" /\ Enter("attach", "enabled")

\* esp_event_loop_create_default fails if there is a loop, and
\* esp_event_handler_register if there is none
CannotSucceed(s) == (s = "loop" /\ Has("loop")) \/ (s = "handler" /\ ~Has("loop"))

\* Faulty variant of Wakes: the poll task is not notified at the end of the attach.
WakesNobody(s) == FALSE
Wakes(s) == s = "notify"

\* esp_eth_start fails on a running driver, which is ignored; enable_dhcp
\* leaves has_ip alone, set_static sets it
CallStep ==
    /\ call # "none"
    /\ LET s == Steps[call][step] IN
         /\ ~CannotSucceed(s)
         /\ done' = done \cup {s}
         /\ has_ip' = (has_ip \/ (s = "config" /\ static))
         /\ notified' = (notified \/ Wakes(s))
         /\ ppc' = IF s = "task" THEN "poll" ELSE ppc
    /\ IF step < Len(Steps[call])
       THEN step' = step + 1 /\ UNCHANGED <<call, result>>
       ELSE step' = 1 /\ call' = "none" /\ result' = [result EXCEPT ![call] = "ok"]
    /\ UNCHANGED <<static, linkVars, ipVars>>

\* the early returns leave everything done so far as it is
CallFails ==
    /\ call # "none"
    /\ Steps[call][step] \in Faults \/ CannotSucceed(Steps[call][step])
    /\ result' = [result EXCEPT ![call] = "error"]
    /\ call' = "none" /\ step' = 1
    /\ UNCHANGED <<static, done, linkVars, has_ip, notified, ppc, ipVars>>

-----------------------------------------------------------------------------
(* The driver and the event loop.                                          *)

CableChanges ==
    /\ cable' = ~cable
    /\ UNCHANGED <<appVars, phy, events, link_up, has_ip, notified, ppc, ipVars>>

\* an application may start the driver before the attach does
AppStarts ==
    /\ call = "none" /\ ~Has("start")
    /\ done' = done \cup {"start", "early"}
    /\ UNCHANGED <<static, call, step, result, linkVars, has_ip, notified, ppc, ipVars>>

\* the driver's link check posts ETHERNET_EVENT_CONNECTED or _DISCONNECTED
LinkCheck ==
    /\ Has("start") /\ phy # cable
    /\ Len(events) < MaxEvents
    /\ phy' = cable
    /\ events' = IF Has("loop") THEN Append(events, cable) ELSE events
    /\ UNCHANGED <<appVars, cable, link_up, has_ip, notified, ppc, ipVars>>

\* eth_event and net_stack_link_event; set_link_up ignores a NULL handle
LinkEvent ==
    /\ events # <<>>
    /\ events' = Tail(events)
    /\ link_up' = IF Has("handler") /\ Has("iface") THEN Head(events) ELSE link_up
    /\ notified' = (notified \/ (Has("handler") /\ Has("task")))
    /\ UNCHANGED <<appVars, cable, phy, has_ip, ppc, ipVars>>

-----------------------------------------------------------------------------
(* The poll task, as far as addresses go: poll_iface, then the wait.       *)

\* smoltcp_iface_poll and smoltcp_iface_has_ip in one section.  A DHCP client
\* may lose its lease, and to get one it has to transmit
PollCore ==
    /\ ppc = "poll"
    /\ IF Has("enabled")
       THEN /\ has_ip' \in IF Has("config") /\ ~static THEN {has_ip, FALSE, has_ip \/ link_up}
                           ELSE {has_ip}
            /\ now' = has_ip'
            /\ ppc' = "event"
       ELSE ppc' = "wait" /\ UNCHANGED <<has_ip, now>>
    /\ UNCHANGED <<appVars, linkVars, notified, ip_up, told, ipbit>>

\* was_up, ip_up and, if they differ, emit_event
PollEvent ==
    /\ ppc = "event"
    /\ ip_up' = now
    /\ told' = now
    /\ ppc' = IF now # ip_up THEN "bit" ELSE "wait"
    /\ UNCHANGED <<appVars, linkVars, has_ip, notified, now, ipbit>>

\* Faulty variant of IpBit: the bit is never cleared.
IpBitSticky == ipbit \/ ip_up
IpBit == ip_up

\* xEventGroupSetBits or xEventGroupClearBits
PollBit ==
    /\ ppc = "bit"
    /\ ipbit' = IpBit
    /\ ppc' = "wait"
    /\ UNCHANGED <<appVars, linkVars, has_ip, notified, now, ip_up, told>>

\* ulTaskNotifyTake; the DHCP socket always has a deadline
PollWakes ==
    /\ ppc = "wait"
    /\ notified \/ (Has("config") /\ ~static)
    /\ notified' = FALSE
    /\ ppc' = "poll"
    /\ UNCHANGED <<appVars, linkVars, has_ip, ipVars>>

PollTask == PollCore \/ PollEvent \/ PollBit \/ PollWakes

Next ==
    \/ InitCall \/ InitAgain \/ AttachCall \/ CallStep \/ CallFails
    \/ CableChanges \/ AppStarts \/ LinkCheck \/ LinkEvent
    \/ PollTask

Spec == Init /\ [][Next]_vars

\* calls proceed, and FreeRTOS runs the poll task, the driver and the event loop
Fairness ==
    /\ WF_vars(CallStep) /\ WF_vars(LinkCheck) /\ WF_vars(LinkEvent) /\ WF_vars(PollTask)
-----------------------------------------------------------------------------
(***************************************************************************)
(* No task meets a missing object: the poll task starts after the event    *)
(* groups, the mutex and the queues it uses exist, and the driver callback *)
(* and the event handler are installed after the poll task they notify.    *)
(***************************************************************************)
ObjectsBeforeUse ==
    /\ ppc # "none" => {"evt", "lock", "pool"} \subseteq done
    /\ Has("input") \/ Has("handler") => Has("task")
    /\ call = "attach" => {"evt", "lock", "pool", "task"} \subseteq done

(***************************************************************************)
(* With no link event on its way the Rust device knows the link state that *)
(* the driver reported last: none of the events of a driver that the       *)
(* attach started came before the handler or before the interface.         *)
(***************************************************************************)
LinkInSync == events = <<>> /\ ~Has("early") => link_up = phy

(***************************************************************************)
(* Between two polls the three reports of the IP state agree: the flag of  *)
(* the interface, the last event of the user callback, and the bit         *)
(* esp_smoltcp_wait_for_ip looks at.                                       *)
(***************************************************************************)
IpReportsAgree == ppc \in {"none", "poll", "wait"} => told = ip_up /\ ipbit = ip_up

(***************************************************************************)
(* An address, and its loss, reach esp_smoltcp_wait_for_ip: the poll task  *)
(* is woken for them and does not sleep over a static address.             *)
(***************************************************************************)
IpAnnounced == \A b \in BOOLEAN : has_ip = b ~> (ipbit = b \/ has_ip # b)

(***************************************************************************)
(* esp_smoltcp.h:59 on esp_smoltcp_init: "Initialize the poll task, slab   *)
(* pool, mutex, and event group. Idempotent."  A call that returned ESP_OK *)
(* leaves all of them in place.                                            *)
(* The code does not keep this: see Departures in README.md.               *)
(***************************************************************************)
InitOkMeansReady ==
    call = "none" /\ result.init = "ok" => {"evt", "lock", "pool", "task"} \subseteq done

(***************************************************************************)
(* README.md:65 and examples/eth_basic/main/main.c:64-68 create the event  *)
(* loop with esp_event_loop_create_default() before esp_smoltcp_init(),    *)
(* and the example requires that ("ESP_ERROR_CHECK(esp_smoltcp_init())").  *)
(* With every resource available, init does not fail.                      *)
(* The code does not keep this: see Departures in README.md.               *)
(***************************************************************************)
QuickStartWorks == result.init # "error"
=============================================================================
