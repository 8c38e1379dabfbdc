------------------------------ MODULE IpConfig ------------------------------
(***************************************************************************)
(* The IPv4 configuration of one interface: what DHCP events and a static  *)
(* configuration install in smoltcp and in IfaceCtx, and esp_netif's       *)
(* get_ip_info reading it in three calls that each take the lock.          *)
(***************************************************************************)
EXTENDS Naturals

CONSTANTS
    Leases,       \* [addr, mask, router]: what a server may offer; router 0 is none
    Statics       \* the same for CONFIG_NETSTACK_STATIC_IP and _GW

VARIABLES
    mode,         \* "new", then "static" or "dhcp" once attach has configured it
    addr,         \* the IPv4 address of the smoltcp interface, 0 if it has none
    netmask_be, gateway_be, has_ip,
    route,        \* smoltcp's default route, 0 if there is none
    pc, info,     \* get_ip_info's next read, and what it has stored
    changed       \* the configuration has changed since the call began

vars == <<mode, addr, netmask_be, gateway_be, has_ip, route, pc, info, changed>>
ipVars == <<mode, addr, netmask_be, gateway_be, has_ip, route>>
callVars == <<pc, info, changed>>

Config == [addr |-> addr, mask |-> netmask_be, router |-> gateway_be]

Init ==
    /\ mode = "new" /\ addr = 0 /\ route = 0
    /\ netmask_be = 0 /\ gateway_be = 0 /\ has_ip = FALSE
    /\ pc = "idle" /\ info = [addr |-> 0, mask |-> 0, router |-> 0] /\ changed = FALSE

Noted == changed' = (pc # "idle" /\ (changed \/ Config' # Config))
-----------------------------------------------------------------------------
\* a build configures either statically or by DHCP
SetStatic(l) ==
    /\ mode = "new" /\ mode' = "static"
    /\ addr' = l.addr /\ netmask_be' = l.mask /\ has_ip' = TRUE
    /\ IF l.router # 0 THEN route' = l.router /\ gateway_be' = l.router
       ELSE UNCHANGED <<route, gateway_be>>
    /\ Noted /\ UNCHANGED <<pc, info>>

EnableDhcp ==
    /\ mode = "new" /\ mode' = "dhcp"
    /\ UNCHANGED <<addr, netmask_be, gateway_be, has_ip, route, callVars>>

\* Faulty variant of Configured: the netmask of the first lease stays.
ConfiguredOldMask(l) ==
    /\ mode = "dhcp"
    /\ addr' = l.addr /\ has_ip' = TRUE /\ gateway_be' = l.router
    /\ netmask_be' = IF netmask_be = 0 THEN l.mask ELSE netmask_be
    /\ route' = IF l.router # 0 THEN l.router ELSE route
    /\ Noted /\ UNCHANGED <<mode, pc, info>>

\* a lease, new or renewed; without a router the default route stays as it is
Configured(l) ==
    /\ mode = "dhcp"
    /\ addr' = l.addr /\ netmask_be' = l.mask /\ has_ip' = TRUE /\ gateway_be' = l.router
    /\ route' = IF l.router # 0 THEN l.router ELSE route
    /\ Noted /\ UNCHANGED <<mode, pc, info>>

Deconfigured ==
    /\ mode = "dhcp"
    /\ addr' = 0 /\ netmask_be' = 0 /\ gateway_be' = 0 /\ has_ip' = FALSE /\ route' = 0
    /\ Noted /\ UNCHANGED <<mode, pc, info>>

\* a poll without a DHCP socket
PollStatic ==
    /\ mode # "dhcp"
    /\ has_ip' = (addr # 0)
    /\ UNCHANGED <<mode, addr, netmask_be, gateway_be, route, callVars>>
-----------------------------------------------------------------------------
(* get_ip_info: net_stack_get_ipv4, _get_gateway, _get_netmask             *)

ReadAddr ==
    /\ pc = "idle"
    /\ info' = [info EXCEPT !.addr = addr] /\ pc' = "gw"
    /\ UNCHANGED <<ipVars, changed>>

ReadGateway ==
    /\ pc = "gw"
    /\ info' = [info EXCEPT !.router = gateway_be] /\ pc' = "mask"
    /\ UNCHANGED <<ipVars, changed>>

ReadNetmask ==
    /\ pc = "mask"
    /\ info' = [info EXCEPT !.mask = netmask_be] /\ pc' = "done"
    /\ UNCHANGED <<ipVars, changed>>

Return ==
    /\ pc = "done"
    /\ pc' = "idle" /\ changed' = FALSE /\ UNCHANGED <<ipVars, info>>

Next ==
    \/ \E l \in Statics : SetStatic(l)
    \/ EnableDhcp \/ PollStatic \/ Deconfigured \/ \E l \in Leases : Configured(l)
    \/ ReadAddr \/ ReadGateway \/ ReadNetmask \/ Return

Spec == Init /\ [][Next]_vars
-----------------------------------------------------------------------------
(***************************************************************************)
(* smoltcp's own state and the copies IfaceCtx keeps agree: has_ip and the *)
(* netmask say whether there is an address, the netmask is its lease's,    *)
(* and without an address there is neither a gateway nor a default route.  *)
(* So get_ip_info, which reads them in three calls, mixes two leases only  *)
(* when the configuration changed in between.                              *)
(***************************************************************************)
CopiesAgree ==
    /\ has_ip <=> addr # 0
    /\ addr = 0 => netmask_be = 0 /\ gateway_be = 0 /\ route = 0
    /\ addr # 0 => Config \in Leases \cup Statics
    /\ pc = "done" /\ ~changed => info = Config

(***************************************************************************)
(* esp_smoltcp.h:84-88, on get_gateway: "Returns 0 if unset".  No default  *)
(* route is set when the reported gateway is 0.                            *)
(* The code does not keep this: see Departures in README.md.               *)
(***************************************************************************)
NoGatewayNoRoute == gateway_be = 0 => route = 0
=============================================================================
