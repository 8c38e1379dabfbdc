-------------------------------- MODULE Glue --------------------------------
(***************************************************************************)
(* The Rust glue: socket numbers (SockId), transmit buffers (TxPool), the  *)
(* addresses of an interface (IpConfig), their encodings (Codec) and the   *)
(* resolver (Resolver).  A behaviour is one of these parts, chosen at the  *)
(* start; the variables of the others stay as they are.                    *)
(***************************************************************************)
EXTENDS SockId, Sequences

CONSTANTS
    Callers, Unlocked, TX_POOL_N,                       \* TxPool
    Leases, Statics,                                    \* IpConfig
    Parts, Bad, MaxParts,                               \* Codec
    Names, QueryIds, Ports, Answers, MaxInFlight, Repeats  \* Resolver; QueryIds: its Ids

VARIABLES
    part,                                                      \* the part this behaviour is about
    free_mask, rx_inbox, lost, link_up, pc, mask, buf,         \* TxPool
    mode, addr, netmask_be, gateway_be, has_ip, route, read, info, changed,  \* IpConfig; read: its pc
    str, prefix,                                               \* Codec
    query, sockets, sent, net, result                          \* Resolver

Tx == INSTANCE TxPool
Ip == INSTANCE IpConfig WITH pc <- read
Code == INSTANCE Codec
Dns == INSTANCE Resolver WITH Ids <- QueryIds

\* no address is 0.0.0.0, parts are numerals, names and answers are made of bytes, and no query is None
ASSUME GlueAssumption ==
    /\ TX_POOL_N \in Nat
    /\ Leases \cup Statics \subseteq [addr : Nat \ {0}, mask : Nat, router : Nat]
    /\ Parts \subseteq Code!Numerals /\ Bad \notin Code!Numerals
    /\ Names \subseteq Seq(Seq(Dns!Byte)) \ {<<>>}
    /\ Answers \subseteq Seq(Dns!ResourceRecords)
    /\ None \notin [id : QueryIds, port : Ports, name : Names]

txVars == <<free_mask, rx_inbox, lost, link_up, pc, mask, buf>>
ipVars == <<mode, addr, netmask_be, gateway_be, has_ip, route, read, info, changed>>
codeVars == <<str, prefix>>
dnsVars == <<query, sockets, sent, net, result>>

GlueInit ==
    /\ part \in {"sockets", "transmit", "address", "codec", "resolve"}
    /\ Init /\ Tx!Init /\ Ip!Init /\ Code!Init /\ Dns!Init

SockStep == part = "sockets" /\ Next /\ UNCHANGED <<part, txVars, ipVars, codeVars, dnsVars>>
TxStep == part = "transmit" /\ Tx!Next /\ UNCHANGED <<part, vars, ipVars, codeVars, dnsVars>>
IpStep == part = "address" /\ Ip!Next /\ UNCHANGED <<part, vars, txVars, codeVars, dnsVars>>
CodeStep == part = "codec" /\ Code!Next /\ UNCHANGED <<part, vars, txVars, ipVars, dnsVars>>
DnsStep == part = "resolve" /\ Dns!Next /\ UNCHANGED <<part, vars, txVars, ipVars, codeVars>>

GlueSpec ==
    GlueInit /\ [][SockStep \/ TxStep \/ IpStep \/ CodeStep \/ DnsStep]_
                  <<part, vars, txVars, ipVars, codeVars, dnsVars>>
-----------------------------------------------------------------------------
(***************************************************************************)
(* While every poll holds the lock, no transmit buffer is lost: all are    *)
(* free when no poll runs (TxPool).                                        *)
(***************************************************************************)
AllReturned == Tx!AllReturned

(***************************************************************************)
(* The copies that IfaceCtx keeps of the address, netmask and gateway      *)
(* describe one lease, and esp_netif_get_ip_info mixes two only when the   *)
(* configuration changes during the call (IpConfig).                       *)
(***************************************************************************)
CopiesAgree == Ip!CopiesAgree

(***************************************************************************)
(* The conversions of what smoltcp reports agree on the byte order, and    *)
(* smoltcp_parse_ipv4 is consistently in the opposite one (Codec).         *)
(***************************************************************************)
EncodingsAgree == Code!EncodingsAgree

(***************************************************************************)
(* smoltcp_resolve returns an answer to its own query (Resolver).          *)
(***************************************************************************)
OwnAnswer == Dns!OwnAnswer

(***************************************************************************)
(* smoltcp_resolve leaves no socket behind (Resolver).                     *)
(***************************************************************************)
SocketsRestored == Dns!SocketsRestored

(***************************************************************************)
(* parse_a_response finds the first A record, or that there is none, among *)
(* names that are written out or are a pointer (Resolver).                 *)
(***************************************************************************)
ARecordFound == Dns!ARecordFound
=============================================================================
