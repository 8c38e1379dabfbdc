-------------------------------- MODULE Codec -------------------------------
(***************************************************************************)
(* The conversions of IPv4 addresses and netmasks between dotted quads,    *)
(* smoltcp's octets and the uint32_t of the C interface.  A uint32_t is    *)
(* written as its four bytes, most significant first; on the little-endian *)
(* target its bytes in memory are the reverse.                             *)
(***************************************************************************)
EXTENDS Integers, Sequences

CONSTANTS
    Parts,        \* the numerals a dotted string may have between its dots
    Bad,          \* a part that is no numeral (empty, a letter)
    MaxParts

\* the digits of num, as "1", with a sign as "+1", or with zeros in front as "001"
Numerals == [form : {"plain", "plus", "zeros"}, num : Nat]

VARIABLES
    str,          \* the string handed to smoltcp_parse_ipv4, split at its dots
    prefix        \* a prefix length

vars == <<str, prefix>>

\* one input at a time: a string, part by part, or a prefix length
Init == str = <<>> /\ prefix = 0

AnotherPart(p) ==
    /\ prefix = 0 /\ Len(str) < MaxParts
    /\ str' = Append(str, p) /\ UNCHANGED prefix

AnotherPrefix ==
    /\ str = <<>> /\ prefix' = (prefix + 1) % 33 /\ UNCHANGED str

StartOver == str # <<>> /\ str' = <<>> /\ UNCHANGED prefix

Next == StartOver \/ AnotherPrefix \/ \E p \in Parts \cup {Bad} : AnotherPart(p)

Spec == Init /\ [][Next]_vars
-----------------------------------------------------------------------------
swap_bytes(v) == [k \in 1..4 |-> v[5 - k]]

\* bytes of a value in memory, and the value with given bytes in memory
to_le_bytes(v) == swap_bytes(v)
from_le_bytes(b) == swap_bytes(b)
from_be_bytes(b) == b
to_be(v) == swap_bytes(v)

\* Faulty variant of ipv4_to_be: the octets are read as a big-endian number.
ipv4_to_beSwapped(octets) == from_be_bytes(octets)

ipv4_to_be(octets) == from_le_bytes(octets)
ipv4_from_be(v) == to_le_bytes(v)

\* (!0u32) << (32 - p): bit b of octet k is bit 8 * (4 - k) + b, which is set from
\* 32 - p on
cidr_to_mask(p) ==
    [k \in 1..4 |->
        LET bit(b) == IF 8 * (4 - k) + b >= 32 - p THEN 2^b ELSE 0
        IN  bit(7) + bit(6) + bit(5) + bit(4) + bit(3) + bit(2) + bit(1) + bit(0)]

netmask_be == to_be(cidr_to_mask(prefix))

\* part.parse::<u8>() is Ok: a sign or leading zeros do no harm
is_u8(p) == p # Bad /\ p.num < 256

\* the value stored in *out_be, <<>> if it is left alone and -1 returned
parse_ipv4(s) ==
    IF Len(s) = 4 /\ \A k \in 1..4 : is_u8(s[k]) THEN from_be_bytes([k \in 1..4 |-> s[k].num])
    ELSE <<>>

is_loopback_ip(v) == v[4] = 127

decimal(n) == [form |-> "plain", num |-> n]

\* lwip_inet_ntop prints the bytes in memory
inet_ntop(v) == [k \in 1..4 |-> decimal(to_le_bytes(v)[k])]
-----------------------------------------------------------------------------
\* a dotted quad as it is usually written, and the numbers in a text of four
Quad == Len(str) = 4 /\ \A k \in 1..4 : \E n \in 0..255 : str[k] = decimal(n)
octets == [k \in 1..4 |-> str[k].num]

\* the bits of octet k of a netmask that lie inside the prefix
MaskOctet(k) ==
    IF prefix >= 8 * k THEN 255
    ELSE IF prefix <= 8 * (k - 1) THEN 0 ELSE 256 - 2^(8 * k - prefix)

\* an address that smoltcp reports, and a text handed to parse_ipv4
AddressesAgree ==
    /\ Quad => LET v == ipv4_to_be(octets)
               IN  /\ ipv4_from_be(v) = octets /\ inet_ntop(v) = str
                   /\ is_loopback_ip(v) <=> octets[1] = 127
                   /\ parse_ipv4(inet_ntop(v)) = swap_bytes(v)
    /\ parse_ipv4(str) # <<>> => parse_ipv4(str) = swap_bytes(ipv4_to_be(octets))

(***************************************************************************)
(* The conversions of what smoltcp reports agree on the byte order: an     *)
(* address comes back as the same octets, is printed in order by           *)
(* inet_ntop, and is taken for a loopback address exactly when its first   *)
(* octet is 127; a netmask is printed with its one bits in front.          *)
(* smoltcp_parse_ipv4 is consistently in the opposite order: it accepts    *)
(* every text that inet_ntop prints and returns the address with its bytes *)
(* swapped, and any other text it accepts stands for its four numbers in   *)
(* that order, none of them truncated.                                     *)
(***************************************************************************)
EncodingsAgree ==
    AddressesAgree /\ inet_ntop(netmask_be) = [k \in 1..4 |-> decimal(MaskOctet(k))]

(***************************************************************************)
(* smoltcp_glue.h:95: "192.168.1.1" -> network-byte-order u32.  The        *)
(* address smoltcp is given for a parsed string has the octets of the      *)
(* string.                                                                 *)
(* The code does not keep this: see Departures in README.md.               *)
(***************************************************************************)
ParsedIsAddress == Quad => ipv4_from_be(parse_ipv4(str)) = octets
=============================================================================
