------------------------------- MODULE MCGlue -------------------------------
(* Glue with its constants from the cfg.                                   *)
EXTENDS Glue

Configs(addrs, masks, routers) == [addr : addrs, mask : masks, router : routers]
MCLeases == Configs({10}, {24}, 0 .. 2) \cup Configs({20}, {16}, 0 .. 2)
MCStatics == Configs({30}, {24}, {0, 3})

MCParts ==
    [form : {"plain"}, num : {0, 1, 127, 255, 256}] \cup [form : {"plus", "zeros"}, num : {1}]

\* "a", "b.cd", a name with an empty label, and one too long for the socket's buffer
MCNames ==
    {<<<<97>>>>, <<<<98>>, <<99, 100>>>>, <<<<97>>, <<>>>>,
     [k \in 1 .. 8 |-> [j \in 1 .. 63 |-> 97]]}

\* answers of up to two records, their owners compressed or written out
A(k, o) == [owner |-> o, rtype |-> 1, rdata |-> <<10, 0, 0, k>>]
CName(o) == [owner |-> o, rtype |-> 5, rdata |-> <<1, 98, 192, 12>>]
Owners == {"ptr", "full"}
MCAnswers ==
    {<<>>, <<A(2, "ptr"), A(1, "full")>>} \cup {<<A(1, o)>> : o \in Owners}
        \cup {<<CName(o)>> : o \in Owners} \cup {<<CName(o), A(1, p)>> : o, p \in Owners}
=============================================================================
