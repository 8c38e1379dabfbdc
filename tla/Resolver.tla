------------------------------ MODULE Resolver ------------------------------
(***************************************************************************)
(* smoltcp_resolve: one DNS query over a UDP socket of its own, and        *)
(* parse_a_response on whatever arrives there until the deadline.  Answers *)
(* may be lost, duplicated, late, or for an earlier query.                 *)
(***************************************************************************)
EXTENDS Naturals, Sequences, FiniteSets

CONSTANTS
    Names,        \* sequences of labels, which are sequences of bytes
    Ids, Ports,
    Answers,      \* answer sections: sequences of [owner, rtype, rdata]
    Repeats,      \* TRUE: a query may draw the random id and port of an earlier one
                  \* that is still to be answered
    MaxInFlight,  \* a bound on the queries and responses under way
    None

VARIABLES
    query,        \* of the call in progress: [id, port, name], or None
    sockets,      \* ports of the resolver's sockets in ctx.sockets
    sent,         \* queries that reached the server
    net,          \* responses on their way: [q, rcode, rrs]
    result        \* [name, addr, from] if the last call succeeded

vars == <<query, sockets, sent, net, result>>

Init ==
    query = None /\ sockets = {} /\ sent = {} /\ net = {} /\ result = None
-----------------------------------------------------------------------------
(* The message behind its 12-byte header, byte by byte.                    *)

\* the sequences of s one behind the other
Concat(s) ==
    LET f[i \in 0..Len(s)] == IF i = 0 THEN <<>> ELSE f[i - 1] \o s[i]
    IN  f[Len(s)]

\* a name as smoltcp_resolve writes it: labels behind their lengths, then a zero
NameBytes(name) ==
    Concat([k \in 1..Len(name) |-> <<Len(name[k])>> \o name[k]]) \o <<0>>

\* a pointer to the question, the question's name again, or a label and a pointer
OwnerBytes(owner, name) ==
    [ptr |-> <<192, 12>>, full |-> NameBytes(name), mixed |-> <<1, 98, 192, 12>>][owner]

Byte == 0..255

\* a record's data has a 16-bit length; an A record's is an address
ResourceRecords ==
    {r \in [owner : {"ptr", "full", "mixed"}, rtype : 0..(2^16 - 1), rdata : Seq(Byte)] :
        Len(r.rdata) < 2^16 /\ (r.rtype = 1 => Len(r.rdata) = 4)}

\* a u16 in network byte order
Be16(n) == <<n \div 256, n % 256>>

Record(r, name) ==
    OwnerBytes(r.owner, name) \o Be16(r.rtype) \o <<0, 1, 0, 0, 0, 0>> \o Be16(Len(r.rdata))
        \o r.rdata

\* the question, which a response repeats, and the answers
Message(name, rrs) ==
    NameBytes(name) \o <<0, 1, 0, 1>> \o Concat([k \in 1..Len(rrs) |-> Record(rrs[k], name)])

\* while i < pkt.len() && pkt[i] != 0 { i += 1 + pkt[i] }, with i counted from 0;
\* the question is the query's own, with no length that its loop would refuse
SkipName(pkt, start) ==
    LET skip[i \in Nat] == IF i >= Len(pkt) \/ pkt[i + 1] = 0 THEN i ELSE skip[i + 1 + pkt[i + 1]]
    IN  skip[start]

\* Faulty variant of EndOfOwner: a written-out name ends at its zero byte.
EndOfOwnerShort(pkt, i) == IF pkt[i + 1] >= 192 THEN i + 2 ELSE SkipName(pkt, i)

EndOfOwner(pkt, i) == IF pkt[i + 1] >= 192 THEN i + 2 ELSE SkipName(pkt, i) + 1

\* one turn of the loop over the answers, from offset i: where it ends the loop,
\* and where the next turn begins
Turn(pkt, i) ==
    LET o == EndOfOwner(pkt, i)
        rdlen == 256 * pkt[o + 9] + pkt[o + 10]
        end == o + 10 + rdlen
        none == [more |-> FALSE, addr |-> None, pos |-> i]
    IN  IF i + 12 > Len(pkt) THEN none
        ELSE IF o + 10 > Len(pkt) THEN none
        ELSE IF end > Len(pkt) THEN none
        ELSE IF 256 * pkt[o + 1] + pkt[o + 2] = 1 /\ rdlen = 4
             THEN [more |-> FALSE, addr |-> SubSeq(pkt, o + 11, end), pos |-> end]
        ELSE [more |-> TRUE, addr |-> None, pos |-> end]

\* for _ in 0..ancount, from offset start
FirstA(pkt, ancount, start) ==
    LET turn[k \in 0..ancount] ==
            IF k = 0 THEN [more |-> TRUE, addr |-> None, pos |-> start]
            ELSE IF turn[k - 1].more THEN Turn(pkt, turn[k - 1].pos) ELSE turn[k - 1]
    IN  turn[ancount].addr

\* Faulty variant of parse_a_response: any response will do.
parse_a_responseAnyId(m, id) ==
    IF m.rcode # 0 \/ m.rrs = <<>> THEN None
    ELSE LET pkt == Message(m.q.name, m.rrs)
         IN  FirstA(pkt, Len(m.rrs), SkipName(pkt, 0) + 5)

parse_a_response(m, id) ==
    IF m.q.id # id \/ m.rcode # 0 \/ m.rrs = <<>> THEN None
    ELSE LET pkt == Message(m.q.name, m.rrs)
         IN  FirstA(pkt, Len(m.rrs), SkipName(pkt, 0) + 5)
-----------------------------------------------------------------------------
\* the labels that cs.split('.') yields can be sent, in a query, of 16 bytes more than
\* the name, that the socket's buffer takes
ValidName(name) ==
    /\ \A k \in 1..Len(name) : Len(name[k]) \in 1..63
    /\ Len(NameBytes(name)) + 16 <= 512

\* smoltcp_resolve up to its loop; id and port are random and checked against nothing
Ask(q) ==
    /\ query = None /\ Cardinality(sent) + Cardinality(net) < MaxInFlight
    /\ ValidName(q.name)
    /\ Repeats \/ \A p \in sent \cup {m.q : m \in net} : <<p.id, p.port>> # <<q.id, q.port>>
    /\ query' = q /\ sockets' = sockets \cup {q.port}
    /\ \E s \in {sent, sent \cup {q}} : sent' = s
    /\ result' = None /\ UNCHANGED net

\* it returns -1 before there is a socket
Refuse(name) ==
    /\ query = None /\ ~ValidName(name)
    /\ result' = None /\ UNCHANGED <<query, sockets, sent, net>>

\* Faulty variant of Finish: the socket is removed only after an answer.
FinishKeepsSocket(r) ==
    /\ query' = None /\ result' = r
    /\ sockets' = IF r = None THEN sockets ELSE sockets \ {query.port}

Finish(r) ==
    /\ query' = None /\ result' = r /\ sockets' = sockets \ {query.port}

\* one turn of the loop with a datagram in the socket, which the network may repeat
Receive(m) ==
    LET addr == parse_a_response(m, query.id)
    IN  /\ query # None /\ m \in net /\ m.q.port = query.port
        /\ \E n \in {net, net \ {m}} : net' = n
        /\ \/ /\ addr # None
              /\ Finish([name |-> query.name, addr |-> addr, from |-> m])
           \/ addr = None /\ UNCHANGED <<query, sockets, result>>
        /\ UNCHANGED sent

Timeout ==
    /\ query # None /\ Finish(None) /\ UNCHANGED <<sent, net>>

\* external: the server answers, once or not at all
Answer(q, rcode, rrs) ==
    /\ q \in sent /\ sent' = sent \ {q}
    /\ net' = net \cup {[q |-> q, rcode |-> rcode, rrs |-> rrs]}
    /\ UNCHANGED <<query, sockets, result>>

\* no socket is open at a datagram's port, or it is lost
Lose(m) == m \in net /\ net' = net \ {m} /\ UNCHANGED <<query, sockets, sent, result>>

Next ==
    \/ \E q \in [id : Ids, port : Ports, name : Names] : Ask(q)
    \/ \E name \in Names : Refuse(name)
    \/ Timeout \/ \E m \in net : Receive(m) \/ Lose(m)
    \/ \E q \in sent, rcode \in {0, 3}, rrs \in Answers : Answer(q, rcode, rrs)

Spec == Init /\ [][Next]_vars
-----------------------------------------------------------------------------
\* record k of an answer section is its first A record
FirstAt(rrs, k) ==
    rrs[k].rtype = 1 /\ \A j \in 1..(k - 1) : rrs[j].rtype # 1

(***************************************************************************)
(* What smoltcp_resolve returns for a name is the first A record of a      *)
(* successful answer to its own query, however late or often answers to    *)
(* queries with other ids or ports arrive.                                 *)
(***************************************************************************)
OwnAnswer ==
    result # None =>
        LET m == result.from
        IN  /\ m.q.name = result.name /\ m.rcode = 0
            /\ \E k \in 1..Len(m.rrs) : FirstAt(m.rrs, k) /\ result.addr = m.rrs[k].rdata

(***************************************************************************)
(* Every way out of the loop removes the resolver's socket.                *)
(***************************************************************************)
SocketsRestored == query = None => sockets = {}

(***************************************************************************)
(* dns.rs:3-4: "parses the first A record from the answer section."  Of a  *)
(* successful answer parse_a_response returns the first A record; it makes *)
(* none up where there is none.                                            *)
(***************************************************************************)
ARecordFound ==
    \A m \in net : m.rcode = 0 =>
        \/ /\ \A k \in 1..Len(m.rrs) : m.rrs[k].rtype # 1
           /\ parse_a_response(m, m.q.id) = None
        \/ \E k \in 1..Len(m.rrs) :
               FirstAt(m.rrs, k) /\ parse_a_response(m, m.q.id) = m.rrs[k].rdata
=============================================================================
