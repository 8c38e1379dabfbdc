----------------------------- MODULE Ownership -----------------------------
(***************************************************************************)
(* What the BSD layer promises about smoltcp sockets: every socket in the  *)
(* stack has one owner, a descriptor or a slot of a listener pool, is      *)
(* opened for it, may be moved to another, and is closed with it.          *)
(***************************************************************************)
EXTENDS TLAPS

CONSTANTS Owners, Socks, None

VARIABLES
    own,     \* own[o]: the socket of owner o, or None
    live     \* the sockets in smoltcp's socket set

vars == <<own, live>>

Init == own = [o \in Owners |-> None] /\ live = {}

\* a new socket for an owner that has none
Open(o) ==
    \E s \in Socks \ live :
        /\ own[o] = None
        /\ own' = [own EXCEPT ![o] = s]
        /\ live' = live \cup {s}

\* o's socket goes to p, and o gets a new one, or none
Move(o, p) ==
    \E s \in (Socks \ live) \cup {None} :
        /\ o # p /\ own[o] # None /\ own[p] = None
        /\ own' = [own EXCEPT ![p] = own[o], ![o] = s]
        /\ live' = live \cup ({s} \ {None})

\* the owners in O give up their sockets, which are closed
Close(O) ==
    /\ own' = [o \in Owners |-> IF o \in O THEN None ELSE own[o]]
    /\ live' = live \ {own[o] : o \in O}

Next ==
    \/ \E o \in Owners : Open(o)
    \/ \E o, p \in Owners : Move(o, p)
    \/ \E O \in SUBSET Owners : Close(O)

Spec == Init /\ [][Next]_vars
-----------------------------------------------------------------------------
TypeOK == own \in [Owners -> Socks \cup {None}] /\ live \subseteq Socks

\* no socket without an owner, no owner with a closed socket, no socket with two
ExactlyOne ==
    /\ live = {own[o] : o \in Owners} \ {None}
    /\ \A o, p \in Owners : own[o] = own[p] /\ own[o] # None => o = p

\* Every step keeps every live socket with exactly one owner.
LEMMA NextExactlyOne ==
    ASSUME None \notin Socks, TypeOK, ExactlyOne, [Next]_vars
    PROVE  (TypeOK /\ ExactlyOne)'
<1> USE DEF TypeOK, ExactlyOne
<1>1. ASSUME NEW o \in Owners, Open(o) PROVE (TypeOK /\ ExactlyOne)'
  BY <1>1 DEF Open
<1>2. ASSUME NEW o \in Owners, NEW p \in Owners, Move(o, p) PROVE (TypeOK /\ ExactlyOne)'
  BY <1>2 DEF Move
<1>3. ASSUME NEW O \in SUBSET Owners, Close(O) PROVE (TypeOK /\ ExactlyOne)'
  BY <1>3 DEF Close
<1>4. CASE UNCHANGED vars
  BY <1>4 DEF vars
<1> QED
  BY <1>1, <1>2, <1>3, <1>4 DEF Next

\* What the promise means, for every set of owners: at all times the sockets in
\* the stack are exactly those that a descriptor or a pool slot owns, each once,
\* so nothing leaks and nothing is closed under another owner.
THEOREM OneOwnerEach ==
    ASSUME None \notin Socks
    PROVE  Spec => []ExactlyOne
<1>1. Init => TypeOK /\ ExactlyOne
  BY DEF Init, TypeOK, ExactlyOne
<1>2. TypeOK /\ ExactlyOne /\ [Next]_vars => (TypeOK /\ ExactlyOne)'
  BY NextExactlyOne
<1> QED
  BY <1>1, <1>2, PTL DEF Spec
=============================================================================
