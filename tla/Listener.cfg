\* One thread accepts on two slots; with two descriptors accept() also runs out
\* of them, and with three sockets slots go without.  No symmetry, since liveness
\* is checked.
SPECIFICATION FairSpec
CONSTANTS
    Threads = {t1}
    Fds = {f1, f2}
    Socks = {s1, s2, s3}
    PoolLen = 2
    None = None
    FREE = FREE
INVARIANTS HandshakeComplete
PROPERTIES ImplementsOwnership EveryConnectionAccepted
