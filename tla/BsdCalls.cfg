\* Two threads and two descriptors; no symmetry, since liveness is checked.
SPECIFICATION BsdSpec
CONSTANTS
    Threads = {t1, t2}
    Fds = {f1, f2}
    Socks = {s1, s2, s3}
    None = None
    Reconnect = FALSE
    rd_in = {"listen", "lo", "tcp", "udp"}
    wr_in = {"tcp"}
    MaxQ = 2
INVARIANTS NoDanglingHandle WaitsOnlyAtTheEnd
PROPERTIES ImplementsOwnership EverythingReported
