SPECIFICATION Spec
CONSTANTS
    Threads = {t1, t2}
    Fds = {f1, f2}
    Ports = {1, 2}
    NSlots = 1
    Depth = 2
    MaxMsgs = 3
    NULL = NULL
    Rebind = FALSE
SYMMETRY LoSymmetry
INVARIANTS NoLeak DeliveredToBound
PROPERTIES KeepsRegistration
