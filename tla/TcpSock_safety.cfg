\* Two threads share the socket; a send is cut in two by the buffer.
SPECIFICATION Spec
CONSTANTS
    Threads = {t1, t2}
    TxCap = 2
    RxCap = 1
    MaxLen = 2
    Lens = {2}
SYMMETRY ThreadSymmetry
INVARIANTS TypeOK NotStranded SendKeepsOrder
