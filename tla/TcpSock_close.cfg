\* One thread is enough.
SPECIFICATION Spec
CONSTANTS
    Threads = {t1}
    TxCap = 2
    RxCap = 1
    MaxLen = 3
    Lens = {1, 2, 3}
PROPERTIES GracefulClose
