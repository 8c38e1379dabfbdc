\* One thread; no symmetry, since liveness is checked.  A tick counter of 32 values.
SPECIFICATION CallsSpec
CONSTANTS
    Threads = {t1}
    TxCap = 2
    RxCap = 1
    MaxLen = 3
    Lens = {1, 2, 3}
    Ticks = 32
    Default = 5
    SndDefault = 4
    AcceptLimit = 7
    Timeouts = {0, 1, 6}
    Wait <- MCWait
INVARIANTS NoStalledWaiter GivesUpInTime
PROPERTIES CallsReturn
