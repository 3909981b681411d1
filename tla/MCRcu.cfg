SPECIFICATION FairSpec
CONSTANTS
    Cpus = {c0, c1}
    Readers = {c0}
    Boot = c0
    Callbacks = {x}
    Blimit = 1
    QHiMark = 1
    QLowMark = 0
    MaxBatch = 1
    MaxDowns = 1
    NoCpu = NoCpu
INVARIANTS
    RcuInv
    BarrierFlushes
PROPERTIES
    IsGracePeriod
    CallbackInvoked
CHECK_DEADLOCK FALSE
