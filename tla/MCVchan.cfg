SPECIFICATION FairSpec
CONSTANTS
    RingSize = 2
    Modulus = 4
    Ops <- Calls
INVARIANTS
    CopiedIsFront
    NoLostWakeup
PROPERTIES
    IsByteStream
    Woken
CHECK_DEADLOCK FALSE
