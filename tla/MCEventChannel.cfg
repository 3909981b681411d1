SPECIFICATION Spec
CONSTANTS
    Domains = {1, 2}
    NrPorts = 3
    Small = {1}
    MaxEvtchns <- TableSize
    BucketSize = 2
    HvmDomains = {1}
    Vcpus = {0}
    Virqs = {}
    GlobalVirqs = {}
    Cpus = {c1, c2}
    NoCpu = NoCpu
    NoDom = NoDom
    NoVirq = NoVirq
SYMMETRY CpuSymmetry
INVARIANTS PeerSymmetry FreePortClean SendTargetStable XenPortKept
    XenPortNotPending DestroyedIsGone ReboundWasFreed NoLockCycle IInv
PROPERTIES PortNotStolen NoAllocAfterBarrier
