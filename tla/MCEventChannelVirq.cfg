SPECIFICATION Spec
CONSTANTS
    Domains = {1}
    NrPorts = 3
    Small = {}
    MaxEvtchns <- TableSize
    BucketSize = 2
    HvmDomains = {}
    Vcpus = {0, 1}
    Virqs = {timer, console}
    GlobalVirqs = {console}
    Cpus = {c1, c2}
    NoCpu = NoCpu
    NoDom = NoDom
    NoVirq = NoVirq
SYMMETRY CpuSymmetry
INVARIANTS FreePortClean VirqMapConsistent
