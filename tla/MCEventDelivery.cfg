SPECIFICATION Spec
CONSTANTS
    Domains <- SeveralDomains
    AllSources = {s1, s2}
    PortsPerWord = 4
    Words = {0}
    WordOf <- PortWord
SYMMETRY Symmetry
INVARIANTS
    NoLostEvent
    NoLostWakeup
