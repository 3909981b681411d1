SPECIFICATION FairSpec
CONSTANTS
    Domains <- Waiting
    AllSources = {s1}
    PortsPerWord = 4
    Words = {0}
    WordOf <- PortWord
PROPERTIES
    PollerWoken
    BlockedWoken
    EventHandled
