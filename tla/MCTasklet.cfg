SPECIFICATION FairSpec
CONSTANTS
    Cpus = {c0, c1}
    Boot = c0
    Tasklets = {t, u, s}
    Softirq = {s}
    Nobody = Nobody
    MaxCalls = 4
    MaxDowns = 1
INVARIANTS
    QueuesExact
    WorkAnnounced
    KilledIsQuiet
PROPERTIES
    ScheduledRuns
CHECK_DEADLOCK FALSE
