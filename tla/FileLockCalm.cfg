\* Two fibers of one process and one of a process on another host: crashes, pid
\* reuse and failed writes, in a calm environment.
SPECIFICATION CalmSpec
CONSTANTS
    a1 = a1
    a2 = a2
    a3 = a3
    p1 = p1
    p2 = p2
    p3 = p3
    Acquirers = {a1, a2, a3}
    Pids = {p1, p2}
    Pid <- PidShared
    Host <- HostEach
    StaleMs <- StaleThree
    UnreadableMs = 1
    Patience <- PatienceMixed
    AgeCap = 4
    MaxCrashes = 1
    Nobody = Nobody
    NoFile = NoFile
INVARIANTS MutualExclusion
PROPERTIES OnlyOwnOrAbandonedRemoved ImplementsMutex
