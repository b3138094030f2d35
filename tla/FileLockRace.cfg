\* One process crashes with the lock; the two others reclaim it, promptly but
\* at the same time.
SPECIFICATION PromptSpec
CONSTANTS
    a1 = a1
    a2 = a2
    a3 = a3
    p1 = p1
    p2 = p2
    p3 = p3
    Acquirers = {a1, a2, a3}
    Pids = {p1, p2, p3}
    Pid <- PidThree
    Host <- HostOne
    StaleMs <- StaleThree
    UnreadableMs = 1
    Patience <- PatienceMixed
    AgeCap = 4
    MaxCrashes = 1
    Nobody = Nobody
    NoFile = NoFile
INVARIANT MutualExclusion
