\* Two processes on one host, one waiting caller and one that tries once;
\* crashes, pid reuse and failed writes; time runs on.
SPECIFICATION EagerSpec
CONSTANTS
    a1 = a1
    a2 = a2
    a3 = a3
    p1 = p1
    p2 = p2
    p3 = p3
    Acquirers = {a1, a2}
    Pids = {p1, p2}
    Pid <- PidTwo
    Host <- HostOne
    StaleMs <- StaleTwo
    UnreadableMs = 1
    Patience <- PatienceMixed
    AgeCap = 3
    MaxCrashes = 1
    Nobody = Nobody
    NoFile = NoFile
PROPERTIES AcquireEnds LockRecovers
