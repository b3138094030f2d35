\* Two callers that take turns and stop at will; the runs of one task may hang.
SPECIFICATION LiveSpec
CONSTANTS
    c1 = c1
    c2 = c2
    Callers = {c1, c2}
    MaxTasks = 2
    MaxLoops = 4
    OnStartup = {1}
    Hanging = {1}
INVARIANTS NoOverlap TurnsInv
PROPERTIES KeepsFiring StoppingEnds
\* No one has to register a task or make a call.
CHECK_DEADLOCK FALSE
