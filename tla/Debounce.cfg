\* Two fibers trigger and cancel while timers go off and the scope closes.
SPECIFICATION Spec
CONSTANTS
    a1 = a1
    a2 = a2
    Calls = {a1, a2}
    Closer = Closer
    MaxFires = 3
    None = None
INVARIANTS FireInv
PROPERTIES LatestFires FiresOrReplaced CallsEnd
\* No one has to call or to close.
CHECK_DEADLOCK FALSE
