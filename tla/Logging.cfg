\* Two emissions, one flush, and the closing of the scope.
SPECIFICATION FairSpec
CONSTANTS
    f1 = f1
    Emissions = {1, 2}
    Flushers = {f1}
    Scope = Scope
INVARIANTS LinesAreKept FileInOrder
PROPERTY FlushEnds
\* No one has to log, to flush or to close.
CHECK_DEADLOCK FALSE
