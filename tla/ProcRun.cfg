\* Two calls that queue for one permit.
SPECIFICATION FairSpec
CONSTANTS
    c1 = c1
    c2 = c2
    Calls = {c1, c2}
    Permits = 1
INVARIANTS PermitsAreSlots EndsJoined CutOutputIsMarked
PROPERTY CancelledCallEnds
