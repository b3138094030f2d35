\* A section that is interrupted at its write, and one after it.
SPECIFICATION Spec
CONSTANTS
    w1 = w1
    w2 = w2
    Writers = {w1, w2}
    Chunks = 2
    Old = Old
INVARIANT WrittenStays
CHECK_DEADLOCK FALSE
