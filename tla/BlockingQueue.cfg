SPECIFICATION Spec
CONSTANTS
    Threads = {t1, t2, t3}
    Values = {v1, v2}
    Capacity = 2
    NULL = NULL
    Garbage = Garbage
SYMMETRY ThreadSymmetry
INVARIANTS
    TypeOK
    NoLostWakeups
PROPERTIES
    ImplementsFifo
