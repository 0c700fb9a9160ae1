SPECIFICATION SpecWithZero
CONSTANTS
    Addrs = {a1, a2, a3}
    Sizes = {1}
    ReallocSizes = {0, 1}
    MaxAllocs = 4
    NULL = NULL
INVARIANTS
    TrackedIsLive
