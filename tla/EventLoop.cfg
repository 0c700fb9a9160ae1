SPECIFICATION FairSpec
CONSTANTS
    Fds = {3, 4}
    Masks = {{"READ"}, {"WRITE"}}
    Callbacks = {cb1}
    InitCap = 1
    MaxCap = 4
    MaxEntries = 3
    NULL = NULL
INVARIANTS
    WalkIsSound
PROPERTIES
    ImplementsRegistry
    StopReturns
