SPECIFICATION Spec
CONSTANTS
    MaxEnd = 9
    MaxDt = 4
INVARIANTS
    ReachesEnd
