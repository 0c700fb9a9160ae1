SPECIFICATION Spec
CONSTANTS
    MaxLen = 4
    MaxComp = 4
INVARIANTS
    NeverLonger
