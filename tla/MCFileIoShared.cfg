SPECIFICATION Spec
CONSTANTS
    Writers = {w1, w2}
    Readers = {}
    Versions = {1, 2}
    Inodes = {i1, i2, i3, i4}
    Exclusive = FALSE
    NULL = NULL
INVARIANTS
    PathIsWhole
