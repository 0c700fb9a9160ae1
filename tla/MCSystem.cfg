SPECIFICATION SystemSpec
CONSTANTS
    Writers = {w1, w2}
    Readers = {r1}
    Versions = {0, 1, 2}
    Inodes = {i1, i2, i3}
    Exclusive = TRUE
    NULL = NULL
    Kids = {1, 2, 3}
    Statuses = {0, 1}
    Interrupts = 2
    None = None
    FirstCap = 2
    SizeMax = 15
    MaxOutput = 9
    MaxLen = 6
    MaxComp = 2
    m1 = m1
    m2 = m2
    m3 = m3
    Makers = {m1, m2, m3}
    PathOf <- MakerPaths
    MaxPath = 3
    Options <- OptionTable
    Tokens <- TokenSet
    Lines <- LineSet
    MaxArgs = 3
    MaxLines = 3
    CLI_MAX_OPTS = 2
    CLI_MAX_CONFIG = 2
    Empty = "empty"
    Truthy = {"yes"}
    Null = Null
SYMMETRY FileSymmetry
INVARIANTS
    ReadersSeeOneVersion
    NothingIsLeft
    ChildrenAreHeard
    PathsKeepTheirPlace
    MkdirsIsExact
    ResolutionIsLayered
PROPERTIES
    OnlySuccessReplaces
