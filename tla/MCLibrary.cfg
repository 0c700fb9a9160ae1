SPECIFICATION LibrarySpec
CONSTANTS
    Keys = {k1, k2, k3, k4}
    Values = {v1, v2}
    HashValues = {0, 3, 7}
    InitialCap = 4
    MaxCap = 8
    NULL = NULL
    Width = 4
    ElemSizes = {1, 2, 3}
    Elems = {e1, e2}
    Caps = {1, 2, 5, 9}
    Garbage = Garbage
    VecInitialCap = 2
    Chars = {c1, c2}
    StrBufInitialCap = 2
    Nul = Nul
    MaxText = 5
    BufSize = 5
    MaxDigits = 2
    Exhausted = Exhausted
    MallocAlign = 2
    ArenaCaps = {1, 6, 14, 15}
    MaxBlocks = 3
    BlockSize = 2
    BlockCount = 4
    Data = Data
    Addrs = {a1, a2, a3}
    Sizes = {1}
    ReallocSizes = {1, 2}
    MaxAllocs = 4
    Lanes = 4
    MaxN = 9
    InA <- Powers
    InB <- Others
    Scalar = 3
    MaxDim = 3
    MatSizeMax = 31
    MATX_DEFAULT_BLOCK = 2
    Batches = {2, 3}
    MaxRounds = 3
    CsvLines <- Csv
    MaxFileLines = 4
    FirstVals = 2
    ValsSizeMax = 31
    Word = 16
    CanvasWidth = 3
    Height = 2
    Coords <- CoordSet
    MaxRadius = 9
    MaxSide = 3
SYMMETRY KeySymmetry
INVARIANTS
    MapIsExact
    RingBufIsQueue
    GrowthIsSound
    SplitIsExact
    AllocatorsAreSound
    KernelsAreExact
    UpdateIsOfTheBatch
    DatasetIsExact
    ShapesAreExact
