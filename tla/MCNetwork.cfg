SPECIFICATION NetworkSpec
CONSTANTS
    c1 = c1
    c2 = c2
    Clients = {c1, c2}
    Workers = {w1}
    KernelBuf = 1
    NAddrs = 2
    MaxFd = 3
    MsgLen <- Lengths
    SrvBuf = 2
    CliBuf = 3
    Procs = {p1, p2, p3}
    Nobody = Nobody
    Requests <- Payloads
    RecvCap = 2
    NoSocket = NoSocket
INVARIANTS
    EchoIsExact
    NoDescriptorLost
    UnixPathIsSound
    DatagramsAreWhole
PROPERTIES
    EveryClientFinishes
