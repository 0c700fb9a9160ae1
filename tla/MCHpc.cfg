SPECIFICATION HpcSpec
CONSTANTS
    NumThreads = 2
    Clients = {c1, c2}
    Jobs = {j1, j2, j3}
    Nodes = {n1, n2, n3}
    NULL = NULL
    MaxN = 7
    MaxThreads = 4
    PRODUCERS = 3
    ITEMS_PER_PRODUCER = 2
    QUEUE_CAP = 2
    Main = Main
INVARIANTS
    NodesAreOwned
    NoLostWakeup
    ParallelIsSequential
    PipelineIsExact
PROPERTIES
    ImplementsExecutor
    PoolProgresses
    CallReturns
