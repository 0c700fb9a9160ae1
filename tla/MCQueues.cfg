SPECIFICATION QueueSpec
CONSTANTS
    Capacity = 3
    MaxPush = 9
    Threads = {t1, t2, t3}
    Values = {v1}
    BqCapacity = 2
    NULL = NULL
    Garbage = Garbage
INVARIANTS
    NoDataRace
    FifoDelivery
    HonestAnswers
PROPERTIES
    EverythingDelivered
    CloseReleasesAll
    CallsProgress
