SPECIFICATION LiveSpec
CONSTANTS
    JobRequests = {j1}
    Probes = {p1}
    FileSizes = {0, 3, 4}
    Overheads = {1, 2}
    MaxBytes = 3
    Margin = 1
    Chunk = 2
    Threads = 1
    MaxChanges = 2
INVARIANT TypeOK
INVARIANT ReplicaInv
INVARIANT OneBucket
INVARIANT SizeLimitExact
INVARIANT InjectedHasCause
INVARIANT ReadinessHonest
PROPERTY EveryRequestEnds
CHECK_DEADLOCK FALSE
