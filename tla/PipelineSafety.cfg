SPECIFICATION Spec
CONSTANTS
    Jobs = {j1}
    Workers = {w1, w2}
    Sizes = {150, 400}
    MaxReceive = 2
    Attempts = 2
    NoReceipt = NoReceipt
    Exclusive = FALSE
SYMMETRY Symmetry
INVARIANT TypeOK
INVARIANT PipelineInv
INVARIANT QueuedIsBacked
INVARIANT RecordTellsTheTruth
INVARIANT NeverDroppedUnsettled
PROPERTY NoRestartNoUpsert
PROPERTY LifecycleSpec
CHECK_DEADLOCK FALSE
