SPECIFICATION LocalSpec
CONSTANTS
    Jobs = {j1}
    Workers = {w1, w2}
    Sizes = {150}
    MaxReceive = 2
    Attempts = 2
    NoReceipt = NoReceipt
    Exclusive = TRUE
SYMMETRY Symmetry
INVARIANTS
    LocalTypeOK
    OneResultIfExclusive
    HandlersLeaveNothing
    OutcomesTellTheTruth
    CompletionsCounted
CHECK_DEADLOCK FALSE
