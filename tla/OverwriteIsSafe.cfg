SPECIFICATION Spec
CONSTANTS
    Jobs = {j1}
    Workers = {w1, w2}
    Sizes = {150}
    MaxReceive = 2
    Attempts = 2
    NoReceipt = NoReceipt
    Exclusive = FALSE
SYMMETRY Symmetry
PROPERTY OverwriteIsSafe
CHECK_DEADLOCK FALSE
