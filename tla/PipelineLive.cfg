SPECIFICATION LiveSpec
CONSTANTS
    Jobs = {j1}
    Workers = {w1}
    Sizes = {150}
    MaxReceive = 2
    Attempts = 2
    NoReceipt = NoReceipt
    Exclusive = FALSE
PROPERTY AcceptedSettles
PROPERTY QueueDrains
CHECK_DEADLOCK FALSE
