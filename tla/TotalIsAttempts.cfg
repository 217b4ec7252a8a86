SPECIFICATION LoadSpec
CONSTANTS
    Uploaders = {u1, u2}
    Pollers = {p1}
    Total = 2
    Period = 1
    RequestMax = 2
    PollTimeout = 2
    PollInterval = 1
INVARIANT TotalIsAttempts
CHECK_DEADLOCK FALSE
