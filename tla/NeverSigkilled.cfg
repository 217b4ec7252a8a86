SPECIFICATION Spec
CONSTANTS
    Grace = 6
    KillAfter = 11
    ReceiveMax = 12
    JobMax = 5
    HandlerDelay = 4
    ProbeMax = 1
    Rounds = 4
    BaseDelay = 1
    MaxDelay = 3
INVARIANT NeverSigkilled
CHECK_DEADLOCK FALSE
