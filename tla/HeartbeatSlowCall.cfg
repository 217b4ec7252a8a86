SPECIFICATION HeartbeatSpec
CONSTANTS
    Visibility = 12
    interval_seconds = 3
    extension_seconds = 12
    CallMax = 12
    BeforeMax = 1
    MaxFailures = 1
INVARIANT HeldWhileRendering
CHECK_DEADLOCK FALSE
