SPECIFICATION PartsSpec
CONSTANTS
    Visibility = 12
    interval_seconds = 1
    extension_seconds = 12
    CallMax = 4
    BeforeMax = 1
    MaxFailures = 1
    Grace = 6
    KillAfter = 11
    ReceiveMax = 12
    JobMax = 5
    HandlerDelay = 4
    ProbeMax = 1
    Rounds = 4
    BaseDelay = 1
    MaxDelay = 3
    Uploaders = {u1, u2}
    Pollers = {p1}
    Total = 2
    Period = 1
    RequestMax = 1
    PollTimeout = 2
    PollInterval = 1
    MAX_THUMBNAIL_EDGE = 8192
    MaxDepth = 4
    MaxItems = 2
    MaxChars = 3
    MaxExifChars = 3
    MaxExifItems = 3
    Scale = 10
    Fine = 16
    Environments <- MCEnvironments
    Images <- MCImages
    Samples <- MCSamples
INVARIANTS
    HeartbeatTypeOK
    DeadlineInv
    HeldWhileRendering
    TypeOK
    ClockInv
    KilledOnlyIfDropped
    AtMostOneLateJob
    OnlyLateJobsAreCut
    LoadTypeOK
    AttemptsAccounted
    FollowsAccounted
    FollowIsBounded
    ConfigIsExact
    RedactionIsExact
    ExifIsExact
    PercentileIsNearest
PROPERTIES
    ThreadEnds
    ReportedWasCurrent
    RunReturns
CHECK_DEADLOCK FALSE
