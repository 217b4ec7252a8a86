SPECIFICATION MCSpec
CONSTANTS
    MAX_THUMBNAIL_EDGE = 8192
    MaxDepth = 4
    MaxItems = 2
    MaxChars = 3
    MaxExifChars = 3
    MaxExifItems = 3
    Scale = 10
    Fine = 16
    Environments <- MCEnvironments
    Images <- MCImages
    Samples <- MCSamples
INVARIANT ExifIsSafe
CHECK_DEADLOCK FALSE
