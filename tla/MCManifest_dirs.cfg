CONSTANTS
    c_BUNDLE_LIMIT_SIZE = 1
    c_BUNDLE_MAX_SIZE = 1
    Roots = {1, 2}
    Names = {1, 2}
    Paths <- MCPaths
    Content <- DiskContent
    NoSum = 0
    Data = {1, 2, 3}
    BigData = {3}
    DirSize = 1
    PreserveMtime = FALSE
    MaxClock = 5
    LegacyObjects <- MCLegacyObjects
    CacheWrites = {"whole"}

SPECIFICATION Spec
CONSTRAINT ClockBound

INVARIANT SpecDirsRecorded
