CONSTANTS
    c_BUNDLE_LIMIT_SIZE = 1
    c_BUNDLE_MAX_SIZE = 1
    Roots = {1, 2}
    Names = {1, 2}
    Paths <- MCPaths
    NoSum = 0
    Content <- DiskContent
    Data = {1, 2}
    BigData = {}
    DirSize = 1
    PreserveMtime = FALSE
    MaxClock = 5
    IncludedRoots = {1}
    Torn = 9
    MaxRestoreFailures = 1
    LegacyObjects <- NoLegacy
    CacheWrites = {"left out"}

SPECIFICATION Spec

CONSTRAINT ClockBound

INVARIANT SpecRestoreExact
