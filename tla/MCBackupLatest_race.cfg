CONSTANTS
    c_BUNDLE_LIMIT_SIZE = 1
    c_BUNDLE_MAX_SIZE = 1
    Paths <- MCPaths
    NoSum = 0
    Content <- MCContent
    UploadSlots = 2
    MaxFailures = 2
    StartManifests <- MCStartManifests

SPECIFICATION FairSpec

\* backupLatest returns or the process dies: a run has a last state.
CHECK_DEADLOCK FALSE

INVARIANT StoreConsistent
