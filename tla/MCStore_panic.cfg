CONSTANTS
    Keys = {k1}
    Secrets = {s1}
    Vals = {v1, v2}
    PlainLens = {0, 17, 40}
    ReadSizes = {7, 16, 32}
    CopyBufSize = 32
    Cuts = {16, 20, 40}
    MaxSalts = 2
    MaxLayerFailures = 1
    Layers = {"fs", "s3", "mock"}
SPECIFICATION Spec
INVARIANTS GetNeverPanics
