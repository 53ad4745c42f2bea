CONSTANTS
    c_BUNDLE_LIMIT_SIZE = 2
    c_BUNDLE_MAX_SIZE = 3
    Roots = {1, 2}
    Names = {1, 2}
    Sizes = {0, 2, 3}
    MaxFiles = 4

SPECIFICATION Spec

CHECK_DEADLOCK FALSE

INVARIANT BundlesPartitionInput
INVARIANT BigFilesAlone
INVARIANT BundleSizeBound
INVARIANT DirsBundleLast
INVARIANT SingleRootBundles
INVARIANT KeysNameBundlesInOrder
