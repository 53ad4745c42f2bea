CONSTANTS
    Nodes <- MCNodes
    Parent <- MCParent
    DirNodes <- MCDirNodes
    CleanOf <- MCCleanOf
    Args <- MCArgs
    CfgInclude <- MCCfgInclude
    CfgExclude <- MCCfgExclude
    CfgArg = "~/c"
    c_CONCURRENT_FILES = 2

SPECIFICATION FairSpec

\* Scan returns, and the process goes on to compare: a finished scan has no
\* successor here, nor has a log.Fatal.
CHECK_DEADLOCK FALSE

INVARIANT TypeOK
INVARIANT CloseSafe
INVARIANT ConfigNeverScanned
PROPERTY ScanImplementsContract
