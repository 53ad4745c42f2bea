---------------------------- MODULE MCBackupLatest ----------------------------
(***************************************************************************)
(* backupLatest over the manifests of a second backup run: a first run     *)
(* backed up the files of some paths (sha 1), the second finds a nonempty  *)
(* set of paths changed or new (sha 2) and Updates the reloaded manifest.  *)
(***************************************************************************)
EXTENDS BackupLatest

MCPaths == {<<1, 1>>, <<1, 2>>, <<2, 1>>}

\* Sizes of a small and of a big file (see c_BUNDLE_LIMIT_SIZE in the cfg).
FileSizes == {1, 2}

\* No file reaches Update without its checksum.
MCContent(p) == NoSum

Files(ps, sha) ==
    LET seq == SetToSortSeq(ps, LAMBDA p, q : p[1] < q[1] \/ (p[1] = q[1] /\ p[2] < q[2]))
    IN {[i \in DOMAIN seq |-> [root |-> seq[i][1], name |-> seq[i][2], dir |-> FALSE,
                               size |-> sz[seq[i]], mtime |-> sha, sha |-> sha]]
        : sz \in [ps -> FileSizes]}

MCStartManifests ==
    {Update(ReadManifestData(Serialize(NewManifest(first, 1))), second, 2) :
        first \in UNION {Files(ps, 1) : ps \in SUBSET MCPaths},
        second \in UNION {Files(ps, 2) : ps \in SUBSET MCPaths \ {{}}}}

=============================================================================
