------------------------------ MODULE Restore ------------------------------
(***************************************************************************)
(* backup.RestoreToPath with archive.RestoreDir and archive.UnpackReader:  *)
(* read the manifest the store's pointer names, scan and checksum the      *)
(* destination, plan (creating directories on the way), then fetch every   *)
(* planned blob, in map order, and unpack the selected files from it.     *)
(*                                                                         *)
(* The store is seen through two variables that the composing module      *)
(* owns: storeData, what getLatestManifest returns (a Serialize or v2     *)
(* value, bytes ReadManifestData rejects, or NoManifest), and storeBlobs, a set of <<set, key, path, sha>> *)
(* with one tuple per file of each blob "blob/<set>/<key>" put.  Restore   *)
(* only reads them; the composing module also owns the cache that the    *)
(* read of storeData in RStart fills.  Within a blob the tar entries are in path order: the  *)
(* order in which bundleSmallFiles, after sortBundlesByPath, packs them.   *)
(***************************************************************************)
EXTENDS Manifest, FiniteSets

CONSTANTS Included(_),         \* the prefix test of RestoreToPath's incl list
          ContentSize(_),      \* the byte length of a content
          Torn,                \* the contents of a file whose copy broke off
          MaxRestoreFailures   \* bound on the read errors of the store

ASSUME Torn # NoSum

VARIABLES storeData, storeBlobs,
          dest,      \* path -> what is in the destination tree there
          rpc,       \* "idle", "unpack" (fetching blobs), "done", "failed"
          rm,        \* the manifest the running restore read
          targets,   \* <<set, key>> -> the files still to restore from that blob
          cur,       \* the tar entries of the blob being unpacked, not yet read
          only,      \* the filter of that blob: path -> file
          rfails,    \* read errors so far
          fresh      \* the destination was empty when the running restore began

\* No pointer and no legacy object: getLatestManifest fails.
NoManifest == [version |-> 0, lastSet |-> 0, entries |-> <<>>]

\* The mtime the file system gives a file written now (before Chtimes).
WriteTime == 0

RPathLess(p, q) == p[1] < q[1] \/ (p[1] = q[1] /\ p[2] < q[2])

\* ScanRelativeTo(root): the destination's files with destination-relative
\* paths, then ChecksumFilesFS on the sub-directory file system.
DestFS == [p \in Paths |-> dest[p].data]

LocalFiles ==
    LET ps == SetToSortSeq({p \in Paths : dest[p].exists}, RPathLess)
        fs == [i \in DOMAIN ps |-> [root |-> ps[i][1], name |-> ps[i][2],
                                    dir |-> dest[ps[i]].dir,
                                    size |-> IF dest[ps[i]].dir THEN 0
                                             ELSE ContentSize(dest[ps[i]].data),
                                    mtime |-> dest[ps[i]].mtime, sha |-> NoSum]]
    IN ChecksumGroupsFS(<<fs>>, DestFS)[1]

BlobKey(e) == <<e.set, e.parts[1]>>

\* The tar stream of blob k: <<path, sha>> in path order.
TarEntries(k) ==
    SetToSortSeq({<<t[3], t[4]>> : t \in {t \in storeBlobs : <<t[1], t[2]>> = k}},
                 LAMBDA a, b : RPathLess(a[1], b[1]))

RInit == /\ dest = [p \in Paths |-> [exists |-> FALSE, dir |-> FALSE, data |-> NoSum, mtime |-> 0]]
         /\ rpc = "idle"
         /\ rm = NoManifest
         /\ targets = <<>>
         /\ cur = <<>>
         /\ only = <<>>
         /\ rfails = 0
         /\ fresh = FALSE

\* archive.RestoreDir(subdir, f) on what is at the path: Mkdir fails where
\* anything exists (a directory or a file), and RestoreDir returns before
\* Lchown and Chtimes; otherwise the directory is made and given f's mtime.
RestoreDir(d, f) ==
    IF d.exists THEN d
    ELSE [exists |-> TRUE, dir |-> TRUE, data |-> NoSum, mtime |-> f.mtime]

-----------------------------------------------------------------------------
(***************************************************************************)
(* RestoreToPath up to the fetch loop.  Every entry of the manifest that   *)
(* is included and not HasIdentical in the destination's own manifest is   *)
(* planned: a directory is made at once (RestoreDir; its Mkdir fails, and  *)
(* the error is dropped, where the path exists), a file is added to        *)
(* targets under its first part's blob.                                    *)
(***************************************************************************)
RStart ==
    LET m       == ReadManifestData(storeData)
        local   == NewManifest(LocalFiles, 0)
        planned == {m.heap[p] : p \in {p \in ToSet(m.entries) :
                                        Included(Path(m.heap[p].file))
                                        /\ ~HasIdentical(local, m.heap[p].file)}}
        dirs    == {e \in planned : IsDir(e.file)}
        files   == planned \ dirs
        restored(p) == \E e \in dirs : Path(e.file) = p
        dirOf(p)    == CHOOSE e \in dirs : Path(e.file) = p
    IN /\ rpc \in {"idle", "done", "failed"}
       /\ storeData # NoManifest
       /\ ~ReadManifestFails(storeData)
       /\ rm' = m
       /\ fresh' = \A p \in Paths : ~dest[p].exists
       /\ dest' = [p \in Paths |-> IF restored(p) THEN RestoreDir(dest[p], dirOf(p).file)
                                   ELSE dest[p]]
       /\ targets' = [k \in {BlobKey(e) : e \in files} |->
                        [p \in {Path(e.file) : e \in {e \in files : BlobKey(e) = k}} |->
                           (CHOOSE e \in files : Path(e.file) = p).file]]
       /\ cur' = <<>>
       /\ only' = <<>>
       /\ rpc' = "unpack"
       /\ UNCHANGED <<rfails, storeBlobs>>

\* bucket.GetReader(key) for the next key of the targets map (any order).
RFetch(k) ==
    /\ rpc = "unpack" /\ cur = <<>>
    /\ cur' = TarEntries(k)
    /\ only' = targets[k]
    /\ targets' = [j \in DOMAIN targets \ {k} |-> targets[j]]
    /\ UNCHANGED <<dest, rpc, rm, rfails, fresh, storeBlobs>>

\* Mutant: the filter is not applied; every header of the blob is written.
RUnpackNoFilter ==
    /\ rpc = "unpack" /\ cur # <<>>
    /\ LET p == Head(cur)[1]
       IN dest' = IF ~dest[p].exists
                  THEN [dest EXCEPT ![p] = [exists |-> TRUE, dir |-> FALSE,
                                            data |-> Head(cur)[2], mtime |-> 0]]
                  ELSE dest
    /\ cur' = Tail(cur)
    /\ UNCHANGED <<rpc, rm, targets, only, rfails, fresh, storeBlobs>>

\* The next header of the tarball: skipped when not in the filter or when
\* the path exists already; otherwise the file is written and given the
\* header's mtime (the file's, as packed).
RUnpack ==
    /\ rpc = "unpack" /\ cur # <<>>
    /\ LET p == Head(cur)[1]
       IN dest' = IF p \in DOMAIN only /\ ~dest[p].exists
                  THEN [dest EXCEPT ![p] = [exists |-> TRUE, dir |-> FALSE,
                                            data |-> Head(cur)[2], mtime |-> only[p].mtime]]
                  ELSE dest
    /\ cur' = Tail(cur)
    /\ UNCHANGED <<rpc, rm, targets, only, rfails, fresh, storeBlobs>>

\* GetReader or tr.Next returns an error: RestoreToPath returns it.
RReadFails ==
    /\ rpc = "unpack" /\ (cur # <<>> \/ DOMAIN targets # {})
    /\ rfails < MaxRestoreFailures
    /\ rfails' = rfails + 1
    /\ rpc' = "failed"
    /\ UNCHANGED <<dest, rm, targets, cur, only, fresh, storeBlobs>>

\* io.Copy of a selected file fails part way: the file is left with what
\* was copied and the time of the write, and the error is returned.
RTornWrite ==
    /\ rpc = "unpack" /\ cur # <<>>
    /\ rfails < MaxRestoreFailures
    /\ LET p == Head(cur)[1]
       IN /\ p \in DOMAIN only /\ ~dest[p].exists
          /\ dest' = [dest EXCEPT ![p] = [exists |-> TRUE, dir |-> FALSE, data |-> Torn,
                                          mtime |-> WriteTime]]
    /\ rfails' = rfails + 1
    /\ rpc' = "failed"
    /\ UNCHANGED <<rm, targets, cur, only, fresh, storeBlobs>>

\* Every blob is unpacked: RestoreToPath returns nil.
RDone ==
    /\ rpc = "unpack" /\ cur = <<>> /\ DOMAIN targets = {}
    /\ rpc' = "done"
    /\ UNCHANGED <<dest, rm, targets, cur, only, rfails, fresh, storeBlobs>>

\* The steps after the manifest is read.
RSteps == \/ \E k \in DOMAIN targets : RFetch(k)
          \/ RUnpack \/ RReadFails \/ RTornWrite \/ RDone

RNext == RStart \/ RSteps

=============================================================================
