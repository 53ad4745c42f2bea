----------------------------- MODULE MCManifest -----------------------------
(***************************************************************************)
(* The manifest across backup runs: a local tree is edited between runs of *)
(* backup.ScanAndBackup, each of which scans the tree, reads the stored    *)
(* manifest, compares, updates, uploads the latest bundles (at most one of *)
(* which fails and is rolled back, so no two rollbacks race: the racing    *)
(* case is BackupLatest's) and saves the manifest as JSON.  The manifest  *)
(* is read by getLatestManifest through the local cache of                 *)
(* cacheGetStoreObject, and a store may start with a legacy v2 object      *)
(* "manifest/latest" and no metadata pointer (spec 4.8 step 1b).           *)
(***************************************************************************)
EXTENDS Manifest, FiniteSets, TLC

CONSTANTS Roots, Names,
          Data,            \* file contents; the content is its own SHA1
          BigData,         \* the contents above c_BUNDLE_LIMIT_SIZE
          DirSize,         \* the size os.Lstat reports for a directory
          PreserveMtime,   \* whether a write may leave the mtime unchanged
          LegacyObjects,   \* the "manifest/latest" objects an older version left
          MaxClock,        \* bound on the wall clock
          CacheWrites      \* outcomes of the cache write: "whole", "left out", "torn"

ASSUME NoSum \notin Data /\ BigData \subseteq Data

Size(d) == IF d \in BigData THEN c_BUNDLE_LIMIT_SIZE + 1 ELSE 1

VARIABLES disk,     \* path -> what is on the local disk there
          clock,    \* the wall clock: mtimes and set keys
          data,     \* the manifest JSON last saved to the store
          mem,      \* the Manifest value of the last run that updated one
          dropped,  \* the paths the last run rolled back
          synced,   \* no edit since the last run
          blobs,    \* <<set, key, path, sha>> for each file of each blob put
          legacy,   \* the object "manifest/latest", or NoData
          cache     \* object key -> the cache file ~/.inc/cache/<id>_manifest_<key>

vars == <<disk, clock, data, mem, dropped, synced, blobs, legacy, cache>>

Absent == [exists |-> FALSE, dir |-> FALSE, data |-> NoSum, mtime |-> 0]

\* No manifest in the store yet: getLatestManifest reports not-exist.
NoData == [version |-> 0, lastSet |-> 0, entries |-> <<>>]

\* The object key "manifest/latest"; a set key "manifest/<set>" is a clock
\* value, so at least 1.
LatestKey == 0
CacheKeys == 0..MaxClock

\* A cache file is absent, or holds the bytes written to it.
CacheMiss == [type |-> "miss"]
CacheHit(d) == [type |-> "hit", data |-> d]

\* getLatestManifest: with the metadata pointer (data # NoData) the object
\* "manifest/<set>" it names; with ErrMissingMetadata the legacy object.
LatestObjectKey == IF data = NoData THEN LatestKey ELSE data.lastSet
LatestObject == IF data = NoData THEN legacy ELSE data

\* Mutant: the pointer is ignored when the legacy object is cached.
getLatestManifestLegacyFirst ==
    IF cache[LatestKey].type = "hit" THEN cache[LatestKey].data
    ELSE IF cache[LatestObjectKey].type = "hit" THEN cache[LatestObjectKey].data
    ELSE LatestObject

\* cacheGetStoreObject(bucket, key): the cache file when it exists (os.Stat),
\* else bucket.Get; NoData stands for Get's not-exist error.
getLatestManifest ==
    IF cache[LatestObjectKey].type = "hit" THEN cache[LatestObjectKey].data
    ELSE LatestObject

\* The cache after that call.  Only a miss whose Get succeeds writes the
\* file, and MkdirAll's and WriteFile's errors are dropped: the file is
\* then whole, left out, or cut short (a full disk or a kill mid-write).
cacheGetStoreObject ==
    IF cache[LatestObjectKey].type = "hit" \/ LatestObject = NoData THEN {cache}
    ELSE LET written == [whole |-> CacheHit(LatestObject), torn |-> CacheHit(TornData)]
         IN {[cache EXCEPT ![LatestObjectKey] = written[w]] : w \in CacheWrites \ {"left out"}}
            \cup (IF "left out" \in CacheWrites THEN {cache} ELSE {})

PathLess(p, q) == p[1] < q[1] \/ (p[1] = q[1] /\ p[2] < q[2])

\* PathScanner.Scan: every path on disk once, SHA1 unset.  The scanner's
\* order is arbitrary; bundling sorts by path, so one order stands for all.
Scan ==
    LET ps == SetToSortSeq({p \in Paths : disk[p].exists}, PathLess)
    IN [i \in DOMAIN ps |-> [root |-> ps[i][1], name |-> ps[i][2],
                             dir |-> disk[ps[i]].dir,
                             size |-> IF disk[ps[i]].dir THEN DirSize
                                      ELSE Size(disk[ps[i]].data),
                             mtime |-> disk[ps[i]].mtime, sha |-> NoSum]]

\* checksumFile reads the file's contents.
DiskContent(p) == disk[p].data

\* The tree a legacy manifest describes (the program is upgraded in place;
\* with no legacy object the tree starts empty), and the blobs its file
\* entries name (the older version put them before writing it).
LegacyTree(l) ==
    [p \in Paths |->
        IF \E i \in DOMAIN l.entries : Path(l.entries[i].file) = p
        THEN LET f == (CHOOSE e \in ToSet(l.entries) : Path(e.file) = p).file
             IN [exists |-> TRUE, dir |-> f.dir, data |-> IF f.dir THEN NoSum ELSE f.sha,
                 mtime |-> f.mtime]
        ELSE Absent]

LegacyBlobs(l) ==
    {<<e.under[1], e.under[2], Path(e.file), e.file.sha>> : e \in {e \in ToSet(l.entries) : "_" \in e.keys}}

Init == /\ legacy \in LegacyObjects
        /\ disk = LegacyTree(legacy)
        /\ clock = 1
        /\ data = NoData
        /\ mem = EmptyManifest
        /\ dropped = {}
        /\ synced = FALSE
        /\ blobs = LegacyBlobs(legacy)
        /\ cache = [k \in CacheKeys |-> CacheMiss]

-----------------------------------------------------------------------------
(* Edits of the local tree.                                                *)
Edit(p, new) == /\ disk' = [disk EXCEPT ![p] = new]
                /\ clock' = clock + 1
                /\ synced' = FALSE
                /\ UNCHANGED <<data, mem, dropped, blobs, legacy, cache>>

Write(p, d) == ~disk[p].dir /\ Edit(p, [exists |-> TRUE, dir |-> FALSE, data |-> d, mtime |-> clock])

WriteKeepMtime(p, d) ==
    /\ PreserveMtime
    /\ disk[p].exists /\ ~disk[p].dir
    /\ Edit(p, [disk[p] EXCEPT !.data = d])

Touch(p) == disk[p].exists /\ Edit(p, [disk[p] EXCEPT !.mtime = clock])

MkDir(p) == ~disk[p].exists /\ Edit(p, [exists |-> TRUE, dir |-> TRUE, data |-> NoSum, mtime |-> clock])

Delete(p) == disk[p].exists /\ Edit(p, Absent)

-----------------------------------------------------------------------------
(* One run of ScanAndBackup and backupLatest.                              *)
Prior == ReadManifestData(getLatestManifest)

Changed == Compare(Prior, Scan)

\* The manifest after Update (or NewManifest when there is none).
Updated == IF getLatestManifest = NoData THEN NewManifest(Scan, clock)
           ELSE Update(Prior, Changed, clock)

Latest == LatestEntries(Updated)

\* The files backupLatest uploads under key k.
BundleFiles(k) == SelectSeq([i \in DOMAIN Latest[k] |-> Updated.heap[Latest[k][i]].file],
                            LAMBDA f : ~IsDir(f))

\* The objects "blob/<set>/<key>" that the bundles other than failed put.
Puts(failed) == UNION {{<<Updated.lastSet, k, Path(f), f.sha>> : f \in ToSet(BundleFiles(k))}
                        : k \in DOMAIN Latest \ failed}

\* A run whose getLatestManifest returns bytes ReadManifestData rejects
\* returns the error and changes nothing: a stuttering step.
Run == /\ Len(Scan) > 0
       /\ ~ReadManifestFails(getLatestManifest)
       /\ cache' \in cacheGetStoreObject
       /\ synced' = TRUE
       /\ UNCHANGED <<disk, legacy>>

\* A manifest exists and nothing changed: "no new entries to store".
BackupUnchanged == /\ Run
                   /\ getLatestManifest # NoData /\ Changed = <<>>
                   /\ UNCHANGED <<clock, data, mem, dropped, blobs>>

\* Something changed but no entry of the new set has a part (only
\* directories): backupLatest returns before saveManifest.
BackupNothingToStore == /\ Run
                        /\ getLatestManifest = NoData \/ Changed # <<>>
                        /\ DOMAIN Latest = {}
                        /\ mem' = Updated
                        /\ clock' = clock + 1
                        /\ dropped' = {}
                        /\ UNCHANGED <<data, blobs>>

\* Mutant: dropFromManifest leaves the failed bundle's files in place.
BackupUploadNoRollback(failed) ==
    /\ Run
    /\ getLatestManifest = NoData \/ Changed # <<>>
    /\ DOMAIN Latest # {}
    /\ mem' = Updated
    /\ data' = Serialize(Updated)
    /\ clock' = clock + 1
    /\ dropped' = {}
    /\ blobs' = blobs \cup Puts(failed)

\* Every bundle is put, except that the bundle failed (if any) is removed
\* file by file from the manifest; then the manifest is saved.
BackupUpload(failed) ==
    LET m2 == IF failed = {} THEN Updated
              ELSE FoldLeft(RemoveFile, Updated, BundleFiles(CHOOSE k \in failed : TRUE))
    IN /\ Run
       /\ getLatestManifest = NoData \/ Changed # <<>>
       /\ DOMAIN Latest # {}
       /\ mem' = m2
       /\ data' = Serialize(m2)
       /\ clock' = clock + 1
       /\ dropped' = UNION {{Path(f) : f \in ToSet(BundleFiles(k))} : k \in failed}
       /\ blobs' = blobs \cup Puts(failed)

Next == \/ \E p \in Paths, d \in Data : Write(p, d) \/ WriteKeepMtime(p, d)
        \/ \E p \in Paths : Touch(p) \/ MkDir(p) \/ Delete(p)
        \/ BackupUnchanged
        \/ BackupNothingToStore
        \/ \E k \in DOMAIN Latest : BackupUpload({k})
        \/ BackupUpload({})

Spec == Init /\ [][Next]_vars

-----------------------------------------------------------------------------
MCPaths == {<<r, n>> : r \in Roots, n \in Names} \ {<<2, 2>>}

\* Bound on the wall clock, hence on the number of edits and runs.
ClockBound == clock <= MaxClock


\* The stored manifest: the object getLatestManifest reads, the one the
\* metadata pointer names or, with no pointer, the legacy "manifest/latest".
Saved == ReadManifestData(LatestObject)

InManifest(m, p) == m.pathMap[p] # NoPtr

\* A v2 "manifest/latest" of set 0: the file <<1, 1>> in blob "0/0", with
\* every key, and the directory <<2, 1>>, with neither "_" nor "size".
V2File == [root |-> 1, name |-> 1, dir |-> FALSE, size |-> Size(1), mtime |-> 0, sha |-> 1]
V2Dir == [root |-> 2, name |-> 1, dir |-> TRUE, size |-> DirSize, mtime |-> 0, sha |-> NoSum]
MCLegacyObjects ==
    {NoData,
     [version |-> 2, lastSet |-> 0,
      entries |-> <<[file |-> V2File, under |-> <<0, <<0>>>>, keys |-> {"size", "_", "sha1"}],
                    [file |-> V2Dir, under |-> <<>>, keys |-> {}]>>]}

TypeOK ==
    /\ disk \in [Paths -> [exists : BOOLEAN, dir : BOOLEAN, data : Data \cup {NoSum},
                            mtime : Nat]]
    /\ clock \in Nat
    /\ dropped \subseteq Paths
    /\ synced \in BOOLEAN
    /\ blobs \subseteq Nat \X Seq(0 .. 15) \X Paths \X Data
    /\ mem.pathMap \in [Paths -> Nat]
    /\ \A k \in CacheKeys : cache[k].type \in {"miss", "hit"}

\* Manifest invariant (spec 8): the pointers of Entries are distinct, and
\* pathMap holds exactly the paths of Entries, each mapped to the entry of
\* that path.  Update's in-place overwrite and removeEntry's swap with the
\* tail must both keep it, through every rollback of a run.
PathIndexIdentity ==
    /\ IsInjective(mem.entries)
    /\ \A i \in DOMAIN mem.entries :
           mem.pathMap[Path(mem.heap[mem.entries[i]].file)] = mem.entries[i]
    /\ \A p \in Paths : InManifest(mem, p) =>
           \E i \in DOMAIN mem.entries : mem.entries[i] = mem.pathMap[p]

\* After a run, with no edit since, the stored manifest records every
\* regular file on disk, except those whose bundle the run rolled back,
\* with the file's current size and contents: Compare's size and
\* touched-then-checksum tests found every change, Update recorded it and
\* the JSON codec kept it.
BackupMatchesDisk ==
    synced =>
        \A p \in Paths : disk[p].exists /\ ~disk[p].dir =>
            /\ p \notin dropped => InManifest(Saved, p)
            /\ InManifest(Saved, p) =>
                  LET e == Lookup(Saved, p).file
                  IN ~e.dir /\ e.size = Size(disk[p].data) /\ e.sha = disk[p].data

\* Every file entry of the stored manifest names, by its set and part key,
\* a blob that some run really put, holding that path with that SHA1: the
\* manifest never promises what the store lacks (spec 4.8, per-bundle
\* rollback), across in-place overwrites by later runs and rollbacks.
StoreConsistent ==
    \A p \in Paths :
        InManifest(Saved, p) /\ ~Lookup(Saved, p).file.dir =>
            LET e == Lookup(Saved, p)
            IN <<e.set, e.parts[1], p, e.file.sha>> \in blobs

\* The manifest a run compares against is the one the store names now:
\* getLatestManifest, through cacheGetStoreObject's local cache, returns
\* the object the metadata pointer names (with no pointer, the legacy
\* "manifest/latest"), or bytes ReadManifestData rejects, never a cached
\* copy of another object, across legacy reads, upgrades and later saves.
ReadsCurrentManifest == getLatestManifest \in {LatestObject, TornData}

\* Spec 4.8: directories are carried by the manifest alone, so after a run
\* every directory on disk is an entry of the stored manifest.  backupLatest
\* returns before saveManifest when LatestEntries is empty.
SpecDirsRecorded ==
    synced =>
        \A p \in Paths : disk[p].exists /\ disk[p].dir =>
            InManifest(Saved, p) /\ Lookup(Saved, p).file.dir

=============================================================================
