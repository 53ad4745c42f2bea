------------------------------ MODULE MCRestore ------------------------------
(***************************************************************************)
(* Backups and restores of one store: the backup runs of MCManifest over   *)
(* the source tree, interleaved with runs of RestoreToPath into a separate *)
(* destination tree, which reads the manifest and blobs the backups left.  *)
(***************************************************************************)
EXTENDS Naturals, Sequences, FiniteSets, TLC

CONSTANTS c_BUNDLE_LIMIT_SIZE, c_BUNDLE_MAX_SIZE, Paths, NoSum, Content(_),
          Roots, Names, Data, BigData, DirSize, PreserveMtime, MaxClock,
          IncludedRoots, Torn, MaxRestoreFailures, LegacyObjects,
          CacheWrites

VARIABLES disk, clock, data, mem, dropped, synced, blobs, legacy, cache,
          dest, rpc, rm, targets, cur, only, rfails, fresh

B == INSTANCE MCManifest

Size(d) == B!Size(d)

RSize(d) == IF d = Torn THEN 0 ELSE Size(d)

\* strings.HasPrefix(e.Path(), p) for an include path p naming a root.
Incl(p) == p[1] \in IncludedRoots

R == INSTANCE Restore WITH storeData <- B!getLatestManifest, storeBlobs <- blobs,
                           Included <- Incl, ContentSize <- RSize

bvars == <<disk, clock, data, mem, dropped, synced, blobs, legacy, cache>>

rvars == <<dest, rpc, rm, targets, cur, only, rfails, fresh>>

vars == <<bvars, rvars>>

Init == B!Init /\ R!RInit

Next == \/ B!Next /\ UNCHANGED rvars
        \/ R!RStart /\ cache' \in B!cacheGetStoreObject
                    /\ UNCHANGED <<disk, clock, data, mem, dropped, synced, blobs, legacy>>
        \/ R!RSteps /\ UNCHANGED bvars

Spec == Init /\ [][Next]_vars

-----------------------------------------------------------------------------
MCPaths == {<<1, 1>>, <<1, 2>>, <<2, 1>>}

\* The store starts without a legacy "manifest/latest" (NoData).
NoLegacy == {[version |-> 0, lastSet |-> 0, entries |-> <<>>]}

DiskContent(p) == disk[p].data

ClockBound == clock <= MaxClock

\* The regular files of the manifest the running restore read, included.
Wanted == {p \in Paths : rm.pathMap[p] # R!NoPtr /\ Incl(p) /\ ~R!Lookup(rm, p).file.dir}

\* A restore into an empty destination that returns nil leaves exactly the
\* included regular files of the manifest it read, each with the contents
\* the manifest records: the blob named by every entry holds that version
\* of the file (across in-place overwrites and rollbacks of later runs),
\* and UnpackReader's filter writes no other version of a path from an
\* older blob fetched earlier in map order, and no file not planned.
RestoreFreshExact ==
    rpc = "done" /\ fresh =>
        \A p \in Paths :
            /\ ~dest[p].dir /\ dest[p].exists <=> p \in Wanted
            /\ p \in Wanted => dest[p].data = R!Lookup(rm, p).file.sha

\* The backups' own guarantee (MCManifest's BackupMatchesDisk) in this
\* model, where every write moves the mtime: after a run with no edit
\* since, the stored manifest records every regular file of the source
\* tree not rolled back, with its current size and contents, as Compare's
\* size and touched-then-checksum tests and Update left it.
BackupMatchesDisk == B!BackupMatchesDisk

\* Spec 4.9 and the comment of RestoreToPath ("only write the files that
\* are different"): after any restore that returns nil, every included
\* regular file of the manifest is in the destination with its contents.
SpecRestoreExact ==
    rpc = "done" =>
        \A p \in Wanted : dest[p].exists /\ dest[p].data = R!Lookup(rm, p).file.sha

\* Spec 8: restore(backup(tree)) equals the tree.  After a backup with no
\* edit since, a full restore into an empty destination yields the source
\* tree's regular files (those the last run rolled back aside).
SpecRoundTrip ==
    rpc = "done" /\ fresh /\ synced /\ rm = B!Saved =>
        \A p \in Paths \ dropped :
            (dest[p].exists /\ ~dest[p].dir) <=> (disk[p].exists /\ ~disk[p].dir)

=============================================================================
