---------------------------- MODULE BackupLatest ----------------------------
(***************************************************************************)
(* backupLatest and saveManifest: one goroutine per key of LatestEntries   *)
(* uploads its bundle while holding a token of uploadSem; on an error it   *)
(* runs dropFromManifest, which calls m.Remove on the shared manifest with *)
(* no lock.  Remove is split into the Go statements of Manifest.Remove and *)
(* removeEntry, each one atomic step, so the rollbacks of two goroutines   *)
(* interleave as the code lets them.  m.Entries is its backing array arr   *)
(* and its length elen: a slice of arr may be re-extended up to its cap.   *)
(* A panic in any goroutine, or a crash of the process, ends the run.      *)
(***************************************************************************)
EXTENDS Manifest, FiniteSets

CONSTANTS UploadSlots,     \* c_CONCURRENT_UPLOADS
          MaxFailures,     \* bound on the bundles whose upload fails
          StartManifests   \* the manifests Update can hand to backupLatest

VARIABLES start,    \* the manifest as backupLatest received it
          heap,     \* the ManifestEntry objects the pointers of m name
          arr,      \* the backing array of m.Entries
          elen,     \* len(m.Entries)
          pathMap,  \* m.pathMap
          main,     \* the backupLatest goroutine: dispatch, drain, save, ...
          sem,      \* tokens in uploadSem
          gpc,      \* key -> where its upload goroutine is
          gfiles,   \* key -> the files it was handed
          gi,       \* key -> which of them dropFromManifest is removing
          reg,      \* key -> ptr, oldPath, lastIndex, lastEntry of removeEntry
          failed,   \* the keys whose upload failed
          blobs,    \* <<key, path, sha>> for each file in each blob put
          stored,   \* the object "manifest/<LastSet>", or NoData
          pointer   \* whether metadata "manifest/latest" names it

mvars == <<heap, arr, elen, pathMap>>
gvars == <<gpc, gfiles, gi, reg>>
vars == <<start, mvars, main, sem, gvars, failed, blobs, stored, pointer>>

NoData == [version |-> 0, lastSet |-> 0, entries |-> <<>>]
\* A manifest with a nil entry: json writes null, which the next
\* ReadManifestData cannot index (buildPathMap dereferences it).
Unreadable == [version |-> 3, lastSet |-> -1, entries |-> <<>>]

Latest == LatestEntries(start)
Keys == DOMAIN Latest

NoReg == [ptr |-> NoPtr, oldPath |-> <<0, 0>>, lastIndex |-> 0, lastEntry |-> NoPtr]

Init == /\ start \in StartManifests
        /\ heap = start.heap
        /\ arr = start.entries
        /\ elen = Len(start.entries)
        /\ pathMap = start.pathMap
        /\ main = "dispatch"
        /\ sem = UploadSlots
        /\ gpc = [k \in Keys |-> "idle"]
        /\ gfiles = [k \in Keys |-> <<>>]
        /\ gi = [k \in Keys |-> 1]
        /\ reg = [k \in Keys |-> NoReg]
        /\ failed = {}
        /\ blobs = {}
        /\ stored = NoData
        /\ pointer = FALSE

Running == main \notin {"crashed", "panicked", "done", "failed"}

-----------------------------------------------------------------------------
(* The main goroutine.                                                     *)

\* One iteration of `for key, entries := range latest` (any order): the
\* files are read through the entry pointers now, dirs skipped, then a
\* token is taken and the goroutine started.
Dispatch(k) ==
    /\ main = "dispatch" /\ gpc[k] = "idle" /\ sem > 0
    /\ sem' = sem - 1
    /\ gfiles' = [gfiles EXCEPT ![k] = SelectSeq([i \in DOMAIN Latest[k] |-> heap[Latest[k][i]].file],
                                                 LAMBDA f : ~IsDir(f))]
    /\ gpc' = [gpc EXCEPT ![k] = "put"]
    /\ UNCHANGED <<start, mvars, main, gi, reg, failed, blobs, stored, pointer>>

\* The loop is over; draining uploadSem to its capacity waits for every
\* goroutine to give its token back.
Drain == /\ main = "dispatch" /\ \A k \in Keys : gpc[k] # "idle"
         /\ main' = "drain"
         /\ UNCHANGED <<start, mvars, sem, gvars, failed, blobs, stored, pointer>>

\* Refill uploadSem and call saveManifest: m.JSON() and bucket.Put.
PutManifest ==
    /\ main = "drain" /\ sem = UploadSlots
    /\ main' = "pointer"
    /\ stored' = IF \E i \in 1..elen : arr[i] = NoPtr THEN Unreadable
                 ELSE Serialize([start EXCEPT !.heap = heap, !.entries = SubSeq(arr, 1, elen),
                                              !.pathMap = pathMap])
    /\ UNCHANGED <<start, mvars, sem, gvars, failed, blobs, pointer>>

\* bucket.PutMetadata("manifest/latest", m.LastSet).
PutPointer == /\ main = "pointer"
              /\ main' = "done"
              /\ pointer' = TRUE
              /\ UNCHANGED <<start, mvars, sem, gvars, failed, blobs, stored>>

\* saveManifest returns the error of Put or of PutMetadata.
SaveFails == /\ main \in {"drain", "pointer"} /\ sem = UploadSlots
             /\ main' = "failed"
             /\ UNCHANGED <<start, mvars, sem, gvars, failed, blobs, stored, pointer>>

\* The process is killed at any point of the run.
Crash == /\ Running
         /\ main' = "crashed"
         /\ UNCHANGED <<start, mvars, sem, gvars, failed, blobs, stored, pointer>>

-----------------------------------------------------------------------------
(* An upload goroutine.  Every statement of Remove/removeEntry that reads  *)
(* or writes the shared manifest is one step.                              *)

Go(k, from, to) == /\ Running /\ gpc[k] = from
                   /\ gpc' = [gpc EXCEPT ![k] = to]

Reg(k) == reg[k]

\* Mutant: the token is given back twice (a deferred and an explicit send).
PutOkTwoTokens(k) ==
    /\ Go(k, "put", "done")
    /\ blobs' = blobs \cup {<<k, Path(f), f.sha>> : f \in ToSet(gfiles[k])}
    /\ sem' = sem + 2
    /\ UNCHANGED <<start, mvars, main, gfiles, gi, reg, failed, stored, pointer>>

\* Pack, PutReader and Close all succeed: the blob holds the files handed
\* over at dispatch; the token is returned.
PutOk(k) ==
    /\ Go(k, "put", "done")
    /\ blobs' = blobs \cup {<<k, Path(f), f.sha>> : f \in ToSet(gfiles[k])}
    /\ sem' = sem + 1
    /\ UNCHANGED <<start, mvars, main, gfiles, gi, reg, failed, stored, pointer>>

\* One of them fails: dropFromManifest removes the files one by one.
PutFails(k) ==
    /\ Cardinality(failed) < MaxFailures
    /\ Go(k, "put", "lookup")
    /\ failed' = failed \cup {k}
    /\ UNCHANGED <<start, mvars, main, sem, gfiles, gi, reg, blobs, stored, pointer>>

\* Mutant: the token is given back once per removed file.
NextFileTokenPerFile(k) ==
    /\ sem' = sem + 1
    /\ IF gi[k] < Len(gfiles[k])
       THEN gpc' = [gpc EXCEPT ![k] = "lookup"] /\ gi' = [gi EXCEPT ![k] = @ + 1]
       ELSE gpc' = [gpc EXCEPT ![k] = "done"] /\ UNCHANGED gi

\* Mutant: dropFromManifest keeps its token.
NextFileNoToken(k) ==
    IF gi[k] < Len(gfiles[k])
    THEN /\ gpc' = [gpc EXCEPT ![k] = "lookup"]
         /\ gi' = [gi EXCEPT ![k] = @ + 1]
         /\ UNCHANGED sem
    ELSE /\ gpc' = [gpc EXCEPT ![k] = "done"]
         /\ UNCHANGED <<sem, gi>>

\* The loop of dropFromManifest moves to its next file, or returns the token.
NextFile(k) ==
    IF gi[k] < Len(gfiles[k])
    THEN /\ gpc' = [gpc EXCEPT ![k] = "lookup"]
         /\ gi' = [gi EXCEPT ![k] = @ + 1]
         /\ UNCHANGED sem
    ELSE /\ gpc' = [gpc EXCEPT ![k] = "done"]
         /\ sem' = sem + 1
         /\ UNCHANGED gi

\* Remove: ptr, found := m.pathMap[f.Path()]; if !found { return false }.
RemoveLookup(k) ==
    LET ptr == pathMap[Path(gfiles[k][gi[k]])]
    IN /\ Running /\ gpc[k] = "lookup"
       /\ IF ptr = NoPtr THEN NextFile(k)
          ELSE /\ gpc' = [gpc EXCEPT ![k] = "oldPath"]
               /\ UNCHANGED <<gi, sem>>
       /\ reg' = [reg EXCEPT ![k].ptr = ptr]
       /\ UNCHANGED <<start, mvars, main, gfiles, failed, blobs, stored, pointer>>

\* oldPath := ptr.Path()
ReadOldPath(k) ==
    /\ Go(k, "oldPath", "lastIndex")
    /\ reg' = [reg EXCEPT ![k].oldPath = Path(heap[Reg(k).ptr].file)]
    /\ UNCHANGED <<start, mvars, main, sem, gfiles, gi, failed, blobs, stored, pointer>>

\* lastIndex := len(m.Entries) - 1 (here 1-based: the last position).
ReadLastIndex(k) ==
    /\ Go(k, "lastIndex", "lastEntry")
    /\ reg' = [reg EXCEPT ![k].lastIndex = elen]
    /\ UNCHANGED <<start, mvars, main, sem, gfiles, gi, failed, blobs, stored, pointer>>

\* lastEntry := m.Entries[lastIndex]; out of range panics.
ReadLastEntry(k) ==
    /\ Running /\ gpc[k] = "lastEntry"
    /\ IF Reg(k).lastIndex \in 1..elen
       THEN /\ gpc' = [gpc EXCEPT ![k] = "copy"]
            /\ reg' = [reg EXCEPT ![k].lastEntry = arr[Reg(k).lastIndex]]
            /\ UNCHANGED main
       ELSE /\ main' = "panicked"
            /\ UNCHANGED <<gpc, reg>>
    /\ UNCHANGED <<start, mvars, sem, gfiles, gi, failed, blobs, stored, pointer>>

\* *ptr = *lastEntry; a nil lastEntry panics.
CopyLast(k) ==
    /\ Running /\ gpc[k] = "copy"
    /\ IF Reg(k).lastEntry # NoPtr
       THEN /\ gpc' = [gpc EXCEPT ![k] = "repoint"]
            /\ heap' = [heap EXCEPT ![Reg(k).ptr] = heap[Reg(k).lastEntry]]
            /\ UNCHANGED main
       ELSE /\ main' = "panicked"
            /\ UNCHANGED <<gpc, heap>>
    /\ UNCHANGED <<start, arr, elen, pathMap, sem, gfiles, gi, reg, failed, blobs, stored,
                   pointer>>

\* m.pathMap[lastEntry.Path()] = ptr
Repoint(k) ==
    /\ Go(k, "repoint", "clear")
    /\ pathMap' = [pathMap EXCEPT ![Path(heap[Reg(k).lastEntry].file)] = Reg(k).ptr]
    /\ UNCHANGED <<start, heap, arr, elen, main, sem, gfiles, gi, reg, failed, blobs, stored,
                   pointer>>

\* m.Entries[lastIndex] = nil; out of range panics.
ClearLast(k) ==
    /\ Running /\ gpc[k] = "clear"
    /\ IF Reg(k).lastIndex \in 1..elen
       THEN /\ gpc' = [gpc EXCEPT ![k] = "truncate"]
            /\ arr' = [arr EXCEPT ![Reg(k).lastIndex] = NoPtr]
            /\ UNCHANGED main
       ELSE /\ main' = "panicked"
            /\ UNCHANGED <<gpc, arr>>
    /\ UNCHANGED <<start, heap, elen, pathMap, sem, gfiles, gi, reg, failed, blobs, stored,
                   pointer>>

\* Mutant: the slice keeps its last element.
TruncateKeepLast(k) ==
    /\ Go(k, "truncate", "delete")
    /\ elen' = Reg(k).lastIndex
    /\ UNCHANGED <<start, heap, arr, pathMap, main, sem, gfiles, gi, reg, failed, blobs,
                   stored, pointer>>

\* m.Entries = m.Entries[:lastIndex]: within cap, so it may also grow.
Truncate(k) ==
    /\ Go(k, "truncate", "delete")
    /\ elen' = Reg(k).lastIndex - 1
    /\ UNCHANGED <<start, heap, arr, pathMap, main, sem, gfiles, gi, reg, failed, blobs,
                   stored, pointer>>

\* delete(m.pathMap, oldPath), and on to the next file.
DeleteOld(k) ==
    /\ Running /\ gpc[k] = "delete"
    /\ pathMap' = [pathMap EXCEPT ![Reg(k).oldPath] = NoPtr]
    /\ NextFile(k)
    /\ UNCHANGED <<start, heap, arr, elen, main, gfiles, reg, failed, blobs, stored, pointer>>

\* Every step of the program itself, panics included.
Progress == \/ \E k \in Keys : \/ Dispatch(k) \/ PutOk(k) \/ PutFails(k)
                               \/ RemoveLookup(k) \/ ReadOldPath(k) \/ ReadLastIndex(k)
                               \/ ReadLastEntry(k) \/ CopyLast(k) \/ Repoint(k)
                               \/ ClearLast(k) \/ Truncate(k) \/ DeleteOld(k)
            \/ Drain \/ PutManifest \/ PutPointer \/ SaveFails

Next == Progress \/ Crash

Spec == Init /\ [][Next]_vars

\* The Go scheduler runs every runnable goroutine and the store answers
\* every request (the core sets no timeout); nothing forces a crash.
FairSpec == Spec /\ WF_vars(Progress)

-----------------------------------------------------------------------------
InManifest(m, p) == m.pathMap[p] # NoPtr

\* The manifest as it would be saved with no upload failing.
Expected == ReadManifestData(Serialize(start))

\* The paths of the bundles whose upload failed.
FailedPaths == UNION {{Path(start.heap[p].file) : p \in ToSet(Latest[k])} : k \in failed}

Saved == ReadManifestData(stored)

TypeOK ==
    /\ main \in {"dispatch", "drain", "pointer", "done", "failed", "crashed",
                  "panicked"}
    /\ sem \in 0..UploadSlots
    /\ gpc \in [Keys -> {"idle", "put", "lookup", "oldPath", "lastIndex", "lastEntry",
                         "copy", "repoint", "clear", "truncate", "delete", "done"}]
    /\ failed \subseteq Keys
    /\ elen \in 0..Len(arr)
    /\ pointer \in BOOLEAN

\* Per-bundle atomic rollback (spec 4.8): the manifest "manifest/latest"
\* names is readable and holds exactly the entries backupLatest was given,
\* less every path of a bundle whose upload failed, each path once and
\* each entry unchanged.  dropFromManifest's Remove calls and the reads of
\* entries by the dispatch loop must not disturb the other entries.  Stated
\* for runs with at most one failed bundle: two rollbacks race in the
\* unlocked Remove, which StoreConsistent is about.
SavedManifestExact ==
    pointer /\ Cardinality(failed) <= 1 =>
        /\ stored # Unreadable
        /\ Len(Saved.entries) = Cardinality({p \in Paths : InManifest(Saved, p)})
        /\ \A p \in Paths :
              /\ InManifest(Saved, p) <=> InManifest(Expected, p) /\ p \notin FailedPaths
              /\ InManifest(Saved, p) => Lookup(Saved, p) = Lookup(Expected, p)

\* Every file entry of this run's set in the manifest "manifest/latest"
\* names is held, with its SHA1, by a blob some goroutine put: a restore
\* never asks the store for a bundle that failed.
StoreConsistent ==
    pointer =>
        /\ stored # Unreadable
        /\ \A p \in Paths :
              LET e == Lookup(Saved, p)
              IN InManifest(Saved, p) /\ e.set = start.lastSet /\ ~e.file.dir =>
                     <<e.parts[1], p, e.file.sha>> \in blobs

\* backupLatest returns: the drain of uploadSem is not left waiting for a
\* token some goroutine never gives back.
Termination == <>(~Running)

=============================================================================
