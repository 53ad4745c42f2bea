------------------------------ MODULE Manifest ------------------------------
(***************************************************************************)
(* The manifest of backup/manifest.go and the Update/LatestEntries half of *)
(* the backup package, as operators on a manifest value.                   *)
(*                                                                         *)
(* A manifest is a record                                                  *)
(*   heap    : the *ManifestEntry objects ever allocated; a pointer is an  *)
(*             index into heap (0 is the nil pointer),                     *)
(*   entries : Manifest.Entries, a sequence of pointers,                   *)
(*   pathMap : Manifest.pathMap, path -> pointer (0 when absent),          *)
(*   lastSet : Manifest.LastSet, the clock value manifestKey formats.      *)
(* An entry is [file, set, parts]; parts is <<key>> for the key keyFactory *)
(* gave its bundle (blob "set/key") or <<>> for a directory.               *)
(*                                                                         *)
(* A file is [root, name, dir, size, mtime, sha]: file.File with the mode  *)
(* reduced to its directory bit and SHA1 = NoSum when not yet computed.    *)
(* Checksumming reads the file system, given as the operator Content(p).   *)
(***************************************************************************)
EXTENDS Bundler, BlobKeys

CONSTANTS Paths,   \* the full paths <<root, name>> a file can have
          NoSum,   \* the all-zero SHA1 of file.File: no checksum
          Content(_)  \* the SHA1 checksumFile reads for a path

NoPtr == 0

\* file.File.Path, IsDir, HasChecksum
Path(f) == <<f.root, f.name>>
HasChecksum(f) == f.sha # NoSum

EmptyManifest == [heap |-> <<>>, entries |-> <<>>, pathMap |-> [p \in Paths |-> NoPtr],
                  lastSet |-> 0]

Has(m, f) == m.pathMap[Path(f)] # NoPtr

\* The entry the path index holds for path p.
Lookup(m, p) == m.heap[m.pathMap[p]]

-----------------------------------------------------------------------------
(***************************************************************************)
(* file.ChecksumFilesFS over a sequence of groups: when some regular file  *)
(* lacks a checksum, every regular file of every group is hashed from the  *)
(* file system (the ones that had one included); otherwise nothing is.     *)
(* The file system fsys is a function from a path to the SHA1 of what a   *)
(* read of it returns.                                                     *)
(***************************************************************************)
ChecksumGroupsFS(groups, fsys) ==
    IF \A g \in DOMAIN groups : \A i \in DOMAIN groups[g] :
            IsDir(groups[g][i]) \/ HasChecksum(groups[g][i])
    THEN groups
    ELSE [g \in DOMAIN groups |->
            [i \in DOMAIN groups[g] |->
                IF IsDir(groups[g][i]) THEN groups[g][i]
                ELSE [groups[g][i] EXCEPT !.sha = fsys[Path(groups[g][i])]]]]

\* file.ChecksumFiles: ChecksumFilesFS on the default file system.
ChecksumGroups(groups) == ChecksumGroupsFS(groups, [p \in Paths |-> Content(p)])

(***************************************************************************)
(* Manifest.removeEntry: the entry at ptr takes over the contents of the   *)
(* last entry, the path index points the last entry's path at ptr, the     *)
(* list is truncated and the removed path is dropped from the index.       *)
(***************************************************************************)
\* Mutant: the stale path is deleted before the last entry is re-pointed.
removeEntryDeleteFirst(m, ptr) ==
    LET oldPath   == Path(m.heap[ptr].file)
        lastIndex == Len(m.entries)
        lastEntry == m.entries[lastIndex]
        heap1     == [m.heap EXCEPT ![ptr] = m.heap[lastEntry]]
        pathMap0  == [m.pathMap EXCEPT ![oldPath] = NoPtr]
    IN [m EXCEPT !.heap    = heap1,
                 !.entries = SubSeq(m.entries, 1, lastIndex - 1),
                 !.pathMap = [pathMap0 EXCEPT ![Path(heap1[lastEntry].file)] = ptr]]

removeEntry(m, ptr) ==
    LET oldPath   == Path(m.heap[ptr].file)
        lastIndex == Len(m.entries)
        lastEntry == m.entries[lastIndex]
        heap1     == [m.heap EXCEPT ![ptr] = m.heap[lastEntry]]
        pathMap1  == [m.pathMap EXCEPT ![Path(heap1[lastEntry].file)] = ptr]
    IN [m EXCEPT !.heap    = heap1,
                 !.entries = SubSeq(m.entries, 1, lastIndex - 1),
                 !.pathMap = [pathMap1 EXCEPT ![oldPath] = NoPtr]]

\* Manifest.Remove (Remove is taken by SequencesExt).
RemoveFile(m, f) == IF Has(m, f) THEN removeEntry(m, m.pathMap[Path(f)]) ELSE m

-----------------------------------------------------------------------------
(***************************************************************************)
(* Manifest.Update: checksum the files, take a new set key from the clock, *)
(* bundle the files and give the k-th bundle the k-th key; every file gets *)
(* a new entry, written over the existing entry object of its path or      *)
(* appended with a fresh pointer.                                          *)
(***************************************************************************)
\* Mutant: a file already in the manifest gets a second entry.
AddEntryAlwaysAppend(m, fk) ==
    LET f == fk[1]
        e == [file |-> f, set |-> m.lastSet, parts |-> IF IsDir(f) THEN <<>> ELSE <<fk[2]>>]
        p == Len(m.heap) + 1
    IN [m EXCEPT !.heap = Append(@, e), !.entries = Append(@, p), !.pathMap[Path(f)] = p]

AddEntry(m, fk) ==
    LET f == fk[1]
        e == [file |-> f, set |-> m.lastSet, parts |-> IF IsDir(f) THEN <<>> ELSE <<fk[2]>>]
        p == Len(m.heap) + 1
    IN IF Has(m, f)
       THEN [m EXCEPT !.heap[m.pathMap[Path(f)]] = e]
       ELSE [m EXCEPT !.heap = Append(@, e), !.entries = Append(@, p), !.pathMap[Path(f)] = p]

\* Each file of each bundle paired with the key nextKey() returned for its
\* bundle, nextKey being keyFactory(len(bundles)).
KeyedFiles(bundles) ==
    LET keys == keyFactory(Len(bundles))
    IN FlattenSeq([b \in DOMAIN bundles |-> [i \in DOMAIN bundles[b] |-> <<bundles[b][i], keys[b]>>]])

\* Mutant: the pre-populating ChecksumFiles call is left out.
UpdateNoChecksum(m, files, now) ==
    FoldLeft(AddEntry, [m EXCEPT !.lastSet = now], KeyedFiles(bundleSmallFilesAcrossPaths(files)))

Update(m, files, now) ==
    LET checked == ChecksumGroups(<<files>>)[1]
    IN FoldLeft(AddEntry, [m EXCEPT !.lastSet = now],
                KeyedFiles(bundleSmallFilesAcrossPaths(checked)))

NewManifest(files, now) == Update(EmptyManifest, files, now)

\* Manifest.LatestEntries: for every key of a part of an entry of the last
\* set, the pointers of the entries stored under it, in list order.
LatestEntries(m) ==
    LET latest(p) == m.heap[p].set = m.lastSet
    IN [k \in {m.heap[p].parts[1] : p \in {p \in ToSet(m.entries) :
                                         latest(p) /\ m.heap[p].parts # <<>>}} |->
          SelectSeq(m.entries, LAMBDA p : latest(p) /\ k \in ToSet(m.heap[p].parts))]

(***************************************************************************)
(* Manifest.HasIdentical: our entry for their path has their mode (here    *)
(* the directory bit) and, unless a directory, their size; a differing     *)
(* mtime is forgiven when the SHA1s agree.                                 *)
(***************************************************************************)
HasIdentical(m, their) ==
    /\ Has(m, their)
    /\ LET our == Lookup(m, Path(their)).file
       IN /\ IsDir(our) \/ our.size = their.size
          /\ IsDir(our) = IsDir(their)
          /\ our.mtime = their.mtime \/ our.sha = their.sha

-----------------------------------------------------------------------------
(***************************************************************************)
(* Manifest.Compare: new paths and non-directories whose size changed are *)
(* changed; other files whose mtime changed are touched.  Both lists are   *)
(* checksummed, and a touched file is changed when its SHA1 differs.       *)
(***************************************************************************)
IsChangedOnScan(m, a) ==
    \/ ~Has(m, a)
    \/ ~IsDir(a) /\ a.size # Lookup(m, Path(a)).file.size

IsTouched(m, a) ==
    /\ Has(m, a)
    /\ ~IsChangedOnScan(m, a)
    /\ a.mtime # Lookup(m, Path(a)).file.mtime

\* Mutant: touched files are never promoted.
CompareNoPromotion(before, after) ==
    LET sums == ChecksumGroups(<<SelectSeq(after, LAMBDA a : IsTouched(before, a)),
                                 SelectSeq(after, LAMBDA a : IsChangedOnScan(before, a))>>)
    IN sums[2]

Compare(before, after) ==
    LET sums == ChecksumGroups(<<SelectSeq(after, LAMBDA a : IsTouched(before, a)),
                                 SelectSeq(after, LAMBDA a : IsChangedOnScan(before, a))>>)
    IN sums[2] \o SelectSeq(sums[1], LAMBDA a : a.sha # Lookup(before, Path(a)).file.sha)

-----------------------------------------------------------------------------
(***************************************************************************)
(* The JSON codec (v3).  MarshalJSON writes Entries in order; a directory  *)
(* entry omits its size, which reads back as 0.  UnmarshalJSON then runs   *)
(* buildPathMap, in which a later entry of a path replaces an earlier one. *)
(***************************************************************************)
\* Mutant: the size condition of MarshalJSON inverted.
SerializeSizeInverted(m) ==
    [version |-> 3, lastSet |-> m.lastSet,
     entries |-> [i \in DOMAIN m.entries |->
                    LET e == m.heap[m.entries[i]]
                    IN IF IsDir(e.file) THEN e ELSE [e EXCEPT !.file.size = 0]]]

Serialize(m) ==
    [version |-> 3, lastSet |-> m.lastSet,
     entries |-> [i \in DOMAIN m.entries |->
                    LET e == m.heap[m.entries[i]]
                    IN IF IsDir(e.file) THEN [e EXCEPT !.file.size = 0] ELSE e]]

buildPathMap(es) ==
    [p \in Paths |-> LET is == {i \in DOMAIN es : Path(es[i].file) = p}
                     IN IF is = {} THEN NoPtr ELSE Max(is)]

(***************************************************************************)
(* The v1/v2 read path (backup/compatibility.go).  A v2 object is          *)
(* [version, lastSet, entries] whose entries are [file, under, keys]:      *)
(* under is the "_" value "set/key" as <<set, key>>, keys the JSON keys    *)
(* present among "size", "_" and "sha1".  A missing "size" or "sha1"       *)
(* leaves the zero value; an entry without "_" gets the empty set key and  *)
(* no parts.  The old writer always wrote the other keys, whose absence    *)
(* would be a nil dereference.                                             *)
(***************************************************************************)
NoSet == -1   \* the zero value "" of ManifestEntry.Set

unmarshalV2ManifestEntry(e) ==
    [file  |-> [e.file EXCEPT !.size = IF "size" \in e.keys THEN @ ELSE 0,
                              !.sha  = IF "sha1" \in e.keys THEN @ ELSE NoSum],
     set   |-> IF "_" \in e.keys THEN e.under[1] ELSE NoSet,
     parts |-> IF "_" \in e.keys THEN <<e.under[2]>> ELSE <<>>]

unmarshalV2Manifest(data) ==
    [lastSet |-> data.lastSet,
     entries |-> [i \in DOMAIN data.entries |-> unmarshalV2ManifestEntry(data.entries[i])]]

\* Bytes util.ParseVersionJSON cannot parse (a torn copy of an object).
TornData == [version |-> -1, lastSet |-> 0, entries |-> <<>>]

\* ReadManifestData fails: ErrMalformedConfig when ParseVersionJSON fails.
ReadManifestFails(data) == data = TornData

\* ReadManifestData: versions 1 and 2 through unmarshalV2Manifest, version 3
\* through UnmarshalJSON; both end in buildPathMap.
ReadManifestData(data) ==
    LET d == IF data.version \in {1, 2} THEN unmarshalV2Manifest(data) ELSE data
    IN [heap |-> d.entries, entries |-> [i \in DOMAIN d.entries |-> i],
        pathMap |-> buildPathMap(d.entries), lastSet |-> d.lastSet]

=============================================================================
