------------------------------- MODULE Bundler -------------------------------
(***************************************************************************)
(* The bundling policy of the backup package: how a flat list of scanned   *)
(* files is partitioned into the bundles that become one storage object    *)
(* each (backup/ bundle code: makeBundle ... bundleSmallFilesAcrossPaths). *)
(*                                                                         *)
(* A file is a record with at least the fields root, name (its path),      *)
(* dir (file.File.IsDir) and size (file.File.Size).  Every operator here   *)
(* is a pure function of its arguments, as the Go functions are.           *)
(***************************************************************************)
EXTENDS Integers, Sequences, SequencesExt

CONSTANTS c_BUNDLE_LIMIT_SIZE,  \* files above this size are never bundled
          c_BUNDLE_MAX_SIZE     \* running total after which a bundle is cut

ASSUME c_BUNDLE_LIMIT_SIZE \in Nat /\ c_BUNDLE_MAX_SIZE \in Nat

\* The value of currRoot before the first file: "" is no file's root.
NoRoot == 0

IsDir(f) == f.dir

\* file.ByPath.Less: by root, then by name within a root.
ByPathLess(a, b) == IF a.root = b.root THEN a.name < b.name ELSE a.root < b.root

\* file.BySize.Less.
BySizeLess(a, b) == a.size < b.size

\* sort.Sort leaves a sequence in which no element is Less than one before it.
SortBy(s, Less(_, _)) == SortSeq(s, LAMBDA a, b : ~Less(b, a))

-----------------------------------------------------------------------------
makeBundle(files) == IF Len(files) > 0 THEN <<files>> ELSE <<>>

sortBundlesBySize(bundles) ==
    [i \in DOMAIN bundles |-> SortBy(bundles[i], BySizeLess)]

sortBundlesByPath(bundles) ==
    [i \in DOMAIN bundles |-> SortBy(bundles[i], ByPathLess)]

\* Each bundle splits into its small files, its big files and its dirs,
\* in the order of the switch statement.
splitBundlesBySizeLimit(in) ==
    LET dirs(b)  == SelectSeq(b, IsDir)
        big(b)   == SelectSeq(b, LAMBDA f : ~IsDir(f) /\ f.size > c_BUNDLE_LIMIT_SIZE)
        small(b) == SelectSeq(b, LAMBDA f : ~IsDir(f) /\ f.size <= c_BUNDLE_LIMIT_SIZE)
    IN FlattenSeq([i \in DOMAIN in |-> <<small(in[i]), big(in[i]), dirs(in[i])>>])

(***************************************************************************)
(* The loops of bundleByPath and bundleSmallFiles share the closure state  *)
(* out, currBundle (curr), currBytes (bytes) and, for the first, currRoot  *)
(* (root); dirBundle (dirs) belongs to bundleSmallFiles.                   *)
(***************************************************************************)
EmptyLoop == [out |-> <<>>, curr |-> <<>>, bytes |-> 0, root |-> NoRoot, dirs |-> <<>>]

\* The nextBundle closure: emit the current bundle if it has any file.
nextBundle(s) ==
    IF Len(s.curr) > 0
    THEN [s EXCEPT !.out = Append(@, s.curr), !.curr = <<>>, !.bytes = 0]
    ELSE s

\* Mutant: a change of root does not cut the bundle.
byPathStepNoRootCut(s, f) == [s EXCEPT !.curr = Append(@, f)]

byPathStep(s, f) ==
    LET s1 == IF f.root # s.root THEN [nextBundle(s) EXCEPT !.root = f.root] ELSE s
    IN [s1 EXCEPT !.curr = Append(@, f)]

byPathGroup(s, bundle) == nextBundle(FoldLeft(byPathStep, s, bundle))

bundleByPath(in) == FoldLeft(byPathGroup, EmptyLoop, in).out

\* Mutant: the running-total check is left out.
smallStepNoMaxCut(s, f) ==
    IF IsDir(f) THEN [s EXCEPT !.dirs = Append(@, f)]
    ELSE LET s1 == IF f.size > c_BUNDLE_LIMIT_SIZE THEN nextBundle(s) ELSE s
         IN [s1 EXCEPT !.curr = Append(@, f), !.bytes = @ + f.size]

\* Mutant: a big file does not start a bundle of its own.
smallStepNoLimitCut(s, f) ==
    IF IsDir(f) THEN [s EXCEPT !.dirs = Append(@, f)]
    ELSE LET s2 == IF s.bytes > c_BUNDLE_MAX_SIZE THEN nextBundle(s) ELSE s
         IN [s2 EXCEPT !.curr = Append(@, f), !.bytes = @ + f.size]

\* One iteration of the inner loop of bundleSmallFiles: dirs are deferred,
\* a big file cuts the bundle, and so does a running total above the max,
\* checked before the file is added.
smallStep(s, f) ==
    IF IsDir(f) THEN [s EXCEPT !.dirs = Append(@, f)]
    ELSE LET s1 == IF f.size > c_BUNDLE_LIMIT_SIZE THEN nextBundle(s) ELSE s
             s2 == IF s1.bytes > c_BUNDLE_MAX_SIZE THEN nextBundle(s1) ELSE s1
         IN [s2 EXCEPT !.curr = Append(@, f), !.bytes = @ + f.size]

\* Mutant: the bundle is not cut at the end of a group.
smallGroupNoFlush(s, bundle) == FoldLeft(smallStep, s, bundle)

smallGroup(s, bundle) == nextBundle(FoldLeft(smallStep, s, bundle))

\* Mutant: the dirs bundle is put first instead of last.
bundleSmallFilesDirsFirst(in) ==
    LET s == FoldLeft(smallGroup, EmptyLoop, in)
    IN IF Len(s.dirs) > 0 THEN <<s.dirs>> \o s.out ELSE s.out

bundleSmallFiles(in) ==
    LET s == FoldLeft(smallGroup, EmptyLoop, in)
    IN IF Len(s.dirs) > 0 THEN Append(s.out, s.dirs) ELSE s.out

\* The legacy strategy: group by root, then bundle by size within a root.
bundleByPathAndSize(files) ==
    bundleSmallFiles(sortBundlesBySize(bundleByPath(sortBundlesByPath(makeBundle(files)))))

\* The strategy Manifest.Update uses.
bundleSmallFilesAcrossPaths(files) ==
    bundleSmallFiles(sortBundlesByPath(splitBundlesBySizeLimit(makeBundle(files))))

=============================================================================
