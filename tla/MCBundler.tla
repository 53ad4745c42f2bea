------------------------------ MODULE MCBundler ------------------------------
(***************************************************************************)
(* Checks both bundling strategies of Bundler against reference            *)
(* definitions, over every list of scanned files with distinct paths up to *)
(* MaxFiles long, in every scan order.                                     *)
(***************************************************************************)
EXTENDS Bundler, BlobKeys, FiniteSets, TLC

CONSTANTS Roots, Names, Sizes, MaxFiles

VARIABLES input,     \* the []file.File handed to the bundler
          strategy,  \* which strategy has run: "none", "acrossPaths", "byPathAndSize"
          output     \* the [][]file.File it returned

vars == <<input, strategy, output>>

Paths == Roots \X Names

\* The scanner emits every path at most once, in any order.
PathSeqs == UNION {{s \in [1..n -> Paths] : IsInjective(s)} : n \in 0..MaxFiles}

\* A directory's size only orders it among directories: one size stands for all.
Kinds == {[dir |-> TRUE, size |-> 0]} \cup {[dir |-> FALSE, size |-> n] : n \in Sizes}

Inputs ==
    UNION {{[i \in DOMAIN ps |-> [root |-> ps[i][1], name |-> ps[i][2],
                                  dir |-> a[i].dir, size |-> a[i].size]]
            : a \in [DOMAIN ps -> Kinds]}
           : ps \in PathSeqs}

Init == /\ input \in Inputs
        /\ strategy = "none"
        /\ output = <<>>

AcrossPaths == /\ strategy = "none"
               /\ strategy' = "acrossPaths"
               /\ output' = bundleSmallFilesAcrossPaths(input)
               /\ UNCHANGED input

ByPathAndSize == /\ strategy = "none"
                 /\ strategy' = "byPathAndSize"
                 /\ output' = bundleByPathAndSize(input)
                 /\ UNCHANGED input

Next == AcrossPaths \/ ByPathAndSize

Spec == Init /\ [][Next]_vars

-----------------------------------------------------------------------------
Done == strategy # "none"

Bundles == {output[i] : i \in DOMAIN output}

BundleBytes(b) == FoldLeft(LAMBDA acc, f : acc + f.size, 0, b)

FileBundles == {b \in Bundles : \A i \in DOMAIN b : ~IsDir(b[i])}

\* Every file of the scan is uploaded in exactly one bundle and no bundle is
\* empty (the nextBundle calls of bundleSmallFiles and bundleByPath emit
\* every non-empty currBundle, and only those).
BundlesPartitionInput ==
    Done => /\ ToBag(FlattenSeq(output)) = ToBag(input)
            /\ \A b \in Bundles : Len(b) > 0

\* A file above c_BUNDLE_LIMIT_SIZE always travels in a bundle of its own
\* (the size check of bundleSmallFiles).
BigFilesAlone ==
    Done => \A b \in Bundles : \A i \in DOMAIN b :
                (~IsDir(b[i]) /\ b[i].size > c_BUNDLE_LIMIT_SIZE) => Len(b) = 1

\* What the running-total check of bundleSmallFiles really guarantees: a
\* bundle of several files holds at most c_BUNDLE_MAX_SIZE plus one small file.
BundleSizeBound ==
    Done => \A b \in FileBundles :
                Len(b) > 1 => BundleBytes(b) <= c_BUNDLE_MAX_SIZE + c_BUNDLE_LIMIT_SIZE

\* Directories are never packed with files: they all go to one bundle, the
\* last (the dirBundle of bundleSmallFiles), which backupLatest never uploads.
DirsBundleLast ==
    Done => \A i \in DOMAIN output :
                (\E j \in DOMAIN output[i] : IsDir(output[i][j]))
                    => /\ i = Len(output)
                       /\ \A j \in DOMAIN output[i] : IsDir(output[i][j])

\* The legacy strategy never puts files of two roots in one bundle (old-style
\* archives rely on it: archive.UnpackReader infers a single root for them).
SingleRootBundles ==
    strategy = "byPathAndSize" =>
        \A b \in FileBundles : \A i, j \in DOMAIN b : b[i].root = b[j].root

\* spec 4.6: a new bundle is started whenever the running total would exceed
\* BUNDLE_MAX before the next file is added, so no bundle of several files
\* holds more than BUNDLE_MAX.
SpecBundleMax ==
    Done => \A b \in FileBundles : Len(b) > 1 => BundleBytes(b) <= c_BUNDLE_MAX_SIZE

\* Bundle counts on either side of the first width boundaries of hexLog
\* (the scans above never make more than MaxFiles + 1 bundles).
BundleCounts == {0, 1, 2, 15, 16, 17, 255, 256, 257}

\* Reference: the number of digits %x prints for n, the least d with n < 16^d.
HexWidth(n) == CHOOSE d \in 1 .. 8 : n < 16^d /\ \A e \in 1 .. d - 1 : n >= 16^e

\* String order of two keys of one width: the first differing digit decides.
HexLess(a, b) == \E i \in DOMAIN a : a[i] < b[i] /\ \A j \in 1 .. i - 1 : a[j] = b[j]

\* The n keys of keyFactory(n) all have the width of n in hex and, as
\* strings, each sorts before the next.
KeysInOrder(n) ==
    LET keys == keyFactory(n)
    IN /\ \A i \in DOMAIN keys : Len(keys[i]) = HexWidth(n)
       /\ \A i \in 1 .. n - 1 : HexLess(keys[i], keys[i + 1])

KeysInOrderAtBoundaries == \A n \in BundleCounts : KeysInOrder(n)

\* The keys Manifest.Update takes from keyFactory(len(bundles)) all have the
\* width of len(bundles) in hex (what hexLog's test table expects), and as
\* strings sort in the order nextKey() handed them out: so no two bundles of
\* a backup share a blob "set/key", and a listing of the set's blobs is in
\* bundle order.  Checked for this scan's bundles and for BundleCounts.
KeysNameBundlesInOrder == KeysInOrderAtBoundaries /\ KeysInOrder(Len(output))

=============================================================================
