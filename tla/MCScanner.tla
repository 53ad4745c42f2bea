----------------------------- MODULE MCScanner -----------------------------
(***************************************************************************)
(* One Scan of a small tree: two included paths (a directory and a file), *)
(* sub-directories two levels deep, an excluded directory with a file in  *)
(* it, the config file inside an included directory, and two tokens in    *)
(* sem, fewer than the goroutines that want one.  The command line names  *)
(* /a twice, once as "/a/", and the config file as "~/c" with HOME = /a.  *)
(***************************************************************************)
EXTENDS Scanner, TLC

MCNodes == {"/a", "/a/c", "/a/d", "/a/d/e", "/a/d/e/f4", "/a/d/f1", "/a/f2", "/a/x", "/a/x/f3", "/b"}

MCParent == [n \in MCNodes |->
               CASE n \in {"/a", "/b"}         -> "/"
                 [] n \in {"/a/c", "/a/d", "/a/f2", "/a/x"} -> "/a"
                 [] n \in {"/a/d/e", "/a/d/f1"} -> "/a/d"
                 [] n = "/a/d/e/f4"            -> "/a/d/e"
                 [] OTHER                      -> "/a/x"]

MCDirNodes == {"/a", "/a/d", "/a/d/e", "/a/x"}

\* filepath.Clean drops a trailing slash; CleanPath expands "~/".
MCCleanOf == [p \in MCNodes \cup {"/a/", "/a/x/", "~/c"} |->
                CASE p = "/a/"   -> "/a"
                  [] p = "/a/x/" -> "/a/x"
                  [] p = "~/c"   -> "/a/c"
                  [] OTHER       -> p]

\* inc backup /a/ /b :/a/x/ /a --cfg ~/c
MCArgs == << [excl |-> FALSE, arg |-> "/a/"], [excl |-> FALSE, arg |-> "/b"],
             [excl |-> TRUE, arg |-> "/a/x/"], [excl |-> FALSE, arg |-> "/a"] >>

MCCfgInclude == <<"/a/d">>
MCCfgExclude == <<>>

Init == ScanInit

Spec == Init /\ [][ScanNext]_scanVars

\* Every goroutine that can step is scheduled eventually (the Go scheduler);
\* no failure is assumed to happen.
FairSpec == Spec /\ WF_scanVars(ScanProgress)

Holding == {id \in Ids : gs[id].pc \in {"read", "sendDir", "sendAll", "rel"}}

TypeOK ==
    /\ sem \in 0 .. c_CONCURRENT_FILES
    /\ wg \in 0 .. Cardinality(Ids)
    /\ \A id \in Ids : gs[id].pc \in {"none", "acq", "read", "sendDir", "sendAll", "rel", "done"}
    /\ entries \in Seq(Nodes)
    /\ Cardinality(Holding) + sem = c_CONCURRENT_FILES

(***************************************************************************)
(* The WaitGroup protects the close: when the closer has closed chDir (and *)
(* so when chAll is closed too), no goroutine is left that still has a     *)
(* path to send, or a Readdir or an Lstat to make.  A goroutine that sent  *)
(* on a closed channel would panic; one whose send the loop never          *)
(* receives would lose its File.  It rests on tagFile counting a directory *)
(* before sending it, while its own goroutine still holds a count.         *)
(***************************************************************************)
CloseSafe == dirClosed => \A id \in Ids : gs[id].pc \in {"none", "done"}

(***************************************************************************)
(* The walk implements Scan's contract (ScanContract, spec 4.5): the       *)
(* Files the receive loop appends are, at every step, distinct paths of   *)
(* Expected, the reference walk; Scan returns only with all of them; and, *)
(* whatever the order of the goroutines and of Readdir, with fewer tokens *)
(* than goroutines, every File is received and Scan returns unless        *)
(* log.Fatal ends the process first.  The walk's other steps (Lstat,     *)
(* Readdir, the sends on chDir, the closes) are stuttering steps of the   *)
(* contract.                                                              *)
(***************************************************************************)
Contract == INSTANCE ScanContract WITH Target <- Expected, found <- entries,
                                       returned <- (consumer = "done"), failed <- fatal

ScanImplementsContract == Contract!Spec

(***************************************************************************)
(* The config file, which holds the store's keys, is never among the      *)
(* Files Scan returns, however it was spelled on the command line and     *)
(* wherever it sits in the included trees (scanFiles' ExcludePath of      *)
(* opt.configPath).                                                        *)
(***************************************************************************)
ConfigNeverScanned == \A i \in DOMAIN entries : entries[i] # configPath

====
