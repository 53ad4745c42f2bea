------------------------------ MODULE Scanner ------------------------------
(***************************************************************************)
(* file.PathScanner.Scan: the parallel recursive walk of scanRecursive.    *)
(*                                                                         *)
(* Goroutines: one per included path (Lstat and tagFile of the path), one  *)
(* per directory found (doWalkDir: walkDir's Readdir loop, one tagFile per *)
(* entry), the dispatcher that receives found directories on chDir and     *)
(* starts their walks, the closer that waits on the WaitGroup and closes   *)
(* chDir and chAll, and Scan's own loop that receives every File on chAll. *)
(* Both channels are unbuffered: a send is one step together with its      *)
(* receive.  sem is the buffered channel of c_CONCURRENT_FILES tokens; a   *)
(* goroutine holds one from Lstat or OpenRead until it is done.            *)
(*                                                                         *)
(* The tree is static during the scan.  A File is its path (a node); the   *)
(* stat data travel with it and are not needed here.  log.Fatal on an      *)
(* Lstat, OpenRead or Readdir error ends the process (fatal).              *)
(***************************************************************************)
EXTENDS Integers, SequencesExt

CONSTANTS Nodes,            \* the paths of the tree
          Parent,           \* Parent[n]: the directory a path is in
          DirNodes,         \* the paths that are directories
          CleanOf,          \* CleanOf[p]: file.CleanPath of a spelling p
          Args,             \* the <path> arguments: [excl, arg], excl for a ":" prefix
          CfgInclude,       \* the config file's Paths.Include
          CfgExclude,       \* the config file's Paths.Exclude
          CfgArg,           \* the --cfg argument
          c_CONCURRENT_FILES

-----------------------------------------------------------------------------
(***************************************************************************)
(* scanFiles: the paths of the command line (parseFlags) or else those of  *)
(* the config file are included; the excluded ones of both, and the config *)
(* file itself, are excluded.  Every path is absolute here, so AbsPath is  *)
(* the identity and never fails.                                           *)
(***************************************************************************)
CleanPath(p) == CleanOf[p]

\* parseFlags: a <path> with a leading colon is excluded, any other
\* included, both cleaned.
ArgPaths(excl) ==
    LET as == SelectSeq(Args, LAMBDA a : a.excl = excl)
    IN [i \in 1 .. Len(as) |-> CleanPath(as[i].arg)]

configPath == CleanPath(CfgArg)

\* cleanPaths: de-dupe the cleaned paths through a map, then sort them.
\* All root goroutines start together, so the order is left open.
cleanPaths(ps) == SetToSeq({CleanPath(ps[i]) : i \in DOMAIN ps})

\* The paths given to IncludePath, one goroutine each in scanRecursive.
Incl == cleanPaths(IF Len(ArgPaths(FALSE)) > 0 THEN ArgPaths(FALSE) ELSE CfgInclude)

\* Mutant: the config file is not excluded.
ExclNoConfig == Range(cleanPaths(CfgExclude \o ArgPaths(TRUE)))

\* The set s.excl that ExcludePath fills.
Excl == Range(cleanPaths(CfgExclude \o ArgPaths(TRUE))) \cup {configPath}

ASSUME Range(Incl) \subseteq Nodes /\ DirNodes \subseteq Nodes

VARIABLES sem,        \* tokens in the sem channel
          wg,         \* the WaitGroup counter
          gs,         \* goroutine id -> [pc, cur, rem]
          dirClosed,  \* chDir has been closed
          allClosed,  \* chAll has been closed
          dispatcher, \* "loop" or "done"
          closer,     \* "wait", "closeAll" (chDir closed) or "done"
          entries,    \* the Files Scan appended, in order
          consumer,   \* "loop" or "done" (Scan returned entries)
          fatal       \* log.Fatal ended the process

scanVars == <<sem, wg, gs, dirClosed, allClosed, dispatcher, closer, entries, consumer, fatal>>

Children(d) == {n \in Nodes : Parent[n] = d}

RootId(i) == <<"root", i>>
WalkId(d) == <<"walk", d>>
Ids == {RootId(i) : i \in DOMAIN Incl} \cup {WalkId(d) : d \in DirNodes}
IsRoot(id) == id[1] = "root"

\* Not started yet: a walk is started when its directory is received.
NotStarted == [pc |-> "none", cur |-> "none", rem |-> {}]

\* scanRecursive up to the go statements: sem filled, wait.Add(len(incl)),
\* one goroutine per included path.
ScanInit ==
    /\ sem = c_CONCURRENT_FILES
    /\ wg = Len(Incl)
    /\ gs = [id \in Ids |-> IF IsRoot(id) THEN [pc |-> "acq", cur |-> Incl[id[2]], rem |-> {}]
                            ELSE NotStarted]
    /\ dirClosed = FALSE /\ allClosed = FALSE
    /\ dispatcher = "loop" /\ closer = "wait"
    /\ entries = <<>> /\ consumer = "loop"
    /\ fatal = FALSE

Running == ~fatal

-----------------------------------------------------------------------------
(***************************************************************************)
(* tagFile(pwd, fi): an excluded path is dropped; a directory is counted   *)
(* in the WaitGroup and sent on chDir; every other path is sent on chAll.  *)
(* g is the caller's record, next where it goes on afterwards when the     *)
(* path is dropped: the root goroutine to its release, a walk to its next  *)
(* Readdir.                                                                *)
(***************************************************************************)
\* Mutant: only the paths that are not directories are checked against
\* the excluded paths.
tagFileExclFilesOnly(id, g, f, next) ==
    /\ gs' = [gs EXCEPT ![id] = [g EXCEPT !.pc = CASE f \in DirNodes -> "sendDir"
                                                  [] f \in Excl -> next
                                                  [] OTHER -> "sendAll",
                                          !.cur = f]]
    /\ wg' = wg + (IF f \in DirNodes THEN 1 ELSE 0)

tagFile(id, g, f, next) ==
    /\ gs' = [gs EXCEPT ![id] = [g EXCEPT !.pc = CASE f \in Excl -> next
                                                  [] f \in DirNodes -> "sendDir"
                                                  [] OTHER -> "sendAll",
                                          !.cur = f]]
    /\ wg' = wg + (IF f \notin Excl /\ f \in DirNodes THEN 1 ELSE 0)

\* Where a goroutine goes once its File is on chAll.
AfterSend(id) == IF IsRoot(id) THEN "rel" ELSE "read"

-----------------------------------------------------------------------------
\* The goroutine of an included path: <-sem, Lstat, tagFile.
RootLstat(id) ==
    /\ Running /\ IsRoot(id) /\ gs[id].pc = "acq" /\ sem > 0
    /\ sem' = sem - 1
    /\ tagFile(id, gs[id], gs[id].cur, "rel")
    /\ UNCHANGED <<dirClosed, allClosed, dispatcher, closer, entries, consumer, fatal>>

\* doWalkDir: <-sem, then walkDir's OpenRead of the directory.
WalkOpen(id) ==
    /\ Running /\ ~IsRoot(id) /\ gs[id].pc = "acq" /\ sem > 0
    /\ sem' = sem - 1
    /\ gs' = [gs EXCEPT ![id] = [@ EXCEPT !.pc = "read", !.rem = Children(id[2])]]
    /\ UNCHANGED <<wg, dirClosed, allClosed, dispatcher, closer, entries, consumer, fatal>>

\* fd.Readdir(1) returns the next entry, in an order the file system picks,
\* and walkDir tags it.
WalkRead(id) ==
    /\ Running /\ gs[id].pc = "read"
    /\ \E c \in gs[id].rem : tagFile(id, [gs[id] EXCEPT !.rem = @ \ {c}], c, "read")
    /\ UNCHANGED <<sem, dirClosed, allClosed, dispatcher, closer, entries, consumer, fatal>>

\* Mutant: a plain break on io.EOF, which leaves the switch and not the
\* loop: Readdir is called again and again.
WalkEOFNoBreak(id) ==
    /\ Running /\ gs[id].pc = "read" /\ gs[id].rem = {}
    /\ UNCHANGED scanVars

\* Readdir returns io.EOF: walkDir closes the directory and returns.
WalkEOF(id) ==
    /\ Running /\ gs[id].pc = "read" /\ gs[id].rem = {}
    /\ gs' = [gs EXCEPT ![id].pc = "rel"]
    /\ UNCHANGED <<sem, wg, dirClosed, allClosed, dispatcher, closer, entries, consumer, fatal>>

\* Mutant: the token is not put back.
ReleaseNoToken(id) ==
    /\ Running /\ gs[id].pc = "rel"
    /\ wg' = wg - 1
    /\ gs' = [gs EXCEPT ![id].pc = "done"]
    /\ UNCHANGED <<sem, dirClosed, allClosed, dispatcher, closer, entries, consumer, fatal>>

\* sem <- true (never blocks: the token was taken from sem) and wait.Done().
Release(id) ==
    /\ Running /\ gs[id].pc = "rel" /\ sem < c_CONCURRENT_FILES
    /\ sem' = sem + 1 /\ wg' = wg - 1
    /\ gs' = [gs EXCEPT ![id].pc = "done"]
    /\ UNCHANGED <<dirClosed, allClosed, dispatcher, closer, entries, consumer, fatal>>

\* Lstat, OpenRead or Readdir fails: log.Fatal.
SyscallFails(id) ==
    /\ Running
    /\ (gs[id].pc = "acq" /\ sem > 0) \/ gs[id].pc = "read"
    /\ fatal' = TRUE
    /\ UNCHANGED <<sem, wg, gs, dirClosed, allClosed, dispatcher, closer, entries, consumer>>

-----------------------------------------------------------------------------
\* chDir <- f received by the dispatcher, which starts go doWalkDir(f).
Dispatch(id) ==
    /\ Running /\ dispatcher = "loop" /\ gs[id].pc = "sendDir" /\ ~dirClosed
    /\ gs' = [gs EXCEPT ![id].pc = "sendAll",
                         ![WalkId(gs[id].cur)] = [pc |-> "acq", cur |-> gs[id].cur, rem |-> {}]]
    /\ UNCHANGED <<sem, wg, dirClosed, allClosed, dispatcher, closer, entries, consumer, fatal>>

\* The dispatcher's receive sees chDir closed and the goroutine exits.
DispatcherExit ==
    /\ Running /\ dispatcher = "loop" /\ dirClosed
    /\ dispatcher' = "done"
    /\ UNCHANGED <<sem, wg, gs, dirClosed, allClosed, closer, entries, consumer, fatal>>

\* chAll <- f received by Scan's range loop, which appends f.
Consume(id) ==
    /\ Running /\ consumer = "loop" /\ gs[id].pc = "sendAll" /\ ~allClosed
    /\ entries' = Append(entries, gs[id].cur)
    /\ gs' = [gs EXCEPT ![id].pc = AfterSend(id)]
    /\ UNCHANGED <<sem, wg, dirClosed, allClosed, dispatcher, closer, consumer, fatal>>

\* The range over chAll ends when it is closed: Scan returns entries.
ConsumerExit ==
    /\ Running /\ consumer = "loop" /\ allClosed
    /\ consumer' = "done"
    /\ UNCHANGED <<sem, wg, gs, dirClosed, allClosed, dispatcher, closer, entries, fatal>>

\* Mutant: close(chDir) without s.wait.Wait().
CloseDirNoWait ==
    /\ Running /\ closer = "wait"
    /\ dirClosed' = TRUE /\ closer' = "closeAll"
    /\ UNCHANGED <<sem, wg, gs, allClosed, dispatcher, entries, consumer, fatal>>

\* The closer: s.wait.Wait() returns at a zero counter, then close(chDir).
CloseDir ==
    /\ Running /\ closer = "wait" /\ wg = 0
    /\ dirClosed' = TRUE /\ closer' = "closeAll"
    /\ UNCHANGED <<sem, wg, gs, allClosed, dispatcher, entries, consumer, fatal>>

\* close(chAll).
CloseAll ==
    /\ Running /\ closer = "closeAll"
    /\ allClosed' = TRUE /\ closer' = "done"
    /\ UNCHANGED <<sem, wg, gs, dirClosed, dispatcher, entries, consumer, fatal>>

\* Every step of the scan but a failure.
ScanProgress ==
    \/ \E id \in Ids : RootLstat(id) \/ WalkOpen(id) \/ WalkRead(id) \/ WalkEOF(id)
                       \/ Release(id) \/ Dispatch(id) \/ Consume(id)
    \/ DispatcherExit \/ ConsumerExit \/ CloseDir \/ CloseAll

ScanNext == ScanProgress \/ \E id \in Ids : SyscallFails(id)

-----------------------------------------------------------------------------
\* The reference: the paths under the included ones, an excluded path and
\* everything under it left out.
RECURSIVE Reach(_)
Reach(n) == IF n \in Excl THEN {}
            ELSE {n} \cup (IF n \in DirNodes THEN UNION {Reach(c) : c \in Children(n)} ELSE {})

Expected == UNION {Reach(r) : r \in Range(Incl)}

====
