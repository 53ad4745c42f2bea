---------------------------- MODULE ScanContract ----------------------------
(***************************************************************************)
(* What PathScanner.Scan promises its caller, without goroutines: the     *)
(* Files it collects are the paths of Target (those under the included    *)
(* paths, the excluded ones and everything under them left out), one at a *)
(* time, in any order, each once; it returns when it has all of them.     *)
(* log.Fatal may end the process at any point before that.  Scanner's     *)
(* walk implements this specification (MCScanner).                        *)
(***************************************************************************)
EXTENDS Sequences, SequencesExt

CONSTANT Target

VARIABLES found,     \* the Files collected, in order
          returned,  \* Scan has returned found
          failed     \* log.Fatal ended the process

vars == <<found, returned, failed>>

Init == found = <<>> /\ returned = FALSE /\ failed = FALSE

Scanning == ~returned /\ ~failed

\* One more File of Target, not collected before, is appended.
Find(p) ==
    /\ Scanning /\ p \in Target \ Range(found)
    /\ found' = Append(found, p)
    /\ UNCHANGED <<returned, failed>>

\* Scan returns once every File of Target is collected.
Return ==
    /\ Scanning /\ Range(found) = Target
    /\ returned' = TRUE
    /\ UNCHANGED <<found, failed>>

\* A stat or directory read fails: log.Fatal.
Fail ==
    /\ Scanning
    /\ failed' = TRUE
    /\ UNCHANGED <<found, returned>>

Next == (\E p \in Target : Find(p)) \/ Return \/ Fail

\* The scan is not left waiting: a File that can be collected is, and Scan
\* returns once it can.  A failure is never forced.
Spec == Init /\ [][Next]_vars
             /\ \A p \in Target : WF_vars(Find(p))
             /\ WF_vars(Return)

====
