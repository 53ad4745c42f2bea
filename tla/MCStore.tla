------------------------------ MODULE MCStore ------------------------------
(***************************************************************************)
(* One process after another using one store, on file storage, S3 or the  *)
(* mock layer: setupStore's                                                *)
(* init, unlock and keyed opens, the user metadata main keeps the pointer  *)
(* in, and Puts and Gets of objects, with failing layer calls and restarts *)
(* at any point.                                                           *)
(***************************************************************************)
EXTENDS Store, TLC

Init == StoreInit

Next == StoreNext

Spec == Init /\ [][Next]_storeVars

\* The caller and the uploader goroutine are each scheduled while they can
\* move: the Go scheduler runs a runnable goroutine eventually.  Failures
\* and restarts are not assumed to happen.
FairSpec == Spec /\ WF_storeVars(PackCRead \/ PackCWriteFails \/ PackCDone)
                 /\ WF_storeVars(PackUOpen(TRUE) \/ PackUTake \/ PackUCopy \/ PackUBuffer
                                  \/ PackUEnd \/ PackUUpload(TRUE))

-----------------------------------------------------------------------------
TypeOK ==
    /\ exists \in BOOLEAN
    /\ layer \in Layers
    /\ salts \in 0 .. MaxSalts
    /\ lfails \in 0 .. MaxLayerFailures
    /\ op.kind \in {"none", "put", "get", "pack"}
    /\ \A k \in Keys : objects[k] = NoObject \/ objects[k].len \in 0 .. EnvLen(Max(PlainLens))
    /\ enc = NoKeys \/ enc \in Secrets \X (1 .. MaxSalts)
    /\ lastPack = NoObject \/ lastPack.ok \in BOOLEAN
    /\ lastGet = NoObject \/ lastGet.status \in {"ok", "notexist", "short", "blocks", "auth", "padding", "panic"}

(***************************************************************************)
(* Round trip (spec 8, any read size): a Get of a key whose last Put under *)
(* the store's current keys returned nil ends without error and yields the *)
(* plaintext length that Put encrypted, whatever len(b) ioutil.ReadAll's   *)
(* and gzip's Read calls use: encryptReader's rounding to whole blocks,    *)
(* its padding and HMAC at EOF, and decryptReader's HMAC+1 look-ahead      *)
(* must agree on every boundary.                                           *)
(***************************************************************************)
GetRoundTrip ==
    lastGet # NoObject /\ lastGet.whole => lastGet.status = "ok" /\ lastGet.out = lastGet.plen

(***************************************************************************)
(* Authentication (spec 4.1): a Get returns nil only for an object that a  *)
(* Put under the current keys finished; an object cut off by a failed     *)
(* write or a crash, or written under the keys of an earlier Wipe, is     *)
(* refused.                                                                *)
(***************************************************************************)
GetRejectsDamaged ==
    lastGet # NoObject /\ lastGet.status = "ok" => lastGet.whole

(***************************************************************************)
(* A blob backupLatest keeps is stored whole: when Packer.PutReader and    *)
(* Close both return nil, the object holds the complete envelope of the    *)
(* stream.  The uploader's write can fail after the caller's last Write   *)
(* returned, so this rests on closeWriter waiting for u's error.           *)
(***************************************************************************)
PackCloseExact == lastPack # NoObject /\ lastPack.ok => lastPack.whole

(***************************************************************************)
(* Every Pack the backup starts finishes: neither goroutine blocks for     *)
(* ever on the pipe or on p.err, whatever fails and when.                  *)
(***************************************************************************)
PackTerminates == op.kind = "pack" ~> op.kind # "pack"

(***************************************************************************)
(* On S3 and on MockStorage an object is never left cut off: it is absent *)
(* or holds the whole envelope of the stream it was stored from, whatever *)
(* failed and when -- a source error the caller closes the pipe with, a    *)
(* failing PUT, a crash in the middle of a Put or a Pack.  It rests on     *)
(* the layers' PutReader storing nothing when io.Copy from the pipe       *)
(* returns an error, and on closeWriter passing that error down.           *)
(***************************************************************************)
LayerPutAtomic ==
    Buffered => \A k \in Keys : objects[k] = NoObject \/ objects[k].len = EnvLen(objects[k].plen)

(***************************************************************************)
(* A process goes on past setupStore only with its keys in the config     *)
(* file: while the store is connected, the file holds exactly the keys in *)
(* use, so the next run can open the store without --pass.  It rests on   *)
(* main saving cfg whenever Equal finds it changed and exiting when       *)
(* WriteToFile fails, before or after truncating the file.                *)
(***************************************************************************)
ConnectedKeysSaved == enc # NoKeys => config # CfgTorn /\ config.keys = enc

(***************************************************************************)
(* Spec 4.1: ciphertext too short to hold an IV, a block and an HMAC fails *)
(* with an error; decryptReader.Read never panics on its input.            *)
(***************************************************************************)
GetNeverPanics == lastGet = NoObject \/ lastGet.status # "panic"

=============================================================================
