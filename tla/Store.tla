------------------------------- MODULE Store -------------------------------
(***************************************************************************)
(* The store facade of store/store.go and store/metadata.go over one of    *)
(* the storage layers: FileStorage ("fs"), S3Connection ("s3") or          *)
(* MockStorage ("mock"), fixed for the store: the lifecycle main's setupStore *)
(* drives (IsClean and Wipe, Unlock, Open), the cached store metadata with *)
(* its user data, and Put and Get, which stream an object through          *)
(* EncryptReader into layer.PutReader and back through DecryptReader.      *)
(*                                                                         *)
(* One process uses the store at a time and one call at a time; Restart    *)
(* ends the process (exit or panic), dropping what the Store struct held.  *)
(* Data are abstracted: an object is [len, plen, keys], its byte length,   *)
(* the length of the (compressed) plaintext it was made from and the keys  *)
(* it was encrypted with; the metadata object is [salt, user] with the     *)
(* one user field the program uses ("manifest/latest"), NoMap for a nil    *)
(* UserData.  Keys derived from a secret and a salt are <<secret, salt>>.  *)
(***************************************************************************)
EXTENDS CryptoStream, Sequences

CONSTANTS Keys,              \* object keys other than "metadata"
          Secrets,           \* passwords a user may give
          Vals,              \* values of the "manifest/latest" user field
          PlainLens,         \* lengths of the compressed plaintext of a Put
          ReadSizes,         \* len(b) of the Read calls gzip makes on a Get
          CopyBufSize,       \* the buffer io.Copy reads a Put's stream with
          Cuts,              \* the file lengths at which a failing write stops
          MaxSalts,          \* bound on the salts crypto.Salt makes
          MaxLayerFailures,  \* bound on the failing calls of the storage layer
          Layers             \* the storage layers a store may sit on

VARIABLES exists,    \* the layer's container (bucket, root folder) exists
          metaObj,   \* the "metadata" object: MetaNone, MetaMalformed or [salt, user]
          objects,   \* key -> object, or NoObject
          meta,      \* Store.meta: NoMeta or the cached [salt, user]
          enc,       \* Store.enc: NoKeys or the keys of the crypter
          salts,     \* salts made so far
          op,        \* the Put or Get in progress, or [kind |-> "none"]
          lastGet,   \* the outcome of the last Get: NoObject or [key, status, out, whole, plen]
          lastPack,  \* the outcome of the last Pack: NoObject or [key, ok, whole]
          lfails,    \* layer failures so far
          config,    \* the config file: [keys, s3], or CfgTorn
          layer      \* the storage layer under the store

storeVars == <<exists, metaObj, objects, meta, enc, salts, op, lastGet, lastPack, lfails, config, layer>>

\* S3Connection and MockStorage read the whole stream into a bytes.Buffer
\* and store it in one call; FileStorage writes the file as it reads.
Buffered == layer \in {"s3", "mock"}

NoObject == [len |-> -1]
NoMeta == [salt |-> 0]
MetaNone == [obj |-> "none"]
MetaMalformed == [obj |-> "malformed"]
NoKeys == <<>>
NoMap == "nil"
Idle == [kind |-> "none"]

\* The S3 settings of a LocalConfigStore (region, bucket, credentials) as
\* one value: NoS3 for the empty S3Config, S3Named for those of the store.
NoS3 == "none"
S3Named == "named"

\* NewConfig(): version 2, no keys, no settings.
NewConfig == [keys |-> NoKeys, s3 |-> NoS3]

\* Whether the layer may fail one more call.
CanFail == lfails < MaxLayerFailures

\* newMetadata(salt): version 1, format 1, no user data.
newMetadata(salt) == [salt |-> salt, user |-> NoMap]

\* DeriveKeys(secret, md.Salt)
DeriveKeys(secret, salt) == <<secret, salt>>

StoreInit ==
    /\ exists \in BOOLEAN
    /\ metaObj = MetaNone
    /\ objects = [k \in Keys |-> NoObject]
    /\ meta = NoMeta
    /\ enc = NoKeys
    /\ salts = 0
    /\ op = Idle
    /\ lastGet = NoObject
    /\ lastPack = NoObject
    /\ lfails = 0
    /\ config = NewConfig
    /\ layer \in Layers

-----------------------------------------------------------------------------
\* The error layer.GetReader returns for a missing object.  FileStorage:
\* os.Open of root/key fails with ENOENT, with or without the root folder.
FileStorageGetReaderErr == "notexist"

\* S3Connection: the GET fails with NoSuchKey, or with NoSuchBucket while
\* the bucket does not exist.
S3ConnectionGetReaderErr == IF exists THEN "notexist" ELSE "nobucket"

\* MockStorage: the map has no such key, MockErrNoSuchKey (the program
\* injects no request faults or reader wrappers; only tests do).
MockStorageGetReaderErr == "notexist"

MissingObjectErr ==
    CASE layer = "fs" -> FileStorageGetReaderErr
      [] layer = "s3" -> S3ConnectionGetReaderErr
      [] OTHER        -> MockStorageGetReaderErr

(***************************************************************************)
(* getStoreMetadata: the cache when set; otherwise the "metadata" object   *)
(* is read, and a well-formed one is cached.  readFails is a failing       *)
(* GetReader of the layer.  Returns [md, err, cache].  The object is       *)
(* missing whenever the container is (only Wipe writes it, after Create).  *)
(***************************************************************************)
getStoreMetadata(readFails) ==
    CASE meta # NoMeta      -> [md |-> meta, err |-> "nil", cache |-> meta]
      [] readFails          -> [md |-> NoMeta, err |-> "layer", cache |-> meta]
      [] metaObj = MetaNone -> [md |-> NoMeta, err |-> MissingObjectErr, cache |-> meta]
      [] metaObj = MetaMalformed -> [md |-> NoMeta, err |-> "malformed", cache |-> meta]
      [] OTHER              -> [md |-> metaObj, err |-> "nil", cache |-> metaObj]

\* putStoreMetadata(md) through the layer's PutReader: it succeeds and
\* caches md, or fails with nothing changed (FileStorage before OpenFile,
\* S3's PUT), or after FileStorage's O_TRUNC (a cut-off JSON object is
\* left).  MockStorage's copy of a bytes.Reader does not fail.
PutMetaOutcomes ==
    CASE layer = "fs" -> {"ok", "unopened", "partial"}
      [] layer = "s3" -> {"ok", "unopened"}
      [] OTHER        -> {"ok"}

putStoreMetadataObj(md, how) ==
    CASE how = "ok"       -> md
      [] how = "unopened" -> metaObj
      [] OTHER            -> MetaMalformed

(***************************************************************************)
(* main runs setupStore once per process and exits (exitIfError) when it   *)
(* fails, and so do saveManifest's and getLatestManifest's callers on a   *)
(* metadata or Put/Get error: Exit is the end of the process, which drops  *)
(* what the Store struct held.  After a successful setupStore, main saves  *)
(* the config when it changed (original.Equal(cfg) is false): new keys, or *)
(* S3 settings given on the command line that the file does not hold.     *)
(* That write can fail, and the process exits with the store set up and   *)
(* the old config, or a torn file, in the config file.                    *)
(***************************************************************************)
Exit == meta' = NoMeta /\ enc' = NoKeys /\ op' = Idle

\* A config file that ioutil.WriteFile truncated and did not finish.
CfgTorn == [torn |-> TRUE]

\* LoadConfigFile: a missing or malformed file (ParseVersionJSON fails) is
\* an error, and loadConfig goes on with NewConfig().
LoadConfigFile == IF config = CfgTorn THEN NewConfig ELSE config

\* loadConfig: the file's config, then the S3 flags of the command line
\* (over, NoS3 when none is given) override its settings.
loadConfig(over) == [LoadConfigFile EXCEPT !.s3 = IF over = NoS3 THEN @ ELSE over]

\* A process on S3 connects with cfg.S3Config; without settings every S3
\* request fails and it exits having changed nothing, so such a process is
\* left out.
CanConnect(over) == layer = "s3" => loadConfig(over).s3 # NoS3

\* WriteToFile: ioutil.WriteFile opens the file with O_TRUNC; it fails
\* before that (the file is unchanged) or while writing (the file is torn).
WriteToFileOutcomes == {"ok", "open", "torn"}

\* original.Equal(cfg): the config as loaded from the file and cfg marshal
\* to the same JSON.
ConfigEqual(cfg) == cfg = LoadConfigFile

\* Mutant: main ignores the error of cfg.WriteToFile and goes on.
ConnectIgnoreSaveErr(keys, md, over) ==
    LET cfg     == [loadConfig(over) EXCEPT !.keys = keys]
        changed == ~ConfigEqual(cfg)
    IN \E how \in WriteToFileOutcomes :
          /\ how # "ok" => CanFail /\ changed
          /\ lfails' = lfails + (IF how = "ok" THEN 0 ELSE 1)
          /\ enc' = keys /\ meta' = md /\ UNCHANGED op
          /\ config' = CASE how = "ok" /\ changed -> cfg
                          [] how = "torn"          -> CfgTorn
                          [] OTHER                 -> config

\* setupStore returned keys (cfg.Store.Keys) and the cached metadata md;
\* main saves cfg when it differs from the file's.
Connect(keys, md, over) ==
    LET cfg     == [loadConfig(over) EXCEPT !.keys = keys]
        changed == ~ConfigEqual(cfg)
    IN \E how \in WriteToFileOutcomes :
          /\ how # "ok" => CanFail /\ changed
          /\ lfails' = lfails + (IF how = "ok" THEN 0 ELSE 1)
          /\ IF how = "ok"
             THEN /\ enc' = keys /\ meta' = md /\ UNCHANGED op
                  /\ config' = IF changed THEN cfg ELSE config
             ELSE /\ Exit
                  /\ config' = IF how = "torn" THEN CfgTorn ELSE config

(***************************************************************************)
(* setupStore with "init": a password is required; the store must be       *)
(* clean (IsClean: getStoreMetadata fails with IsNotExist) unless forced;  *)
(* then Wipe: Salt, Create when the container does not exist,              *)
(* putStoreMetadata(newMetadata(salt)), and Unlock, which finds the new    *)
(* metadata in the cache.  fail names the call of the layer that fails,    *)
(* if one does.                                                            *)
(***************************************************************************)
\* The layer's IsNotExist: FileStorage's os.IsNotExist, S3's NoSuchKey and
\* MockStorage's MockErrNoSuchKey all match a missing object, and only that.
IsNotExist(err) == err = "notexist"

\* IsClean: the metadata cannot be read because it does not exist.
IsClean == IsNotExist(getStoreMetadata(FALSE).err)

WipeFailures == {"create"} \cup (PutMetaOutcomes \ {"ok"})

\* FileStorage.Exists: Stat of the root folder; a missing one is
\* (false, nil).
FileStorageExists == exists

\* S3Connection.Exists: the bucket is among those ListBuckets returns.
S3ConnectionExists == exists

\* MockStorage.Exists: always (true, nil); its Create does nothing.
MockStorageExists == TRUE

\* layer.Exists().  The other errors of Stat and ListBuckets are among the
\* Wipe failures.
Exists ==
    CASE layer = "fs" -> FileStorageExists
      [] layer = "s3" -> S3ConnectionExists
      [] OTHER        -> MockStorageExists

\* Create: FileStorage's MkdirAll of the root then Exists, S3's PutBucket.
\* It fails (fail = "create") only while the container is missing, and
\* leaves it so.
Create(fail) == exists' = (exists \/ fail # "create")

SetupInit(secret, force, over) ==
    LET salt  == salts + 1
        md    == newMetadata(salt)
    IN /\ op = Idle /\ enc = NoKeys /\ meta = NoMeta /\ CanConnect(over)
       /\ \/ /\ ~IsClean /\ ~force
             /\ UNCHANGED <<layer, exists, metaObj, salts, lfails, config>>
             /\ Exit
          \/ /\ IsClean \/ force
             /\ salts < MaxSalts
             /\ salts' = salt
             /\ \E fail \in WipeFailures \cup {"none"} :
                   /\ fail # "none" => CanFail
                   /\ fail = "create" => ~Exists
                   /\ Create(fail)
                   /\ metaObj' = IF fail = "create" THEN metaObj
                                 ELSE putStoreMetadataObj(md, IF fail = "none" THEN "ok" ELSE fail)
                   /\ IF fail = "none"
                      THEN /\ Connect(DeriveKeys(secret, salt), md, over)
                      ELSE /\ lfails' = lfails + 1 /\ Exit /\ UNCHANGED config
    /\ UNCHANGED <<layer, objects, lastGet, lastPack>>

\* Mutant: the error of getStoreMetadata is not checked.
UnlockIgnoreErr(secret, over) ==
    /\ op = Idle /\ enc = NoKeys /\ meta = NoMeta /\ CanConnect(over)
    /\ \E readFails \in BOOLEAN :
          LET r == getStoreMetadata(readFails)
          IN /\ readFails => CanFail
             /\ IF Exists
                THEN /\ Connect(DeriveKeys(secret, r.md.salt), r.cache, over)
                ELSE /\ lfails' = lfails + (IF readFails THEN 1 ELSE 0)
                     /\ Exit /\ UNCHANGED config
    /\ UNCHANGED <<layer, exists, metaObj, objects, salts, lastGet, lastPack>>

\* setupStore with a password: Unlock derives the keys from it and the
\* stored salt (an unreadable or missing metadata object is an error),
\* then Open checks that the container exists.
Unlock(secret, over) ==
    /\ op = Idle /\ enc = NoKeys /\ meta = NoMeta /\ CanConnect(over)
    /\ \E readFails \in BOOLEAN :
          LET r == getStoreMetadata(readFails)
          IN /\ readFails => CanFail
             /\ IF r.err = "nil" /\ Exists
                THEN /\ Connect(DeriveKeys(secret, r.md.salt), r.cache, over)
                ELSE /\ lfails' = lfails + (IF readFails THEN 1 ELSE 0)
                     /\ Exit /\ UNCHANGED config
    /\ UNCHANGED <<layer, exists, metaObj, objects, salts, lastGet, lastPack>>

\* setupStore without a password: Open with the keys of the config file;
\* with none saved yet NewCrypter refuses the empty keys.  Nothing checks
\* that the keys match the store's salt.
Open(over) ==
    /\ op = Idle /\ enc = NoKeys /\ meta = NoMeta /\ CanConnect(over)
    /\ LoadConfigFile.keys # NoKeys /\ Exists
    /\ Connect(LoadConfigFile.keys, meta, over)
    /\ UNCHANGED <<layer, exists, metaObj, objects, salts, lastGet, lastPack>>

-----------------------------------------------------------------------------
(***************************************************************************)
(* PutMetadata(key, v), i.e. putUserMetadata as saveManifest calls it:     *)
(* getStoreMetadata, then putStoreMetadata of the struct with the field    *)
(* set, which caches it.  On an error the caller exits, so the cached map  *)
(* that putUserMetadata has already changed is never read again.           *)
(***************************************************************************)
PutMetadata(v) ==
    /\ op = Idle /\ enc # NoKeys
    /\ \E readFails \in BOOLEAN, how \in PutMetaOutcomes :
          LET r   == getStoreMetadata(readFails)
              md  == [r.md EXCEPT !.user = v]
          IN /\ readFails => CanFail
             /\ how # "ok" => CanFail
             /\ lfails' = lfails + (IF readFails \/ (r.err = "nil" /\ how # "ok") THEN 1 ELSE 0)
             /\ IF r.err # "nil"
                THEN Exit /\ UNCHANGED metaObj
                ELSE /\ metaObj' = putStoreMetadataObj(md, how)
                     /\ IF how = "ok" THEN meta' = md /\ UNCHANGED <<enc, op>> ELSE Exit
    /\ UNCHANGED <<layer, exists, objects, salts, lastGet, lastPack, config>>

\* GetMetadata(key), as getLatestManifest calls it: the value of the field
\* or an error (which ends the process); the read may fill the cache.
GetMetadata ==
    /\ op = Idle /\ enc # NoKeys
    /\ LET r == getStoreMetadata(FALSE)
       IN IF r.err = "nil" THEN meta' = r.cache /\ UNCHANGED <<enc, op>> ELSE Exit
    /\ UNCHANGED <<layer, exists, metaObj, objects, salts, config, lastGet, lastPack, lfails>>

\* lastGet and lastPack hold what the call that just returned returned;
\* the next Put, Get or Pack clears them.
ClearResults == lastGet' = NoObject /\ lastPack' = NoObject

-----------------------------------------------------------------------------
(***************************************************************************)
(* Put(key, data): PutReader refuses the "metadata" key and an unopened    *)
(* store, then gives the layer the compressed, encrypted stream.           *)
(* FileStorage.PutReader opens the file with O_TRUNC (the old object is    *)
(* gone from here on) and io.Copy reads the stream into it; S3Connection   *)
(* and MockStorage copy it into a buffer (buf bytes so far) and store the  *)
(* buffer once the stream has ended.                                       *)
(***************************************************************************)
PutStart(k, plen) ==
    /\ op = Idle /\ enc # NoKeys
    /\ objects' = IF Buffered THEN objects
                  ELSE [objects EXCEPT ![k] = [len |-> 0, plen |-> plen, keys |-> enc]]
    /\ op' = [kind |-> "put", key |-> k, plen |-> plen, buf |-> 0, e |-> EncryptReader(plen, "EOF")]
    /\ UNCHANGED <<layer, exists, metaObj, meta, enc, salts, config, lfails>>
    /\ ClearResults

\* makeDir of the key's folder or OpenFile fails: FileStorage.PutReader
\* returns the error before the file is truncated, and the caller exits.
PutOpenFails(k) ==
    /\ op = Idle /\ enc # NoKeys /\ CanFail /\ layer = "fs"
    /\ lfails' = lfails + 1 /\ Exit
    /\ UNCHANGED <<layer, exists, metaObj, objects, salts, config>>
    /\ ClearResults

\* The process is gone: a panic, an exit, a kill.
Restart ==
    /\ op' = Idle /\ meta' = NoMeta /\ enc' = NoKeys
    /\ UNCHANGED <<layer, exists, metaObj, objects, salts, config, lastGet, lastPack, lfails>>

\* The layer stores a buffer of n bytes in one call: S3's PUT, which fails
\* (ok = FALSE) with nothing changed, or MockStorage's map assignment.
StoreBuffer(k, n, plen, ok) ==
    objects' = IF ok THEN [objects EXCEPT ![k] = [len |-> n, plen |-> plen, keys |-> enc]]
               ELSE objects

\* One Read of the stream by io.Copy and the write of what it returned.
\* At EOF the copy, and PutReader, return nil.
PutRead ==
    LET k == op.key
        r == EncRead(op.e, CopyBufSize)
    IN /\ op.kind = "put" /\ layer = "fs"
       /\ r.err \in {"nil", "EOF"}
       /\ objects' = [objects EXCEPT ![k].len = @ + r.n]
       /\ op' = IF r.err = "EOF" THEN Idle ELSE [op EXCEPT !.e = r.st]
       /\ UNCHANGED <<layer, exists, metaObj, meta, enc, salts, config, lastGet, lastPack, lfails>>

\* A buffered layer: one Read of the stream by io.Copy into the buffer.
PutBufferRead ==
    LET r == EncRead(op.e, CopyBufSize)
    IN /\ op.kind = "put" /\ Buffered /\ r.err = "nil"
       /\ op' = [op EXCEPT !.e = r.st, !.buf = @ + r.n]
       /\ UNCHANGED <<layer, exists, metaObj, objects, meta, enc, salts, config, lastGet, lastPack, lfails>>

\* A buffered layer: the last Read returns EOF, and the buffer is stored;
\* when S3's PUT fails, Put returns the error and the caller exits.
PutUpload(ok) ==
    LET r == EncRead(op.e, CopyBufSize)
    IN /\ op.kind = "put" /\ Buffered /\ r.err = "EOF"
       /\ ~ok => layer = "s3" /\ CanFail
       /\ StoreBuffer(op.key, op.buf + r.n, op.plen, ok)
       /\ IF ok THEN op' = Idle /\ UNCHANGED <<meta, enc, lfails>>
               ELSE lfails' = lfails + 1 /\ Exit
       /\ UNCHANGED <<layer, exists, metaObj, salts, config, lastGet, lastPack>>

\* The file write of what a Read returned fails, the file cut at length cut;
\* Put returns the error and saveManifest's caller exits.
PutWriteFails(cut) ==
    LET r == EncRead(op.e, CopyBufSize)
    IN /\ op.kind = "put" /\ CanFail /\ layer = "fs"
       /\ r.err \in {"nil", "EOF"}
       /\ cut - objects[op.key].len \in 0 .. r.n - 1
       /\ objects' = [objects EXCEPT ![op.key].len = cut]
       /\ lfails' = lfails + 1
       /\ Exit
       /\ UNCHANGED <<layer, exists, metaObj, salts, config, lastGet, lastPack>>

-----------------------------------------------------------------------------
(***************************************************************************)
(* Get(key): GetReader refuses "metadata" and an unopened store, asks the  *)
(* layer (a missing object is IsNotExist), reads the IV in DecryptReader   *)
(* and starts gzip, which reads the stream on; ioutil.ReadAll then reads   *)
(* it to the end.  Whole(o): o is the whole envelope a Put under the       *)
(* store's current keys wrote, the one stream whose HMAC verifies.         *)
(***************************************************************************)
Whole(o) == o # NoObject /\ o.len = EnvLen(o.plen) /\ o.keys = enc

GetResult(k, status, out) ==
    [key |-> k, status |-> status, out |-> out, whole |-> Whole(objects[k]),
     plen |-> IF objects[k] # NoObject THEN objects[k].plen ELSE 0]

GetStart(k) ==
    LET o == objects[k]
    IN /\ op = Idle /\ enc # NoKeys
       /\ IF o # NoObject /\ DecryptOpens(o.len)
          THEN /\ op' = [kind |-> "get", key |-> k, d |-> DecryptReader(o.len), out |-> 0,
                         authentic |-> Whole(o),
                         padVal |-> PadLen(o.plen)]
               /\ ClearResults
               /\ UNCHANGED <<meta, enc>>
          ELSE /\ lastGet' = GetResult(k, IF o = NoObject THEN "notexist" ELSE "short", 0)
               /\ lastPack' = NoObject
               /\ Exit
       /\ UNCHANGED <<layer, exists, metaObj, objects, salts, config, lfails>>

\* One Read of the decrypting stream: on EOF Get returns the data read; an
\* error or a panic ends the process (Get's callers exit on an error).
GetRead(size) ==
    LET r == DecRead(op.d, size, op.authentic, op.padVal)
        k == op.key
    IN /\ op.kind = "get"
       /\ CASE r.err = "nil" ->
                 /\ op' = [op EXCEPT !.d = r.st, !.out = @ + r.n]
                 /\ UNCHANGED <<meta, enc, lastGet>>
            [] r.err = "EOF" ->
                 /\ lastGet' = GetResult(k, "ok", op.out + r.n)
                 /\ op' = Idle
                 /\ UNCHANGED <<meta, enc>>
            [] OTHER ->
                 /\ lastGet' = GetResult(k, r.err, op.out + r.n)
                 /\ Exit
       /\ UNCHANGED <<layer, exists, metaObj, objects, salts, config, lastPack, lfails>>

-----------------------------------------------------------------------------
(***************************************************************************)
(* Pack(key), Packer.PutReader(r) and Packer.Close, as backupLatest calls  *)
(* them: one stream per packer.  Two goroutines share an io.Pipe: the      *)
(* caller (c) copies the encrypted stream into the write end in reads of   *)
(* CopyBufSize, and the uploader Pack starts (u) runs layer.PutReader on   *)
(* the read end, then r.CloseWithError(err) and p.err <- err.  The op     *)
(* record holds both: c is "copy" or "wait" (closeWriter, blocked on       *)
(* <-p.err); u is "open", "copy" or "send"; pend the bytes of a Write not  *)
(* yet taken by the reader, ubuf the bytes u took and has not yet written; *)
(* wclose how the write end was closed ("open", "nil", "err"); rclosed     *)
(* whether the read end was; uerr and cerr the errors of u and of          *)
(* PutReader.  The source stream (PackReader piped into CompressReader)    *)
(* has plen bytes and ends with EOF or, when a file read                   *)
(* or the compressor fails, with an error (tail).                          *)
(***************************************************************************)
PackStart(k, plen, tail) ==
    /\ op = Idle /\ enc # NoKeys
    /\ op' = [kind |-> "pack", key |-> k, plen |-> plen, e |-> EncryptReader(plen, tail),
              c |-> "copy", u |-> "open", pend |-> 0, ubuf |-> 0, buf |-> 0, wclose |-> "open", rclosed |-> FALSE,
              uerr |-> "nil", cerr |-> "nil"]
    /\ UNCHANGED <<layer, exists, metaObj, objects, meta, enc, salts, config, lfails>>
    /\ ClearResults

\* u: FileStorage.PutReader's makeDir and OpenFile(O_TRUNC); on an error
\* the uploader closes the read end and sends the error.  A buffered layer
\* has nothing to open.
PackUOpen(ok) ==
    /\ op.kind = "pack" /\ op.u = "open"
    /\ ~ok => CanFail /\ layer = "fs"
    /\ IF ok
       THEN /\ objects' = IF Buffered THEN objects
                          ELSE [objects EXCEPT ![op.key] = [len |-> 0, plen |-> op.plen, keys |-> enc]]
            /\ op' = [op EXCEPT !.u = "copy"]
            /\ UNCHANGED lfails
       ELSE /\ op' = [op EXCEPT !.u = "send", !.uerr = "err", !.rclosed = TRUE]
            /\ lfails' = lfails + 1
            /\ UNCHANGED objects
    /\ UNCHANGED <<layer, exists, metaObj, meta, enc, salts, config, lastGet, lastPack>>

\* u: io.Copy's Read takes the pending Write from the pipe (at most its
\* buffer, which CopyBufSize also bounds), and c's Write returns.
PackUTake ==
    /\ op.kind = "pack" /\ op.u = "copy" /\ op.pend > 0 /\ op.ubuf = 0
    /\ op' = [op EXCEPT !.ubuf = op.pend, !.pend = 0]
    /\ UNCHANGED <<layer, exists, metaObj, objects, meta, enc, salts, config, lastGet, lastPack, lfails>>

\* u: io.Copy writes what it read to the file, or to the buffer.
PackUBuffer ==
    /\ op.kind = "pack" /\ op.u = "copy" /\ op.ubuf > 0 /\ Buffered
    /\ op' = [op EXCEPT !.buf = @ + op.ubuf, !.ubuf = 0]
    /\ UNCHANGED <<layer, exists, metaObj, objects, meta, enc, salts, config, lastGet, lastPack, lfails>>

PackUCopy ==
    /\ op.kind = "pack" /\ op.u = "copy" /\ op.ubuf > 0 /\ layer = "fs"
    /\ objects' = [objects EXCEPT ![op.key].len = @ + op.ubuf]
    /\ op' = [op EXCEPT !.ubuf = 0]
    /\ UNCHANGED <<layer, exists, metaObj, meta, enc, salts, config, lastGet, lastPack, lfails>>

\* The file write fails with the file cut at length cut: io.Copy, and the
\* uploader, return the error.
PackUWriteFails(cut) ==
    /\ op.kind = "pack" /\ op.u = "copy" /\ op.ubuf > 0 /\ CanFail /\ layer = "fs"
    /\ cut - objects[op.key].len \in 0 .. op.ubuf - 1
    /\ objects' = [objects EXCEPT ![op.key].len = cut]
    /\ op' = [op EXCEPT !.ubuf = 0, !.u = "send", !.uerr = "err", !.rclosed = TRUE]
    /\ lfails' = lfails + 1
    /\ UNCHANGED <<layer, exists, metaObj, meta, enc, salts, config, lastGet, lastPack>>

\* u: the read end reports the close of the write end: io.Copy returns nil
\* on CloseWithError(nil), the error otherwise.
PackUEnd ==
    /\ op.kind = "pack" /\ op.u = "copy" /\ op.pend = 0 /\ op.ubuf = 0 /\ op.wclose # "open"
    /\ layer = "fs"
    /\ op' = [op EXCEPT !.u = "send", !.uerr = IF op.wclose = "nil" THEN "nil" ELSE "err",
                        !.rclosed = TRUE]
    /\ UNCHANGED <<layer, exists, metaObj, objects, meta, enc, salts, config, lastGet, lastPack, lfails>>

\* Mutant: the buffered layer stores what io.Copy read even when the copy
\* returned the error the write end was closed with.
PackUUploadIgnoreCopyErr(ok) ==
    /\ op.kind = "pack" /\ op.u = "copy" /\ op.pend = 0 /\ op.ubuf = 0 /\ op.wclose # "open"
    /\ Buffered
    /\ ~ok => layer = "s3" /\ CanFail
    /\ StoreBuffer(op.key, op.buf, op.plen, ok)
    /\ op' = [op EXCEPT !.u = "send", !.uerr = IF ok /\ op.wclose = "nil" THEN "nil" ELSE "err",
                        !.rclosed = TRUE]
    /\ lfails' = lfails + (IF ok THEN 0 ELSE 1)
    /\ UNCHANGED <<layer, exists, metaObj, meta, enc, salts, config, lastGet, lastPack>>

\* u, a buffered layer: io.Copy returns with the close of the write end; on
\* nil the buffer is stored (S3's PUT may fail), on an error PutReader
\* returns it and stores nothing.
PackUUpload(ok) ==
    /\ op.kind = "pack" /\ op.u = "copy" /\ op.pend = 0 /\ op.ubuf = 0 /\ op.wclose # "open"
    /\ Buffered
    /\ ~ok => layer = "s3" /\ CanFail /\ op.wclose = "nil"
    /\ StoreBuffer(op.key, op.buf, op.plen, ok /\ op.wclose = "nil")
    /\ op' = [op EXCEPT !.u = "send", !.uerr = IF ok /\ op.wclose = "nil" THEN "nil" ELSE "err",
                        !.rclosed = TRUE]
    /\ lfails' = lfails + (IF ok THEN 0 ELSE 1)
    /\ UNCHANGED <<layer, exists, metaObj, meta, enc, salts, config, lastGet, lastPack>>

\* c: one Read of the encrypted stream and the Write of its bytes.  At EOF
\* PutReader returns nil and backupLatest calls Close, i.e. closeWriter(nil);
\* a read error, or a Write to a closed read end, makes PutReader call
\* closeWriter(err).  Either way c then blocks on <-p.err.
\* Mutant: PutReader returns a read error without closeWriter(err).
PackCReadNoClose ==
    LET r == EncRead(op.e, CopyBufSize)
        closeWith(err) == op' = [op EXCEPT !.c = "wait", !.wclose = err, !.cerr = err]
    IN /\ op.kind = "pack" /\ op.c = "copy" /\ op.pend = 0
       /\ CASE r.err = "EOF"                -> closeWith("nil")
            [] r.err = "input" \/ op.rclosed -> op' = [op EXCEPT !.c = "returned", !.cerr = "err"]
            [] OTHER -> op' = [op EXCEPT !.e = r.st, !.pend = r.n]
       /\ UNCHANGED <<layer, exists, metaObj, objects, meta, enc, salts, config, lastGet, lastPack, lfails>>

PackCRead ==
    LET r == EncRead(op.e, CopyBufSize)
        closeWith(err) == op' = [op EXCEPT !.c = "wait", !.wclose = err, !.cerr = err]
    IN /\ op.kind = "pack" /\ op.c = "copy" /\ op.pend = 0
       /\ CASE r.err = "EOF"                -> closeWith("nil")
            [] r.err = "input" \/ op.rclosed -> closeWith("err")
            [] OTHER -> op' = [op EXCEPT !.e = r.st, !.pend = r.n]
       /\ UNCHANGED <<layer, exists, metaObj, objects, meta, enc, salts, config, lastGet, lastPack, lfails>>

\* c: a Write blocked on the pipe returns the error the read end was
\* closed with; PutReader calls closeWriter(err).
PackCWriteFails ==
    /\ op.kind = "pack" /\ op.c = "copy" /\ op.pend > 0 /\ op.rclosed
    /\ op' = [op EXCEPT !.pend = 0, !.c = "wait", !.wclose = "err", !.cerr = "err"]
    /\ UNCHANGED <<layer, exists, metaObj, objects, meta, enc, salts, config, lastGet, lastPack, lfails>>

\* c receives u's error: closeErr.  backupLatest keeps the blob's files
\* when PutReader and Close both returned nil, and drops them otherwise.
\* Mutant: closeWriter does not wait for u; closeErr is whatever u has so far.
PackCDoneNoWait ==
    /\ op.kind = "pack" /\ op.c = "wait"
    /\ lastPack' = [key |-> op.key, ok |-> op.cerr = "nil" /\ op.uerr = "nil",
                    whole |-> Whole(objects[op.key])]
    /\ op' = Idle
    /\ UNCHANGED <<layer, exists, metaObj, objects, meta, enc, salts, config, lastGet, lfails>>

PackCDone ==
    /\ op.kind = "pack" /\ op.c = "wait" /\ op.u = "send"
    /\ lastPack' = [key |-> op.key, ok |-> op.cerr = "nil" /\ op.uerr = "nil",
                    whole |-> Whole(objects[op.key])]
    /\ op' = Idle
    /\ UNCHANGED <<layer, exists, metaObj, objects, meta, enc, salts, config, lastGet, lfails>>

\* setupStore: "init" with a password, a password, or neither.
\* The S3 flags a command line may give: none, or the store's settings.
S3Overrides == {NoS3, S3Named}

setupStore ==
    \E over \in S3Overrides :
        \/ \E s \in Secrets, force \in BOOLEAN : SetupInit(s, force, over)
        \/ \E s \in Secrets : Unlock(s, over)
        \/ Open(over)

StoreNext ==
    \/ setupStore
    \/ \E v \in Vals : PutMetadata(v)
    \/ GetMetadata
    \/ \E k \in Keys, plen \in PlainLens : PutStart(k, plen)
    \/ \E k \in Keys : PutOpenFails(k)
    \/ PutRead \/ PutBufferRead \/ \E ok \in BOOLEAN : PutUpload(ok)
    \/ \E cut \in Cuts : PutWriteFails(cut)
    \/ \E k \in Keys : GetStart(k)
    \/ \E size \in ReadSizes : GetRead(size)
    \/ \E k \in Keys, plen \in PlainLens, tail \in {"EOF", "input"} : PackStart(k, plen, tail)
    \/ \E ok \in BOOLEAN : PackUOpen(ok)
    \/ PackUTake \/ PackUCopy \/ PackUBuffer \/ \E cut \in Cuts : PackUWriteFails(cut)
    \/ PackUEnd \/ \E ok \in BOOLEAN : PackUUpload(ok) \/ PackCRead \/ PackCWriteFails \/ PackCDone
    \/ Restart

=============================================================================
