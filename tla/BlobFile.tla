------------------------------ MODULE BlobFile ------------------------------
(***************************************************************************)
(* The file codec of crates/filum-crypto/src/blob.rs: any number of        *)
(* concurrent encrypt_file_chunked and decrypt_file_chunked calls over one *)
(* file system, every system call a step of its own that may fail, and     *)
(* crashes that stop the process and lose data that was not synced.        *)
(*                                                                         *)
(* Each member of Calls is one call.  The inode a call creates carries the *)
(* call's name, an inode that exists from the start the name of its file;  *)
(* the temporary path of a call is <<output, call>>, the call standing for *)
(* the random suffix.  Directory operations are durable at once, file data *)
(* only up to synced[i].                                                   *)
(***************************************************************************)
EXTENDS BlobCodec

CONSTANTS
    Calls,       \* calls of the two file operations
    Files,       \* paths the callers name
    EncOut,      \* the paths used as outputs of encrypt_file_chunked
    NoInode,     \* "no file here"
    NoCall,      \* the argument of a call that has not started
    Requests,    \* argument lists [op, in, out, id, wk] a caller may pass
    Disks,       \* possible initial contents: functions from some of Files
    Stored,      \* data keys of blobs sealed earlier
    StoredBind,  \* their wraps
    StoredSeals, \* and their segments
    MaxCrashes   \* bound on the number of crashes

VARIABLES
    pc, arg, res,                  \* control point, arguments and result
    fin, pos, buf, pending,        \* input: inode, offset, read buffer, held chunk
    dk, prefix, ctr,               \* STREAM encryptor or decryptor
    fout, woff, wbuf, due, armed,  \* output: inode, offset, BufWriter, cleanup
    dir, data, synced,             \* file system
    unlinkFailed, crashes          \* history: failed removals, number of crashes

ctlVars  == <<pc, arg, res>>
readVars == <<fin, pos, buf, pending>>
strmVars == <<dk, prefix, ctr>>
outVars  == <<fout, woff, wbuf, due, armed>>
fsVars   == <<dir, data, synced>>
histVars == <<unlinkFailed, crashes>>
vars     == <<bind, seals, pc, arg, res, fin, pos, buf, pending, dk, prefix,
              ctr, fout, woff, wbuf, due, armed, dir, data, synced,
              unlinkFailed, crashes>>

Temps  == Files \X Calls
Paths  == Files \cup Temps
Inodes == Files \cup Calls
DecOut == Files \ EncOut

Request ==
    [op : {"encrypt", "decrypt"}, in : Files, out : Files, id : BlobIds, wk : WrapKeys]

ASSUME RequestAssumption ==
    /\ Requests \subseteq Request
    /\ \A r \in Requests : r.out \in EncOut <=> r.op = "encrypt"
ASSUME PathAssumption ==
    /\ Files \cap Calls = {} /\ Files \cap Temps = {} /\ EncOut \subseteq Files
    /\ NoInode \notin Inodes /\ NoCall \notin Request
\* No file holds a wrap of a data key that is still to be drawn.
ASSUME DiskAssumption ==
    \A d \in Disks :
        /\ DOMAIN d \subseteq Files
        /\ \A f \in DOMAIN d :
             /\ d[f] \in Seq(Cell)
             /\ \A j \in 1 .. Len(d[f]), k \in DataKeys \ Stored : d[f][j] # [wrapped |-> k]
\* The blobs sealed earlier were sealed by an encoder, perhaps not to the end.
ASSUME StoredAssumption ==
    /\ Stored \subseteq DataKeys
    /\ \A k \in Stored :
         /\ StoredSeals[k] \in Seq(SealRecord)
         /\ \E wk \in WrapKeys, id \in BlobIds, cell \in PrefixCell :
              /\ Usable(id) /\ StoredBind[k] = Wrap(wk, id, cell)
              /\ Stream(StoredSeals[k], id, cell)
ASSUME CrashAssumption == MaxCrashes \in Nat

Enc(c) == arg[c].op = "encrypt"
Dec(c) == arg[c].op = "decrypt"

\* Mutant: a fixed suffix instead of a random one.
SiblingTempPathFixed(c, out) == <<out, CHOOSE x \in Calls : TRUE>>

\* sibling_temp_path: next to the output, with a random suffix.
SiblingTempPath(c, out) == <<out, c>>

TempOf(c) == SiblingTempPath(c, arg[c].out)

\* Bytes per read_full of the main loop: buf is CHUNK_SIZE bytes long when
\* encrypting and a ciphertext chunk when decrypting.
BufLen(c) == IF Enc(c) THEN CHUNK_SIZE ELSE CHUNK_SIZE + TAG_LEN

\* Bytes the reading step at pc[c] waits for.
Want(c) == IF pc[c] = "header" THEN HEADER_LEN ELSE BufLen(c)

----------------------------------------------------------------------------
Init ==
    /\ bind  = [k \in DataKeys |-> IF k \in Stored THEN StoredBind[k] ELSE NoBind]
    /\ seals = [k \in DataKeys |-> IF k \in Stored THEN StoredSeals[k] ELSE <<>>]
    /\ pc = [c \in Calls |-> "idle"]
    /\ arg = [c \in Calls |-> NoCall]
    /\ res = [c \in Calls |-> "none"]
    /\ fin = [c \in Calls |-> NoInode] /\ pos = [c \in Calls |-> 0]
    /\ buf = [c \in Calls |-> <<>>] /\ pending = [c \in Calls |-> <<>>]
    /\ dk = [c \in Calls |-> NoKey]
    /\ prefix = [c \in Calls |-> Zero] /\ ctr = [c \in Calls |-> 0]
    /\ fout = [c \in Calls |-> NoInode] /\ woff = [c \in Calls |-> 0]
    /\ wbuf = [c \in Calls |-> <<>>] /\ due = [c \in Calls |-> 0]
    /\ armed = [c \in Calls |-> FALSE]
    /\ \E d \in Disks :
         /\ dir = [p \in Paths |-> IF p \in DOMAIN d THEN p ELSE NoInode]
         /\ data = [i \in Inodes |-> IF i \in DOMAIN d THEN d[i] ELSE <<>>]
         /\ synced = [i \in Inodes |-> IF i \in DOMAIN d THEN Len(d[i]) ELSE 0]
    /\ unlinkFailed = {} /\ crashes = 0

----------------------------------------------------------------------------
(* Leaving a call                                                          *)

\* Return e with nothing to drop that touches the file system.
Return(c, e) ==
    /\ pc' = [pc EXCEPT ![c] = "done"]
    /\ res' = [res EXCEPT ![c] = e]

\* Return e while the output file, or the armed TempCleanup, is alive.
Unwind(c, e) ==
    /\ pc' = [pc EXCEPT ![c] = "drop"]
    /\ res' = [res EXCEPT ![c] = e]
    /\ due' = [due EXCEPT ![c] = 0]
    /\ UNCHANGED <<arg, readVars, strmVars, fout, woff, wbuf, armed, fsVars, histVars, cryptoVars>>

----------------------------------------------------------------------------
(* Starting                                                                *)

\* An empty or too long identifier is refused before randomness, crypto and file I/O.
StartRejected(c) ==
    /\ pc[c] = "idle"
    /\ \E r \in Requests :
         /\ ~Usable(r.id)
         /\ arg' = [arg EXCEPT ![c] = r]
    /\ Return(c, "InvalidContext")
    /\ UNCHANGED <<readVars, strmVars, outVars, fsVars, histVars, cryptoVars>>

StartDecrypt(c) ==
    /\ pc[c] = "idle"
    /\ \E r \in Requests :
         /\ r.op = "decrypt" /\ Usable(r.id)
         /\ arg' = [arg EXCEPT ![c] = r]
    /\ pc' = [pc EXCEPT ![c] = "open"]
    /\ UNCHANGED <<res, readVars, strmVars, outVars, fsVars, histVars, cryptoVars>>

\* encrypt_file_chunked draws data key, prefix and wrap IV and wraps the key
\* before it opens anything.
StartEncrypt(c) ==
    /\ pc[c] = "idle"
    /\ \E r \in Requests, k \in DataKeys, p \in NoncePrefixes :
         /\ r.op = "encrypt" /\ Usable(r.id)
         /\ bind[k] = NoBind
         /\ arg' = [arg EXCEPT ![c] = r]
         /\ dk' = [dk EXCEPT ![c] = k]
         /\ prefix' = [prefix EXCEPT ![c] = [prefix |-> p]]
         /\ bind' = [bind EXCEPT ![k] = Wrap(r.wk, r.id, [prefix |-> p])]
    /\ pc' = [pc EXCEPT ![c] = "open"]
    /\ UNCHANGED <<res, readVars, ctr, outVars, fsVars, histVars, seals>>

\* The OS random source fails.
StartNoRandomness(c) ==
    /\ pc[c] = "idle"
    /\ \E r \in Requests :
         /\ r.op = "encrypt" /\ Usable(r.id)
         /\ arg' = [arg EXCEPT ![c] = r]
    /\ Return(c, "Randomness")
    /\ UNCHANGED <<readVars, strmVars, outVars, fsVars, histVars, cryptoVars>>

Start(c) ==
    StartRejected(c) \/ StartDecrypt(c) \/ StartEncrypt(c) \/ StartNoRandomness(c)

----------------------------------------------------------------------------
(* Reading                                                                 *)

OpenInput(c) ==
    /\ pc[c] = "open"
    /\ dir[arg[c].in] # NoInode
    /\ fin' = [fin EXCEPT ![c] = dir[arg[c].in]]
    /\ pc' = [pc EXCEPT ![c] = IF Enc(c) THEN "create" ELSE "header"]
    /\ UNCHANGED <<arg, res, pos, buf, pending, strmVars, outVars, fsVars, histVars, cryptoVars>>

\* One read() of read_full or of read_exact: any positive number of bytes.
Read(c) ==
    /\ pc[c] \in {"header", "read"} /\ due[c] = 0
    /\ \E n \in 1 .. Want(c) - Len(buf[c]) :
         /\ pos[c] + n <= Len(data[fin[c]])
         /\ buf' = [buf EXCEPT ![c] = @ \o SubSeq(data[fin[c]], pos[c] + 1, pos[c] + n)]
         /\ pos' = [pos EXCEPT ![c] = @ + n]
    /\ UNCHANGED <<ctlVars, fin, pending, strmVars, outVars, fsVars, histVars, cryptoVars>>

\* Mutant: a short read is taken for the end of the file.
ReadDoneShort(c) ==
    buf[c] # <<>> \/ pos[c] >= Len(data[fin[c]])

\* The buffer is full, or read() returned 0.
ReadDone(c) ==
    Len(buf[c]) = Want(c) \/ pos[c] >= Len(data[fin[c]])

\* Mutant: read_full retries when read() returns 0.
ReadFullSpins(c) ==
    /\ pc[c] = "read" /\ due[c] = 0
    /\ ReadDone(c)
    /\ pc' = [pc EXCEPT ![c] = IF Len(buf[c]) < Want(c) THEN "read"
                               ELSE IF pending[c] # <<>> THEN "pend" ELSE "tail"]
    /\ UNCHANGED <<arg, res, readVars, strmVars, outVars, fsVars, histVars, cryptoVars>>

\* read_full returns to the main loop.
ReadFull(c) ==
    /\ pc[c] = "read" /\ due[c] = 0
    /\ ReadDone(c)
    /\ pc' = [pc EXCEPT ![c] = IF pending[c] # <<>> THEN "pend" ELSE "tail"]
    /\ UNCHANGED <<arg, res, readVars, strmVars, outVars, fsVars, histVars, cryptoVars>>

\* decrypt_file_chunked checks version and chunk size and unwraps the key.
ParseHeader(c) ==
    /\ pc[c] = "header"
    /\ Len(buf[c]) = HEADER_LEN
    /\ \E k \in DataKeys :
         /\ HeaderOpens(k, buf[c], arg[c].wk, arg[c].id)
         /\ dk' = [dk EXCEPT ![c] = k]
    /\ prefix' = [prefix EXCEPT ![c] = buf[c][3]]
    /\ buf' = [buf EXCEPT ![c] = <<>>]
    /\ pc' = [pc EXCEPT ![c] = "temp"]
    /\ UNCHANGED <<arg, res, fin, pos, pending, ctr, outVars, fsVars, histVars, cryptoVars>>

RejectHeader(c) ==
    /\ pc[c] = "header"
    /\ Len(buf[c]) = HEADER_LEN
    /\ \A k \in DataKeys : ~HeaderOpens(k, buf[c], arg[c].wk, arg[c].id)
    /\ Return(c, "Aead")
    /\ UNCHANGED <<arg, readVars, strmVars, outVars, fsVars, histVars, cryptoVars>>

\* There is no input file, or it ends inside the header (read_exact).
UnusableInput(c) ==
    /\ \/ pc[c] = "open" /\ dir[arg[c].in] = NoInode
       \/ /\ pc[c] = "header"
          /\ Len(buf[c]) < HEADER_LEN /\ pos[c] >= Len(data[fin[c]])
    /\ Return(c, "Io")
    /\ UNCHANGED <<arg, readVars, strmVars, outVars, fsVars, histVars, cryptoVars>>

\* The system fails to open or read the input, or to create the output of an
\* encryption.
EarlyIoError(c) ==
    /\ pc[c] \in {"open", "create", "header"}
    /\ Return(c, "Io")
    /\ UNCHANGED <<arg, readVars, strmVars, outVars, fsVars, histVars, cryptoVars>>

----------------------------------------------------------------------------
(* Writing                                                                 *)

\* std::fs::File::create: a new inode, or the existing one truncated.
CreateFile(c, p) ==
    LET i == IF dir[p] = NoInode THEN c ELSE dir[p]
    IN  /\ dir' = [dir EXCEPT ![p] = i]
        /\ data' = [data EXCEPT ![i] = <<>>]
        /\ synced' = [synced EXCEPT ![i] = 0]
        /\ fout' = [fout EXCEPT ![c] = i]

\* encrypt_file_chunked creates its output in place; the header fits the
\* empty BufWriter.
CreateOutput(c) ==
    /\ pc[c] = "create"
    /\ CreateFile(c, arg[c].out)
    /\ wbuf' = [wbuf EXCEPT ![c] = WriteHeader(dk[c], prefix[c])]
    /\ pc' = [pc EXCEPT ![c] = "read"]
    /\ UNCHANGED <<arg, res, readVars, strmVars, woff, due, armed, histVars, cryptoVars>>

\* Mutant: an existing output is removed before the new one is ready.
CreateTempClearsOutput(c) ==
    /\ pc[c] = "temp"
    /\ armed' = [armed EXCEPT ![c] = TRUE]
    /\ dir' = [dir EXCEPT ![TempOf(c)] = c, ![arg[c].out] = NoInode]
    /\ fout' = [fout EXCEPT ![c] = c]
    /\ pc' = [pc EXCEPT ![c] = "read"]
    /\ UNCHANGED <<arg, res, readVars, strmVars, woff, wbuf, due, data, synced, histVars, cryptoVars>>

\* Mutant: the plaintext is written straight to the output.
CreateTempInPlace(c) ==
    /\ pc[c] = "temp"
    /\ armed' = [armed EXCEPT ![c] = TRUE]
    /\ CreateFile(c, arg[c].out)
    /\ pc' = [pc EXCEPT ![c] = "read"]
    /\ UNCHANGED <<arg, res, readVars, strmVars, woff, wbuf, due, histVars, cryptoVars>>

\* decrypt_file_chunked arms the cleanup and creates its temporary file.
CreateTemp(c) ==
    /\ pc[c] = "temp"
    /\ armed' = [armed EXCEPT ![c] = TRUE]
    /\ CreateFile(c, TempOf(c))
    /\ pc' = [pc EXCEPT ![c] = "read"]
    /\ UNCHANGED <<arg, res, readVars, strmVars, woff, wbuf, due, histVars, cryptoVars>>

\* No random suffix, or no file name in the output path.
NoTempPath(c) ==
    /\ pc[c] = "temp"
    /\ \E e \in {"Randomness", "Io"} : Return(c, e)
    /\ UNCHANGED <<arg, readVars, strmVars, outVars, fsVars, histVars, cryptoVars>>

\* File::create(&tmp) fails with the cleanup armed.
CreateTempFails(c) ==
    /\ pc[c] = "temp"
    /\ pc' = [pc EXCEPT ![c] = "drop"]
    /\ res' = [res EXCEPT ![c] = "Io"]
    /\ armed' = [armed EXCEPT ![c] = TRUE]
    /\ UNCHANGED <<arg, readVars, strmVars, fout, woff, wbuf, due, fsVars, histVars, cryptoVars>>

\* pwrite of bs at offset o of d, a hole before it if d is shorter.
WriteAt(d, o, bs) ==
    [j \in 1 .. (IF Len(d) > o + Len(bs) THEN Len(d) ELSE o + Len(bs)) |->
        IF j > o /\ j <= o + Len(bs) THEN bs[j - o]
        ELSE IF j <= Len(d) THEN d[j] ELSE Zero]

\* n bytes of the BufWriter of c reach its file.
PushBytes(c, n) ==
    /\ data' = [data EXCEPT ![fout[c]] = WriteAt(@, woff[c], SubSeq(wbuf[c], 1, n))]
    /\ synced' = [synced EXCEPT ![fout[c]] = IF @ > woff[c] THEN woff[c] ELSE @]
    /\ woff' = [woff EXCEPT ![c] = @ + n]

\* Mutant: a write() counts as having written the whole buffer.
PushCountsAll(c) ==
    /\ due[c] > 0
    /\ \E n \in 1 .. due[c] :
         /\ PushBytes(c, n)
         /\ wbuf' = [wbuf EXCEPT ![c] = SubSeq(@, n + 1, Len(@))]
         /\ due' = [due EXCEPT ![c] = @ - Len(wbuf[c])]
    /\ UNCHANGED <<ctlVars, readVars, strmVars, fout, armed, dir, histVars, cryptoVars>>

\* One write() of write_all or of flush: due[c] bytes must reach the file
\* before the call goes on.
Push(c) ==
    /\ due[c] > 0
    /\ \E n \in 1 .. due[c] :
         /\ PushBytes(c, n)
         /\ wbuf' = [wbuf EXCEPT ![c] = SubSeq(@, n + 1, Len(@))]
         /\ due' = [due EXCEPT ![c] = @ - n]
    /\ UNCHANGED <<ctlVars, readVars, strmVars, fout, armed, dir, histVars, cryptoVars>>

\* write_all of a full chunk: larger than the BufWriter, it goes through.
WriteThrough(c, bytes) ==
    /\ wbuf' = [wbuf EXCEPT ![c] = @ \o bytes]
    /\ due' = [due EXCEPT ![c] = Len(wbuf[c]) + Len(bytes)]

\* write_all of a remainder: it fits beside what is buffered, fits once that
\* is written, or goes through.
WriteRemainder(c, bytes) ==
    /\ wbuf' = [wbuf EXCEPT ![c] = @ \o bytes]
    /\ \E n \in {0, Len(wbuf[c]), Len(wbuf[c]) + Len(bytes)} :
         due' = [due EXCEPT ![c] = n]

----------------------------------------------------------------------------
(* The main loop                                                           *)

\* Mutant: segments are sealed without the identifier.
SealNextNoId(c, last, msg) ==
    seals' = [seals EXCEPT ![dk[c]] =
                 Sealed(@, prefix[c], last, BlobSegmentAad(<<>>), msg)]

\* Mutant: the terminal segment is sealed like any other.
SealNextNeverLast(c, last, msg) ==
    seals' = [seals EXCEPT ![dk[c]] =
                 Sealed(@, prefix[c], FALSE, BlobSegmentAad(arg[c].id), msg)]

\* encrypt_next or encrypt_last of msg on the stream of c.
SealNext(c, last, msg) ==
    seals' = [seals EXCEPT ![dk[c]] =
                 Sealed(@, prefix[c], last, BlobSegmentAad(arg[c].id), msg)]

EncryptNext(c) ==
    /\ pc[c] = "pend" /\ Enc(c)
    /\ ctr[c] # COUNTER_MAX
    /\ SealNext(c, FALSE, pending[c])
    /\ WriteThrough(c, SealBytes(dk[c], ctr[c], Len(pending[c])))
    /\ ctr' = [ctr EXCEPT ![c] = @ + 1]
    /\ pending' = [pending EXCEPT ![c] = <<>>]
    /\ pc' = [pc EXCEPT ![c] = "tail"]
    /\ UNCHANGED <<arg, res, fin, pos, buf, dk, prefix, fout, woff, armed, fsVars, histVars, bind>>

DecryptNext(c) ==
    /\ pc[c] = "pend" /\ Dec(c)
    /\ Opens(dk[c], prefix[c], ctr[c], FALSE, BlobSegmentAad(arg[c].id), pending[c])
    /\ WriteThrough(c, Opened(dk[c], ctr[c]))
    /\ ctr' = [ctr EXCEPT ![c] = @ + 1]
    /\ pending' = [pending EXCEPT ![c] = <<>>]
    /\ pc' = [pc EXCEPT ![c] = "tail"]
    /\ UNCHANGED <<arg, res, fin, pos, buf, dk, prefix, fout, woff, armed, fsVars, histVars, cryptoVars>>

EncryptLast(c) ==
    /\ pc[c] = "tail" /\ due[c] = 0 /\ Enc(c)
    /\ Len(buf[c]) < BufLen(c)
    /\ SealNext(c, TRUE, buf[c])
    /\ WriteRemainder(c, SealBytes(dk[c], ctr[c], Len(buf[c])))
    /\ ctr' = [ctr EXCEPT ![c] = @ + 1]
    /\ buf' = [buf EXCEPT ![c] = <<>>]
    /\ pc' = [pc EXCEPT ![c] = "flush"]
    /\ UNCHANGED <<arg, res, fin, pos, pending, dk, prefix, fout, woff, armed, fsVars, histVars, bind>>

\* Mutant: an input that ends on a chunk boundary needs no terminal segment.
DecryptLastSkipsEmpty(c) ==
    /\ pc[c] = "tail" /\ due[c] = 0 /\ Dec(c)
    /\ Len(buf[c]) < BufLen(c)
    /\ \/ buf[c] = <<>> /\ UNCHANGED <<wbuf, due>>
       \/ /\ Opens(dk[c], prefix[c], ctr[c], TRUE, BlobSegmentAad(arg[c].id), buf[c])
          /\ WriteRemainder(c, Opened(dk[c], ctr[c]))
    /\ ctr' = [ctr EXCEPT ![c] = @ + 1]
    /\ buf' = [buf EXCEPT ![c] = <<>>]
    /\ pc' = [pc EXCEPT ![c] = "flush"]
    /\ UNCHANGED <<arg, res, fin, pos, pending, dk, prefix, fout, woff, armed, fsVars, histVars, cryptoVars>>

DecryptLast(c) ==
    /\ pc[c] = "tail" /\ due[c] = 0 /\ Dec(c)
    /\ Len(buf[c]) < BufLen(c)
    /\ Opens(dk[c], prefix[c], ctr[c], TRUE, BlobSegmentAad(arg[c].id), buf[c])
    /\ WriteRemainder(c, Opened(dk[c], ctr[c]))
    /\ ctr' = [ctr EXCEPT ![c] = @ + 1]
    /\ buf' = [buf EXCEPT ![c] = <<>>]
    /\ pc' = [pc EXCEPT ![c] = "flush"]
    /\ UNCHANGED <<arg, res, fin, pos, pending, dk, prefix, fout, woff, armed, fsVars, histVars, cryptoVars>>

\* Mutant: a full buffer is dropped.
HoldChunkForgets(c) ==
    /\ pc[c] = "tail" /\ due[c] = 0
    /\ Len(buf[c]) = BufLen(c)
    /\ buf' = [buf EXCEPT ![c] = <<>>]
    /\ pc' = [pc EXCEPT ![c] = "read"]
    /\ UNCHANGED <<arg, res, fin, pos, pending, strmVars, outVars, fsVars, histVars, cryptoVars>>

\* A full buffer is held back: it is the last chunk only if nothing follows.
HoldChunk(c) ==
    /\ pc[c] = "tail" /\ due[c] = 0
    /\ Len(buf[c]) = BufLen(c)
    /\ pending' = [pending EXCEPT ![c] = buf[c]]
    /\ buf' = [buf EXCEPT ![c] = <<>>]
    /\ pc' = [pc EXCEPT ![c] = "read"]
    /\ UNCHANGED <<arg, res, fin, pos, strmVars, outVars, fsVars, histVars, cryptoVars>>

\* A segment does not authenticate, or the STREAM counter is used up.
SegmentError(c) ==
    /\ \/ pc[c] = "pend" /\ Enc(c) /\ ctr[c] = COUNTER_MAX
       \/ /\ pc[c] = "pend" /\ Dec(c)
          /\ ~Opens(dk[c], prefix[c], ctr[c], FALSE, BlobSegmentAad(arg[c].id), pending[c])
       \/ /\ pc[c] = "tail" /\ due[c] = 0 /\ Dec(c)
          /\ Len(buf[c]) < BufLen(c)
          /\ ~Opens(dk[c], prefix[c], ctr[c], TRUE, BlobSegmentAad(arg[c].id), buf[c])
    /\ Unwind(c, "Aead")

----------------------------------------------------------------------------
(* Finishing                                                               *)

Flush(c) ==
    /\ pc[c] = "flush" /\ due[c] = 0
    /\ due' = [due EXCEPT ![c] = Len(wbuf[c])]
    /\ pc' = [pc EXCEPT ![c] = IF Enc(c) THEN "finish" ELSE "sync"]
    /\ UNCHANGED <<arg, res, readVars, strmVars, fout, woff, wbuf, armed, fsVars, histVars, cryptoVars>>

\* encrypt_file_chunked returns; its output was flushed, never synced.
Finish(c) ==
    /\ pc[c] = "finish" /\ due[c] = 0
    /\ Return(c, "Ok")
    /\ UNCHANGED <<arg, readVars, strmVars, outVars, fsVars, histVars, cryptoVars>>

\* Mutant: the temporary file is renamed without sync_all.
SyncAllSkipped(c) ==
    /\ pc[c] = "sync" /\ due[c] = 0
    /\ pc' = [pc EXCEPT ![c] = "rename"]
    /\ UNCHANGED <<arg, res, readVars, strmVars, outVars, fsVars, histVars, cryptoVars>>

SyncAll(c) ==
    /\ pc[c] = "sync" /\ due[c] = 0
    /\ synced' = [synced EXCEPT ![fout[c]] = Len(data[fout[c]])]
    /\ pc' = [pc EXCEPT ![c] = "rename"]
    /\ UNCHANGED <<arg, res, readVars, strmVars, outVars, dir, data, histVars, cryptoVars>>

\* The temporary file replaces the output, the cleanup is disarmed.
Rename(c) ==
    /\ pc[c] = "rename"
    /\ dir[TempOf(c)] # NoInode
    /\ dir' = [dir EXCEPT ![arg[c].out] = dir[TempOf(c)], ![TempOf(c)] = NoInode]
    /\ armed' = [armed EXCEPT ![c] = FALSE]
    /\ Return(c, "Ok")
    /\ UNCHANGED <<arg, readVars, strmVars, fout, woff, wbuf, due, data, synced, histVars, cryptoVars>>

\* A read, write, flush, sync or rename fails once the output file exists.
IoError(c) ==
    /\ \/ due[c] > 0
       \/ pc[c] \in {"read", "sync", "rename"}
    /\ pc[c] # "drop"
    /\ Unwind(c, "Io")

\* Mutant: nothing removes the temporary file of a failed call.
DropKeepsTemp(c) ==
    /\ pc[c] = "drop"
    /\ pc' = [pc EXCEPT ![c] = "done"]
    /\ UNCHANGED <<arg, res, readVars, strmVars, outVars, fsVars, histVars, cryptoVars>>

\* The locals of a failed call are dropped: the BufWriter tries to flush,
\* then TempCleanup, if armed, removes the temporary file; both best effort.
Drop(c) ==
    /\ pc[c] = "drop"
    /\ IF fout[c] = NoInode
       THEN UNCHANGED <<data, synced, woff>>
       ELSE \E n \in 0 .. Len(wbuf[c]) : PushBytes(c, n)
    /\ wbuf' = [wbuf EXCEPT ![c] = <<>>]
    /\ armed' = [armed EXCEPT ![c] = FALSE]
    /\ \/ /\ dir' = IF armed[c] THEN [dir EXCEPT ![TempOf(c)] = NoInode] ELSE dir
          /\ UNCHANGED unlinkFailed
       \/ /\ armed[c]
          /\ unlinkFailed' = unlinkFailed \cup {c}
          /\ UNCHANGED dir
    /\ pc' = [pc EXCEPT ![c] = "done"]
    /\ UNCHANGED <<arg, res, readVars, strmVars, fout, due, crashes, cryptoVars>>

----------------------------------------------------------------------------
(* Crashes                                                                 *)

Active(c) == pc[c] \notin {"idle", "done", "dead"}

\* Inodes with data the disk may not have.
Dirty == {i \in Inodes : synced[i] < Len(data[i])}

\* The process or the machine stops.  A dirty inode keeps any prefix not
\* shorter than what was synced; the rest is gone or reads as a hole.
Crash ==
    /\ crashes < MaxCrashes
    /\ \E c \in Calls : Active(c)
    /\ crashes' = crashes + 1
    /\ pc' = [c \in Calls |-> IF Active(c) THEN "dead" ELSE pc[c]]
    /\ buf' = [c \in Calls |-> <<>>] /\ pending' = [c \in Calls |-> <<>>]
    /\ wbuf' = [c \in Calls |-> <<>>] /\ due' = [c \in Calls |-> 0]
    /\ \E holes \in SUBSET Dirty :
       \E keep \in [Dirty -> UNION {synced[i] .. Len(data[i]) : i \in Dirty}] :
         /\ \A i \in Dirty : synced[i] <= keep[i] /\ keep[i] <= Len(data[i])
         /\ data' = [i \in Inodes |->
                IF i \notin Dirty THEN data[i]
                ELSE IF i \in holes
                THEN [j \in 1 .. Len(data[i]) |-> IF j <= keep[i] THEN data[i][j] ELSE Zero]
                ELSE SubSeq(data[i], 1, keep[i])]
         /\ synced' = [i \in Inodes |-> Len(data'[i])]
    /\ UNCHANGED <<arg, res, fin, pos, strmVars, fout, woff, armed, dir, unlinkFailed, cryptoVars>>

----------------------------------------------------------------------------
\* The steps of a started call that no failing system call causes.
Advance(c) ==
    \/ OpenInput(c) \/ UnusableInput(c) \/ Read(c) \/ ReadFull(c)
    \/ ParseHeader(c) \/ RejectHeader(c) \/ CreateOutput(c) \/ CreateTemp(c)
    \/ EncryptNext(c) \/ DecryptNext(c) \/ EncryptLast(c) \/ DecryptLast(c)
    \/ HoldChunk(c) \/ SegmentError(c) \/ Push(c) \/ Flush(c) \/ Finish(c)
    \/ SyncAll(c) \/ Rename(c) \/ Drop(c)

\* A system call or the random source fails.
Fault(c) ==
    EarlyIoError(c) \/ NoTempPath(c) \/ CreateTempFails(c) \/ IoError(c)

\* Every call has returned or died with its process.
Terminated ==
    /\ \A c \in Calls : pc[c] \in {"done", "dead"}
    /\ UNCHANGED vars

Next ==
    \/ \E c \in Calls : Start(c) \/ Advance(c) \/ Fault(c)
    \/ Crash
    \/ Terminated

Spec == Init /\ [][Next]_vars

\* A started call is scheduled until it returns; nothing has to fail.
FairSpec == Spec /\ \A c \in Calls : WF_vars(Advance(c))

----------------------------------------------------------------------------
(* Properties                                                              *)

TypeOK ==
    /\ bind \in [DataKeys -> WrapRecord \cup {NoBind}]
    /\ seals \in [DataKeys -> Seq(SealRecord)]
    /\ pc \in [Calls -> {"idle", "open", "create", "header", "temp", "read", "pend",
                         "tail", "flush", "finish", "sync", "rename", "drop",
                         "done", "dead"}]
    /\ arg \in [Calls -> Requests \cup {NoCall}]
    /\ res \in [Calls -> {"none", "Ok", "Io", "Aead", "InvalidContext", "Randomness"}]
    /\ fin \in [Calls -> Inodes \cup {NoInode}] /\ pos \in [Calls -> Nat]
    /\ buf \in [Calls -> Seq(Cell)] /\ pending \in [Calls -> Seq(Cell)]
    /\ dk \in [Calls -> DataKeys \cup {NoKey}]
    /\ prefix \in [Calls -> Cell] /\ ctr \in [Calls -> Nat]
    /\ fout \in [Calls -> Inodes \cup {NoInode}] /\ woff \in [Calls -> Nat]
    /\ wbuf \in [Calls -> Seq(Cell)] /\ due \in [Calls -> Nat]
    /\ armed \in [Calls -> BOOLEAN]
    /\ dir \in [Paths -> Inodes \cup {NoInode}]
    /\ data \in [Inodes -> Seq(Cell)] /\ synced \in [Inodes -> Nat]
    /\ unlinkFailed \subseteq Calls /\ crashes \in 0 .. MaxCrashes

\* The blob call c opened: wrapped under the caller's key for the caller's
\* identifier, and finished by its encoder.
Authentic(c) ==
    /\ bind[dk[c]] = Wrap(arg[c].wk, arg[c].id, prefix[c])
    /\ Complete(seals[dk[c]])

\* "a file exists at `output` iff it is complete, fully authenticated
\* plaintext" (decrypt_file_chunked): whatever is rewritten under the reader,
\* fails or crashes, the file at a decryption output is the one that was there
\* before any call, or the whole plaintext of one complete blob bound to the
\* identifier and key of the call that put it there, and that call succeeded.
OutputAuthentic ==
    \A p \in DecOut :
        \/ dir[p] \in {NoInode, p}
        \/ \E c \in Calls :
             /\ dir[p] = c
             /\ arg[c].out = p /\ Dec(c) /\ res[c] = "Ok"
             /\ Authentic(c)
             /\ data[c] = Plain(seals[dk[c]])

Content(p) == IF dir[p] = NoInode THEN NoInode ELSE data[dir[p]]

\* A step leaves the file at p alone, or publishes it.
KeptOrPublished(p) ==
    \/ Content(p)' = Content(p)
    \/ \E c \in Calls : /\ res[c] = "none" /\ res'[c] = "Ok"
                         /\ arg[c].out = p

\* "`output` is left untouched" on failure: a decryption output changes, in
\* existence or content, only in the step in which a decryption to it returns
\* Ok; no failure, clean-up, crash or other call touches it.
OutputUntouched == [][\A p \in DecOut : KeptOrPublished(p)]_vars

\* Temporary files do not accumulate, and a wrong key leaves none: one exists
\* only for a call that has unwrapped its data key and is still running, was
\* killed by a crash, or failed and then failed to remove it.
TempAccounted ==
    \A t \in Temps :
        dir[t] = NoInode
        \/ /\ bind[dk[t[2]]] = Wrap(arg[t[2]].wk, arg[t[2]].id, prefix[t[2]])
           /\ \/ Active(t[2]) /\ armed[t[2]]
              \/ pc[t[2]] = "dead"
              \/ t[2] \in unlinkFailed /\ res[t[2]] # "Ok"

\* No other call writes the inode.
Undisturbed(i, c) == \A d \in Calls \ {c} : fout[d] # i

\* "Framing must be byte-identical to `encrypt_file_chunked`": an encryption
\* with no other writer of its two files seals what the in-memory encoder seals
\* of the whole input (the same messages with the same AAD, each at the same
\* position of the stream and the same one as the last) and leaves them framed
\* as that one frames them, at chunk boundaries and with short reads too; it
\* runs out of STREAM positions exactly when that one does.  Under one key and
\* prefix equal seals are equal ciphertext bytes.
FramingIdentical ==
    \A c \in Calls :
        (/\ pc[c] = "done" /\ Enc(c) /\ fout[c] # NoInode /\ crashes = 0
         /\ Undisturbed(fin[c], c) /\ Undisturbed(fout[c], c) /\ fin[c] # fout[c])
        => LET m == EncryptChunked(data[fin[c]], arg[c].id, dk[c], prefix[c])
           IN  /\ res[c] = "Ok" =>
                     /\ m = Ok(data[fout[c]])
                     /\ seals[dk[c]] = ChunkedSeals(data[fin[c]], arg[c].id, prefix[c])
               /\ res[c] = "Aead" => m = Err("Aead")

\* Two calls end to end: a decryption that published the blob of an encryption
\* whose source nobody rewrote asked for the same identifier under the same
\* key, and published exactly that source, never a shortened one, although the
\* encryption may have failed or died with its output half written.
RoundTrip ==
    \A e, d \in Calls :
        (/\ arg[e] # NoCall /\ Enc(e) /\ fin[e] # NoInode
         /\ Undisturbed(fin[e], e) /\ fin[e] # fout[e]
         /\ res[d] = "Ok" /\ Dec(d) /\ dk[d] = dk[e])
        => /\ arg[d].id = arg[e].id /\ arg[d].wk = arg[e].wk
           /\ data[d] = data[fin[e]]

\* The streaming decoder agrees with the in-memory one on every input nobody
\* rewrites: it publishes the same plaintext, and it reports a bad blob only
\* if the in-memory decoder does, so an intact blob is never called corrupt.
StreamingMatchesMemory ==
    \A c \in Calls :
        (pc[c] = "done" /\ Dec(c) /\ fin[c] # NoInode /\ Undisturbed(fin[c], c))
        => LET m == DecryptChunked(data[fin[c]], arg[c].wk, arg[c].id)
           IN  /\ res[c] = "Ok" => m = Ok(data[c])
               /\ res[c] = "Aead" => m = Err("Aead")

\* The in-memory decoder accepts no file unless it is one complete blob bound
\* to the given key and identifier, and then returns exactly its plaintext.
MemoryAuthentic ==
    \A f \in Files, wk \in WrapKeys, id \in BlobIds :
        dir[f] # NoInode =>
            LET m == DecryptChunked(data[dir[f]], wk, id)
            IN  m.res = "Ok" =>
                  \E k \in DataKeys :
                      /\ Complete(seals[k])
                      /\ bind[k] = Wrap(wk, id, data[dir[f]][3])
                      /\ data[dir[f]] = Framed(k, data[dir[f]][3], seals[k])
                      /\ m.out = Plain(seals[k])

\* Every blob either encoder completes can be read back by the in-memory
\* decoder with the key and identifier it was made for.
BlobsDecode ==
    \A k \in DataKeys, wk \in WrapKeys, id \in BlobIds, p \in NoncePrefixes :
        (Complete(seals[k]) /\ bind[k] = Wrap(wk, id, [prefix |-> p]))
        => DecryptChunked(Framed(k, [prefix |-> p], seals[k]), wk, id)
             = Ok(Plain(seals[k]))

\* How far a decryption is, as its caller sees it.
Status(c) ==
    IF arg[c] = NoCall THEN "idle"
    ELSE IF Enc(c) THEN "idle"
    ELSE IF res[c] = "Ok" THEN "ok"
    ELSE IF res[c] # "none" THEN "failed"
    ELSE IF pc[c] = "dead" THEN "killed" ELSE "running"

\* The complete blobs: key, identifier and plaintext.
Made ==
    {m \in [wk : WrapKeys, id : BlobIds, plain : {Plain(seals[k]) : k \in DataKeys}] :
        \E k \in DataKeys, cell \in PrefixCell :
            /\ Complete(seals[k]) /\ m.plain = Plain(seals[k])
            /\ bind[k] = Wrap(m.wk, m.id, cell)}

Atomic == INSTANCE AtomicOutput WITH
    file   <- [p \in DecOut |-> Content(p)],
    req    <- [c \in Calls |-> IF Status(c) = "idle" THEN NoCall ELSE arg[c]],
    status <- [c \in Calls |-> Status(c)],
    made   <- Made

\* "Atomic with respect to `output`": temporary files, segments, buffers,
\* failures and crashes included, decryptions behave like calls that replace
\* their output in one step by an authentic plaintext, or do nothing.
DecryptIsAtomic == Atomic!Spec

\* Every call returns unless a crash ends it: the read loop stops at the end
\* of the input even when the file grows under it, and every error path
\* leads out.
CallReturns ==
    \A c \in Calls : pc[c] = "open" ~> pc[c] \in {"done", "dead"}
=============================================================================
