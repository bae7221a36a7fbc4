--------------------------- MODULE BlobFileProofs ---------------------------
(***************************************************************************)
(* Proofs about BlobFile: the inductive invariant IndInv and what follows  *)
(* from it for every number of calls, files, keys, chunk sizes and crashes.*)
(***************************************************************************)
EXTENDS BlobFile, SequenceTheorems, TLAPS

----------------------------------------------------------------------------
(* The inductive invariant                                                 *)

\* Control points before a call has created a file, and with it open.
Early   == {"idle", "open", "create", "header", "temp"}
Writing == {"read", "pend", "tail", "flush", "finish", "sync", "rename"}

\* Locals of a call at each control point.
CallInv(c) ==
    /\ pc[c] # "idle" => arg[c] \in Requests
    /\ pc[c] = "idle" => arg[c] = NoCall
    /\ pc[c] \in Early =>
         /\ fout[c] = NoInode /\ wbuf[c] = <<>> /\ woff[c] = 0
         /\ ctr[c] = 0 /\ armed[c] = FALSE
    /\ pc[c] \in Early \cup Writing => res[c] = "none"
    /\ pc[c] \in {"create", "header", "temp"} \cup Writing => fin[c] \in Inodes
    /\ pc[c] \in Writing => fout[c] \in Inodes
    /\ pc[c] \notin Writing \ {"rename"} => due[c] = 0
    /\ due[c] <= Len(wbuf[c])
    /\ pc[c] \in {"create", "finish"} => Enc(c)
    /\ pc[c] \in {"header", "temp", "sync", "rename"} => Dec(c)
    /\ pc[c] \in {"drop", "dead"} => res[c] # "Ok"
    /\ pc[c] \in {"drop", "done"} => res[c] # "none"

\* c holds an encryptor that can still seal.
Sealing(c) == pc[c] \in {"open", "create", "read", "pend", "tail"} /\ Enc(c)

\* Each live encryptor has a data key of its own, whose stream is open.
SealInv ==
    /\ \A k \in DataKeys : SealChain(seals[k]) /\ (bind[k] = NoBind => seals[k] = <<>>)
    /\ \A c \in Calls : Sealing(c) =>
         dk[c] \in DataKeys /\ bind[dk[c]] # NoBind /\ ~Complete(seals[dk[c]])
    /\ \A c, d \in Calls : Sealing(c) /\ Sealing(d) /\ c # d => dk[c] # dk[d]

\* An inode that only encryptions write.
EncInode(i) == i \in EncOut \/ (i \in Calls /\ arg[i] \in Requests /\ Enc(i))

\* c has unwrapped the data key of the blob it reads.
Unwrapped(c) ==
    /\ dk[c] \in DataKeys /\ bind[dk[c]] # NoBind /\ prefix[c] \in PrefixCell
    /\ bind[dk[c]] = Wrap(arg[c].wk, arg[c].id, prefix[c])

\* The file of c is the whole plaintext of the blob it opened, and durable.
Published(c, p) ==
    /\ pc[c] = "done" /\ res[c] = "Ok" /\ Dec(c) /\ arg[c].out = p
    /\ Unwrapped(c) /\ Complete(seals[dk[c]])
    /\ data[c] = Plain(seals[dk[c]]) /\ synced[c] = Len(data[c])

\* An encryption writes encryption inodes only, a decryption only its own.
Owner(c) ==
    fout[c] # NoInode => (Enc(c) /\ EncInode(fout[c])) \/ (~Enc(c) /\ fout[c] = c)

\* Who owns which inode, and which inode each path can name.
OwnInv ==
    /\ \A c \in Calls : Owner(c)
    /\ \A p \in EncOut : dir[p] # NoInode => EncInode(dir[p])
    /\ \A p \in DecOut : dir[p] # NoInode =>
         dir[p] = p \/ (dir[p] \in Calls /\ Published(dir[p], p))
    /\ \A p \in DecOut : synced[p] = Len(data[p])

\* A temporary path names the inode of the decryption it belongs to.
TempInv ==
    \A o \in Files, c \in Calls : dir[<<o, c>>] # NoInode =>
        /\ dir[<<o, c>>] = c
        /\ arg[c] \in Requests /\ Dec(c) /\ arg[c].out = o
        /\ Unwrapped(c) /\ res[c] # "Ok"
        /\ \/ pc[c] \in Writing \cup {"drop"} /\ armed[c] = TRUE
           \/ pc[c] = "dead"
           \/ pc[c] = "done" /\ c \in unlinkFailed

\* The plaintext of the first n segments.
Upto(ss, n) == IF n = 0 THEN <<>> ELSE ss[n].upto

\* What a decryption has written and buffered is the plaintext of the
\* segments it has opened; it gets past the loop only on the terminal one.
Progress(c) ==
    /\ fout[c] = c /\ armed[c] = TRUE /\ dir[TempOf(c)] = c
    /\ woff[c] = Len(data[c])
    /\ ctr[c] <= Len(seals[dk[c]])
    /\ data[c] \o wbuf[c] = Upto(seals[dk[c]], ctr[c])
    /\ pc[c] \in {"flush", "sync", "rename"} =>
         Complete(seals[dk[c]]) /\ ctr[c] = Len(seals[dk[c]])
    /\ pc[c] = "sync" => due[c] = Len(wbuf[c])
    /\ pc[c] = "rename" => wbuf[c] = <<>> /\ synced[c] = Len(data[c])

\* A decryption has its key before it creates anything.
DecInv(c) ==
    /\ pc[c] = "temp" \/ (pc[c] \in Writing /\ Dec(c)) => Unwrapped(c)
    /\ pc[c] \in Writing /\ Dec(c) => Progress(c)

IndInv ==
    /\ TypeOK
    /\ \A c \in Calls : CallInv(c)
    /\ SealInv
    /\ OwnInv
    /\ TempInv
    /\ \A c \in Calls : DecInv(c)

----------------------------------------------------------------------------
(* Sequences                                                               *)

USE DEF ctlVars, readVars, strmVars, outVars, fsVars, histVars, cryptoVars

\* A beginning of a sequence is a sequence, and so is an end.
LEMMA SubSeqTyped ==
    ASSUME NEW S, NEW s \in Seq(S), NEW m \in Nat \ {0}, NEW n \in 0 .. Len(s)
    PROVE  SubSeq(s, m, n) \in Seq(S)
BY SubSeqProperties

\* Cutting a sequence in two loses nothing.
LEMMA CutAndJoin ==
    ASSUME NEW S, NEW s \in Seq(S), NEW n \in 0 .. Len(s)
    PROVE  /\ SubSeq(s, 1, n) \in Seq(S) /\ Len(SubSeq(s, 1, n)) = n
           /\ SubSeq(s, n + 1, Len(s)) \in Seq(S)
           /\ Len(SubSeq(s, n + 1, Len(s))) = Len(s) - n
           /\ SubSeq(s, 1, n) \o SubSeq(s, n + 1, Len(s)) = s
  <1>1. /\ SubSeq(s, 1, n) \in Seq(S) /\ Len(SubSeq(s, 1, n)) = n
        /\ \A i \in 1 .. n : SubSeq(s, 1, n)[i] = s[i]
    OBVIOUS
  <1>2. /\ SubSeq(s, n + 1, Len(s)) \in Seq(S)
        /\ Len(SubSeq(s, n + 1, Len(s))) = Len(s) - n
        /\ \A i \in 1 .. Len(s) - n : SubSeq(s, n + 1, Len(s))[i] = s[n + i]
    OBVIOUS
  <1>3. SubSeq(s, 1, n) \o SubSeq(s, n + 1, Len(s)) = s
    <2>1. 1 \in 1 .. Len(s) + 1 /\ n \in 1 - 1 .. Len(s) /\ Len(s) \in n .. Len(s)
      OBVIOUS
    <2>2. SubSeq(s, 1, n) \o SubSeq(s, n + 1, Len(s)) = SubSeq(s, 1, Len(s))
      BY <2>1, ConcatAdjacentSubSeq
    <2> QED BY <2>2, SubSeqFull
  <1> QED BY <1>1, <1>2, <1>3

\* write() keeps a file a sequence of cells, and at the end of the file it
\* appends.
LEMMA WriteAtTyped ==
    ASSUME NEW d \in Seq(Cell), NEW o \in Nat, NEW bs \in Seq(Cell)
    PROVE  WriteAt(d, o, bs) \in Seq(Cell)
  <1>1. Zero \in Cell BY ByteAssumption DEF Cell
  <1> QED BY <1>1 DEF WriteAt

\* A write() at the end of a file appends: it is how a BufWriter fills the
\* temporary file of decrypt_file_chunked.
LEMMA WriteAtEnd ==
    ASSUME NEW d \in Seq(Cell), NEW bs \in Seq(Cell)
    PROVE  WriteAt(d, Len(d), bs) = d \o bs
  <1>1. WriteAt(d, Len(d), bs) \in Seq(Cell) BY WriteAtTyped
  <1>2. Len(WriteAt(d, Len(d), bs)) = Len(d) + Len(bs) BY DEF WriteAt
  <1>3. \A j \in 1 .. Len(d) + Len(bs) : WriteAt(d, Len(d), bs)[j] = (d \o bs)[j]
    BY DEF WriteAt
  <1>4. d \o bs \in Seq(Cell) /\ Len(d \o bs) = Len(d) + Len(bs) OBVIOUS
  <1> QED BY <1>1, <1>2, <1>3, <1>4, SeqEqual

\* Headers and segments are made of cells.
LEMMA BytesTyped ==
    ASSUME NEW k \in DataKeys
    PROVE  /\ \A p \in Cell : WriteHeader(k, p) \in Seq(Cell)
           /\ \A i \in Nat, n \in Nat : SealBytes(k, i, n) \in Seq(Cell)
  <1>1. [ver |-> VERSION] \in Cell /\ [wrapped |-> k] \in Cell /\ [size |-> CHUNK_SIZE] \in Cell
    BY ChunkAssumption DEF Cell, VERSION
  <1>2. \A i \in Nat, j \in Nat : [key |-> k, ctr |-> i, pos |-> j] \in Cell
    BY DEF Cell
  <1>3. \A p \in Cell : WriteHeader(k, p) \in Seq(Cell)
    BY <1>1 DEF WriteHeader
  <1>4. \A i \in Nat, n \in Nat : SealBytes(k, i, n) \in Seq(Cell)
    BY <1>2, TagAssumption DEF SealBytes
  <1> QED BY <1>3, <1>4

----------------------------------------------------------------------------
(* Arguments and names                                                     *)

\* The arguments of a started call have their types, and only encryptions
\* write to encryption outputs.
LEMMA ArgTyped ==
    ASSUME NEW c \in Calls, arg[c] \in Requests
    PROVE  /\ arg[c].in \in Files /\ arg[c].out \in Files
           /\ arg[c].id \in BlobIds /\ arg[c].wk \in WrapKeys
           /\ Dec(c) <=> ~Enc(c)
           /\ arg[c].out \in EncOut <=> Enc(c)
           /\ arg[c].in \in Paths /\ arg[c].out \in Paths /\ TempOf(c) \in Paths
BY RequestAssumption DEF Request, Enc, Dec, Paths, Temps, TempOf, SiblingTempPath

\* Paths, inodes and calls have names of their own, so a caller's file is
\* never mistaken for a temporary one.
LEMMA Names ==
    /\ NoInode \notin Inodes /\ Calls \subseteq Inodes /\ Files \subseteq Inodes
    /\ EncOut \subseteq Files /\ DecOut \subseteq Files /\ Files \cap Calls = {}
    /\ Files \cap Temps = {} /\ Files \subseteq Paths /\ Temps \subseteq Paths
    /\ NoCall \notin Requests /\ DecOut \cap EncOut = {}
BY PathAssumption, RequestAssumption DEF Inodes, Paths, DecOut

\* What wrap_data_key authenticates is a wrap record, and a nonce prefix is a
\* header cell.
LEMMA WrapTyped ==
    ASSUME NEW wk \in WrapKeys, NEW id \in BlobIds, NEW p \in NoncePrefixes
    PROVE  Wrap(wk, id, [prefix |-> p]) \in WrapRecord /\ [prefix |-> p] \in Cell
  <1>1. [prefix |-> p] \in PrefixCell
    BY DEF PrefixCell
  <1> QED BY <1>1 DEF WrapRecord, Cell

\* A segment sealed at the end of a stream is a well-formed segment.
LEMMA SealTyped ==
    ASSUME TypeOK, NEW c \in Calls, arg[c] \in Requests, dk[c] \in DataKeys,
           NEW last \in BOOLEAN, NEW msg \in Seq(Cell), SealNext(c, last, msg)
    PROVE  seals' \in [DataKeys -> Seq(SealRecord)]
  <1> DEFINE ss == seals[dk[c]]
  <1> DEFINE s == Seal(prefix[c], last, BlobSegmentAad(arg[c].id), msg, Plain(ss) \o msg)
  <1>1. ss \in Seq(SealRecord) /\ prefix[c] \in Cell BY DEF TypeOK
  <1>2. Plain(ss) \in Seq(Cell)
    <2>1. CASE ss = <<>> BY <2>1 DEF Plain
    <2>2. CASE ss # <<>>
      <3>1. ss[Len(ss)] \in SealRecord BY <1>1, <2>2
      <3> QED BY <2>2, <3>1 DEF Plain, SealRecord
    <2> QED BY <2>1, <2>2
  <1>3. Plain(ss) \o msg \in Seq(Cell) BY <1>2
  <1>4. BlobSegmentAad(arg[c].id) \in {BlobSegmentAad(id) : id \in BlobIds} BY ArgTyped
  <1>5. s \in SealRecord BY <1>1, <1>3, <1>4 DEF SealRecord, Seal
  <1>6. Append(ss, s) \in Seq(SealRecord) BY <1>1, <1>5
  <1>7. seals' = [seals EXCEPT ![dk[c]] = Append(ss, s)] BY DEF SealNext, Sealed
  <1> QED BY <1>6, <1>7 DEF TypeOK

\* An opened segment is plaintext.
LEMMA OpenedTyped ==
    ASSUME TypeOK, NEW k \in DataKeys, NEW i \in Nat, i < Len(seals[k])
    PROVE  Opened(k, i) \in Seq(Cell)
  <1>1. seals[k] \in Seq(SealRecord) /\ i + 1 \in 1 .. Len(seals[k]) BY DEF TypeOK
  <1>2. seals[k][i + 1] \in SealRecord BY <1>1
  <1> QED BY <1>2 DEF Opened, SealRecord

\* File::create yields a file whether or not one existed.
LEMMA CreateTyped ==
    ASSUME TypeOK, NEW c \in Calls, NEW p \in Paths, CreateFile(c, p)
    PROVE  /\ dir' \in [Paths -> Inodes \cup {NoInode}] /\ data' \in [Inodes -> Seq(Cell)]
           /\ synced' \in [Inodes -> Nat] /\ fout' \in [Calls -> Inodes \cup {NoInode}]
           /\ fout'[c] \in Inodes
  <1> DEFINE i == IF dir[p] = NoInode THEN c ELSE dir[p]
  <1>1. i \in Inodes BY Names DEF TypeOK
  <1>2. /\ dir' = [dir EXCEPT ![p] = i] /\ data' = [data EXCEPT ![i] = <<>>]
        /\ synced' = [synced EXCEPT ![i] = 0] /\ fout' = [fout EXCEPT ![c] = i]
    BY DEF CreateFile
  <1> HIDE DEF i
  <1> QED BY <1>1, <1>2 DEF TypeOK

\* write_all leaves at most the buffered bytes due.
LEMMA WriteTyped ==
    ASSUME TypeOK, NEW c \in Calls, NEW bs \in Seq(Cell),
           WriteThrough(c, bs) \/ WriteRemainder(c, bs)
    PROVE  /\ wbuf' \in [Calls -> Seq(Cell)] /\ due' \in [Calls -> Nat]
           /\ due'[c] <= Len(wbuf'[c])
  <1>1. wbuf[c] \in Seq(Cell) /\ wbuf[c] \o bs \in Seq(Cell) BY DEF TypeOK
  <1>2. wbuf' = [wbuf EXCEPT ![c] = wbuf[c] \o bs] BY DEF WriteThrough, WriteRemainder
  <1>3. Len(wbuf[c] \o bs) = Len(wbuf[c]) + Len(bs) BY <1>1
  <1>4. PICK n \in Nat : due' = [due EXCEPT ![c] = n] /\ n <= Len(wbuf[c]) + Len(bs)
    BY <1>1 DEF WriteThrough, WriteRemainder
  <1> QED BY <1>1, <1>2, <1>3, <1>4 DEF TypeOK

\* A write() that reaches the file keeps files, sync marks and offsets well
\* formed.
LEMMA PushTyped ==
    ASSUME TypeOK, NEW c \in Calls, NEW n \in 0 .. Len(wbuf[c]), PushBytes(c, n)
    PROVE  data' \in [Inodes -> Seq(Cell)] /\ synced' \in [Inodes -> Nat] /\ woff' \in [Calls -> Nat]
  <1>1. wbuf[c] \in Seq(Cell) /\ woff[c] \in Nat BY DEF TypeOK
  <1>2. SubSeq(wbuf[c], 1, n) \in Seq(Cell) BY <1>1, CutAndJoin
  <1>3. data' \in [Inodes -> Seq(Cell)]
    <2>1. fout[c] \in Inodes =>
            WriteAt(data[fout[c]], woff[c], SubSeq(wbuf[c], 1, n)) \in Seq(Cell)
      BY <1>1, <1>2, WriteAtTyped DEF TypeOK
    <2> QED BY <2>1 DEF TypeOK, PushBytes
  <1> QED BY <1>1, <1>3 DEF TypeOK, PushBytes

\* What the four segment steps hand to the BufWriter is a sequence of cells.
LEMMA SegmentWrite ==
    ASSUME TypeOK, \A d \in Calls : CallInv(d), SealInv, \A d \in Calls : DecInv(d), NEW c \in Calls,
           EncryptNext(c) \/ EncryptLast(c) \/ DecryptNext(c) \/ DecryptLast(c)
    PROVE  /\ arg[c] \in Requests /\ dk[c] \in DataKeys
           /\ wbuf' \in [Calls -> Seq(Cell)] /\ due' \in [Calls -> Nat]
           /\ due'[c] <= Len(wbuf'[c])
  <1>1. arg[c] \in Requests
    BY DEF CallInv, EncryptNext, EncryptLast, DecryptNext, DecryptLast
  <1>2. /\ pending[c] \in Seq(Cell) /\ buf[c] \in Seq(Cell) /\ ctr[c] \in Nat
        /\ Len(pending[c]) \in Nat /\ Len(buf[c]) \in Nat
    BY DEF TypeOK
  <1>3. CASE EncryptNext(c) \/ EncryptLast(c)
    <2>1. dk[c] \in DataKeys BY <1>3 DEF SealInv, Sealing, EncryptNext, EncryptLast
    <2>2. \A n \in Nat : SealBytes(dk[c], ctr[c], n) \in Seq(Cell) BY <1>2, <2>1, BytesTyped
    <2> QED BY <1>1, <1>2, <1>3, <2>1, <2>2, WriteTyped DEF EncryptNext, EncryptLast
  <1>4. CASE DecryptNext(c) \/ DecryptLast(c)
    <2>1. dk[c] \in DataKeys
      BY <1>4 DEF DecInv, Unwrapped, Writing, DecryptNext, DecryptLast
    <2>2. ctr[c] < Len(seals[dk[c]]) BY <1>4 DEF DecryptNext, DecryptLast, Opens
    <2>3. Opened(dk[c], ctr[c]) \in Seq(Cell) BY <1>2, <2>1, <2>2, OpenedTyped
    <2> QED BY <1>1, <1>4, <2>1, <2>3, WriteTyped DEF DecryptNext, DecryptLast
  <1> QED BY <1>3, <1>4

----------------------------------------------------------------------------
(* Type correctness                                                        *)

\* Every step of a call keeps the types.
LEMMA TypeStep ==
    ASSUME TypeOK, \A d \in Calls : CallInv(d), SealInv, \A d \in Calls : DecInv(d),
           NEW c \in Calls, Start(c) \/ Advance(c) \/ Fault(c)
    PROVE  TypeOK'
  <1>1. CASE StartRejected(c)
    <2>1. PICK r \in Requests : arg' = [arg EXCEPT ![c] = r] BY <1>1 DEF StartRejected
    <2> QED BY <1>1, <2>1 DEF TypeOK, StartRejected, Return
  <1>2. CASE StartDecrypt(c)
    <2>1. PICK r \in Requests : arg' = [arg EXCEPT ![c] = r] BY <1>2 DEF StartDecrypt
    <2>2. arg' \in [Calls -> Requests \cup {NoCall}] BY <2>1 DEF TypeOK
    <2>3. /\ pc' = [pc EXCEPT ![c] = "open"]
          /\ UNCHANGED <<res, readVars, strmVars, outVars, fsVars, histVars, cryptoVars>>
      BY <1>2 DEF StartDecrypt
    <2> QED BY <2>2, <2>3 DEF TypeOK
  <1>3. CASE StartEncrypt(c)
    <2>1. PICK r \in Requests, k \in DataKeys, p \in NoncePrefixes :
            /\ r.op = "encrypt" /\ Usable(r.id)
            /\ bind[k] = NoBind
            /\ arg' = [arg EXCEPT ![c] = r]
            /\ dk' = [dk EXCEPT ![c] = k]
            /\ prefix' = [prefix EXCEPT ![c] = [prefix |-> p]]
            /\ bind' = [bind EXCEPT ![k] = Wrap(r.wk, r.id, [prefix |-> p])]
      BY <1>3 DEF StartEncrypt
    <2>2. r.wk \in WrapKeys /\ r.id \in BlobIds BY RequestAssumption DEF Request
    <2>3. bind' \in [DataKeys -> WrapRecord \cup {NoBind}] /\ prefix' \in [Calls -> Cell]
      BY <2>1, <2>2, WrapTyped DEF TypeOK
    <2> QED BY <1>3, <2>1, <2>3 DEF TypeOK, StartEncrypt
  <1>4. CASE StartNoRandomness(c)
    BY <1>4 DEF TypeOK, StartNoRandomness, Return
  <1>5. CASE OpenInput(c)
    <2>1. arg[c].in \in Paths BY <1>5, ArgTyped DEF CallInv, OpenInput
    <2> QED BY <1>5, <2>1 DEF TypeOK, OpenInput
  <1>6. CASE UnusableInput(c)
    BY <1>6 DEF TypeOK, UnusableInput, Return
  <1>7. CASE Read(c)
    <2>1. fin[c] \in Inodes BY <1>7 DEF CallInv, Read, Writing
    <2>2. PICK n \in 1 .. Want(c) - Len(buf[c]) :
            /\ pos[c] + n <= Len(data[fin[c]])
            /\ buf' = [buf EXCEPT ![c] = @ \o SubSeq(data[fin[c]], pos[c] + 1, pos[c] + n)]
            /\ pos' = [pos EXCEPT ![c] = @ + n]
      BY <1>7 DEF Read
    <2>3. Want(c) \in Nat
      BY ChunkAssumption, TagAssumption DEF Want, BufLen, HEADER_LEN
    <2>4. pos[c] \in Nat /\ n \in Nat /\ data[fin[c]] \in Seq(Cell) /\ buf[c] \in Seq(Cell)
      BY <2>1, <2>3 DEF TypeOK
    <2>5. SubSeq(data[fin[c]], pos[c] + 1, pos[c] + n) \in Seq(Cell)
      <3>1. pos[c] + 1 \in Nat \ {0} /\ pos[c] + n \in 0 .. Len(data[fin[c]])
        <4>1. pos[c] + n <= Len(data[fin[c]]) BY <2>2
        <4> QED BY <2>4, <4>1
      <3> QED BY <2>4, <3>1, SubSeqTyped
    <2> DEFINE new == buf[c] \o SubSeq(data[fin[c]], pos[c] + 1, pos[c] + n)
    <2>6. new \in Seq(Cell) /\ buf' = [buf EXCEPT ![c] = new] BY <2>2, <2>4, <2>5
    <2> HIDE DEF new
    <2>7. buf' \in [Calls -> Seq(Cell)] BY <2>6 DEF TypeOK
    <2>8. pos' \in [Calls -> Nat]
      <3>1. pos[c] + n \in Nat BY <2>4
      <3> QED BY <2>2, <3>1 DEF TypeOK
    <2> QED BY <1>7, <2>7, <2>8 DEF TypeOK, Read
  <1>8. CASE ReadFull(c)
    BY <1>8 DEF TypeOK, ReadFull
  <1>9. CASE ParseHeader(c)
    <2>1. buf[c][3] \in Cell
      <3>1. buf[c] \in Seq(Cell) /\ Len(buf[c]) = 4 BY <1>9 DEF TypeOK, ParseHeader, HEADER_LEN
      <3> QED BY <3>1
    <2>2. dk' \in [Calls -> DataKeys \cup {NoKey}] BY <1>9 DEF TypeOK, ParseHeader
    <2> QED BY <1>9, <2>1, <2>2 DEF TypeOK, ParseHeader
  <1>10. CASE RejectHeader(c)
    BY <1>10 DEF TypeOK, RejectHeader, Return
  <1>11. CASE CreateOutput(c)
    <2>1. arg[c] \in Requests /\ Enc(c) BY <1>11 DEF CallInv, CreateOutput
    <2>2. dk[c] \in DataKeys BY <1>11, <2>1 DEF SealInv, Sealing, CreateOutput
    <2>3. WriteHeader(dk[c], prefix[c]) \in Seq(Cell) BY <2>2, BytesTyped DEF TypeOK
    <2>4. wbuf' \in [Calls -> Seq(Cell)] BY <1>11, <2>3 DEF TypeOK, CreateOutput
    <2>5. /\ dir' \in [Paths -> Inodes \cup {NoInode}] /\ data' \in [Inodes -> Seq(Cell)]
          /\ synced' \in [Inodes -> Nat] /\ fout' \in [Calls -> Inodes \cup {NoInode}]
      BY <1>11, <2>1, ArgTyped, CreateTyped DEF CreateOutput
    <2> QED BY <1>11, <2>4, <2>5 DEF TypeOK, CreateOutput
  <1>12. CASE CreateTemp(c)
    <2>1. arg[c] \in Requests BY <1>12 DEF CallInv, CreateTemp
    <2>2. /\ dir' \in [Paths -> Inodes \cup {NoInode}] /\ data' \in [Inodes -> Seq(Cell)]
          /\ synced' \in [Inodes -> Nat] /\ fout' \in [Calls -> Inodes \cup {NoInode}]
      BY <1>12, <2>1, ArgTyped, CreateTyped DEF CreateTemp
    <2> QED BY <1>12, <2>2 DEF TypeOK, CreateTemp
  <1>13. CASE EncryptNext(c)
    <2>1. /\ arg[c] \in Requests /\ dk[c] \in DataKeys
          /\ wbuf' \in [Calls -> Seq(Cell)] /\ due' \in [Calls -> Nat]
      BY <1>13, SegmentWrite
    <2>2. seals' \in [DataKeys -> Seq(SealRecord)]
      <3>1. pending[c] \in Seq(Cell) BY DEF TypeOK
      <3> QED BY <1>13, <2>1, <3>1, SealTyped DEF EncryptNext
    <2>3. ctr' \in [Calls -> Nat] /\ pending' \in [Calls -> Seq(Cell)] BY <1>13 DEF TypeOK, EncryptNext
    <2>4. /\ UNCHANGED <<bind, arg, res, fin, pos, buf, dk, prefix, fout, woff, armed,
                         dir, data, synced, unlinkFailed, crashes>>
          /\ pc' = [pc EXCEPT ![c] = "tail"]
      BY <1>13 DEF EncryptNext
    <2> QED BY <2>1, <2>2, <2>3, <2>4 DEF TypeOK
  <1>14. CASE DecryptNext(c)
    <2>1. /\ arg[c] \in Requests /\ dk[c] \in DataKeys
          /\ wbuf' \in [Calls -> Seq(Cell)] /\ due' \in [Calls -> Nat]
      BY <1>14, SegmentWrite
    <2>2. seals' \in [DataKeys -> Seq(SealRecord)] BY <1>14 DEF TypeOK, DecryptNext
    <2>3. ctr' \in [Calls -> Nat] /\ pending' \in [Calls -> Seq(Cell)] BY <1>14 DEF TypeOK, DecryptNext
    <2>4. /\ UNCHANGED <<bind, arg, res, fin, pos, buf, dk, prefix, fout, woff, armed,
                         dir, data, synced, unlinkFailed, crashes>>
          /\ pc' = [pc EXCEPT ![c] = "tail"]
      BY <1>14 DEF DecryptNext
    <2> QED BY <2>1, <2>2, <2>3, <2>4 DEF TypeOK
  <1>15. CASE EncryptLast(c)
    <2>1. /\ arg[c] \in Requests /\ dk[c] \in DataKeys
          /\ wbuf' \in [Calls -> Seq(Cell)] /\ due' \in [Calls -> Nat]
      BY <1>15, SegmentWrite
    <2>2. seals' \in [DataKeys -> Seq(SealRecord)]
      <3>1. buf[c] \in Seq(Cell) BY DEF TypeOK
      <3> QED BY <1>15, <2>1, <3>1, SealTyped DEF EncryptLast
    <2>3. ctr' \in [Calls -> Nat] /\ buf' \in [Calls -> Seq(Cell)] BY <1>15 DEF TypeOK, EncryptLast
    <2>4. /\ UNCHANGED <<bind, arg, res, fin, pos, pending, dk, prefix, fout, woff, armed,
                         dir, data, synced, unlinkFailed, crashes>>
          /\ pc' = [pc EXCEPT ![c] = "flush"]
      BY <1>15 DEF EncryptLast
    <2> QED BY <2>1, <2>2, <2>3, <2>4 DEF TypeOK
  <1>16. CASE DecryptLast(c)
    <2>1. /\ arg[c] \in Requests /\ dk[c] \in DataKeys
          /\ wbuf' \in [Calls -> Seq(Cell)] /\ due' \in [Calls -> Nat]
      BY <1>16, SegmentWrite
    <2>2. seals' \in [DataKeys -> Seq(SealRecord)] BY <1>16 DEF TypeOK, DecryptLast
    <2>3. ctr' \in [Calls -> Nat] /\ buf' \in [Calls -> Seq(Cell)] BY <1>16 DEF TypeOK, DecryptLast
    <2>4. /\ UNCHANGED <<bind, arg, res, fin, pos, pending, dk, prefix, fout, woff, armed,
                         dir, data, synced, unlinkFailed, crashes>>
          /\ pc' = [pc EXCEPT ![c] = "flush"]
      BY <1>16 DEF DecryptLast
    <2> QED BY <2>1, <2>2, <2>3, <2>4 DEF TypeOK
  <1>17. CASE HoldChunk(c)
    BY <1>17 DEF TypeOK, HoldChunk
  <1>18. CASE SegmentError(c)
    BY <1>18 DEF TypeOK, SegmentError, Unwind
  <1>19. CASE Push(c)
    <2>1. PICK n \in 1 .. due[c] :
            /\ PushBytes(c, n)
            /\ wbuf' = [wbuf EXCEPT ![c] = SubSeq(@, n + 1, Len(@))]
            /\ due' = [due EXCEPT ![c] = @ - n]
      BY <1>19 DEF Push
    <2>2. n \in 0 .. Len(wbuf[c]) /\ due[c] \in Nat /\ wbuf[c] \in Seq(Cell)
      BY DEF CallInv, TypeOK
    <2>3. SubSeq(wbuf[c], n + 1, Len(wbuf[c])) \in Seq(Cell) BY <2>2, CutAndJoin
    <2>4. wbuf' \in [Calls -> Seq(Cell)] /\ due' \in [Calls -> Nat] BY <2>1, <2>2, <2>3 DEF TypeOK
    <2>5. data' \in [Inodes -> Seq(Cell)] /\ synced' \in [Inodes -> Nat] /\ woff' \in [Calls -> Nat]
      BY <2>1, <2>2, PushTyped
    <2> QED BY <1>19, <2>4, <2>5 DEF TypeOK, Push
  <1>20. CASE Flush(c)
    BY <1>20 DEF TypeOK, Flush
  <1>21. CASE Finish(c)
    BY <1>21 DEF TypeOK, Finish, Return
  <1>22. CASE SyncAll(c)
    <2>1. fout[c] \in Inodes BY <1>22 DEF CallInv, Writing, SyncAll
    <2>2. Len(data[fout[c]]) \in Nat BY <2>1 DEF TypeOK
    <2> QED BY <1>22, <2>2 DEF TypeOK, SyncAll
  <1>23. CASE Rename(c)
    <2>1. arg[c] \in Requests BY <1>23 DEF CallInv, Rename
    <2>2. dir[TempOf(c)] \in Inodes BY <1>23, <2>1, ArgTyped DEF TypeOK, Rename
    <2>3. dir' \in [Paths -> Inodes \cup {NoInode}] BY <1>23, <2>2 DEF TypeOK, Rename
    <2> QED BY <1>23, <2>3 DEF TypeOK, Rename, Return
  <1>24. CASE Drop(c)
    <2>1. data' \in [Inodes -> Seq(Cell)] /\ synced' \in [Inodes -> Nat] /\ woff' \in [Calls -> Nat]
      <3>1. CASE fout[c] = NoInode BY <1>24, <3>1 DEF TypeOK, Drop
      <3>2. CASE fout[c] # NoInode
        <4>1. PICK n \in 0 .. Len(wbuf[c]) : PushBytes(c, n) BY <1>24, <3>2 DEF Drop
        <4> QED BY <4>1, PushTyped
      <3> QED BY <3>1, <3>2
    <2>2. dir' \in [Paths -> Inodes \cup {NoInode}] /\ unlinkFailed' \subseteq Calls
      BY <1>24 DEF TypeOK, Drop
    <2>3. /\ UNCHANGED <<seals, bind, arg, res, fin, pos, buf, pending, dk, prefix, ctr, fout, due, crashes>>
          /\ wbuf' = [wbuf EXCEPT ![c] = <<>>] /\ armed' = [armed EXCEPT ![c] = FALSE]
          /\ pc' = [pc EXCEPT ![c] = "done"]
      BY <1>24 DEF Drop
    <2>4. <<>> \in Seq(Cell) OBVIOUS
    <2>5. wbuf' \in [Calls -> Seq(Cell)] BY <2>3, <2>4 DEF TypeOK
    <2>6. armed' \in [Calls -> BOOLEAN] BY <2>3 DEF TypeOK
    <2> QED BY <2>1, <2>2, <2>3, <2>5, <2>6 DEF TypeOK
  <1>25. CASE EarlyIoError(c)
    BY <1>25 DEF TypeOK, EarlyIoError, Return
  <1>26. CASE NoTempPath(c)
    BY <1>26 DEF TypeOK, NoTempPath, Return
  <1>27. CASE CreateTempFails(c)
    BY <1>27 DEF TypeOK, CreateTempFails
  <1>28. CASE IoError(c)
    BY <1>28 DEF TypeOK, IoError, Unwind
  <1> QED
    BY <1>1, <1>2, <1>3, <1>4, <1>5, <1>6, <1>7, <1>8, <1>9, <1>10, <1>11, <1>12,
       <1>13, <1>14, <1>15, <1>16, <1>17, <1>18, <1>19, <1>20, <1>21, <1>22, <1>23,
       <1>24, <1>25, <1>26, <1>27, <1>28 DEF Start, Advance, Fault

----------------------------------------------------------------------------
(* Control and locals                                                      *)

\* A step of one call leaves the locals of the others alone.
LEMMA OthersKeep ==
    ASSUME TypeOK, NEW c \in Calls, Start(c) \/ Advance(c) \/ Fault(c), NEW e \in Calls, e # c
    PROVE  /\ pc'[e] = pc[e] /\ arg'[e] = arg[e] /\ res'[e] = res[e] /\ fin'[e] = fin[e]
           /\ dk'[e] = dk[e] /\ prefix'[e] = prefix[e] /\ ctr'[e] = ctr[e]
           /\ fout'[e] = fout[e] /\ woff'[e] = woff[e] /\ wbuf'[e] = wbuf[e]
           /\ due'[e] = due[e] /\ armed'[e] = armed[e]
           /\ e \in unlinkFailed' <=> e \in unlinkFailed
  <1>1. CASE StartRejected(c) BY <1>1 DEF TypeOK, StartRejected, Return
  <1>2. CASE StartDecrypt(c) BY <1>2 DEF TypeOK, StartDecrypt
  <1>3. CASE StartEncrypt(c) BY <1>3 DEF TypeOK, StartEncrypt
  <1>4. CASE StartNoRandomness(c) BY <1>4 DEF TypeOK, StartNoRandomness, Return
  <1>5. CASE OpenInput(c) BY <1>5 DEF TypeOK, OpenInput
  <1>6. CASE UnusableInput(c) BY <1>6 DEF TypeOK, UnusableInput, Return
  <1>7. CASE Read(c) BY <1>7 DEF TypeOK, Read
  <1>8. CASE ReadFull(c) BY <1>8 DEF TypeOK, ReadFull
  <1>9. CASE ParseHeader(c) BY <1>9 DEF TypeOK, ParseHeader
  <1>10. CASE RejectHeader(c) BY <1>10 DEF TypeOK, RejectHeader, Return
  <1>11. CASE CreateOutput(c) BY <1>11 DEF TypeOK, CreateOutput, CreateFile
  <1>12. CASE CreateTemp(c) BY <1>12 DEF TypeOK, CreateTemp, CreateFile
  <1>13. CASE EncryptNext(c) BY <1>13 DEF TypeOK, EncryptNext, WriteThrough, SealNext
  <1>14. CASE DecryptNext(c) BY <1>14 DEF TypeOK, DecryptNext, WriteThrough
  <1>15. CASE EncryptLast(c) BY <1>15 DEF TypeOK, EncryptLast, WriteRemainder, SealNext
  <1>16. CASE DecryptLast(c) BY <1>16 DEF TypeOK, DecryptLast, WriteRemainder
  <1>17. CASE HoldChunk(c) BY <1>17 DEF TypeOK, HoldChunk
  <1>18. CASE SegmentError(c) BY <1>18 DEF TypeOK, SegmentError, Unwind
  <1>19. CASE Push(c) BY <1>19 DEF TypeOK, Push, PushBytes
  <1>20. CASE Flush(c) BY <1>20 DEF TypeOK, Flush
  <1>21. CASE Finish(c) BY <1>21 DEF TypeOK, Finish, Return
  <1>22. CASE SyncAll(c) BY <1>22 DEF TypeOK, SyncAll
  <1>23. CASE Rename(c) BY <1>23 DEF TypeOK, Rename, Return
  <1>24. CASE Drop(c) BY <1>24 DEF TypeOK, Drop, PushBytes
  <1>25. CASE EarlyIoError(c) BY <1>25 DEF TypeOK, EarlyIoError, Return
  <1>26. CASE NoTempPath(c) BY <1>26 DEF TypeOK, NoTempPath, Return
  <1>27. CASE CreateTempFails(c) BY <1>27 DEF TypeOK, CreateTempFails
  <1>28. CASE IoError(c) BY <1>28 DEF TypeOK, IoError, Unwind
  <1> QED
    BY <1>1, <1>2, <1>3, <1>4, <1>5, <1>6, <1>7, <1>8, <1>9, <1>10, <1>11, <1>12,
       <1>13, <1>14, <1>15, <1>16, <1>17, <1>18, <1>19, <1>20, <1>21, <1>22, <1>23,
       <1>24, <1>25, <1>26, <1>27, <1>28 DEF Start, Advance, Fault

\* Every step of a call keeps the locals consistent with its control point.
LEMMA CallStep ==
    ASSUME TypeOK, \A d \in Calls : CallInv(d), SealInv, \A d \in Calls : DecInv(d),
           NEW c \in Calls, Start(c) \/ Advance(c) \/ Fault(c), NEW e \in Calls
    PROVE  CallInv(e)'
  <1> USE DEF CallInv, Early, Writing, Enc, Dec
  <1>0. CASE e # c BY <1>0, OthersKeep
  <1> SUFFICES ASSUME e = c PROVE CallInv(c)' BY <1>0
  <1>1. CASE StartRejected(c) BY <1>1 DEF TypeOK, StartRejected, Return
  <1>2. CASE StartDecrypt(c) BY <1>2 DEF TypeOK, StartDecrypt
  <1>3. CASE StartEncrypt(c) BY <1>3 DEF TypeOK, StartEncrypt
  <1>4. CASE StartNoRandomness(c) BY <1>4 DEF TypeOK, StartNoRandomness, Return
  <1>5. CASE OpenInput(c)
    <2>1. arg[c] \in Requests BY <1>5 DEF OpenInput
    <2> QED BY <1>5, <2>1, ArgTyped DEF TypeOK, OpenInput
  <1>6. CASE UnusableInput(c) BY <1>6 DEF TypeOK, UnusableInput, Return
  <1>7. CASE Read(c) BY <1>7 DEF TypeOK, Read
  <1>8. CASE ReadFull(c) BY <1>8 DEF TypeOK, ReadFull
  <1>9. CASE ParseHeader(c) BY <1>9 DEF TypeOK, ParseHeader
  <1>10. CASE RejectHeader(c) BY <1>10 DEF TypeOK, RejectHeader, Return
  <1>11. CASE CreateOutput(c)
    <2>1. arg[c] \in Requests BY <1>11 DEF CreateOutput
    <2>2. fout'[c] \in Inodes BY <1>11, <2>1, ArgTyped, CreateTyped DEF CreateOutput
    <2>3. 0 <= Len(wbuf'[c]) BY <1>11 DEF TypeOK, CreateOutput, WriteHeader
    <2> QED BY <1>11, <2>2, <2>3 DEF TypeOK, CreateOutput
  <1>12. CASE CreateTemp(c)
    <2>1. arg[c] \in Requests BY <1>12 DEF CreateTemp
    <2>2. fout'[c] \in Inodes BY <1>12, <2>1, ArgTyped, CreateTyped DEF CreateTemp
    <2> QED BY <1>12, <2>2 DEF TypeOK, CreateTemp
  <1>13. CASE EncryptNext(c) BY <1>13 DEF TypeOK, EncryptNext, WriteThrough, SealNext
  <1>14. CASE DecryptNext(c) BY <1>14 DEF TypeOK, DecryptNext, WriteThrough
  <1>15. CASE EncryptLast(c) BY <1>15 DEF TypeOK, EncryptLast, WriteRemainder, SealNext
  <1>16. CASE DecryptLast(c) BY <1>16 DEF TypeOK, DecryptLast, WriteRemainder
  <1>17. CASE HoldChunk(c) BY <1>17 DEF TypeOK, HoldChunk
  <1>18. CASE SegmentError(c) 
    <2>1. pc[c] \in {"pend", "tail"} /\ Unwind(c, "Aead") BY <1>18 DEF SegmentError
    <2> QED BY <2>1 DEF TypeOK, Unwind
  <1>19. CASE Push(c) BY <1>19 DEF TypeOK, Push, PushBytes
  <1>20. CASE Flush(c) 
    <2>1. arg[c] \in Requests BY <1>20 DEF Flush
    <2> QED BY <1>20, <2>1, ArgTyped DEF TypeOK, Flush
  <1>21. CASE Finish(c) BY <1>21 DEF TypeOK, Finish, Return
  <1>22. CASE SyncAll(c) BY <1>22 DEF TypeOK, SyncAll
  <1>23. CASE Rename(c) BY <1>23 DEF TypeOK, Rename, Return
  <1>24. CASE Drop(c) 
    <2>1. /\ pc[c] = "drop" /\ pc' = [pc EXCEPT ![c] = "done"]
          /\ wbuf' = [wbuf EXCEPT ![c] = <<>>] /\ UNCHANGED <<arg, res, fin, due>>
      BY <1>24 DEF Drop
    <2>2. /\ pc'[c] = "done" /\ arg'[c] \in Requests /\ due'[c] = 0 /\ Len(wbuf'[c]) = 0
          /\ res'[c] # "none"
      BY <2>1 DEF TypeOK
    <2> QED BY <2>2
  <1>25. CASE EarlyIoError(c) BY <1>25 DEF TypeOK, EarlyIoError, Return
  <1>26. CASE NoTempPath(c) BY <1>26 DEF TypeOK, NoTempPath, Return
  <1>27. CASE CreateTempFails(c) BY <1>27 DEF TypeOK, CreateTempFails
  <1>28. CASE IoError(c) BY <1>28 DEF TypeOK, IoError, Unwind
  <1> QED
    BY <1>1, <1>2, <1>3, <1>4, <1>5, <1>6, <1>7, <1>8, <1>9, <1>10, <1>11, <1>12,
       <1>13, <1>14, <1>15, <1>16, <1>17, <1>18, <1>19, <1>20, <1>21, <1>22, <1>23,
       <1>24, <1>25, <1>26, <1>27, <1>28 DEF Start, Advance, Fault

----------------------------------------------------------------------------
(* Streams                                                                 *)

\* Sealing one more segment extends an open stream and leaves the segments
\* before it as they are.
LEMMA ChainAppend ==
    ASSUME NEW ss \in Seq(SealRecord), SealChain(ss), ~Complete(ss),
           NEW p, NEW last \in BOOLEAN, NEW aad, NEW msg
    PROVE  /\ SealChain(Sealed(ss, p, last, aad, msg))
           /\ Len(Sealed(ss, p, last, aad, msg)) = Len(ss) + 1
           /\ \A i \in 1 .. Len(ss) : Sealed(ss, p, last, aad, msg)[i] = ss[i]
           /\ Complete(Sealed(ss, p, last, aad, msg)) <=> last
  <1> DEFINE t == Sealed(ss, p, last, aad, msg)
  <1> DEFINE s == Seal(p, last, aad, msg, Plain(ss) \o msg)
  <1>1. Len(ss) \in Nat /\ (ss = <<>> <=> Len(ss) = 0) OBVIOUS
  <1>2. /\ Len(t) = Len(ss) + 1 /\ t[Len(ss) + 1] = s
        /\ \A i \in 1 .. Len(ss) : t[i] = ss[i]
    BY DEF Sealed
  <1>3. s.last = last /\ s.msg = msg /\ s.upto = Plain(ss) \o msg BY DEF Seal
  <1> HIDE DEF s, t
  <1>5. ASSUME NEW i \in 1 .. Len(ss), ss[i].last PROVE FALSE
    <2>1. i = Len(ss) BY <1>5, Zenon DEF SealChain
    <2>2. ss # <<>> BY <1>1, <1>5
    <2> QED BY <1>5, <2>1, <2>2 DEF Complete
  <1>6. t # <<>> BY <1>1, <1>2
  <1>7. Complete(t) <=> last BY <1>1, <1>2, <1>3, <1>6 DEF Complete
  <1>8. ASSUME NEW i \in 1 .. Len(t)
        PROVE  /\ t[i].last => i = Len(t)
               /\ t[i].upto = (IF i = 1 THEN <<>> ELSE t[i - 1].upto) \o t[i].msg
    <2>1. CASE i \in 1 .. Len(ss)
      <3>1. t[i] = ss[i] /\ (i # 1 => t[i - 1] = ss[i - 1]) BY <1>1, <1>2, <2>1
      <3> QED BY <1>5, <2>1, <3>1 DEF SealChain
    <2>2. CASE i = Len(ss) + 1
      <3>1. t[i] = s BY <1>2, <2>2
      <3>2. Plain(ss) = IF i = 1 THEN <<>> ELSE t[i - 1].upto
        BY <1>1, <1>2, <2>2 DEF Plain
      <3> QED BY <1>2, <1>3, <2>2, <3>1, <3>2
    <2>3. i \in 1 .. Len(ss) \/ i = Len(ss) + 1 BY <1>1, <1>2
    <2> QED BY <2>1, <2>2, <2>3
  <1>9. SealChain(t) BY <1>8 DEF SealChain
  <1> QED BY <1>2, <1>7, <1>9 DEF t

\* The three ways a step can treat the streams: not at all, ...
LEMMA SealFrame ==
    ASSUME SealInv, UNCHANGED <<bind, seals>>,
           \A d \in Calls : Sealing(d)' => Sealing(d) /\ dk'[d] = dk[d]
    PROVE  SealInv'
BY DEF SealInv

\* ... by opening a new one, ...
LEMMA SealStart ==
    ASSUME TypeOK, \A d \in Calls : CallInv(d), SealInv, NEW c \in Calls, StartEncrypt(c)
    PROVE  SealInv'
  <1>1. PICK r \in Requests, k \in DataKeys, p \in NoncePrefixes :
            /\ r.op = "encrypt" /\ Usable(r.id)
            /\ bind[k] = NoBind
            /\ arg' = [arg EXCEPT ![c] = r]
            /\ dk' = [dk EXCEPT ![c] = k]
            /\ prefix' = [prefix EXCEPT ![c] = [prefix |-> p]]
            /\ bind' = [bind EXCEPT ![k] = Wrap(r.wk, r.id, [prefix |-> p])]
    BY DEF StartEncrypt
  <1>2. r.wk \in WrapKeys /\ r.id \in BlobIds BY RequestAssumption DEF Request
  <1>3. bind'[k] # NoBind BY <1>1, <1>2, WrapTyped, WrapAssumption DEF TypeOK
  <1>4. \A j \in DataKeys : j # k => bind'[j] = bind[j] BY <1>1 DEF TypeOK
  <1>5. seals' = seals /\ pc[c] = "idle" BY DEF StartEncrypt
  <1>6. \A d \in Calls : d # c => (Sealing(d)' <=> Sealing(d)) /\ dk'[d] = dk[d]
    BY OthersKeep DEF Start, Sealing, Enc
  <1>7. dk'[c] = k BY <1>1 DEF TypeOK
  <1>8. \A d \in Calls : d # c /\ Sealing(d) => dk[d] # k BY <1>1 DEF SealInv
  <1>9. ~Complete(seals[k]) BY <1>1 DEF SealInv, Complete
  <1>10. \A j \in DataKeys : SealChain(seals'[j]) /\ (bind'[j] = NoBind => seals'[j] = <<>>)
    BY <1>3, <1>4, <1>5 DEF SealInv
  <1>11. \A d \in Calls : Sealing(d)' =>
           dk'[d] \in DataKeys /\ bind'[dk'[d]] # NoBind /\ ~Complete(seals'[dk'[d]])
    BY <1>3, <1>4, <1>5, <1>6, <1>7, <1>9 DEF SealInv
  <1>12. \A d, e \in Calls : Sealing(d)' /\ Sealing(e)' /\ d # e => dk'[d] # dk'[e]
    BY <1>6, <1>7, <1>8 DEF SealInv
  <1> QED BY <1>10, <1>11, <1>12 DEF SealInv

\* ... or by sealing a segment, the last of which ends the encryptor.
LEMMA SealSegment ==
    ASSUME TypeOK, \A d \in Calls : CallInv(d), SealInv, NEW c \in Calls,
           NEW last \in BOOLEAN, NEW msg, SealNext(c, last, msg),
           Sealing(c), last => ~Sealing(c)', UNCHANGED <<bind, dk>>,
           \A d \in Calls : Sealing(d)' => Sealing(d)
    PROVE  /\ SealInv'
           /\ Len(seals'[dk[c]]) = Len(seals[dk[c]]) + 1
           /\ \A k \in DataKeys \ {dk[c]} : seals'[k] = seals[k]
           /\ \A i \in 1 .. Len(seals[dk[c]]) : seals'[dk[c]][i] = seals[dk[c]][i]
  <1> DEFINE k == dk[c]
  <1>1. k \in DataKeys /\ bind[k] # NoBind /\ ~Complete(seals[k]) /\ SealChain(seals[k])
    BY DEF SealInv
  <1>2. seals[k] \in Seq(SealRecord) BY <1>1 DEF TypeOK
  <1>3. seals'[k] = Sealed(seals[k], prefix[c], last, BlobSegmentAad(arg[c].id), msg)
    BY <1>1 DEF TypeOK, SealNext
  <1>4. \A j \in DataKeys : j # k => seals'[j] = seals[j] BY <1>1 DEF TypeOK, SealNext
  <1>5. /\ SealChain(seals'[k]) /\ Len(seals'[k]) = Len(seals[k]) + 1
        /\ \A i \in 1 .. Len(seals[k]) : seals'[k][i] = seals[k][i]
        /\ Complete(seals'[k]) <=> last
    BY <1>1, <1>2, <1>3, ChainAppend
  <1>6. \A j \in DataKeys : SealChain(seals'[j]) /\ (bind'[j] = NoBind => seals'[j] = <<>>)
    BY <1>1, <1>4, <1>5 DEF SealInv
  <1>7. \A d \in Calls : Sealing(d)' /\ d # c => dk[d] # k BY DEF SealInv
  <1>8. \A d \in Calls : Sealing(d)' =>
           dk'[d] \in DataKeys /\ bind'[dk'[d]] # NoBind /\ ~Complete(seals'[dk'[d]])
    BY <1>1, <1>4, <1>5, <1>7 DEF SealInv
  <1>9. \A d, e \in Calls : Sealing(d)' /\ Sealing(e)' /\ d # e => dk'[d] # dk'[e]
    BY DEF SealInv
  <1> QED BY <1>4, <1>5, <1>6, <1>8, <1>9 DEF SealInv

\* Wraps and sealed segments are never taken back, complete streams never
\* extended.
StreamsGrow ==
    \A k \in DataKeys :
        /\ bind[k] # NoBind => bind'[k] = bind[k]
        /\ Len(seals[k]) <= Len(seals'[k])
        /\ \A i \in 1 .. Len(seals[k]) : seals'[k][i] = seals[k][i]
        /\ Complete(seals[k]) => seals'[k] = seals[k]

\* No step reuses the data key of a live encryptor or seals after the terminal
\* segment, and streams only grow.
LEMMA SealStep ==
    ASSUME TypeOK, \A d \in Calls : CallInv(d), SealInv,
           NEW c \in Calls, Start(c) \/ Advance(c) \/ Fault(c)
    PROVE  SealInv' /\ StreamsGrow
  <1> DEFINE Quiet == UNCHANGED <<bind, seals>> /\ (Sealing(c)' => Sealing(c) /\ dk'[c] = dk[c])
  <1>a. \A d \in Calls : d # c => (Sealing(d)' <=> Sealing(d)) /\ dk'[d] = dk[d]
    BY OthersKeep DEF Sealing, Enc
  <1>b. \A k \in DataKeys : Len(seals[k]) \in Nat BY DEF TypeOK
  <1>c. CASE Quiet
    <2>1. SealInv' BY <1>a, <1>c, SealFrame
    <2>2. StreamsGrow BY <1>b, <1>c DEF StreamsGrow
    <2> QED BY <2>1, <2>2
  <1>1. StartRejected(c) => Quiet
    BY DEF TypeOK, CallInv, Sealing, Enc, Dec, StartRejected, Return
  <1>2. StartDecrypt(c) => Quiet
    BY DEF TypeOK, CallInv, Sealing, Enc, Dec, StartDecrypt
  <1>3. StartNoRandomness(c) => Quiet
    BY DEF TypeOK, CallInv, Sealing, Enc, Dec, StartNoRandomness, Return
  <1>4. OpenInput(c) => Quiet
    BY DEF TypeOK, CallInv, Sealing, Enc, Dec, OpenInput
  <1>5. UnusableInput(c) => Quiet
    BY DEF TypeOK, CallInv, Sealing, Enc, Dec, UnusableInput, Return
  <1>6. Read(c) => Quiet
    BY DEF TypeOK, CallInv, Sealing, Enc, Dec, Read
  <1>7. ReadFull(c) => Quiet
    BY DEF TypeOK, CallInv, Sealing, Enc, Dec, ReadFull
  <1>8. ParseHeader(c) => Quiet
    BY DEF TypeOK, CallInv, Sealing, Enc, Dec, ParseHeader
  <1>9. RejectHeader(c) => Quiet
    BY DEF TypeOK, CallInv, Sealing, Enc, Dec, RejectHeader, Return
  <1>10. CreateOutput(c) => Quiet
    BY DEF TypeOK, CallInv, Sealing, Enc, Dec, CreateOutput
  <1>11. CreateTemp(c) => Quiet
    BY DEF TypeOK, CallInv, Sealing, Enc, Dec, CreateTemp
  <1>12. DecryptNext(c) => Quiet
    BY DEF TypeOK, CallInv, Sealing, Enc, Dec, DecryptNext
  <1>13. DecryptLast(c) => Quiet
    BY DEF TypeOK, CallInv, Sealing, Enc, Dec, DecryptLast
  <1>14. HoldChunk(c) => Quiet
    BY DEF TypeOK, CallInv, Sealing, Enc, Dec, HoldChunk
  <1>15. SegmentError(c) => Quiet
    BY DEF TypeOK, CallInv, Sealing, Enc, Dec, SegmentError, Unwind
  <1>16. Push(c) => Quiet
    BY DEF TypeOK, CallInv, Sealing, Enc, Dec, Push
  <1>17. Flush(c) => Quiet
    BY DEF TypeOK, CallInv, Sealing, Enc, Dec, Flush
  <1>18. Finish(c) => Quiet
    BY DEF TypeOK, CallInv, Sealing, Enc, Dec, Finish, Return
  <1>19. SyncAll(c) => Quiet
    BY DEF TypeOK, CallInv, Sealing, Enc, Dec, SyncAll
  <1>20. Rename(c) => Quiet
    BY DEF TypeOK, CallInv, Sealing, Enc, Dec, Rename, Return
  <1>21. Drop(c) => Quiet
    BY DEF TypeOK, CallInv, Sealing, Enc, Dec, Drop
  <1>22. EarlyIoError(c) => Quiet
    BY DEF TypeOK, CallInv, Sealing, Enc, Dec, EarlyIoError, Return
  <1>23. NoTempPath(c) => Quiet
    BY DEF TypeOK, CallInv, Sealing, Enc, Dec, NoTempPath, Return
  <1>24. CreateTempFails(c) => Quiet
    BY DEF TypeOK, CallInv, Sealing, Enc, Dec, CreateTempFails
  <1>25. IoError(c) => Quiet
    BY DEF TypeOK, CallInv, Sealing, Enc, Dec, IoError, Unwind
  <1>26. CASE StartEncrypt(c)
    <2>1. SealInv' BY <1>26, SealStart
    <2>2. \A k \in DataKeys : bind[k] # NoBind => bind'[k] = bind[k]
      BY <1>26 DEF TypeOK, StartEncrypt
    <2>3. seals' = seals BY <1>26 DEF StartEncrypt
    <2> QED BY <1>b, <2>1, <2>2, <2>3 DEF StreamsGrow
  <1>27. CASE EncryptNext(c) \/ EncryptLast(c)
    <2>1. UNCHANGED <<bind, dk>> /\ Sealing(c) /\ \A d \in Calls : Sealing(d)' => Sealing(d)
      BY <1>a, <1>27 DEF Sealing, EncryptNext, EncryptLast
    <2>2. PICK last \in BOOLEAN, msg \in {pending[c], buf[c]} :
            SealNext(c, last, msg) /\ (last => ~Sealing(c)')
      <3>1. CASE EncryptNext(c) BY <3>1 DEF EncryptNext
      <3>2. CASE EncryptLast(c)
        <4>1. SealNext(c, TRUE, buf[c]) /\ pc'[c] = "flush" BY <3>2 DEF TypeOK, EncryptLast
        <4> QED BY <4>1 DEF Sealing
      <3> QED BY <1>27, <3>1, <3>2
    <2>3. /\ SealInv' /\ Len(seals'[dk[c]]) = Len(seals[dk[c]]) + 1
          /\ \A k \in DataKeys \ {dk[c]} : seals'[k] = seals[k]
          /\ \A i \in 1 .. Len(seals[dk[c]]) : seals'[dk[c]][i] = seals[dk[c]][i]
      BY <2>1, <2>2, SealSegment
    <2>4. ~Complete(seals[dk[c]]) BY <2>1 DEF SealInv
    <2>5. StreamsGrow BY <1>b, <2>1, <2>3, <2>4 DEF StreamsGrow
    <2> QED BY <2>3, <2>5
  <1> HIDE DEF Quiet
  <1> QED
    BY <1>c, <1>1, <1>2, <1>3, <1>4, <1>5, <1>6, <1>7, <1>8, <1>9, <1>10, <1>11,
       <1>12, <1>13, <1>14, <1>15, <1>16, <1>17, <1>18, <1>19, <1>20, <1>21, <1>22,
       <1>23, <1>24, <1>25, <1>26, <1>27 DEF Start, Advance, Fault

----------------------------------------------------------------------------
(* The file system                                                         *)

\* Arguments are fixed once a call has started.
LEMMA ArgKeep ==
    ASSUME TypeOK, \A d \in Calls : CallInv(d), NEW c \in Calls, Start(c) \/ Advance(c) \/ Fault(c),
           NEW e \in Calls, arg[e] \in Requests
    PROVE  arg'[e] = arg[e]
  <1>1. CASE e # c BY <1>1, OthersKeep
  <1>2. CASE e = c
    <2>1. pc[c] # "idle" BY <1>2, Names DEF CallInv
    <2>2. ~Start(c)
      BY <2>1 DEF Start, StartRejected, StartDecrypt, StartEncrypt, StartNoRandomness
    <2>3. UNCHANGED arg

        BY <2>2 DEF Advance, Fault, OpenInput, UnusableInput, Read, ReadFull,
           ParseHeader, RejectHeader, CreateOutput, CreateTemp, EncryptNext, DecryptNext,
           EncryptLast, DecryptLast, HoldChunk, SegmentError, Push, Flush, Finish,
           SyncAll, Rename, Drop, EarlyIoError, NoTempPath, CreateTempFails, IoError,
           Unwind
    <2> QED BY <1>2, <2>3
  <1> QED BY <1>1, <1>2

\* A step of c changes no inode but the one c has open for writing.
LEMMA DataKeep ==
    ASSUME TypeOK, NEW c \in Calls, Start(c) \/ Advance(c) \/ Fault(c),
           NEW i \in Inodes, i # fout'[c]
    PROVE  data'[i] = data[i] /\ synced'[i] = synced[i]
  <1>1. CASE StartRejected(c) BY <1>1 DEF TypeOK, StartRejected
  <1>2. CASE StartDecrypt(c) BY <1>2 DEF TypeOK, StartDecrypt
  <1>3. CASE StartEncrypt(c) BY <1>3 DEF TypeOK, StartEncrypt
  <1>4. CASE StartNoRandomness(c) BY <1>4 DEF TypeOK, StartNoRandomness
  <1>5. CASE OpenInput(c) BY <1>5 DEF TypeOK, OpenInput
  <1>6. CASE UnusableInput(c) BY <1>6 DEF TypeOK, UnusableInput
  <1>7. CASE Read(c) BY <1>7 DEF TypeOK, Read
  <1>8. CASE ReadFull(c) BY <1>8 DEF TypeOK, ReadFull
  <1>9. CASE ParseHeader(c) BY <1>9 DEF TypeOK, ParseHeader
  <1>10. CASE RejectHeader(c) BY <1>10 DEF TypeOK, RejectHeader
  <1>11. CASE CreateOutput(c) BY <1>11 DEF TypeOK, CreateOutput, CreateFile
  <1>12. CASE CreateTemp(c) BY <1>12 DEF TypeOK, CreateTemp, CreateFile
  <1>13. CASE EncryptNext(c) BY <1>13 DEF TypeOK, EncryptNext
  <1>14. CASE DecryptNext(c) BY <1>14 DEF TypeOK, DecryptNext
  <1>15. CASE EncryptLast(c) BY <1>15 DEF TypeOK, EncryptLast
  <1>16. CASE DecryptLast(c) BY <1>16 DEF TypeOK, DecryptLast
  <1>17. CASE HoldChunk(c) BY <1>17 DEF TypeOK, HoldChunk
  <1>18. CASE SegmentError(c) BY <1>18 DEF TypeOK, SegmentError, Unwind
  <1>19. CASE Push(c) BY <1>19 DEF TypeOK, Push, PushBytes
  <1>20. CASE Flush(c) BY <1>20 DEF TypeOK, Flush
  <1>21. CASE Finish(c) BY <1>21 DEF TypeOK, Finish
  <1>22. CASE SyncAll(c) BY <1>22 DEF TypeOK, SyncAll
  <1>23. CASE Rename(c) BY <1>23 DEF TypeOK, Rename
  <1>24. CASE Drop(c) BY <1>24 DEF TypeOK, Drop, PushBytes
  <1>25. CASE EarlyIoError(c) BY <1>25 DEF TypeOK, EarlyIoError
  <1>26. CASE NoTempPath(c) BY <1>26 DEF TypeOK, NoTempPath
  <1>27. CASE CreateTempFails(c) BY <1>27 DEF TypeOK, CreateTempFails
  <1>28. CASE IoError(c) BY <1>28 DEF TypeOK, IoError, Unwind
  <1> QED
    BY <1>1, <1>2, <1>3, <1>4, <1>5, <1>6, <1>7, <1>8, <1>9, <1>10, <1>11, <1>12,
       <1>13, <1>14, <1>15, <1>16, <1>17, <1>18, <1>19, <1>20, <1>21, <1>22, <1>23,
       <1>24, <1>25, <1>26, <1>27, <1>28 DEF Start, Advance, Fault

\* A step of c changes no path but its temporary path and, when it creates an
\* encryption output or publishes, its output.
LEMMA DirKeep ==
    ASSUME TypeOK, NEW c \in Calls, Start(c) \/ Advance(c) \/ Fault(c),
           NEW p \in Paths, p # TempOf(c), p = arg[c].out => ~CreateOutput(c) /\ ~Rename(c)
    PROVE  dir'[p] = dir[p]
  <1>1. CASE StartRejected(c) BY <1>1 DEF TypeOK, StartRejected
  <1>2. CASE StartDecrypt(c) BY <1>2 DEF TypeOK, StartDecrypt
  <1>3. CASE StartEncrypt(c) BY <1>3 DEF TypeOK, StartEncrypt
  <1>4. CASE StartNoRandomness(c) BY <1>4 DEF TypeOK, StartNoRandomness
  <1>5. CASE OpenInput(c) BY <1>5 DEF TypeOK, OpenInput
  <1>6. CASE UnusableInput(c) BY <1>6 DEF TypeOK, UnusableInput
  <1>7. CASE Read(c) BY <1>7 DEF TypeOK, Read
  <1>8. CASE ReadFull(c) BY <1>8 DEF TypeOK, ReadFull
  <1>9. CASE ParseHeader(c) BY <1>9 DEF TypeOK, ParseHeader
  <1>10. CASE RejectHeader(c) BY <1>10 DEF TypeOK, RejectHeader
  <1>11. CASE CreateOutput(c) BY <1>11 DEF TypeOK, CreateOutput, CreateFile
  <1>12. CASE CreateTemp(c) BY <1>12 DEF TypeOK, CreateTemp, CreateFile
  <1>13. CASE EncryptNext(c) BY <1>13 DEF TypeOK, EncryptNext
  <1>14. CASE DecryptNext(c) BY <1>14 DEF TypeOK, DecryptNext
  <1>15. CASE EncryptLast(c) BY <1>15 DEF TypeOK, EncryptLast
  <1>16. CASE DecryptLast(c) BY <1>16 DEF TypeOK, DecryptLast
  <1>17. CASE HoldChunk(c) BY <1>17 DEF TypeOK, HoldChunk
  <1>18. CASE SegmentError(c) BY <1>18 DEF TypeOK, SegmentError, Unwind
  <1>19. CASE Push(c) BY <1>19 DEF TypeOK, Push
  <1>20. CASE Flush(c) BY <1>20 DEF TypeOK, Flush
  <1>21. CASE Finish(c) BY <1>21 DEF TypeOK, Finish
  <1>22. CASE SyncAll(c) BY <1>22 DEF TypeOK, SyncAll
  <1>23. CASE Rename(c) BY <1>23 DEF TypeOK, Rename
  <1>24. CASE Drop(c) BY <1>24 DEF TypeOK, Drop
  <1>25. CASE EarlyIoError(c) BY <1>25 DEF TypeOK, EarlyIoError
  <1>26. CASE NoTempPath(c) BY <1>26 DEF TypeOK, NoTempPath
  <1>27. CASE CreateTempFails(c) BY <1>27 DEF TypeOK, CreateTempFails
  <1>28. CASE IoError(c) BY <1>28 DEF TypeOK, IoError, Unwind
  <1> QED
    BY <1>1, <1>2, <1>3, <1>4, <1>5, <1>6, <1>7, <1>8, <1>9, <1>10, <1>11, <1>12,
       <1>13, <1>14, <1>15, <1>16, <1>17, <1>18, <1>19, <1>20, <1>21, <1>22, <1>23,
       <1>24, <1>25, <1>26, <1>27, <1>28 DEF Start, Advance, Fault

\* The temporary path of a call about to create it is free.
LEMMA TempFree ==
    ASSUME TypeOK, TempInv, NEW c \in Calls, arg[c] \in Requests, pc[c] = "temp"
    PROVE  dir[TempOf(c)] = NoInode
  <1>1. arg[c].out \in Files /\ TempOf(c) = <<arg[c].out, c>>
    BY ArgTyped DEF TempOf, SiblingTempPath
  <1> QED BY <1>1 DEF TempInv, Writing

\* Encryption inodes stay encryption inodes.
LEMMA EncInodeKeep ==
    ASSUME TypeOK, \A d \in Calls : CallInv(d), NEW c \in Calls, Start(c) \/ Advance(c) \/ Fault(c),
           NEW i \in Inodes, EncInode(i)
    PROVE  EncInode(i)'
BY ArgKeep DEF EncInode, Enc

\* Every step keeps every open output file with its kind of owner.
LEMMA OwnerStep ==
    ASSUME TypeOK, \A d \in Calls : CallInv(d), OwnInv, TempInv,
           NEW c \in Calls, Start(c) \/ Advance(c) \/ Fault(c), NEW e \in Calls
    PROVE  Owner(e)'
  <1> SUFFICES ASSUME fout'[e] # NoInode PROVE Owner(e)' BY DEF Owner
  <1>1. CASE fout'[e] = fout[e]
    <2>1. pc[e] # "idle" /\ arg[e] \in Requests BY <1>1 DEF CallInv, Early
    <2>2. arg'[e] = arg[e] BY <2>1, ArgKeep
    <2>3. fout[e] \in Inodes BY <1>1 DEF TypeOK
    <2>4. Enc(e)' <=> Enc(e) BY <2>2 DEF Enc
    <2>5. CASE Enc(e)
      <3>1. EncInode(fout[e]) BY <1>1, <2>5 DEF OwnInv, Owner
      <3>2. \A i \in Inodes : EncInode(i) => EncInode(i)' BY EncInodeKeep
      <3>3. EncInode(fout[e])' BY <1>1, <2>3, <3>1, <3>2 DEF EncInode, Enc
      <3> QED BY <2>4, <2>5, <3>3 DEF Owner
    <2>6. CASE ~Enc(e)
      <3>1. fout[e] = e BY <1>1, <2>6 DEF OwnInv, Owner
      <3> QED BY <1>1, <2>4, <2>6, <3>1 DEF Owner
    <2> QED BY <2>5, <2>6
  <1>2. CASE e = c /\ CreateOutput(c)
    <2>1. arg[c] \in Requests /\ Enc(c) BY <1>2 DEF CallInv, CreateOutput
    <2>2. arg' = arg /\ fout'[c] = IF dir[arg[c].out] = NoInode THEN c ELSE dir[arg[c].out]
      BY <1>2 DEF TypeOK, CreateOutput, CreateFile
    <2>3. EncInode(c) BY <2>1 DEF EncInode
    <2>4. dir[arg[c].out] # NoInode => EncInode(dir[arg[c].out])
      BY <2>1, ArgTyped DEF OwnInv
    <2>5. Enc(c)' BY <2>1, <2>2 DEF Enc
    <2>6. CASE dir[arg[c].out] = NoInode
      <3>1. fout'[c] = c BY <2>2, <2>6
      <3>2. EncInode(fout[c])' BY <2>2, <2>3, <3>1 DEF EncInode, Enc
      <3> QED BY <1>2, <2>5, <3>2 DEF Owner
    <2>7. CASE dir[arg[c].out] # NoInode
      <3>1. fout'[c] = dir[arg[c].out] BY <2>2, <2>7
      <3>2. EncInode(fout[c])' BY <2>2, <2>4, <2>7, <3>1 DEF EncInode, Enc
      <3> QED BY <1>2, <2>5, <3>2 DEF Owner
    <2> QED BY <2>6, <2>7
  <1>3. CASE e = c /\ CreateTemp(c)
    <2>1. arg[c] \in Requests /\ Dec(c) BY <1>3 DEF CallInv, CreateTemp
    <2>2. dir[TempOf(c)] = NoInode BY <1>3, <2>1, TempFree DEF CreateTemp
    <2>3. arg' = arg /\ fout'[c] = c BY <1>3, <2>2 DEF TypeOK, CreateTemp, CreateFile
    <2>4. ~Enc(c) BY <2>1, ArgTyped
    <2> QED BY <1>3, <2>3, <2>4 DEF Owner, Enc
  <1>4. e # c => fout'[e] = fout[e] BY OthersKeep
  <1>5. e = c /\ ~CreateOutput(c) /\ ~CreateTemp(c) => fout'[e] = fout[e]
    BY DEF Start, Advance, Fault, Unwind, StartRejected, StartDecrypt, StartEncrypt, StartNoRandomness, OpenInput, UnusableInput, Read, ReadFull, ParseHeader, RejectHeader, EncryptNext, DecryptNext, EncryptLast, DecryptLast, HoldChunk, SegmentError, Push, Flush, Finish, SyncAll, Rename, Drop, EarlyIoError, NoTempPath, CreateTempFails, IoError
  <1> QED BY <1>1, <1>2, <1>3, <1>4, <1>5

\* No step of another call changes the inode of a decryption.
LEMMA DecInodeKeep ==
    ASSUME TypeOK, \A d \in Calls : CallInv(d), OwnInv, TempInv,
           NEW c \in Calls, Start(c) \/ Advance(c) \/ Fault(c),
           NEW e \in Calls, e # c, arg[e] \in Requests, Dec(e)
    PROVE  data'[e] = data[e] /\ synced'[e] = synced[e]
  <1>1. arg'[e] = arg[e] /\ ~Enc(e) /\ e \notin EncOut /\ e \in Inodes
    BY ArgKeep, ArgTyped, Names
  <1>2. ~EncInode(e)' BY <1>1 DEF EncInode, Enc
  <1>3. ASSUME fout'[c] = e PROVE FALSE
    <2>1. fout'[c] # NoInode /\ fout'[c] # c BY <1>1, <1>3, Names
    <2>2. EncInode(fout[c])' BY <2>1, OwnerStep DEF Owner
    <2>3. EncInode(e)' BY <1>3, <2>2 DEF EncInode, Enc
    <2> QED BY <1>2, <2>3
  <1> QED BY <1>1, <1>3, DataKeep

\* Only a call that has not ended takes a step.
LEMMA Running ==
    ASSUME \A d \in Calls : CallInv(d), NEW c \in Calls, Start(c) \/ Advance(c) \/ Fault(c)
    PROVE  /\ pc[c] # "done" /\ pc[c] # "dead"
           /\ Start(c) => pc[c] = "idle"
           /\ pc[c] = "idle" => Start(c)
  <1>1. CallInv(c) OBVIOUS
  <1>2. Push(c) \/ IoError(c) => pc[c] \notin {"done", "dead", "idle"}
    BY <1>1 DEF CallInv, Writing, Push, IoError
  <1>3. Start(c) => pc[c] = "idle"
    BY DEF Start, StartRejected, StartDecrypt, StartEncrypt, StartNoRandomness
  <1>4. Advance(c) /\ ~Push(c) => pc[c] \notin {"done", "dead", "idle"}
    BY DEF Advance, OpenInput, UnusableInput, Read, ReadFull, ParseHeader, RejectHeader, CreateOutput, CreateTemp, EncryptNext, DecryptNext, EncryptLast, DecryptLast, HoldChunk, SegmentError, Flush, Finish, SyncAll, Rename, Drop
  <1>5. Fault(c) /\ ~IoError(c) => pc[c] \notin {"done", "dead", "idle"}
    BY DEF Fault, EarlyIoError, NoTempPath, CreateTempFails
  <1> QED BY <1>2, <1>3, <1>4, <1>5

\* A published file stays as it is.
LEMMA PublishedKeep ==
    ASSUME TypeOK, \A d \in Calls : CallInv(d), SealInv, OwnInv, TempInv,
           NEW c \in Calls, Start(c) \/ Advance(c) \/ Fault(c),
           NEW e \in Calls, NEW p \in DecOut, Published(e, p)
    PROVE  Published(e, p)'
  <1>1. pc[e] = "done" /\ arg[e] \in Requests BY DEF Published, CallInv
  <1>2. pc[c] # "done" BY Running
  <1>3. e # c BY <1>1, <1>2
  <1>4. data'[e] = data[e] /\ synced'[e] = synced[e]
    BY <1>1, <1>3, DecInodeKeep DEF Published
  <1>5. /\ pc'[e] = pc[e] /\ res'[e] = res[e] /\ arg'[e] = arg[e]
        /\ dk'[e] = dk[e] /\ prefix'[e] = prefix[e]
    BY <1>3, OthersKeep
  <1>6. dk[e] \in DataKeys /\ Complete(seals[dk[e]]) /\ bind[dk[e]] # NoBind
    BY DEF Published, Unwrapped
  <1>7. seals'[dk[e]] = seals[dk[e]] /\ bind'[dk[e]] = bind[dk[e]]
    BY <1>6, SealStep DEF StreamsGrow
  <1> QED BY <1>4, <1>5, <1>7 DEF Published, Unwrapped, Dec

\* A step of c leaves the callers' files where they are unless it creates an
\* encryption output or publishes, and other calls' temporary files always.
LEMMA PathKeep ==
    ASSUME TypeOK, \A d \in Calls : CallInv(d), NEW c \in Calls, Start(c) \/ Advance(c) \/ Fault(c)
    PROVE  /\ \A p \in Files : (p = arg[c].out => ~CreateOutput(c) /\ ~Rename(c)) => dir'[p] = dir[p]
           /\ \A o \in Files, e \in Calls : e # c => dir'[<<o, e>>] = dir[<<o, e>>]
           /\ \A o \in Files, e \in Calls :
                dir[<<o, e>>] = NoInode /\ ~CreateTemp(c) => dir'[<<o, e>>] = NoInode
  <1>1. CASE Start(c)
    BY <1>1 DEF Start, StartRejected, StartDecrypt, StartEncrypt, StartNoRandomness
  <1>2. CASE ~Start(c)
    <2>1. arg[c] \in Requests BY <1>2, Running DEF CallInv
    <2>2. TempOf(c) = <<arg[c].out, c>> /\ arg[c].out \in Files /\ TempOf(c) \in Temps
      BY <2>1, ArgTyped DEF TempOf, SiblingTempPath, Temps
    <2>3. \A o \in Files, e \in Calls : <<o, e>> \in Temps BY DEF Temps
    <2>4. \A p \in Files : (p = arg[c].out => ~CreateOutput(c) /\ ~Rename(c)) => dir'[p] = dir[p]
      BY <2>2, Names, DirKeep
    <2>5. ASSUME NEW o \in Files, NEW e \in Calls, <<o, e>> # TempOf(c)
          PROVE  dir'[<<o, e>>] = dir[<<o, e>>]
      <3>1. <<o, e>> \in Temps BY <2>3
      <3>2. <<o, e>> \in Paths /\ <<o, e>> # arg[c].out BY <2>2, <3>1, Names
      <3> QED BY <2>5, <3>2, DirKeep
    <2>6. \A o \in Files, e \in Calls : e # c => <<o, e>> # TempOf(c) BY <2>2
    <2>7. dir[TempOf(c)] = NoInode /\ ~CreateTemp(c) => dir'[TempOf(c)] = NoInode
      <3>1. TempOf(c) \in Paths /\ TempOf(c) # arg[c].out BY <2>2, Names
      <3>2. CreateOutput(c) => dir'[TempOf(c)] = dir[TempOf(c)]
        BY <3>1 DEF TypeOK, CreateOutput, CreateFile
      <3>3. Rename(c) => dir'[TempOf(c)] = NoInode BY <3>1 DEF TypeOK, Rename
      <3>4. Drop(c) => dir'[TempOf(c)] \in {NoInode, dir[TempOf(c)]} BY <3>1 DEF TypeOK, Drop
      <3>5. ~CreateOutput(c) /\ ~CreateTemp(c) /\ ~Rename(c) /\ ~Drop(c) => dir' = dir

          BY <1>2 DEF Advance, Fault, Unwind, OpenInput, UnusableInput, Read,
             ReadFull, ParseHeader, RejectHeader, EncryptNext, DecryptNext, EncryptLast,
             DecryptLast, HoldChunk, SegmentError, Push, Flush, Finish, SyncAll,
             EarlyIoError, NoTempPath, CreateTempFails, IoError
      <3> QED BY <3>2, <3>3, <3>4, <3>5
    <2> QED BY <2>4, <2>5, <2>6, <2>7
  <1> QED BY <1>1, <1>2

\* At rename the file of a decryption is complete and durable: the step
\* publishes it.
LEMMA RenamePublishes ==
    ASSUME TypeOK, \A d \in Calls : CallInv(d), \A d \in Calls : DecInv(d), NEW c \in Calls, Rename(c)
    PROVE  /\ arg[c] \in Requests /\ Dec(c) /\ arg' = arg
           /\ dir'[arg[c].out] = c /\ Published(c, arg[c].out)'
  <1>1. pc[c] = "rename" BY DEF Rename
  <1>2. arg[c] \in Requests /\ Dec(c) BY <1>1 DEF CallInv
  <1>3. /\ Unwrapped(c) /\ dir[TempOf(c)] = c
        /\ data[c] \o wbuf[c] = Upto(seals[dk[c]], ctr[c])
        /\ Complete(seals[dk[c]]) /\ ctr[c] = Len(seals[dk[c]])
        /\ wbuf[c] = <<>> /\ synced[c] = Len(data[c])
    BY <1>1, <1>2 DEF DecInv, Progress, Writing
  <1>4. data[c] \in Seq(Cell) BY Names DEF TypeOK
  <1>5. data[c] = Plain(seals[dk[c]])
    <2>1. data[c] \o wbuf[c] = data[c] BY <1>3, <1>4
    <2>2. seals[dk[c]] \in Seq(SealRecord) BY <1>3 DEF TypeOK, Unwrapped
    <2>3. seals[dk[c]] # <<>> BY <1>3 DEF Complete
    <2>4. Len(seals[dk[c]]) # 0 BY <2>2, <2>3
    <2>5. Upto(seals[dk[c]], ctr[c]) = seals[dk[c]][Len(seals[dk[c]])].upto BY <1>3, <2>4 DEF Upto
    <2>6. Plain(seals[dk[c]]) = seals[dk[c]][Len(seals[dk[c]])].upto BY <2>3 DEF Plain
    <2> QED BY <1>3, <2>1, <2>5, <2>6
  <1>6. arg[c].out \in Paths /\ TempOf(c) \in Paths /\ arg[c].out # TempOf(c)
    <2>1. arg[c].out \in Files /\ TempOf(c) \in Temps
      BY <1>2, ArgTyped DEF TempOf, SiblingTempPath, Temps
    <2> QED BY <2>1, Names
  <1>7. dir'[arg[c].out] = c BY <1>3, <1>6 DEF TypeOK, Rename
  <1>8. /\ pc'[c] = "done" /\ res'[c] = "Ok"
        /\ UNCHANGED <<arg, dk, prefix, bind, seals, data, synced>>
    BY DEF TypeOK, Rename, Return
  <1>9. Unwrapped(c)' BY <1>3, <1>8 DEF Unwrapped
  <1> QED BY <1>2, <1>3, <1>5, <1>7, <1>8, <1>9 DEF Published, Dec

\* Every step keeps inodes with their owners: encryptions never write a
\* decryption's file, and a decryption output names a file that was there
\* before or was published whole.
LEMMA OwnStep ==
    ASSUME TypeOK, \A d \in Calls : CallInv(d), SealInv, OwnInv, TempInv, \A d \in Calls : DecInv(d),
           NEW c \in Calls, Start(c) \/ Advance(c) \/ Fault(c)
    PROVE  OwnInv'
  <1>1. \A e \in Calls : Owner(e)' BY OwnerStep
  <1>2. ASSUME NEW p \in EncOut, dir'[p] # NoInode PROVE EncInode(dir[p])'
    <2>1. CASE CreateOutput(c) /\ p = arg[c].out
      <3>1. arg[c] \in Requests /\ Enc(c) /\ arg' = arg BY <2>1 DEF CallInv, CreateOutput
      <3>2. dir'[p] = fout'[c]
        BY <2>1, <3>1, ArgTyped DEF TypeOK, CreateOutput, CreateFile
      <3>3. EncInode(fout[c])' BY <1>1, <1>2, <3>1, <3>2 DEF Owner, Enc
      <3> QED BY <3>2, <3>3 DEF EncInode, Enc
    <2>2. CASE Rename(c) /\ p = arg[c].out
      <3>1. arg[c] \in Requests /\ Dec(c) BY <2>2 DEF CallInv, Rename
      <3> QED BY <2>2, <3>1, ArgTyped
    <2>3. CASE p = arg[c].out => ~CreateOutput(c) /\ ~Rename(c)
      <3>1. dir'[p] = dir[p] BY <2>3, PathKeep, Names
      <3>2. EncInode(dir[p]) /\ dir[p] \in Inodes
        BY <1>2, <3>1, Names DEF OwnInv, TypeOK
      <3>3. \A i \in Inodes : EncInode(i) => EncInode(i)' BY EncInodeKeep
      <3> QED BY <3>1, <3>2, <3>3 DEF EncInode, Enc
    <2> QED BY <2>1, <2>2, <2>3
  <1>3. ASSUME NEW p \in DecOut, dir'[p] # NoInode
        PROVE  dir'[p] = p \/ (dir'[p] \in Calls /\ Published(dir[p], p)')
    <2>1. CASE CreateOutput(c) /\ p = arg[c].out
      <3>1. arg[c] \in Requests /\ Enc(c) BY <2>1 DEF CallInv, CreateOutput
      <3> QED BY <2>1, <3>1, ArgTyped, Names
    <2>2. CASE Rename(c) /\ p = arg[c].out
      <3>1. dir'[p] = c /\ Published(c, p)' BY <2>2, RenamePublishes DEF Published, Unwrapped, Dec
      <3> QED BY <3>1 DEF Published, Unwrapped, Dec
    <2>3. CASE p = arg[c].out => ~CreateOutput(c) /\ ~Rename(c)
      <3>1. dir'[p] = dir[p] BY <2>3, PathKeep, Names
      <3>2. dir[p] = p \/ (dir[p] \in Calls /\ Published(dir[p], p)) BY <1>3, <3>1 DEF OwnInv
      <3>3. \A e \in Calls : Published(e, p) => Published(e, p)' BY PublishedKeep
      <3> QED BY <3>1, <3>2, <3>3 DEF Published, Unwrapped, Dec
    <2> QED BY <2>1, <2>2, <2>3
  <1>4. ASSUME NEW p \in DecOut PROVE synced'[p] = Len(data'[p])
    <2>1. ASSUME fout'[c] = p PROVE FALSE
      <3>1. fout'[c] # NoInode /\ fout'[c] # c /\ p \notin EncOut /\ p \notin Calls BY <2>1, Names
      <3>2. EncInode(fout[c])' BY <1>1, <3>1 DEF Owner
      <3> QED BY <2>1, <3>1, <3>2 DEF EncInode
    <2>2. data'[p] = data[p] /\ synced'[p] = synced[p] BY <2>1, DataKeep, Names
    <2> QED BY <2>2 DEF OwnInv
  <1> QED BY <1>1, <1>2, <1>3, <1>4 DEF OwnInv

----------------------------------------------------------------------------
(* Temporary files                                                         *)

\* A decryption with its temporary file open stays armed until it publishes
\* or cleans up.
LEMMA WritingStep ==
    ASSUME TypeOK, \A d \in Calls : CallInv(d), NEW c \in Calls, Start(c) \/ Advance(c) \/ Fault(c),
           pc[c] \in Writing \cup {"drop"}, Dec(c)
    PROVE  \/ Rename(c) \/ Drop(c)
           \/ /\ pc'[c] \in Writing \cup {"drop"} /\ res'[c] # "Ok"
              /\ UNCHANGED <<arg, dk, prefix, armed, dir, bind>>
  <1>1. CallInv(c) /\ arg[c] \in Requests /\ ~Enc(c) BY ArgTyped DEF CallInv, Writing
  <1>2. res[c] # "Ok" BY <1>1 DEF CallInv, Writing
  <1>3. ~Start(c) /\ ~OpenInput(c) /\ ~ParseHeader(c) /\ ~CreateOutput(c) /\ ~CreateTemp(c)
    BY Running DEF Writing, OpenInput, ParseHeader, CreateOutput, CreateTemp
  <1>4. ~UnusableInput(c) /\ ~RejectHeader(c) /\ ~EarlyIoError(c) /\ ~NoTempPath(c) /\ ~CreateTempFails(c)
    BY DEF Writing, UnusableInput, RejectHeader, EarlyIoError, NoTempPath, CreateTempFails
  <1>5. ~EncryptNext(c) /\ ~EncryptLast(c) /\ ~Finish(c)
    BY <1>1 DEF EncryptNext, EncryptLast, Finish, CallInv
  <1>6. Read(c) \/ ReadFull(c) \/ HoldChunk(c) =>
          /\ pc'[c] \in Writing \cup {"drop"} /\ res'[c] # "Ok"
          /\ UNCHANGED <<arg, dk, prefix, armed, dir, bind>>
    BY <1>2 DEF TypeOK, Writing, Read, ReadFull, HoldChunk
  <1>7. DecryptNext(c) \/ DecryptLast(c) =>
          /\ pc'[c] \in Writing \cup {"drop"} /\ res'[c] # "Ok"
          /\ UNCHANGED <<arg, dk, prefix, armed, dir, bind>>
    BY <1>2 DEF TypeOK, Writing, DecryptNext, DecryptLast
  <1>8. Push(c) \/ Flush(c) \/ SyncAll(c) =>
          /\ pc'[c] \in Writing \cup {"drop"} /\ res'[c] # "Ok"
          /\ UNCHANGED <<arg, dk, prefix, armed, dir, bind>>
    BY <1>2 DEF TypeOK, Writing, Push, Flush, SyncAll
  <1>9. SegmentError(c) \/ IoError(c) =>
          /\ pc'[c] \in Writing \cup {"drop"} /\ res'[c] # "Ok"
          /\ UNCHANGED <<arg, dk, prefix, armed, dir, bind>>
    BY DEF TypeOK, Unwind, SegmentError, IoError
  <1> QED BY <1>3, <1>4, <1>5, <1>6, <1>7, <1>8, <1>9 DEF Advance, Fault

\* Every step keeps each temporary file accounted for: TempCleanup is armed as
\* long as the file can be there, and only a crash or a failed remove_file
\* leaves it behind.
LEMMA TempStep ==
    ASSUME TypeOK, \A d \in Calls : CallInv(d), SealInv, TempInv, \A d \in Calls : DecInv(d),
           NEW c \in Calls, Start(c) \/ Advance(c) \/ Fault(c)
    PROVE  TempInv'
  <1> SUFFICES ASSUME NEW o \in Files, NEW e \in Calls, dir'[<<o, e>>] # NoInode
               PROVE  /\ dir'[<<o, e>>] = e
                      /\ arg'[e] \in Requests /\ Dec(e)' /\ arg'[e].out = o
                      /\ Unwrapped(e)' /\ res'[e] # "Ok"
                      /\ \/ pc'[e] \in Writing \cup {"drop"} /\ armed'[e] = TRUE
                         \/ pc'[e] = "dead"
                         \/ pc'[e] = "done" /\ e \in unlinkFailed'
    BY DEF TempInv
  <1>a. Unwrapped(e) /\ dk'[e] = dk[e] /\ prefix'[e] = prefix[e] /\ arg'[e] = arg[e] => Unwrapped(e)'
    BY SealStep DEF Unwrapped, StreamsGrow
  <1>1. CASE e # c
    <2>1. dir'[<<o, e>>] = dir[<<o, e>>] BY <1>1, PathKeep
    <2>2. /\ dir[<<o, e>>] = e /\ arg[e] \in Requests /\ Dec(e) /\ arg[e].out = o
          /\ Unwrapped(e) /\ res[e] # "Ok"
          /\ \/ pc[e] \in Writing \cup {"drop"} /\ armed[e] = TRUE
             \/ pc[e] = "dead"
             \/ pc[e] = "done" /\ e \in unlinkFailed
      BY <2>1 DEF TempInv
    <2>3. /\ pc'[e] = pc[e] /\ arg'[e] = arg[e] /\ res'[e] = res[e] /\ dk'[e] = dk[e]
          /\ prefix'[e] = prefix[e] /\ armed'[e] = armed[e]
          /\ e \in unlinkFailed' <=> e \in unlinkFailed
      BY <1>1, OthersKeep
    <2> QED BY <1>a, <2>1, <2>2, <2>3 DEF Dec
  <1>2. CASE e = c /\ CreateTemp(c)
    <2>1. pc[c] = "temp" /\ arg[c] \in Requests /\ Dec(c) /\ res[c] = "none"
      BY <1>2 DEF CreateTemp, CallInv, Early
    <2>2. Unwrapped(c) /\ dir[TempOf(c)] = NoInode BY <2>1, TempFree DEF DecInv
    <2>3. TempOf(c) = <<arg[c].out, c>> /\ TempOf(c) \in Paths
      BY <2>1, ArgTyped DEF TempOf, SiblingTempPath
    <2>4. /\ dir' = [dir EXCEPT ![TempOf(c)] = c] /\ pc'[c] = "read" /\ armed'[c] = TRUE
          /\ UNCHANGED <<arg, res, dk, prefix>>
      BY <1>2, <2>2 DEF TypeOK, CreateTemp, CreateFile
    <2>5. o = arg[c].out
      <3>1. ASSUME o # arg[c].out PROVE FALSE
        <4>1. dir'[<<o, c>>] = dir[<<o, c>>] BY <2>3, <2>4, <3>1, Names DEF TypeOK, Temps
        <4> QED BY <1>2, <3>1, <4>1 DEF TempInv
      <3> QED BY <3>1
    <2>6. dir'[<<o, c>>] = c BY <2>3, <2>4, <2>5 DEF TypeOK
    <2> QED BY <1>2, <1>a, <2>1, <2>2, <2>4, <2>5, <2>6 DEF Dec, Writing
  <1>3. CASE e = c /\ ~CreateTemp(c)
    <2>1. dir[<<o, c>>] # NoInode BY <1>3, PathKeep
    <2>2. /\ dir[<<o, c>>] = c /\ arg[c] \in Requests /\ Dec(c) /\ arg[c].out = o
          /\ Unwrapped(c) /\ res[c] # "Ok"
          /\ pc[c] \in Writing \cup {"drop"} /\ armed[c] = TRUE
      BY <2>1, Running DEF TempInv
    <2>3. TempOf(c) = <<o, c>> /\ TempOf(c) \in Paths
      BY <2>2, ArgTyped DEF TempOf, SiblingTempPath
    <2>4. ~Rename(c) BY <1>3, <2>3 DEF TypeOK, Rename
    <2>5. CASE Drop(c)
      <3>1. dir' = dir /\ c \in unlinkFailed' BY <1>3, <2>2, <2>3, <2>5 DEF TypeOK, Drop
      <3>2. pc'[c] = "done" /\ UNCHANGED <<arg, res, dk, prefix>> BY <2>5 DEF TypeOK, Drop
      <3> QED BY <1>3, <1>a, <2>2, <3>1, <3>2 DEF Dec
    <2>6. CASE /\ pc'[c] \in Writing \cup {"drop"} /\ res'[c] # "Ok"
               /\ UNCHANGED <<arg, dk, prefix, armed, dir, bind>>
      BY <1>3, <1>a, <2>2, <2>6 DEF Dec
    <2> QED BY <2>2, <2>4, <2>5, <2>6, WritingStep
  <1> QED BY <1>1, <1>2, <1>3

----------------------------------------------------------------------------
(* Decryption                                                              *)

\* What a decryption has made of the segments it opened does not change when
\* streams grow.
LEMMA UptoKeep ==
    ASSUME TypeOK, TypeOK', StreamsGrow, NEW k \in DataKeys, NEW n \in Nat, n <= Len(seals[k])
    PROVE  Upto(seals'[k], n) = Upto(seals[k], n) /\ n <= Len(seals'[k])
  <1>1. Len(seals[k]) \in Nat /\ Len(seals[k]) <= Len(seals'[k]) BY DEF TypeOK, StreamsGrow
  <1>2. n # 0 => seals'[k][n] = seals[k][n] BY <1>1 DEF StreamsGrow
  <1>3. Len(seals'[k]) \in Nat BY DEF TypeOK
  <1>4. Upto(seals'[k], n) = Upto(seals[k], n) BY <1>2 DEF Upto
  <1> QED BY <1>1, <1>3, <1>4

\* Concatenation is associative.
LEMMA Joined ==
    ASSUME NEW S, NEW x \in Seq(S), NEW y \in Seq(S), NEW z \in Seq(S)
    PROVE  x \o (y \o z) = (x \o y) \o z
OBVIOUS

\* Opening the next segment adds its message; the terminal one completes the
\* plaintext.
LEMMA OpenNext ==
    ASSUME TypeOK, SealInv, NEW c \in Calls, dk[c] \in DataKeys, NEW last \in BOOLEAN, NEW bs,
           Opens(dk[c], prefix[c], ctr[c], last, BlobSegmentAad(arg[c].id), bs),
           data[c] \o wbuf[c] = Upto(seals[dk[c]], ctr[c])
    PROVE  /\ ctr[c] + 1 <= Len(seals[dk[c]])
           /\ data[c] \o (wbuf[c] \o Opened(dk[c], ctr[c])) = Upto(seals[dk[c]], ctr[c] + 1)
           /\ last => Complete(seals[dk[c]]) /\ ctr[c] + 1 = Len(seals[dk[c]])
  <1> DEFINE ss == seals[dk[c]]
  <1> DEFINE n == ctr[c] + 1
  <1>1. ss \in Seq(SealRecord) /\ ctr[c] \in Nat /\ Len(ss) \in Nat BY DEF TypeOK
  <1>2. ctr[c] < Len(ss) /\ ss[n].last = last BY DEF Opens
  <1>3. n \in 1 .. Len(ss) BY <1>1, <1>2
  <1>4. /\ ss[n].last => n = Len(ss)
        /\ ss[n].upto = (IF n = 1 THEN <<>> ELSE ss[n - 1].upto) \o ss[n].msg
    BY <1>3 DEF SealInv, SealChain
  <1>5. Upto(ss, ctr[c]) = IF n = 1 THEN <<>> ELSE ss[n - 1].upto BY <1>1 DEF Upto
  <1>6. Upto(ss, n) = ss[n].upto BY <1>1 DEF Upto
  <1>7. Opened(dk[c], ctr[c]) = ss[n].msg BY DEF Opened
  <1>8. /\ data[c] \in Seq(Cell) /\ wbuf[c] \in Seq(Cell) /\ Opened(dk[c], ctr[c]) \in Seq(Cell)
    BY <1>1, <1>2, OpenedTyped, Names DEF TypeOK
  <1> HIDE DEF ss, n
  <1>9. data[c] \o (wbuf[c] \o Opened(dk[c], ctr[c])) = (data[c] \o wbuf[c]) \o Opened(dk[c], ctr[c])
    <2>1. \A x, y, z \in Seq(Cell) : x \o (y \o z) = (x \o y) \o z BY Joined
    <2> QED BY <1>8, <2>1, Zenon
  <1>10. Upto(ss, n) = Upto(ss, ctr[c]) \o Opened(dk[c], ctr[c]) BY <1>4, <1>5, <1>6, <1>7
  <1>11. last => n = Len(ss) /\ ss[Len(ss)].last BY <1>2, <1>4
  <1>12. ss # <<>> BY <1>3
  <1> QED BY <1>3, <1>9, <1>10, <1>11, <1>12 DEF Complete, ss, n

\* A step of one call does not disturb another's decryption.
LEMMA DecOthers ==
    ASSUME TypeOK, \A d \in Calls : CallInv(d), SealInv, OwnInv, TempInv, \A d \in Calls : DecInv(d),
           NEW c \in Calls, Start(c) \/ Advance(c) \/ Fault(c), NEW e \in Calls, e # c
    PROVE  DecInv(e)'
  <1>1. /\ pc'[e] = pc[e] /\ arg'[e] = arg[e] /\ dk'[e] = dk[e] /\ prefix'[e] = prefix[e]
        /\ ctr'[e] = ctr[e] /\ fout'[e] = fout[e] /\ woff'[e] = woff[e] /\ wbuf'[e] = wbuf[e]
        /\ due'[e] = due[e] /\ armed'[e] = armed[e]
    BY OthersKeep
  <1>2. StreamsGrow BY SealStep
  <1>3. Unwrapped(e) => Unwrapped(e)' BY <1>1, <1>2 DEF Unwrapped, StreamsGrow
  <1>4. Dec(e)' <=> Dec(e) BY <1>1 DEF Dec
  <1>5. ASSUME pc[e] \in Writing, Dec(e) PROVE Progress(e)'
    <2>1. arg[e] \in Requests BY <1>5 DEF CallInv, Writing
    <2>2. data'[e] = data[e] /\ synced'[e] = synced[e] BY <1>5, <2>1, DecInodeKeep
    <2>3. dir'[TempOf(e)] = dir[TempOf(e)] /\ TempOf(e)' = TempOf(e)
      BY <1>1, <2>1, ArgTyped, PathKeep DEF TempOf, SiblingTempPath
    <2>4. Unwrapped(e) /\ Progress(e) BY <1>5 DEF DecInv
    <2>5. dk[e] \in DataKeys /\ ctr[e] \in Nat /\ ctr[e] <= Len(seals[dk[e]])
      BY <2>4 DEF Unwrapped, Progress, TypeOK
    <2>6. Upto(seals'[dk[e]], ctr[e]) = Upto(seals[dk[e]], ctr[e]) /\ ctr[e] <= Len(seals'[dk[e]])
      BY <1>2, <2>5, UptoKeep, TypeStep
    <2>7. Complete(seals[dk[e]]) => seals'[dk[e]] = seals[dk[e]] BY <1>2, <2>5 DEF StreamsGrow
    <2> QED BY <1>1, <2>2, <2>3, <2>4, <2>6, <2>7 DEF Progress
  <1>6. /\ pc'[e] = "temp" \/ (pc'[e] \in Writing /\ Dec(e)') => Unwrapped(e)'
        /\ pc'[e] \in Writing /\ Dec(e)' => Progress(e)'
    BY <1>1, <1>3, <1>4, <1>5 DEF DecInv
  <1> QED BY <1>6 DEF DecInv

\* The header check is what gives a decryption its key.
LEMMA HeaderUnwraps ==
    ASSUME TypeOK, NEW c \in Calls, ParseHeader(c)
    PROVE  Unwrapped(c)'
  <1>1. PICK k \in DataKeys : /\ HeaderOpens(k, buf[c], arg[c].wk, arg[c].id)
                              /\ dk' = [dk EXCEPT ![c] = k]
    BY DEF ParseHeader
  <1>2. /\ bind[k] # NoBind /\ bind[k] = Wrap(arg[c].wk, arg[c].id, buf[c][3])
        /\ buf[c][3] \in PrefixCell
    BY <1>1 DEF HeaderOpens, Unwraps
  <1>3. /\ prefix' = [prefix EXCEPT ![c] = buf[c][3]] /\ UNCHANGED <<arg, bind>>
    BY DEF ParseHeader
  <1>4. dk'[c] = k /\ prefix'[c] = buf[c][3] BY <1>1, <1>3 DEF TypeOK
  <1> QED BY <1>2, <1>3, <1>4 DEF Unwrapped

\* A write() moves buffered plaintext to the end of the temporary file.
LEMMA PushProgress ==
    ASSUME TypeOK, NEW c \in Calls, CallInv(c), arg[c] \in Requests, Push(c), Progress(c)
    PROVE  Progress(c)'
  <1>1. PICK n \in 1 .. due[c] :
          /\ PushBytes(c, n)
          /\ wbuf' = [wbuf EXCEPT ![c] = SubSeq(@, n + 1, Len(@))]
          /\ due' = [due EXCEPT ![c] = @ - n]
    BY DEF Push
  <1>2. /\ UNCHANGED <<pc, arg, dk, ctr, fout, armed, dir, seals>> /\ due[c] > 0 BY DEF Push
  <1>3. /\ data[c] \in Seq(Cell) /\ wbuf[c] \in Seq(Cell) /\ due[c] \in Nat /\ woff[c] = Len(data[c])
        /\ fout[c] = c /\ due[c] <= Len(wbuf[c]) /\ Len(wbuf[c]) \in Nat
    BY Names DEF TypeOK, Progress, CallInv
  <1>4. n \in 0 .. Len(wbuf[c]) /\ n \in Nat BY <1>1, <1>3
  <1> DEFINE x == SubSeq(wbuf[c], 1, n)
  <1> DEFINE y == SubSeq(wbuf[c], n + 1, Len(wbuf[c]))
  <1>5. x \in Seq(Cell) /\ y \in Seq(Cell) /\ Len(x) = n /\ Len(y) = Len(wbuf[c]) - n /\ x \o y = wbuf[c]
    BY <1>3, <1>4, CutAndJoin
  <1>6. data'[c] = WriteAt(data[c], Len(data[c]), x) /\ woff'[c] = Len(data[c]) + n
    BY <1>1, <1>3, Names DEF TypeOK, PushBytes
  <1>7. wbuf'[c] = y /\ due'[c] = due[c] - n BY <1>1 DEF TypeOK
  <1> HIDE DEF x, y
  <1>8. data'[c] = data[c] \o x BY <1>3, <1>5, <1>6, WriteAtEnd
  <1>9. Len(data'[c]) = Len(data[c]) + n BY <1>3, <1>5, <1>8
  <1>10. data'[c] \o wbuf'[c] = data[c] \o wbuf[c]
    <2>1. \A u, v, w \in Seq(Cell) : u \o (v \o w) = (u \o v) \o w BY Joined
    <2>2. data[c] \o (x \o y) = (data[c] \o x) \o y BY <1>3, <1>5, <2>1, Zenon
    <2> QED BY <1>5, <1>7, <1>8, <2>2
  <1>11. pc[c] # "rename" BY <1>2 DEF CallInv
  <1>12. pc'[c] = "sync" => due'[c] = Len(wbuf'[c])
    BY <1>2, <1>3, <1>4, <1>5, <1>7 DEF Progress
  <1>13. TempOf(c)' = TempOf(c) BY <1>2 DEF TempOf, SiblingTempPath
  <1> QED BY <1>2, <1>6, <1>9, <1>10, <1>11, <1>12, <1>13 DEF Progress

\* Opening a segment appends its plaintext to the BufWriter.
LEMMA OpenProgress ==
    ASSUME TypeOK, SealInv, NEW c \in Calls, Unwrapped(c), Progress(c), DecryptNext(c) \/ DecryptLast(c)
    PROVE  Progress(c)'
  <1>1. dk[c] \in DataKeys /\ ctr[c] \in Nat BY DEF Unwrapped, TypeOK
  <1>2. data[c] \o wbuf[c] = Upto(seals[dk[c]], ctr[c]) BY DEF Progress
  <1>3. PICK last \in BOOLEAN, bs \in {pending[c], buf[c]} :
          /\ Opens(dk[c], prefix[c], ctr[c], last, BlobSegmentAad(arg[c].id), bs)
          /\ pc'[c] = IF last THEN "flush" ELSE "tail"
    <2>1. CASE DecryptNext(c) BY <2>1 DEF TypeOK, DecryptNext
    <2>2. CASE DecryptLast(c) BY <2>2 DEF TypeOK, DecryptLast
    <2> QED BY <2>1, <2>2
  <1>4. /\ ctr[c] + 1 <= Len(seals[dk[c]])
        /\ data[c] \o (wbuf[c] \o Opened(dk[c], ctr[c])) = Upto(seals[dk[c]], ctr[c] + 1)
        /\ last => Complete(seals[dk[c]]) /\ ctr[c] + 1 = Len(seals[dk[c]])
    BY <1>1, <1>2, <1>3, OpenNext
  <1>5. /\ UNCHANGED <<arg, dk, fout, woff, armed, dir, data, seals>>
        /\ ctr' = [ctr EXCEPT ![c] = @ + 1]
        /\ wbuf' = [wbuf EXCEPT ![c] = @ \o Opened(dk[c], ctr[c])]
    BY DEF DecryptNext, DecryptLast, WriteThrough, WriteRemainder
  <1>6. ctr'[c] = ctr[c] + 1 /\ wbuf'[c] = wbuf[c] \o Opened(dk[c], ctr[c]) BY <1>5 DEF TypeOK
  <1>7. TempOf(c)' = TempOf(c) BY <1>5 DEF TempOf, SiblingTempPath
  <1>8. pc'[c] \in {"flush", "sync", "rename"} => last BY <1>3
  <1>9. pc'[c] # "sync" /\ pc'[c] # "rename" BY <1>3
  <1> QED BY <1>4, <1>5, <1>6, <1>7, <1>8, <1>9 DEF Progress

\* The call's own steps keep the correspondence between its temporary file and
\* the segments it has opened.
LEMMA DecSelf ==
    ASSUME TypeOK, \A d \in Calls : CallInv(d), SealInv, TempInv, \A d \in Calls : DecInv(d),
           NEW c \in Calls, Start(c) \/ Advance(c) \/ Fault(c)
    PROVE  DecInv(c)'
  <1> SUFFICES /\ pc'[c] = "temp" \/ (pc'[c] \in Writing /\ Dec(c)') => Unwrapped(c)'
               /\ pc'[c] \in Writing /\ Dec(c)' => Progress(c)'
    BY DEF DecInv
  <1>0. CallInv(c) OBVIOUS
  <1>1. CASE Start(c)
    <2>1. pc'[c] \in {"open", "done"}
      BY <1>1 DEF TypeOK, Start, StartRejected, StartDecrypt, StartEncrypt, StartNoRandomness, Return
    <2> QED BY <2>1 DEF Writing
  <1>2. CASE ParseHeader(c)
    <2>1. pc'[c] = "temp" BY <1>2 DEF TypeOK, ParseHeader
    <2> QED BY <1>2, <2>1, HeaderUnwraps DEF Writing
  <1>3. CASE CreateTemp(c)
    <2>1. pc[c] = "temp" /\ arg[c] \in Requests /\ Dec(c) /\ wbuf[c] = <<>> /\ woff[c] = 0 /\ ctr[c] = 0
      BY <1>0, <1>3 DEF CreateTemp, CallInv, Early
    <2>2. Unwrapped(c) /\ dir[TempOf(c)] = NoInode BY <2>1, TempFree DEF DecInv
    <2>3. /\ dir' = [dir EXCEPT ![TempOf(c)] = c] /\ data' = [data EXCEPT ![c] = <<>>] /\ fout' = [fout EXCEPT ![c] = c]
          /\ pc' = [pc EXCEPT ![c] = "read"] /\ armed' = [armed EXCEPT ![c] = TRUE]
          /\ UNCHANGED <<arg, dk, prefix, ctr, woff, wbuf, bind, seals>>
      BY <1>3, <2>2 DEF CreateTemp, CreateFile
    <2>4. /\ dir'[TempOf(c)] = c /\ data'[c] = <<>> /\ fout'[c] = c /\ pc'[c] = "read" /\ armed'[c] = TRUE
      BY <2>1, <2>3, ArgTyped, Names DEF TypeOK
    <2>5. TempOf(c)' = TempOf(c) BY <2>3 DEF TempOf, SiblingTempPath
    <2>6. Len(seals[dk[c]]) \in Nat BY <2>2 DEF TypeOK, Unwrapped
    <2>7. data'[c] \o wbuf'[c] = Upto(seals'[dk'[c]], ctr'[c])
      <3>1. data'[c] \o wbuf'[c] = <<>> BY <2>1, <2>3, <2>4
      <3> QED BY <2>1, <2>3, <3>1 DEF Upto
    <2>8. woff'[c] = Len(data'[c]) /\ ctr'[c] <= Len(seals'[dk'[c]])
      <3>1. woff'[c] = 0 /\ ctr'[c] = 0 /\ seals'[dk'[c]] = seals[dk[c]] BY <2>1, <2>3
      <3> QED BY <2>4, <2>6, <3>1
    <2>9. Progress(c)' BY <2>4, <2>5, <2>7, <2>8 DEF Progress
    <2> QED BY <2>2, <2>3, <2>4, <2>9 DEF Unwrapped
  <1>4. CASE pc[c] \in Writing /\ Dec(c)
    <2>1. arg[c] \in Requests /\ Unwrapped(c) /\ Progress(c)
      BY <1>0, <1>4 DEF DecInv, CallInv, Writing
    <2>a. UNCHANGED <<arg, dk, prefix, bind>> => Unwrapped(c)' BY <2>1 DEF Unwrapped
    <2>b. UNCHANGED arg => TempOf(c)' = TempOf(c) BY DEF TempOf, SiblingTempPath
    <2>2. CASE Rename(c) \/ Drop(c)
      <3>1. pc'[c] = "done" BY <2>2 DEF TypeOK, Rename, Return, Drop
      <3> QED BY <3>1 DEF Writing
    <2>3. CASE UNCHANGED <<arg, dk, prefix, armed, dir, bind>>
      <3>1. CASE pc'[c] = "drop" BY <3>1 DEF Writing
      <3>2. CASE Read(c) \/ ReadFull(c) \/ HoldChunk(c)
        <4>1. UNCHANGED <<fout, woff, wbuf, ctr, data, seals>> BY <3>2 DEF Read, ReadFull, HoldChunk
        <4>2. Read(c) => pc'[c] = "read" BY <1>4 DEF Read, Writing
        <4>3. ReadFull(c) => pc'[c] \in {"pend", "tail"} BY DEF TypeOK, ReadFull
        <4>4. HoldChunk(c) => pc'[c] = "read" BY DEF TypeOK, HoldChunk
        <4>x. pc'[c] \notin {"flush", "sync", "rename", "temp"} BY <3>2, <4>2, <4>3, <4>4
        <4> QED BY <2>1, <2>a, <2>b, <2>3, <4>1, <4>x DEF Progress
      <3>3. CASE DecryptNext(c) \/ DecryptLast(c)
        BY <2>1, <2>a, <2>3, <3>3, OpenProgress
      <3>4. CASE Push(c) BY <1>0, <2>1, <2>a, <2>3, <3>4, PushProgress
      <3>5. CASE Flush(c)
        <4>1. /\ pc[c] = "flush" /\ pc'[c] = "sync" /\ due'[c] = Len(wbuf[c])
              /\ UNCHANGED <<fout, woff, wbuf, ctr, data, seals>>
          BY <1>4, <2>1, <3>5, ArgTyped DEF TypeOK, Flush
        <4> QED BY <2>1, <2>a, <2>b, <2>3, <4>1 DEF Progress
      <3>6. CASE SyncAll(c)
        <4>1. /\ pc[c] = "sync" /\ pc'[c] = "rename" /\ due[c] = 0
              /\ UNCHANGED <<fout, woff, wbuf, ctr, data, seals>>
              /\ synced' = [synced EXCEPT ![fout[c]] = Len(data[fout[c]])]
          BY <3>6 DEF TypeOK, SyncAll
        <4>2. fout[c] = c /\ Len(wbuf[c]) = 0 /\ wbuf[c] \in Seq(Cell)
          BY <2>1, <4>1 DEF Progress, TypeOK
        <4>3. wbuf[c] = <<>> /\ synced'[c] = Len(data[c]) BY <4>1, <4>2, Names DEF TypeOK
        <4> QED BY <2>1, <2>a, <2>b, <2>3, <4>1, <4>3 DEF Progress
      <3>7. SegmentError(c) \/ IoError(c) => pc'[c] = "drop"
        BY DEF TypeOK, SegmentError, IoError, Unwind
      <3>8. ~OpenInput(c) /\ ~ParseHeader(c) /\ ~CreateOutput(c) /\ ~CreateTemp(c) /\ ~Start(c)
        BY <1>4, Running DEF Writing, OpenInput, ParseHeader, CreateOutput, CreateTemp
      <3>9. ~UnusableInput(c) /\ ~RejectHeader(c) /\ ~EarlyIoError(c) /\ ~NoTempPath(c) /\ ~CreateTempFails(c)
        BY <1>4 DEF Writing, UnusableInput, RejectHeader, EarlyIoError, NoTempPath, CreateTempFails
      <3>10. ~EncryptNext(c) /\ ~EncryptLast(c) /\ ~Finish(c)
        BY <1>0, <1>4, <2>1, ArgTyped DEF EncryptNext, EncryptLast, Finish, CallInv
      <3> QED BY <2>2, <3>1, <3>2, <3>3, <3>4, <3>5, <3>6, <3>7, <3>8, <3>9, <3>10 DEF Advance, Fault
    <2> QED BY <1>4, <2>2, <2>3, WritingStep
  <1>5. CASE /\ ~Start(c) /\ ~ParseHeader(c) /\ ~CreateTemp(c) /\ ~(pc[c] \in Writing /\ Dec(c))
    <2>1. arg[c] \in Requests /\ arg'[c] = arg[c] BY <1>5, Running, ArgKeep DEF CallInv
    <2>2. Dec(c)' <=> Dec(c) BY <2>1 DEF Dec
    <2> DEFINE Out == pc'[c] # "temp" /\ (Dec(c) => pc'[c] \notin Writing)
    <2>3. UnusableInput(c) \/ RejectHeader(c) \/ Finish(c) \/ Rename(c) \/ EarlyIoError(c) \/ NoTempPath(c) => Out
      BY DEF TypeOK, Writing, Return, UnusableInput, RejectHeader, Finish, Rename, EarlyIoError, NoTempPath
    <2>4. SegmentError(c) \/ IoError(c) \/ CreateTempFails(c) \/ Drop(c) => Out
      BY DEF TypeOK, Writing, Unwind, SegmentError, IoError, CreateTempFails, Drop
    <2>5. OpenInput(c) => Out BY DEF TypeOK, Writing, OpenInput
    <2>6. Read(c) => Out BY <1>5 DEF TypeOK, Writing, Read
    <2>7. ReadFull(c) \/ HoldChunk(c) => Out BY <1>5 DEF TypeOK, Writing, ReadFull, HoldChunk
    <2>8. Flush(c) \/ SyncAll(c) => Out BY <1>5 DEF TypeOK, Writing, Flush, SyncAll
    <2>9. DecryptNext(c) \/ DecryptLast(c) => Out BY <1>5 DEF TypeOK, Writing, DecryptNext, DecryptLast
    <2>10. EncryptNext(c) \/ EncryptLast(c) => Out BY <1>5 DEF TypeOK, Writing, EncryptNext, EncryptLast
    <2>11. CreateOutput(c) => Out
      <3>1. CreateOutput(c) => ~Dec(c) BY <1>0, <2>1, ArgTyped DEF CreateOutput, CallInv
      <3> QED BY <3>1 DEF TypeOK, CreateOutput
    <2>12. Push(c) => Out
      <3>1. Push(c) => pc[c] \in Writing /\ pc' = pc BY <1>0 DEF Push, CallInv
      <3> QED BY <1>5, <3>1 DEF Writing
    <2>13. Out
      <3> HIDE DEF Out
      <3> QED BY <1>5, <2>3, <2>4, <2>5, <2>6, <2>7, <2>8, <2>9, <2>10, <2>11, <2>12 DEF Advance, Fault
    <2> QED BY <2>2, <2>13
  <1> QED BY <1>1, <1>2, <1>3, <1>4, <1>5

----------------------------------------------------------------------------
(* Initial states and crashes                                              *)

\* The blobs sealed earlier are typed, and their segments form chains.
LEMMA StoredTyped ==
    ASSUME NEW k \in Stored
    PROVE  StoredBind[k] \in WrapRecord /\ SealChain(StoredSeals[k])
  <1>1. PICK wk \in WrapKeys, id \in BlobIds, cell \in PrefixCell :
          /\ StoredBind[k] = Wrap(wk, id, cell) /\ Stream(StoredSeals[k], id, cell)
    BY StoredAssumption
  <1>2. Wrap(wk, id, cell) \in WrapRecord BY DEF WrapRecord
  <1> QED BY <1>1, <1>2 DEF Stream

\* A file system with any files the callers left there, and no call started,
\* satisfies the invariant.
LEMMA InitInv == Init => IndInv
  <1> SUFFICES ASSUME Init PROVE IndInv OBVIOUS
  <1>1. PICK d \in Disks :
          /\ dir = [p \in Paths |-> IF p \in DOMAIN d THEN p ELSE NoInode]
          /\ data = [i \in Inodes |-> IF i \in DOMAIN d THEN d[i] ELSE <<>>]
          /\ synced = [i \in Inodes |-> IF i \in DOMAIN d THEN Len(d[i]) ELSE 0]
    BY DEF Init
  <1>2. DOMAIN d \subseteq Files /\ \A f \in DOMAIN d : d[f] \in Seq(Cell) BY DiskAssumption
  <1>3. Zero \in Cell BY ByteAssumption DEF Cell
  <1>4. /\ dir \in [Paths -> Inodes \cup {NoInode}] /\ data \in [Inodes -> Seq(Cell)]
        /\ synced \in [Inodes -> Nat]
    <2>1. \A i \in Inodes : (IF i \in DOMAIN d THEN d[i] ELSE <<>>) \in Seq(Cell) BY <1>2
    <2>2. \A i \in Inodes : (IF i \in DOMAIN d THEN Len(d[i]) ELSE 0) \in Nat BY <1>2
    <2> QED BY <1>1, <1>2, <2>1, <2>2, Names
  <1>5. /\ bind \in [DataKeys -> WrapRecord \cup {NoBind}]
        /\ seals \in [DataKeys -> Seq(SealRecord)]
    <2>1. \A k \in DataKeys : (IF k \in Stored THEN StoredBind[k] ELSE NoBind) \in WrapRecord \cup {NoBind}
      BY StoredTyped
    <2>2. \A k \in DataKeys : (IF k \in Stored THEN StoredSeals[k] ELSE <<>>) \in Seq(SealRecord)
      BY StoredAssumption
    <2> QED BY <2>1, <2>2 DEF Init
  <1>6. /\ pc = [c \in Calls |-> "idle"] /\ arg = [c \in Calls |-> NoCall]
        /\ res = [c \in Calls |-> "none"] /\ fout = [c \in Calls |-> NoInode]
        /\ woff = [c \in Calls |-> 0] /\ ctr = [c \in Calls |-> 0] /\ due = [c \in Calls |-> 0]
        /\ wbuf = [c \in Calls |-> <<>>] /\ armed = [c \in Calls |-> FALSE]
    BY DEF Init
  <1>7. TypeOK
    <2>1. /\ buf \in [Calls -> Seq(Cell)] /\ pending \in [Calls -> Seq(Cell)]
          /\ wbuf \in [Calls -> Seq(Cell)]
      BY DEF Init
    <2>2. 0 \in 0 .. MaxCrashes BY CrashAssumption
    <2> QED BY <1>3, <1>4, <1>5, <2>1, <2>2 DEF TypeOK, Init
  <1>8. \A c \in Calls : CallInv(c) BY <1>6 DEF CallInv, Early, Writing
  <1>9. SealInv
    <2>1. \A c \in Calls : ~Sealing(c) BY <1>6 DEF Sealing
    <2>2. SealChain(<<>>) BY DEF SealChain
    <2>3. ASSUME NEW k \in DataKeys PROVE SealChain(seals[k]) /\ (bind[k] = NoBind => seals[k] = <<>>)
      <3>1. CASE k \in Stored
        <4>1. seals[k] = StoredSeals[k] /\ bind[k] = StoredBind[k] BY <3>1 DEF Init
        <4> QED BY <3>1, <4>1, StoredTyped, WrapAssumption
      <3>2. CASE k \notin Stored
        <4>1. seals[k] = <<>> BY <3>2 DEF Init
        <4> QED BY <2>2, <4>1
      <3> QED BY <3>1, <3>2
    <2> QED BY <2>1, <2>3 DEF SealInv
  <1>10. OwnInv
    <2>1. \A c \in Calls : Owner(c) BY <1>6 DEF Owner
    <2>2. \A p \in Files : dir[p] \in {p, NoInode} /\ synced[p] = Len(data[p])
      <3>1. ASSUME NEW p \in Files PROVE dir[p] \in {p, NoInode} /\ synced[p] = Len(data[p])
        <4>1. dir[p] \in {p, NoInode} BY <1>1, Names
        <4>2. CASE p \in DOMAIN d BY <1>1, <4>1, <4>2, Names
        <4>3. CASE p \notin DOMAIN d
          <5>1. synced[p] = 0 /\ data[p] = <<>> BY <1>1, <4>3, Names
          <5> QED BY <4>1, <5>1
        <4> QED BY <4>2, <4>3
      <3> QED BY <3>1
    <2> QED BY <2>1, <2>2, Names DEF OwnInv, EncInode
  <1>11. TempInv
    <2>1. \A o \in Files, c \in Calls : <<o, c>> \in Temps BY DEF Temps
    <2>2. \A t \in Temps : dir[t] = NoInode BY <1>1, <1>2, Names
    <2> QED BY <2>1, <2>2 DEF TempInv
  <1>12. \A c \in Calls : DecInv(c) BY <1>6 DEF DecInv, Writing
  <1> QED BY <1>7, <1>8, <1>9, <1>10, <1>11, <1>12 DEF IndInv

\* A crash damages only files with unsynced data.
LEMMA CrashData ==
    ASSUME TypeOK, Crash
    PROVE  /\ data' \in [Inodes -> Seq(Cell)] /\ synced' \in [Inodes -> Nat]
           /\ \A i \in Inodes : synced[i] = Len(data[i]) =>
                data'[i] = data[i] /\ synced'[i] = Len(data'[i])
  <1>1. PICK holes \in SUBSET Dirty, keep \in [Dirty -> UNION {synced[i] .. Len(data[i]) : i \in Dirty}] :
         /\ \A i \in Dirty : synced[i] <= keep[i] /\ keep[i] <= Len(data[i])
         /\ data' = [i \in Inodes |->
                IF i \notin Dirty THEN data[i]
                ELSE IF i \in holes
                THEN [j \in 1 .. Len(data[i]) |-> IF j <= keep[i] THEN data[i][j] ELSE Zero]
                ELSE SubSeq(data[i], 1, keep[i])]
         /\ synced' = [i \in Inodes |-> Len(data'[i])]
    BY DEF Crash
  <1>2. Zero \in Cell BY ByteAssumption DEF Cell
  <1>3. ASSUME NEW i \in Inodes PROVE data'[i] \in Seq(Cell)
    <2>1. data[i] \in Seq(Cell) /\ synced[i] \in Nat /\ Len(data[i]) \in Nat BY DEF TypeOK
    <2>2. CASE i \notin Dirty BY <1>1, <2>1, <2>2
    <2>3. CASE i \in Dirty /\ i \in holes
      <3>1. data'[i] = [j \in 1 .. Len(data[i]) |-> IF j <= keep[i] THEN data[i][j] ELSE Zero]
        BY <1>1, <2>3
      <3> QED BY <1>2, <2>1, <3>1
    <2>4. CASE i \in Dirty /\ i \notin holes
      <3>1. data'[i] = SubSeq(data[i], 1, keep[i]) BY <1>1, <2>4
      <3>2. keep[i] \in 0 .. Len(data[i])
        <4>1. keep[i] \in UNION {synced[j] .. Len(data[j]) : j \in Dirty} BY <1>1, <2>4
        <4>2. keep[i] \in Int BY <4>1
        <4>3. synced[i] <= keep[i] /\ keep[i] <= Len(data[i]) BY <1>1, <2>4
        <4> QED BY <2>1, <4>2, <4>3
      <3> QED BY <2>1, <3>1, <3>2, SubSeqTyped
    <2> QED BY <2>2, <2>3, <2>4
  <1>4. \A i \in Inodes : synced'[i] = Len(data'[i]) /\ synced'[i] \in Nat BY <1>1, <1>3
  <1>5. \A i \in Inodes : synced[i] = Len(data[i]) => data'[i] = data[i]
    BY <1>1 DEF TypeOK, Dirty
  <1>6. /\ data' \in [Inodes -> Seq(Cell)] /\ synced' \in [Inodes -> Nat]
    <2>1. DOMAIN data' = Inodes /\ data' = [i \in Inodes |-> data'[i]]
          /\ synced' = [i \in Inodes |-> synced'[i]]
      BY <1>1
    <2> QED BY <1>3, <1>4, <2>1
  <1> QED BY <1>4, <1>5, <1>6

\* A crash loses unsynced bytes only, so what was published, which was synced
\* before rename, survives.
LEMMA CrashInv ==
    ASSUME IndInv, Crash
    PROVE  IndInv'
  <1>1. /\ pc' = [c \in Calls |-> IF Active(c) THEN "dead" ELSE pc[c]]
        /\ buf' = [c \in Calls |-> <<>>] /\ pending' = [c \in Calls |-> <<>>]
        /\ wbuf' = [c \in Calls |-> <<>>] /\ due' = [c \in Calls |-> 0]
        /\ crashes < MaxCrashes /\ crashes' = crashes + 1
        /\ UNCHANGED <<bind, seals, arg, res, fin, pos, dk, prefix, ctr, fout, woff, armed, dir, unlinkFailed>>
    BY DEF Crash
  <1>2. TypeOK BY DEF IndInv
  <1>3. \A c \in Calls : /\ pc'[c] \in {"idle", "done", "dead"}
                         /\ pc[c] \in {"idle", "done", "dead"} => pc'[c] = pc[c]
                         /\ pc[c] \notin {"idle", "done", "dead"} => pc'[c] = "dead"
    BY <1>1 DEF Active
  <1>4. TypeOK'
    <2>1. /\ buf' \in [Calls -> Seq(Cell)] /\ pending' \in [Calls -> Seq(Cell)]
          /\ wbuf' \in [Calls -> Seq(Cell)] /\ due' \in [Calls -> Nat]
      BY <1>1
    <2>2. pc' \in [Calls -> {"idle", "open", "create", "header", "temp", "read", "pend",
                         "tail", "flush", "finish", "sync", "rename", "drop",
                         "done", "dead"}]
      BY <1>1, <1>2 DEF TypeOK
    <2>3. crashes' \in 0 .. MaxCrashes BY <1>1, <1>2, CrashAssumption DEF TypeOK
    <2>4. data' \in [Inodes -> Seq(Cell)] /\ synced' \in [Inodes -> Nat] BY <1>2, CrashData
    <2> QED BY <1>1, <1>2, <2>1, <2>2, <2>3, <2>4 DEF TypeOK
  <1>5. ASSUME NEW c \in Calls PROVE CallInv(c)'
    <2>1. CallInv(c) BY DEF IndInv
    <2>2. wbuf'[c] = <<>> /\ due'[c] = 0 /\ due'[c] <= Len(wbuf'[c]) BY <1>1
    <2>3. CASE pc'[c] = "dead"
      <3>1. res[c] # "Ok" /\ pc[c] # "idle"
        BY <1>2, <1>3, <2>1, <2>3 DEF CallInv, Early, Writing, TypeOK
      <3> QED BY <1>1, <2>1, <2>2, <2>3, <3>1 DEF CallInv, Early, Writing
    <2>4. CASE pc'[c] # "dead"
      <3>1. pc'[c] = pc[c] /\ pc[c] \in {"idle", "done"} BY <1>3, <2>4
      <3> QED BY <1>1, <2>1, <2>2, <3>1 DEF CallInv, Early, Writing
    <2> QED BY <2>3, <2>4
  <1>6. SealInv'
    <2>1. \A c \in Calls : ~Sealing(c)' BY <1>3 DEF Sealing
    <2> QED BY <1>1, <2>1 DEF IndInv, SealInv
  <1>7. OwnInv'
    <2>1. \A c \in Calls : Owner(c)' BY <1>1 DEF IndInv, OwnInv, Owner, EncInode, Enc
    <2>2. \A p \in EncOut : dir'[p] # NoInode => EncInode(dir[p])'
      BY <1>1 DEF IndInv, OwnInv, EncInode, Enc
    <2>3. ASSUME NEW p \in DecOut, NEW c \in Calls, Published(c, p) PROVE Published(c, p)'
      <3>1. data'[c] = data[c] /\ synced'[c] = Len(data'[c])
        BY <1>2, <2>3, CrashData, Names DEF Published
      <3>2. pc'[c] = "done" BY <1>3, <2>3 DEF Published
      <3> QED BY <1>1, <2>3, <3>1, <3>2 DEF Published, Unwrapped, Dec
    <2>4. \A p \in DecOut : dir'[p] # NoInode =>
            dir'[p] = p \/ (dir'[p] \in Calls /\ Published(dir[p], p)')
      <3> SUFFICES ASSUME NEW p \in DecOut, dir'[p] # NoInode
                   PROVE  dir'[p] = p \/ (dir'[p] \in Calls /\ Published(dir[p], p)')
        OBVIOUS
      <3>1. dir' = dir BY <1>1
      <3>2. dir[p] = p \/ (dir[p] \in Calls /\ Published(dir[p], p)) BY <3>1 DEF IndInv, OwnInv
      <3>3. \A c \in Calls : Published(c, p) => Published(c, p)' BY <2>3
      <3> QED BY <3>1, <3>2, <3>3 DEF Published, Unwrapped, Dec
    <2>5. \A p \in DecOut : synced'[p] = Len(data'[p])
      BY <1>2, CrashData, Names DEF IndInv, OwnInv
    <2> QED BY <2>1, <2>2, <2>4, <2>5 DEF OwnInv
  <1>8. TempInv'
    <2> SUFFICES ASSUME NEW o \in Files, NEW c \in Calls, dir'[<<o, c>>] # NoInode
                 PROVE  /\ dir'[<<o, c>>] = c
                        /\ arg'[c] \in Requests /\ Dec(c)' /\ arg'[c].out = o
                        /\ Unwrapped(c)' /\ res'[c] # "Ok"
                        /\ \/ pc'[c] \in Writing \cup {"drop"} /\ armed'[c] = TRUE
                           \/ pc'[c] = "dead"
                           \/ pc'[c] = "done" /\ c \in unlinkFailed'
      BY DEF TempInv
    <2>1. /\ dir[<<o, c>>] = c /\ arg[c] \in Requests /\ Dec(c) /\ arg[c].out = o
          /\ Unwrapped(c) /\ res[c] # "Ok"
          /\ \/ pc[c] \in Writing \cup {"drop"}
             \/ pc[c] = "dead"
             \/ pc[c] = "done" /\ c \in unlinkFailed
      BY <1>1 DEF IndInv, TempInv
    <2>2. pc[c] \in Writing \cup {"drop"} => pc'[c] = "dead" BY <1>3 DEF Writing
    <2>3. Unwrapped(c)' BY <1>1, <2>1 DEF Unwrapped
    <2> QED BY <1>1, <1>3, <2>1, <2>2, <2>3 DEF Dec
  <1>9. \A c \in Calls : DecInv(c)'
    <2>1. \A c \in Calls : pc'[c] # "temp" /\ pc'[c] \notin Writing BY <1>3 DEF Writing
    <2> QED BY <2>1 DEF DecInv
  <1> QED BY <1>4, <1>5, <1>6, <1>7, <1>8, <1>9 DEF IndInv

----------------------------------------------------------------------------
(* Theorems                                                                *)

\* IndInv is inductive.
THEOREM Invariance == Spec => []IndInv
  <1>1. IndInv /\ [Next]_vars => IndInv'
    <2> SUFFICES ASSUME IndInv, [Next]_vars PROVE IndInv' OBVIOUS
    <2>1. CASE \E c \in Calls : Start(c) \/ Advance(c) \/ Fault(c)
      <3>1. PICK c \in Calls : Start(c) \/ Advance(c) \/ Fault(c) BY <2>1
      <3>2. TypeOK' /\ SealInv' /\ OwnInv' /\ TempInv'
        BY <3>1, TypeStep, SealStep, OwnStep, TempStep DEF IndInv
      <3>3. \A e \in Calls : CallInv(e)' BY <3>1, CallStep DEF IndInv
      <3>4. \A e \in Calls : DecInv(e)' BY <3>1, DecSelf, DecOthers DEF IndInv
      <3> QED BY <3>2, <3>3, <3>4 DEF IndInv
    <2>2. CASE Crash BY <2>2, CrashInv
    <2>3. CASE UNCHANGED vars
      <3>1. \A c \in Calls : Progress(c)' <=> Progress(c)
        BY <2>3 DEF vars, Progress, TempOf, SiblingTempPath
      <3>2. \A c \in Calls : DecInv(c)' <=> DecInv(c)
        BY <2>3, <3>1 DEF vars, DecInv, Unwrapped, Dec
      <3> QED BY <2>3, <3>2 DEF vars, IndInv, TypeOK, CallInv, SealInv, Sealing, OwnInv,
                                Owner, EncInode, Published, TempInv, Unwrapped, Enc, Dec
    <2> QED BY <2>1, <2>2, <2>3 DEF Next, Terminated
  <1> QED BY <1>1, InitInv, PTL DEF Spec

\* Every variable keeps its type, the offsets and lengths included.
THEOREM TypeCorrectness == Spec => []TypeOK
  <1>1. IndInv => TypeOK BY DEF IndInv
  <1> QED BY <1>1, Invariance, PTL

\* The promise of decrypt_file_chunked about its output, for every number of
\* calls, keys, chunk sizes, files and crashes.
THEOREM OutputAuthenticity == Spec => []OutputAuthentic
  <1>1. IndInv => OutputAuthentic
    <2> SUFFICES ASSUME IndInv, NEW p \in DecOut, dir[p] \notin {NoInode, p}
                 PROVE  \E c \in Calls :
                          /\ dir[p] = c
                          /\ arg[c].out = p /\ Dec(c) /\ res[c] = "Ok"
                          /\ Authentic(c)
                          /\ data[c] = Plain(seals[dk[c]])
      BY DEF OutputAuthentic
    <2>1. dir[p] \in Calls /\ Published(dir[p], p) BY DEF IndInv, OwnInv
    <2> QED BY <2>1 DEF Published, Unwrapped, Authentic
  <1> QED BY <1>1, Invariance, PTL

\* No temporary file is left that a running, killed or clean-up-failed call
\* does not account for.
THEOREM TempsAccounted == Spec => []TempAccounted
  <1>1. IndInv => TempAccounted
    <2> SUFFICES ASSUME IndInv, NEW t \in Temps, dir[t] # NoInode
                 PROVE  /\ bind[dk[t[2]]] = Wrap(arg[t[2]].wk, arg[t[2]].id, prefix[t[2]])
                        /\ \/ Active(t[2]) /\ armed[t[2]]
                           \/ pc[t[2]] = "dead"
                           \/ t[2] \in unlinkFailed /\ res[t[2]] # "Ok"
      BY DEF TempAccounted
    <2>1. PICK o \in Files, c \in Calls : t = <<o, c>> BY DEF Temps
    <2>2. /\ Unwrapped(c) /\ res[c] # "Ok"
          /\ \/ pc[c] \in Writing \cup {"drop"} /\ armed[c] = TRUE
             \/ pc[c] = "dead"
             \/ pc[c] = "done" /\ c \in unlinkFailed
      BY <2>1 DEF IndInv, TempInv
    <2>3. pc[c] \in Writing \cup {"drop"} => Active(c) BY DEF Writing, Active
    <2>4. t[2] = c BY <2>1
    <2> QED BY <2>2, <2>3, <2>4 DEF Unwrapped
  <1> QED BY <1>1, Invariance, PTL

\* Only rename changes what is at a decryption output.
LEMMA ContentKeep ==
    ASSUME IndInv, NEW c \in Calls, Start(c) \/ Advance(c) \/ Fault(c),
           NEW p \in DecOut, ~(Rename(c) /\ p = arg[c].out)
    PROVE  Content(p)' = Content(p)
  <1>1. \/ dir[p] = NoInode \/ dir[p] = p
        \/ dir[p] \in Calls /\ Published(dir[p], p)
    BY DEF IndInv, OwnInv
  <1>2. p \in Files /\ p \in Inodes /\ p \notin Calls /\ p \notin EncOut
    BY Names DEF IndInv, OwnInv
  <1>3. TypeOK /\ \A d \in Calls : CallInv(d) BY DEF IndInv
  <1>4. p = arg[c].out => ~CreateOutput(c)
    <2>1. CreateOutput(c) => arg[c] \in Requests /\ Enc(c) BY <1>3 DEF CallInv, CreateOutput
    <2> QED BY <1>2, <2>1, ArgTyped
  <1>5. dir'[p] = dir[p] BY <1>2, <1>3, <1>4, PathKeep
  <1>6. dir[p] = p => data'[p] = data[p]
    <2>1. Owner(c)' BY OwnerStep DEF IndInv
    <2>2. fout'[c] # p BY <1>2, <2>1, Names DEF Owner, EncInode
    <2> QED BY <1>2, <1>3, <2>2, DataKeep
  <1>7. dir[p] \in Calls /\ Published(dir[p], p) => data'[dir[p]] = data[dir[p]]
    <2>1. SUFFICES ASSUME NEW e \in Calls, Published(e, p) PROVE data'[e] = data[e] OBVIOUS
    <2>2. e # c /\ arg[e] \in Requests /\ Dec(e)
      BY <1>3, <2>1, Running DEF Published, CallInv
    <2> QED BY <2>2, DecInodeKeep DEF IndInv
  <1> QED BY <1>1, <1>5, <1>6, <1>7 DEF Content

\* A decryption output holds synced data only, so a crash keeps it.
LEMMA CrashContentKeep ==
    ASSUME IndInv, Crash, NEW p \in DecOut
    PROVE  Content(p)' = Content(p)
  <1>1. \/ dir[p] = NoInode \/ dir[p] = p
        \/ dir[p] \in Calls /\ Published(dir[p], p)
    BY DEF IndInv, OwnInv
  <1>2. dir' = dir BY DEF Crash
  <1>3. \A i \in Inodes : synced[i] = Len(data[i]) => data'[i] = data[i]
    BY CrashData DEF IndInv
  <1>4. dir[p] \in Calls /\ Published(dir[p], p) => data'[dir[p]] = data[dir[p]]
    BY <1>3, Names DEF Published
  <1>5. data'[p] = data[p] BY <1>3, Names DEF IndInv, OwnInv
  <1> QED BY <1>1, <1>2, <1>4, <1>5 DEF Content

\* A decryption output changes only in the step in which a decryption to it
\* succeeds.
THEOREM OutputsUntouched == Spec => OutputUntouched
  <1>1. IndInv /\ [Next]_vars => [\A p \in DecOut : KeptOrPublished(p)]_vars
    <2> SUFFICES ASSUME IndInv, Next, NEW p \in DecOut PROVE KeptOrPublished(p) OBVIOUS
    <2>1. ASSUME NEW c \in Calls, Start(c) \/ Advance(c) \/ Fault(c) PROVE KeptOrPublished(p)
      <3>1. CASE Rename(c) /\ p = arg[c].out
        <4>1. res[c] = "none" /\ res'[c] = "Ok"
          BY <3>1 DEF IndInv, TypeOK, Rename, Return, CallInv, Writing
        <4> QED BY <3>1, <4>1 DEF KeptOrPublished
      <3>2. CASE ~(Rename(c) /\ p = arg[c].out)
        BY <2>1, <3>2, ContentKeep DEF KeptOrPublished
      <3> QED BY <3>1, <3>2
    <2>2. CASE Crash BY <2>2, CrashContentKeep DEF KeptOrPublished
    <2>3. CASE Terminated BY <2>3 DEF Terminated, vars, Content, KeptOrPublished
    <2> QED BY <2>1, <2>2, <2>3 DEF Next
  <1> QED BY <1>1, Invariance, PTL DEF Spec, OutputUntouched
=============================================================================
