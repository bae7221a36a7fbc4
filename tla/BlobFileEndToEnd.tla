-------------------------- MODULE BlobFileEndToEnd --------------------------
(***************************************************************************)
(* Proofs about BlobFile that follow the data from one file to the next:   *)
(* what a call has read of an input nobody rewrites, what an encryption    *)
(* makes of it, and that the streaming codec agrees with the in-memory one.*)
(***************************************************************************)
EXTENDS BlobFileProofs, BlobCodecProofs

----------------------------------------------------------------------------
(* The invariant                                                           *)

\* No call has ever written the inode.
Quiet(i) == \A d \in Calls : fout[d] # i

\* Such an inode is as it was at the start.
QuietInv ==
    \A i \in Inodes : Quiet(i) =>
        /\ synced[i] = Len(data[i])
        /\ \A j \in 1 .. Len(data[i]), k \in DataKeys \ Stored : data[i][j] # [wrapped |-> k]

\* The blobs sealed earlier stay as they are.
StoredInv == \A k \in Stored : bind[k] = StoredBind[k] /\ seals[k] = StoredSeals[k]

\* Every wrapped key has been used by an encoder for the identifier and prefix
\* it was wrapped with.
WrittenBy(k, wk, id, cell) ==
    Usable(id) /\ bind[k] = Wrap(wk, id, cell) /\ Stream(seals[k], id, cell)

StreamInv ==
    \A k \in DataKeys : bind[k] # NoBind =>
        \E wk \in WrapKeys, id \in BlobIds, cell \in PrefixCell : WrittenBy(k, wk, id, cell)

\* c is an encryption that has drawn its data key.
HasKey(c) == arg[c] # NoCall /\ Enc(c) /\ dk[c] # NoKey

\* The key of an encryption is its own for ever.
KeyInv(c) ==
    HasKey(c) =>
        /\ dk[c] \in DataKeys \ Stored /\ prefix[c] \in PrefixCell /\ Usable(arg[c].id)
        /\ bind[dk[c]] = Wrap(arg[c].wk, arg[c].id, prefix[c])
        /\ \A d \in Calls \ {c} : HasKey(d) => dk[d] # dk[c]
        /\ Sealing(c) => ctr[c] = Len(seals[dk[c]]) /\ ctr[c] <= COUNTER_MAX

\* Control points of the loop that reads and processes chunks.
Looping == {"read", "pend", "tail"}

\* Where the body of the input starts, where the chunk to be processed next
\* starts, and where the read buffer does.
Base(c)   == IF Enc(c) THEN 0 ELSE HEADER_LEN
Start0(c) == Base(c) + ctr[c] * BufLen(c)
Mid(c)    == Start0(c) + Len(pending[c])

\* The read buffer and the chunk held back, by their lengths.
Shape(c) ==
    /\ pc[c] = "idle" => dk[c] = NoKey
    /\ pc[c] \in {"idle", "open", "create"} => pos[c] = 0
    /\ pc[c] = "temp" => pos[c] = HEADER_LEN
    /\ pc[c] \in {"idle", "open", "create", "temp"} => buf[c] = <<>>
    /\ pc[c] \in {"idle", "open", "create", "temp", "header"} => pending[c] = <<>>
    /\ pc[c] = "header" => Len(buf[c]) = pos[c] /\ pos[c] <= HEADER_LEN
    /\ pc[c] \in Looping =>
         /\ Len(buf[c]) <= BufLen(c) /\ pos[c] = Mid(c) + Len(buf[c])
         /\ pending[c] = <<>> \/ Len(pending[c]) = BufLen(c)
    /\ pc[c] = "pend" => pending[c] # <<>>
    /\ pc[c] = "tail" => pending[c] = <<>>
    /\ fin[c] # NoInode /\ arg[c] # NoCall =>
         Usable(arg[c].id) /\ (Enc(c) => dk[c] # NoKey) /\ (Dec(c) => fin[c] # c)
    /\ pc[c] \in {"idle", "open"} => fin[c] = NoInode
    /\ pc[c] = "open" => Usable(arg[c].id)

\* What has been read of an input that nobody writes.
ReadInv(c) ==
    Quiet(fin[c]) =>
        LET x == data[fin[c]]
        IN  /\ pc[c] \in {"header", "temp"} \cup Looping => pos[c] <= Len(x)
            /\ pc[c] = "header" => buf[c] = SubSeq(x, 1, pos[c])
            /\ pc[c] \in Looping =>
                 /\ pending[c] = SubSeq(x, Start0(c) + 1, Mid(c))
                 /\ buf[c] = SubSeq(x, Mid(c) + 1, pos[c])
            /\ pc[c] \in {"pend", "tail"} => Len(buf[c]) = BufLen(c) \/ pos[c] = Len(x)

\* The i-th segment that encrypt_chunked makes of x, not the last one.
FullSeal(x, id, cell, i) ==
    Seal(cell, FALSE, BlobSegmentAad(id),
         SubSeq(x, (i - 1) * CHUNK_SIZE + 1, i * CHUNK_SIZE), SubSeq(x, 1, i * CHUNK_SIZE))

\* All of ss are such segments.
FullSeals(ss, x, id, cell) == \A i \in 1 .. Len(ss) : ss[i] = FullSeal(x, id, cell, i)

\* What an encryption has sealed of an input that nobody writes.
EncInv(c) ==
    HasKey(c) /\ fin[c] # NoInode /\ Quiet(fin[c]) =>
        LET x == data[fin[c]]  ss == seals[dk[c]]
        IN  /\ Sealing(c) => \A i \in 1 .. ctr[c] : ss[i] = FullSeal(x, arg[c].id, prefix[c], i)
            /\ Complete(ss) =>
                 ss = ChunkedSeals(x, arg[c].id, prefix[c]) /\ Len(x) \div CHUNK_SIZE <= COUNTER_MAX
            /\ pc[c] \in {"flush", "finish"} \/ res[c] = "Ok" => Complete(ss)
            /\ res[c] = "Aead" => Len(x) \div CHUNK_SIZE > COUNTER_MAX

\* What an encryption has written to a file of its own.
OutInv(c) ==
    HasKey(c) /\ fout[c] # NoInode /\ Undisturbed(fout[c], c) =>
        LET y == data[fout[c]]  framed == Framed(dk[c], prefix[c], seals[dk[c]])
        IN  /\ pc[c] \in Looping \cup {"flush", "finish"} =>
                 woff[c] = Len(y) /\ y \o wbuf[c] = framed
            /\ pc[c] = "finish" => due[c] = Len(wbuf[c])
            /\ res[c] = "Ok" /\ crashes = 0 => y = framed

\* What a decryption has opened of an input that nobody writes.
OpenInv(c) ==
    arg[c] # NoCall /\ Dec(c) /\ fin[c] # NoInode /\ Quiet(fin[c]) =>
        LET x == data[fin[c]]  aad == BlobSegmentAad(arg[c].id)
        IN  /\ pc[c] \in {"temp"} \cup Looping =>
                 HeaderOpens(dk[c], x, arg[c].wk, arg[c].id) /\ prefix[c] = x[3] /\ HEADER_LEN <= Len(x)
            /\ pc[c] \in Looping => OpenedTo(dk[c], x, prefix[c], aad, ctr[c])
            /\ pc[c] \in {"flush", "sync", "rename"} \/ res[c] = "Ok" =>
                 Decodes(dk[c], x, arg[c].wk, arg[c].id) /\ HEADER_LEN <= Len(x)
            /\ res[c] = "Aead" =>
                 HEADER_LEN <= Len(x) /\ \A k \in DataKeys : ~Decodes(k, x, arg[c].wk, arg[c].id)

\* A decryption that returned Ok has published its file.
OkInv(c) == arg[c] # NoCall /\ Dec(c) /\ res[c] = "Ok" => Published(c, arg[c].out)

\* Only a call that has opened its input has created a file.
Fed(c) == fout[c] # NoInode => fin[c] # NoInode

\* Keys, streams and buffers ...
KeysInv == StoredInv /\ StreamInv /\ \A c \in Calls : Shape(c) /\ KeyInv(c)

\* ... and on top of them what flows through the calls.
FlowInv ==
    /\ QuietInv
    /\ \A c \in Calls : ReadInv(c) /\ EncInv(c) /\ OutInv(c) /\ OpenInv(c) /\ OkInv(c) /\ Fed(c)

----------------------------------------------------------------------------
(* The in-memory decoder                                                   *)

USE DEF ctlVars, readVars, strmVars, outVars, fsVars, histVars, cryptoVars

\* The invariant gives the codec lemmas what they need of the segments.
LEMMA ChainedInv == IndInv => Chained
  BY DEF IndInv, TypeOK, SealInv, Chained

\* decrypt_chunked accepts nothing but one complete blob bound to the caller's
\* key and identifier, whatever the calls and crashes left in the file.
THEOREM MemoryAuthenticity == Spec => []MemoryAuthentic
  <1>1. IndInv => MemoryAuthentic
    <2> SUFFICES ASSUME IndInv, NEW f \in Files, NEW wk \in WrapKeys, NEW id \in BlobIds,
                        dir[f] # NoInode, DecryptChunked(data[dir[f]], wk, id).res = "Ok"
                 PROVE  \E k \in DataKeys :
                          /\ Complete(seals[k])
                          /\ bind[k] = Wrap(wk, id, data[dir[f]][3])
                          /\ data[dir[f]] = Framed(k, data[dir[f]][3], seals[k])
                          /\ DecryptChunked(data[dir[f]], wk, id).out = Plain(seals[k])
      BY DEF MemoryAuthentic
    <2>1. data[dir[f]] \in Seq(Cell) BY Names DEF IndInv, TypeOK
    <2>2. Chained BY ChainedInv
    <2> DEFINE x == data[dir[f]]
    <2>3. x \in Seq(Cell) /\ DecryptChunked(x, wk, id).res = "Ok" BY <2>1
    <2> HIDE DEF x
    <2>4. OneBlob(x, wk, id, DecryptChunked(x, wk, id).out) BY <2>2, <2>3, DecoderExact
    <2> QED BY <2>4, Zenon DEF x, OneBlob
  <1> QED BY <1>1, Invariance, PTL

----------------------------------------------------------------------------
(* Steps                                                                   *)

\* A step of c that leaves its input, its stream and what is sealed alone, and
\* from which it never comes back to the loop.
Leave(c) ==
    /\ UNCHANGED <<arg, fin, pos, buf, pending, dk, prefix, ctr, fout, bind, seals>>
    /\ pc'[c] \in {"finish", "sync", "rename", "drop", "done"}
    /\ pc[c] \notin {"idle", "done", "dead"}

\* A step of a call starts it, is one of the steps that read, open or seal, or
\* leaves.
LEMMA Kinds ==
    ASSUME TypeOK, \A d \in Calls : CallInv(d), NEW c \in Calls, Start(c) \/ Advance(c) \/ Fault(c)
    PROVE  \/ Start(c) \/ OpenInput(c) \/ Read(c) \/ ReadFull(c) \/ ParseHeader(c)
           \/ CreateOutput(c) \/ CreateTemp(c) \/ EncryptNext(c) \/ DecryptNext(c)
           \/ EncryptLast(c) \/ DecryptLast(c) \/ HoldChunk(c) \/ Push(c) \/ Leave(c)
  <1>1. UnusableInput(c) => Leave(c) BY DEF TypeOK, UnusableInput, Return, Leave
  <1>2. RejectHeader(c) => Leave(c) BY DEF TypeOK, RejectHeader, Return, Leave
  <1>3. SegmentError(c) => Leave(c) BY DEF TypeOK, SegmentError, Unwind, Leave
  <1>4. Flush(c) => Leave(c) BY DEF TypeOK, Flush, Leave
  <1>5. Finish(c) => Leave(c) BY DEF TypeOK, Finish, Return, Leave
  <1>6. SyncAll(c) => Leave(c) BY DEF TypeOK, SyncAll, Leave
  <1>7. Rename(c) => Leave(c) BY DEF TypeOK, Rename, Return, Leave
  <1>8. Drop(c) => Leave(c) BY DEF TypeOK, Drop, Leave
  <1>9. EarlyIoError(c) => Leave(c) BY DEF TypeOK, EarlyIoError, Return, Leave
  <1>10. NoTempPath(c) => Leave(c) BY DEF TypeOK, NoTempPath, Return, Leave
  <1>11. CreateTempFails(c) => Leave(c) BY DEF TypeOK, CreateTempFails, Leave
  <1>12. IoError(c) => Leave(c)
    <2> SUFFICES ASSUME IoError(c) PROVE Leave(c) OBVIOUS
    <2>1. pc[c] \notin {"idle", "done", "dead"} BY Running DEF Fault, IoError, CallInv, Writing
    <2> QED BY <2>1 DEF TypeOK, IoError, Unwind, Leave
  <1> QED BY <1>1, <1>2, <1>3, <1>4, <1>5, <1>6, <1>7, <1>8, <1>9, <1>10, <1>11, <1>12
          DEF Advance, Fault

\* Every other call keeps its place in its input.
LEMMA OthersRead ==
    ASSUME TypeOK, \A d \in Calls : CallInv(d), NEW c \in Calls, Start(c) \/ Advance(c) \/ Fault(c),
           NEW e \in Calls, e # c
    PROVE  pos'[e] = pos[e] /\ buf'[e] = buf[e] /\ pending'[e] = pending[e]
  <1>1. CASE Start(c)
    BY <1>1 DEF Start, StartRejected, StartDecrypt, StartEncrypt, StartNoRandomness
  <1>2. CASE OpenInput(c) BY <1>2 DEF OpenInput
  <1>3. CASE Read(c) BY <1>3 DEF TypeOK, Read
  <1>4. CASE ReadFull(c) BY <1>4 DEF ReadFull
  <1>5. CASE ParseHeader(c) BY <1>5 DEF TypeOK, ParseHeader
  <1>6. CASE CreateOutput(c) BY <1>6 DEF CreateOutput
  <1>7. CASE CreateTemp(c) BY <1>7 DEF CreateTemp
  <1>8. CASE EncryptNext(c) BY <1>8 DEF TypeOK, EncryptNext
  <1>9. CASE DecryptNext(c) BY <1>9 DEF TypeOK, DecryptNext
  <1>10. CASE EncryptLast(c) BY <1>10 DEF TypeOK, EncryptLast
  <1>11. CASE DecryptLast(c) BY <1>11 DEF TypeOK, DecryptLast
  <1>12. CASE HoldChunk(c) BY <1>12 DEF TypeOK, HoldChunk
  <1>13. CASE Push(c) BY <1>13 DEF Push
  <1>14. CASE Leave(c) BY <1>14 DEF Leave
  <1> QED BY Kinds, <1>1, <1>2, <1>3, <1>4, <1>5, <1>6, <1>7, <1>8, <1>9, <1>10, <1>11,
             <1>12, <1>13, <1>14

\* Only an encryption that starts wraps a key, and only a sealing step changes
\* what is sealed, under the key of its call.
LEMMA CryptoKeep ==
    ASSUME TypeOK, \A d \in Calls : CallInv(d), NEW c \in Calls, Start(c) \/ Advance(c) \/ Fault(c)
    PROVE  /\ ~StartEncrypt(c) => bind' = bind
           /\ ~EncryptNext(c) /\ ~EncryptLast(c) => seals' = seals
           /\ EncryptNext(c) \/ EncryptLast(c) =>
                \A k \in DataKeys : k # dk[c] => seals'[k] = seals[k]
  <1>1. CASE Start(c)
    BY <1>1 DEF Start, StartRejected, StartDecrypt, StartEncrypt, StartNoRandomness,
                EncryptNext, EncryptLast
  <1>2. CASE OpenInput(c) BY <1>2 DEF OpenInput, EncryptNext, EncryptLast
  <1>3. CASE Read(c) BY <1>3 DEF Read, EncryptNext, EncryptLast
  <1>4. CASE ReadFull(c) BY <1>4 DEF ReadFull, EncryptNext, EncryptLast
  <1>5. CASE ParseHeader(c) BY <1>5 DEF ParseHeader, EncryptNext, EncryptLast
  <1>6. CASE CreateOutput(c) BY <1>6 DEF CreateOutput, EncryptNext, EncryptLast
  <1>7. CASE CreateTemp(c) BY <1>7 DEF CreateTemp, EncryptNext, EncryptLast
  <1>8. CASE EncryptNext(c) BY <1>8 DEF TypeOK, EncryptNext, SealNext
  <1>9. CASE DecryptNext(c) BY <1>9 DEF DecryptNext
  <1>10. CASE EncryptLast(c) BY <1>10 DEF TypeOK, EncryptLast, SealNext
  <1>11. CASE DecryptLast(c) BY <1>11 DEF DecryptLast
  <1>12. CASE HoldChunk(c) BY <1>12 DEF HoldChunk
  <1>13. CASE Push(c) BY <1>13 DEF Push
  <1>14. CASE Leave(c) BY <1>14 DEF Leave
  <1> QED BY Kinds, <1>1, <1>2, <1>3, <1>4, <1>5, <1>6, <1>7, <1>8, <1>9, <1>10, <1>11,
             <1>12, <1>13, <1>14

----------------------------------------------------------------------------
(* Buffers                                                                 *)

\* A buffer of the main loop holds something.
LEMMA BufLenNat == \A c \in Calls : BufLen(c) \in Nat \ {0}
  BY ChunkAssumption, TagAssumption DEF BufLen

\* Where a chunk starts is an offset.
LEMMA StartNat ==
    ASSUME TypeOK, NEW c \in Calls
    PROVE  ctr[c] * BufLen(c) \in Nat /\ Start0(c) \in Nat /\ Mid(c) \in Nat /\ Base(c) \in Nat
  <1>1. ctr[c] \in Nat /\ Len(pending[c]) \in Nat BY LenProperties DEF TypeOK
  <1>2. ctr[c] * BufLen(c) \in Nat BY <1>1, BufLenNat, Multiples
  <1>3. Base(c) \in Nat BY DEF Base, HEADER_LEN
  <1> HIDE DEF Base, BufLen
  <1> QED BY <1>1, <1>2, <1>3 DEF Start0, Mid

\* The next chunk starts a buffer further on.
LEMMA NextChunk ==
    ASSUME TypeOK, NEW c \in Calls, arg' = arg, ctr'[c] = ctr[c] + 1
    PROVE  Start0(c)' = Start0(c) + BufLen(c)
  <1>1. Base(c)' = Base(c) /\ BufLen(c)' = BufLen(c) BY DEF Base, BufLen, Enc
  <1>2. Start0(c)' = Base(c) + (ctr[c] + 1) * BufLen(c) /\ Start0(c) = Base(c) + ctr[c] * BufLen(c)
    BY <1>1 DEF Start0
  <1>3. Base(c) \in Nat /\ ctr[c] * BufLen(c) \in Nat /\ BufLen(c) \in Nat BY StartNat, BufLenNat
  <1>4. (ctr[c] + 1) * BufLen(c) = ctr[c] * BufLen(c) + BufLen(c)
    BY BufLenNat, Multiples DEF TypeOK
  <1> DEFINE p == ctr[c] * BufLen(c)
             q == (ctr[c] + 1) * BufLen(c)
  <1>5. Start0(c)' = Base(c) + q /\ Start0(c) = Base(c) + p /\ q = p + BufLen(c) /\ p \in Nat
    BY <1>2, <1>3, <1>4
  <1> HIDE DEF p, q, Base, BufLen, Start0
  <1> QED BY <1>3, <1>5

\* Opening the input finds a file that no decryption is writing.
LEMMA OpenedInput ==
    ASSUME IndInv, NEW c \in Calls, OpenInput(c)
    PROVE  /\ arg[c] \in Requests /\ dir[arg[c].in] \in Inodes
           /\ Enc(c) => dk[c] # NoKey
           /\ Dec(c) => dir[arg[c].in] # c
  <1>1. arg[c] \in Requests BY DEF IndInv, CallInv, OpenInput
  <1>2. arg[c].in \in Files BY <1>1, ArgTyped
  <1>3. dir[arg[c].in] \in Inodes BY <1>2, Names DEF IndInv, TypeOK, OpenInput
  <1>4. Enc(c) => dk[c] # NoKey
    BY WrapAssumption DEF IndInv, SealInv, Sealing, OpenInput
  <1>5. Dec(c) => dir[arg[c].in] # c
    <2> SUFFICES ASSUME Dec(c), dir[arg[c].in] = c PROVE FALSE OBVIOUS
    <2>1. ~Enc(c) BY DEF Enc, Dec
    <2>2. c \notin Files BY Names
    <2>3. ~EncInode(c) BY <2>1, <2>2, Names DEF EncInode
    <2>4. c # NoInode BY Names
    <2>5. arg[c].in \notin EncOut BY <2>3, <2>4 DEF IndInv, OwnInv
    <2>6. arg[c].in \in DecOut BY <1>2, <2>5 DEF DecOut
    <2>7. Published(c, arg[c].in) BY <2>2, <2>4, <2>6, Names DEF IndInv, OwnInv
    <2> QED BY <2>7 DEF Published, OpenInput
  <1> QED BY <1>1, <1>3, <1>4, <1>5

\* Every step of a call keeps its buffers in shape.
LEMMA ShapeSelf ==
    ASSUME IndInv, NEW c \in Calls, Shape(c), Start(c) \/ Advance(c) \/ Fault(c)
    PROVE  Shape(c)'
  <1> USE BufLenNat DEF Looping
  <1>0. TypeOK /\ CallInv(c) /\ Len(buf[c]) \in Nat /\ Len(pending[c]) \in Nat /\ pos[c] \in Nat
    BY LenProperties DEF IndInv, TypeOK
  <1>a. Len(<<>>) = 0 /\ HEADER_LEN = 4 BY DEF HEADER_LEN
  <1>b. pc[c] # "idle" => arg[c] # NoCall /\ arg[c] \in Requests BY <1>0, Names DEF CallInv
  <1>c. ctr[c] * BufLen(c) \in Nat /\ Start0(c) \in Nat /\ Mid(c) \in Nat /\ Base(c) \in Nat
    BY <1>0, StartNat
  <1>d. (ctr[c] + 1) * BufLen(c) = ctr[c] * BufLen(c) + BufLen(c) /\ 0 * BufLen(c) = 0
    BY <1>0, Multiples DEF TypeOK
  <1>1. CASE Start(c)
    <2>1. pc[c] = "idle" /\ UNCHANGED <<fin, pos, buf, pending>>
      BY <1>1 DEF Start, StartRejected, StartDecrypt, StartEncrypt, StartNoRandomness
    <2>2. pc'[c] = "done" \/ (pc'[c] = "open" /\ Usable(arg'[c].id))
      BY <1>1, <1>0
         DEF TypeOK, Start, StartRejected, StartDecrypt, StartEncrypt, StartNoRandomness, Return
    <2> QED BY <2>1, <2>2 DEF Shape
  <1>2. CASE OpenInput(c)
    <2>1. /\ pc[c] = "open" /\ fin'[c] = dir[arg[c].in] /\ pc'[c] \in {"create", "header"}
          /\ UNCHANGED <<arg, pos, buf, pending, dk>>
      BY <1>2, <1>0 DEF TypeOK, OpenInput
    <2> QED BY <1>2, <2>1, <1>a, OpenedInput DEF Shape, Enc, Dec
  <1>3. CASE Read(c)
    <2>1. PICK n \in 1 .. Want(c) - Len(buf[c]) :
            /\ pos[c] + n <= Len(data[fin[c]])
            /\ buf' = [buf EXCEPT ![c] = @ \o SubSeq(data[fin[c]], pos[c] + 1, pos[c] + n)]
            /\ pos' = [pos EXCEPT ![c] = @ + n]
      BY <1>3 DEF Read
    <2>2. pc[c] \in {"header", "read"} /\ UNCHANGED <<pc, arg, fin, pending, dk, ctr>> BY <1>3 DEF Read
    <2>3. data[fin[c]] \in Seq(Cell) BY <1>0, <2>2 DEF TypeOK, CallInv, Writing
    <2>4. Want(c) \in Nat BY <2>2 DEF Want, HEADER_LEN
    <2>5. n \in Nat /\ Len(buf[c]) + n <= Want(c) BY <2>4, <1>0
    <2> HIDE DEF Want
    <2> DEFINE r == SubSeq(data[fin[c]], pos[c] + 1, pos[c] + n)
    <2>6. r \in Seq(Cell) /\ Len(r) = n
      <3>1. Len(data[fin[c]]) \in Nat BY <2>3, LenProperties
      <3> DEFINE q == pos[c] + n
      <3>a. q <= Len(data[fin[c]]) BY <2>1
      <3>b. q \in Nat /\ pos[c] <= q /\ q - pos[c] = n BY <2>5, <1>0
      <3>2. q \in Nat /\ pos[c] <= q /\ q - pos[c] = n /\ q <= Len(data[fin[c]]) BY <3>a, <3>b
      <3> HIDE DEF q
      <3>3. SubSeq(data[fin[c]], pos[c] + 1, q) \in Seq(Cell) /\ Len(SubSeq(data[fin[c]], pos[c] + 1, q)) = q - pos[c]
        BY <2>3, <3>2, <1>0, Slice
      <3> QED BY <3>2, <3>3 DEF q
    <2>7. buf'[c] = buf[c] \o r /\ pos'[c] = pos[c] + n BY <2>1, <1>0 DEF TypeOK
    <2> HIDE DEF r
    <2>8. Len(buf'[c]) = Len(buf[c]) + n
      <3>1. buf[c] \in Seq(Cell) BY <1>0 DEF TypeOK
      <3> QED BY <2>6, <2>7, <3>1, ConcatProperties
    <2>9. Want(c) = IF pc[c] = "header" THEN HEADER_LEN ELSE BufLen(c) BY DEF Want
    <2>10. /\ Mid(c)' = Mid(c) /\ BufLen(c)' = BufLen(c) BY <2>2 DEF Mid, Start0, Base, BufLen, Enc
    <2> HIDE DEF Mid, BufLen
    <2>11. pc[c] = "header" => Len(buf'[c]) = pos'[c] /\ pos'[c] <= HEADER_LEN
      BY <1>0, <1>a, <2>5, <2>7, <2>8, <2>9 DEF Shape
    <2>12. pc[c] = "read" => Len(buf'[c]) <= BufLen(c) /\ pos'[c] = Mid(c) + Len(buf'[c])
      BY <1>0, <1>c, <2>5, <2>7, <2>8, <2>9 DEF Shape
    <2> QED BY <2>2, <2>10, <2>11, <2>12 DEF Shape, Enc, Dec
  <1>4. CASE ReadFull(c)
    <2>1. /\ pc[c] = "read" /\ pc'[c] = (IF pending[c] # <<>> THEN "pend" ELSE "tail")
          /\ UNCHANGED <<arg, fin, pos, buf, pending, dk, ctr>>
      BY <1>4, <1>0 DEF TypeOK, ReadFull
    <2> QED BY <2>1 DEF Shape, Mid, Start0, Base, BufLen, Enc, Dec
  <1>5. CASE ParseHeader(c)
    <2>1. /\ pc[c] = "header" /\ pc'[c] = "temp" /\ Len(buf[c]) = HEADER_LEN /\ buf'[c] = <<>>
          /\ UNCHANGED <<arg, fin, pos, pending>>
      BY <1>5, <1>0 DEF TypeOK, ParseHeader
    <2>2. ~Enc(c) BY <1>0, <2>1 DEF CallInv, Enc, Dec
    <2> QED BY <2>1, <2>2 DEF Shape, Enc, Dec
  <1>6. CASE CreateOutput(c)
    <2>1. /\ pc[c] = "create" /\ pc'[c] = "read" /\ ctr[c] = 0 /\ Enc(c)
          /\ UNCHANGED <<arg, fin, pos, buf, pending, dk, ctr>>
      BY <1>6, <1>0 DEF TypeOK, CreateOutput, CallInv, Early
    <2>2. Mid(c)' = Len(pending[c]) /\ BufLen(c)' = BufLen(c)
      BY <2>1, <1>0, <1>d DEF Mid, Start0, Base, BufLen, Enc
    <2> HIDE DEF Mid, BufLen
    <2>3. pending[c] = <<>> /\ Len(buf[c]) = 0 /\ pos[c] = Mid(c)' + 0 /\ 0 <= BufLen(c)
      BY <1>0, <1>a, <2>1, <2>2 DEF Shape
    <2> QED BY <2>1, <2>2, <2>3 DEF Shape, Enc, Dec
  <1>7. CASE CreateTemp(c)
    <2>1. /\ pc[c] = "temp" /\ pc'[c] = "read" /\ ctr[c] = 0 /\ ~Enc(c)
          /\ UNCHANGED <<arg, fin, pos, buf, pending, dk, ctr>>
      BY <1>7, <1>0 DEF TypeOK, CreateTemp, CallInv, Early, Enc, Dec
    <2>2. Mid(c)' = HEADER_LEN + Len(pending[c]) /\ BufLen(c)' = BufLen(c)
      BY <2>1, <1>0, <1>a, <1>d DEF Mid, Start0, Base, BufLen, Enc
    <2> HIDE DEF Mid, BufLen
    <2>3. pending[c] = <<>> /\ Len(buf[c]) = 0 /\ pos[c] = Mid(c)' + 0 /\ 0 <= BufLen(c)
      BY <1>0, <1>a, <2>1, <2>2 DEF Shape
    <2> QED BY <2>1, <2>2, <2>3 DEF Shape, Enc, Dec
  <1>8. CASE EncryptNext(c) \/ DecryptNext(c)
    <2>1. /\ pc[c] = "pend" /\ pc'[c] = "tail" /\ ctr'[c] = ctr[c] + 1 /\ pending'[c] = <<>>
          /\ UNCHANGED <<arg, fin, pos, buf, dk>>
      BY <1>8, <1>0 DEF TypeOK, EncryptNext, DecryptNext
    <2>2. Len(pending[c]) = BufLen(c) BY <2>1 DEF Shape
    <2>3. Mid(c)' = Mid(c) /\ BufLen(c)' = BufLen(c)
      <3>1. BufLen(c)' = BufLen(c) BY <2>1 DEF BufLen, Enc
      <3>2. Start0(c)' = Start0(c) + BufLen(c) BY <1>0, <2>1, NextChunk
      <3>3. Mid(c)' = Start0(c)' + 0 /\ Mid(c) = Start0(c) + BufLen(c) BY <1>a, <2>1, <2>2 DEF Mid
      <3> HIDE DEF Start0, BufLen
      <3> QED BY <1>c, <3>1, <3>2, <3>3
    <2> HIDE DEF Mid, BufLen
    <2> QED BY <1>0, <1>a, <2>1, <2>3 DEF Shape, Enc, Dec
  <1>9. CASE EncryptLast(c) \/ DecryptLast(c)
    <2>1. pc[c] = "tail" /\ pc'[c] = "flush" /\ UNCHANGED <<arg, fin, dk>>
      BY <1>9, <1>0 DEF TypeOK, EncryptLast, DecryptLast
    <2> QED BY <2>1 DEF Shape, Enc, Dec
  <1>10. CASE HoldChunk(c)
    <2>1. /\ pc[c] = "tail" /\ pc'[c] = "read" /\ Len(buf[c]) = BufLen(c)
          /\ pending'[c] = buf[c] /\ buf'[c] = <<>> /\ UNCHANGED <<arg, fin, pos, dk, ctr>>
      BY <1>10, <1>0 DEF TypeOK, HoldChunk
    <2>2. Mid(c) = Start0(c) /\ Start0(c)' = Start0(c) /\ BufLen(c)' = BufLen(c)
      <3>1. pending[c] = <<>> BY <2>1 DEF Shape
      <3>2. Mid(c) = Start0(c) + 0 BY <3>1, <1>a DEF Mid
      <3>3. Start0(c)' = Start0(c) /\ BufLen(c)' = BufLen(c) BY <2>1 DEF Start0, Base, BufLen, Enc
      <3> HIDE DEF Start0, BufLen
      <3> QED BY <3>2, <3>3, <1>c
    <2>3. Mid(c)' = Start0(c) + BufLen(c)
      <3>1. Mid(c)' = Start0(c)' + Len(pending'[c]) BY DEF Mid
      <3> QED BY <3>1, <2>1, <2>2
    <2> HIDE DEF Mid, BufLen, Start0
    <2> QED BY <1>0, <1>a, <1>c, <2>1, <2>2, <2>3 DEF Shape, Enc, Dec
  <1>11. CASE Push(c)
    <2>1. UNCHANGED <<pc, arg, fin, pos, buf, pending, dk, ctr>> BY <1>11 DEF Push
    <2> QED BY <2>1 DEF Shape, Mid, Start0, Base, BufLen, Enc, Dec
  <1>12. CASE Leave(c) BY <1>12 DEF Leave, Shape, Enc, Dec
  <1> QED BY Kinds, <1>1, <1>2, <1>3, <1>4, <1>5, <1>6, <1>7, <1>8, <1>9, <1>10, <1>11, <1>12
          DEF IndInv

\* A step of one call leaves the buffers of the others in shape too.
LEMMA ShapeStep ==
    ASSUME IndInv, \A d \in Calls : Shape(d), NEW c \in Calls, Start(c) \/ Advance(c) \/ Fault(c),
           NEW e \in Calls
    PROVE  Shape(e)'
  <1>1. CASE e = c BY <1>1, ShapeSelf
  <1>2. CASE e # c
    <2>1. /\ pc'[e] = pc[e] /\ arg'[e] = arg[e] /\ fin'[e] = fin[e] /\ dk'[e] = dk[e] /\ ctr'[e] = ctr[e]
          /\ pos'[e] = pos[e] /\ buf'[e] = buf[e] /\ pending'[e] = pending[e]
      BY <1>2, OthersKeep, OthersRead DEF IndInv
    <2>2. /\ (Enc(e)' <=> Enc(e)) /\ (Dec(e)' <=> Dec(e))
          /\ BufLen(e)' = BufLen(e) /\ Mid(e)' = Mid(e)
      BY <2>1 DEF Mid, Start0, Base, BufLen, Enc, Dec
    <2>3. Shape(e) OBVIOUS
    <2> HIDE DEF BufLen, Mid
    <2> QED BY <2>1, <2>2, <2>3 DEF Shape
  <1> QED BY <1>1, <1>2

----------------------------------------------------------------------------
(* Keys and streams                                                        *)

\* An encryption draws its key when it starts and keeps it.
LEMMA HasKeyStep ==
    ASSUME IndInv, NEW c \in Calls, Shape(c), Start(c) \/ Advance(c) \/ Fault(c)
    PROVE  /\ HasKey(c)' => StartEncrypt(c) \/ HasKey(c)
           /\ HasKey(c) => /\ HasKey(c)' /\ dk'[c] = dk[c] /\ prefix'[c] = prefix[c] /\ arg'[c] = arg[c]
                           /\ ~StartEncrypt(c)
  <1>0. TypeOK /\ CallInv(c) BY DEF IndInv
  <1> DEFINE Same == UNCHANGED <<arg, dk, prefix>> /\ ~StartEncrypt(c)
             None == ~HasKey(c) /\ ~HasKey(c)'
  <1>1. CASE Start(c)
    <2>1. pc[c] = "idle" /\ dk[c] = NoKey BY <1>1, Running DEF IndInv, Shape
    <2>2. ~StartEncrypt(c) => dk'[c] = dk[c]
      BY <1>1 DEF Start, StartRejected, StartDecrypt, StartNoRandomness
    <2> QED BY <2>1, <2>2 DEF HasKey
  <1>2. OpenInput(c) => Same BY DEF OpenInput, StartEncrypt
  <1>3. Read(c) => Same BY DEF Read, StartEncrypt
  <1>4. ReadFull(c) => Same BY DEF ReadFull, StartEncrypt
  <1>5. ParseHeader(c) => None
    <2> SUFFICES ASSUME ParseHeader(c) PROVE None OBVIOUS
    <2>1. Dec(c) /\ arg' = arg BY <1>0 DEF ParseHeader, CallInv
    <2> QED BY <2>1 DEF HasKey, Enc, Dec
  <1>6. CreateOutput(c) => Same BY DEF CreateOutput, StartEncrypt
  <1>7. CreateTemp(c) => Same BY DEF CreateTemp, StartEncrypt
  <1>8. EncryptNext(c) => Same BY DEF EncryptNext, StartEncrypt
  <1>9. DecryptNext(c) => Same BY DEF DecryptNext, StartEncrypt
  <1>10. EncryptLast(c) => Same BY DEF EncryptLast, StartEncrypt
  <1>11. DecryptLast(c) => Same BY DEF DecryptLast, StartEncrypt
  <1>12. HoldChunk(c) => Same BY DEF HoldChunk, StartEncrypt
  <1>13. Push(c) => Same
    <2> SUFFICES ASSUME Push(c) PROVE Same OBVIOUS
    <2>1. pc[c] # "idle" BY Running DEF IndInv, Advance, Push, CallInv, Writing
    <2> QED BY <2>1 DEF Push, StartEncrypt
  <1>14. Leave(c) => Same BY DEF Leave, StartEncrypt
  <1>15. CASE Same BY <1>15 DEF HasKey, Enc
  <1>16. CASE None BY <1>16
  <1> HIDE DEF Same, None
  <1>17. Start(c) \/ Same \/ None
    BY <1>0, Kinds, <1>2, <1>3, <1>4, <1>5, <1>6, <1>7, <1>8, <1>9, <1>10, <1>11, <1>12, <1>13, <1>14
       DEF IndInv
  <1> QED BY <1>1, <1>15, <1>16, <1>17

\* No other call touches what an encryption has wrapped and sealed.
LEMMA KeyApart ==
    ASSUME IndInv, \A d \in Calls : Shape(d), \A d \in Calls : KeyInv(d),
           NEW c \in Calls, Start(c) \/ Advance(c) \/ Fault(c), NEW e \in Calls, HasKey(e)
    PROVE  /\ bind'[dk[e]] = bind[dk[e]] /\ HasKey(e)' /\ dk'[e] = dk[e] /\ prefix'[e] = prefix[e]
           /\ arg'[e] = arg[e] /\ dk[e] \in DataKeys /\ bind[dk[e]] # NoBind
           /\ e # c => seals'[dk[e]] = seals[dk[e]]
           /\ e # c /\ HasKey(c)' => dk'[c] # dk[e]
  <1>0. TypeOK /\ (\A d \in Calls : CallInv(d)) /\ SealInv BY DEF IndInv
  <1>1. arg[e] \in Requests /\ dk[e] \in DataKeys /\ prefix[e] \in PrefixCell
    BY <1>0 DEF HasKey, KeyInv, TypeOK
  <1>2. bind[dk[e]] # NoBind
    <2>1. bind[dk[e]] = Wrap(arg[e].wk, arg[e].id, prefix[e]) BY DEF KeyInv
    <2>2. arg[e].wk \in WrapKeys /\ arg[e].id \in BlobIds BY <1>1, ArgTyped
    <2>3. Wrap(arg[e].wk, arg[e].id, prefix[e]) \in WrapRecord BY <1>1, <2>2 DEF WrapRecord
    <2> QED BY <2>1, <2>3, WrapAssumption
  <1>3. bind'[dk[e]] = bind[dk[e]]
    <2>1. StreamsGrow BY <1>0, SealStep
    <2> QED BY <1>1, <1>2, <2>1 DEF StreamsGrow
  <1>4. HasKey(e)' /\ dk'[e] = dk[e] /\ prefix'[e] = prefix[e] /\ arg'[e] = arg[e]
    <2>1. CASE e = c BY <2>1, HasKeyStep
    <2>2. CASE e # c
      <3>1. dk'[e] = dk[e] /\ prefix'[e] = prefix[e] /\ arg'[e] = arg[e] BY <1>0, <2>2, OthersKeep
      <3> QED BY <3>1 DEF HasKey, Enc
    <2> QED BY <2>1, <2>2
  <1>5. ASSUME e # c PROVE seals'[dk[e]] = seals[dk[e]]
    <2>1. CASE EncryptNext(c) \/ EncryptLast(c)
      <3>1. Sealing(c) BY <2>1 DEF Sealing, EncryptNext, EncryptLast
      <3>2. arg[c] # NoCall BY <1>0, <2>1, Names DEF CallInv, EncryptNext, EncryptLast
      <3>3. HasKey(c) BY <1>0, <3>1, <3>2, WrapAssumption DEF HasKey, SealInv, Sealing
      <3>4. dk[c] # dk[e] BY <1>5, <3>3 DEF KeyInv
      <3> QED BY <1>0, <1>1, <2>1, <3>4, CryptoKeep
    <2>2. CASE ~EncryptNext(c) /\ ~EncryptLast(c) BY <1>0, <2>2, CryptoKeep
    <2> QED BY <2>1, <2>2
  <1>6. ASSUME e # c, HasKey(c)' PROVE dk'[c] # dk[e]
    <2>1. CASE StartEncrypt(c)
      <3>1. PICK k \in DataKeys : bind[k] = NoBind /\ dk' = [dk EXCEPT ![c] = k]
        BY <2>1 DEF StartEncrypt
      <3> QED BY <1>0, <1>2, <3>1 DEF TypeOK
    <2>2. CASE HasKey(c) BY <1>6, <2>2, HasKeyStep DEF KeyInv
    <2> QED BY <1>6, <2>1, <2>2, HasKeyStep
  <1> QED BY <1>1, <1>2, <1>3, <1>4, <1>5, <1>6

\* What a sealing step does: one more segment under the key of its call.
LEMMA SealAt ==
    ASSUME IndInv, NEW c \in Calls, Shape(c), KeyInv(c), EncryptNext(c) \/ EncryptLast(c)
    PROVE  \E last \in BOOLEAN, msg \in Seq(Cell) :
             /\ last <=> EncryptLast(c)
             /\ msg = IF last THEN buf[c] ELSE pending[c]
             /\ Len(msg) \in Nat /\ (IF last THEN Len(msg) < CHUNK_SIZE ELSE Len(msg) = CHUNK_SIZE)
             /\ last \/ ctr[c] + 1 <= COUNTER_MAX
             /\ seals'[dk[c]] = Sealed(seals[dk[c]], prefix[c], last, BlobSegmentAad(arg[c].id), msg)
             /\ HasKey(c) /\ Sealing(c) /\ dk[c] \in DataKeys /\ ~Complete(seals[dk[c]])
             /\ ctr[c] = Len(seals[dk[c]]) /\ ctr[c] \in Nat /\ ctr' = [ctr EXCEPT ![c] = ctr[c] + 1]
             /\ seals[dk[c]] \in Seq(SealRecord) /\ SealChain(seals[dk[c]])
  <1>0. TypeOK /\ CallInv(c) BY DEF IndInv
  <1>1. Sealing(c) BY DEF Sealing, EncryptNext, EncryptLast
  <1>2. arg[c] # NoCall BY <1>0, Names DEF CallInv, EncryptNext, EncryptLast
  <1>3. dk[c] \in DataKeys /\ ~Complete(seals[dk[c]]) /\ SealChain(seals[dk[c]])
    BY <1>1 DEF IndInv, SealInv
  <1>4. HasKey(c) BY <1>1, <1>2, <1>3, WrapAssumption DEF HasKey, Sealing
  <1>5. ctr[c] = Len(seals[dk[c]]) /\ ctr[c] <= COUNTER_MAX BY <1>1, <1>4 DEF KeyInv
  <1>6. seals[dk[c]] \in Seq(SealRecord) /\ ctr[c] \in Nat BY <1>0, <1>3 DEF TypeOK
  <1>7. BufLen(c) = CHUNK_SIZE BY <1>1 DEF BufLen, Sealing
  <1>8. CASE EncryptNext(c)
    <2>1. pending[c] \in Seq(Cell) /\ Len(pending[c]) = CHUNK_SIZE
      BY <1>0, <1>7, <1>8 DEF TypeOK, EncryptNext, Shape, Looping
    <2>2. ctr[c] + 1 <= COUNTER_MAX BY <1>5, <1>6, <1>8, CounterAssumption DEF EncryptNext
    <2>3. seals'[dk[c]] = Sealed(seals[dk[c]], prefix[c], FALSE, BlobSegmentAad(arg[c].id), pending[c])
      BY <1>0, <1>3, <1>8 DEF TypeOK, EncryptNext, SealNext
    <2>4. ~EncryptLast(c) /\ ctr' = [ctr EXCEPT ![c] = ctr[c] + 1] BY <1>8 DEF EncryptNext, EncryptLast
    <2>5. Len(pending[c]) \in Nat BY <2>1, LenProperties
    <2> USE <2>1
    <2> WITNESS FALSE \in BOOLEAN, pending[c] \in Seq(Cell)
    <2> QED BY <1>1, <1>3, <1>4, <1>5, <1>6, <2>1, <2>2, <2>3, <2>4, <2>5
  <1>9. CASE EncryptLast(c)
    <2>1. buf[c] \in Seq(Cell) /\ Len(buf[c]) < CHUNK_SIZE
      BY <1>0, <1>7, <1>9 DEF TypeOK, EncryptLast
    <2>3. seals'[dk[c]] = Sealed(seals[dk[c]], prefix[c], TRUE, BlobSegmentAad(arg[c].id), buf[c])
      BY <1>0, <1>3, <1>9 DEF TypeOK, EncryptLast, SealNext
    <2>4. ctr' = [ctr EXCEPT ![c] = ctr[c] + 1] BY <1>9 DEF EncryptLast
    <2>5. Len(buf[c]) \in Nat BY <2>1, LenProperties
    <2> USE <2>1
    <2> WITNESS TRUE \in BOOLEAN, buf[c] \in Seq(Cell)
    <2> QED BY <1>1, <1>3, <1>4, <1>5, <1>6, <1>9, <2>1, <2>3, <2>4, <2>5
  <1> QED BY <1>8, <1>9

\* A call that can still seal could before, and its counter moves only when
\* it seals.
LEMMA SealingKeep ==
    ASSUME IndInv, NEW c \in Calls, HasKey(c), Start(c) \/ Advance(c) \/ Fault(c),
           Sealing(c)', ~EncryptNext(c), ~EncryptLast(c)
    PROVE  Sealing(c) /\ ctr'[c] = ctr[c]
  <1>0. TypeOK /\ (\A d \in Calls : CallInv(d)) BY DEF IndInv
  <1>1. Enc(c) /\ arg[c] # NoCall /\ pc[c] # "idle" BY <1>0 DEF HasKey, CallInv
  <1> USE DEF TypeOK, Sealing, Enc, Dec, CallInv
  <1>2. ~Start(c) BY <1>0, <1>1, Running
  <1>3. CASE OpenInput(c) BY <1>0, <1>1, <1>3 DEF OpenInput
  <1>4. CASE Read(c) BY <1>0, <1>4 DEF Read
  <1>5. CASE ReadFull(c) BY <1>0, <1>1, <1>5 DEF ReadFull
  <1>6. CASE ParseHeader(c) BY <1>0, <1>1, <1>6 DEF ParseHeader
  <1>7. CASE CreateOutput(c) BY <1>0, <1>1, <1>7 DEF CreateOutput
  <1>8. CASE CreateTemp(c) BY <1>0, <1>1, <1>8 DEF CreateTemp
  <1>9. CASE DecryptNext(c) BY <1>0, <1>1, <1>9 DEF DecryptNext
  <1>10. CASE DecryptLast(c) BY <1>0, <1>1, <1>10 DEF DecryptLast
  <1>11. CASE HoldChunk(c) BY <1>0, <1>1, <1>11 DEF HoldChunk
  <1>12. CASE Push(c) BY <1>0, <1>12 DEF Push
  <1>13. CASE Leave(c) BY <1>13 DEF Leave
  <1> QED BY <1>0, Kinds, <1>2, <1>3, <1>4, <1>5, <1>6, <1>7, <1>8, <1>9, <1>10, <1>11, <1>12, <1>13

\* Every step keeps the key of every encryption its own, and its counter at
\* the end of its stream.
LEMMA KeyStep ==
    ASSUME IndInv, StoredInv, \A d \in Calls : Shape(d), \A d \in Calls : KeyInv(d),
           NEW c \in Calls, Start(c) \/ Advance(c) \/ Fault(c), NEW e \in Calls
    PROVE  KeyInv(e)'
  <1>0. TypeOK /\ (\A d \in Calls : CallInv(d)) /\ SealInv BY DEF IndInv
  <1> SUFFICES ASSUME HasKey(e)' PROVE KeyInv(e)' BY DEF KeyInv
  <1>1. CASE HasKey(e)
    <2>1. /\ bind'[dk[e]] = bind[dk[e]] /\ dk'[e] = dk[e] /\ prefix'[e] = prefix[e] /\ arg'[e] = arg[e]
          /\ dk[e] \in DataKeys
          /\ e # c => seals'[dk[e]] = seals[dk[e]]
          /\ e # c /\ HasKey(c)' => dk'[c] # dk[e]
      BY <1>1, KeyApart
    <2>2. ASSUME NEW d \in Calls \ {e}, HasKey(d)' PROVE dk'[d] # dk'[e]
      <3>1. CASE d = c BY <2>1, <2>2, <3>1
      <3>2. CASE d # c
        <4>1. HasKey(d) /\ dk'[d] = dk[d] BY <1>0, <2>2, <3>2, OthersKeep DEF HasKey, Enc
        <4> QED BY <1>1, <2>1, <4>1 DEF KeyInv
      <3> QED BY <3>1, <3>2
    <2>3. ASSUME Sealing(e)' PROVE ctr'[e] = Len(seals'[dk'[e]]) /\ ctr'[e] <= COUNTER_MAX
      <3>1. CASE e # c
        <4>1. ctr'[e] = ctr[e] /\ Sealing(e)
          BY <1>0, <2>3, <3>1, OthersKeep DEF Sealing, Enc
        <4> QED BY <1>1, <2>1, <3>1, <4>1 DEF KeyInv
      <3>2. CASE e = c /\ (EncryptNext(c) \/ EncryptLast(c))
        <4>1. PICK last \in BOOLEAN, msg \in Seq(Cell) :
                 /\ last <=> EncryptLast(c)
                 /\ last \/ ctr[c] + 1 <= COUNTER_MAX
                 /\ seals'[dk[c]] = Sealed(seals[dk[c]], prefix[c], last, BlobSegmentAad(arg[c].id), msg)
                 /\ ~Complete(seals[dk[c]])
                 /\ ctr[c] = Len(seals[dk[c]]) /\ ctr' = [ctr EXCEPT ![c] = ctr[c] + 1]
                 /\ seals[dk[c]] \in Seq(SealRecord) /\ SealChain(seals[dk[c]])
          BY <3>2, SealAt
        <4>2. Len(seals'[dk[c]]) = Len(seals[dk[c]]) + 1
          BY <4>1, ChainAppend
        <4>3. ~EncryptLast(c) BY <1>0, <2>3, <3>2 DEF TypeOK, Sealing, EncryptLast
        <4> QED BY <1>0, <2>1, <3>2, <4>1, <4>2, <4>3 DEF TypeOK
      <3>3. CASE e = c /\ ~EncryptNext(c) /\ ~EncryptLast(c)
        <4>1. seals' = seals BY <1>0, <3>3, CryptoKeep
        <4>3. Sealing(c) /\ ctr'[c] = ctr[c] BY <1>1, <2>3, <3>3, SealingKeep
        <4> QED BY <1>1, <2>1, <3>3, <4>1, <4>3 DEF KeyInv
      <3> QED BY <3>1, <3>2, <3>3
    <2> QED BY <1>1, <2>1, <2>2, <2>3 DEF KeyInv
  <1>2. CASE ~HasKey(e)
    <2>1. e = c
      <3> SUFFICES ASSUME e # c PROVE FALSE OBVIOUS
      <3> QED BY <1>0, <1>2, OthersKeep DEF HasKey, Enc
    <2>2. StartEncrypt(c) BY <1>2, <2>1, HasKeyStep
    <2>3. PICK r \in Requests, k \in DataKeys, p \in NoncePrefixes :
            /\ r.op = "encrypt" /\ Usable(r.id)
            /\ bind[k] = NoBind
            /\ arg' = [arg EXCEPT ![c] = r]
            /\ dk' = [dk EXCEPT ![c] = k]
            /\ prefix' = [prefix EXCEPT ![c] = [prefix |-> p]]
            /\ bind' = [bind EXCEPT ![k] = Wrap(r.wk, r.id, [prefix |-> p])]
      BY <2>2 DEF StartEncrypt
    <2>4. pc[c] = "idle" /\ UNCHANGED <<ctr, seals>> BY <2>2 DEF StartEncrypt
    <2>5. k \notin Stored
      BY <2>3, StoredTyped, WrapAssumption DEF StoredInv
    <2>6. ctr[c] = 0 /\ seals[k] = <<>>
      BY <1>0, <2>3, <2>4 DEF CallInv, Early, SealInv
    <2>7. /\ arg'[c] = r /\ dk'[c] = k /\ prefix'[c] = [prefix |-> p]
          /\ bind'[k] = Wrap(r.wk, r.id, [prefix |-> p])
      BY <1>0, <2>3 DEF TypeOK
    <2>8. ASSUME NEW d \in Calls \ {c}, HasKey(d)' PROVE dk'[d] # dk'[c]
      <3>1. HasKey(d) /\ dk'[d] = dk[d] BY <1>0, <2>8, OthersKeep DEF HasKey, Enc
      <3>2. bind[dk[d]] # NoBind BY <3>1, KeyApart
      <3> QED BY <2>3, <2>7, <3>1, <3>2
    <2>9. [prefix |-> p] \in PrefixCell BY DEF PrefixCell
    <2>10. 0 = Len(<<>>) /\ 0 <= COUNTER_MAX BY CounterAssumption
    <2> QED BY <2>1, <2>3, <2>4, <2>5, <2>6, <2>7, <2>8, <2>9, <2>10 DEF KeyInv
  <1> QED BY <1>1, <1>2

\* Blobs sealed earlier are never sealed under again.
LEMMA StoredStep ==
    ASSUME IndInv, StoredInv, \A d \in Calls : Shape(d), \A d \in Calls : KeyInv(d),
           NEW c \in Calls, Start(c) \/ Advance(c) \/ Fault(c)
    PROVE  StoredInv'
  <1>0. TypeOK /\ (\A d \in Calls : CallInv(d)) /\ SealInv BY DEF IndInv
  <1> SUFFICES ASSUME NEW k \in Stored PROVE bind'[k] = bind[k] /\ seals'[k] = seals[k]
    BY DEF StoredInv
  <1>1. k \in DataKeys BY StoredAssumption
  <1>2. bind[k] # NoBind BY StoredTyped, WrapAssumption DEF StoredInv
  <1>3. bind'[k] = bind[k] BY <1>0, <1>1, <1>2, SealStep DEF StreamsGrow
  <1>4. CASE EncryptNext(c) \/ EncryptLast(c)
    <2>1. HasKey(c) BY <1>4, SealAt
    <2>2. dk[c] # k BY <2>1 DEF KeyInv
    <2> QED BY <1>0, <1>1, <1>3, <1>4, <2>2, CryptoKeep
  <1>5. CASE ~EncryptNext(c) /\ ~EncryptLast(c) BY <1>0, <1>3, <1>5, CryptoKeep
  <1> QED BY <1>4, <1>5

\* Sealing a full chunk, or less than one at the end, continues a stream.
LEMMA StreamAppend ==
    ASSUME NEW ss \in Seq(SealRecord), NEW id, NEW cell, Stream(ss, id, cell), ~Complete(ss),
           NEW last \in BOOLEAN, NEW msg,
           IF last THEN Len(msg) < CHUNK_SIZE ELSE Len(msg) = CHUNK_SIZE,
           last \/ Len(ss) + 1 <= COUNTER_MAX
    PROVE  Stream(Sealed(ss, cell, last, BlobSegmentAad(id), msg), id, cell)
  <1> DEFINE t == Sealed(ss, cell, last, BlobSegmentAad(id), msg)
             s == Seal(cell, last, BlobSegmentAad(id), msg, Plain(ss) \o msg)
  <1>1. /\ SealChain(t) /\ Len(t) = Len(ss) + 1 /\ \A i \in 1 .. Len(ss) : t[i] = ss[i]
    BY ChainAppend DEF Stream
  <1>2. Len(ss) \in Nat BY LenProperties
  <1>3. t[Len(ss) + 1] = s
    <2>1. t = Append(ss, s) BY DEF Sealed
    <2> HIDE DEF t, s
    <2> QED BY <2>1
  <1>4. s.prefix = cell /\ s.last = last /\ s.aad = BlobSegmentAad(id) /\ s.msg = msg BY DEF Seal
  <1> HIDE DEF t, s
  <1>5. ASSUME NEW i \in 1 .. Len(t)
        PROVE  /\ t[i].prefix = cell /\ t[i].aad = BlobSegmentAad(id)
               /\ IF t[i].last THEN Len(t[i].msg) < CHUNK_SIZE
                  ELSE Len(t[i].msg) = CHUNK_SIZE /\ i <= COUNTER_MAX
    <2>1. CASE i = Len(ss) + 1 BY <2>1, <1>3, <1>4
    <2>2. CASE i # Len(ss) + 1
      <3>1. i \in 1 .. Len(ss) BY <1>1, <1>2, <2>2
      <3> QED BY <1>1, <3>1 DEF Stream
    <2> QED BY <2>1, <2>2
  <1> QED BY <1>1, <1>5 DEF Stream, t

\* What is sealed under the key of an encryption was sealed for its request.
LEMMA KeyStream ==
    ASSUME IndInv, StreamInv, NEW c \in Calls, KeyInv(c), HasKey(c)
    PROVE  /\ Stream(seals[dk[c]], arg[c].id, prefix[c]) /\ arg[c] \in Requests
           /\ arg[c].id \in BlobIds /\ arg[c].wk \in WrapKeys
           /\ dk[c] \in DataKeys /\ prefix[c] \in PrefixCell /\ bind[dk[c]] # NoBind
  <1>1. arg[c] \in Requests BY DEF HasKey, IndInv, TypeOK
  <1>2. arg[c].id \in BlobIds /\ arg[c].wk \in WrapKeys BY <1>1, ArgTyped
  <1>3. /\ dk[c] \in DataKeys /\ prefix[c] \in PrefixCell /\ Usable(arg[c].id)
        /\ bind[dk[c]] = Wrap(arg[c].wk, arg[c].id, prefix[c])
    BY DEF KeyInv
  <1>4. bind[dk[c]] \in WrapRecord BY <1>2, <1>3 DEF WrapRecord
  <1>5. bind[dk[c]] # NoBind BY <1>4, WrapAssumption
  <1>6. PICK wk \in WrapKeys, id \in BlobIds, cell \in PrefixCell : WrittenBy(dk[c], wk, id, cell)
    BY <1>3, <1>5 DEF StreamInv
  <1>7. Wrap(wk, id, cell) = Wrap(arg[c].wk, arg[c].id, prefix[c]) BY <1>3, <1>6 DEF WrittenBy
  <1>8. id = arg[c].id /\ cell = prefix[c] BY <1>2, <1>3, <1>6, <1>7, WrapBinds
  <1> QED BY <1>1, <1>2, <1>3, <1>5, <1>6, <1>8 DEF WrittenBy

\* Every step keeps what is sealed under each wrapped key a stream for the
\* identifier and prefix of its wrap.
LEMMA StreamStep ==
    ASSUME IndInv, StoredInv, StreamInv, \A d \in Calls : Shape(d), \A d \in Calls : KeyInv(d),
           NEW c \in Calls, Start(c) \/ Advance(c) \/ Fault(c)
    PROVE  StreamInv'
  <1>0. TypeOK /\ (\A d \in Calls : CallInv(d)) /\ SealInv BY DEF IndInv
  <1> SUFFICES ASSUME NEW k \in DataKeys, bind'[k] # NoBind
               PROVE  \E wk \in WrapKeys, id \in BlobIds, cell \in PrefixCell :
                        WrittenBy(k, wk, id, cell)'
    BY DEF StreamInv
  <1>1. CASE bind[k] = NoBind
    <2>1. StartEncrypt(c) BY <1>0, <1>1, CryptoKeep
    <2>2. PICK r \in Requests, kk \in DataKeys, p \in NoncePrefixes :
            /\ r.op = "encrypt" /\ Usable(r.id)
            /\ bind[kk] = NoBind
            /\ arg' = [arg EXCEPT ![c] = r]
            /\ dk' = [dk EXCEPT ![c] = kk]
            /\ prefix' = [prefix EXCEPT ![c] = [prefix |-> p]]
            /\ bind' = [bind EXCEPT ![kk] = Wrap(r.wk, r.id, [prefix |-> p])]
      BY <2>1 DEF StartEncrypt
    <2>3. bind'[k] = Wrap(r.wk, r.id, [prefix |-> p]) BY <1>0, <1>1, <2>2 DEF TypeOK
    <2>4. seals'[k] = <<>> BY <1>0, <1>1, <2>1 DEF SealInv, StartEncrypt
    <2>5. Stream(<<>>, r.id, [prefix |-> p]) BY DEF Stream, SealChain
    <2>6. r.wk \in WrapKeys /\ r.id \in BlobIds BY RequestAssumption DEF Request
    <2>7. [prefix |-> p] \in PrefixCell BY DEF PrefixCell
    <2>8. WrittenBy(k, r.wk, r.id, [prefix |-> p])' BY <2>2, <2>3, <2>4, <2>5 DEF WrittenBy
    <2> QED BY <2>6, <2>7, <2>8
  <1>2. CASE bind[k] # NoBind
    <2>1. bind'[k] = bind[k] BY <1>0, <1>2, SealStep DEF StreamsGrow
    <2>2. PICK wk \in WrapKeys, id \in BlobIds, cell \in PrefixCell : WrittenBy(k, wk, id, cell)
      BY <1>2 DEF StreamInv
    <2>3. CASE seals'[k] = seals[k] BY <2>1, <2>2, <2>3 DEF WrittenBy
    <2>4. CASE seals'[k] # seals[k]
      <3>1. (EncryptNext(c) \/ EncryptLast(c)) /\ k = dk[c] BY <1>0, <2>4, CryptoKeep
      <3>2. PICK last \in BOOLEAN, msg \in Seq(Cell) :
             /\ (IF last THEN Len(msg) < CHUNK_SIZE ELSE Len(msg) = CHUNK_SIZE)
             /\ last \/ ctr[c] + 1 <= COUNTER_MAX
             /\ seals'[dk[c]] = Sealed(seals[dk[c]], prefix[c], last, BlobSegmentAad(arg[c].id), msg)
             /\ HasKey(c) /\ ~Complete(seals[dk[c]])
             /\ ctr[c] = Len(seals[dk[c]]) /\ seals[dk[c]] \in Seq(SealRecord)
        BY <3>1, SealAt
      <3>3. /\ Stream(seals[dk[c]], arg[c].id, prefix[c])
            /\ arg[c].id \in BlobIds /\ arg[c].wk \in WrapKeys /\ prefix[c] \in PrefixCell
        BY <3>2, KeyStream
      <3>4. Stream(seals'[dk[c]], arg[c].id, prefix[c])
        BY <3>2, <3>3, StreamAppend
      <3>5. Usable(arg[c].id) /\ bind[k] = Wrap(arg[c].wk, arg[c].id, prefix[c])
        BY <3>1, <3>2 DEF KeyInv
      <3>6. id = arg[c].id /\ cell = prefix[c]
        <4>1. Wrap(wk, id, cell) = Wrap(arg[c].wk, arg[c].id, prefix[c]) BY <2>2, <3>5 DEF WrittenBy
        <4> QED BY <3>3, <3>5, <4>1, WrapBinds
      <3>7. Stream(seals'[k], id, cell) BY <3>1, <3>4, <3>6
      <3> QED BY <2>1, <2>2, <3>7 DEF WrittenBy
    <2> QED BY <2>3, <2>4
  <1> QED BY <1>1, <1>2

\* Keys, streams and buffers stay as described.
THEOREM KeysInvariance == Spec => []KeysInv
  <1>1. Init => KeysInv
    <2> SUFFICES ASSUME Init PROVE KeysInv OBVIOUS
    <2>1. StoredInv BY StoredAssumption DEF Init, StoredInv
    <2>2. StreamInv
      <3> SUFFICES ASSUME NEW k \in DataKeys, bind[k] # NoBind
                   PROVE  \E wk \in WrapKeys, id \in BlobIds, cell \in PrefixCell : WrittenBy(k, wk, id, cell)
        BY DEF StreamInv
      <3>1. k \in Stored BY DEF Init
      <3>2. bind[k] = StoredBind[k] /\ seals[k] = StoredSeals[k] BY <3>1, <2>1 DEF StoredInv
      <3> QED BY <3>1, <3>2, StoredAssumption DEF WrittenBy
    <2>3. ASSUME NEW c \in Calls PROVE Shape(c) /\ KeyInv(c)
      <3>1. /\ pc[c] = "idle" /\ arg[c] = NoCall /\ fin[c] = NoInode /\ pos[c] = 0
            /\ buf[c] = <<>> /\ pending[c] = <<>> /\ dk[c] = NoKey
        BY DEF Init
      <3> QED BY <3>1 DEF Shape, KeyInv, HasKey, Looping
    <2> QED BY <2>1, <2>2, <2>3 DEF KeysInv
  <1>2. IndInv /\ KeysInv /\ [Next]_vars => KeysInv'
    <2> SUFFICES ASSUME IndInv, KeysInv, [Next]_vars PROVE KeysInv' OBVIOUS
    <2>0. StoredInv /\ StreamInv /\ (\A d \in Calls : Shape(d)) /\ (\A d \in Calls : KeyInv(d))
      BY DEF KeysInv
    <2>1. CASE \E c \in Calls : Start(c) \/ Advance(c) \/ Fault(c)
      <3>1. PICK c \in Calls : Start(c) \/ Advance(c) \/ Fault(c) BY <2>1
      <3>2. StoredInv' /\ StreamInv' BY <2>0, <3>1, StoredStep, StreamStep
      <3>3. \A e \in Calls : Shape(e)' BY <2>0, <3>1, ShapeStep
      <3>4. \A e \in Calls : KeyInv(e)' BY <2>0, <3>1, KeyStep
      <3> QED BY <3>2, <3>3, <3>4 DEF KeysInv
    <2>2. CASE Crash
      <3>1. /\ UNCHANGED <<bind, seals, arg, fin, pos, dk, prefix>>
            /\ pc' = [c \in Calls |-> IF Active(c) THEN "dead" ELSE pc[c]]
            /\ buf' = [c \in Calls |-> <<>>] /\ pending' = [c \in Calls |-> <<>>]
        BY <2>2 DEF Crash
      <3>2. StoredInv' /\ StreamInv' BY <2>0, <3>1 DEF StoredInv, StreamInv, WrittenBy
      <3>3. ASSUME NEW c \in Calls PROVE Shape(c)' /\ KeyInv(c)'
        <4>1. (pc'[c] = "idle" /\ pc[c] = "idle") \/ pc'[c] \in {"dead", "done"}
          BY <3>1 DEF Active
        <4>2. buf'[c] = <<>> /\ pending'[c] = <<>> BY <3>1
        <4>3. Shape(c)' BY <2>0, <3>1, <4>1, <4>2 DEF Shape, Looping, Enc, Dec
        <4>4. ~Sealing(c)' BY <4>1 DEF Sealing
        <4>5. \A d \in Calls : HasKey(d)' <=> HasKey(d) BY <3>1 DEF HasKey, Enc
        <4>6. KeyInv(c)' BY <2>0, <3>1, <4>4, <4>5 DEF KeyInv
        <4> QED BY <4>3, <4>6
      <3> QED BY <3>2, <3>3 DEF KeysInv
    <2>3. CASE UNCHANGED vars
      <3>1. StoredInv' /\ StreamInv' BY <2>0, <2>3 DEF vars, StoredInv, StreamInv, WrittenBy
      <3>2. ASSUME NEW c \in Calls PROVE Shape(c)' /\ KeyInv(c)'
        <4>1. Shape(c) /\ KeyInv(c) BY <2>0
        <4>2. Shape(c)' BY <4>1, <2>3 DEF vars, Shape, Mid, Start0, Base, BufLen, Enc, Dec
        <4>3. KeyInv(c)' BY <4>1, <2>3 DEF vars, KeyInv, HasKey, Sealing, Enc
        <4> QED BY <4>2, <4>3
      <3> QED BY <3>1, <3>2 DEF KeysInv
    <2> QED BY <2>1, <2>2, <2>3 DEF Next, Terminated
  <1> QED BY <1>1, <1>2, Invariance, PTL DEF Spec

\* Every blob that an encoder completed, this time or earlier, is read back
\* whole by decrypt_chunked.
THEOREM BlobsReadable == Spec => []BlobsDecode
  <1>1. IndInv /\ KeysInv => BlobsDecode
    <2> SUFFICES ASSUME IndInv, KeysInv, NEW k \in DataKeys, NEW wk \in WrapKeys, NEW id \in BlobIds,
                        NEW p \in NoncePrefixes, Complete(seals[k]), bind[k] = Wrap(wk, id, [prefix |-> p])
                 PROVE  DecryptChunked(Framed(k, [prefix |-> p], seals[k]), wk, id) = Ok(Plain(seals[k]))
      BY DEF BlobsDecode
    <2> DEFINE cell == [prefix |-> p]
    <2>1. cell \in PrefixCell BY DEF PrefixCell
    <2>2. bind[k] = Wrap(wk, id, cell) OBVIOUS
    <2> HIDE DEF cell
    <2>3. bind[k] # NoBind BY <2>1, <2>2, WrapAssumption DEF WrapRecord
    <2>4. PICK v \in WrapKeys, j \in BlobIds, d \in PrefixCell : WrittenBy(k, v, j, d)
      BY <2>3 DEF KeysInv, StreamInv
    <2>5. wk = v /\ id = j /\ cell = d
      <3>1. Usable(j) /\ Wrap(wk, id, cell) = Wrap(v, j, d) BY <2>2, <2>4 DEF WrittenBy
      <3> QED BY <2>1, <3>1, WrapBinds
    <2>6. Usable(id) /\ Stream(seals[k], id, cell) BY <2>4, <2>5 DEF WrittenBy
    <2>7. Chained BY ChainedInv
    <2>8. DecryptChunked(Framed(k, cell, seals[k]), wk, id) = Ok(Plain(seals[k]))
      BY <2>1, <2>2, <2>3, <2>6, <2>7, FramedDecodes
    <2> QED BY <2>8 DEF cell
  <1> QED BY <1>1, Invariance, KeysInvariance, PTL

----------------------------------------------------------------------------
(* Inputs that nobody writes                                               *)

\* Only creating a file changes which file a call writes.
LEMMA FoutSame ==
    ASSUME IndInv, NEW c \in Calls, Start(c) \/ Advance(c) \/ Fault(c), ~CreateOutput(c), ~CreateTemp(c)
    PROVE  UNCHANGED fout
  <1>1. CASE Start(c)
    BY <1>1 DEF Start, StartRejected, StartDecrypt, StartEncrypt, StartNoRandomness
  <1>2. CASE ~Start(c)
    BY <1>2, Kinds
       DEF IndInv, OpenInput, Read, ReadFull, ParseHeader, EncryptNext, DecryptNext, EncryptLast,
           DecryptLast, HoldChunk, Push, Leave
  <1> QED BY <1>1, <1>2

\* A call opens at most one file for writing.
LEMMA FoutKeep ==
    ASSUME IndInv, NEW c \in Calls, Start(c) \/ Advance(c) \/ Fault(c), NEW e \in Calls, fout[e] # NoInode
    PROVE  fout'[e] = fout[e]
  <1>0. TypeOK /\ CallInv(c) /\ \A d \in Calls : CallInv(d) BY DEF IndInv
  <1>1. CASE e # c BY <1>0, <1>1, OthersKeep
  <1>2. CASE e = c
    <2>1. ~CreateOutput(c) /\ ~CreateTemp(c)
      BY <1>0, <1>2 DEF CreateOutput, CreateTemp, CallInv, Early
    <2>2. UNCHANGED fout BY <2>1, FoutSame
    <2> QED BY <1>2, <2>2
  <1> QED BY <1>1, <1>2

\* A file nobody has written is not written by a call that opens another one.
LEMMA QuietKeep ==
    ASSUME IndInv, NEW c \in Calls, Start(c) \/ Advance(c) \/ Fault(c), NEW i \in Inodes, Quiet(i)'
    PROVE  Quiet(i) /\ data'[i] = data[i] /\ synced'[i] = synced[i]
  <1>0. TypeOK BY DEF IndInv
  <1>1. i # NoInode /\ i # fout'[c] BY Names DEF Quiet
  <1>2. Quiet(i) BY <1>1, FoutKeep DEF Quiet
  <1> QED BY <1>0, <1>1, <1>2, DataKeep

\* A file only e writes is not touched by a step of another call.
LEMMA OwnOutput ==
    ASSUME IndInv, NEW c \in Calls, Start(c) \/ Advance(c) \/ Fault(c), NEW e \in Calls,
           NEW i \in Inodes, Undisturbed(i, e)'
    PROVE  Undisturbed(i, e) /\ (e # c => data'[i] = data[i])
  <1>0. TypeOK BY DEF IndInv
  <1>1. i # NoInode BY Names
  <1>2. Undisturbed(i, e) BY <1>1, FoutKeep DEF Undisturbed
  <1>3. e # c => i # fout'[c] BY DEF Undisturbed
  <1> QED BY <1>0, <1>2, <1>3, DataKeep

\* Which step leads to which result, and past the loop.
LEMMA Outcome ==
    ASSUME IndInv, NEW c \in Calls, Start(c) \/ Advance(c) \/ Fault(c)
    PROVE  /\ res'[c] = "Ok" => Finish(c) \/ Rename(c)
           /\ res'[c] = "Aead" => RejectHeader(c) \/ SegmentError(c) \/ Drop(c)
           /\ pc'[c] = "flush" => EncryptLast(c) \/ DecryptLast(c) \/ Push(c)
           /\ pc'[c] = "finish" => (Flush(c) /\ Enc(c)) \/ Push(c)
           /\ pc'[c] = "sync" => (Flush(c) /\ ~Enc(c)) \/ Push(c)
           /\ pc'[c] = "rename" => SyncAll(c) \/ Push(c)
           /\ Leave(c) /\ ~Drop(c) /\ pc[c] # "drop" => res[c] = "none"
  <1>0. TypeOK /\ CallInv(c) /\ pc[c] # "done" /\ pc[c] # "dead" BY Running DEF IndInv
  <1>r. pc[c] # "drop" => res[c] = "none" BY <1>0 DEF TypeOK, CallInv, Early, Writing
  <1>d. pc[c] = "drop" => res[c] # "Ok" BY <1>0 DEF CallInv
  <1>u. pc[c] = "drop" => due[c] = 0 BY <1>0 DEF CallInv, Writing
  <1> USE DEF TypeOK
  <1>1. CASE Start(c)
    BY <1>0, <1>1, <1>r DEF Start, StartRejected, StartDecrypt, StartEncrypt, StartNoRandomness, Return
  <1>2. CASE OpenInput(c) BY <1>0, <1>2, <1>r DEF OpenInput
  <1>3. CASE Read(c) BY <1>0, <1>3, <1>r DEF Read
  <1>4. CASE ReadFull(c) BY <1>0, <1>4, <1>r DEF ReadFull
  <1>5. CASE ParseHeader(c) BY <1>0, <1>5, <1>r DEF ParseHeader
  <1>6. CASE CreateOutput(c) BY <1>0, <1>6, <1>r DEF CreateOutput
  <1>7. CASE CreateTemp(c) BY <1>0, <1>7, <1>r DEF CreateTemp
  <1>8. CASE EncryptNext(c) BY <1>0, <1>8, <1>r DEF EncryptNext
  <1>9. CASE DecryptNext(c) BY <1>0, <1>9, <1>r DEF DecryptNext
  <1>10. CASE EncryptLast(c) BY <1>0, <1>10, <1>r DEF EncryptLast
  <1>11. CASE DecryptLast(c) BY <1>0, <1>11, <1>r DEF DecryptLast
  <1>12. CASE HoldChunk(c) BY <1>0, <1>12, <1>r DEF HoldChunk
  <1>13. CASE Push(c)
    <2>1. UNCHANGED <<pc, res>> /\ due[c] # 0 BY <1>0, <1>13 DEF Push
    <2> QED BY <1>13, <1>r, <1>u, <2>1
  <1>14. CASE UnusableInput(c) BY <1>0, <1>14, <1>r DEF UnusableInput, Return
  <1>15. CASE RejectHeader(c) BY <1>0, <1>15, <1>r DEF RejectHeader, Return
  <1>16. CASE SegmentError(c) BY <1>0, <1>16, <1>r DEF SegmentError, Unwind
  <1>17. CASE Flush(c) BY <1>0, <1>17, <1>r DEF Flush
  <1>18. CASE Finish(c) BY <1>0, <1>18, <1>r DEF Finish, Return
  <1>19. CASE SyncAll(c) BY <1>0, <1>19, <1>r DEF SyncAll
  <1>20. CASE Rename(c) BY <1>0, <1>20, <1>r DEF Rename, Return
  <1>21. CASE Drop(c) BY <1>0, <1>21, <1>d DEF Drop
  <1>22. CASE EarlyIoError(c) BY <1>0, <1>22, <1>r DEF EarlyIoError, Return
  <1>23. CASE NoTempPath(c) BY <1>0, <1>23, <1>r DEF NoTempPath, Return
  <1>24. CASE CreateTempFails(c) BY <1>0, <1>24, <1>r DEF CreateTempFails
  <1>25. CASE IoError(c) BY <1>0, <1>25, <1>r DEF IoError, Unwind
  <1> QED BY <1>1, <1>2, <1>3, <1>4, <1>5, <1>6, <1>7, <1>8, <1>9, <1>10, <1>11, <1>12, <1>13,
             <1>14, <1>15, <1>16, <1>17, <1>18, <1>19, <1>20, <1>21, <1>22, <1>23, <1>24, <1>25
          DEF Advance, Fault

\* A file nobody has written stays as it was at the start.
LEMMA QuietStep ==
    ASSUME IndInv, QuietInv, NEW c \in Calls, Start(c) \/ Advance(c) \/ Fault(c)
    PROVE  QuietInv'
  <1> SUFFICES ASSUME NEW i \in Inodes, Quiet(i)'
               PROVE  /\ synced'[i] = Len(data'[i])
                      /\ \A j \in 1 .. Len(data'[i]), k \in DataKeys \ Stored : data'[i][j] # [wrapped |-> k]
    BY DEF QuietInv
  <1>1. Quiet(i) /\ data'[i] = data[i] /\ synced'[i] = synced[i] BY QuietKeep
  <1> QED BY <1>1 DEF QuietInv

\* A slice of no length is empty.
LEMMA EmptySlice ==
    ASSUME NEW S, NEW x \in Seq(S), NEW p \in Nat, p <= Len(x)
    PROVE  SubSeq(x, p + 1, p) = <<>>
  <1> DEFINE s == SubSeq(x, p + 1, p)
  <1>0. p <= p /\ p - p = 0 OBVIOUS
  <1>1. s \in Seq(S) /\ Len(s) = p - p BY <1>0, Slice
  <1> HIDE DEF s
  <1>2. Len(s) = 0 BY <1>0, <1>1
  <1>3. s = <<>> BY <1>1, <1>2, EmptySeq
  <1> QED BY <1>3 DEF s

\* What a call has read of its input, when nobody writes it, is the part of it
\* up to its offset, cut where the chunks are.
LEMMA ReadSelf ==
    ASSUME IndInv, IndInv', NEW c \in Calls, Shape(c), Shape(c)', ReadInv(c),
           Start(c) \/ Advance(c) \/ Fault(c)
    PROVE  ReadInv(c)'
  <1> USE DEF Looping
  <1> SUFFICES ASSUME Quiet(fin[c])', pc'[c] \in {"header", "temp"} \cup Looping
               PROVE  ReadInv(c)'
    BY DEF ReadInv
  <1>0. /\ TypeOK /\ CallInv(c) /\ Len(buf[c]) \in Nat /\ Len(pending[c]) \in Nat /\ pos[c] \in Nat
        /\ TypeOK' /\ CallInv(c)' /\ pos'[c] \in Nat
    BY LenProperties DEF IndInv, TypeOK
  <1>1. PICK i \in Inodes : i = fin'[c] BY <1>0 DEF CallInv, Writing
  <1>2. Quiet(i)' BY <1>1 DEF Quiet
  <1>3. Quiet(i) /\ data'[i] = data[i] BY <1>2, QuietKeep
  <1>4. PICK x \in Seq(Cell) : x = data[i] /\ x = data'[i] BY <1>0, <1>3 DEF TypeOK
  <1>5. Len(x) \in Nat BY <1>4, LenProperties
  <1> SUFFICES /\ pos'[c] <= Len(x)
               /\ pc'[c] = "header" => buf'[c] = SubSeq(x, 1, pos'[c])
               /\ pc'[c] \in Looping =>
                    /\ pending'[c] = SubSeq(x, Start0(c)' + 1, Mid(c)')
                    /\ buf'[c] = SubSeq(x, Mid(c)' + 1, pos'[c])
               /\ pc'[c] \in {"pend", "tail"} => Len(buf'[c]) = BufLen(c)' \/ pos'[c] = Len(x)
    BY <1>1, <1>4 DEF ReadInv
  <1>6. fin[c] = fin'[c] =>
           /\ pc[c] \in {"header", "temp"} \cup Looping => pos[c] <= Len(x)
           /\ pc[c] = "header" => buf[c] = SubSeq(x, 1, pos[c])
           /\ pc[c] \in Looping =>
                /\ pending[c] = SubSeq(x, Start0(c) + 1, Mid(c))
                /\ buf[c] = SubSeq(x, Mid(c) + 1, pos[c])
           /\ pc[c] \in {"pend", "tail"} => Len(buf[c]) = BufLen(c) \/ pos[c] = Len(x)
    BY <1>1, <1>3, <1>4 DEF ReadInv
  <1>7. /\ ctr[c] * BufLen(c) \in Nat /\ Start0(c) \in Nat /\ Mid(c) \in Nat /\ Base(c) \in Nat
        /\ BufLen(c) \in Nat \ {0}
    BY <1>0, StartNat, BufLenNat
  <1>8. 0 <= Len(x) /\ 0 + 1 = 1 /\ Len(<<>>) = 0 BY <1>5
  <1>9. SubSeq(x, 1, 0) = <<>> BY <1>8, EmptySlice
  <1>10. CASE Start(c)
    <2>1. pc'[c] \in {"done", "open"}
      BY <1>0, <1>10
         DEF TypeOK, Start, StartRejected, StartDecrypt, StartEncrypt, StartNoRandomness, Return
    <2> QED BY <2>1
  <1>11. CASE OpenInput(c)
    <2>1. pc[c] = "open" /\ UNCHANGED <<pos, buf>> /\ pc'[c] \in {"create", "header"}
      BY <1>0, <1>11 DEF TypeOK, OpenInput
    <2>2. pos[c] = 0 /\ buf[c] = <<>> BY <2>1 DEF Shape
    <2> QED BY <1>8, <1>9, <2>1, <2>2
  <1>12. CASE Read(c)
    <2>1. PICK n \in 1 .. Want(c) - Len(buf[c]) :
            /\ pos[c] + n <= Len(data[fin[c]])
            /\ buf' = [buf EXCEPT ![c] = @ \o SubSeq(data[fin[c]], pos[c] + 1, pos[c] + n)]
            /\ pos' = [pos EXCEPT ![c] = @ + n]
      BY <1>12 DEF Read
    <2>2. pc[c] \in {"header", "read"} /\ UNCHANGED <<pc, arg, fin, pending, ctr>> BY <1>12 DEF Read
    <2>3. n \in Nat /\ pos[c] <= pos[c] + n
      <3>1. Want(c) \in Nat BY <1>7, <2>2 DEF Want, HEADER_LEN
      <3> HIDE DEF Want
      <3> QED BY <1>0, <3>1
    <2>4. fin[c] = i /\ data[fin[c]] = x BY <1>1, <1>4, <2>2
    <2>5. /\ buf'[c] = buf[c] \o SubSeq(x, pos[c] + 1, pos'[c])
          /\ pos'[c] = pos[c] + n /\ pos[c] <= pos'[c] /\ pos'[c] <= Len(x)
      BY <1>0, <2>1, <2>3, <2>4 DEF TypeOK
    <2>6. Start0(c)' = Start0(c) /\ Mid(c)' = Mid(c) BY <2>2 DEF Mid, Start0, Base, BufLen, Enc
    <2>7. pc[c] = "header" => buf'[c] = SubSeq(x, 1, pos'[c])
      <3> SUFFICES ASSUME pc[c] = "header" PROVE buf'[c] = SubSeq(x, 1, pos'[c]) OBVIOUS
      <3>1. buf[c] = SubSeq(x, 0 + 1, pos[c]) BY <1>6, <1>8, <2>2
      <3>2. 0 \in Nat /\ 0 <= pos[c] BY <1>0
      <3>3. SubSeq(x, 0 + 1, pos[c]) \o SubSeq(x, pos[c] + 1, pos'[c]) = SubSeq(x, 0 + 1, pos'[c])
        <4> DEFINE q == pos[c]
                   r == pos'[c]
        <4>1. q \in Nat /\ r \in Nat /\ 0 <= q /\ q <= r /\ r <= Len(x) BY <1>0, <2>5, <3>2
        <4> HIDE DEF q, r
        <4>2. SubSeq(x, 0 + 1, q) \o SubSeq(x, q + 1, r) = SubSeq(x, 0 + 1, r) BY <3>2, <4>1, SliceJoin
        <4> QED BY <4>2 DEF q, r
      <3> QED BY <1>8, <2>5, <3>1, <3>3
    <2>8. pc[c] = "read" => buf'[c] = SubSeq(x, Mid(c) + 1, pos'[c])
      <3> SUFFICES ASSUME pc[c] = "read" PROVE buf'[c] = SubSeq(x, Mid(c) + 1, pos'[c]) OBVIOUS
      <3>1. buf[c] = SubSeq(x, Mid(c) + 1, pos[c]) BY <1>6, <2>2
      <3>2. pos[c] = Mid(c) + Len(buf[c]) BY DEF Shape
      <3> HIDE DEF Mid
      <3>3. Mid(c) <= pos[c] BY <1>0, <1>7, <3>2
      <3>4. SubSeq(x, Mid(c) + 1, pos[c]) \o SubSeq(x, pos[c] + 1, pos'[c]) = SubSeq(x, Mid(c) + 1, pos'[c])
        <4> DEFINE p == Mid(c)
                   q == pos[c]
                   r == pos'[c]
        <4>1. p \in Nat /\ q \in Nat /\ r \in Nat /\ p <= q /\ q <= r /\ r <= Len(x)
          BY <1>0, <1>7, <2>5, <3>3
        <4> HIDE DEF p, q, r
        <4>2. SubSeq(x, p + 1, q) \o SubSeq(x, q + 1, r) = SubSeq(x, p + 1, r) BY <4>1, SliceJoin
        <4> QED BY <4>2 DEF p, q, r
      <3> QED BY <2>5, <3>1, <3>4
    <2> HIDE DEF Mid, Start0
    <2> QED BY <1>6, <2>2, <2>5, <2>6, <2>7, <2>8
  <1>13. CASE ReadFull(c)
    <2>1. /\ pc[c] = "read" /\ pc'[c] \in {"pend", "tail"} /\ ReadDone(c)
          /\ UNCHANGED <<arg, fin, pos, buf, pending, ctr>>
      BY <1>0, <1>13 DEF TypeOK, ReadFull
    <2>2. /\ Start0(c)' = Start0(c) /\ Mid(c)' = Mid(c) /\ BufLen(c)' = BufLen(c)
      BY <2>1 DEF Mid, Start0, Base, BufLen, Enc
    <2>3. Len(buf[c]) = BufLen(c) \/ pos[c] = Len(x)
      <3>1. Len(buf[c]) = BufLen(c) \/ pos[c] >= Len(x) BY <1>1, <1>4, <2>1 DEF ReadDone, Want
      <3>2. pos[c] <= Len(x) BY <1>6, <2>1
      <3> QED BY <1>0, <1>5, <3>1, <3>2
    <2> HIDE DEF Mid, Start0, BufLen
    <2> QED BY <1>6, <2>1, <2>2, <2>3
  <1>14. CASE ParseHeader(c)
    <2>1. pc[c] = "header" /\ pc'[c] = "temp" /\ UNCHANGED <<fin, pos>>
      BY <1>0, <1>14 DEF TypeOK, ParseHeader
    <2> QED BY <1>6, <2>1
  <1>15. CASE CreateOutput(c) \/ CreateTemp(c)
    <2>1. pc[c] \in {"create", "temp"} /\ pc'[c] = "read" /\ UNCHANGED <<arg, fin, pos, buf, pending, ctr>>
      BY <1>0, <1>15 DEF TypeOK, CreateOutput, CreateTemp
    <2>2. pos[c] <= Len(x)
      <3>1. pc[c] = "create" => pos[c] = 0 BY DEF Shape
      <3> QED BY <1>6, <1>8, <2>1, <3>1
    <2>3. buf[c] = <<>> /\ pending[c] = <<>> BY <2>1 DEF Shape
    <2>4. pos'[c] = Mid(c)' + Len(buf'[c]) BY <2>1 DEF Shape
    <2>5. Mid(c)' = Start0(c)' + Len(pending'[c]) BY DEF Mid
    <2>6. Start0(c)' \in Nat /\ Mid(c)' \in Nat
      <3>1. Start0(c)' = Start0(c) /\ Mid(c)' = Mid(c) BY <2>1 DEF Mid, Start0, Base, BufLen, Enc
      <3> HIDE DEF Mid, Start0
      <3> QED BY <1>7, <3>1
    <2>7. Mid(c)' = pos[c] /\ Start0(c)' = pos[c]
      BY <1>8, <2>1, <2>3, <2>4, <2>5, <2>6
    <2>8. SubSeq(x, pos[c] + 1, pos[c]) = <<>> BY <1>0, <2>2, EmptySlice
    <2> HIDE DEF Mid, Start0
    <2> QED BY <2>1, <2>2, <2>3, <2>7, <2>8
  <1>16. CASE EncryptNext(c) \/ DecryptNext(c)
    <2>1. /\ pc[c] = "pend" /\ pc'[c] = "tail" /\ pending'[c] = <<>>
          /\ UNCHANGED <<arg, fin, pos, buf>>
      BY <1>0, <1>16 DEF TypeOK, EncryptNext, DecryptNext
    <2>2. pos'[c] = Mid(c)' + Len(buf'[c]) /\ pos[c] = Mid(c) + Len(buf[c]) BY <2>1 DEF Shape
    <2>3. Mid(c)' = Start0(c)' + Len(pending'[c]) BY DEF Mid
    <2>4. Start0(c)' \in Nat
      <3>1. ctr'[c] = ctr[c] + 1 BY <1>0, <1>16 DEF TypeOK, EncryptNext, DecryptNext
      <3>2. Start0(c)' = Start0(c) + BufLen(c) BY <1>0, <2>1, <3>1, NextChunk
      <3> HIDE DEF Start0, BufLen
      <3> QED BY <1>7, <3>2
    <2>5. BufLen(c)' = BufLen(c) BY <2>1 DEF BufLen, Enc
    <2> HIDE DEF Mid, Start0, BufLen
    <2>6. Mid(c)' = Mid(c) /\ Start0(c)' = Mid(c) /\ Mid(c) <= pos[c]
      BY <1>0, <1>7, <1>8, <2>1, <2>2, <2>3, <2>4
    <2>7. pos[c] <= Len(x) BY <1>6, <2>1
    <2>8. SubSeq(x, Mid(c) + 1, Mid(c)) = <<>>
      <3>1. Mid(c) <= Len(x) BY <1>0, <1>5, <1>7, <2>6, <2>7
      <3> QED BY <1>7, <3>1, EmptySlice
    <2> QED BY <1>6, <2>1, <2>5, <2>6, <2>7, <2>8
  <1>17. CASE EncryptLast(c) \/ DecryptLast(c)
    <2>1. pc'[c] = "flush" BY <1>0, <1>17 DEF TypeOK, EncryptLast, DecryptLast
    <2> QED BY <2>1
  <1>18. CASE HoldChunk(c)
    <2>1. /\ pc[c] = "tail" /\ pc'[c] = "read" /\ pending'[c] = buf[c] /\ buf'[c] = <<>>
          /\ UNCHANGED <<arg, fin, pos, ctr>>
      BY <1>0, <1>18 DEF TypeOK, HoldChunk
    <2>2. Start0(c)' = Start0(c) BY <2>1 DEF Start0, Base, BufLen, Enc
    <2>3. pending[c] = <<>> /\ pos[c] = Mid(c) + Len(buf[c]) BY <2>1 DEF Shape
    <2>4. Mid(c) = Start0(c) + Len(pending[c]) /\ Mid(c)' = Start0(c)' + Len(pending'[c]) BY DEF Mid
    <2> HIDE DEF Mid, Start0
    <2>5. Mid(c) = Start0(c) /\ Mid(c)' = pos[c]
      BY <1>0, <1>7, <1>8, <2>1, <2>2, <2>3, <2>4
    <2>6. pos[c] <= Len(x) BY <1>6, <2>1
    <2>7. SubSeq(x, pos[c] + 1, pos[c]) = <<>> BY <1>0, <2>6, EmptySlice
    <2> QED BY <1>6, <2>1, <2>2, <2>5, <2>6, <2>7
  <1>19. CASE Push(c)
    <2>1. UNCHANGED <<pc, arg, fin, pos, buf, pending, ctr>> BY <1>19 DEF Push
    <2>2. Start0(c)' = Start0(c) /\ Mid(c)' = Mid(c) /\ BufLen(c)' = BufLen(c)
      BY <2>1 DEF Mid, Start0, Base, BufLen, Enc
    <2> HIDE DEF Mid, Start0, BufLen
    <2> QED BY <1>6, <2>1, <2>2
  <1>20. CASE Leave(c) BY <1>20 DEF Leave
  <1> QED BY Kinds, <1>10, <1>11, <1>12, <1>13, <1>14, <1>15, <1>16, <1>17, <1>18, <1>19, <1>20
          DEF IndInv

\* A step of one call leaves what the others have read.
LEMMA ReadStep ==
    ASSUME IndInv, IndInv', \A d \in Calls : Shape(d), \A d \in Calls : Shape(d)',
           \A d \in Calls : ReadInv(d), NEW c \in Calls, Start(c) \/ Advance(c) \/ Fault(c), NEW e \in Calls
    PROVE  ReadInv(e)'
  <1>1. CASE e = c BY <1>1, ReadSelf
  <1>2. CASE e # c
    <2> SUFFICES ASSUME Quiet(fin[e])', pc'[e] \in {"header", "temp"} \cup Looping
                 PROVE  ReadInv(e)'
      BY DEF ReadInv, Looping
    <2>1. /\ pc'[e] = pc[e] /\ arg'[e] = arg[e] /\ fin'[e] = fin[e] /\ ctr'[e] = ctr[e]
          /\ pos'[e] = pos[e] /\ buf'[e] = buf[e] /\ pending'[e] = pending[e]
      BY <1>2, OthersKeep, OthersRead DEF IndInv
    <2>2. PICK i \in Inodes : i = fin[e] /\ i = fin'[e]
      BY <2>1 DEF IndInv, CallInv, Writing, Looping
    <2>3. Quiet(i)' BY <2>2 DEF Quiet
    <2>4. Quiet(i) /\ data'[i] = data[i] BY <2>3, QuietKeep
    <2>5. BufLen(e)' = BufLen(e) /\ Mid(e)' = Mid(e) /\ Start0(e)' = Start0(e)
      BY <2>1 DEF Mid, Start0, Base, BufLen, Enc
    <2>6. ReadInv(e) /\ Quiet(fin[e]) BY <2>2, <2>4
    <2> HIDE DEF BufLen, Mid, Start0
    <2> QED BY <2>1, <2>2, <2>4, <2>5, <2>6 DEF ReadInv
  <1> QED BY <1>1, <1>2

----------------------------------------------------------------------------
(* What an encryption seals                                                *)

\* Full chunks sealed one after the other carry the beginning of the input.
LEMMA SealedPlain ==
    ASSUME NEW x \in Seq(Cell), NEW id, NEW cell, NEW ss \in Seq(SealRecord),
           FullSeals(ss, x, id, cell)
    PROVE  Plain(ss) = SubSeq(x, 1, Len(ss) * CHUNK_SIZE)
  <1>1. Len(ss) \in Nat /\ Len(x) \in Nat /\ CHUNK_SIZE \in Nat BY LenProperties, ChunkAssumption
  <1>2. CASE ss = <<>>
    <2>1. Len(ss) * CHUNK_SIZE = 0
      <3>1. Len(ss) = 0 BY <1>2
      <3> QED BY <1>1, <3>1, Multiples
    <2>2. 0 + 1 = 1 /\ 0 \in Nat /\ 0 <= Len(x) BY <1>1
    <2>3. SubSeq(x, 0 + 1, 0) = <<>> BY <2>2, EmptySlice
    <2> QED BY <1>2, <2>1, <2>2, <2>3 DEF Plain
  <1>3. CASE ss # <<>>
    <2>1. Len(ss) \in 1 .. Len(ss) BY <1>1, <1>3, EmptySeq
    <2>2. ss[Len(ss)] = FullSeal(x, id, cell, Len(ss)) BY <2>1 DEF FullSeals
    <2>3. FullSeal(x, id, cell, Len(ss)).upto = SubSeq(x, 1, Len(ss) * CHUNK_SIZE)
      BY DEF FullSeal, Seal
    <2> QED BY <1>3, <2>2, <2>3 DEF Plain
  <1> QED BY <1>2, <1>3

\* Sealing the next full chunk of the input ...
LEMMA NextSeal ==
    ASSUME NEW x \in Seq(Cell), NEW id, NEW cell, NEW ss \in Seq(SealRecord), NEW s \in Nat,
           s = Len(ss) * CHUNK_SIZE, s + CHUNK_SIZE <= Len(x),
           FullSeals(ss, x, id, cell)
    PROVE  \A j \in 1 .. Len(ss) + 1 :
             Sealed(ss, cell, FALSE, BlobSegmentAad(id), SubSeq(x, s + 1, s + CHUNK_SIZE))[j]
               = FullSeal(x, id, cell, j)
  <1> DEFINE msg == SubSeq(x, s + 1, s + CHUNK_SIZE)
             r == Seal(cell, FALSE, BlobSegmentAad(id), msg, Plain(ss) \o msg)
             t == Sealed(ss, cell, FALSE, BlobSegmentAad(id), msg)
  <1>1. Len(ss) \in Nat /\ Len(x) \in Nat /\ CHUNK_SIZE \in Nat BY LenProperties, ChunkAssumption
  <1>2. (Len(ss) + 1) * CHUNK_SIZE = s + CHUNK_SIZE /\ (Len(ss) + 1) - 1 = Len(ss) BY <1>1, Multiples
  <1>3. Plain(ss) = SubSeq(x, 0 + 1, s)
    <2>1. 0 + 1 = 1 OBVIOUS
    <2> QED BY <2>1, SealedPlain
  <1>4. Plain(ss) \o msg = SubSeq(x, 0 + 1, s + CHUNK_SIZE)
    <2> DEFINE q == s + CHUNK_SIZE
    <2>1. 0 \in Nat /\ 0 <= s /\ q \in Nat /\ s <= q /\ q <= Len(x) BY <1>1
    <2> HIDE DEF q
    <2>2. SubSeq(x, 0 + 1, s) \o SubSeq(x, s + 1, q) = SubSeq(x, 0 + 1, q) BY <2>1, SliceJoin
    <2> QED BY <1>3, <2>2 DEF q
  <1>5. r = FullSeal(x, id, cell, Len(ss) + 1)
    <2>1. 0 + 1 = 1 OBVIOUS
    <2> QED BY <1>2, <1>4, <2>1 DEF FullSeal
  <1>6. t = Append(ss, r) BY DEF Sealed
  <1> HIDE DEF r, t, msg
  <1>7. t[Len(ss) + 1] = r /\ \A j \in 1 .. Len(ss) : t[j] = ss[j] BY <1>1, <1>6
  <1>8. \A j \in 1 .. Len(ss) + 1 : j = Len(ss) + 1 \/ j \in 1 .. Len(ss) BY <1>1
  <1>9. \A j \in 1 .. Len(ss) + 1 : t[j] = FullSeal(x, id, cell, j) BY <1>5, <1>7, <1>8 DEF FullSeals
  <1> QED BY <1>9 DEF t, msg

\* ... and then the remainder gives what encrypt_chunked seals.
LEMMA LastSeal ==
    ASSUME NEW x \in Seq(Cell), NEW id, NEW cell, NEW ss \in Seq(SealRecord), NEW s \in Nat,
           s = Len(ss) * CHUNK_SIZE, s <= Len(x), Len(x) < s + CHUNK_SIZE,
           FullSeals(ss, x, id, cell)
    PROVE  /\ Sealed(ss, cell, TRUE, BlobSegmentAad(id), SubSeq(x, s + 1, Len(x)))
                = ChunkedSeals(x, id, cell)
           /\ Len(x) \div CHUNK_SIZE = Len(ss)
  <1> DEFINE msg == SubSeq(x, s + 1, Len(x))
             r == Seal(cell, TRUE, BlobSegmentAad(id), msg, Plain(ss) \o msg)
             t == Sealed(ss, cell, TRUE, BlobSegmentAad(id), msg)
             n == Len(ss)
             u == ChunkedSeals(x, id, cell)
  <1>1. n \in Nat /\ Len(x) \in Nat /\ CHUNK_SIZE \in Nat \ {0} BY LenProperties, ChunkAssumption
  <1>2. Len(x) \div CHUNK_SIZE = n
    <2>1. n * CHUNK_SIZE <= Len(x) /\ Len(x) < n * CHUNK_SIZE + CHUNK_SIZE /\ n \in Int BY <1>1
    <2> HIDE DEF n
    <2>2. \A q \in Int : (q * CHUNK_SIZE <= Len(x) /\ Len(x) < q * CHUNK_SIZE + CHUNK_SIZE)
                           => q = Len(x) \div CHUNK_SIZE
      BY <1>1, Division
    <2> QED BY <2>1, <2>2, Zenon
  <1>3. Plain(ss) \o msg = SubSeq(x, 1, Len(x))
    <2>1. 0 + 1 = 1 /\ 0 \in Nat /\ 0 <= s /\ Len(x) <= Len(x) BY <1>1
    <2>2. Plain(ss) = SubSeq(x, 0 + 1, s) BY <2>1, SealedPlain
    <2>3. SubSeq(x, 0 + 1, s) \o SubSeq(x, s + 1, Len(x)) = SubSeq(x, 0 + 1, Len(x))
      <3> DEFINE m == Len(x)
      <3>1. m \in Nat /\ s <= m /\ m <= Len(x) BY <1>1
      <3> HIDE DEF m
      <3>2. SubSeq(x, 0 + 1, s) \o SubSeq(x, s + 1, m) = SubSeq(x, 0 + 1, m)
        BY <2>1, <3>1, SliceJoin
      <3> QED BY <3>2 DEF m
    <2> QED BY <2>1, <2>2, <2>3
  <1>4. u = [i \in 1 .. n + 1 |->
               Seal(cell, i = n + 1, BlobSegmentAad(id),
                    SubSeq(x, (i - 1) * CHUNK_SIZE + 1, IF i = n + 1 THEN Len(x) ELSE i * CHUNK_SIZE),
                    SubSeq(x, 1, IF i = n + 1 THEN Len(x) ELSE i * CHUNK_SIZE))]
    BY <1>2 DEF ChunkedSeals
  <1>5. u[n + 1] = r
    <2>1. n + 1 \in 1 .. n + 1 /\ (n + 1) - 1 = n BY <1>1
    <2>2. u[n + 1] = Seal(cell, TRUE, BlobSegmentAad(id),
                          SubSeq(x, ((n + 1) - 1) * CHUNK_SIZE + 1, Len(x)), SubSeq(x, 1, Len(x)))
      BY <1>4, <2>1
    <2> QED BY <1>3, <2>1, <2>2
  <1>6. ASSUME NEW j \in 1 .. n PROVE u[j] = ss[j]
    <2>1. j \in 1 .. n + 1 /\ j # n + 1 BY <1>1
    <2>2. u[j] = Seal(cell, FALSE, BlobSegmentAad(id),
                      SubSeq(x, (j - 1) * CHUNK_SIZE + 1, j * CHUNK_SIZE), SubSeq(x, 1, j * CHUNK_SIZE))
      BY <1>4, <2>1
    <2>3. ss[j] = FullSeal(x, id, cell, j) BY DEF FullSeals
    <2> QED BY <2>2, <2>3 DEF FullSeal
  <1>7. t = Append(ss, r) BY DEF Sealed
  <1>8. t = u
    <2>1. \E f : u = [i \in 1 .. n + 1 |-> f[i]]
      <3>1. u = [i \in 1 .. n + 1 |-> u[i]] BY <1>4
      <3> QED BY <3>1
    <2> HIDE DEF t, u, r, msg
    <2>2. Append(ss, r) = [i \in 1 .. n + 1 |-> IF i = n + 1 THEN r ELSE ss[i]]
      <3>1. Append(ss, r) \in Seq(SealRecord \cup {r}) /\ Len(Append(ss, r)) = n + 1
            /\ Append(ss, r)[n + 1] = r /\ \A i \in 1 .. n : Append(ss, r)[i] = ss[i]
        <4>1. ss \in Seq(SealRecord \cup {r}) OBVIOUS
        <4> QED BY <4>1, AppendProperties
      <3> DEFINE a == Append(ss, r)
      <3> HIDE DEF a
      <3>2. a = [i \in 1 .. n + 1 |-> a[i]]
        <4>1. a \in [1 .. n + 1 -> SealRecord \cup {r}] BY <3>1, LenProperties DEF a
        <4> QED BY <4>1
      <3>3. ASSUME NEW i \in 1 .. n + 1 PROVE a[i] = IF i = n + 1 THEN r ELSE ss[i]
        <4>1. i = n + 1 \/ (i \in 1 .. n /\ i # n + 1) BY <1>1
        <4> QED BY <3>1, <4>1 DEF a
      <3>4. a = [i \in 1 .. n + 1 |-> IF i = n + 1 THEN r ELSE ss[i]] BY <3>2, <3>3
      <3> QED BY <3>4 DEF a
    <2>3. ASSUME NEW i \in 1 .. n + 1 PROVE u[i] = IF i = n + 1 THEN r ELSE ss[i]
      <3>1. i = n + 1 \/ i \in 1 .. n BY <1>1
      <3>2. i \in 1 .. n => i # n + 1 BY <1>1
      <3> QED BY <1>5, <1>6, <3>1, <3>2
    <2>4. u = [i \in 1 .. n + 1 |-> IF i = n + 1 THEN r ELSE ss[i]] BY <2>1, <2>3
    <2> QED BY <1>7, <2>2, <2>4
  <1> QED BY <1>2, <1>8

\* Only opening the input changes which file a call reads.
LEMMA FinKeep ==
    ASSUME IndInv, NEW c \in Calls, Start(c) \/ Advance(c) \/ Fault(c), ~OpenInput(c)
    PROVE  fin'[c] = fin[c]
  <1>1. CASE Start(c)
    BY <1>1 DEF Start, StartRejected, StartDecrypt, StartEncrypt, StartNoRandomness
  <1>2. CASE ~Start(c)
    BY <1>2, Kinds
       DEF IndInv, Read, ReadFull, ParseHeader, CreateOutput, CreateTemp, EncryptNext, DecryptNext,
           EncryptLast, DecryptLast, HoldChunk, Push, Leave
  <1> QED BY <1>1, <1>2

\* An input with another full chunk at the last counter is too long for
\* encrypt_chunked.
LEMMA TooLong ==
    ASSUME NEW n \in Nat, NEW s \in Nat, s = COUNTER_MAX * CHUNK_SIZE, s + CHUNK_SIZE <= n
    PROVE  n \div CHUNK_SIZE > COUNTER_MAX
  <1> DEFINE q == n \div CHUNK_SIZE
             p == q * CHUNK_SIZE
  <1>1. q \in Nat /\ p <= n /\ n < p + CHUNK_SIZE BY ChunkAssumption, Division
  <1>2. q <= COUNTER_MAX => p <= s /\ p \in Int BY <1>1, ChunkAssumption, CounterAssumption, Multiples
  <1> HIDE DEF q, p
  <1>3. ~(q <= COUNTER_MAX) BY <1>1, <1>2, ChunkAssumption
  <1>4. q > COUNTER_MAX BY <1>1, <1>3, CounterAssumption
  <1> QED BY <1>4 DEF q

\* Of an input nobody writes, an encryption seals what encrypt_chunked does.
LEMMA EncSelf ==
    ASSUME IndInv, IndInv', KeysInv, NEW c \in Calls, ReadInv(c), EncInv(c),
           Start(c) \/ Advance(c) \/ Fault(c)
    PROVE  EncInv(c)'
  <1> SUFFICES ASSUME HasKey(c)', fin'[c] # NoInode, Quiet(fin[c])' PROVE EncInv(c)' BY DEF EncInv
  <1>0. /\ TypeOK /\ (\A d \in Calls : CallInv(d)) /\ CallInv(c) /\ TypeOK' /\ Shape(c) /\ KeyInv(c)
        /\ Len(buf[c]) \in Nat /\ Len(pending[c]) \in Nat /\ pos[c] \in Nat
        /\ SealInv /\ StreamInv
    BY LenProperties DEF IndInv, KeysInv, TypeOK
  <1>1. HasKey(c)
    <2> SUFFICES ASSUME StartEncrypt(c) PROVE FALSE BY <1>0, HasKeyStep
    <2>1. pc[c] = "idle" /\ fin' = fin BY DEF StartEncrypt
    <2> QED BY <1>0, <2>1 DEF Shape
  <1>2. dk'[c] = dk[c] /\ prefix'[c] = prefix[c] /\ arg'[c] = arg[c] BY <1>0, <1>1, HasKeyStep
  <1>3. PICK i \in Inodes : i = fin'[c] BY <1>0 DEF TypeOK
  <1>4. Quiet(i)' BY <1>3 DEF Quiet
  <1>5. Quiet(i) /\ data'[i] = data[i] BY <1>4, QuietKeep
  <1>6. PICK x \in Seq(Cell) : x = data[i] /\ x = data'[i] BY <1>0, <1>5 DEF TypeOK
  <1>7. PICK k \in DataKeys : k = dk[c] /\ k = dk'[c] BY <1>1, <1>2 DEF KeysInv, KeyInv
  <1>8. PICK id \in BlobIds : id = arg[c].id /\ id = arg'[c].id BY <1>0, <1>1, <1>2, KeyStream
  <1>9. PICK cell \in PrefixCell : cell = prefix[c] /\ cell = prefix'[c] BY <1>0, <1>1, <1>2, KeyStream
  <1>10. Len(x) \in Nat /\ Enc(c) /\ ~Dec(c) /\ arg[c] # NoCall /\ pc[c] # "idle"
    BY <1>0, <1>1, <1>6, LenProperties DEF HasKey, Enc, Dec, CallInv
  <1> SUFFICES /\ Sealing(c)' => \A j \in 1 .. ctr'[c] : seals'[k][j] = FullSeal(x, id, cell, j)
               /\ Complete(seals'[k]) =>
                    seals'[k] = ChunkedSeals(x, id, cell) /\ Len(x) \div CHUNK_SIZE <= COUNTER_MAX
               /\ pc'[c] \in {"flush", "finish"} \/ res'[c] = "Ok" => Complete(seals'[k])
               /\ res'[c] = "Aead" => Len(x) \div CHUNK_SIZE > COUNTER_MAX
    BY <1>3, <1>6, <1>7, <1>8, <1>9 DEF EncInv
  <1>11. fin[c] = i =>
               /\ Sealing(c) => \A j \in 1 .. ctr[c] : seals[k][j] = FullSeal(x, id, cell, j)
               /\ Complete(seals[k]) =>
                    seals[k] = ChunkedSeals(x, id, cell) /\ Len(x) \div CHUNK_SIZE <= COUNTER_MAX
               /\ pc[c] \in {"flush", "finish"} \/ res[c] = "Ok" => Complete(seals[k])
               /\ res[c] = "Aead" => Len(x) \div CHUNK_SIZE > COUNTER_MAX
    BY <1>1, <1>5, <1>6, <1>7, <1>8, <1>9, Names DEF EncInv
  <1>12. fin[c] = i /\ pc[c] \in Looping =>
               /\ pending[c] = SubSeq(x, Start0(c) + 1, Mid(c))
               /\ buf[c] = SubSeq(x, Mid(c) + 1, pos[c])
               /\ pos[c] <= Len(x)
               /\ pc[c] \in {"pend", "tail"} => Len(buf[c]) = BufLen(c) \/ pos[c] = Len(x)
    BY <1>5, <1>6 DEF ReadInv
  <1>13. BufLen(c) = CHUNK_SIZE /\ Start0(c) = 0 + ctr[c] * CHUNK_SIZE BY <1>10 DEF BufLen, Start0, Base
  <1>14. Start0(c) \in Nat /\ Mid(c) \in Nat /\ Start0(c) = ctr[c] * CHUNK_SIZE
    <2>1. ctr[c] * BufLen(c) \in Nat /\ Start0(c) \in Nat /\ Mid(c) \in Nat BY <1>0, StartNat
    <2> DEFINE p == ctr[c] * CHUNK_SIZE
    <2>2. p \in Nat /\ Start0(c) = 0 + p BY <1>13, <2>1
    <2> HIDE DEF p, Start0, Mid
    <2>3. Start0(c) = p BY <2>2
    <2> QED BY <2>1, <2>3 DEF p
  <1>15. Mid(c) = Start0(c) + Len(pending[c]) BY DEF Mid
  <1> HIDE DEF Start0, Mid, BufLen
  <1>16. CASE OpenInput(c)
    <2>1. pc[c] = "open" /\ ctr[c] = 0 /\ ctr' = ctr /\ res' = res /\ pc'[c] = "create" /\ res[c] = "none"
      BY <1>0, <1>10, <1>16 DEF OpenInput, TypeOK, CallInv, Early
    <2>2. seals' = seals BY <1>16 DEF OpenInput
    <2>3. ~Complete(seals[k]) BY <1>0, <1>7, <1>10, <2>1 DEF SealInv, Sealing
    <2> QED BY <2>1, <2>2, <2>3
  <1>17. CASE ~OpenInput(c) /\ ~EncryptNext(c) /\ ~EncryptLast(c)
    <2>1. fin[c] = i /\ seals' = seals BY <1>0, <1>3, <1>17, FinKeep, CryptoKeep
    <2>2. Sealing(c)' => Sealing(c) /\ ctr'[c] = ctr[c] BY <1>1, <1>17, SealingKeep
    <2>3. pc'[c] \in {"flush", "finish"} \/ res'[c] = "Ok" =>
            pc[c] \in {"flush", "finish"} \/ res[c] = "Ok"
      <3>1. Push(c) => pc' = pc BY DEF Push
      <3>2. Flush(c) => pc[c] = "flush" BY DEF Flush
      <3>3. Finish(c) => pc[c] = "finish" BY DEF Finish
      <3>4. ~Rename(c) BY <1>0, <1>10 DEF Rename, CallInv
      <3>5. ~DecryptLast(c) BY <1>10 DEF DecryptLast
      <3> QED BY <1>17, <3>1, <3>2, <3>3, <3>4, <3>5, Outcome
    <2>4. ASSUME res'[c] = "Aead" PROVE Len(x) \div CHUNK_SIZE > COUNTER_MAX
      <3>1. ~RejectHeader(c) BY <1>0, <1>10 DEF RejectHeader, CallInv
      <3>2. CASE Drop(c)
        <4>1. res[c] = "Aead" BY <2>4, <3>2 DEF Drop
        <4> QED BY <1>11, <2>1, <4>1
      <3>3. CASE SegmentError(c)
        <4>1. pc[c] = "pend" /\ ctr[c] = COUNTER_MAX BY <1>10, <3>3 DEF SegmentError
        <4>2. Len(pending[c]) = CHUNK_SIZE /\ pos[c] = Mid(c) + Len(buf[c])
          BY <1>0, <1>13, <4>1 DEF Shape, Looping
        <4>3. pos[c] <= Len(x) BY <1>12, <2>1, <4>1 DEF Looping
        <4>4. Start0(c) = COUNTER_MAX * CHUNK_SIZE BY <1>14, <4>1
        <4>5. Start0(c) + CHUNK_SIZE <= Len(x)
          BY <1>0, <1>10, <1>14, <1>15, <4>2, <4>3, ChunkAssumption
        <4> QED BY <1>10, <1>14, <4>4, <4>5, TooLong
      <3> QED BY <2>4, <3>1, <3>2, <3>3, Outcome
    <2> QED BY <1>11, <2>1, <2>2, <2>3, <2>4
  <1>18. CASE EncryptNext(c) \/ EncryptLast(c)
    <2>1. fin[c] = i
      <3>1. ~OpenInput(c) BY <1>18 DEF OpenInput, EncryptNext, EncryptLast
      <3> QED BY <1>3, <3>1, FinKeep
    <2>2. PICK last \in BOOLEAN, msg \in Seq(Cell) :
             /\ last <=> EncryptLast(c)
             /\ msg = IF last THEN buf[c] ELSE pending[c]
             /\ Len(msg) \in Nat /\ (IF last THEN Len(msg) < CHUNK_SIZE ELSE Len(msg) = CHUNK_SIZE)
             /\ seals'[dk[c]] = Sealed(seals[dk[c]], prefix[c], last, BlobSegmentAad(arg[c].id), msg)
             /\ Sealing(c) /\ ~Complete(seals[dk[c]])
             /\ ctr[c] = Len(seals[dk[c]]) /\ ctr[c] \in Nat /\ ctr' = [ctr EXCEPT ![c] = ctr[c] + 1]
             /\ seals[dk[c]] \in Seq(SealRecord) /\ SealChain(seals[dk[c]])
      BY <1>0, <1>18, SealAt
    <2> DEFINE ss == seals[k]
    <2>3. /\ seals'[k] = Sealed(ss, cell, last, BlobSegmentAad(id), msg)
          /\ ss \in Seq(SealRecord) /\ SealChain(ss) /\ ~Complete(ss) /\ ctr[c] = Len(ss)
          /\ FullSeals(ss, x, id, cell) /\ Start0(c) = Len(ss) * CHUNK_SIZE
      BY <1>7, <1>8, <1>9, <1>11, <1>14, <2>1, <2>2 DEF FullSeals
    <2> HIDE DEF ss
    <2>4. Complete(seals'[k]) <=> last
      <3>1. Complete(Sealed(ss, cell, last, BlobSegmentAad(id), msg)) <=> last BY <2>3, ChainAppend
      <3> QED BY <2>3, <3>1
    <2>5. pc[c] \in {"pend", "tail"} /\ res' = res /\ res[c] = "none" /\ ctr'[c] = ctr[c] + 1
      BY <1>0, <1>18, <2>2 DEF TypeOK, EncryptNext, EncryptLast, CallInv, Writing
    <2>6. pos[c] = Mid(c) + Len(buf[c]) BY <1>0, <2>5 DEF Shape, Looping
    <2>7. CASE last
      <3>1. EncryptLast(c) /\ msg = buf[c] /\ Len(buf[c]) < CHUNK_SIZE BY <2>2, <2>7
      <3>2. pc'[c] = "flush" /\ pc[c] = "tail" BY <1>0, <3>1 DEF TypeOK, EncryptLast
      <3>3. pending[c] = <<>> BY <1>0, <3>2 DEF Shape
      <3>4. Mid(c) = Start0(c)
        <4>1. Len(pending[c]) = 0 BY <3>3
        <4> QED BY <1>14, <1>15, <4>1
      <3>5. pos[c] = Len(x) BY <1>0, <1>12, <1>13, <2>1, <3>1, <3>2, ChunkAssumption DEF Looping
      <3>6. msg = SubSeq(x, Start0(c) + 1, Len(x)) BY <1>12, <2>1, <3>1, <3>2, <3>4, <3>5 DEF Looping
      <3>7. Start0(c) <= Len(x) /\ Len(x) < Start0(c) + CHUNK_SIZE
        BY <1>0, <1>10, <1>14, <2>6, <3>1, <3>4, <3>5, ChunkAssumption
      <3> DEFINE s == Start0(c)
      <3>8. s \in Nat /\ s = Len(ss) * CHUNK_SIZE /\ s <= Len(x) /\ Len(x) < s + CHUNK_SIZE
        BY <1>14, <2>3, <3>7
      <3> HIDE DEF s
      <3>9. /\ Sealed(ss, cell, TRUE, BlobSegmentAad(id), SubSeq(x, s + 1, Len(x))) = ChunkedSeals(x, id, cell)
            /\ Len(x) \div CHUNK_SIZE = Len(ss)
        <4>1. ss \in Seq(SealRecord) /\ FullSeals(ss, x, id, cell) BY <2>3
        <4> QED BY <3>8, <4>1, LastSeal
      <3>10. seals'[k] = ChunkedSeals(x, id, cell) BY <2>3, <2>7, <3>6, <3>9 DEF s
      <3>11. Len(x) \div CHUNK_SIZE <= COUNTER_MAX BY <1>0, <1>1, <2>2, <2>3, <3>9 DEF KeyInv
      <3>12. ~Sealing(c)' BY <3>2 DEF Sealing
      <3> QED BY <2>4, <2>5, <2>7, <3>10, <3>11, <3>12
    <2>8. CASE ~last
      <3>1. ~EncryptLast(c) /\ msg = pending[c] /\ Len(pending[c]) = CHUNK_SIZE BY <2>2, <2>8
      <3>2. pc'[c] = "tail" BY <1>0, <1>18, <3>1 DEF TypeOK, EncryptNext
      <3> DEFINE s == Start0(c)
      <3>3. s \in Nat /\ Mid(c) = s + CHUNK_SIZE /\ pos[c] <= Len(x)
        BY <1>12, <1>14, <1>15, <2>1, <2>5, <3>1 DEF Looping
      <3>4. s + CHUNK_SIZE <= Len(x) BY <1>0, <1>10, <1>14, <2>6, <3>3, ChunkAssumption
      <3>5. msg = SubSeq(x, s + 1, s + CHUNK_SIZE) BY <1>12, <2>1, <2>5, <3>1, <3>3 DEF Looping
      <3>6. s = Len(ss) * CHUNK_SIZE BY <2>3
      <3> HIDE DEF s
      <3>7. \A j \in 1 .. Len(ss) + 1 :
              Sealed(ss, cell, FALSE, BlobSegmentAad(id), SubSeq(x, s + 1, s + CHUNK_SIZE))[j]
                = FullSeal(x, id, cell, j)
        BY <2>3, <3>3, <3>4, <3>6, NextSeal
      <3>8. seals'[k] = Sealed(ss, cell, FALSE, BlobSegmentAad(id), SubSeq(x, s + 1, s + CHUNK_SIZE))
        BY <2>3, <2>8, <3>5
      <3>9. \A j \in 1 .. ctr'[c] : seals'[k][j] = FullSeal(x, id, cell, j) BY <2>3, <2>5, <3>7, <3>8
      <3> QED BY <2>4, <2>5, <2>8, <3>2, <3>9
    <2> QED BY <2>7, <2>8
  <1> QED BY <1>16, <1>17, <1>18

\* A step of one call leaves what the others have sealed.
LEMMA EncStep ==
    ASSUME IndInv, IndInv', KeysInv, \A d \in Calls : ReadInv(d), \A d \in Calls : EncInv(d),
           NEW c \in Calls, Start(c) \/ Advance(c) \/ Fault(c), NEW e \in Calls
    PROVE  EncInv(e)'
  <1>1. CASE e = c BY <1>1, EncSelf
  <1>2. CASE e # c
    <2> SUFFICES ASSUME HasKey(e)', fin'[e] # NoInode, Quiet(fin[e])' PROVE EncInv(e)' BY DEF EncInv
    <2>1. /\ pc'[e] = pc[e] /\ arg'[e] = arg[e] /\ fin'[e] = fin[e] /\ ctr'[e] = ctr[e]
          /\ dk'[e] = dk[e] /\ prefix'[e] = prefix[e] /\ res'[e] = res[e]
      BY <1>2, OthersKeep DEF IndInv
    <2>2. HasKey(e) /\ (Sealing(e)' <=> Sealing(e)) BY <2>1 DEF HasKey, Sealing, Enc
    <2>3. seals'[dk[e]] = seals[dk[e]] BY <1>2, <2>2, KeyApart DEF KeysInv
    <2>4. PICK i \in Inodes : i = fin[e] /\ i = fin'[e] BY <2>1 DEF IndInv, TypeOK
    <2>5. Quiet(i)' BY <2>4 DEF Quiet
    <2>6. Quiet(i) /\ data'[i] = data[i] BY <2>5, QuietKeep
    <2>7. EncInv(e) OBVIOUS
    <2> QED BY <2>1, <2>2, <2>3, <2>4, <2>6, <2>7 DEF EncInv
  <1> QED BY <1>1, <1>2

----------------------------------------------------------------------------
(* What an encryption writes                                               *)

\* Concatenation of byte strings is associative.
LEMMA JoinedCells == \A u, v, w \in Seq(Cell) : u \o (v \o w) = (u \o v) \o w
  <1> SUFFICES ASSUME NEW u \in Seq(Cell), NEW v \in Seq(Cell), NEW w \in Seq(Cell)
               PROVE  u \o (v \o w) = (u \o v) \o w
    OBVIOUS
  <1> QED BY Joined

\* A blob without segments is its header.
LEMMA FramedEmpty ==
    ASSUME NEW k \in DataKeys, NEW cell \in PrefixCell
    PROVE  Framed(k, cell, <<>>) = WriteHeader(k, cell)
  <1>1. <<>> \in Seq(Seq(Cell)) /\ <<>> \in Seq(Cell) OBVIOUS
  <1>2. FlattenSeq(<<>>) = <<>> BY <1>1, FlattenAppend
  <1>3. [i \in 1 .. Len(<<>>) |-> SealBytes(k, i - 1, Len(<<>>[i].msg))] = <<>> OBVIOUS
  <1>4. WriteHeader(k, cell) \in Seq(Cell)
    <2>1. cell \in Cell BY DEF PrefixCell, Cell
    <2> QED BY <2>1, BytesTyped
  <1> HIDE DEF WriteHeader
  <1>5. WriteHeader(k, cell) \o <<>> = WriteHeader(k, cell) BY <1>4
  <1> QED BY <1>2, <1>3, <1>5 DEF Framed

\* Sealing a segment appends its bytes to the blob.
LEMMA FramedAppend ==
    ASSUME NEW k \in DataKeys, NEW cell \in PrefixCell, NEW ss \in Seq(SealRecord),
           NEW t \in Seq(SealRecord), Len(t) = Len(ss) + 1, \A i \in 1 .. Len(ss) : t[i] = ss[i]
    PROVE  Framed(k, cell, t) = Framed(k, cell, ss) \o SealBytes(k, Len(ss), Len(t[Len(ss) + 1].msg))
  <1> DEFINE n == Len(ss)
             b == SealBytes(k, n, Len(t[n + 1].msg))
             h == WriteHeader(k, cell)
  <1>1. /\ Segments(k, ss) \in Seq(Seq(Cell)) /\ Len(Segments(k, ss)) = n
        /\ \A i \in 1 .. n : Segments(k, ss)[i] = SealBytes(k, i - 1, Len(ss[i].msg))
    BY SegmentsAre
  <1>2. /\ Segments(k, t) \in Seq(Seq(Cell)) /\ Len(Segments(k, t)) = n + 1
        /\ \A i \in 1 .. n + 1 : Segments(k, t)[i] = SealBytes(k, i - 1, Len(t[i].msg))
        /\ Len(t[n + 1].msg) \in Nat
    <2>1. n \in Nat BY LenProperties
    <2>2. n + 1 \in 1 .. n + 1 BY <2>1
    <2> QED BY <2>2, SegmentsAre
  <1>3. n \in Nat /\ b \in Seq(Cell) BY <1>2, LenProperties, SegmentBytes
  <1>4. Segments(k, t) = Append(Segments(k, ss), b)
    <2> DEFINE u == Segments(k, t)
               s == Segments(k, ss)
    <2>1. u[n + 1] = b
      <3>1. n + 1 \in 1 .. n + 1 /\ (n + 1) - 1 = n BY <1>3
      <3> QED BY <1>2, <3>1
    <2>2. \A i \in 1 .. n : u[i] = s[i]
      <3>1. \A i \in 1 .. n : i \in 1 .. n + 1 BY <1>3
      <3> QED BY <1>1, <1>2, <3>1
    <2>3. /\ u \in Seq(Seq(Cell)) /\ Len(u) = n + 1 /\ s \in Seq(Seq(Cell)) /\ Len(s) = n
      BY <1>1, <1>2
    <2> HIDE DEF u, s, b, n
    <2>4. Append(s, b) \in Seq(Seq(Cell)) /\ Len(Append(s, b)) = n + 1 /\ Append(s, b)[n + 1] = b
          /\ \A i \in 1 .. n : Append(s, b)[i] = s[i]
      BY <1>3, <2>3, AppendProperties
    <2>5. \A i \in 1 .. n + 1 : u[i] = Append(s, b)[i]
      <3>1. \A i \in 1 .. n + 1 : i = n + 1 \/ i \in 1 .. n BY <1>3
      <3> QED BY <2>1, <2>2, <2>4, <3>1
    <2>6. u = Append(s, b)
      <3> DEFINE a == Append(s, b)
      <3>1. a \in Seq(Seq(Cell)) /\ Len(a) = Len(u) /\ \A i \in 1 .. Len(u) : u[i] = a[i] BY <2>3, <2>4, <2>5
      <3> HIDE DEF a
      <3>2. u = a BY <2>3, <3>1, SeqEqual
      <3> QED BY <3>2 DEF a
    <2> QED BY <2>6 DEF u, s
  <1>5. /\ FlattenSeq(Segments(k, ss)) \in Seq(Cell)
        /\ FlattenSeq(Segments(k, t)) = FlattenSeq(Segments(k, ss)) \o b
    <2> HIDE DEF b
    <2> QED BY <1>1, <1>3, <1>4, FlattenAppend
  <1>6. h \in Seq(Cell)
    <2>1. cell \in Cell BY DEF PrefixCell, Cell
    <2> QED BY <2>1, BytesTyped
  <1>7. Framed(k, cell, ss) = h \o FlattenSeq(Segments(k, ss)) /\ Framed(k, cell, t) = h \o FlattenSeq(Segments(k, t))
    BY DEF Framed, Segments
  <1> DEFINE f == FlattenSeq(Segments(k, ss))
  <1>8. f \in Seq(Cell) /\ Framed(k, cell, ss) = h \o f /\ Framed(k, cell, t) = h \o (f \o b) BY <1>5, <1>7
  <1> HIDE DEF f, h, b
  <1>9. h \o (f \o b) = (h \o f) \o b BY <1>3, <1>6, <1>8, JoinedCells, Zenon
  <1>10. Framed(k, cell, t) = Framed(k, cell, ss) \o b BY <1>8, <1>9
  <1> QED BY <1>10 DEF b

\* A write() at the end of the file moves bytes from the BufWriter to the file.
LEMMA PushMoves ==
    ASSUME TypeOK, NEW c \in Calls, CallInv(c), Push(c), NEW i \in Inodes, i = fout[c],
           woff[c] = Len(data[i])
    PROVE  /\ data'[i] \o wbuf'[c] = data[i] \o wbuf[c] /\ woff'[c] = Len(data'[i])
           /\ due[c] = Len(wbuf[c]) => due'[c] = Len(wbuf'[c])
  <1>1. PICK n \in 1 .. due[c] :
          /\ PushBytes(c, n)
          /\ wbuf' = [wbuf EXCEPT ![c] = SubSeq(@, n + 1, Len(@))]
          /\ due' = [due EXCEPT ![c] = @ - n]
    BY DEF Push
  <1>2. /\ data[i] \in Seq(Cell) /\ wbuf[c] \in Seq(Cell) /\ due[c] \in Nat
        /\ due[c] <= Len(wbuf[c]) /\ Len(wbuf[c]) \in Nat
    BY DEF TypeOK, CallInv
  <1>3. n \in 0 .. Len(wbuf[c]) /\ n \in Nat BY <1>1, <1>2
  <1> DEFINE x == SubSeq(wbuf[c], 1, n)
             y == SubSeq(wbuf[c], n + 1, Len(wbuf[c]))
  <1>4. x \in Seq(Cell) /\ y \in Seq(Cell) /\ Len(x) = n /\ Len(y) = Len(wbuf[c]) - n /\ x \o y = wbuf[c]
    BY <1>2, <1>3, CutAndJoin
  <1>5. data'[i] = WriteAt(data[i], Len(data[i]), x) /\ woff'[c] = Len(data[i]) + n
    BY <1>1, <1>2 DEF TypeOK, PushBytes
  <1>6. wbuf'[c] = y /\ due'[c] = due[c] - n BY <1>1 DEF TypeOK
  <1> HIDE DEF x, y
  <1>7. data'[i] = data[i] \o x BY <1>2, <1>4, <1>5, WriteAtEnd
  <1>8. Len(data'[i]) = Len(data[i]) + n BY <1>2, <1>4, <1>7
  <1>9. data[i] \o (x \o y) = (data[i] \o x) \o y
    BY <1>2, <1>4, JoinedCells, Zenon
  <1> QED BY <1>2, <1>3, <1>4, <1>5, <1>6, <1>7, <1>8, <1>9

\* An encryption that nobody disturbs keeps its file and BufWriter together at
\* the blob it has sealed so far.
LEMMA OutSelf ==
    ASSUME IndInv, IndInv', KeysInv, NEW c \in Calls, OutInv(c), Start(c) \/ Advance(c) \/ Fault(c)
    PROVE  OutInv(c)'
  <1> USE DEF Looping
  <1> SUFFICES ASSUME HasKey(c)', fout'[c] # NoInode, Undisturbed(fout[c], c)' PROVE OutInv(c)'
    BY DEF OutInv
  <1>0. /\ TypeOK /\ (\A d \in Calls : CallInv(d)) /\ CallInv(c) /\ TypeOK' /\ Shape(c) /\ KeyInv(c)
        /\ SealInv /\ StreamInv /\ CallInv(c)'
    BY DEF IndInv, KeysInv
  <1>1. HasKey(c)
    <2> SUFFICES ASSUME StartEncrypt(c) PROVE FALSE BY <1>0, HasKeyStep
    <2>1. pc[c] = "idle" /\ fout' = fout BY DEF StartEncrypt
    <2> QED BY <1>0, <2>1 DEF CallInv, Early
  <1>2. dk'[c] = dk[c] /\ prefix'[c] = prefix[c] /\ arg'[c] = arg[c] BY <1>0, <1>1, HasKeyStep
  <1>3. PICK i \in Inodes : i = fout'[c] BY <1>0 DEF TypeOK
  <1>4. Undisturbed(i, c)' BY <1>3 DEF Undisturbed
  <1>5. Undisturbed(i, c) BY <1>4, OwnOutput
  <1>6. PICK k \in DataKeys : k = dk[c] /\ k = dk'[c] BY <1>1, <1>2 DEF KeysInv, KeyInv
  <1>7. PICK cell \in PrefixCell : cell = prefix[c] /\ cell = prefix'[c] BY <1>0, <1>1, <1>2, KeyStream
  <1>8. /\ Enc(c) /\ ~Dec(c) /\ arg[c] # NoCall /\ pc[c] # "idle" /\ seals[k] \in Seq(SealRecord)
        /\ seals'[k] \in Seq(SealRecord) /\ data[i] \in Seq(Cell) /\ data'[i] \in Seq(Cell)
        /\ wbuf[c] \in Seq(Cell) /\ wbuf'[c] \in Seq(Cell)
    BY <1>0, <1>1 DEF HasKey, Enc, Dec, CallInv, TypeOK
  <1> SUFFICES /\ pc'[c] \in Looping \cup {"flush", "finish"} =>
                    woff'[c] = Len(data'[i]) /\ data'[i] \o wbuf'[c] = Framed(k, cell, seals'[k])
               /\ pc'[c] = "finish" => due'[c] = Len(wbuf'[c])
               /\ res'[c] = "Ok" /\ crashes' = 0 => data'[i] = Framed(k, cell, seals'[k])
    BY <1>3, <1>6, <1>7 DEF OutInv
  <1>9. fout[c] = i =>
           /\ pc[c] \in Looping \cup {"flush", "finish"} =>
                woff[c] = Len(data[i]) /\ data[i] \o wbuf[c] = Framed(k, cell, seals[k])
           /\ pc[c] = "finish" => due[c] = Len(wbuf[c])
    BY <1>1, <1>5, <1>6, <1>7, Names DEF OutInv
  <1>10. CASE CreateOutput(c)
    <2>1. /\ pc[c] = "create" /\ pc'[c] = "read" /\ UNCHANGED <<res, woff, seals>>
          /\ wbuf'[c] = WriteHeader(k, cell) /\ data'[i] = <<>> /\ woff[c] = 0 /\ res[c] = "none" /\ ctr[c] = 0
      BY <1>0, <1>3, <1>6, <1>7, <1>10 DEF TypeOK, CreateOutput, CreateFile, CallInv, Early
    <2>2. Len(seals[k]) = 0 BY <1>0, <1>1, <1>6, <1>8, <2>1 DEF KeyInv, Sealing
    <2>3. seals[k] = <<>> BY <1>8, <2>2, EmptySeq
    <2>4. Framed(k, cell, <<>>) = WriteHeader(k, cell) BY FramedEmpty
    <2> HIDE DEF WriteHeader
    <2>5. data'[i] \o wbuf'[c] = wbuf'[c] /\ Len(data'[i]) = 0 BY <1>8, <2>1
    <2> QED BY <2>1, <2>3, <2>4, <2>5
  <1>11. CASE ~CreateOutput(c)
    <2>0. ~CreateTemp(c) /\ ~DecryptNext(c) /\ ~DecryptLast(c) /\ ~ParseHeader(c) /\ ~Start(c)
      BY <1>0, <1>8, Running DEF CreateTemp, DecryptNext, DecryptLast, ParseHeader, CallInv
    <2>1. fout[c] = i BY <1>3, <1>11, <2>0, FoutSame
    <2>2. CASE OpenInput(c)
      <3>1. pc[c] = "open" BY <2>2 DEF OpenInput
      <3>2. fout[c] = NoInode BY <1>0, <3>1 DEF CallInv, Early
      <3> QED BY <2>1, <3>2, Names
    <2>3. CASE Read(c) \/ ReadFull(c) \/ HoldChunk(c)
      <3>1. /\ pc[c] \in Looping \cup {"header"} /\ pc'[c] \in Looping \cup {"header"}
            /\ UNCHANGED <<res, woff, wbuf, data, seals>>
        BY <1>0, <2>3 DEF TypeOK, Read, ReadFull, HoldChunk
      <3>2. pc[c] # "header" /\ res[c] = "none"
        BY <1>0, <1>8, <3>1 DEF CallInv, Early, Writing
      <3> QED BY <1>9, <2>1, <3>1, <3>2
    <2>4. CASE EncryptNext(c) \/ EncryptLast(c)
      <3>1. PICK last \in BOOLEAN, msg \in Seq(Cell) :
             /\ last <=> EncryptLast(c)
             /\ msg = IF last THEN buf[c] ELSE pending[c]
             /\ seals'[dk[c]] = Sealed(seals[dk[c]], prefix[c], last, BlobSegmentAad(arg[c].id), msg)
             /\ ~Complete(seals[dk[c]]) /\ ctr[c] = Len(seals[dk[c]]) /\ SealChain(seals[dk[c]])
             /\ Len(msg) \in Nat
        BY <1>0, <2>4, SealAt
      <3> DEFINE ss == seals[k]
                 aad == BlobSegmentAad(arg[c].id)
                 t == seals'[k]
                 b == SealBytes(k, Len(ss), Len(msg))
                 n == Len(ss)
      <3>2. t = Sealed(ss, cell, last, aad, msg) /\ ~Complete(ss) /\ ctr[c] = Len(ss) /\ SealChain(ss)
        BY <1>6, <1>7, <3>1
      <3>3. /\ UNCHANGED <<res, woff, data>> /\ pc[c] \in {"pend", "tail"} /\ pc'[c] \in {"tail", "flush"}
            /\ wbuf'[c] = wbuf[c] \o b
        <4>1. b = SealBytes(dk[c], ctr[c], Len(msg)) BY <1>6, <3>2
        <4> HIDE DEF b
        <4>2. CASE last
          <5>1. EncryptLast(c) /\ msg = buf[c] BY <3>1, <4>2
          <5>2. /\ UNCHANGED <<res, woff, data>> /\ pc[c] = "tail" /\ pc'[c] = "flush"
                /\ wbuf' = [wbuf EXCEPT ![c] = @ \o SealBytes(dk[c], ctr[c], Len(buf[c]))]
            BY <1>0, <5>1 DEF TypeOK, EncryptLast, WriteRemainder
          <5>3. wbuf'[c] = wbuf[c] \o b BY <1>0, <4>1, <5>1, <5>2 DEF TypeOK
          <5> QED BY <5>2, <5>3
        <4>3. CASE ~last
          <5>1. EncryptNext(c) /\ msg = pending[c] BY <2>4, <3>1, <4>3
          <5>2. /\ UNCHANGED <<res, woff, data>> /\ pc[c] = "pend" /\ pc'[c] = "tail"
                /\ wbuf' = [wbuf EXCEPT ![c] = @ \o SealBytes(dk[c], ctr[c], Len(pending[c]))]
            BY <1>0, <5>1 DEF TypeOK, EncryptNext, WriteThrough
          <5>3. wbuf'[c] = wbuf[c] \o b BY <1>0, <4>1, <5>1, <5>2 DEF TypeOK
          <5> QED BY <5>2, <5>3
        <4> QED BY <4>2, <4>3
      <3>4. b \in Seq(Cell) /\ n \in Nat BY <1>8, <3>1, SegmentBytes, LenProperties
      <3>5. Len(t) = n + 1 /\ (\A j \in 1 .. n : t[j] = ss[j]) /\ t[n + 1].msg = msg
        <4> HIDE DEF aad
        <4>1. ss \in Seq(SealRecord) BY <1>8
        <4> HIDE DEF ss, t
        <4>2. Len(t) = Len(ss) + 1 /\ (\A j \in 1 .. Len(ss) : t[j] = ss[j]) BY <3>2, <4>1, ChainAppend
        <4> DEFINE r == Seal(cell, last, aad, msg, Plain(ss) \o msg)
        <4>3. t = Append(ss, r) /\ r.msg = msg BY <3>2 DEF Sealed, Seal
        <4> HIDE DEF r
        <4>4. t[Len(ss) + 1] = r BY <4>1, <4>3
        <4> QED BY <4>2, <4>3, <4>4
      <3>6. Framed(k, cell, t) = Framed(k, cell, ss) \o b
        <4>1. ss \in Seq(SealRecord) /\ t \in Seq(SealRecord) /\ Len(t) = Len(ss) + 1
              /\ \A j \in 1 .. Len(ss) : t[j] = ss[j]
          BY <1>8, <3>5
        <4> HIDE DEF ss, t
        <4>2. Framed(k, cell, t) = Framed(k, cell, ss) \o SealBytes(k, Len(ss), Len(t[Len(ss) + 1].msg))
          BY <4>1, FramedAppend
        <4> QED BY <3>5, <4>2
      <3>7. data[i] \o wbuf[c] = Framed(k, cell, ss) /\ woff[c] = Len(data[i]) BY <1>9, <2>1, <3>3
      <3>8. res[c] = "none" BY <1>0, <3>3 DEF CallInv, Writing
      <3> HIDE DEF b, ss, t
      <3>9. data[i] \o (wbuf[c] \o b) = (data[i] \o wbuf[c]) \o b
        <4>1. data[i] \in Seq(Cell) /\ wbuf[c] \in Seq(Cell) /\ b \in Seq(Cell) BY <1>8, <3>4
        <4> QED BY <4>1, JoinedCells, Zenon
      <3>10. data'[i] \o wbuf'[c] = Framed(k, cell, t) BY <3>3, <3>6, <3>7, <3>9
      <3> QED BY <3>3, <3>7, <3>8, <3>10 DEF t
    <2>5. CASE Push(c)
      <3>1. UNCHANGED <<pc, res, seals>> /\ due[c] > 0 BY <2>5 DEF Push
      <3>2. pc[c] \in Writing /\ res[c] = "none" BY <1>0, <3>1 DEF CallInv
      <3>3. woff[c] = Len(data[i]) =>
              /\ data'[i] \o wbuf'[c] = data[i] \o wbuf[c] /\ woff'[c] = Len(data'[i])
              /\ due[c] = Len(wbuf[c]) => due'[c] = Len(wbuf'[c])
        BY <1>0, <2>1, <2>5, PushMoves
      <3> QED BY <1>9, <2>1, <3>1, <3>2, <3>3
    <2>6. CASE Leave(c) /\ ~Push(c)
      <3>1. pc'[c] \notin Looping \cup {"flush"} /\ seals' = seals BY <2>6 DEF Leave
      <3>2. pc'[c] = "finish" =>
              woff'[c] = Len(data'[i]) /\ data'[i] \o wbuf'[c] = Framed(k, cell, seals'[k])
              /\ due'[c] = Len(wbuf'[c])
        <4> SUFFICES ASSUME Flush(c), pc'[c] = "finish"
                     PROVE  woff'[c] = Len(data'[i]) /\ data'[i] \o wbuf'[c] = Framed(k, cell, seals'[k])
                            /\ due'[c] = Len(wbuf'[c])
          BY <2>6, Outcome
        <4>1. pc[c] = "flush" /\ due'[c] = Len(wbuf[c]) /\ UNCHANGED <<woff, data, wbuf, seals>>
          BY <1>0 DEF TypeOK, Flush
        <4> QED BY <1>9, <2>1, <4>1
      <3>3. res'[c] = "Ok" => data'[i] = Framed(k, cell, seals'[k])
        <4>1. ~Rename(c) BY <1>0, <1>8 DEF Rename, CallInv
        <4> SUFFICES ASSUME Finish(c) PROVE data'[i] = Framed(k, cell, seals'[k]) BY <4>1, Outcome
        <4>2. pc[c] = "finish" /\ due[c] = 0 /\ UNCHANGED <<data, seals>> BY DEF Finish
        <4>3. wbuf[c] = <<>>
          <5>1. Len(wbuf[c]) = 0 BY <1>9, <2>1, <4>2
          <5> QED BY <1>8, <5>1, EmptySeq
        <4>4. data[i] \o wbuf[c] = data[i] BY <1>8, <4>3
        <4> QED BY <1>9, <2>1, <4>2, <4>4
      <3> QED BY <3>1, <3>2, <3>3
    <2> QED BY <1>0, <1>11, <2>0, <2>2, <2>3, <2>4, <2>5, <2>6, Kinds
  <1> QED BY <1>10, <1>11

\* Only a crash counts as one.
LEMMA CrashesSame ==
    ASSUME NEW c \in Calls, Start(c) \/ Advance(c) \/ Fault(c)
    PROVE  crashes' = crashes
  BY DEF Start, StartRejected, StartDecrypt, StartEncrypt, StartNoRandomness, Advance, OpenInput,
         UnusableInput, Read, ReadFull, ParseHeader, RejectHeader, CreateOutput, CreateTemp,
         EncryptNext, DecryptNext, EncryptLast, DecryptLast, HoldChunk, SegmentError, Push, Flush,
         Finish, SyncAll, Rename, Drop, Fault, EarlyIoError, NoTempPath, CreateTempFails, IoError, Unwind

\* A step of one call leaves what the others have written.
LEMMA OutStep ==
    ASSUME IndInv, IndInv', KeysInv, \A d \in Calls : OutInv(d),
           NEW c \in Calls, Start(c) \/ Advance(c) \/ Fault(c), NEW e \in Calls
    PROVE  OutInv(e)'
  <1>1. CASE e = c BY <1>1, OutSelf
  <1>2. CASE e # c
    <2> SUFFICES ASSUME HasKey(e)', fout'[e] # NoInode, Undisturbed(fout[e], e)' PROVE OutInv(e)'
      BY DEF OutInv
    <2>1. /\ pc'[e] = pc[e] /\ arg'[e] = arg[e] /\ fout'[e] = fout[e] /\ woff'[e] = woff[e]
          /\ wbuf'[e] = wbuf[e] /\ due'[e] = due[e]
          /\ dk'[e] = dk[e] /\ prefix'[e] = prefix[e] /\ res'[e] = res[e]
      BY <1>2, OthersKeep DEF IndInv
    <2>2. HasKey(e) BY <2>1 DEF HasKey, Enc
    <2>3. seals'[dk[e]] = seals[dk[e]] BY <1>2, <2>2, KeyApart DEF KeysInv
    <2>4. PICK i \in Inodes : i = fout[e] /\ i = fout'[e] BY <2>1 DEF IndInv, TypeOK
    <2>5. Undisturbed(i, e)' BY <2>4 DEF Undisturbed
    <2>6. Undisturbed(i, e) /\ data'[i] = data[i] BY <1>2, <2>5, OwnOutput
    <2>7. OutInv(e) OBVIOUS
    <2>8. crashes' = crashes BY CrashesSame
    <2> QED BY <2>1, <2>2, <2>3, <2>4, <2>6, <2>7, <2>8 DEF OutInv
  <1> QED BY <1>1, <1>2

----------------------------------------------------------------------------
(* What a decryption opens                                                 *)

\* Opening depends on the wrap and on the segments of the key alone.
LEMMA SameKey ==
    ASSUME NEW k, bind'[k] = bind[k], seals'[k] = seals[k], NEW f, NEW wk, NEW id, NEW cell, NEW n
    PROVE  /\ HeaderOpens(k, f, wk, id)' <=> HeaderOpens(k, f, wk, id)
           /\ Decodes(k, f, wk, id)' <=> Decodes(k, f, wk, id)
           /\ OpenedTo(k, f, cell, BlobSegmentAad(id), n)' <=> OpenedTo(k, f, cell, BlobSegmentAad(id), n)
  <1>1. HeaderOpens(k, f, wk, id)' <=> HeaderOpens(k, f, wk, id) BY DEF HeaderOpens, Unwraps
  <1>2. \A p, i, l, a, b : Opens(k, p, i, l, a, b)' <=> Opens(k, p, i, l, a, b) BY DEF Opens
  <1>3. OpensBody(k, f[3], BlobSegmentAad(id), Pieces(BodyOf(f)))'
          <=> OpensBody(k, f[3], BlobSegmentAad(id), Pieces(BodyOf(f)))
    BY <1>2 DEF OpensBody
  <1>4. OpenedTo(k, f, cell, BlobSegmentAad(id), n)' <=> OpenedTo(k, f, cell, BlobSegmentAad(id), n)
    BY <1>2 DEF OpenedTo
  <1> QED BY <1>1, <1>3, <1>4 DEF Decodes

\* A file nobody has written names a key sealed earlier, whose blob no step
\* changes any more: what it opens as stays as it is.
LEMMA QuietOpens ==
    ASSUME IndInv, QuietInv, StoredInv, StoredInv', NEW i \in Inodes, Quiet(i),
           NEW x \in Seq(Cell), x = data[i], HEADER_LEN <= Len(x),
           NEW k \in DataKeys, NEW wk, NEW id, NEW cell, NEW n
    PROVE  /\ HeaderOpens(k, x, wk, id)' <=> HeaderOpens(k, x, wk, id)
           /\ Decodes(k, x, wk, id)' <=> Decodes(k, x, wk, id)
           /\ HeaderOpens(k, x, wk, id) =>
                (OpenedTo(k, x, cell, BlobSegmentAad(id), n)' <=> OpenedTo(k, x, cell, BlobSegmentAad(id), n))
  <1>1. CASE x[2] = [wrapped |-> k]
    <2>1. 2 \in 1 .. Len(x) BY LenProperties DEF HEADER_LEN
    <2>2. k \in Stored BY <1>1, <2>1 DEF QuietInv
    <2>3. bind'[k] = bind[k] /\ seals'[k] = seals[k] BY <2>2 DEF StoredInv
    <2> QED BY <2>3, SameKey
  <1>2. CASE x[2] # [wrapped |-> k]
    <2>1. ~HeaderOpens(k, x, wk, id) /\ ~HeaderOpens(k, x, wk, id)' BY <1>2 DEF HeaderOpens, Unwraps
    <2> QED BY <2>1 DEF Decodes
  <1> QED BY <1>1, <1>2

\* A decryption that is past its header has a data key.
LEMMA DecryptKey ==
    ASSUME IndInv, NEW c \in Calls, OkInv(c), arg[c] # NoCall, Dec(c),
           pc[c] \in {"temp"} \cup Writing \/ res[c] = "Ok"
    PROVE  dk[c] \in DataKeys
  <1>1. CASE res[c] = "Ok" BY <1>1 DEF OkInv, Published, Unwrapped
  <1>2. CASE pc[c] \in {"temp"} \cup Writing BY <1>2 DEF IndInv, DecInv, Unwrapped
  <1> QED BY <1>1, <1>2

\* A step of another call leaves what a decryption has opened.
LEMMA OpenOthers ==
    ASSUME IndInv, IndInv', QuietInv, KeysInv, KeysInv', NEW c \in Calls, Start(c) \/ Advance(c) \/ Fault(c),
           NEW e \in Calls, e # c, OkInv(e), OpenInv(e)
    PROVE  OpenInv(e)'
  <1> USE DEF Looping
  <1> SUFFICES ASSUME arg'[e] # NoCall, Dec(e)', fin'[e] # NoInode, Quiet(fin[e])' PROVE OpenInv(e)'
    BY DEF OpenInv
  <1>1. /\ pc'[e] = pc[e] /\ arg'[e] = arg[e] /\ fin'[e] = fin[e] /\ ctr'[e] = ctr[e]
        /\ dk'[e] = dk[e] /\ prefix'[e] = prefix[e] /\ res'[e] = res[e]
    BY OthersKeep DEF IndInv
  <1>2. arg[e] # NoCall /\ Dec(e) BY <1>1 DEF Dec
  <1>3. PICK i \in Inodes : i = fin[e] /\ i = fin'[e] BY <1>1 DEF IndInv, TypeOK
  <1>4. Quiet(i)' BY <1>3 DEF Quiet
  <1>5. Quiet(i) /\ data'[i] = data[i] BY <1>4, QuietKeep
  <1>6. PICK x \in Seq(Cell) : x = data[i] /\ x = data'[i] BY <1>5 DEF IndInv, TypeOK
  <1>7. PICK r \in Requests : r = arg[e] /\ r = arg'[e] BY <1>1, <1>2 DEF IndInv, TypeOK
  <1>8. PICK k : k = dk[e] /\ k = dk'[e] BY <1>1
  <1>9. PICK cell : cell = prefix[e] /\ cell = prefix'[e] BY <1>1
  <1>10. PICK n : n = ctr[e] /\ n = ctr'[e] BY <1>1
  <1>11. /\ pc[e] \in {"temp"} \cup Looping =>
              HeaderOpens(k, x, r.wk, r.id) /\ cell = x[3] /\ HEADER_LEN <= Len(x)
         /\ pc[e] \in Looping => OpenedTo(k, x, cell, BlobSegmentAad(r.id), n)
         /\ pc[e] \in {"flush", "sync", "rename"} \/ res[e] = "Ok" =>
              Decodes(k, x, r.wk, r.id) /\ HEADER_LEN <= Len(x)
         /\ res[e] = "Aead" =>
              HEADER_LEN <= Len(x) /\ \A d \in DataKeys : ~Decodes(d, x, r.wk, r.id)
    BY <1>2, <1>3, <1>5, <1>6, <1>7, <1>8, <1>9, <1>10, Names DEF OpenInv
  <1>12. pc[e] \in {"temp", "flush", "sync", "rename"} \cup Looping \/ res[e] = "Ok" => k \in DataKeys
    BY <1>2, <1>8, DecryptKey DEF Writing
  <1>13. StoredInv /\ StoredInv' BY DEF KeysInv
  <1>14. ASSUME HEADER_LEN <= Len(x), NEW d \in DataKeys
         PROVE  /\ HeaderOpens(d, x, r.wk, r.id)' <=> HeaderOpens(d, x, r.wk, r.id)
                /\ Decodes(d, x, r.wk, r.id)' <=> Decodes(d, x, r.wk, r.id)
                /\ HeaderOpens(d, x, r.wk, r.id) =>
                     (OpenedTo(d, x, cell, BlobSegmentAad(r.id), n)' <=> OpenedTo(d, x, cell, BlobSegmentAad(r.id), n))
    BY <1>5, <1>6, <1>13, <1>14, QuietOpens
  <1>15. /\ pc[e] \in {"temp"} \cup Looping =>
              HeaderOpens(k, x, r.wk, r.id)' /\ cell = x[3] /\ HEADER_LEN <= Len(x)
         /\ pc[e] \in Looping => OpenedTo(k, x, cell, BlobSegmentAad(r.id), n)'
         /\ pc[e] \in {"flush", "sync", "rename"} \/ res[e] = "Ok" =>
              Decodes(k, x, r.wk, r.id)' /\ HEADER_LEN <= Len(x)
         /\ res[e] = "Aead" =>
              HEADER_LEN <= Len(x) /\ \A d \in DataKeys : ~Decodes(d, x, r.wk, r.id)'
    BY <1>11, <1>12, <1>14
  <1> QED BY <1>1, <1>3, <1>6, <1>7, <1>8, <1>9, <1>10, <1>15 DEF OpenInv

\* A header that has been read whole is the header of the file.
LEMMA HeaderRead ==
    ASSUME IndInv, NEW c \in Calls, Shape(c), ReadInv(c), Quiet(fin[c]), NEW x \in Seq(Cell),
           x = data[fin[c]], pc[c] = "header", Len(buf[c]) = HEADER_LEN, NEW k, NEW wk, NEW id
    PROVE  /\ HEADER_LEN <= Len(x) /\ buf[c][3] = x[3]
           /\ HeaderOpens(k, buf[c], wk, id) <=> HeaderOpens(k, x, wk, id)
  <1>1. pos[c] = 4 /\ pos[c] <= Len(x) /\ buf[c] = SubSeq(x, 1, 4)
    BY DEF Shape, ReadInv, HEADER_LEN
  <1>2. 0 \in Nat /\ 4 \in Nat /\ 0 <= 4 /\ 4 <= Len(x) /\ 0 + 1 = 1 BY <1>1
  <1>3. \A j \in 1 .. 4 - 0 : SubSeq(x, 0 + 1, 4)[j] = x[0 + j] BY <1>2, Slice
  <1>4. buf[c][1] = x[1] /\ buf[c][2] = x[2] /\ buf[c][3] = x[3] /\ buf[c][4] = x[4] BY <1>1, <1>2, <1>3
  <1> QED BY <1>2, <1>4 DEF HeaderOpens, HEADER_LEN

\* Two keys do not open the same header.
LEMMA OneKey ==
    ASSUME NEW k, NEW d, NEW f, NEW wk, NEW id, HeaderOpens(k, f, wk, id), HeaderOpens(d, f, wk, id)
    PROVE  k = d
  <1>1. f[2] = [wrapped |-> k] /\ f[2] = [wrapped |-> d] BY DEF HeaderOpens, Unwraps
  <1>2. f[2].wrapped = k /\ f[2].wrapped = d BY <1>1
  <1> QED BY <1>2

\* A decryption opens of a file nobody writes what decrypt_chunked opens.
LEMMA OpenSelf ==
    ASSUME IndInv, IndInv', KeysInv, NEW c \in Calls, ReadInv(c), OpenInv(c), OkInv(c),
           Start(c) \/ Advance(c) \/ Fault(c)
    PROVE  OpenInv(c)'
  <1> USE DEF Looping
  <1> SUFFICES ASSUME arg'[c] # NoCall, Dec(c)', fin'[c] # NoInode, Quiet(fin[c])' PROVE OpenInv(c)'
    BY DEF OpenInv
  <1>0. /\ TypeOK /\ (\A d \in Calls : CallInv(d)) /\ CallInv(c) /\ TypeOK' /\ Shape(c)
        /\ Len(buf[c]) \in Nat /\ Len(pending[c]) \in Nat /\ pos[c] \in Nat /\ ctr[c] \in Nat
        /\ SealInv /\ StreamInv /\ Chained
    BY LenProperties, ChainedInv DEF IndInv, KeysInv, TypeOK
  <1>1. ~Start(c)
    <2> SUFFICES ASSUME Start(c) PROVE FALSE OBVIOUS
    <2>1. pc[c] = "idle" /\ fin' = fin
      BY DEF Start, StartRejected, StartDecrypt, StartEncrypt, StartNoRandomness
    <2> QED BY <1>0, <2>1 DEF Shape
  <1>2. pc[c] # "idle" /\ arg[c] \in Requests /\ arg'[c] = arg[c]
    <2>1. pc[c] # "idle" BY <1>0, <1>1, Running
    <2>2. arg[c] \in Requests BY <1>0, <2>1 DEF CallInv
    <2> QED BY <1>0, <2>1, <2>2, ArgKeep
  <1>3. Dec(c) /\ ~Enc(c) /\ arg[c] # NoCall BY <1>2, Names DEF Enc, Dec
  <1>4. bind' = bind /\ seals' = seals
    <2>1. ~EncryptNext(c) /\ ~EncryptLast(c) /\ ~StartEncrypt(c)
      BY <1>1, <1>3 DEF EncryptNext, EncryptLast, Start
    <2> QED BY <1>0, <2>1, CryptoKeep
  <1>5. PICK i \in Inodes : i = fin'[c] BY <1>0 DEF TypeOK
  <1>6. Quiet(i)' BY <1>5 DEF Quiet
  <1>7. Quiet(i) /\ data'[i] = data[i] BY <1>6, QuietKeep
  <1>8. PICK x \in Seq(Cell) : x = data[i] /\ x = data'[i] BY <1>0, <1>7 DEF TypeOK
  <1>9. PICK r \in Requests : r = arg[c] /\ r = arg'[c] BY <1>2
  <1>10. PICK k : k = dk'[c] OBVIOUS
  <1>11. PICK cell : cell = prefix'[c] OBVIOUS
  <1>12. PICK n : n = ctr'[c] OBVIOUS
  <1> DEFINE aad == BlobSegmentAad(r.id)
  <1>13. /\ \A d : HeaderOpens(d, x, r.wk, r.id)' <=> HeaderOpens(d, x, r.wk, r.id)
         /\ \A d : Decodes(d, x, r.wk, r.id)' <=> Decodes(d, x, r.wk, r.id)
         /\ OpenedTo(k, x, cell, aad, n)' <=> OpenedTo(k, x, cell, aad, n)
    <2>1. \A d : bind'[d] = bind[d] /\ seals'[d] = seals[d] BY <1>4
    <2>2. ASSUME NEW d PROVE HeaderOpens(d, x, r.wk, r.id)' <=> HeaderOpens(d, x, r.wk, r.id) BY <2>1, SameKey
    <2>3. ASSUME NEW d PROVE Decodes(d, x, r.wk, r.id)' <=> Decodes(d, x, r.wk, r.id) BY <2>1, SameKey
    <2>4. OpenedTo(k, x, cell, aad, n)' <=> OpenedTo(k, x, cell, aad, n) BY <2>1, SameKey
    <2> QED BY <2>2, <2>3, <2>4
  <1> HIDE DEF aad
  <1> SUFFICES /\ pc'[c] \in {"temp"} \cup Looping =>
                    HeaderOpens(k, x, r.wk, r.id) /\ cell = x[3] /\ HEADER_LEN <= Len(x)
               /\ pc'[c] \in Looping => OpenedTo(k, x, cell, aad, n)
               /\ pc'[c] \in {"flush", "sync", "rename"} \/ res'[c] = "Ok" =>
                    Decodes(k, x, r.wk, r.id) /\ HEADER_LEN <= Len(x)
               /\ res'[c] = "Aead" =>
                    HEADER_LEN <= Len(x) /\ \A d \in DataKeys : ~Decodes(d, x, r.wk, r.id)
    <2>1. /\ pc'[c] \in {"temp"} \cup Looping =>
               HeaderOpens(k, x, r.wk, r.id)' /\ cell = x[3] /\ HEADER_LEN <= Len(x)
          /\ pc'[c] \in Looping => OpenedTo(k, x, cell, aad, n)'
          /\ pc'[c] \in {"flush", "sync", "rename"} \/ res'[c] = "Ok" =>
               Decodes(k, x, r.wk, r.id)' /\ HEADER_LEN <= Len(x)
          /\ res'[c] = "Aead" =>
               HEADER_LEN <= Len(x) /\ \A d \in DataKeys : ~Decodes(d, x, r.wk, r.id)'
      BY <1>13
    <2> QED BY <1>5, <1>8, <1>9, <1>10, <1>11, <1>12, <2>1 DEF OpenInv, aad
  <1>14. fin[c] = i =>
           /\ pc[c] \in {"temp"} \cup Looping =>
                HeaderOpens(dk[c], x, r.wk, r.id) /\ prefix[c] = x[3] /\ HEADER_LEN <= Len(x)
           /\ pc[c] \in Looping => OpenedTo(dk[c], x, prefix[c], aad, ctr[c])
           /\ pc[c] \in {"flush", "sync", "rename"} \/ res[c] = "Ok" =>
                Decodes(dk[c], x, r.wk, r.id) /\ HEADER_LEN <= Len(x)
           /\ res[c] = "Aead" =>
                HEADER_LEN <= Len(x) /\ \A d \in DataKeys : ~Decodes(d, x, r.wk, r.id)
    BY <1>3, <1>7, <1>8, <1>9, Names DEF OpenInv, aad
  <1>15. fin[c] = i /\ pc[c] \in Looping =>
               /\ pending[c] = SubSeq(x, Start0(c) + 1, Mid(c))
               /\ buf[c] = SubSeq(x, Mid(c) + 1, pos[c])
               /\ pos[c] <= Len(x)
               /\ pc[c] \in {"pend", "tail"} => Len(buf[c]) = BufLen(c) \/ pos[c] = Len(x)
    BY <1>7, <1>8 DEF ReadInv
  <1>16. /\ BufLen(c) = PieceLen /\ Start0(c) = PieceStart(ctr[c])
         /\ Start0(c) \in Nat /\ Mid(c) \in Nat /\ PieceLen \in Nat \ {0}
         /\ Mid(c) = Start0(c) + Len(pending[c]) /\ Len(x) \in Nat
    <2>1. BufLen(c) = PieceLen BY <1>3 DEF BufLen, PieceLen
    <2> HIDE DEF BufLen
    <2>2. Start0(c) = PieceStart(ctr[c]) BY <1>3, <2>1 DEF Start0, Base, PieceStart
    <2> QED BY <1>0, <2>1, <2>2, StartNat, BufLenNat, LenProperties DEF Mid
  <1>17. pc[c] \in Looping => dk[c] \in DataKeys BY <1>3, DecryptKey DEF Writing
  <1> HIDE DEF Start0, Mid, BufLen
  <1>18. CASE OpenInput(c)
    <2>1. pc[c] = "open" /\ pc'[c] = "header" /\ res' = res BY <1>0, <1>3, <1>18 DEF OpenInput, TypeOK
    <2>2. res[c] = "none" BY <1>0, <2>1 DEF CallInv, Early
    <2> QED BY <2>1, <2>2
  <1>19. CASE Read(c) \/ ReadFull(c) \/ HoldChunk(c) \/ Push(c)
    <2>1. /\ UNCHANGED <<res, dk, prefix, ctr>> /\ (pc'[c] = pc[c] \/ (pc[c] \in Looping /\ pc'[c] \in Looping))
      <3>1. CASE Read(c) \/ Push(c) BY <3>1 DEF Read, Push
      <3>2. CASE ReadFull(c) BY <1>0, <3>2 DEF TypeOK, ReadFull
      <3>3. CASE HoldChunk(c) BY <1>0, <3>3 DEF TypeOK, HoldChunk
      <3> QED BY <1>19, <3>1, <3>2, <3>3
    <2>2. ~OpenInput(c)
      <3>1. CASE Read(c) BY <3>1 DEF OpenInput, Read
      <3>2. CASE ReadFull(c) BY <3>2 DEF OpenInput, ReadFull
      <3>3. CASE HoldChunk(c) BY <3>3 DEF OpenInput, HoldChunk
      <3>4. CASE Push(c) BY <1>0, <3>4 DEF OpenInput, Push, CallInv, Writing
      <3> QED BY <1>19, <3>1, <3>2, <3>3, <3>4
    <2>3. fin[c] = i BY <1>5, <2>2, FinKeep
    <2> QED BY <1>10, <1>11, <1>12, <1>14, <2>1, <2>3
  <1>20. CASE ParseHeader(c)
    <2>1. PICK d \in DataKeys : HeaderOpens(d, buf[c], arg[c].wk, arg[c].id) /\ dk' = [dk EXCEPT ![c] = d]
      BY <1>20 DEF ParseHeader
    <2>2. /\ pc[c] = "header" /\ pc'[c] = "temp" /\ Len(buf[c]) = HEADER_LEN /\ prefix'[c] = buf[c][3]
          /\ res' = res /\ fin' = fin
      BY <1>0, <1>20 DEF TypeOK, ParseHeader
    <2>3. k = d /\ cell = buf[c][3] BY <1>0, <1>10, <1>11, <2>1, <2>2 DEF TypeOK
    <2>4. res[c] = "none" BY <1>0, <2>2 DEF CallInv, Early
    <2>5. /\ HEADER_LEN <= Len(x) /\ buf[c][3] = x[3]
          /\ HeaderOpens(k, buf[c], r.wk, r.id) <=> HeaderOpens(k, x, r.wk, r.id)
      BY <1>0, <1>5, <1>7, <1>8, <2>2, HeaderRead
    <2> QED BY <1>9, <2>1, <2>2, <2>3, <2>4, <2>5
  <1>21. CASE CreateTemp(c)
    <2>1. pc[c] = "temp" /\ pc'[c] = "read" /\ UNCHANGED <<res, dk, prefix, ctr, fin>>
      BY <1>0, <1>21 DEF TypeOK, CreateTemp
    <2>2. ctr[c] = 0 /\ res[c] = "none" BY <1>0, <2>1 DEF CallInv, Early
    <2>3. OpenedTo(k, x, cell, aad, n)
      <3>1. 0 .. n - 1 = {} BY <1>12, <2>1, <2>2
      <3> QED BY <3>1 DEF OpenedTo
    <2> QED BY <1>5, <1>10, <1>11, <1>14, <2>1, <2>2, <2>3
  <1>22. CASE DecryptNext(c)
    <2>1. /\ pc[c] = "pend" /\ pc'[c] = "tail" /\ UNCHANGED <<res, dk, prefix, fin>> /\ n = ctr[c] + 1
          /\ Opens(dk[c], prefix[c], ctr[c], FALSE, aad, pending[c])
      BY <1>0, <1>9, <1>12, <1>22 DEF TypeOK, DecryptNext, aad
    <2>2. res[c] = "none" BY <1>0, <2>1 DEF CallInv, Writing
    <2>3. Len(pending[c]) = PieceLen
      <3>1. pending[c] # <<>> /\ (pending[c] = <<>> \/ Len(pending[c]) = BufLen(c)) BY <1>0, <2>1 DEF Shape
      <3> QED BY <1>16, <3>1
    <2>4. pending[c] = SubSeq(x, PieceStart(ctr[c]) + 1, PieceStart(ctr[c]) + PieceLen)
      BY <1>5, <1>15, <1>16, <2>1, <2>3
    <2>5. k = dk[c] /\ cell = prefix[c] /\ fin[c] = i BY <1>5, <1>10, <1>11, <2>1
    <2>6. OpenedTo(k, x, cell, aad, n)
      <3>1. \A j \in 0 .. n - 1 : j = ctr[c] \/ j \in 0 .. ctr[c] - 1 BY <1>0, <2>1
      <3>2. OpenedTo(k, x, cell, aad, ctr[c]) BY <1>14, <2>1, <2>5
      <3> QED BY <2>1, <2>4, <2>5, <3>1, <3>2 DEF OpenedTo
    <2> QED BY <1>14, <2>1, <2>2, <2>5, <2>6
  <1>23. CASE DecryptLast(c)
    <2>1. /\ pc[c] = "tail" /\ pc'[c] = "flush" /\ UNCHANGED <<res, dk, prefix, fin>>
          /\ Len(buf[c]) < BufLen(c)
          /\ Opens(dk[c], prefix[c], ctr[c], TRUE, aad, buf[c])
      BY <1>0, <1>9, <1>23 DEF TypeOK, DecryptLast, aad
    <2>2. res[c] = "none" BY <1>0, <2>1 DEF CallInv, Writing
    <2>3. k = dk[c] /\ cell = prefix[c] /\ fin[c] = i BY <1>5, <1>10, <1>11, <2>1
    <2>4. pending[c] = <<>> /\ pos[c] = Mid(c) + Len(buf[c]) BY <1>0, <2>1 DEF Shape
    <2>5. Mid(c) = Start0(c)
      <3>1. Len(pending[c]) = 0 BY <2>4
      <3> QED BY <1>16, <3>1
    <2>6. pos[c] = Len(x) BY <1>0, <1>15, <1>16, <2>1, <2>3
    <2>7. buf[c] = SubSeq(x, PieceStart(ctr[c]) + 1, Len(x)) BY <1>15, <1>16, <2>1, <2>3, <2>5, <2>6
    <2>8. Len(buf[c]) > 0
      <3>1. /\ ctr[c] < Len(seals[k]) /\ buf[c] = SealBytes(k, ctr[c], Len(seals[k][ctr[c] + 1].msg))
        BY <2>1, <2>3 DEF Opens
      <3>2. k \in DataKeys /\ seals[k] \in Seq(SealRecord) BY <1>0, <1>17, <2>1, <2>3 DEF TypeOK
      <3>3. ctr[c] + 1 \in 1 .. Len(seals[k]) BY <1>0, <3>1, <3>2, LenProperties
      <3>4. Len(seals[k][ctr[c] + 1].msg) \in Nat BY <3>2, <3>3, SegmentsAre
      <3> DEFINE q == Len(seals[k][ctr[c] + 1].msg)
                 m == ctr[c]
      <3>5. q \in Nat /\ m \in Nat /\ buf[c] = SealBytes(k, m, q) BY <1>0, <3>1, <3>4
      <3> HIDE DEF q, m
      <3>6. Len(buf[c]) = q + TAG_LEN BY <3>2, <3>5, SegmentBytes
      <3> QED BY <3>5, <3>6, TagAssumption
    <2>9. PieceStart(ctr[c]) < Len(x) /\ Len(x) <= PieceStart(ctr[c]) + PieceLen
      BY <1>0, <1>16, <2>1, <2>4, <2>5, <2>6, <2>8
    <2>10. HeaderOpens(k, x, r.wk, r.id) /\ cell = x[3] /\ HEADER_LEN <= Len(x) /\ OpenedTo(k, x, cell, aad, ctr[c])
      BY <1>14, <2>1, <2>3
    <2>11. Opens(k, cell, ctr[c], TRUE, aad, SubSeq(x, PieceStart(ctr[c]) + 1, Len(x))) BY <2>1, <2>3, <2>7
    <2>12. Decodes(k, x, r.wk, r.id)
      <3> DEFINE m == ctr[c]
      <3>1. /\ m \in Nat /\ OpenedTo(k, x, x[3], BlobSegmentAad(r.id), m)
            /\ PieceStart(m) < Len(x) /\ Len(x) <= PieceStart(m) + PieceLen
            /\ Opens(k, x[3], m, TRUE, BlobSegmentAad(r.id), SubSeq(x, PieceStart(m) + 1, Len(x)))
        BY <1>0, <2>9, <2>10, <2>11 DEF aad
      <3> HIDE DEF m
      <3> QED BY <2>10, <3>1, DoesDecode
    <2> QED BY <2>1, <2>2, <2>10, <2>12
  <1>24. CASE Leave(c) /\ ~Push(c)
    <2>1. /\ UNCHANGED <<fin, dk, prefix, ctr>> /\ pc'[c] \notin {"temp", "flush"} \cup Looping BY <1>24 DEF Leave
    <2>2. k = dk[c] /\ cell = prefix[c] /\ fin[c] = i BY <1>5, <1>10, <1>11, <2>1
    <2>3. pc'[c] \in {"sync", "rename"} \/ res'[c] = "Ok" => pc[c] \in {"flush", "sync", "rename"}
      <3>1. Flush(c) => pc[c] = "flush" BY DEF Flush
      <3>2. SyncAll(c) => pc[c] = "sync" BY DEF SyncAll
      <3>3. Rename(c) => pc[c] = "rename" BY DEF Rename
      <3>4. ~Finish(c) BY <1>0, <1>3 DEF Finish, CallInv
      <3> QED BY <1>24, <3>1, <3>2, <3>3, <3>4, Outcome
    <2>4. ASSUME res'[c] = "Aead"
          PROVE  HEADER_LEN <= Len(x) /\ \A d \in DataKeys : ~Decodes(d, x, r.wk, r.id)
      <3>1. CASE Drop(c)
        <4>1. res[c] = "Aead" BY <2>4, <3>1 DEF Drop
        <4> QED BY <1>14, <2>2, <4>1
      <3>2. CASE RejectHeader(c)
        <4>1. pc[c] = "header" /\ Len(buf[c]) = HEADER_LEN
              /\ \A d \in DataKeys : ~HeaderOpens(d, buf[c], r.wk, r.id)
          BY <1>9, <3>2 DEF RejectHeader
        <4>2. ASSUME NEW d
              PROVE  /\ HEADER_LEN <= Len(x)
                     /\ HeaderOpens(d, buf[c], r.wk, r.id) <=> HeaderOpens(d, x, r.wk, r.id)
          BY <1>0, <1>7, <1>8, <2>2, <4>1, HeaderRead
        <4> QED BY <4>1, <4>2 DEF Decodes
      <3>3. CASE SegmentError(c)
        <4>1. \/ /\ pc[c] = "pend" /\ ~Opens(k, cell, ctr[c], FALSE, aad, pending[c])
              \/ /\ pc[c] = "tail" /\ Len(buf[c]) < BufLen(c)
                 /\ ~Opens(k, cell, ctr[c], TRUE, aad, buf[c])
          BY <1>3, <1>9, <2>2, <3>3 DEF SegmentError, aad
        <4>2. pc[c] \in Looping BY <4>1
        <4>3. HeaderOpens(k, x, r.wk, r.id) /\ cell = x[3] /\ HEADER_LEN <= Len(x) /\ OpenedTo(k, x, cell, aad, ctr[c])
          BY <1>14, <2>2, <4>2
        <4>4. k \in DataKeys BY <1>17, <2>2, <4>2
        <4>5. PICK j, p : Stream(seals[k], j, p)
          <5>1. bind[k] # NoBind BY <4>3 DEF HeaderOpens, Unwraps
          <5> QED BY <1>0, <4>4, <5>1 DEF StreamInv, WrittenBy
        <4>6. pos[c] = Mid(c) + Len(buf[c]) /\ pos[c] <= Len(x)
          BY <1>0, <1>15, <2>2, <4>2 DEF Shape
        <4> DEFINE m == ctr[c]
        <4>7. PieceStart(m) <= Len(x) /\ m \in Nat BY <1>0, <1>16, <4>6
        <4>8. ~Decodes(k, x, r.wk, r.id)
          <5> SUFFICES ASSUME Decodes(k, x, r.wk, r.id) PROVE FALSE OBVIOUS
          <5> HIDE DEF m
          <5>1. /\ PieceStart(m) + PieceLen <= Len(x) =>
                     Opens(k, x[3], m, FALSE, BlobSegmentAad(r.id),
                           SubSeq(x, PieceStart(m) + 1, PieceStart(m) + PieceLen))
                /\ Len(x) < PieceStart(m) + PieceLen =>
                     Opens(k, x[3], m, TRUE, BlobSegmentAad(r.id), SubSeq(x, PieceStart(m) + 1, Len(x)))
            <6>1. OpenedTo(k, x, x[3], BlobSegmentAad(r.id), m) BY <4>3 DEF aad, m
            <6> QED BY <1>0, <4>3, <4>4, <4>5, <4>7, <6>1, MustDecode
          <5>2. CASE pc[c] = "pend"
            <6>1. Len(pending[c]) = PieceLen
              <7>1. pending[c] # <<>> /\ (pending[c] = <<>> \/ Len(pending[c]) = BufLen(c)) BY <1>0, <5>2 DEF Shape
              <7> QED BY <1>16, <7>1
            <6>2. pending[c] = SubSeq(x, PieceStart(m) + 1, PieceStart(m) + PieceLen)
              BY <1>15, <1>16, <2>2, <5>2, <6>1 DEF m
            <6>3. PieceStart(m) + PieceLen <= Len(x) BY <1>0, <1>16, <4>6, <6>1 DEF m
            <6> QED BY <4>1, <4>3, <5>1, <5>2, <6>2, <6>3 DEF aad, m
          <5>3. CASE pc[c] = "tail"
            <6>1. pending[c] = <<>> /\ Len(buf[c]) < PieceLen BY <1>0, <1>16, <4>1, <5>3 DEF Shape
            <6>2. Mid(c) = PieceStart(m)
              <7>1. Len(pending[c]) = 0 BY <6>1
              <7> QED BY <1>16, <7>1 DEF m
            <6>3. pos[c] = Len(x) BY <1>0, <1>15, <1>16, <2>2, <5>3, <6>1
            <6>4. buf[c] = SubSeq(x, PieceStart(m) + 1, Len(x)) BY <1>15, <2>2, <5>3, <6>2, <6>3
            <6>5. Len(x) < PieceStart(m) + PieceLen BY <1>0, <1>16, <4>6, <6>1, <6>2, <6>3
            <6> QED BY <4>1, <4>3, <5>1, <5>3, <6>4, <6>5 DEF aad, m
          <5> QED BY <4>1, <5>2, <5>3
        <4>9. ASSUME NEW d \in DataKeys, Decodes(d, x, r.wk, r.id) PROVE FALSE
          <5>1. HeaderOpens(d, x, r.wk, r.id) BY <4>9 DEF Decodes
          <5>2. d = k BY <4>3, <5>1, OneKey
          <5> QED BY <4>8, <4>9, <5>2
        <4> QED BY <4>3, <4>9
      <3> QED BY <2>4, <3>1, <3>2, <3>3, Outcome
    <2> QED BY <1>14, <2>1, <2>2, <2>3, <2>4
  <1>25. ~CreateOutput(c) /\ ~EncryptNext(c) /\ ~EncryptLast(c)
    BY <1>0, <1>3 DEF CreateOutput, EncryptNext, EncryptLast, CallInv
  <1> QED BY <1>0, <1>1, <1>18, <1>19, <1>20, <1>21, <1>22, <1>23, <1>24, <1>25, Kinds

\* A decryption that returned Ok stays published.
LEMMA OkStep ==
    ASSUME IndInv, NEW c \in Calls, Start(c) \/ Advance(c) \/ Fault(c), NEW e \in Calls, OkInv(e)
    PROVE  OkInv(e)'
  <1> SUFFICES ASSUME arg'[e] # NoCall, Dec(e)', res'[e] = "Ok" PROVE Published(e, arg[e].out)' BY DEF OkInv
  <1>0. TypeOK /\ (\A d \in Calls : CallInv(d)) /\ SealInv /\ OwnInv /\ TempInv /\ \A d \in Calls : DecInv(d)
    BY DEF IndInv
  <1>1. CASE e = c /\ Rename(c) BY <1>0, <1>1, RenamePublishes
  <1>2. CASE ~(e = c /\ Rename(c))
    <2>1. e # c
      <3> SUFFICES ASSUME e = c PROVE FALSE OBVIOUS
      <3>1. Finish(c) BY <1>2, Outcome
      <3>2. Enc(c) /\ arg' = arg BY <1>0, <3>1 DEF Finish, CallInv
      <3> QED BY <3>2 DEF Enc, Dec
    <2>2. arg'[e] = arg[e] /\ res'[e] = res[e] BY <1>0, <2>1, OthersKeep
    <2>3. arg[e] # NoCall /\ Dec(e) /\ arg[e] \in Requests BY <1>0, <2>2 DEF Dec, TypeOK
    <2>4. PICK p \in DecOut : p = arg[e].out /\ p = arg'[e].out
      BY <2>2, <2>3, ArgTyped DEF DecOut, Enc, Dec
    <2>5. Published(e, p) BY <2>2, <2>3, <2>4 DEF OkInv
    <2>6. Published(e, p)' BY <1>0, <2>5, PublishedKeep
    <2> QED BY <2>4, <2>6 DEF Published
  <1> QED BY <1>1, <1>2

\* The input is opened before the output is created.
LEMMA FedStep ==
    ASSUME IndInv, NEW c \in Calls, Start(c) \/ Advance(c) \/ Fault(c), NEW e \in Calls, Fed(e)
    PROVE  Fed(e)'
  <1>1. CASE e = c /\ (CreateOutput(c) \/ CreateTemp(c))
    <2>1. pc[c] \in {"create", "temp"} /\ fin' = fin BY <1>1 DEF CreateOutput, CreateTemp
    <2> QED BY <1>1, <2>1, Names DEF Fed, IndInv, CallInv
  <1>2. CASE e = c /\ OpenInput(c)
    <2>1. fin'[c] # NoInode BY <1>2 DEF OpenInput, IndInv, TypeOK
    <2> QED BY <1>2, <2>1 DEF Fed
  <1>3. CASE e = c /\ ~CreateOutput(c) /\ ~CreateTemp(c) /\ ~OpenInput(c)
    BY <1>3, FoutSame, FinKeep DEF Fed
  <1>4. CASE e # c
    <2>1. fin'[e] = fin[e] /\ fout'[e] = fout[e] BY <1>4, OthersKeep DEF IndInv
    <2> QED BY <2>1 DEF Fed
  <1> QED BY <1>1, <1>2, <1>3, <1>4

\* A step that leaves keys, inputs and results alone, as a crash does, leaves
\* what has been opened.
LEMMA OpenFrame ==
    ASSUME IndInv, NEW c \in Calls, OpenInv(c), UNCHANGED <<bind, seals, arg, res, fin, dk, prefix, ctr, fout>>,
           pc'[c] = pc[c] \/ pc'[c] \in {"dead", "done"},
           \A i \in Inodes : Quiet(i) => data'[i] = data[i]
    PROVE  OpenInv(c)'
  <1> USE DEF Looping
  <1> SUFFICES ASSUME arg[c] # NoCall, Dec(c), fin[c] # NoInode, Quiet(fin[c]) PROVE OpenInv(c)'
    BY DEF OpenInv, Quiet, Dec
  <1>1. PICK i \in Inodes : i = fin[c] /\ i = fin'[c] BY DEF IndInv, TypeOK
  <1>2. PICK x : x = data[i] /\ x = data'[i] BY <1>1
  <1>3. PICK r : r = arg[c] /\ r = arg'[c] OBVIOUS
  <1>4. PICK k : k = dk[c] /\ k = dk'[c] OBVIOUS
  <1>5. PICK cell : cell = prefix[c] /\ cell = prefix'[c] OBVIOUS
  <1>6. PICK n : n = ctr[c] /\ n = ctr'[c] OBVIOUS
  <1>7. \A d : bind'[d] = bind[d] /\ seals'[d] = seals[d] OBVIOUS
  <1>8. HeaderOpens(k, x, r.wk, r.id)' <=> HeaderOpens(k, x, r.wk, r.id) BY <1>7, SameKey
  <1>9. ASSUME NEW d PROVE Decodes(d, x, r.wk, r.id)' <=> Decodes(d, x, r.wk, r.id) BY <1>7, SameKey
  <1>10. OpenedTo(k, x, cell, BlobSegmentAad(r.id), n)' <=> OpenedTo(k, x, cell, BlobSegmentAad(r.id), n)
    BY <1>7, SameKey
  <1>11. /\ pc[c] \in {"temp"} \cup Looping =>
              HeaderOpens(k, x, r.wk, r.id) /\ cell = x[3] /\ HEADER_LEN <= Len(x)
         /\ pc[c] \in Looping => OpenedTo(k, x, cell, BlobSegmentAad(r.id), n)
         /\ pc[c] \in {"flush", "sync", "rename"} \/ res[c] = "Ok" =>
              Decodes(k, x, r.wk, r.id) /\ HEADER_LEN <= Len(x)
         /\ res[c] = "Aead" =>
              HEADER_LEN <= Len(x) /\ \A d \in DataKeys : ~Decodes(d, x, r.wk, r.id)
    BY <1>1, <1>2, <1>3, <1>4, <1>5, <1>6 DEF OpenInv
  <1>12. /\ pc'[c] \in {"temp"} \cup Looping =>
              HeaderOpens(k, x, r.wk, r.id)' /\ cell = x[3] /\ HEADER_LEN <= Len(x)
         /\ pc'[c] \in Looping => OpenedTo(k, x, cell, BlobSegmentAad(r.id), n)'
         /\ pc'[c] \in {"flush", "sync", "rename"} \/ res'[c] = "Ok" =>
              Decodes(k, x, r.wk, r.id)' /\ HEADER_LEN <= Len(x)
         /\ res'[c] = "Aead" =>
              HEADER_LEN <= Len(x) /\ \A d \in DataKeys : ~Decodes(d, x, r.wk, r.id)'
    BY <1>8, <1>9, <1>10, <1>11
  <1> QED BY <1>1, <1>2, <1>3, <1>4, <1>5, <1>6, <1>12 DEF OpenInv

\* Nothing has been read, sealed, written or opened at the start.
LEMMA FlowInit == Init => FlowInv
  <1> SUFFICES ASSUME Init PROVE FlowInv OBVIOUS
  <1>1. QuietInv
    <2>1. PICK d \in Disks :
           /\ data = [i \in Inodes |-> IF i \in DOMAIN d THEN d[i] ELSE <<>>]
           /\ synced = [i \in Inodes |-> IF i \in DOMAIN d THEN Len(d[i]) ELSE 0]
      BY DEF Init
    <2> SUFFICES ASSUME NEW i \in Inodes
                 PROVE  /\ synced[i] = Len(data[i])
                        /\ \A j \in 1 .. Len(data[i]), k \in DataKeys \ Stored : data[i][j] # [wrapped |-> k]
      BY DEF QuietInv
    <2>2. CASE i \in DOMAIN d
      <3>1. data[i] = d[i] /\ synced[i] = Len(d[i]) BY <2>1, <2>2
      <3> QED BY <2>2, <3>1, DiskAssumption
    <2>3. CASE i \notin DOMAIN d
      <3>1. data[i] = <<>> /\ synced[i] = 0 /\ Len(<<>>) = 0 BY <2>1, <2>3
      <3> QED BY <3>1
    <2> QED BY <2>2, <2>3
  <1>2. ASSUME NEW c \in Calls PROVE ReadInv(c) /\ EncInv(c) /\ OutInv(c) /\ OpenInv(c) /\ OkInv(c) /\ Fed(c)
    <2>1. pc[c] = "idle" /\ arg[c] = NoCall /\ fout[c] = NoInode BY DEF Init
    <2> QED BY <2>1 DEF Fed, ReadInv, EncInv, OutInv, OpenInv, OkInv, HasKey, Looping
  <1> QED BY <1>1, <1>2 DEF FlowInv

\* A crash stops the calls and leaves the files that nobody has written and
\* the published ones.
LEMMA FlowCrash ==
    ASSUME IndInv, FlowInv, Crash
    PROVE  FlowInv'
  <1> USE DEF Looping
  <1>1. /\ UNCHANGED <<bind, seals, arg, res, fin, pos, dk, prefix, ctr, fout>>
        /\ pc' = [c \in Calls |-> IF Active(c) THEN "dead" ELSE pc[c]]
        /\ crashes' = crashes + 1 /\ crashes \in Nat
    BY DEF Crash, IndInv, TypeOK
  <1>2. \A i \in Inodes : synced[i] = Len(data[i]) => data'[i] = data[i] /\ synced'[i] = Len(data'[i])
    BY CrashData DEF IndInv
  <1>3. \A i : Quiet(i)' <=> Quiet(i) BY <1>1 DEF Quiet
  <1>4. QuietInv BY DEF FlowInv
  <1>5. \A i \in Inodes : Quiet(i) => data'[i] = data[i] /\ synced'[i] = Len(data'[i]) BY <1>2, <1>4 DEF QuietInv
  <1>6. QuietInv'
    <2> SUFFICES ASSUME NEW i \in Inodes, Quiet(i)
                 PROVE  /\ synced'[i] = Len(data'[i])
                        /\ \A j \in 1 .. Len(data'[i]), k \in DataKeys \ Stored : data'[i][j] # [wrapped |-> k]
      BY <1>3 DEF QuietInv
    <2> QED BY <1>4, <1>5 DEF QuietInv
  <1>7. ASSUME NEW c \in Calls PROVE ReadInv(c)' /\ EncInv(c)' /\ OutInv(c)' /\ OpenInv(c)' /\ OkInv(c)' /\ Fed(c)'
    <2>1. (pc'[c] = "idle" /\ pc[c] = "idle") \/ pc'[c] \in {"dead", "done"} BY <1>1 DEF Active
    <2>2. ReadInv(c)' BY <2>1 DEF ReadInv
    <2>3. EncInv(c)'
      <3> SUFFICES ASSUME HasKey(c), fin[c] # NoInode, Quiet(fin[c]) PROVE EncInv(c)'
        BY <1>1, <1>3 DEF EncInv, HasKey, Enc, Quiet
      <3>1. fin[c] \in Inodes BY DEF IndInv, TypeOK
      <3>2. data'[fin[c]] = data[fin[c]] BY <1>5, <3>1
      <3>3. ~Sealing(c)' BY <2>1 DEF Sealing
      <3>4. EncInv(c) BY DEF FlowInv
      <3> QED BY <1>1, <2>1, <3>2, <3>3, <3>4 DEF EncInv
    <2>4. OutInv(c)'
      <3>1. crashes' # 0 BY <1>1
      <3> QED BY <2>1, <3>1 DEF OutInv
    <2>5. OpenInv(c)'
      <3>1. OpenInv(c) BY DEF FlowInv
      <3>2. pc'[c] = pc[c] \/ pc'[c] \in {"dead", "done"} BY <2>1
      <3> QED BY <1>1, <1>5, <3>1, <3>2, OpenFrame
    <2>6. OkInv(c)'
      <3> SUFFICES ASSUME arg[c] # NoCall, Dec(c), res[c] = "Ok" PROVE Published(c, arg[c].out)'
        BY <1>1 DEF OkInv, Dec
      <3>1. Published(c, arg[c].out) BY DEF FlowInv, OkInv
      <3>2. pc'[c] = "done" BY <1>1, <3>1 DEF Published, Active
      <3>3. data'[c] = data[c] /\ synced'[c] = Len(data'[c]) BY <1>2, <3>1, Names DEF Published
      <3> QED BY <1>1, <3>1, <3>2, <3>3 DEF Published, Unwrapped, Dec
    <2>7. Fed(c)' BY <1>1 DEF FlowInv, Fed
    <2> QED BY <2>2, <2>3, <2>4, <2>5, <2>6, <2>7
  <1> QED BY <1>6, <1>7 DEF FlowInv

\* What flows through the calls: an input that nobody rewrites is read, sealed,
\* written and opened as the in-memory codec would, segment by segment, in
\* every interleaving and across crashes.
THEOREM FlowInvariance == Spec => []FlowInv
  <1>1. IndInv /\ IndInv' /\ KeysInv /\ KeysInv' /\ FlowInv /\ [Next]_vars => FlowInv'
    <2> SUFFICES ASSUME IndInv, IndInv', KeysInv, KeysInv', FlowInv, [Next]_vars PROVE FlowInv' OBVIOUS
    <2>0. /\ QuietInv /\ (\A d \in Calls : Shape(d)) /\ (\A d \in Calls : Shape(d)')
          /\ (\A d \in Calls : ReadInv(d)) /\ (\A d \in Calls : EncInv(d)) /\ (\A d \in Calls : OutInv(d))
          /\ (\A d \in Calls : OpenInv(d)) /\ (\A d \in Calls : OkInv(d)) /\ (\A d \in Calls : Fed(d))
      BY DEF KeysInv, FlowInv
    <2>1. CASE \E c \in Calls : Start(c) \/ Advance(c) \/ Fault(c)
      <3>1. PICK c \in Calls : Start(c) \/ Advance(c) \/ Fault(c) BY <2>1
      <3>2. QuietInv' BY <2>0, <3>1, QuietStep
      <3>3. ASSUME NEW e \in Calls PROVE ReadInv(e)' /\ EncInv(e)' /\ OutInv(e)' /\ OpenInv(e)' /\ OkInv(e)' /\ Fed(e)'
        <4>1. ReadInv(e)' BY <2>0, <3>1, ReadStep
        <4>2. EncInv(e)' BY <2>0, <3>1, EncStep
        <4>3. OutInv(e)' BY <2>0, <3>1, OutStep
        <4>4. OpenInv(e)'
          <5>1. CASE e = c BY <2>0, <3>1, <5>1, OpenSelf
          <5>2. CASE e # c BY <2>0, <3>1, <5>2, OpenOthers
          <5> QED BY <5>1, <5>2
        <4>5. OkInv(e)' /\ Fed(e)' BY <2>0, <3>1, OkStep, FedStep
        <4> QED BY <4>1, <4>2, <4>3, <4>4, <4>5
      <3> QED BY <3>2, <3>3 DEF FlowInv
    <2>2. CASE Crash BY <2>2, FlowCrash
    <2>3. CASE UNCHANGED vars
      <3>1. QuietInv' BY <2>0, <2>3 DEF vars, QuietInv, Quiet
      <3>2. ASSUME NEW c \in Calls PROVE ReadInv(c)' /\ EncInv(c)' /\ OutInv(c)' /\ OpenInv(c)' /\ OkInv(c)' /\ Fed(c)'
        <4>1. ReadInv(c)' BY <2>0, <2>3 DEF vars, ReadInv, Quiet, Mid, Start0, Base, BufLen, Enc
        <4>2. EncInv(c)' BY <2>0, <2>3 DEF vars, EncInv, Quiet, HasKey, Sealing, Enc
        <4>3. OutInv(c)' BY <2>0, <2>3 DEF vars, OutInv, Undisturbed, HasKey, Enc
        <4>4. OpenInv(c)' BY <2>0, <2>3, OpenFrame DEF vars
        <4>5. OkInv(c)' BY <2>0, <2>3 DEF vars, OkInv, Dec, Published, Unwrapped
        <4>6. Fed(c)' BY <2>0, <2>3 DEF vars, Fed
        <4> QED BY <4>1, <4>2, <4>3, <4>4, <4>5, <4>6
      <3> QED BY <3>1, <3>2 DEF FlowInv
    <2> QED BY <2>1, <2>2, <2>3 DEF Next, Terminated
  <1> QED BY <1>1, FlowInit, Invariance, KeysInvariance, PTL DEF Spec

----------------------------------------------------------------------------
(* The two codecs agree                                                    *)

\* The streaming decoder publishes what decrypt_chunked returns, and calls a
\* blob corrupt only if decrypt_chunked does, for an input nobody rewrites.
THEOREM StreamingAgrees == Spec => []StreamingMatchesMemory
  <1>1. IndInv /\ KeysInv /\ FlowInv => StreamingMatchesMemory
    <2> SUFFICES ASSUME IndInv, KeysInv, FlowInv, NEW c \in Calls,
                        pc[c] = "done", Dec(c), fin[c] # NoInode, Undisturbed(fin[c], c)
                 PROVE  LET m == DecryptChunked(data[fin[c]], arg[c].wk, arg[c].id)
                        IN  /\ res[c] = "Ok" => m = Ok(data[c])
                            /\ res[c] = "Aead" => m = Err("Aead")
      BY DEF StreamingMatchesMemory
    <2>1. arg[c] \in Requests /\ arg[c] # NoCall /\ fin[c] \in Inodes BY Names DEF IndInv, CallInv, TypeOK
    <2>2. ~Enc(c) /\ Shape(c) /\ OpenInv(c) /\ OkInv(c) BY DEF Enc, Dec, KeysInv, FlowInv
    <2>3. Usable(arg[c].id) /\ fin[c] # c BY <2>1, <2>2 DEF Shape
    <2>4. Quiet(fin[c])
      <3>1. fout[c] = NoInode \/ fout[c] = c BY <2>2 DEF IndInv, OwnInv, Owner
      <3> QED BY <2>3, <3>1 DEF Undisturbed, Quiet
    <2> DEFINE x == data[fin[c]]
               wk == arg[c].wk
               id == arg[c].id
    <2>5. x \in Seq(Cell) /\ Chained BY <2>1, ChainedInv DEF IndInv, TypeOK
    <2>6. /\ res[c] = "Ok" => Decodes(dk[c], x, wk, id) /\ HEADER_LEN <= Len(x)
          /\ res[c] = "Aead" => HEADER_LEN <= Len(x) /\ \A k \in DataKeys : ~Decodes(k, x, wk, id)
      BY <2>1, <2>2, <2>4 DEF OpenInv
    <2>7. res[c] = "Ok" => dk[c] \in DataKeys /\ data[c] = Plain(seals[dk[c]])
      BY <2>1, <2>2 DEF OkInv, Published, Unwrapped
    <2>8. HEADER_LEN <= Len(x) => ~(Len(x) < HEADER_LEN) BY <2>5, LenProperties DEF HEADER_LEN
    <2> HIDE DEF x, wk, id
    <2>9. /\ Usable(id) /\ ~(Len(x) < HEADER_LEN) /\ (\A k \in DataKeys : ~Decodes(k, x, wk, id))
               => DecryptChunked(x, wk, id) = Err("Aead")
          /\ \A k \in DataKeys :
               Usable(id) /\ ~(Len(x) < HEADER_LEN) /\ Decodes(k, x, wk, id)
                 => DecryptChunked(x, wk, id) = Ok(Plain(seals[k]))
      BY <2>5, DecodeCases
    <2>10. Usable(id) BY <2>3 DEF id
    <2>11. /\ res[c] = "Ok" => DecryptChunked(x, wk, id) = Ok(data[c])
           /\ res[c] = "Aead" => DecryptChunked(x, wk, id) = Err("Aead")
      BY <2>6, <2>7, <2>8, <2>9, <2>10
    <2> QED BY <2>11 DEF x, wk, id
  <1> QED BY <1>1, Invariance, KeysInvariance, FlowInvariance, PTL

\* An encryption seals the segments encrypt_chunked makes of its input (message,
\* AAD and last flag of each) and leaves them framed as that one frames them,
\* and runs out of STREAM positions exactly when that one does.
THEOREM FramingAgrees == Spec => []FramingIdentical
  <1>1. IndInv /\ KeysInv /\ FlowInv => FramingIdentical
    <2> SUFFICES ASSUME IndInv, KeysInv, FlowInv, NEW c \in Calls,
                        pc[c] = "done", Enc(c), fout[c] # NoInode, crashes = 0,
                        Undisturbed(fin[c], c), Undisturbed(fout[c], c), fin[c] # fout[c]
                 PROVE  LET m == EncryptChunked(data[fin[c]], arg[c].id, dk[c], prefix[c])
                        IN  /\ res[c] = "Ok" =>
                                  /\ m = Ok(data[fout[c]])
                                  /\ seals[dk[c]] = ChunkedSeals(data[fin[c]], arg[c].id, prefix[c])
                            /\ res[c] = "Aead" => m = Err("Aead")
      BY DEF FramingIdentical
    <2>1. arg[c] # NoCall /\ Shape(c) /\ EncInv(c) /\ OutInv(c) BY Names DEF IndInv, CallInv, KeysInv, FlowInv
    <2>2. Quiet(fin[c]) BY DEF Quiet, Undisturbed
    <2>3. fin[c] # NoInode BY DEF FlowInv, Fed
    <2>4. HasKey(c) /\ Usable(arg[c].id) BY <2>1, <2>3 DEF Shape, HasKey
    <2> DEFINE x == data[fin[c]]
               id == arg[c].id
               k == dk[c]
               cell == prefix[c]
    <2>5. /\ Complete(seals[k]) => seals[k] = ChunkedSeals(x, id, cell) /\ Len(x) \div CHUNK_SIZE <= COUNTER_MAX
          /\ res[c] = "Ok" => Complete(seals[k])
          /\ res[c] = "Aead" => Len(x) \div CHUNK_SIZE > COUNTER_MAX
      BY <2>1, <2>2, <2>3, <2>4 DEF EncInv
    <2>6. res[c] = "Ok" => data[fout[c]] = Framed(k, cell, seals[k]) BY <2>1, <2>4 DEF OutInv
    <2>7. Len(x) \div CHUNK_SIZE \in Nat
      <3>1. Len(x) \in Nat BY <2>3, LenProperties DEF IndInv, TypeOK
      <3> HIDE DEF x
      <3> QED BY <3>1, ChunkAssumption, Division
    <2>8. Usable(id) BY <2>4
    <2> DEFINE q == Len(x) \div CHUNK_SIZE
    <2>9. q \in Nat /\ (q <= COUNTER_MAX => ~(q > COUNTER_MAX)) BY <2>7, CounterAssumption
    <2> HIDE DEF x, id, k, cell
    <2>10. /\ q > COUNTER_MAX => EncryptChunked(x, id, k, cell) = Err("Aead")
           /\ ~(q > COUNTER_MAX) => EncryptChunked(x, id, k, cell) = Ok(Framed(k, cell, ChunkedSeals(x, id, cell)))
      BY <2>8 DEF EncryptChunked
    <2>11. /\ res[c] = "Ok" =>
                /\ EncryptChunked(x, id, k, cell) = Ok(data[fout[c]])
                /\ seals[k] = ChunkedSeals(x, id, cell)
           /\ res[c] = "Aead" => EncryptChunked(x, id, k, cell) = Err("Aead")
      BY <2>5, <2>6, <2>9, <2>10
    <2> QED BY <2>11 DEF x, id, k, cell
  <1> QED BY <1>1, Invariance, KeysInvariance, FlowInvariance, PTL

\* What a decryption publishes of the blob of an encryption is the whole source
\* of that encryption, asked for with the same identifier and key.
THEOREM RoundTrips == Spec => []RoundTrip
  <1>1. IndInv /\ KeysInv /\ FlowInv => RoundTrip
    <2> SUFFICES ASSUME IndInv, KeysInv, FlowInv, NEW e \in Calls, NEW d \in Calls,
                        arg[e] # NoCall, Enc(e), fin[e] # NoInode,
                        Undisturbed(fin[e], e), fin[e] # fout[e],
                        res[d] = "Ok", Dec(d), dk[d] = dk[e]
                 PROVE  arg[d].id = arg[e].id /\ arg[d].wk = arg[e].wk /\ data[d] = data[fin[e]]
      BY DEF RoundTrip
    <2>1. /\ Shape(e) /\ KeyInv(e) /\ EncInv(e) /\ OkInv(d) BY DEF KeysInv, FlowInv
    <2>2. Quiet(fin[e]) BY DEF Quiet, Undisturbed
    <2>3. HasKey(e) BY <2>1 DEF Shape, HasKey
    <2>4. arg[d] \in Requests /\ arg[d] # NoCall
      <3>1. pc[d] # "idle" BY DEF IndInv, CallInv, Early
      <3> QED BY <3>1, Names DEF IndInv, CallInv
    <2>5. Published(d, arg[d].out) BY <2>1, <2>4 DEF OkInv
    <2>6. Complete(seals[dk[e]]) /\ data[d] = Plain(seals[dk[e]])
          /\ bind[dk[e]] = Wrap(arg[d].wk, arg[d].id, prefix[d]) /\ prefix[d] \in PrefixCell
      BY <2>5 DEF Published, Unwrapped
    <2>7. bind[dk[e]] = Wrap(arg[e].wk, arg[e].id, prefix[e]) /\ prefix[e] \in PrefixCell /\ Usable(arg[e].id)
      BY <2>1, <2>3 DEF KeyInv
    <2>8. arg[e].id \in BlobIds /\ arg[d].id \in BlobIds BY <2>4, ArgTyped DEF IndInv, TypeOK
    <2>9. arg[d].wk = arg[e].wk /\ arg[d].id = arg[e].id
      <3> DEFINE i == arg[d].id
                 j == arg[e].id
                 v == arg[d].wk
                 w == arg[e].wk
                 p == prefix[d]
                 q == prefix[e]
      <3>1. /\ i \in BlobIds /\ j \in BlobIds /\ Usable(j) /\ p \in PrefixCell /\ q \in PrefixCell
            /\ Wrap(v, i, p) = Wrap(w, j, q)
        BY <2>6, <2>7, <2>8
      <3> HIDE DEF i, j, v, w, p, q
      <3>2. v = w /\ i = j BY <3>1, WrapBinds
      <3> QED BY <3>2 DEF i, j, v, w
    <2>10. seals[dk[e]] = ChunkedSeals(data[fin[e]], arg[e].id, prefix[e])
      BY <2>1, <2>2, <2>3, <2>6 DEF EncInv
    <2>11. data[fin[e]] \in Seq(Cell) BY DEF IndInv, TypeOK
    <2> DEFINE x == data[fin[e]]
               j == arg[e].id
               q == prefix[e]
    <2>12. x \in Seq(Cell) /\ j \in BlobIds /\ q \in PrefixCell BY <2>7, <2>8, <2>11
    <2>13. data[d] = Plain(ChunkedSeals(x, j, q)) BY <2>6, <2>10
    <2> HIDE DEF x, j, q
    <2>14. Plain(ChunkedSeals(x, j, q)) = x BY <2>12, ChunkedSealsAre
    <2> QED BY <2>9, <2>13, <2>14 DEF x
  <1> QED BY <1>1, Invariance, KeysInvariance, FlowInvariance, PTL
=============================================================================
