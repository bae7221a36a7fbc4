----------------------------- MODULE VaultBlobs -----------------------------
(***************************************************************************)
(* The blobs and files of Vault: which of them a vault opens, for every    *)
(* sequence of calls, interrupted encryptions and nested blobs included.   *)
(***************************************************************************)
EXTENDS VaultProofs, BlobCodecProofs

----------------------------------------------------------------------------
(* The invariant                                                           *)

\* A blob b is all that was sealed under k, with the prefix in cell.
Holds(b, k, cell) ==
    /\ bind[k] = Wrap(DeriveSubkey(b.by, WRAP_CTX), b.id, cell)
    /\ seals[k] = ChunkedSeals(b.msg, b.id, cell)
    /\ b.framed = Framed(k, cell, seals[k])

BlobOK(b) ==
    /\ b.by \in Secret /\ b.id \in BlobIds /\ Usable(b.id)
    /\ b.msg \in Seq(Cell) /\ Len(b.msg) \div CHUNK_SIZE <= COUNTER_MAX
    /\ \E k \in DataKeys, cell \in PrefixCell : Holds(b, k, cell)

BlobsInv == \A b \in blobs : BlobOK(b)

\* Everything that is, was or can become the content of a file.
Contents == {b.framed : b \in blobs} \cup {b.msg : b \in blobs} \cup ({file[p] : p \in Paths} \ {NoFile})

\* x is a blob that some call returned or left whole in a file.
Recorded(x, k) ==
    \E b \in blobs : b.framed = x /\ bind[k] = Wrap(DeriveSubkey(b.by, WRAP_CTX), b.id, x[3])

\* x carries the wrap of no key but one that was drawn, and if it is all that
\* was sealed under that key, the terminal segment included, then it is on
\* record: a shorter remainder of an interrupted encryption is never that.
Known(x) ==
    /\ x \in Seq(Cell)
    /\ \A k \in DataKeys : Len(x) >= 2 /\ x[2] = [wrapped |-> k] =>
         /\ bind[k] # NoBind
         /\ Len(x) >= HEADER_LEN /\ Complete(seals[k]) /\ x = Framed(k, x[3], seals[k]) => Recorded(x, k)

ContentsInv == \A x \in Contents : Known(x)

\* The invariant.
WholeInv == IndInv /\ Chained /\ BlobsInv /\ ContentsInv /\ DOMAIN file = Paths
----------------------------------------------------------------------------
(* What an encoder seals                                                   *)

\* A beginning of a chain is a chain, and incomplete unless it is all of it.
LEMMA ChainPrefix ==
    ASSUME NEW ss \in Seq(SealRecord), SealChain(ss), NEW n \in 0 .. Len(ss)
    PROVE  /\ SubSeq(ss, 1, n) \in Seq(SealRecord) /\ SealChain(SubSeq(ss, 1, n))
           /\ Complete(SubSeq(ss, 1, n)) => n = Len(ss)
           /\ n = Len(ss) => SubSeq(ss, 1, n) = ss
  <1> DEFINE t == SubSeq(ss, 1, n)
  <1>1. n \in Nat /\ 0 <= n /\ n <= Len(ss) /\ Len(ss) \in Nat BY LenProperties
  <1>2. t \in Seq(SealRecord) /\ Len(t) = n /\ \A i \in 1 .. n : t[i] = ss[i]
    <2>1. /\ SubSeq(ss, 0 + 1, n) \in Seq(SealRecord) /\ Len(SubSeq(ss, 0 + 1, n)) = n - 0
          /\ \A j \in 1 .. n - 0 : SubSeq(ss, 0 + 1, n)[j] = ss[0 + j]
      BY <1>1, Slice
    <2> QED BY <1>1, <2>1
  <1> HIDE DEF t
  <1>3. ASSUME NEW i \in 1 .. n
        PROVE  /\ t[i] = ss[i] /\ (i # 1 => t[i - 1] = ss[i - 1])
               /\ t[i].last => i = Len(ss)
               /\ t[i].upto = (IF i = 1 THEN <<>> ELSE t[i - 1].upto) \o t[i].msg
    <2>1. i \in 1 .. Len(ss) /\ (i # 1 => i - 1 \in 1 .. n) BY <1>1
    <2>2. t[i] = ss[i] /\ (i # 1 => t[i - 1] = ss[i - 1]) BY <1>2, <2>1
    <2>3. /\ ss[i].last => i = Len(ss)
          /\ ss[i].upto = (IF i = 1 THEN <<>> ELSE ss[i - 1].upto) \o ss[i].msg
      BY <2>1 DEF SealChain
    <2> QED BY <2>2, <2>3
  <1>4. SealChain(t)
    <2> SUFFICES ASSUME NEW i \in 1 .. Len(t)
                 PROVE  /\ t[i].last => i = Len(t)
                        /\ t[i].upto = (IF i = 1 THEN <<>> ELSE t[i - 1].upto) \o t[i].msg
      BY DEF SealChain
    <2>1. i \in 1 .. n BY <1>2
    <2>2. t[i].last => i = Len(ss) BY <1>3, <2>1
    <2>3. i = Len(ss) => i = Len(t) BY <1>1, <1>2, <2>1
    <2> QED BY <1>3, <2>1, <2>2, <2>3
  <1>5. Complete(t) => n = Len(ss)
    <2> SUFFICES ASSUME Complete(t) PROVE n = Len(ss) OBVIOUS
    <2>1. n # 0 /\ t[n].last BY <1>2, EmptySeq DEF Complete
    <2>2. n \in 1 .. n BY <1>1, <2>1
    <2> QED BY <1>3, <2>1, <2>2
  <1>6. n = Len(ss) => t = ss BY <1>2, SeqEqual
  <1> QED BY <1>2, <1>4, <1>5, <1>6 DEF t

\* A wrap made by a vault is not "no wrap".
LEMMA WrapMade ==
    ASSUME NEW s \in Secret, NEW id \in BlobIds, NEW cell \in PrefixCell
    PROVE  Wrap(DeriveSubkey(s, WRAP_CTX), id, cell) # NoBind
  <1>1. Wrap(DeriveSubkey(s, WRAP_CTX), id, cell) \in WrapRecord BY KeyAssumption DEF WrapRecord
  <1> QED BY <1>1, WrapAssumption

\* What sealing the first n segments of text does to the two ghosts.
LEMMA SealEffect ==
    ASSUME WholeInv, NEW h \in Handles, Live(h), NEW text \in Seq(Cell), NEW id \in BlobIds,
           NEW k \in DataKeys, NEW cell \in PrefixCell,
           NEW n \in 0 .. Len(ChunkedSeals(text, id, cell)), SealUnder(h, text, id, k, cell, n)
    PROVE  /\ bind[k] = NoBind /\ bind'[k] = Wrap(DeriveSubkey(born[h], WRAP_CTX), id, cell)
           /\ bind'[k] # NoBind /\ seals'[k] = SubSeq(ChunkedSeals(text, id, cell), 1, n)
           /\ \A j \in DataKeys \ {k} : bind'[j] = bind[j] /\ seals'[j] = seals[j]
           /\ Chained'
  <1> DEFINE ss == ChunkedSeals(text, id, cell)  t == SubSeq(ss, 1, n)
             w == Wrap(vault[h].wrap_key, id, cell)
  <1>1. /\ bind[k] = NoBind /\ bind' = [bind EXCEPT ![k] = w] /\ seals' = [seals EXCEPT ![k] = t]
    BY DEF SealUnder
  <1>2. born[h] \in Secret /\ w = Wrap(DeriveSubkey(born[h], WRAP_CTX), id, cell)
    BY LiveKeys DEF WholeInv
  <1>3. w # NoBind BY <1>2, WrapMade
  <1>4. ss \in Seq(SealRecord) /\ SealChain(ss) BY ChunkedSealsAre
  <1> HIDE DEF ss
  <1>5. t \in Seq(SealRecord) /\ SealChain(t) BY <1>4, ChainPrefix DEF ss
  <1> HIDE DEF t, w
  <1>6. DOMAIN bind = DataKeys BY DEF WholeInv, IndInv, TypeOK
  <1>7. seals \in [DataKeys -> Seq(SealRecord)] /\ \A j \in DataKeys : SealChain(seals[j])
    BY DEF WholeInv, Chained
  <1>8. bind'[k] = w /\ seals'[k] = t /\ \A j \in DataKeys \ {k} : bind'[j] = bind[j] /\ seals'[j] = seals[j]
    BY <1>1, <1>6, <1>7
  <1>9. Chained'
    <2>1. seals' \in [DataKeys -> Seq(SealRecord)] BY <1>1, <1>5, <1>7
    <2>2. \A j \in DataKeys : SealChain(seals'[j]) BY <1>5, <1>7, <1>8
    <2>3. \A j \in DataKeys : SealChain(seals[j])' BY <2>2 DEF SealChain
    <2> QED BY <2>1, <2>3 DEF Chained
  <1> QED BY <1>1, <1>2, <1>3, <1>8, <1>9 DEF t, ss
----------------------------------------------------------------------------
(* Which contents a vault opens                                            *)

\* The plaintext of an intact blob comes back.
LEMMA IntactOpens ==
    ASSUME WholeInv, NEW b \in blobs
    PROVE  DecryptChunked(b.framed, DeriveSubkey(b.by, WRAP_CTX), b.id) = Ok(b.msg)
  <1> DEFINE wk == DeriveSubkey(b.by, WRAP_CTX)
  <1>1. /\ b.by \in Secret /\ b.id \in BlobIds /\ Usable(b.id) /\ b.msg \in Seq(Cell)
        /\ Len(b.msg) \div CHUNK_SIZE <= COUNTER_MAX
    BY DEF WholeInv, BlobsInv, BlobOK
  <1>2. PICK k \in DataKeys, cell \in PrefixCell : Holds(b, k, cell)
    BY DEF WholeInv, BlobsInv, BlobOK
  <1>3. /\ bind[k] = Wrap(wk, b.id, cell) /\ seals[k] = ChunkedSeals(b.msg, b.id, cell)
        /\ b.framed = Framed(k, cell, seals[k])
    BY <1>2 DEF Holds
  <1>4. Wrap(wk, b.id, cell) # NoBind BY <1>1, WrapMade
  <1>5. Complete(seals[k]) /\ Plain(seals[k]) = b.msg /\ Stream(seals[k], b.id, cell)
    BY <1>1, <1>3, ChunkedSealsAre
  <1> HIDE DEF wk
  <1>6. Chained BY DEF WholeInv
  <1>7. DecryptChunked(Framed(k, cell, seals[k]), wk, b.id) = Ok(Plain(seals[k]))
    BY <1>1, <1>3, <1>4, <1>5, <1>6, FramedDecodes
  <1> QED BY <1>3, <1>5, <1>7 DEF wk

\* What opens is a blob on record, made under the same secret for the same
\* identifier.
LEMMA OnlyIntactOpens ==
    ASSUME WholeInv, NEW x \in Contents, NEW s \in Secret, NEW id \in BlobIds,
           DecryptChunked(x, DeriveSubkey(s, WRAP_CTX), id).res = "Ok"
    PROVE  \E b \in blobs : b.framed = x /\ b.by = s /\ b.id = id
  <1> DEFINE wk == DeriveSubkey(s, WRAP_CTX)  out == DecryptChunked(x, wk, id).out
  <1>1. Known(x) /\ Chained BY DEF WholeInv, ContentsInv
  <1>2. x \in Seq(Cell) BY <1>1 DEF Known
  <1>3. Usable(id) /\ OneBlob(x, wk, id, out) BY <1>1, <1>2, DecoderExact
  <1> HIDE DEF wk, out
  <1>4. PICK k \in DataKeys :
          /\ Complete(seals[k]) /\ x[3] \in PrefixCell
          /\ bind[k] # NoBind /\ bind[k] = Wrap(wk, id, x[3])
          /\ x[2] = [wrapped |-> k] /\ ~(Len(x) < HEADER_LEN) /\ x = Framed(k, x[3], seals[k])
    BY <1>3 DEF OneBlob
  <1>5. Len(x) >= 2 /\ Len(x) >= HEADER_LEN BY <1>2, <1>4, LenProperties DEF HEADER_LEN
  <1>6. Recorded(x, k) BY <1>1, <1>4, <1>5 DEF Known
  <1>7. PICK b \in blobs : b.framed = x /\ bind[k] = Wrap(DeriveSubkey(b.by, WRAP_CTX), b.id, x[3])
    BY <1>6 DEF Recorded
  <1>8. b.id \in BlobIds BY DEF WholeInv, BlobsInv, BlobOK
  <1>9. wk = DeriveSubkey(b.by, WRAP_CTX) /\ id = b.id
    <2> DEFINE wb == DeriveSubkey(b.by, WRAP_CTX)
    <2> HIDE DEF wb
    <2>1. Wrap(wb, b.id, x[3]) = Wrap(wk, id, x[3]) BY <1>4, <1>7 DEF wb
    <2> QED BY <1>3, <1>4, <1>8, <2>1, WrapBinds DEF wb
  <1>10. b.by = s BY <1>9 DEF wk, DeriveSubkey
  <1> QED BY <1>7, <1>9, <1>10

\* Exactly the blobs and files that are all of one blob open.
LEMMA ExactlyIntact ==
    ASSUME WholeInv
    PROVE  BlobsOpenExactly
  <1> SUFFICES ASSUME NEW h \in Handles, NEW id \in BlobIds, Live(h),
                      NEW x \in {b.framed : b \in blobs} \cup ({file[p] : p \in Paths} \ {NoFile})
               PROVE  LET made == {b \in blobs : b.framed = x /\ b.by = born[h] /\ b.id = id}
                          r    == DecryptBlob(vault[h], x, id)
                      IN  IF made = {} THEN r.res # "Ok" ELSE \A b \in made : r = Ok(b.msg)
    BY DEF BlobsOpenExactly
  <1> DEFINE made == {b \in blobs : b.framed = x /\ b.by = born[h] /\ b.id = id}
             wk   == DeriveSubkey(born[h], WRAP_CTX)
  <1>1. born[h] \in Secret /\ DecryptBlob(vault[h], x, id) = DecryptChunked(x, wk, id)
    BY LiveKeys DEF WholeInv, DecryptBlob
  <1>2. x \in Contents BY DEF Contents
  <1>3. made = {} => DecryptChunked(x, wk, id).res # "Ok"
    BY <1>1, <1>2, OnlyIntactOpens
  <1>4. \A b \in made : DecryptChunked(x, wk, id) = Ok(b.msg)
    BY IntactOpens
  <1> HIDE DEF wk
  <1> QED BY <1>1, <1>3, <1>4
----------------------------------------------------------------------------
(* Every step preserves the invariant                                      *)

\* What an application brings carries no wrap.
LEMMA TextPlain ==
    ASSUME NEW t \in Texts
    PROVE  t \in Seq(Cell) /\ \A k \in DataKeys : ~(Len(t) >= 2 /\ t[2] = [wrapped |-> k])
  <1>1. t \in Seq(Bytes) /\ Bytes \subseteq Cell BY TextAssumption DEF Cell
  <1>2. t \in Seq(Cell) BY <1>1
  <1>3. ASSUME NEW k \in DataKeys, Len(t) >= 2 PROVE t[2] # [wrapped |-> k]
    <2>1. t[2] \in Bytes BY <1>1, <1>3
    <2> QED BY <2>1, TextAssumption
  <1> QED BY <1>2, <1>3

\* A new key changes nothing about what was known of a content.
LEMMA KnownKept ==
    ASSUME NEW k \in DataKeys, bind[k] = NoBind,
           \A j \in DataKeys \ {k} : bind'[j] = bind[j] /\ seals'[j] = seals[j],
           blobs \subseteq blobs', NEW x, Known(x)
    PROVE  Known(x)'
  <1> SUFFICES ASSUME NEW j \in DataKeys, Len(x) >= 2 /\ x[2] = [wrapped |-> j]
               PROVE  /\ bind'[j] # NoBind
                      /\ Len(x) >= HEADER_LEN /\ Complete(seals'[j]) /\ x = Framed(j, x[3], seals'[j])
                           => Recorded(x, j)'
    BY DEF Known, Complete, Framed
  <1>1. /\ bind[j] # NoBind
        /\ Len(x) >= HEADER_LEN /\ Complete(seals[j]) /\ x = Framed(j, x[3], seals[j]) => Recorded(x, j)
    BY DEF Known
  <1>2. bind'[j] = bind[j] /\ seals'[j] = seals[j] BY <1>1
  <1>3. Recorded(x, j) => Recorded(x, j)' BY <1>2 DEF Recorded
  <1> QED BY <1>1, <1>2, <1>3

\* Nor about a blob on record.
LEMMA BlobKept ==
    ASSUME NEW k \in DataKeys, bind[k] = NoBind,
           \A j \in DataKeys \ {k} : bind'[j] = bind[j] /\ seals'[j] = seals[j],
           NEW b, BlobOK(b)
    PROVE  BlobOK(b)'
  <1>1. b.by \in Secret /\ b.id \in BlobIds BY DEF BlobOK
  <1>2. PICK j \in DataKeys, cell \in PrefixCell : Holds(b, j, cell) BY DEF BlobOK
  <1>3. bind[j] # NoBind BY <1>1, <1>2, WrapMade DEF Holds
  <1>4. bind'[j] = bind[j] /\ seals'[j] = seals[j] BY <1>3
  <1>5. Holds(b, j, cell)' BY <1>2, <1>4 DEF Holds
  <1> QED BY <1>5 DEF BlobOK

\* A call encrypts text to the end and the blob goes on record, in a file or not.
LEMMA ReturnInv ==
    ASSUME WholeInv, IndInv', DOMAIN file' = Paths, NEW h \in Handles, Live(h), NEW text, Known(text), NEW id \in BlobIds,
           NEW k \in DataKeys, NEW cell \in PrefixCell, EncryptChunked(text, id, k, cell).res = "Ok",
           SealUnder(h, text, id, k, cell, Len(text) \div CHUNK_SIZE + 1),
           blobs' = blobs \cup {Made(h, text, id, EncryptChunked(text, id, k, cell).out)},
           \A p \in Paths : file'[p] \in {file[p], EncryptChunked(text, id, k, cell).out}
    PROVE  WholeInv'
  <1> DEFINE ss == ChunkedSeals(text, id, cell)  full == Len(text) \div CHUNK_SIZE
             x == Framed(k, cell, ss)  wk == DeriveSubkey(born[h], WRAP_CTX)
  <1>1. text \in Seq(Cell) BY DEF Known
  <1>2. /\ Usable(id) /\ ~(full > COUNTER_MAX) /\ EncryptChunked(text, id, k, cell) = Ok(x)
    BY DEF EncryptChunked, Err
  <1>3. EncryptChunked(text, id, k, cell).out = x BY <1>2 DEF Ok
  <1>4. ss \in Seq(SealRecord) /\ Len(ss) = full + 1 /\ full \in Nat /\ SealChain(ss)
    BY <1>1, ChunkedSealsAre
  <1>5. full + 1 \in 0 .. Len(ss) /\ SubSeq(ss, 1, full + 1) = ss
    <2>1. full + 1 \in 0 .. Len(ss) BY <1>4
    <2> HIDE DEF ss, full
    <2> QED BY <1>4, <2>1, ChainPrefix
  <1>6. /\ bind[k] = NoBind /\ bind'[k] = Wrap(wk, id, cell) /\ bind'[k] # NoBind /\ seals'[k] = ss
        /\ \A j \in DataKeys \ {k} : bind'[j] = bind[j] /\ seals'[j] = seals[j]
        /\ Chained'
    BY <1>1, <1>5, SealEffect
  <1>7. born[h] \in Secret BY LiveKeys DEF WholeInv
  <1>8. /\ x \in Seq(Cell) /\ x[2] = [wrapped |-> k] /\ x[3] = cell
    BY <1>4, FramedParts
  <1>9. PICK new : new = Made(h, text, id, x) OBVIOUS
  <1>10. blobs' = blobs \cup {new} /\ \A p \in Paths : file'[p] \in {file[p], x} BY <1>3, <1>9
  <1>11. new.by = born[h] /\ new.id = id /\ new.msg = text /\ new.framed = x BY <1>9 DEF Made
  <1>12. full <= COUNTER_MAX BY <1>2, <1>4, CounterAssumption
  <1> HIDE DEF x, wk
  <1>13. BlobOK(new)'
    <2>1. Holds(new, k, cell)' BY <1>6, <1>11 DEF Holds, wk, x
    <2> QED BY <1>1, <1>2, <1>7, <1>11, <1>12, <2>1 DEF BlobOK
  <1>14. BlobsInv' BY <1>6, <1>10, <1>13, BlobKept DEF WholeInv, BlobsInv
  <1>15. Recorded(x, k)' BY <1>6, <1>8, <1>10, <1>11 DEF Recorded, wk
  <1>16. Known(x)' BY <1>6, <1>8, <1>15 DEF Known
  <1>17. \A y \in Contents \cup {text} : Known(y)' BY <1>6, <1>10, KnownKept DEF WholeInv, ContentsInv
  <1>18. Contents' \subseteq Contents \cup {text, x} BY <1>10, <1>11 DEF Contents
  <1>19. ContentsInv' BY <1>16, <1>17, <1>18 DEF ContentsInv
  <1> QED BY <1>6, <1>14, <1>19 DEF WholeInv

\* A call fails after it has created its file and leaves less than the whole
\* blob there: that is not a blob, even if every segment was sealed.
LEMMA RemainsInv ==
    ASSUME WholeInv, IndInv', DOMAIN file' = Paths, NEW h \in Handles, Live(h), NEW text, Known(text), NEW id \in BlobIds,
           NEW k \in DataKeys, NEW cell \in PrefixCell, NEW ss, ss = ChunkedSeals(text, id, cell),
           NEW n \in 0 .. Len(ss), NEW keep \in 0 .. Len(Framed(k, cell, ss)),
           ~(n = Len(ss) /\ keep = Len(Framed(k, cell, ss))),
           SealUnder(h, text, id, k, cell, n), blobs' = blobs,
           \A p \in Paths : file'[p] \in {file[p], SubSeq(Framed(k, cell, ss), 1, keep)}
    PROVE  WholeInv'
  <1> DEFINE f == Framed(k, cell, ss)  x == SubSeq(f, 1, keep)
  <1>1. text \in Seq(Cell) BY DEF Known
  <1>2. ss \in Seq(SealRecord) /\ SealChain(ss) BY <1>1, ChunkedSealsAre
  <1>3. /\ bind[k] = NoBind /\ bind'[k] # NoBind /\ seals'[k] = SubSeq(ss, 1, n)
        /\ \A j \in DataKeys \ {k} : bind'[j] = bind[j] /\ seals'[j] = seals[j]
        /\ Chained'
    BY <1>1, SealEffect
  <1>4. /\ f \in Seq(Cell) /\ f[2] = [wrapped |-> k] /\ f[3] = cell /\ Len(f) \in Nat
    BY <1>2, FramedParts
  <1> HIDE DEF f
  <1>5. keep \in Nat /\ keep <= Len(f) /\ (n = Len(ss) => keep # Len(f)) BY <1>4 DEF f
  <1>6. x \in Seq(Cell) /\ Len(x) = keep /\ \A i \in 1 .. keep : x[i] = f[i]
    <2>1. /\ SubSeq(f, 0 + 1, keep) \in Seq(Cell) /\ Len(SubSeq(f, 0 + 1, keep)) = keep - 0
          /\ \A i \in 1 .. keep - 0 : SubSeq(f, 0 + 1, keep)[i] = f[0 + i]
      BY <1>4, <1>5, Slice
    <2> QED BY <1>5, <2>1
  <1>7. \A p \in Paths : file'[p] \in {file[p], x} BY DEF f
  <1> HIDE DEF x
  <1>8. Len(x) >= 2 => x[2] = [wrapped |-> k]
    <2> SUFFICES ASSUME Len(x) >= 2 PROVE x[2] = [wrapped |-> k] OBVIOUS
    <2>1. 2 \in 1 .. keep BY <1>5, <1>6
    <2> QED BY <1>4, <1>6, <2>1
  <1>9. ~(Len(x) >= HEADER_LEN /\ Complete(seals'[k]) /\ x = Framed(k, x[3], seals'[k]))
    <2> SUFFICES ASSUME Len(x) >= HEADER_LEN, Complete(seals'[k]), x = Framed(k, x[3], seals'[k])
                 PROVE  FALSE
      OBVIOUS
    <2>1. n = Len(ss) /\ SubSeq(ss, 1, n) = ss BY <1>2, <1>3, ChainPrefix
    <2>2. 3 \in 1 .. keep BY <1>5, <1>6 DEF HEADER_LEN
    <2>3. x[3] = cell BY <1>4, <1>6, <2>2
    <2>4. x = f BY <1>3, <2>1, <2>3 DEF f
    <2> QED BY <1>5, <1>6, <2>1, <2>4
  <1>10. Known(x)'
    <2>1. ASSUME NEW j \in DataKeys, Len(x) >= 2, x[2] = [wrapped |-> j] PROVE j = k
      <3>1. [wrapped |-> j] = [wrapped |-> k] BY <1>8, <2>1
      <3>2. [wrapped |-> j].wrapped = j /\ [wrapped |-> k].wrapped = k OBVIOUS
      <3> QED BY <3>1, <3>2
    <2> QED BY <1>3, <1>6, <1>9, <2>1 DEF Known
  <1>11. BlobsInv' BY <1>3, BlobKept DEF WholeInv, BlobsInv
  <1>12. \A y \in Contents : Known(y)' BY <1>3, KnownKept DEF WholeInv, ContentsInv
  <1>13. Contents' \subseteq Contents \cup {x} BY <1>7 DEF Contents
  <1>14. ContentsInv' BY <1>10, <1>12, <1>13 DEF ContentsInv
  <1> QED BY <1>3, <1>11, <1>14 DEF WholeInv

\* A step that seals nothing and puts only known contents in files.
LEMMA CopyInv ==
    ASSUME WholeInv, IndInv', DOMAIN file' = Paths, UNCHANGED <<bind, seals, blobs>>,
           \A p \in Paths : file'[p] = file[p] \/ file'[p] \in Contents
    PROVE  WholeInv'
  <1>1. Chained' BY DEF WholeInv, Chained, SealChain
  <1>2. BlobsInv' BY DEF WholeInv, BlobsInv, BlobOK, Holds
  <1>3. \A x : Known(x) => Known(x)' BY DEF Known, Recorded
  <1>4. Contents' \subseteq Contents BY DEF Contents
  <1>5. ContentsInv' BY <1>3, <1>4 DEF WholeInv, ContentsInv
  <1> QED BY <1>1, <1>2, <1>5 DEF WholeInv

\* The invariant holds initially.
LEMMA InitWhole == Init => WholeInv
  <1> SUFFICES ASSUME Init PROVE WholeInv
    OBVIOUS
  <1>1. IndInv BY InitInv
  <1>2. Chained
    <2>1. <<>> \in Seq(SealRecord) /\ Len(<<>>) = 0 BY EmptySeq
    <2>2. seals = [k \in DataKeys |-> <<>>] BY DEF Init
    <2>3. SealChain(<<>>) BY <2>1 DEF SealChain
    <2> QED BY <2>1, <2>2, <2>3 DEF Chained
  <1>3. BlobsInv BY DEF Init, BlobsInv
  <1>4. ContentsInv
    <2> SUFFICES ASSUME NEW x \in Contents PROVE Known(x)
      BY DEF ContentsInv
    <2>1. x \in Texts BY DEF Init, Contents
    <2> QED BY <2>1, TextPlain DEF Known
  <1>5. DOMAIN file = Paths BY DEF Init
  <1> QED BY <1>1, <1>2, <1>3, <1>4, <1>5 DEF WholeInv

\* Every step preserves the invariant, one case per kind of step.
LEMMA StepWhole == WholeInv /\ [Next]_vars => WholeInv'
  <1> SUFFICES ASSUME WholeInv, [Next]_vars PROVE WholeInv'
    OBVIOUS
  <1>0. IndInv' /\ DOMAIN file = Paths BY StepInv DEF WholeInv
  <1>1. ASSUME NEW h \in Handles, EncryptBlob(h) PROVE WholeInv'
    <2>1. PICK text \in Texts, id \in BlobIds, k \in DataKeys, cell \in PrefixCell :
            /\ EncryptChunked(text, id, k, cell).res = "Ok"
            /\ SealUnder(h, text, id, k, cell, Len(text) \div CHUNK_SIZE + 1)
            /\ blobs' = blobs \cup {Made(h, text, id, EncryptChunked(text, id, k, cell).out)}
      BY <1>1 DEF EncryptBlob
    <2>2. Live(h) /\ file' = file BY <1>1 DEF EncryptBlob
    <2>3. Known(text) BY TextPlain DEF Known
    <2> QED BY <1>0, <2>1, <2>2, <2>3, ReturnInv
  <1>2. ASSUME NEW h \in Handles, EncryptFileToBlob(h) PROVE WholeInv'
    <2>1. PICK in \in Paths, out \in Paths, id \in BlobIds, k \in DataKeys, cell \in PrefixCell :
            /\ file[in] # NoFile /\ in # out /\ EncryptChunked(file[in], id, k, cell).res = "Ok"
            /\ SealUnder(h, file[in], id, k, cell, Len(file[in]) \div CHUNK_SIZE + 1)
            /\ blobs' = blobs \cup {Made(h, file[in], id, EncryptChunked(file[in], id, k, cell).out)}
            /\ file' = [file EXCEPT ![out] = EncryptChunked(file[in], id, k, cell).out]
      BY <1>2 DEF EncryptFileToBlob
    <2>2. Live(h) BY <1>2 DEF EncryptFileToBlob
    <2>3. PICK text : text = file[in] OBVIOUS
    <2>4. Known(text) BY <2>1, <2>3 DEF WholeInv, ContentsInv, Contents
    <2>5. /\ DOMAIN file' = Paths
          /\ \A p \in Paths : file'[p] \in {file[p], EncryptChunked(text, id, k, cell).out}
      BY <1>0, <2>1, <2>3
    <2> QED BY <1>0, <2>1, <2>2, <2>3, <2>4, <2>5, ReturnInv
  <1>3. ASSUME NEW h \in Handles, EncryptFileFails(h) PROVE WholeInv'
    <2>1. PICK in \in Paths, out \in Paths, id \in BlobIds, k \in DataKeys, cell \in PrefixCell :
            /\ file[in] # NoFile /\ in # out /\ Usable(id)
            /\ LET ss == ChunkedSeals(file[in], id, cell)
                   framed == Framed(k, cell, ss)
               IN  \E n \in 0 .. Len(ss), keep \in 0 .. Len(framed) :
                     /\ Len(ss) > COUNTER_MAX + 1 => n <= COUNTER_MAX
                     /\ keep <= Len(Framed(k, cell, SubSeq(ss, 1, n)))
                     /\ SealUnder(h, file[in], id, k, cell, n)
                     /\ file' = [file EXCEPT ![out] = SubSeq(framed, 1, keep)]
                     /\ blobs' = IF n = Len(ss) /\ keep = Len(framed)
                                 THEN blobs \cup {Made(h, file[in], id, framed)} ELSE blobs
      BY <1>3 DEF EncryptFileFails
    <2>2. Live(h) BY <1>3 DEF EncryptFileFails
    <2>3. PICK text, ss : text = file[in] /\ ss = ChunkedSeals(text, id, cell) OBVIOUS
    <2>4. PICK n \in 0 .. Len(ss), keep \in 0 .. Len(Framed(k, cell, ss)) :
            /\ Len(ss) > COUNTER_MAX + 1 => n <= COUNTER_MAX
            /\ SealUnder(h, text, id, k, cell, n)
            /\ file' = [file EXCEPT ![out] = SubSeq(Framed(k, cell, ss), 1, keep)]
            /\ blobs' = IF n = Len(ss) /\ keep = Len(Framed(k, cell, ss))
                        THEN blobs \cup {Made(h, text, id, Framed(k, cell, ss))} ELSE blobs
      BY <2>1, <2>3
    <2>5. Known(text) BY <2>1, <2>3 DEF WholeInv, ContentsInv, Contents
    <2>6. /\ DOMAIN file' = Paths
          /\ \A p \in Paths : file'[p] \in {file[p], SubSeq(Framed(k, cell, ss), 1, keep)}
      BY <1>0, <2>4
    <2>7. CASE n = Len(ss) /\ keep = Len(Framed(k, cell, ss))
      <3> DEFINE f == Framed(k, cell, ss)  full == Len(text) \div CHUNK_SIZE
      <3>1. text \in Seq(Cell) BY <2>5 DEF Known
      <3>2. ss \in Seq(SealRecord) /\ Len(ss) = full + 1 /\ full \in Nat
        BY <2>3, <3>1, ChunkedSealsAre
      <3>3. ~(full > COUNTER_MAX) BY <2>4, <2>7, <3>2, CounterAssumption
      <3>4. f \in Seq(Cell) BY <3>2, FramedParts
      <3>5. EncryptChunked(text, id, k, cell) = Ok(f)
        BY <2>1, <2>3, <3>3 DEF EncryptChunked
      <3> HIDE DEF full
      <3>6. EncryptChunked(text, id, k, cell).res = "Ok" /\ EncryptChunked(text, id, k, cell).out = f
        BY <3>5 DEF Ok
      <3>7. n = full + 1 BY <2>7, <3>2
      <3> HIDE DEF f
      <3>8. SubSeq(f, 1, keep) = f
        <4>1. keep = Len(f) /\ Len(f) \in Nat BY <2>7, <3>4, LenProperties DEF f
        <4>2. /\ SubSeq(f, 0 + 1, keep) \in Seq(Cell) /\ Len(SubSeq(f, 0 + 1, keep)) = keep - 0
              /\ \A i \in 1 .. keep - 0 : SubSeq(f, 0 + 1, keep)[i] = f[0 + i]
          BY <3>4, <4>1, Slice
        <4>3. /\ SubSeq(f, 1, keep) \in Seq(Cell) /\ Len(SubSeq(f, 1, keep)) = Len(f)
              /\ \A i \in 1 .. Len(f) : SubSeq(f, 1, keep)[i] = f[i]
          BY <4>1, <4>2
        <4> QED BY <3>4, <4>3, SeqEqual
      <3>9. SealUnder(h, text, id, k, cell, Len(text) \div CHUNK_SIZE + 1)
        BY <2>4, <3>7 DEF full
      <3>10. /\ blobs' = blobs \cup {Made(h, text, id, EncryptChunked(text, id, k, cell).out)}
             /\ \A p \in Paths : file'[p] \in {file[p], EncryptChunked(text, id, k, cell).out}
        BY <2>4, <2>6, <2>7, <3>6, <3>8 DEF f
      <3> QED BY <1>0, <2>2, <2>5, <2>6, <3>6, <3>9, <3>10, ReturnInv
    <2>8. CASE ~(n = Len(ss) /\ keep = Len(Framed(k, cell, ss)))
      <3>1. blobs' = blobs BY <2>4, <2>8
      <3> QED BY <1>0, <2>2, <2>3, <2>4, <2>5, <2>6, <2>8, <3>1, RemainsInv
    <2> QED BY <2>7, <2>8
  <1>4. ASSUME NEW h \in Handles, DecryptBlobToFile(h) PROVE WholeInv'
    <2>1. PICK in \in Paths, out \in Paths, id \in BlobIds :
            /\ file[in] # NoFile /\ DecryptBlob(vault[h], file[in], id).res = "Ok"
            /\ file' = [file EXCEPT ![out] = DecryptBlob(vault[h], file[in], id).out]
      BY <1>4 DEF DecryptBlobToFile
    <2>2. Live(h) /\ UNCHANGED <<bind, seals, blobs>> BY <1>4 DEF DecryptBlobToFile, cryptoVars
    <2> DEFINE wk == DeriveSubkey(born[h], WRAP_CTX)
    <2>3. born[h] \in Secret /\ DecryptBlob(vault[h], file[in], id) = DecryptChunked(file[in], wk, id)
      BY <2>2, LiveKeys DEF WholeInv, DecryptBlob
    <2>4. file[in] \in Contents BY <2>1 DEF Contents
    <2>5. PICK b \in blobs : b.framed = file[in] /\ b.by = born[h] /\ b.id = id
      BY <2>1, <2>3, <2>4, OnlyIntactOpens
    <2>6. DecryptChunked(file[in], wk, id) = Ok(b.msg) BY <2>5, IntactOpens
    <2>7. DecryptBlob(vault[h], file[in], id).out \in Contents BY <2>3, <2>6 DEF Ok, Contents
    <2>8. DOMAIN file' = Paths /\ \A p \in Paths : file'[p] = file[p] \/ file'[p] \in Contents
      BY <1>0, <2>1, <2>7
    <2> QED BY <1>0, <2>2, <2>8, CopyInv
  <1>5. CASE UNCHANGED <<bind, seals, blobs, file>> BY <1>0, <1>5, CopyInv
  <1>6. CASE GenerateMasterSecret \/ WritePhrase \/ RestoreSecret \/ Reinstall
    BY <1>5, <1>6 DEF GenerateMasterSecret, WritePhrase, RestoreSecret, Reinstall, cryptoVars
  <1>7. ASSUME NEW h \in Handles,
               OpenVault(h) \/ OpenFromPhrase(h) \/ EncryptMetadataField(h) \/ SignChallenge(h)
        PROVE  WholeInv'
    BY <1>5, <1>7 DEF OpenVault, OpenFromPhrase, EncryptMetadataField, SignChallenge, cryptoVars
  <1>8. CASE UNCHANGED vars BY <1>5, <1>8 DEF vars
  <1> QED BY <1>1, <1>2, <1>3, <1>4, <1>6, <1>7, <1>8 DEF Next

\* The invariant holds in every reachable state: a blob on record is all that
\* was ever sealed under its key, and no other content is.
THEOREM WholeInvariance == Spec => []WholeInv
  <1> QED BY InitWhole, StepWhole, PTL DEF Spec

\* A vault opens a blob or a file exactly when it is all of one blob sealed to
\* the end under the same master secret for the same identifier, and returns
\* its plaintext, for all secrets, identifiers, chunk sizes and texts, wherever
\* encryptions failed or were cut off and however blobs are nested
\* (encrypt_blob, decrypt_blob, encrypt_file_to_blob, decrypt_blob_to_file).
THEOREM BlobsExact == Spec => []BlobsOpenExactly
  <1> QED BY WholeInvariance, ExactlyIntact, PTL
=============================================================================
