----------------------------- MODULE BlobCodec -----------------------------
(***************************************************************************)
(* The chunked STREAM blob format of crates/filum-crypto/src/blob.rs and   *)
(* its in-memory codec, encrypt_chunked / decrypt_chunked.                 *)
(*                                                                         *)
(* A byte string is a sequence of cells.  A cell stands for a whole header *)
(* field, for one byte of a sealed segment or for one plaintext byte, so   *)
(* the 72-byte header is four cells and a segment is Len(msg) + TAG_LEN    *)
(* cells.  AES-256-GCM is ideal: a ciphertext opens only if it was sealed  *)
(* under the same key, nonce and associated data, and comes back exactly   *)
(* as sealed.  The two ghost variables record what has been sealed:        *)
(*                                                                         *)
(*   bind[k]   the wrap of data key k: wrapping key and wrap AAD           *)
(*   seals[k]  the segments sealed under k, in the order of the STREAM     *)
(*             counter; seals[k][i] has counter i - 1                      *)
(***************************************************************************)
EXTENDS Aad, SequencesExt

CONSTANTS
    CHUNK_SIZE,   \* plaintext bytes of a full segment (blob.rs: 1 MiB)
    TAG_LEN,      \* bytes a seal adds (blob.rs: 16)
    COUNTER_MAX,  \* last position of the STREAM counter (BE32: 2^32 - 1)
    DataKeys,     \* random per-blob data keys
    WrapKeys,     \* vault wrapping keys
    NoncePrefixes, \* random nonce prefixes, byte strings of one length
    BlobIds,      \* caller-supplied blob identifiers, unusable ones too
    Bytes,        \* plaintext bytes
    Zero,         \* the byte a hole in a file reads as
    NoBind,       \* "this data key has not been wrapped"
    NoKey         \* "no stream yet"

VARIABLES bind, seals

cryptoVars == <<bind, seals>>

ASSUME ChunkAssumption   == CHUNK_SIZE \in Nat \ {0}
ASSUME TagAssumption     == TAG_LEN \in Nat \ {0}
ASSUME CounterAssumption == COUNTER_MAX \in Nat
ASSUME ByteAssumption    == Zero \in Bytes
ASSUME NameAssumption    ==
    /\ BlobIds \subseteq Seq(Octet) /\ NoncePrefixes \subseteq Seq(Octet)
    /\ \A p, q \in NoncePrefixes : Len(p) = Len(q)

----------------------------------------------------------------------------
(* Cells, header and associated data                                       *)

VERSION == 2

HEADER_LEN == 4

Cell ==
    Bytes
    \cup [ver : Nat] \cup [wrapped : DataKeys]
    \cup [prefix : NoncePrefixes] \cup [size : Nat]
    \cup [key : DataKeys, ctr : Nat, pos : Nat]

\* write_header: version, wrapped data key, nonce prefix, chunk size.
WriteHeader(k, prefix) ==
    << [ver |-> VERSION], [wrapped |-> k], prefix, [size |-> CHUNK_SIZE] >>

PrefixCell == [prefix : NoncePrefixes]

\* What a wrap authenticates: the key it is under and its AAD.
Wrap(wk, id, cell) ==
    [wk |-> wk, aad |-> BlobWrapAad(id, VERSION, cell.prefix, CHUNK_SIZE)]

WrapRecord ==
    {Wrap(wk, id, cell) : wk \in WrapKeys, id \in BlobIds, cell \in PrefixCell}

ASSUME WrapAssumption == NoBind \notin WrapRecord /\ NoKey \notin DataKeys

\* unwrap_data_key: cell is a wrap of k made under wk for this AAD.
Unwraps(k, cell, wk, id, prefix) ==
    /\ bind[k] # NoBind
    /\ cell = [wrapped |-> k] /\ prefix \in PrefixCell
    /\ bind[k] = Wrap(wk, id, prefix)

----------------------------------------------------------------------------
(* STREAM segments                                                         *)

\* A sealed segment.  upto is history: the plaintext sealed under the key up
\* to and including this segment.
Seal(prefix, last, aad, msg, upto) ==
    [prefix |-> prefix, last |-> last, aad |-> aad, msg |-> msg, upto |-> upto]

SealRecord ==
    [prefix : Cell, last : BOOLEAN, aad : {BlobSegmentAad(id) : id \in BlobIds},
     msg : Seq(Cell), upto : Seq(Cell)]

\* The plaintext carried by a sequence of segments.
Plain(ss) == IF ss = <<>> THEN <<>> ELSE ss[Len(ss)].upto

\* EncryptorBE32 seals msg at the next position.
Sealed(ss, prefix, last, aad, msg) ==
    Append(ss, Seal(prefix, last, aad, msg, Plain(ss) \o msg))

\* The terminal segment has been sealed.
Complete(ss) == ss # <<>> /\ ss[Len(ss)].last

\* The bytes of the segment with counter i sealed under k, n bytes long.
SealBytes(k, i, n) ==
    [j \in 1 .. n + TAG_LEN |-> [key |-> k, ctr |-> i, pos |-> j]]

\* DecryptorBE32 at position i accepts these bytes.
Opens(k, prefix, i, last, aad, bytes) ==
    /\ last \/ i # COUNTER_MAX
    /\ i < Len(seals[k])
    /\ LET s == seals[k][i + 1]
       IN  /\ s.prefix = prefix /\ s.last = last /\ s.aad = aad
           /\ bytes = SealBytes(k, i, Len(s.msg))

\* The plaintext of the segment with counter i.
Opened(k, i) == seals[k][i + 1].msg

\* What every sequence of segments made by the encoder is: nothing follows
\* the last segment, and upto accumulates the messages.
SealChain(ss) ==
    \A i \in 1 .. Len(ss) :
        /\ ss[i].last => i = Len(ss)
        /\ ss[i].upto = (IF i = 1 THEN <<>> ELSE ss[i - 1].upto) \o ss[i].msg

\* What an encoder has sealed so far for id with one nonce prefix: full chunks
\* at counters an encrypt_next may use, then less than a chunk.
Stream(ss, id, prefix) ==
    /\ SealChain(ss)
    /\ \A i \in 1 .. Len(ss) :
         /\ ss[i].prefix = prefix /\ ss[i].aad = BlobSegmentAad(id)
         /\ IF ss[i].last THEN Len(ss[i].msg) < CHUNK_SIZE
            ELSE Len(ss[i].msg) = CHUNK_SIZE /\ i <= COUNTER_MAX

----------------------------------------------------------------------------
(* The in-memory codec                                                     *)

Ok(out) == [res |-> "Ok", out |-> out]
Err(e)  == [res |-> e, out |-> <<>>]

\* The loop of encrypt_chunked: every full chunk is an encrypt_next, one
\* encrypt_last covers the remainder, empty at an exact multiple.
ChunkedSeals(pt, id, prefix) ==
    LET full == Len(pt) \div CHUNK_SIZE
        end(i) == IF i = full + 1 THEN Len(pt) ELSE i * CHUNK_SIZE
    IN  [i \in 1 .. full + 1 |->
            Seal(prefix, i = full + 1, BlobSegmentAad(id),
                 SubSeq(pt, (i - 1) * CHUNK_SIZE + 1, end(i)),
                 SubSeq(pt, 1, end(i)))]

\* The framed bytes of a blob.
Framed(k, prefix, ss) ==
    WriteHeader(k, prefix)
    \o FlattenSeq([i \in 1 .. Len(ss) |-> SealBytes(k, i - 1, Len(ss[i].msg))])

\* encrypt_chunked with the data key and nonce prefix the OS drew.
EncryptChunked(pt, id, k, prefix) ==
    CASE ~Usable(id) -> Err("InvalidContext")
      [] Usable(id) /\ Len(pt) \div CHUNK_SIZE > COUNTER_MAX -> Err("Aead")
      [] OTHER -> Ok(Framed(k, prefix, ChunkedSeals(pt, id, prefix)))

\* version, chunk size and key wrap of a framed blob are accepted.
HeaderOpens(k, header, wk, id) ==
    /\ header[1] = [ver |-> VERSION]
    /\ header[4] = [size |-> CHUNK_SIZE]
    /\ Unwraps(k, header[2], wk, id, header[3])

\* The body of a framed blob cut every CHUNK_SIZE + TAG_LEN bytes.
Pieces(body) ==
    LET ct == CHUNK_SIZE + TAG_LEN
        n  == (Len(body) + ct - 1) \div ct
    IN  [i \in 1 .. n |-> SubSeq(body, (i - 1) * ct + 1, IF i = n THEN Len(body) ELSE i * ct)]

\* Mutant: only a piece shorter than a chunk has to be the terminal segment.
OpensBodyNoTerminal(k, prefix, aad, ps) ==
    \A i \in 1 .. Len(ps) :
        Opens(k, prefix, i - 1, Len(ps[i]) < CHUNK_SIZE + TAG_LEN, aad, ps[i])

\* The final piece opens as the last segment, the others as next ones.
OpensBody(k, prefix, aad, ps) ==
    /\ ps # <<>>
    /\ \A i \in 1 .. Len(ps) : Opens(k, prefix, i - 1, i = Len(ps), aad, ps[i])

\* decrypt_chunked.
DecryptChunked(framed, wk, id) ==
    LET ps == Pieces(SubSeq(framed, HEADER_LEN + 1, Len(framed)))
        opens(k) ==
            /\ HeaderOpens(k, framed, wk, id)
            /\ OpensBody(k, framed[3], BlobSegmentAad(id), ps)
        out(k) == FlattenSeq([i \in 1 .. Len(ps) |-> Opened(k, i - 1)])
    IN  CASE ~Usable(id) -> Err("InvalidContext")
          [] Usable(id) /\ Len(framed) < HEADER_LEN -> Err("Aead")
          [] OTHER -> IF \E k \in DataKeys : opens(k)
                      THEN Ok(out(CHOOSE k \in DataKeys : opens(k)))
                      ELSE Err("Aead")
=============================================================================
