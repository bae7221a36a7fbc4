---------------------------- MODULE MCBlobFile ----------------------------
(* Small instances of BlobFile: values for its constants, one group for    *)
(* each question the .cfg files ask.                                       *)
EXTENDS BlobFile

CONSTANTS a, b, k1, k2, k3, w1, w2, src, blob, dst

\* Domains and nonce prefixes are one byte; one identifier begins another.
MCBlobDomain   == <<1>>
MCFieldDomain  == <<2>>
MCAttestDomain == <<1>>
n1 == <<0>>
n2 == <<1>>
i1 == <<1>>
i2 == <<1, 1>>
OnePrefix   == {n1}
TwoPrefixes == {n1, n2}
OneId       == {i1, <<>>}
TwoIds      == {i1, i2, <<>>, [j \in 1 .. BASE * BASE * BASE * BASE |-> 1]}

P(n) == [prefix |-> n]

----------------------------------------------------------------------------
(* Blobs sealed before the run starts.                                     *)

MCStored == {k1, k2}

\* k1 and k2 hold different plaintexts; k2 is bound to another identifier.
MCStoredBind == [k \in MCStored |->
    IF k = k1 THEN Wrap(w1, i1, P(n1)) ELSE Wrap(w1, i2, P(n2))]

PlainOf(k) == IF k = k1 THEN <<a, b, a>> ELSE <<b, b, a, a>>

MCStoredSeals == [k \in MCStored |->
    IF k = k1 THEN ChunkedSeals(PlainOf(k), i1, P(n1))
              ELSE ChunkedSeals(PlainOf(k), i2, P(n2))]

OneStored == {k1}
OneBind   == [k \in OneStored |-> Wrap(w1, i1, P(n1))]
OneSeals  == [k \in OneStored |-> ChunkedSeals(<<a>>, i1, P(n1))]
OneFramed == Framed(k1, P(n1), OneSeals[k1])

----------------------------------------------------------------------------
(* Two decryptions to one output, over an old file or none, with a crash.  *)

DecReq(id, wk) == [op |-> "decrypt", in |-> blob, out |-> dst, id |-> id, wk |-> wk]

PublishRequests == {DecReq(i1, w1)}
PublishDisks ==
    { (blob :> OneFramed) @@ old : old \in {<<>>, dst :> <<b, b>>} }

----------------------------------------------------------------------------
(* One decryption of every damaged version of a blob in the families below, *)
(* under every identifier and key.                                          *)

F(k) == Framed(k, MCStoredSeals[k][1].prefix, MCStoredSeals[k])

\* Splices(x, y): a beginning of x and an end of y, so truncations, removed,
\* repeated and transplanted segments and swapped headers.
Splices(x, y) ==
    {SubSeq(x, 1, i) \o SubSeq(y, j, Len(y)) : i \in 0 .. Len(x), j \in 1 .. Len(y) + 1}

\* One cell of x replaced: another version or chunk size, another blob's key
\* or prefix, a byte of another segment, a plain byte.
Flips(x, y) ==
    {[x EXCEPT ![i] = v] : i \in 1 .. Len(x),
                           v \in {y[2], y[3], y[5], [ver |-> 1], [size |-> 1], a}}

InputDisks ==
    { (blob :> f) : f \in UNION {Splices(F(x), F(y)) : x \in MCStored, y \in MCStored}
                          \cup Flips(F(k1), F(k2)) }
    \cup {<<>>}

InputRequests == {DecReq(id, wk) : id \in BlobIds, wk \in WrapKeys}

----------------------------------------------------------------------------
(* Encryptions that rewrite a blob in place while others read or write it. *)

EncReq == [op |-> "encrypt", in |-> src, out |-> blob, id |-> i1, wk |-> w1]

RaceRequests == {EncReq, DecReq(i1, w1)}
RaceDisks == { (src :> <<b>>) @@ (blob :> OneFramed) }

\* Up to two encryptions and any decryptions share one blob that does not
\* exist yet.  Calls, and data keys, are interchangeable.
WriterDisks == { src :> <<b>> }
WriterSymmetry == Permutations(Calls) \cup Permutations(DataKeys)

----------------------------------------------------------------------------
(* Two encryptions that read what the other writes, or what they write     *)
(* themselves, so that the input can grow while it is read.                *)

FeedReq(x, y) == [op |-> "encrypt", in |-> x, out |-> y, id |-> i1, wk |-> w1]

FeedRequests == {FeedReq(src, blob), FeedReq(blob, src), FeedReq(src, src), DecReq(i1, w1)}
FeedDisks == { (src :> <<b>>) @@ (blob :> OneFramed) }

----------------------------------------------------------------------------
(* One encryption and one decryption, in any order, over sources of every  *)
(* length up to two full chunks and a remainder.                           *)

ChunkDisks == { (src :> SubSeq(<<a, b, b, a, b>>, 1, n)) : n \in 0 .. 5 }
=============================================================================
