----------------------------- MODULE AadProofs -----------------------------
(***************************************************************************)
(* "no concatenation of distinct inputs can collide" (aad.rs), for every   *)
(* identifier, domain and byte width.                                      *)
(***************************************************************************)
EXTENDS Aad, SequenceTheorems, TLAPS

\* Byte strings are closed under concatenation, which is associative.
LEMMA Concat ==
    ASSUME NEW s \in Seq(Octet), NEW t \in Seq(Octet)
    PROVE  /\ s \o t \in Seq(Octet)
           /\ \A u \in Seq(Octet) : (s \o t) \o u = s \o (t \o u)
  BY ConcatProperties, ConcatAssociative

\* The first n bytes of w, and the bytes after them.
FirstBytes(w, n) == SubSeq(w, 1, n)
BytesAfter(w, n)  == SubSeq(w, n + 1, Len(w))

\* The length of its first part cuts a concatenation into its two parts: how
\* an AAD whose beginning has a known length is read back.
LEMMA Cut ==
    ASSUME NEW s \in Seq(Octet), NEW u \in Seq(Octet)
    PROVE  FirstBytes(s \o u, Len(s)) = s /\ BytesAfter(s \o u, Len(s)) = u
  <1> DEFINE w == s \o u
  <1>1. /\ w \in Seq(Octet) /\ Len(w) = Len(s) + Len(u)
        /\ \A i \in 1 .. Len(s) + Len(u) : w[i] = IF i <= Len(s) THEN s[i] ELSE u[i - Len(s)]
    BY ConcatProperties
  <1>2. Len(s) \in Nat /\ Len(u) \in Nat /\ \A i \in 1 .. Len(w) : w[i] \in Octet
    BY <1>1, LenProperties, ElementOfSeq
  <1> HIDE DEF w
  <1>3. /\ FirstBytes(w, Len(s)) \in Seq(Octet) /\ Len(FirstBytes(w, Len(s))) = Len(s)
        /\ \A i \in 1 .. Len(s) : FirstBytes(w, Len(s))[i] = w[i]
    BY <1>1, <1>2, SubSeqProperties DEF FirstBytes
  <1>4. /\ BytesAfter(w, Len(s)) \in Seq(Octet) /\ Len(BytesAfter(w, Len(s))) = Len(u)
        /\ \A i \in 1 .. Len(u) : BytesAfter(w, Len(s))[i] = w[Len(s) + i]
    BY <1>1, <1>2, SubSeqProperties DEF BytesAfter
  <1>5. FirstBytes(w, Len(s)) = s
    BY <1>1, <1>2, <1>3, SeqEqual
  <1>6. ASSUME NEW i \in 1 .. Len(u)
        PROVE  w[Len(s) + i] = u[i]
    <2>1. /\ Len(s) + i \in 1 .. Len(s) + Len(u) /\ ~(Len(s) + i <= Len(s))
          /\ (Len(s) + i) - Len(s) = i
      BY <1>2
    <2> QED BY <1>1, <2>1
  <1>7. BytesAfter(w, Len(s)) = u
    BY <1>2, <1>4, <1>6, SeqEqual
  <1> QED BY <1>5, <1>7 DEF w

\* A number is determined by its quotient and its last digit.
LEMMA DigitSplit ==
    ASSUME NEW n \in Nat
    PROVE  /\ n \div BASE \in Nat
           /\ n % BASE \in Octet
           /\ n = BASE * (n \div BASE) + (n % BASE)
           /\ n < BASE => n % BASE = n
  <1>1. n \div BASE \in Int BY BaseAssumption
  <1>2. n \div BASE >= 0 BY BaseAssumption
  <1>3. n % BASE \in Octet BY BaseAssumption DEF Octet
  <1>4. n = BASE * (n \div BASE) + (n % BASE) BY BaseAssumption
  <1>5. n < BASE => n % BASE = n BY BaseAssumption
  <1> QED BY <1>1, <1>2, <1>3, <1>4, <1>5

\* to_be_bytes gives four bytes, different ones for different 32-bit numbers.
LEMMA ToBeBytesInjective ==
    ASSUME NEW m \in Nat, NEW n \in Nat
    PROVE  /\ ToBeBytes(n) \in Seq(Octet) /\ Len(ToBeBytes(n)) = 4
           /\ (FitsU32(m) /\ FitsU32(n) /\ ToBeBytes(m) = ToBeBytes(n)) => m = n
  <1> DEFINE q(x) == x \div BASE
  <1>1. \A x \in Nat : q(x) \in Nat /\ x % BASE \in Octet
    BY DigitSplit
  <1>2. \A x \in Nat : ToBeBytes(x) = <<q(q(q(x))) % BASE, q(q(x)) % BASE, q(x) % BASE, x % BASE>>
    BY DEF ToBeBytes
  <1>3. \A x \in Nat : FitsU32(x) <=> q(q(q(x))) < BASE
    BY DEF FitsU32
  <1>4. \A x, y \in Nat : q(x) = q(y) /\ x % BASE = y % BASE => x = y
    <2> SUFFICES ASSUME NEW x \in Nat, NEW y \in Nat, q(x) = q(y), x % BASE = y % BASE
                 PROVE  x = y
      OBVIOUS
    <2>1. x = BASE * q(x) + (x % BASE) BY DigitSplit
    <2>2. y = BASE * q(y) + (y % BASE) BY DigitSplit
    <2>3. BASE * q(x) + (x % BASE) = BASE * q(y) + (y % BASE) OBVIOUS
    <2> HIDE DEF q
    <2> QED BY <2>1, <2>2, <2>3
  <1> HIDE DEF q
  <1>5. ToBeBytes(n) \in Seq(Octet) /\ Len(ToBeBytes(n)) = 4
    <2>1. /\ q(q(q(n))) % BASE \in Octet /\ q(q(n)) % BASE \in Octet
          /\ q(n) % BASE \in Octet /\ n % BASE \in Octet
      BY <1>1
    <2>2. ToBeBytes(n) = <<q(q(q(n))) % BASE, q(q(n)) % BASE, q(n) % BASE, n % BASE>>
      BY <1>2
    <2> QED BY <2>1, <2>2
  <1>6. ASSUME FitsU32(m), FitsU32(n), ToBeBytes(m) = ToBeBytes(n)
        PROVE  m = n
    <2>1. /\ q(q(q(m))) % BASE = q(q(q(n))) % BASE /\ q(q(m)) % BASE = q(q(n)) % BASE
          /\ q(m) % BASE = q(n) % BASE /\ m % BASE = n % BASE
      BY <1>2, <1>6
    <2>2. /\ q(q(q(m))) \in Nat /\ q(q(m)) \in Nat /\ q(m) \in Nat
          /\ q(q(q(n))) \in Nat /\ q(q(n)) \in Nat /\ q(n) \in Nat
      BY <1>1
    <2>3. q(q(q(m))) % BASE = q(q(q(m))) /\ q(q(q(n))) % BASE = q(q(q(n)))
      BY <1>3, <1>6, <2>2, DigitSplit
    <2>4. q(q(m)) = q(q(n))
      BY <1>4, <2>1, <2>2, <2>3
    <2> QED BY <1>4, <2>1, <2>2, <2>4
  <1> QED BY <1>5, <1>6

----------------------------------------------------------------------------
(* Every encoding is undone by a decoder, so it is injective.              *)

\* The number four bytes stand for.
U32Of(d) == CHOOSE n \in Nat : FitsU32(n) /\ ToBeBytes(n) = d

\* The length-prefixed component w begins with, and what follows it.
Component(w) == FirstBytes(BytesAfter(w, 4), U32Of(FirstBytes(w, 4)))
Rest(w)      == BytesAfter(BytesAfter(w, 4), U32Of(FirstBytes(w, 4)))

\* A length-prefixed component and what follows it are read back.
LEMMA PrefixedDecode ==
    ASSUME NEW s \in Seq(Octet), NEW u \in Seq(Octet)
    PROVE  /\ Prefixed(s) \in Seq(Octet) /\ Prefixed(s) \o u \in Seq(Octet)
           /\ Usable(s) => Component(Prefixed(s) \o u) = s /\ Rest(Prefixed(s) \o u) = u
  <1> DEFINE a == ToBeBytes(Len(s))  t == s \o u
  <1>1. a \in Seq(Octet) /\ Len(a) = 4
    BY LenProperties, ToBeBytesInjective
  <1>2. t \in Seq(Octet)
    BY Concat
  <1>3. FirstBytes(t, Len(s)) = s /\ BytesAfter(t, Len(s)) = u
    BY Cut
  <1>4. Usable(s) => U32Of(a) = Len(s)
    <2>1. Usable(s) => \A n \in Nat : FitsU32(n) /\ ToBeBytes(n) = a => n = Len(s)
      BY LenProperties, ToBeBytesInjective DEF Usable
    <2>2. Usable(s) => Len(s) \in Nat /\ FitsU32(Len(s)) /\ ToBeBytes(Len(s)) = a
      BY LenProperties DEF Usable
    <2> HIDE DEF a
    <2> QED BY <2>1, <2>2 DEF U32Of
  <1> HIDE DEF a
  <1>5. a \o s \in Seq(Octet) /\ (a \o s) \o u = a \o t
    BY <1>1, Concat
  <1>6. Prefixed(s) = a \o s
    BY DEF Prefixed, a
  <1> HIDE DEF t
  <1>7. FirstBytes(a \o t, 4) = a /\ BytesAfter(a \o t, 4) = t /\ a \o t \in Seq(Octet)
    BY <1>1, <1>2, Cut, Concat
  <1>8. Prefixed(s) \o u = a \o t
    BY <1>5, <1>6
  <1>9. Prefixed(s) \in Seq(Octet) /\ Prefixed(s) \o u \in Seq(Octet)
    BY <1>5, <1>6, <1>7, <1>8
  <1> QED BY <1>3, <1>4, <1>7, <1>8, <1>9 DEF Component, Rest

\* What follows the domain of a field AAD.
FieldBody(w) == BytesAfter(w, Len(FIELD_DOMAIN))

\* Record and field name are read back from a field AAD.
LEMMA FieldDecode ==
    ASSUME NEW r \in Seq(Octet), NEW f \in Seq(Octet), Usable(r), Usable(f)
    PROVE  /\ r = Component(FieldBody(FieldAad(r, f)))
           /\ f = Component(Rest(FieldBody(FieldAad(r, f))))
  <1> DEFINE y == Prefixed(f)  x == Prefixed(r) \o y
  <1>1. <<>> \in Seq(Octet) /\ FIELD_DOMAIN \in Seq(Octet)
    BY EmptySeq, DomainAssumption
  <1>2. y \in Seq(Octet) /\ Component(y \o <<>>) = f
    BY <1>1, PrefixedDecode
  <1>3. y \o <<>> = y
    BY <1>2, ConcatEmptySeq
  <1> HIDE DEF y
  <1>4. x \in Seq(Octet) /\ Component(x) = r /\ Rest(x) = y
    BY <1>2, PrefixedDecode
  <1>5. FieldAad(r, f) = FIELD_DOMAIN \o x
    BY DEF FieldAad, y
  <1> HIDE DEF x
  <1>6. FieldBody(FIELD_DOMAIN \o x) = x
    BY <1>1, <1>4, Cut DEF FieldBody
  <1> QED BY <1>2, <1>3, <1>4, <1>5, <1>6

\* field_aad: two fields have the same associated data only if they are the
\* same field of the same record.
THEOREM FieldAadInjective ==
    ASSUME NEW r \in Seq(Octet), NEW f \in Seq(Octet), Usable(r), Usable(f),
           NEW s \in Seq(Octet), NEW g \in Seq(Octet), Usable(s), Usable(g),
           FieldAad(r, f) = FieldAad(s, g)
    PROVE  r = s /\ f = g
  <1> DEFINE w == FieldAad(r, f)
  <1>1. r = Component(FieldBody(w)) /\ f = Component(Rest(FieldBody(w)))
    BY FieldDecode
  <1>2. s = Component(FieldBody(w)) /\ g = Component(Rest(FieldBody(w)))
    BY FieldDecode
  <1> QED BY <1>1, <1>2

\* What follows the domain of a blob AAD.
BlobBody(w) == BytesAfter(w, Len(BLOB_DOMAIN))

\* The identifier and what follows it are read back from a blob AAD.
LEMMA BlobDecode ==
    ASSUME NEW i \in Seq(Octet), NEW u \in Seq(Octet)
    PROVE  /\ BlobSegmentAad(i) \o u = BLOB_DOMAIN \o (Prefixed(i) \o u)
           /\ Usable(i) => /\ i = Component(BlobBody(BlobSegmentAad(i) \o u))
                           /\ u = Rest(BlobBody(BlobSegmentAad(i) \o u))
  <1> DEFINE y == Prefixed(i)  x == y \o u
  <1>1. BLOB_DOMAIN \in Seq(Octet) /\ y \in Seq(Octet) /\ x \in Seq(Octet)
    BY PrefixedDecode, DomainAssumption
  <1>2. Usable(i) => Component(x) = i /\ Rest(x) = u
    BY PrefixedDecode
  <1> HIDE DEF y
  <1>3. (BLOB_DOMAIN \o y) \o u = BLOB_DOMAIN \o x
    BY <1>1, Concat
  <1>4. BlobSegmentAad(i) = BLOB_DOMAIN \o y
    BY DEF BlobSegmentAad, y
  <1>5. BlobSegmentAad(i) \o u = BLOB_DOMAIN \o x
    BY <1>3, <1>4
  <1> HIDE DEF x
  <1>6. BlobBody(BLOB_DOMAIN \o x) = x
    BY <1>1, Cut DEF BlobBody
  <1>7. x = Prefixed(i) \o u
    BY DEF x, y
  <1> QED BY <1>2, <1>5, <1>6, <1>7

\* blob_segment_aad: segments of different blobs never share associated data.
THEOREM BlobSegmentAadInjective ==
    ASSUME NEW i \in Seq(Octet), NEW j \in Seq(Octet), Usable(i), Usable(j),
           BlobSegmentAad(i) = BlobSegmentAad(j)
    PROVE  i = j
  <1> DEFINE w == BlobSegmentAad(i)
  <1>1. <<>> \in Seq(Octet)
    BY EmptySeq
  <1>2. i = Component(BlobBody(w \o <<>>))
    BY <1>1, BlobDecode
  <1>3. j = Component(BlobBody(w \o <<>>))
    BY <1>1, BlobDecode
  <1> QED BY <1>2, <1>3

\* The header fields are read back from the end of a wrap AAD.
LEMMA WrapDecode ==
    ASSUME NEW i \in Seq(Octet), Usable(i), NEW a \in Octet, NEW p \in Seq(Octet),
           NEW m \in Nat
    PROVE  LET w == BlobBody(BlobWrapAad(i, a, p, m))
           IN  /\ i = Component(w) /\ a = FirstBytes(Rest(w), 1)[1]
               /\ p = FirstBytes(BytesAfter(Rest(w), 1), Len(p))
               /\ ToBeBytes(m) = BytesAfter(BytesAfter(Rest(w), 1), Len(p))
  <1> DEFINE z == ToBeBytes(m)  y == p \o z  x == <<a>> \o y
  <1>1. z \in Seq(Octet)
    BY ToBeBytesInjective
  <1> HIDE DEF z
  <1>2. y \in Seq(Octet) /\ FirstBytes(y, Len(p)) = p /\ BytesAfter(y, Len(p)) = z
    BY <1>1, Concat, Cut
  <1> HIDE DEF y
  <1>3. <<a>> \in Seq(Octet) /\ Len(<<a>>) = 1 /\ <<a>>[1] = a
    OBVIOUS
  <1>4. x \in Seq(Octet) /\ FirstBytes(x, 1) = <<a>> /\ BytesAfter(x, 1) = y
    BY <1>2, <1>3, Concat, Cut
  <1> HIDE DEF x
  <1>5. BlobWrapAad(i, a, p, m) = BlobSegmentAad(i) \o x
    BY DEF BlobWrapAad, x, y, z
  <1>6. /\ i = Component(BlobBody(BlobSegmentAad(i) \o x))
        /\ x = Rest(BlobBody(BlobSegmentAad(i) \o x))
    BY <1>4, BlobDecode
  <1> QED BY <1>2, <1>3, <1>4, <1>5, <1>6 DEF z

\* blob_wrap_aad: the wrap of a data key is bound to the blob and to every
\* header field: version, nonce prefix and chunk size.
THEOREM BlobWrapAadInjective ==
    ASSUME NEW i \in Seq(Octet), NEW j \in Seq(Octet), Usable(i), Usable(j),
           NEW a \in Octet, NEW b \in Octet, NEW p \in Seq(Octet), NEW q \in Seq(Octet),
           NEW m \in Nat, NEW n \in Nat, FitsU32(m), FitsU32(n), Len(p) = Len(q),
           BlobWrapAad(i, a, p, m) = BlobWrapAad(j, b, q, n)
    PROVE  i = j /\ a = b /\ p = q /\ m = n
  <1> DEFINE w == BlobBody(BlobWrapAad(i, a, p, m))
  <1>1. /\ i = Component(w) /\ a = FirstBytes(Rest(w), 1)[1]
        /\ p = FirstBytes(BytesAfter(Rest(w), 1), Len(p))
        /\ ToBeBytes(m) = BytesAfter(BytesAfter(Rest(w), 1), Len(p))
    BY WrapDecode
  <1>2. /\ j = Component(w) /\ b = FirstBytes(Rest(w), 1)[1]
        /\ q = FirstBytes(BytesAfter(Rest(w), 1), Len(q))
        /\ ToBeBytes(n) = BytesAfter(BytesAfter(Rest(w), 1), Len(q))
    BY WrapDecode
  <1> HIDE DEF w
  <1> QED BY <1>1, <1>2, ToBeBytesInjective

\* No blob AAD, of a segment or of a wrap, is also the AAD of a field.
THEOREM BlobFieldAadDisjoint ==
    ASSUME NEW i \in Seq(Octet), NEW u \in Seq(Octet),
           NEW r \in Seq(Octet), NEW f \in Seq(Octet)
    PROVE  BlobSegmentAad(i) \o u # FieldAad(r, f)
  <1>1. PICK k \in 1 .. Len(BLOB_DOMAIN) : k <= Len(FIELD_DOMAIN) /\ BLOB_DOMAIN[k] # FIELD_DOMAIN[k]
    BY DomainAssumption DEF Diverge
  <1> DEFINE x == Prefixed(i) \o u  z == Prefixed(f)  y == Prefixed(r) \o z
  <1>2. /\ BLOB_DOMAIN \in Seq(Octet) /\ FIELD_DOMAIN \in Seq(Octet)
        /\ x \in Seq(Octet) /\ z \in Seq(Octet)
    BY PrefixedDecode, DomainAssumption
  <1>3. BlobSegmentAad(i) \o u = BLOB_DOMAIN \o x
    BY BlobDecode
  <1>4. FieldAad(r, f) = FIELD_DOMAIN \o y
    BY DEF FieldAad
  <1> HIDE DEF x, z
  <1>5. y \in Seq(Octet)
    BY <1>2, PrefixedDecode
  <1> HIDE DEF y
  <1>6. (BLOB_DOMAIN \o x)[k] = BLOB_DOMAIN[k]
    BY <1>2, ConcatProperties, LenProperties
  <1>7. (FIELD_DOMAIN \o y)[k] = FIELD_DOMAIN[k]
    BY <1>1, <1>2, <1>5, ConcatProperties, LenProperties
  <1> QED BY <1>1, <1>3, <1>4, <1>6, <1>7

\* domain_separated: "distinct (domain, message) pairs always sign distinct
\* bytes", for every domain tag under the 255-byte cap.
THEOREM FrameInjective ==
    ASSUME NEW c \in Seq(Octet), NEW d \in Seq(Octet), Len(c) < BASE, Len(d) < BASE,
           NEW m \in Seq(Octet), NEW n \in Seq(Octet), Frame(c, m) = Frame(d, n)
    PROVE  c = d /\ m = n
  <1>1. Len(c) \in Nat /\ Len(d) \in Nat
    BY LenProperties
  <1>2. Len(c) % BASE = Len(c) /\ Len(d) % BASE = Len(d)
    BY <1>1, DigitSplit
  <1>3. Len(c) \in Octet /\ Len(d) \in Octet
    BY <1>1, <1>2, DigitSplit
  <1>4. /\ <<Len(c)>> \in Seq(Octet) /\ Len(<<Len(c)>>) = 1
        /\ <<Len(d)>> \in Seq(Octet) /\ Len(<<Len(d)>>) = 1
    BY <1>3
  <1>5. c \o m \in Seq(Octet) /\ d \o n \in Seq(Octet)
    BY Concat
  <1>6. /\ FirstBytes(Frame(c, m), 1) = <<Len(c)>> /\ BytesAfter(Frame(c, m), 1) = c \o m
    BY <1>2, <1>4, <1>5, Cut DEF Frame
  <1>7. /\ FirstBytes(Frame(d, n), 1) = <<Len(d)>> /\ BytesAfter(Frame(d, n), 1) = d \o n
    BY <1>2, <1>4, <1>5, Cut DEF Frame
  <1>8. <<Len(c)>> = <<Len(d)>> /\ c \o m = d \o n
    BY <1>6, <1>7
  <1>9. Len(c) = Len(d)
    BY <1>8
  <1>10. /\ FirstBytes(c \o m, Len(c)) = c /\ BytesAfter(c \o m, Len(c)) = m
         /\ FirstBytes(d \o n, Len(d)) = d /\ BytesAfter(d \o n, Len(d)) = n
    BY Cut
  <1> QED BY <1>8, <1>9, <1>10
=============================================================================
