-------------------------- MODULE BlobCodecProofs --------------------------
(***************************************************************************)
(* What the operators of BlobCodec compute, for every input: a framed blob *)
(* falls apart into the segments it was made of, and the in-memory decoder *)
(* accepts exactly the framed blobs.                                       *)
(***************************************************************************)
EXTENDS BlobCodec, AadProofs, WellFoundedInduction

----------------------------------------------------------------------------
(* Induction                                                               *)

\* A set of numbers that holds 0 and the successor of each of its members
\* holds every number.
LEMMA Counting ==
    ASSUME NEW S, 0 \in S, \A n \in Nat : n \in S => n + 1 \in S
    PROVE  \A n \in Nat : n \in S
  <1> DEFINE T == Nat \ S  R == OpToRel(<, Nat)
  <1> SUFFICES ASSUME T # {} PROVE FALSE OBVIOUS
  <1>1. IsWellFoundedOn(R, Nat) BY NatLessThanWellFounded, Zenon
  <1>2. \A x, y \in Nat : y < x => <<y, x>> \in R BY DEF OpToRel
  <1>3. T \subseteq Nat OBVIOUS
  <1>4. PICK x \in T : \A y \in T : ~ (<<y, x>> \in R)
    <2> HIDE DEF T, R
    <2> QED BY <1>1, <1>3, WFMin
  <1> HIDE DEF R
  <1>5. x # 0 /\ x - 1 \in Nat /\ x - 1 < x /\ x \in Nat OBVIOUS
  <1>6. x - 1 \in S BY <1>2, <1>4, <1>5
  <1>7. (x - 1) + 1 \in S BY <1>5, <1>6
  <1> QED BY <1>5, <1>7

----------------------------------------------------------------------------
(* Sequences                                                               *)

\* A slice of a sequence: its type, length and elements.
LEMMA Slice ==
    ASSUME NEW S, NEW x \in Seq(S), NEW p \in Nat, NEW q \in Nat, p <= q, q <= Len(x)
    PROVE  /\ SubSeq(x, p + 1, q) \in Seq(S)
           /\ Len(SubSeq(x, p + 1, q)) = q - p
           /\ \A j \in 1 .. q - p : SubSeq(x, p + 1, q)[j] = x[p + j]
  <1>1. Len(x) \in Nat /\ \A j \in 1 .. Len(x) : x[j] \in S OBVIOUS
  <1>2. \A j \in p + 1 .. q : x[j] \in S BY <1>1
  <1> DEFINE u == SubSeq(x, p + 1, q)
  <1>3. /\ u \in Seq(S) /\ Len(u) = IF p + 1 <= q THEN q - (p + 1) + 1 ELSE 0
        /\ \A j \in 1 .. q - (p + 1) + 1 : u[j] = x[(p + 1) + j - 1]
    BY <1>2, SubSeqProperties
  <1> HIDE DEF u
  <1>4. Len(u) = q - p BY <1>3
  <1>5. ASSUME NEW j \in 1 .. q - p PROVE u[j] = x[p + j]
    <2>1. j \in 1 .. q - (p + 1) + 1 /\ (p + 1) + j - 1 = p + j OBVIOUS
    <2> QED BY <1>3, <2>1
  <1> QED BY <1>3, <1>4, <1>5 DEF u

\* A slice of a concatenation that stays inside its first part.
LEMMA SliceHead ==
    ASSUME NEW S, NEW x \in Seq(S), NEW y \in Seq(S), NEW p \in Nat, NEW q \in Nat,
           p <= q, q <= Len(x)
    PROVE  SubSeq(x \o y, p + 1, q) = SubSeq(x, p + 1, q)
  <1> DEFINE z == x \o y
  <1>1. /\ z \in Seq(S) /\ Len(z) = Len(x) + Len(y) /\ Len(x) \in Nat /\ Len(y) \in Nat
        /\ \A i \in 1 .. Len(x) + Len(y) : z[i] = IF i <= Len(x) THEN x[i] ELSE y[i - Len(x)]
    BY ConcatProperties, LenProperties
  <1> HIDE DEF z
  <1>2. /\ SubSeq(z, p + 1, q) \in Seq(S) /\ Len(SubSeq(z, p + 1, q)) = q - p
        /\ \A j \in 1 .. q - p : SubSeq(z, p + 1, q)[j] = z[p + j]
    BY <1>1, Slice
  <1>3. /\ SubSeq(x, p + 1, q) \in Seq(S) /\ Len(SubSeq(x, p + 1, q)) = q - p
        /\ \A j \in 1 .. q - p : SubSeq(x, p + 1, q)[j] = x[p + j]
    BY <1>1, Slice
  <1>4. \A j \in 1 .. q - p : z[p + j] = x[p + j] BY <1>1
  <1> DEFINE u == SubSeq(z, p + 1, q)  v == SubSeq(x, p + 1, q)
  <1> HIDE DEF u, v
  <1>5. u = v BY <1>2, <1>3, <1>4, SeqEqual DEF u, v
  <1> QED BY <1>5 DEF u, v, z

\* The slice of a concatenation that is its second part.
LEMMA SliceTail ==
    ASSUME NEW S, NEW x \in Seq(S), NEW y \in Seq(S), NEW q \in Nat, q = Len(x) + Len(y)
    PROVE  SubSeq(x \o y, Len(x) + 1, q) = y
  <1> DEFINE z == x \o y  n == Len(x)
  <1>1. /\ z \in Seq(S) /\ Len(z) = Len(x) + Len(y) /\ n \in Nat /\ Len(y) \in Nat
        /\ \A i \in 1 .. Len(x) + Len(y) : z[i] = IF i <= Len(x) THEN x[i] ELSE y[i - Len(x)]
    BY ConcatProperties, LenProperties
  <1>2. \A j \in 1 .. Len(y) : z[n + j] = y[j]
    <2> TAKE j \in 1 .. Len(y)
    <2>1. n + j \in 1 .. Len(x) + Len(y) /\ ~(n + j <= n) /\ (n + j) - n = j BY <1>1
    <2> HIDE DEF z
    <2> QED BY <1>1, <2>1
  <1> HIDE DEF z, n
  <1>3. n <= q /\ q <= Len(z) /\ q - n = Len(y) BY <1>1 DEF n
  <1> DEFINE u == SubSeq(z, n + 1, q)
  <1>4. u \in Seq(S) /\ Len(u) = q - n /\ \A j \in 1 .. q - n : u[j] = z[n + j]
    BY <1>1, <1>3, Slice
  <1> HIDE DEF u
  <1>5. u = y BY <1>2, <1>3, <1>4, SeqEqual
  <1> QED BY <1>5 DEF u, z, n

\* Two adjacent slices make the slice of both.
LEMMA SliceJoin ==
    ASSUME NEW S, NEW x \in Seq(S), NEW p \in Nat, NEW q \in Nat, NEW r \in Nat,
           p <= q, q <= r, r <= Len(x)
    PROVE  SubSeq(x, p + 1, q) \o SubSeq(x, q + 1, r) = SubSeq(x, p + 1, r)
  <1>1. Len(x) \in Nat /\ p + 1 \in 1 .. Len(x) + 1 /\ q \in (p + 1) - 1 .. Len(x) /\ r \in q .. Len(x)
    OBVIOUS
  <1> QED BY <1>1, ConcatAdjacentSubSeq

----------------------------------------------------------------------------
(* FlattenSeq                                                              *)

\* The recursive function inside FlattenSeq exists and accumulates.
LEMMA FlattenParts ==
    ASSUME NEW S, NEW s \in Seq(Seq(S)), s # <<>>
    PROVE  \E g \in [1 .. Len(s) -> Seq(S)] :
             /\ g[1] = s[1]
             /\ \A i \in 2 .. Len(s) : g[i] = g[i - 1] \o s[i]
             /\ FlattenSeq(s) = g[Len(s)]
  <1> DEFINE D(n, g) == [i \in 1 .. n |-> IF i = 1 THEN s[i] ELSE g[i - 1] \o s[i]]
  <1>1. Len(s) \in Nat /\ Len(s) # 0 /\ \A i \in 1 .. Len(s) : s[i] \in Seq(S) OBVIOUS
  <1>2. \A n \in Nat : \E g : g = D(n, g)
    <2> DEFINE T == {n \in Nat : \E g : g = D(n, g)}
    <2>1. 0 \in T
      <3> DEFINE e == [i \in 1 .. 0 |-> 0]
      <3>1. e = D(0, e) OBVIOUS
      <3> QED BY <3>1
    <2>2. ASSUME NEW n \in Nat, n \in T PROVE n + 1 \in T
      <3>1. PICK g : g = D(n, g) BY <2>2
      <3> DEFINE h == [i \in 1 .. n + 1 |-> IF i = 1 THEN s[i] ELSE g[i - 1] \o s[i]]
      <3>2. ASSUME NEW i \in 1 .. n PROVE h[i] = g[i]
        <4>1. g[i] = IF i = 1 THEN s[i] ELSE g[i - 1] \o s[i] BY <3>1
        <4> QED BY <4>1
      <3>3. ASSUME NEW i \in 1 .. n + 1 PROVE h[i] = IF i = 1 THEN s[i] ELSE h[i - 1] \o s[i]
        <4>1. CASE i = 1 BY <4>1
        <4>2. CASE i # 1
          <5>1. i - 1 \in 1 .. n BY <4>2
          <5>2. h[i - 1] = g[i - 1] BY <3>2, <5>1
          <5>3. h[i] = g[i - 1] \o s[i] BY <4>2
          <5> QED BY <4>2, <5>2, <5>3
        <4> QED BY <4>1, <4>2
      <3>4. DOMAIN h = 1 .. n + 1 /\ h = [i \in 1 .. n + 1 |-> h[i]] OBVIOUS
      <3> HIDE DEF h
      <3>5. h = D(n + 1, h) BY <3>3, <3>4
      <3>6. \E g1 : g1 = D(n + 1, g1) BY <3>5, Zenon
      <3> HIDE DEF D
      <3> QED BY <3>6
    <2> HIDE DEF T
    <2>3. \A n \in Nat : n \in T BY <2>1, <2>2, Counting
    <2> QED BY <2>3 DEF T
  <1> DEFINE f == CHOOSE g : g = D(Len(s), g)
  <1>3. f = D(Len(s), f) BY <1>1, <1>2
  <1>4. FlattenSeq(s) = f[Len(s)] BY <1>1 DEF FlattenSeq
  <1> HIDE DEF f
  <1>5. f[1] = s[1] /\ \A i \in 2 .. Len(s) : f[i] = f[i - 1] \o s[i]
    <2>1. \A i \in 1 .. Len(s) : D(Len(s), f)[i] = IF i = 1 THEN s[i] ELSE f[i - 1] \o s[i]
      OBVIOUS
    <2> HIDE DEF D
    <2>2. \A i \in 1 .. Len(s) : f[i] = IF i = 1 THEN s[i] ELSE f[i - 1] \o s[i]
      BY <1>3, <2>1
    <2>3. \A i \in 2 .. Len(s) : i \in 1 .. Len(s) /\ i # 1 BY <1>1
    <2>4. 1 \in 1 .. Len(s) BY <1>1
    <2> QED BY <2>2, <2>3, <2>4, Zenon
  <1>6. \A i \in 1 .. Len(s) : f[i] \in Seq(S)
    <2> DEFINE T == {n \in Nat : n + 1 \in 1 .. Len(s) => f[n + 1] \in Seq(S)}
    <2>1. 0 \in T BY <1>1, <1>5
    <2>2. ASSUME NEW n \in Nat, n \in T PROVE n + 1 \in T
      <3> SUFFICES ASSUME n + 2 \in 1 .. Len(s) PROVE f[n + 2] \in Seq(S) OBVIOUS
      <3>1. f[n + 1] \in Seq(S) BY <1>1, <2>2
      <3>2. f[n + 2] = f[n + 1] \o s[n + 2]
        <4>1. n + 2 \in 2 .. Len(s) /\ (n + 2) - 1 = n + 1 BY <1>1
        <4> QED BY <1>5, <4>1
      <3>3. s[n + 2] \in Seq(S) BY <1>1
      <3> QED BY <3>1, <3>2, <3>3
    <2> HIDE DEF T
    <2>3. \A n \in Nat : n \in T BY <2>1, <2>2, Counting
    <2>4. ASSUME NEW i \in 1 .. Len(s) PROVE f[i] \in Seq(S)
      <3>1. i - 1 \in Nat /\ (i - 1) + 1 = i BY <1>1
      <3>2. i - 1 \in T BY <2>3, <3>1
      <3> QED BY <3>1, <3>2 DEF T
    <2> QED BY <2>4
  <1>7. f \in [1 .. Len(s) -> Seq(S)] BY <1>3, <1>6
  <1> QED BY <1>4, <1>5, <1>7

\* A function that accumulates the parts ends with the flattened sequence.
LEMMA FlattenIs ==
    ASSUME NEW S, NEW s \in Seq(Seq(S)), NEW a, a[0] = <<>>,
           \A i \in 1 .. Len(s) : a[i] = a[i - 1] \o s[i]
    PROVE  FlattenSeq(s) = a[Len(s)] /\ FlattenSeq(s) \in Seq(S)
  <1>1. Len(s) \in Nat /\ \A i \in 1 .. Len(s) : s[i] \in Seq(S) OBVIOUS
  <1>2. CASE s = <<>>
    <2>1. Len(s) = 0 BY <1>2, EmptySeq
    <2>2. FlattenSeq(s) = s BY <2>1 DEF FlattenSeq
    <2> QED BY <1>2, <2>1, <2>2, EmptySeq
  <1>3. CASE s # <<>>
    <2>1. PICK g \in [1 .. Len(s) -> Seq(S)] :
             /\ g[1] = s[1]
             /\ \A i \in 2 .. Len(s) : g[i] = g[i - 1] \o s[i]
             /\ FlattenSeq(s) = g[Len(s)]
      BY <1>3, FlattenParts
    <2>2. Len(s) # 0 BY <1>3
    <2> DEFINE T == {n \in Nat : n + 1 \in 1 .. Len(s) => g[n + 1] = a[n + 1]}
    <2>3. 0 \in T
      <3>0. 1 \in 1 .. Len(s) /\ 1 - 1 = 0 BY <1>1, <2>2
      <3>1. a[1] = a[0] \o s[1] /\ s[1] \in Seq(S) BY <1>1, <3>0
      <3>2. <<>> \o s[1] = s[1] BY <3>1, ConcatEmptySeq
      <3>3. g[0 + 1] = a[0 + 1] BY <2>1, <3>1, <3>2
      <3> QED BY <3>3
    <2>4. ASSUME NEW n \in Nat, n \in T PROVE n + 1 \in T
      <3> SUFFICES ASSUME n + 2 \in 1 .. Len(s) PROVE g[n + 2] = a[n + 2] OBVIOUS
      <3>1. n + 2 \in 2 .. Len(s) /\ (n + 2) - 1 = n + 1 /\ n + 1 \in 1 .. Len(s) BY <1>1
      <3>2. g[n + 1] = a[n + 1] BY <2>4, <3>1
      <3>3. g[n + 2] = g[n + 1] \o s[n + 2] BY <2>1, <3>1
      <3>4. a[n + 2] = a[n + 1] \o s[n + 2] BY <3>1
      <3> QED BY <3>2, <3>3, <3>4
    <2> HIDE DEF T
    <2>5. \A n \in Nat : n \in T BY <2>3, <2>4, Counting
    <2>6. Len(s) - 1 \in Nat /\ (Len(s) - 1) + 1 = Len(s) BY <1>1, <2>2
    <2>7. g[Len(s)] = a[Len(s)]
      <3>1. Len(s) - 1 \in T BY <2>5, <2>6
      <3> QED BY <1>1, <2>2, <2>6, <3>1 DEF T
    <2>8. g[Len(s)] \in Seq(S) BY <1>1, <2>2
    <2> QED BY <2>1, <2>7, <2>8
  <1> QED BY <1>2, <1>3

\* The parts of a flattened sequence, from the empty one to the whole.
LEMMA FlattenPrefixes ==
    ASSUME NEW S, NEW s \in Seq(Seq(S))
    PROVE  \E a \in [0 .. Len(s) -> Seq(S)] :
             /\ a[0] = <<>>
             /\ \A i \in 1 .. Len(s) : a[i] = a[i - 1] \o s[i]
             /\ FlattenSeq(s) = a[Len(s)]
  <1>1. Len(s) \in Nat /\ \A i \in 1 .. Len(s) : s[i] \in Seq(S) OBVIOUS
  <1>2. CASE s = <<>>
    <2> DEFINE a == [i \in 0 .. 0 |-> <<>>]
    <2>1. a \in [0 .. 0 -> Seq(S)] /\ a[0] = <<>> OBVIOUS
    <2>2. FlattenSeq(s) = <<>> /\ Len(s) = 0 BY <1>2 DEF FlattenSeq
    <2> HIDE DEF a
    <2> QED BY <2>1, <2>2
  <1>3. CASE s # <<>>
    <2>1. PICK g \in [1 .. Len(s) -> Seq(S)] :
             /\ g[1] = s[1]
             /\ \A i \in 2 .. Len(s) : g[i] = g[i - 1] \o s[i]
             /\ FlattenSeq(s) = g[Len(s)]
      BY <1>3, FlattenParts
    <2>2. Len(s) # 0 BY <1>3
    <2> DEFINE a == [i \in 0 .. Len(s) |-> IF i = 0 THEN <<>> ELSE g[i]]
    <2>3. a \in [0 .. Len(s) -> Seq(S)] /\ a[0] = <<>>
      BY <1>1
    <2>4. \A i \in 1 .. Len(s) : a[i] = g[i] BY <1>1
    <2> HIDE DEF a
    <2>5. ASSUME NEW i \in 1 .. Len(s) PROVE a[i] = a[i - 1] \o s[i]
      <3>1. CASE i = 1
        <4>1. s[1] \in Seq(S) /\ a[1] = s[1] BY <1>1, <2>1, <2>4, <3>1
        <4>2. <<>> \o s[1] = s[1] BY <4>1, ConcatEmptySeq
        <4>3. i - 1 = 0 BY <3>1
        <4> QED BY <2>3, <3>1, <4>1, <4>2, <4>3
      <3>2. CASE i # 1
        <4>1. i \in 2 .. Len(s) /\ i - 1 \in 1 .. Len(s) BY <1>1, <3>2
        <4>2. a[i - 1] = g[i - 1] BY <2>4, <4>1
        <4> QED BY <2>1, <2>4, <4>1, <4>2
      <3> QED BY <3>1, <3>2
    <2>6. FlattenSeq(s) = a[Len(s)] BY <1>1, <2>1, <2>2, <2>4
    <2> QED BY <2>3, <2>5, <2>6
  <1> QED BY <1>2, <1>3

\* A flattened sequence grows by what is appended.
LEMMA FlattenAppend ==
    ASSUME NEW S, NEW s \in Seq(Seq(S)), NEW e \in Seq(S)
    PROVE  /\ FlattenSeq(s) \in Seq(S) /\ FlattenSeq(<<>>) = <<>>
           /\ FlattenSeq(Append(s, e)) = FlattenSeq(s) \o e
  <1>1. PICK a \in [0 .. Len(s) -> Seq(S)] :
             /\ a[0] = <<>>
             /\ \A i \in 1 .. Len(s) : a[i] = a[i - 1] \o s[i]
             /\ FlattenSeq(s) = a[Len(s)]
    BY FlattenPrefixes
  <1> DEFINE t == Append(s, e)
  <1>2. /\ t \in Seq(Seq(S)) /\ Len(s) \in Nat /\ Len(t) = Len(s) + 1 /\ t[Len(s) + 1] = e
        /\ \A i \in 1 .. Len(s) : t[i] = s[i]
    BY AppendProperties
  <1> DEFINE b == [i \in 0 .. Len(s) + 1 |-> IF i = Len(s) + 1 THEN a[Len(s)] \o e ELSE a[i]]
  <1>3. b[0] = <<>> /\ b[Len(s) + 1] = a[Len(s)] \o e /\ \A i \in 0 .. Len(s) : b[i] = a[i]
    BY <1>1, <1>2
  <1> HIDE DEF b, t
  <1>4. ASSUME NEW i \in 1 .. Len(t) PROVE b[i] = b[i - 1] \o t[i]
    <2>1. CASE i = Len(s) + 1
      <3>1. i - 1 = Len(s) /\ Len(s) \in 0 .. Len(s) BY <1>2, <2>1
      <3> QED BY <1>2, <1>3, <2>1, <3>1
    <2>2. CASE i # Len(s) + 1
      <3>1. i \in 1 .. Len(s) /\ i \in 0 .. Len(s) /\ i - 1 \in 0 .. Len(s) BY <1>2, <2>2
      <3>2. b[i] = a[i] /\ b[i - 1] = a[i - 1] /\ t[i] = s[i] BY <1>2, <1>3, <3>1
      <3> QED BY <1>1, <3>1, <3>2
    <2> QED BY <2>1, <2>2
  <1>5. FlattenSeq(t) = b[Len(t)] BY <1>2, <1>3, <1>4, FlattenIs
  <1>6. FlattenSeq(<<>>) = <<>> BY DEF FlattenSeq
  <1>7. FlattenSeq(s) \in Seq(S) BY <1>1, <1>2
  <1> QED BY <1>1, <1>2, <1>3, <1>5, <1>6, <1>7 DEF t

\* The i-th part lies in the flattened sequence where it was put.
LEMMA FlattenPick ==
    ASSUME NEW S, NEW s \in Seq(Seq(S)), NEW a \in [0 .. Len(s) -> Seq(S)],
           \A i \in 1 .. Len(s) : a[i] = a[i - 1] \o s[i], NEW i \in 1 .. Len(s)
    PROVE  /\ Len(a[i - 1]) + Len(s[i]) = Len(a[i]) /\ Len(a[i]) <= Len(a[Len(s)])
           /\ SubSeq(a[Len(s)], Len(a[i - 1]) + 1, Len(a[i])) = s[i]
  <1> DEFINE x == a[i - 1]  e == s[i]  p == Len(x)  q == Len(a[i])
  <1>0. Len(s) \in Nat /\ i \in Nat /\ i - 1 \in 0 .. Len(s) /\ i \in 0 .. Len(s) OBVIOUS
  <1>1. e \in Seq(S) /\ x \in Seq(S) /\ a[i] = x \o e
    <2>1. s[i] \in Seq(S) BY ElementOfSeq
    <2>2. a[i - 1] \in Seq(S) BY <1>0, Zenon
    <2>3. a[i] = a[i - 1] \o s[i] BY Zenon
    <2> QED BY <2>1, <2>2, <2>3
  <1>2. p \in Nat /\ q \in Nat /\ q = p + Len(e) /\ Len(e) \in Nat
    <2> HIDE DEF x, e
    <2> QED BY <1>1, ConcatProperties, LenProperties
  <1> DEFINE T == {n \in Nat : i + n <= Len(s) =>
                     q <= Len(a[i + n]) /\ SubSeq(a[i + n], p + 1, q) = e}
  <1>3. 0 \in T
    <2> HIDE DEF x, e
    <2>1. SubSeq(x \o e, p + 1, q) = e BY <1>1, <1>2, SliceTail
    <2>2. i + 0 = i BY <1>0
    <2>3. SubSeq(a[i], p + 1, q) = e BY <1>1, <2>1
    <2> HIDE DEF p
    <2> QED BY <1>2, <2>2, <2>3
  <1>4. ASSUME NEW n \in Nat, n \in T PROVE n + 1 \in T
    <2> SUFFICES ASSUME i + (n + 1) <= Len(s)
                 PROVE  q <= Len(a[i + (n + 1)]) /\ SubSeq(a[i + (n + 1)], p + 1, q) = e
      <3> HIDE DEF p, q, x, e
      <3> QED OBVIOUS
    <2> DEFINE m == i + n  y == a[m]  d == s[m + 1]
    <2>1. m \in Nat /\ i + (n + 1) = m + 1 /\ m + 1 \in 1 .. Len(s) /\ m \in 0 .. Len(s) /\ (m + 1) - 1 = m
      BY <1>0
    <2>2. q <= Len(y) /\ SubSeq(y, p + 1, q) = e
      <3> HIDE DEF x, e, p, q
      <3> QED BY <1>0, <1>4, <2>1
    <2>3. a[m + 1] = y \o d /\ y \in Seq(S) /\ d \in Seq(S)
      <3> HIDE DEF m
      <3>1. a[m + 1] = a[(m + 1) - 1] \o s[m + 1] BY <2>1
      <3>2. s[m + 1] \in Seq(S) BY <2>1, ElementOfSeq
      <3>3. a[m] \in Seq(S) BY <2>1, Zenon
      <3> QED BY <2>1, <3>1, <3>2, <3>3
    <2> HIDE DEF m, p, q, x, e, y, d
    <2>4. q <= Len(y \o d) BY <1>2, <2>2, <2>3, ConcatProperties, LenProperties
    <2>5. SubSeq(y \o d, p + 1, q) = SubSeq(y, p + 1, q) BY <1>2, <2>2, <2>3, SliceHead
    <2> QED BY <2>1, <2>2, <2>3, <2>4, <2>5
  <1> HIDE DEF T
  <1>5. \A n \in Nat : n \in T BY <1>3, <1>4, Counting
  <1>6. Len(s) - i \in T /\ i + (Len(s) - i) = Len(s) BY <1>0, <1>5
  <1> HIDE DEF p, q, x, e
  <1>7. q <= Len(a[Len(s)]) /\ SubSeq(a[Len(s)], p + 1, q) = e BY <1>0, <1>6 DEF T
  <1>8. p + Len(e) = q BY <1>2
  <1> QED BY <1>7, <1>8 DEF p, q, x, e

----------------------------------------------------------------------------
(* Pieces of a body                                                        *)

\* The quotient, and that only it fits; stated apart because it is not linear.
LEMMA Division ==
    ASSUME NEW n \in Nat, NEW m \in Nat \ {0}
    PROVE  /\ n \div m \in Nat /\ (n \div m) * m <= n /\ n < (n \div m) * m + m
           /\ \A q \in Int : (q * m <= n /\ n < q * m + m) => q = n \div m
  OBVIOUS

\* Multiples grow with their factor, for the same reason.
LEMMA Multiples ==
    ASSUME NEW m \in Nat, NEW i \in Int, NEW j \in Int
    PROVE  /\ i * m \in Int /\ (i + 1) * m = i * m + m /\ (i - 1) * m = i * m - m
           /\ i <= j => i * m <= j * m
           /\ 0 <= i => 0 <= i * m
           /\ 0 * m = 0
  OBVIOUS

\* Bytes of a full segment.
PieceLen == CHUNK_SIZE + TAG_LEN

\* Where piece i of n ends in a body of length len.
PieceEnd(len, n, i) == IF i = n THEN len ELSE i * PieceLen

\* What Pieces makes of a body: how many pieces, where each of them lies, and
\* that they are full but for the last one, which is not empty.
LEMMA PiecesAre ==
    ASSUME NEW S, NEW body \in Seq(S)
    PROVE  LET ps == Pieces(body)  n == Len(ps)  len == Len(body)
           IN  /\ ps \in Seq(Seq(S)) /\ n \in Nat /\ len \in Nat
               /\ n = 0 => body = <<>>
               /\ n # 0 => (n - 1) * PieceLen < len /\ len <= n * PieceLen
               /\ \A i \in 1 .. n :
                    /\ (i - 1) * PieceLen \in Nat /\ PieceEnd(len, n, i) \in Nat
                    /\ (i - 1) * PieceLen < PieceEnd(len, n, i) /\ PieceEnd(len, n, i) <= len
                    /\ i = n \/ i * PieceLen < len
                    /\ ps[i] = SubSeq(body, (i - 1) * PieceLen + 1, PieceEnd(len, n, i))
                    /\ Len(ps[i]) = PieceEnd(len, n, i) - (i - 1) * PieceLen
  <1> DEFINE len == Len(body)  n == (len + PieceLen - 1) \div PieceLen
             lo(i) == (i - 1) * PieceLen  hi(i) == PieceEnd(len, n, i)
             pss == [i \in 1 .. n |-> SubSeq(body, lo(i) + 1, hi(i))]
  <1>1. PieceLen \in Nat \ {0} /\ len \in Nat BY ChunkAssumption, TagAssumption, LenProperties DEF PieceLen
  <1>2. len + PieceLen - 1 \in Nat BY <1>1
  <1>3. n \in Nat /\ n * PieceLen <= len + PieceLen - 1 /\ len + PieceLen - 1 < n * PieceLen + PieceLen
    BY <1>1, <1>2, Division
  <1>4. Pieces(body) = pss BY DEF Pieces, PieceLen, PieceEnd
  <1> HIDE DEF n, len
  <1>5. n * PieceLen \in Nat /\ len <= n * PieceLen /\ n * PieceLen < len + PieceLen
        /\ (n - 1) * PieceLen = n * PieceLen - PieceLen /\ 0 * PieceLen = 0
    BY <1>1, <1>3, Multiples
  <1>6. n = 0 => body = <<>>
    <2> SUFFICES ASSUME n = 0 PROVE body = <<>> OBVIOUS
    <2>1. len = 0 BY <1>1, <1>5
    <2> QED BY <2>1, EmptySeq DEF len
  <1>7. (n - 1) * PieceLen < len BY <1>1, <1>5
  <1>8. ASSUME NEW i \in 1 .. n
        PROVE  /\ lo(i) \in Nat /\ hi(i) \in Nat /\ lo(i) < hi(i) /\ hi(i) <= len
               /\ i = n \/ i * PieceLen < len
    <2>1. i \in Int /\ n \in Int /\ 0 <= i - 1 /\ i - 1 \in Int /\ n - 1 \in Int BY <1>3
    <2>2. lo(i) \in Int /\ 0 <= lo(i) /\ lo(i) = i * PieceLen - PieceLen /\ i * PieceLen \in Int
      BY <1>1, <2>1, Multiples
    <2>3. CASE i = n BY <1>1, <1>7, <2>2, <2>3 DEF PieceEnd
    <2>4. CASE i # n
      <3>1. i <= n - 1 BY <2>1, <2>4
      <3>2. i * PieceLen <= (n - 1) * PieceLen BY <1>1, <2>1, <3>1, Multiples
      <3> QED BY <1>1, <1>5, <1>7, <2>2, <2>4, <3>2 DEF PieceEnd
    <2> QED BY <2>3, <2>4
  <1> HIDE DEF lo, hi
  <1>9. ASSUME NEW i \in 1 .. n
        PROVE  /\ SubSeq(body, lo(i) + 1, hi(i)) \in Seq(S)
               /\ Len(SubSeq(body, lo(i) + 1, hi(i))) = hi(i) - lo(i)
    BY <1>8, Slice DEF len
  <1>10. /\ pss \in Seq(Seq(S)) /\ Len(pss) = n
         /\ \A i \in 1 .. n : pss[i] = SubSeq(body, lo(i) + 1, hi(i))
    <2>1. pss \in [1 .. n -> Seq(S)] BY <1>9
    <2> HIDE DEF pss
    <2>2. pss \in Seq(Seq(S)) BY <1>3, <2>1, SeqDef
    <2>3. Len(pss) = n
      <3>1. DOMAIN pss = 1 .. n BY <2>1
      <3>2. DOMAIN pss = 1 .. Len(pss) /\ Len(pss) \in Nat BY <2>2, LenProperties
      <3> QED BY <1>3, <3>1, <3>2
    <2> QED BY <2>2, <2>3 DEF pss
  <1> HIDE DEF pss
  <1>11. Len(Pieces(body)) = n /\ Pieces(body) \in Seq(Seq(S)) BY <1>4, <1>10
  <1>12. ASSUME NEW i \in 1 .. n
         PROVE  /\ lo(i) \in Nat /\ hi(i) \in Nat
                /\ lo(i) < hi(i) /\ hi(i) <= len
                /\ i = n \/ i * PieceLen < len
                /\ Pieces(body)[i] = SubSeq(body, lo(i) + 1, hi(i))
                /\ Len(Pieces(body)[i]) = hi(i) - lo(i)
    BY <1>4, <1>8, <1>9, <1>10
  <1> QED BY <1>1, <1>3, <1>5, <1>6, <1>7, <1>11, <1>12 DEF lo, hi, len

\* Put together again, the pieces are the body.
LEMMA FlattenPieces ==
    ASSUME NEW S, NEW body \in Seq(S)
    PROVE  FlattenSeq(Pieces(body)) = body
  <1> DEFINE ps == Pieces(body)  n == Len(ps)  len == Len(body)
             end(i) == IF i = 0 THEN 0 ELSE PieceEnd(len, n, i)
             a == [i \in 0 .. n |-> SubSeq(body, 1, end(i))]
  <1>1. /\ ps \in Seq(Seq(S)) /\ n \in Nat /\ len \in Nat
        /\ n = 0 => body = <<>>
        /\ \A i \in 1 .. n :
             /\ (i - 1) * PieceLen \in Nat /\ PieceEnd(len, n, i) \in Nat
             /\ (i - 1) * PieceLen < PieceEnd(len, n, i) /\ PieceEnd(len, n, i) <= len
             /\ ps[i] = SubSeq(body, (i - 1) * PieceLen + 1, PieceEnd(len, n, i))
    BY PiecesAre
  <1> HIDE DEF ps
  <1>2. a[0] = <<>>
    <2>1. SubSeq(body, 1, 0) = <<>> BY SubSeqEmpty
    <2> QED BY <1>1, <2>1
  <1>3. ASSUME NEW i \in 1 .. n PROVE a[i] = a[i - 1] \o ps[i]
    <2>1. i \in 0 .. n /\ i - 1 \in 0 .. n /\ i # 0 BY <1>1
    <2>2. end(i - 1) = (i - 1) * PieceLen
      <3>1. CASE i = 1
        <4>1. i - 1 = 0 /\ PieceLen \in Nat BY <3>1, ChunkAssumption, TagAssumption DEF PieceLen
        <4>2. 0 * PieceLen = 0 BY <4>1, Multiples
        <4> QED BY <4>1, <4>2
      <3>2. CASE i # 1
        <4>1. i - 1 # 0 /\ i - 1 # n BY <1>1, <3>2
        <4> QED BY <4>1 DEF PieceEnd
      <3> QED BY <3>1, <3>2
    <2> DEFINE p == end(i - 1)  q == end(i)
    <2>3. p \in Nat /\ q \in Nat /\ p <= q /\ q <= len BY <1>1, <2>1, <2>2
    <2>4. ps[i] = SubSeq(body, p + 1, q) BY <1>1, <2>1, <2>2
    <2>5. a[i] = SubSeq(body, 1, q) /\ a[i - 1] = SubSeq(body, 1, p) BY <2>1
    <2> HIDE DEF p, q, a
    <2>6. SubSeq(body, 0 + 1, p) \o SubSeq(body, p + 1, q) = SubSeq(body, 0 + 1, q)
      BY <2>3, SliceJoin
    <2>7. 0 + 1 = 1 OBVIOUS
    <2> QED BY <2>4, <2>5, <2>6, <2>7
  <1>4. a[n] = body
    <2>1. CASE n = 0 BY <1>1, <1>2, <2>1
    <2>2. CASE n # 0
      <3>1. n \in 0 .. n /\ end(n) = len BY <1>1, <2>2 DEF PieceEnd
      <3>2. SubSeq(body, 1, len) = body BY SubSeqFull
      <3>3. a[n] = SubSeq(body, 1, end(n)) BY <3>1
      <3> QED BY <3>1, <3>2, <3>3
    <2> QED BY <2>1, <2>2
  <1> HIDE DEF a
  <1>5. FlattenSeq(ps) = a[n] BY <1>1, <1>2, <1>3, FlattenIs
  <1> QED BY <1>4, <1>5 DEF ps

\* Parts that are full but for the last one, which is not empty, are the
\* pieces of what they make up.
LEMMA PiecesOf ==
    ASSUME NEW S, NEW s \in Seq(Seq(S)), s # <<>>,
           \A i \in 1 .. Len(s) : i # Len(s) => Len(s[i]) = PieceLen,
           Len(s[Len(s)]) > 0, Len(s[Len(s)]) <= PieceLen
    PROVE  Pieces(FlattenSeq(s)) = s
  <1> DEFINE body == FlattenSeq(s)  len == Len(body)  n == Len(s)
  <1>1. PICK a \in [0 .. n -> Seq(S)] :
             /\ a[0] = <<>>
             /\ \A i \in 1 .. n : a[i] = a[i - 1] \o s[i]
             /\ body = a[n]
    BY FlattenPrefixes
  <1>2. n \in Nat /\ n # 0 /\ PieceLen \in Nat \ {0}
    BY EmptySeq, ChunkAssumption, TagAssumption DEF PieceLen
  <1>3. body \in Seq(S) /\ len \in Nat
    <2>1. n \in 0 .. n BY <1>2
    <2>2. a[n] \in Seq(S) BY <2>1, Zenon
    <2> HIDE DEF body
    <2> QED BY <1>1, <2>2, LenProperties
  <1>4. ASSUME NEW i \in 1 .. n
        PROVE  /\ s[i] \in Seq(S) /\ Len(s[i]) \in Nat /\ a[i - 1] \in Seq(S) /\ a[i] \in Seq(S)
               /\ Len(a[i - 1]) \in Nat /\ Len(a[i]) \in Nat
               /\ Len(a[i - 1]) + Len(s[i]) = Len(a[i])
               /\ SubSeq(body, Len(a[i - 1]) + 1, Len(a[i])) = s[i]
    <2>1. i \in 0 .. n /\ i - 1 \in 0 .. n BY <1>2
    <2>2. s[i] \in Seq(S) BY ElementOfSeq
    <2>3. a[i - 1] \in Seq(S) /\ a[i] \in Seq(S) BY <2>1, Zenon
    <2>4. Len(s[i]) \in Nat /\ Len(a[i - 1]) \in Nat /\ Len(a[i]) \in Nat BY <2>2, <2>3, LenProperties
    <2>5. Len(a[i - 1]) + Len(s[i]) = Len(a[i]) /\ SubSeq(a[n], Len(a[i - 1]) + 1, Len(a[i])) = s[i]
      BY <1>1, FlattenPick
    <2> QED BY <1>1, <2>2, <2>3, <2>4, <2>5
  <1>5. \A i \in Nat : i < n => Len(a[i]) = i * PieceLen
    <2> DEFINE T == {i \in Nat : i < n => Len(a[i]) = i * PieceLen}
    <2>1. 0 \in T
      <3>1. Len(a[0]) = 0 /\ 0 * PieceLen = 0 BY <1>1, <1>2, EmptySeq, Multiples
      <3> QED BY <3>1
    <2>2. ASSUME NEW i \in Nat, i \in T PROVE i + 1 \in T
      <3> SUFFICES ASSUME i + 1 < n PROVE Len(a[i + 1]) = (i + 1) * PieceLen OBVIOUS
      <3>1. i + 1 \in 1 .. n /\ (i + 1) - 1 = i /\ i < n /\ i + 1 # n BY <1>2
      <3>2. Len(a[i]) + Len(s[i + 1]) = Len(a[i + 1]) BY <1>4, <3>1
      <3>3. Len(s[i + 1]) = PieceLen BY <3>1
      <3>4. Len(a[i]) = i * PieceLen BY <2>2, <3>1
      <3>5. (i + 1) * PieceLen = i * PieceLen + PieceLen BY <1>2, Multiples
      <3> QED BY <3>2, <3>3, <3>4, <3>5
    <2> HIDE DEF T
    <2>3. \A i \in Nat : i \in T BY <2>1, <2>2, Counting
    <2> QED BY <2>3 DEF T
  <1>6. n \in 1 .. n /\ n - 1 \in Nat /\ n - 1 < n BY <1>2
  <1>7. len = (n - 1) * PieceLen + Len(s[n]) /\ Len(s[n]) \in Nat BY <1>1, <1>4, <1>5, <1>6
  <1>8. (n - 1) * PieceLen < len /\ len <= n * PieceLen
        /\ (n - 1) * PieceLen \in Int /\ n * PieceLen \in Int /\ n * PieceLen = (n - 1) * PieceLen + PieceLen
    <2>1. n - 1 \in Int /\ n \in Int /\ (n - 1) + 1 = n BY <1>2
    <2>2. (n - 1) * PieceLen \in Int /\ n * PieceLen \in Int /\ n * PieceLen = (n - 1) * PieceLen + PieceLen
      BY <1>2, <2>1, Multiples
    <2> DEFINE x == (n - 1) * PieceLen  y == n * PieceLen  l == Len(s[n])
    <2>3. l > 0 /\ l <= PieceLen /\ l \in Nat /\ len = x + l BY <1>7
    <2>4. x \in Int /\ y \in Int /\ y = x + PieceLen BY <2>2
    <2> HIDE DEF x, y, l, len
    <2>5. x < len /\ len <= y BY <1>2, <2>3, <2>4
    <2> QED BY <2>2, <2>5 DEF x, y
  <1> DEFINE ps == Pieces(body)  m == Len(ps)
  <1>9. /\ ps \in Seq(Seq(S)) /\ m \in Nat
        /\ m = 0 => body = <<>>
        /\ m # 0 => (m - 1) * PieceLen < len /\ len <= m * PieceLen
        /\ \A i \in 1 .. m :
             ps[i] = SubSeq(body, (i - 1) * PieceLen + 1, PieceEnd(len, m, i))
    BY <1>3, PiecesAre
  <1> HIDE DEF ps, body
  <1>10. len > 0
    <2>1. 0 <= (n - 1) * PieceLen BY <1>2, <1>6, Multiples
    <2> QED BY <1>3, <1>8, <2>1
  <1>11. m # 0 BY <1>9, <1>10, EmptySeq
  <1>12. m = n
    <2>1. ~ (m <= n - 1)
      <3>1. m <= n - 1 => m * PieceLen <= (n - 1) * PieceLen
        <4>1. m \in Int /\ n - 1 \in Int BY <1>2, <1>9
        <4> QED BY <1>2, <4>1, Multiples
      <3>2. m * PieceLen \in Int BY <1>2, <1>9, Multiples
      <3> QED BY <1>3, <1>8, <1>9, <1>11, <3>1, <3>2
    <2>2. ~ (n <= m - 1)
      <3>1. m - 1 \in Int /\ n \in Int BY <1>2, <1>9
      <3>2. n <= m - 1 => n * PieceLen <= (m - 1) * PieceLen BY <1>2, <3>1, Multiples
      <3>3. (m - 1) * PieceLen \in Int BY <1>2, <3>1, Multiples
      <3> QED BY <1>3, <1>8, <1>9, <1>11, <3>2, <3>3
    <2> QED BY <1>2, <1>9, <2>1, <2>2
  <1>13. ASSUME NEW i \in 1 .. n PROVE ps[i] = s[i]
    <2>1. i - 1 \in Nat /\ i - 1 < n /\ i \in Nat BY <1>2
    <2>2. Len(a[i - 1]) = (i - 1) * PieceLen BY <1>5, <2>1
    <2>3. Len(a[i]) = PieceEnd(len, n, i)
      <3>1. CASE i = n BY <1>1, <3>1 DEF PieceEnd
      <3>2. CASE i # n
        <4>1. i < n BY <1>2, <3>2
        <4> QED BY <1>5, <2>1, <3>2, <4>1 DEF PieceEnd
      <3> QED BY <3>1, <3>2
    <2> QED BY <1>4, <1>9, <1>12, <2>2, <2>3
  <1>14. ps = s BY <1>9, <1>12, <1>13, SeqEqual
  <1> QED BY <1>14 DEF ps, body

----------------------------------------------------------------------------
(* Segments and framed blobs                                               *)

\* The bytes of a segment.
LEMMA SegmentBytes ==
    ASSUME NEW k \in DataKeys, NEW i \in Nat, NEW n \in Nat
    PROVE  SealBytes(k, i, n) \in Seq(Cell) /\ Len(SealBytes(k, i, n)) = n + TAG_LEN
  <1> DEFINE m == n + TAG_LEN
  <1>1. m \in Nat BY TagAssumption
  <1>2. SealBytes(k, i, n) = [j \in 1 .. m |-> [key |-> k, ctr |-> i, pos |-> j]] BY DEF SealBytes
  <1>3. \A j \in 1 .. m : [key |-> k, ctr |-> i, pos |-> j] \in Cell BY <1>1 DEF Cell
  <1> HIDE DEF m
  <1>4. SealBytes(k, i, n) \in [1 .. m -> Cell] BY <1>2, <1>3
  <1>5. SealBytes(k, i, n) \in Seq(Cell) BY <1>1, <1>4, SeqDef
  <1>6. DOMAIN SealBytes(k, i, n) = 1 .. m BY <1>4
  <1>7. DOMAIN SealBytes(k, i, n) = 1 .. Len(SealBytes(k, i, n)) /\ Len(SealBytes(k, i, n)) \in Nat
    BY <1>5, LenProperties
  <1> QED BY <1>1, <1>5, <1>6, <1>7 DEF m

\* The segments of a blob, one after the other, and their messages.
Segments(k, ss) == [i \in 1 .. Len(ss) |-> SealBytes(k, i - 1, Len(ss[i].msg))]
MessagesOf(ss)  == [i \in 1 .. Len(ss) |-> ss[i].msg]

\* Each of them is a byte string, longer by the tag than its message.
LEMMA SegmentsAre ==
    ASSUME NEW k \in DataKeys, NEW ss \in Seq(SealRecord)
    PROVE  /\ Segments(k, ss) \in Seq(Seq(Cell)) /\ Len(Segments(k, ss)) = Len(ss)
           /\ \A i \in 1 .. Len(ss) :
                /\ Segments(k, ss)[i] = SealBytes(k, i - 1, Len(ss[i].msg))
                /\ Len(Segments(k, ss)[i]) = Len(ss[i].msg) + TAG_LEN
                /\ Len(ss[i].msg) \in Nat
  <1> DEFINE n == Len(ss)  g == Segments(k, ss)
  <1>1. n \in Nat BY LenProperties
  <1>2. ASSUME NEW i \in 1 .. n
        PROVE  /\ SealBytes(k, i - 1, Len(ss[i].msg)) \in Seq(Cell)
               /\ Len(SealBytes(k, i - 1, Len(ss[i].msg))) = Len(ss[i].msg) + TAG_LEN
               /\ Len(ss[i].msg) \in Nat
    <2>1. ss[i] \in SealRecord BY ElementOfSeq
    <2>2. ss[i].msg \in Seq(Cell) BY <2>1 DEF SealRecord
    <2>3. Len(ss[i].msg) \in Nat /\ i - 1 \in Nat BY <1>1, <2>2, LenProperties
    <2> QED BY <2>3, SegmentBytes
  <1>3. g \in [1 .. n -> Seq(Cell)] /\ \A i \in 1 .. n : g[i] = SealBytes(k, i - 1, Len(ss[i].msg))
    BY <1>2 DEF Segments
  <1> HIDE DEF g
  <1>4. g \in Seq(Seq(Cell)) BY <1>1, <1>3, SeqDef
  <1>5. DOMAIN g = 1 .. n BY <1>3
  <1>6. DOMAIN g = 1 .. Len(g) /\ Len(g) \in Nat BY <1>4, LenProperties
  <1>7. Len(g) = n BY <1>1, <1>5, <1>6
  <1> QED BY <1>2, <1>3, <1>4, <1>7 DEF g

\* The messages of a chain make up its plaintext.
LEMMA MessagesPlain ==
    ASSUME NEW ss \in Seq(SealRecord), SealChain(ss)
    PROVE  FlattenSeq(MessagesOf(ss)) = Plain(ss)
  <1> DEFINE n == Len(ss)  g == MessagesOf(ss)
             a == [i \in 0 .. n |-> IF i = 0 THEN <<>> ELSE ss[i].upto]
  <1>1. n \in Nat BY LenProperties
  <1>2. ASSUME NEW i \in 1 .. n PROVE ss[i].msg \in Seq(Cell)
    <2>1. ss[i] \in SealRecord BY ElementOfSeq
    <2> QED BY <2>1 DEF SealRecord
  <1>3. g \in [1 .. n -> Seq(Cell)] /\ \A i \in 1 .. n : g[i] = ss[i].msg
    BY <1>2 DEF MessagesOf
  <1> HIDE DEF g
  <1>4. g \in Seq(Seq(Cell)) BY <1>1, <1>3, SeqDef
  <1>5. DOMAIN g = 1 .. n BY <1>3
  <1>6. DOMAIN g = 1 .. Len(g) /\ Len(g) \in Nat BY <1>4, LenProperties
  <1>7. Len(g) = n BY <1>1, <1>5, <1>6
  <1>8. a[0] = <<>> BY <1>1
  <1>9. ASSUME NEW i \in 1 .. n PROVE a[i] = a[i - 1] \o g[i]
    <2>1. i \in 0 .. n /\ i - 1 \in 0 .. n /\ i # 0 /\ (i = 1 <=> i - 1 = 0) BY <1>1
    <2>2. ss[i].upto = (IF i = 1 THEN <<>> ELSE ss[i - 1].upto) \o ss[i].msg BY DEF SealChain
    <2>3. a[i] = ss[i].upto /\ a[i - 1] = IF i = 1 THEN <<>> ELSE ss[i - 1].upto BY <2>1
    <2> HIDE DEF a
    <2> QED BY <1>3, <2>2, <2>3
  <1>10. a[n] = Plain(ss)
    <2>1. ss = <<>> <=> n = 0 BY EmptySeq
    <2>2. n \in 0 .. n BY <1>1
    <2> QED BY <2>1, <2>2 DEF Plain
  <1> HIDE DEF a
  <1>11. FlattenSeq(g) = a[Len(g)] BY <1>4, <1>7, <1>8, <1>9, FlattenIs
  <1> QED BY <1>7, <1>10, <1>11 DEF g

\* The body of a framed blob.
BodyOf(f) == SubSeq(f, HEADER_LEN + 1, Len(f))

\* A blob is its header followed by its segments.
LEMMA FramedParts ==
    ASSUME NEW k \in DataKeys, NEW cell \in PrefixCell, NEW ss \in Seq(SealRecord)
    PROVE  LET f == Framed(k, cell, ss)
           IN  /\ f \in Seq(Cell) /\ Len(f) >= HEADER_LEN /\ Len(f) \in Nat
               /\ f[1] = [ver |-> VERSION] /\ f[2] = [wrapped |-> k]
               /\ f[3] = cell /\ f[4] = [size |-> CHUNK_SIZE]
               /\ BodyOf(f) = FlattenSeq(Segments(k, ss))
  <1> DEFINE h == WriteHeader(k, cell)  b == FlattenSeq(Segments(k, ss))  f == h \o b
  <1>1. Segments(k, ss) \in Seq(Seq(Cell)) BY SegmentsAre
  <1>2. b \in Seq(Cell)
    <2> DEFINE g == Segments(k, ss)
    <2> HIDE DEF g
    <2>1. <<>> \in Seq(Cell) BY EmptySeq
    <2>2. g \in Seq(Seq(Cell)) BY <1>1 DEF g
    <2>3. FlattenSeq(g) \in Seq(Cell) BY <2>1, <2>2, FlattenAppend
    <2> QED BY <2>3 DEF g
  <1>3. /\ h \in Seq(Cell) /\ Len(h) = 4
        /\ h[1] = [ver |-> VERSION] /\ h[2] = [wrapped |-> k]
        /\ h[3] = cell /\ h[4] = [size |-> CHUNK_SIZE]
    <2>1. /\ [ver |-> VERSION] \in Cell /\ [wrapped |-> k] \in Cell /\ cell \in Cell
          /\ [size |-> CHUNK_SIZE] \in Cell
      BY ChunkAssumption DEF Cell, VERSION, PrefixCell
    <2> QED BY <2>1 DEF WriteHeader
  <1>4. Framed(k, cell, ss) = f BY DEF Framed, Segments
  <1> HIDE DEF h, b
  <1>5. /\ f \in Seq(Cell) /\ Len(f) = 4 + Len(b) /\ Len(b) \in Nat
        /\ \A i \in 1 .. 4 : f[i] = h[i]
    <2>1. Len(b) \in Nat BY <1>2, LenProperties
    <2>2. /\ f \in Seq(Cell) /\ Len(f) = Len(h) + Len(b)
          /\ \A i \in 1 .. Len(h) + Len(b) : f[i] = IF i <= Len(h) THEN h[i] ELSE b[i - Len(h)]
      BY <1>2, <1>3, ConcatProperties
    <2> QED BY <1>3, <2>1, <2>2
  <1>6. SubSeq(h \o b, Len(h) + 1, Len(f)) = b BY <1>2, <1>3, <1>5, SliceTail
  <1> HIDE DEF f
  <1>7. BodyOf(f) = b BY <1>3, <1>6 DEF BodyOf, HEADER_LEN, f
  <1>8. f[1] = h[1] /\ f[2] = h[2] /\ f[3] = h[3] /\ f[4] = h[4] BY <1>5
  <1>9. f \in Seq(Cell) /\ Len(f) >= 4 /\ Len(f) \in Nat BY <1>5
  <1> QED BY <1>3, <1>4, <1>7, <1>8, <1>9 DEF b, HEADER_LEN

\* A blob is known by its header and body.
LEMMA FramedIs ==
    ASSUME NEW k \in DataKeys, NEW cell \in PrefixCell, NEW ss \in Seq(SealRecord),
           NEW f \in Seq(Cell), Len(f) >= HEADER_LEN,
           f[1] = [ver |-> VERSION], f[2] = [wrapped |-> k], f[3] = cell,
           f[4] = [size |-> CHUNK_SIZE], BodyOf(f) = FlattenSeq(Segments(k, ss))
    PROVE  f = Framed(k, cell, ss)
  <1> DEFINE h == SubSeq(f, 1, 4)
  <1>1. Len(f) \in Nat /\ Len(f) >= 4 BY LenProperties DEF HEADER_LEN
  <1>2. /\ h \in Seq(Cell) /\ Len(h) = 4 /\ h[1] = f[1] /\ h[2] = f[2] /\ h[3] = f[3] /\ h[4] = f[4]
    <2>1. /\ SubSeq(f, 0 + 1, 4) \in Seq(Cell) /\ Len(SubSeq(f, 0 + 1, 4)) = 4 - 0
          /\ \A j \in 1 .. 4 - 0 : SubSeq(f, 0 + 1, 4)[j] = f[0 + j]
      BY <1>1, Slice
    <2> QED BY <2>1
  <1>3. SubSeq(f, 0 + 1, 4) \o SubSeq(f, 4 + 1, Len(f)) = SubSeq(f, 0 + 1, Len(f))
    <2>1. 0 \in Nat /\ 4 \in Nat /\ 0 <= 4 /\ 4 <= Len(f) /\ Len(f) <= Len(f) BY <1>1
    <2> QED BY <1>1, <2>1, SliceJoin, Zenon
  <1>4. SubSeq(f, 1, Len(f)) = f BY SubSeqFull
  <1>5. f = h \o BodyOf(f) BY <1>3, <1>4 DEF BodyOf, HEADER_LEN
  <1> DEFINE w == WriteHeader(k, cell)
  <1>6. /\ w \in Seq(Cell) /\ Len(w) = 4
        /\ w[1] = [ver |-> VERSION] /\ w[2] = [wrapped |-> k]
        /\ w[3] = cell /\ w[4] = [size |-> CHUNK_SIZE]
    <2>1. /\ [ver |-> VERSION] \in Cell /\ [wrapped |-> k] \in Cell /\ cell \in Cell
          /\ [size |-> CHUNK_SIZE] \in Cell
      BY ChunkAssumption DEF Cell, VERSION, PrefixCell
    <2> QED BY <2>1 DEF WriteHeader
  <1> HIDE DEF h, w
  <1>7. h = w
    <2>1. \A i \in 1 .. 4 : h[i] = w[i] BY <1>2, <1>6
    <2> QED BY <1>2, <1>6, <2>1, SeqEqual
  <1> QED BY <1>5, <1>7 DEF Framed, Segments, w

----------------------------------------------------------------------------
(* The in-memory decoder                                                   *)

\* The decoder accepts f with the data key k.
Decodes(k, f, wk, id) ==
    /\ HeaderOpens(k, f, wk, id)
    /\ OpensBody(k, f[3], BlobSegmentAad(id), Pieces(BodyOf(f)))

\* What is known of every data key: its segments form a chain.
Chained == seals \in [DataKeys -> Seq(SealRecord)] /\ \A k \in DataKeys : SealChain(seals[k])

\* What opens is the whole of one complete blob, piece by piece.
LEMMA DecodesAre ==
    ASSUME Chained, NEW f \in Seq(Cell), NEW wk, NEW id, NEW k \in DataKeys,
           Len(f) >= HEADER_LEN, Decodes(k, f, wk, id)
    PROVE  /\ Complete(seals[k]) /\ f[3] \in PrefixCell /\ f = Framed(k, f[3], seals[k])
           /\ Pieces(BodyOf(f)) = Segments(k, seals[k])
           /\ Len(Pieces(BodyOf(f))) = Len(seals[k])
           /\ FlattenSeq([i \in 1 .. Len(Pieces(BodyOf(f))) |-> Opened(k, i - 1)]) = Plain(seals[k])
  <1> DEFINE ss == seals[k]  body == BodyOf(f)  ps == Pieces(body)  n == Len(ps)
  <1>1. ss \in Seq(SealRecord) /\ SealChain(ss) /\ Len(ss) \in Nat BY LenProperties DEF Chained
  <1>2. body \in Seq(Cell)
    <2>1. Len(f) \in Nat /\ 4 \in Nat /\ 4 <= Len(f) /\ Len(f) <= Len(f) BY LenProperties DEF HEADER_LEN
    <2>2. SubSeq(f, 4 + 1, Len(f)) \in Seq(Cell) BY <2>1, Slice
    <2> QED BY <2>2 DEF BodyOf, HEADER_LEN
  <1>3. ps \in Seq(Seq(Cell)) /\ n \in Nat /\ FlattenSeq(ps) = body
    <2> HIDE DEF body
    <2> QED BY <1>2, PiecesAre, FlattenPieces
  <1>4. /\ ps # <<>>
        /\ \A i \in 1 .. n : Opens(k, f[3], i - 1, i = n, BlobSegmentAad(id), ps[i])
    BY DEF Decodes, OpensBody
  <1> HIDE DEF ps, body
  <1>5. n # 0 BY <1>3, <1>4, EmptySeq
  <1>6. ASSUME NEW i \in 1 .. n
        PROVE  i \in 1 .. Len(ss) /\ ss[i].last = (i = n) /\ ps[i] = SealBytes(k, i - 1, Len(ss[i].msg))
    <2>1. (i - 1) + 1 = i /\ i \in Nat BY <1>3
    <2>2. Opens(k, f[3], i - 1, i = n, BlobSegmentAad(id), ps[i]) BY <1>4
    <2>3. /\ i - 1 < Len(ss) /\ ss[(i - 1) + 1].last = (i = n)
          /\ ps[i] = SealBytes(k, i - 1, Len(ss[(i - 1) + 1].msg))
      BY <2>2 DEF Opens
    <2>4. i \in 1 .. Len(ss) BY <1>1, <1>3, <2>3
    <2> QED BY <2>1, <2>3, <2>4
  <1>7. n = Len(ss) /\ Complete(ss)
    <2>1. n \in 1 .. n BY <1>3, <1>5
    <2>2. n \in 1 .. Len(ss) /\ ss[n].last BY <1>6, <2>1
    <2>3. n = Len(ss) BY <1>1, <2>2 DEF SealChain
    <2>4. ss # <<>> BY <1>5, <2>3, EmptySeq
    <2> QED BY <2>2, <2>3, <2>4 DEF Complete
  <1>8. ps = Segments(k, ss)
    <2>1. /\ Segments(k, ss) \in Seq(Seq(Cell)) /\ Len(Segments(k, ss)) = Len(ss)
          /\ \A i \in 1 .. Len(ss) : Segments(k, ss)[i] = SealBytes(k, i - 1, Len(ss[i].msg))
      BY <1>1, SegmentsAre
    <2> DEFINE g == Segments(k, ss)
    <2> HIDE DEF g, ss
    <2>2. ps = g BY <1>3, <1>6, <1>7, <2>1, SeqEqual DEF g
    <2> QED BY <2>2 DEF g
  <1>9. /\ f[1] = [ver |-> VERSION] /\ f[2] = [wrapped |-> k] /\ f[3] \in PrefixCell
        /\ f[4] = [size |-> CHUNK_SIZE]
    BY DEF Decodes, HeaderOpens, Unwraps
  <1>10. BodyOf(f) = FlattenSeq(Segments(k, ss)) BY <1>3, <1>8 DEF body
  <1>11. f = Framed(k, f[3], ss)
    <2> HIDE DEF ss
    <2> QED BY <1>1, <1>9, <1>10, FramedIs
  <1>12. [i \in 1 .. n |-> Opened(k, i - 1)] = MessagesOf(ss)
    <2>1. \A i \in 1 .. n : (i - 1) + 1 = i BY <1>3
    <2>2. \A i \in 1 .. n : Opened(k, i - 1) = ss[i].msg BY <2>1 DEF Opened
    <2> HIDE DEF ss
    <2> QED BY <1>7, <2>2 DEF MessagesOf
  <1>13. FlattenSeq(MessagesOf(ss)) = Plain(ss)
    <2> HIDE DEF ss
    <2> QED BY <1>1, MessagesPlain
  <1> QED BY <1>7, <1>8, <1>9, <1>11, <1>12, <1>13 DEF ps, body

\* The result of decrypt_chunked in every case; the data key is determined by
\* the header.
LEMMA DecodeCases ==
    ASSUME Chained, NEW f \in Seq(Cell), NEW wk, NEW id
    PROVE  LET m == DecryptChunked(f, wk, id)
           IN  /\ ~Usable(id) => m = Err("InvalidContext")
               /\ Usable(id) /\ Len(f) < HEADER_LEN => m = Err("Aead")
               /\ Usable(id) /\ ~(Len(f) < HEADER_LEN) /\ (\A k \in DataKeys : ~Decodes(k, f, wk, id))
                    => m = Err("Aead")
               /\ \A k \in DataKeys :
                    Usable(id) /\ ~(Len(f) < HEADER_LEN) /\ Decodes(k, f, wk, id)
                      => m = Ok(Plain(seals[k]))
  <1> DEFINE ps == Pieces(BodyOf(f))
             out(k) == FlattenSeq([i \in 1 .. Len(ps) |-> Opened(k, i - 1)])
             D(k) == Decodes(k, f, wk, id)
             m == DecryptChunked(f, wk, id)
             r == IF \E k \in DataKeys : D(k) THEN Ok(out(CHOOSE k \in DataKeys : D(k))) ELSE Err("Aead")
  <1>1. m = CASE ~Usable(id) -> Err("InvalidContext")
              [] Usable(id) /\ Len(f) < HEADER_LEN -> Err("Aead")
              [] OTHER -> r
    BY DEF DecryptChunked, Decodes, BodyOf
  <1> HIDE DEF r, m, ps
  <1>2. /\ ~Usable(id) => m = Err("InvalidContext")
        /\ Usable(id) /\ Len(f) < HEADER_LEN => m = Err("Aead")
        /\ Usable(id) /\ ~(Len(f) < HEADER_LEN) => m = r
    BY <1>1
  <1>3. (\A k \in DataKeys : ~D(k)) => r = Err("Aead") BY DEF r
  <1>4. ASSUME NEW k \in DataKeys, ~(Len(f) < HEADER_LEN), D(k)
        PROVE  r = Ok(Plain(seals[k]))
    <2>1. ASSUME NEW j \in DataKeys, D(j) PROVE j = k
      <3>1. f[2] = [wrapped |-> k] /\ f[2] = [wrapped |-> j]
        BY <1>4, <2>1 DEF Decodes, HeaderOpens, Unwraps
      <3>2. [wrapped |-> k].wrapped = k /\ [wrapped |-> j].wrapped = j OBVIOUS
      <3> QED BY <3>1, <3>2
    <2>2. Len(f) >= HEADER_LEN BY <1>4, LenProperties DEF HEADER_LEN
    <2>3. out(k) = Plain(seals[k]) BY <1>4, <2>2, DecodesAre DEF ps
    <2>4. (CHOOSE j \in DataKeys : D(j)) = k
      <3> HIDE DEF D
      <3> QED BY <1>4, <2>1
    <2> HIDE DEF out, D
    <2> QED BY <1>4, <2>3, <2>4 DEF r
  <1> QED BY <1>2, <1>3, <1>4 DEF m

\* f is a complete blob bound to wk and id, and out is its plaintext.
OneBlob(f, wk, id, out) ==
    \E k \in DataKeys :
        /\ Complete(seals[k]) /\ f[3] \in PrefixCell
        /\ bind[k] # NoBind /\ bind[k] = Wrap(wk, id, f[3])
        /\ f[2] = [wrapped |-> k] /\ ~(Len(f) < HEADER_LEN)
        /\ f = Framed(k, f[3], seals[k]) /\ out = Plain(seals[k])

\* The decoder accepts nothing but a complete blob bound to the given key and
\* identifier, and returns its plaintext.
LEMMA DecoderExact ==
    ASSUME Chained, NEW f \in Seq(Cell), NEW wk, NEW id, DecryptChunked(f, wk, id).res = "Ok"
    PROVE  Usable(id) /\ OneBlob(f, wk, id, DecryptChunked(f, wk, id).out)
  <1> DEFINE m == DecryptChunked(f, wk, id)
  <1>1. /\ ~Usable(id) => m = Err("InvalidContext")
        /\ Usable(id) /\ Len(f) < HEADER_LEN => m = Err("Aead")
        /\ Usable(id) /\ ~(Len(f) < HEADER_LEN) /\ (\A k \in DataKeys : ~Decodes(k, f, wk, id))
             => m = Err("Aead")
        /\ \A k \in DataKeys :
             Usable(id) /\ ~(Len(f) < HEADER_LEN) /\ Decodes(k, f, wk, id)
               => m = Ok(Plain(seals[k]))
    BY DecodeCases
  <1>2. m.res = "Ok" OBVIOUS
  <1> HIDE DEF m
  <1>3. \A e \in {"InvalidContext", "Aead"} : m # Err(e) BY <1>2 DEF Err
  <1>4. Usable(id) /\ ~(Len(f) < HEADER_LEN) BY <1>1, <1>3
  <1>5. PICK k \in DataKeys : Decodes(k, f, wk, id) BY <1>1, <1>3, <1>4
  <1>6. m.out = Plain(seals[k])
    <2>1. m = Ok(Plain(seals[k])) BY <1>1, <1>4, <1>5
    <2> QED BY <2>1 DEF Ok
  <1>7. Len(f) >= HEADER_LEN BY <1>4, LenProperties DEF HEADER_LEN
  <1>8. Complete(seals[k]) /\ f[3] \in PrefixCell /\ f = Framed(k, f[3], seals[k])
    BY <1>5, <1>7, DecodesAre
  <1>9. bind[k] # NoBind /\ bind[k] = Wrap(wk, id, f[3]) /\ f[2] = [wrapped |-> k]
    BY <1>5 DEF Decodes, HeaderOpens, Unwraps
  <1> QED BY <1>4, <1>6, <1>8, <1>9 DEF m, OneBlob

\* The decoder accepts every complete blob of an encoder.
LEMMA FramedDecodes ==
    ASSUME Chained, NEW k \in DataKeys, NEW wk, NEW id, NEW cell \in PrefixCell,
           Usable(id), bind[k] # NoBind, bind[k] = Wrap(wk, id, cell),
           Stream(seals[k], id, cell), Complete(seals[k])
    PROVE  DecryptChunked(Framed(k, cell, seals[k]), wk, id) = Ok(Plain(seals[k]))
  <1> DEFINE ss == seals[k]  f == Framed(k, cell, ss)  n == Len(ss)  g == Segments(k, ss)
  <1>1. ss \in Seq(SealRecord) /\ n \in Nat /\ ss # <<>> /\ ss[n].last /\ n # 0
    BY LenProperties, EmptySeq DEF Chained, Complete
  <1>2. /\ f \in Seq(Cell) /\ Len(f) >= HEADER_LEN /\ Len(f) \in Nat
        /\ f[1] = [ver |-> VERSION] /\ f[2] = [wrapped |-> k]
        /\ f[3] = cell /\ f[4] = [size |-> CHUNK_SIZE]
        /\ BodyOf(f) = FlattenSeq(g)
    <2> HIDE DEF ss
    <2> QED BY <1>1, FramedParts
  <1>3. /\ g \in Seq(Seq(Cell)) /\ Len(g) = n
        /\ \A i \in 1 .. n :
             /\ g[i] = SealBytes(k, i - 1, Len(ss[i].msg))
             /\ Len(g[i]) = Len(ss[i].msg) + TAG_LEN
             /\ Len(ss[i].msg) \in Nat
    <2> HIDE DEF ss
    <2> QED BY <1>1, SegmentsAre
  <1>4. \A i \in 1 .. n :
           /\ ss[i].last => i = n
           /\ ss[i].prefix = cell /\ ss[i].aad = BlobSegmentAad(id)
           /\ IF ss[i].last THEN Len(ss[i].msg) < CHUNK_SIZE
              ELSE Len(ss[i].msg) = CHUNK_SIZE /\ i <= COUNTER_MAX
    BY DEF Stream, SealChain
  <1>5. n \in 1 .. n BY <1>1
  <1> HIDE DEF g, f
  <1>6. Pieces(FlattenSeq(g)) = g
    <2>1. \A i \in 1 .. n : i # n => Len(g[i]) = PieceLen
      <3> TAKE i \in 1 .. n
      <3>1. CASE i = n BY <3>1
      <3>2. CASE i # n
        <4>1. ~ss[i].last BY <1>4, <3>2
        <4>2. Len(ss[i].msg) = CHUNK_SIZE BY <1>4, <4>1
        <4>3. Len(g[i]) = CHUNK_SIZE + TAG_LEN BY <1>3, <4>2
        <4> QED BY <4>3 DEF PieceLen
      <3> QED BY <3>1, <3>2
    <2>2. Len(g[n]) > 0 /\ Len(g[n]) <= PieceLen
      <3>1. Len(g[n]) = Len(ss[n].msg) + TAG_LEN /\ Len(ss[n].msg) \in Nat BY <1>3, <1>5
      <3>2. Len(ss[n].msg) < CHUNK_SIZE BY <1>1, <1>4, <1>5
      <3> HIDE DEF ss
      <3> QED BY <3>1, <3>2, ChunkAssumption, TagAssumption DEF PieceLen
    <2>3. g # <<>> BY <1>1, <1>3, EmptySeq
    <2> HIDE DEF n
    <2> QED BY <1>3, <2>1, <2>2, <2>3, PiecesOf
  <1>7. ASSUME NEW i \in 1 .. n
        PROVE  Opens(k, cell, i - 1, i = n, BlobSegmentAad(id), g[i])
    <2>1. i \in Nat /\ i - 1 < n /\ (i - 1) + 1 = i BY <1>1
    <2>2. ss[i].last = (i = n)
      <3>1. ss[i].last \in BOOLEAN
        <4>1. ss[i] \in SealRecord BY <1>1, ElementOfSeq
        <4> QED BY <4>1 DEF SealRecord
      <3>2. ss[i].last <=> (i = n) BY <1>1, <1>4
      <3> QED BY <3>1, <3>2
    <2>3. (i = n) \/ i - 1 # COUNTER_MAX
      <3>1. CASE i = n BY <3>1
      <3>2. CASE i # n
        <4>1. i <= COUNTER_MAX BY <1>4, <3>2
        <4> QED BY <2>1, <4>1, CounterAssumption
      <3> QED BY <3>1, <3>2
    <2>4. ss[i].prefix = cell /\ ss[i].aad = BlobSegmentAad(id) BY <1>4
    <2>5. g[i] = SealBytes(k, i - 1, Len(ss[i].msg)) BY <1>3
    <2> QED BY <2>1, <2>2, <2>3, <2>4, <2>5 DEF Opens
  <1>8. Decodes(k, f, wk, id)
    <2>1. HeaderOpens(k, f, wk, id) BY <1>2 DEF HeaderOpens, Unwraps
    <2>2. g # <<>> BY <1>1, <1>3, EmptySeq
    <2>3. OpensBody(k, cell, BlobSegmentAad(id), g) BY <1>3, <1>7, <2>2 DEF OpensBody
    <2> QED BY <1>2, <1>6, <2>1, <2>3 DEF Decodes
  <1>9. ~(Len(f) < HEADER_LEN) BY <1>2 DEF HEADER_LEN
  <1> QED BY <1>2, <1>8, <1>9, DecodeCases DEF f

----------------------------------------------------------------------------
(* Wraps and encoder streams                                               *)

\* A wrap names its key, its identifier and its nonce prefix: an identifier
\* that is not usable cannot pass for a usable one either.
LEMMA WrapBinds ==
    ASSUME NEW i \in BlobIds, NEW j \in BlobIds, Usable(j), NEW v, NEW w,
           NEW c \in PrefixCell, NEW d \in PrefixCell, Wrap(v, i, c) = Wrap(w, j, d)
    PROVE  v = w /\ i = j /\ c = d
  <1> DEFINE p == c.prefix  q == d.prefix  z == ToBeBytes(CHUNK_SIZE)
             x == <<VERSION>> \o (p \o z)  y == <<VERSION>> \o (q \o z)
  <1>1. /\ p \in Seq(Octet) /\ q \in Seq(Octet) /\ Len(p) = Len(q) /\ i \in Seq(Octet) /\ j \in Seq(Octet)
        /\ c = [prefix |-> p] /\ d = [prefix |-> q]
    BY NameAssumption DEF PrefixCell
  <1>2. VERSION \in Octet /\ CHUNK_SIZE \in Nat BY BaseAssumption, ChunkAssumption DEF VERSION, Octet
  <1>3. v = w /\ BlobWrapAad(i, VERSION, p, CHUNK_SIZE) = BlobWrapAad(j, VERSION, q, CHUNK_SIZE)
    <2> DEFINE a == BlobWrapAad(i, VERSION, p, CHUNK_SIZE)  b == BlobWrapAad(j, VERSION, q, CHUNK_SIZE)
    <2>1. [wk |-> v, aad |-> a] = [wk |-> w, aad |-> b] BY DEF Wrap
    <2> HIDE DEF a, b
    <2>2. [wk |-> v, aad |-> a].wk = v /\ [wk |-> v, aad |-> a].aad = a
          /\ [wk |-> w, aad |-> b].wk = w /\ [wk |-> w, aad |-> b].aad = b
      OBVIOUS
    <2>3. v = w /\ a = b BY <2>1, <2>2
    <2> QED BY <2>3 DEF a, b
  <1>4. z \in Seq(Octet) /\ Len(z) = 4 BY <1>2, ToBeBytesInjective
  <1> HIDE DEF p, q, z
  <1>5. x \in Seq(Octet) /\ Len(x) = 1 + (Len(p) + 4) /\ y \in Seq(Octet) /\ Len(y) = Len(x)
    <2>1. /\ p \o z \in Seq(Octet) /\ Len(p \o z) = Len(p) + Len(z)
          /\ q \o z \in Seq(Octet) /\ Len(q \o z) = Len(q) + Len(z)
      BY <1>1, <1>4, ConcatProperties
    <2>2. <<VERSION>> \in Seq(Octet) /\ Len(<<VERSION>>) = 1 BY <1>2
    <2> DEFINE e == p \o z  g == q \o z
    <2>3. e \in Seq(Octet) /\ Len(e) = Len(p) + 4 /\ g \in Seq(Octet) /\ Len(g) = Len(p) + 4
      BY <1>1, <1>4, <2>1
    <2> HIDE DEF e, g
    <2>4. /\ <<VERSION>> \o e \in Seq(Octet) /\ Len(<<VERSION>> \o e) = Len(<<VERSION>>) + Len(e)
          /\ <<VERSION>> \o g \in Seq(Octet) /\ Len(<<VERSION>> \o g) = Len(<<VERSION>>) + Len(g)
      BY <2>2, <2>3, ConcatProperties
    <2> QED BY <2>2, <2>3, <2>4 DEF e, g
  <1> HIDE DEF x, y
  <1>6. ASSUME NEW h \in Seq(Octet), NEW u \in Seq(Octet)
        PROVE  Len(BlobSegmentAad(h) \o u) = (Len(BLOB_DOMAIN) + (4 + Len(h))) + Len(u)
    <2> DEFINE l == ToBeBytes(Len(h))
    <2>1. l \in Seq(Octet) /\ Len(l) = 4 BY LenProperties, ToBeBytesInjective
    <2> HIDE DEF l
    <2> DEFINE e == l \o h
    <2>2. e \in Seq(Octet) /\ Len(e) = 4 + Len(h)
      <3>1. l \o h \in Seq(Octet) /\ Len(l \o h) = Len(l) + Len(h) BY <2>1, ConcatProperties
      <3> QED BY <2>1, <3>1
    <2> HIDE DEF e
    <2> DEFINE g == BLOB_DOMAIN \o e
    <2>3. g \in Seq(Octet) /\ Len(g) = Len(BLOB_DOMAIN) + (4 + Len(h))
      <3>1. BLOB_DOMAIN \in Seq(Octet) BY DomainAssumption
      <3>2. BLOB_DOMAIN \o e \in Seq(Octet) /\ Len(BLOB_DOMAIN \o e) = Len(BLOB_DOMAIN) + Len(e)
        BY <2>2, <3>1, ConcatProperties
      <3> QED BY <2>2, <3>2
    <2> HIDE DEF g
    <2>4. Len(g \o u) = Len(g) + Len(u) BY <2>3, ConcatProperties
    <2>5. Len(g \o u) = (Len(BLOB_DOMAIN) + (4 + Len(h))) + Len(u) BY <2>3, <2>4
    <2> QED BY <2>5 DEF g, e, l, BlobSegmentAad, Prefixed
  <1>7. BlobSegmentAad(i) \o x = BlobSegmentAad(j) \o y BY <1>3 DEF BlobWrapAad, x, y, z
  <1>8. Len(i) = Len(j)
    <2>1. Len(BlobSegmentAad(i) \o x) = (Len(BLOB_DOMAIN) + (4 + Len(i))) + Len(x) BY <1>1, <1>5, <1>6
    <2>2. Len(BlobSegmentAad(j) \o y) = (Len(BLOB_DOMAIN) + (4 + Len(j))) + Len(y) BY <1>1, <1>5, <1>6
    <2>3. Len(BLOB_DOMAIN) \in Nat /\ Len(i) \in Nat /\ Len(j) \in Nat /\ Len(x) \in Nat
      BY <1>1, <1>5, LenProperties, DomainAssumption
    <2> QED BY <1>5, <1>7, <2>1, <2>2, <2>3
  <1>9. Usable(i)
    <2>1. Len(j) # 0 BY <1>1, EmptySeq DEF Usable
    <2>2. i # <<>> BY <1>8, <2>1, EmptySeq
    <2> QED BY <1>8, <2>2 DEF Usable
  <1>10. i = Component(BlobBody(BlobWrapAad(i, VERSION, p, CHUNK_SIZE)))
         /\ p = FirstBytes(BytesAfter(Rest(BlobBody(BlobWrapAad(i, VERSION, p, CHUNK_SIZE))), 1), Len(p))
    BY <1>1, <1>2, <1>9, WrapDecode
  <1>11. j = Component(BlobBody(BlobWrapAad(j, VERSION, q, CHUNK_SIZE)))
         /\ q = FirstBytes(BytesAfter(Rest(BlobBody(BlobWrapAad(j, VERSION, q, CHUNK_SIZE))), 1), Len(q))
    BY <1>1, <1>2, WrapDecode
  <1> QED BY <1>1, <1>3, <1>10, <1>11

\* A stream cut short is a stream.
LEMMA StreamPrefix ==
    ASSUME NEW ss \in Seq(SealRecord), NEW id, NEW cell, Stream(ss, id, cell), NEW n \in 0 .. Len(ss)
    PROVE  /\ SubSeq(ss, 1, n) \in Seq(SealRecord) /\ Stream(SubSeq(ss, 1, n), id, cell)
           /\ Complete(SubSeq(ss, 1, n)) => n = Len(ss)
  <1> DEFINE t == SubSeq(ss, 1, n)
  <1>1. n \in Nat /\ 0 <= n /\ n <= Len(ss) /\ Len(ss) \in Nat BY LenProperties
  <1>2. t \in Seq(SealRecord) /\ Len(t) = n /\ \A i \in 1 .. n : t[i] = ss[i]
    <2>1. /\ SubSeq(ss, 0 + 1, n) \in Seq(SealRecord) /\ Len(SubSeq(ss, 0 + 1, n)) = n - 0
          /\ \A j \in 1 .. n - 0 : SubSeq(ss, 0 + 1, n)[j] = ss[0 + j]
      BY <1>1, Slice
    <2> QED BY <1>1, <2>1
  <1> HIDE DEF t
  <1>3. ASSUME NEW i \in 1 .. n
        PROVE  /\ i \in 1 .. Len(ss) /\ t[i] = ss[i] /\ (i # 1 => t[i - 1] = ss[i - 1])
               /\ t[i].last => i = Len(ss)
    <2>1. i \in 1 .. Len(ss) /\ (i # 1 => i - 1 \in 1 .. n) BY <1>1
    <2>2. t[i] = ss[i] /\ (i # 1 => t[i - 1] = ss[i - 1]) BY <1>2, <2>1
    <2> QED BY <2>1, <2>2 DEF Stream, SealChain
  <1>4. ASSUME NEW i \in 1 .. Len(t)
        PROVE  /\ t[i].last => i = Len(t)
               /\ t[i].upto = (IF i = 1 THEN <<>> ELSE t[i - 1].upto) \o t[i].msg
               /\ t[i].prefix = cell /\ t[i].aad = BlobSegmentAad(id)
               /\ IF t[i].last THEN Len(t[i].msg) < CHUNK_SIZE
                  ELSE Len(t[i].msg) = CHUNK_SIZE /\ i <= COUNTER_MAX
    <2>1. i \in 1 .. n /\ i \in 1 .. Len(ss) BY <1>1, <1>2
    <2>2. /\ ss[i].upto = (IF i = 1 THEN <<>> ELSE ss[i - 1].upto) \o ss[i].msg
          /\ ss[i].prefix = cell /\ ss[i].aad = BlobSegmentAad(id)
          /\ IF ss[i].last THEN Len(ss[i].msg) < CHUNK_SIZE
             ELSE Len(ss[i].msg) = CHUNK_SIZE /\ i <= COUNTER_MAX
      BY <2>1 DEF Stream, SealChain
    <2>3. t[i] = ss[i] /\ (i # 1 => t[i - 1] = ss[i - 1]) /\ (t[i].last => i = Len(ss))
      BY <1>3, <2>1
    <2>4. t[i].last => i = Len(t) BY <1>1, <1>2, <2>1, <2>3
    <2> QED BY <2>2, <2>3, <2>4
  <1>5. Stream(t, id, cell) BY <1>4 DEF Stream, SealChain
  <1>6. Complete(t) => n = Len(ss)
    <2> SUFFICES ASSUME Complete(t) PROVE n = Len(ss) OBVIOUS
    <2>1. n # 0 /\ t[n].last BY <1>2, EmptySeq DEF Complete
    <2>2. n \in 1 .. n BY <1>1, <2>1
    <2> QED BY <1>3, <2>1, <2>2
  <1> QED BY <1>2, <1>5, <1>6 DEF t

\* What encrypt_chunked seals: a complete stream that carries the plaintext,
\* if the counter does not run out.
LEMMA ChunkedSealsAre ==
    ASSUME NEW pt \in Seq(Cell), NEW id \in BlobIds, NEW cell \in PrefixCell
    PROVE  LET ss == ChunkedSeals(pt, id, cell)  full == Len(pt) \div CHUNK_SIZE
           IN  /\ ss \in Seq(SealRecord) /\ Len(ss) = full + 1 /\ full \in Nat
               /\ Complete(ss) /\ Plain(ss) = pt /\ SealChain(ss)
               /\ \A i \in 1 .. full + 1 :
                    /\ ss[i].prefix = cell /\ ss[i].aad = BlobSegmentAad(id)
                    /\ ss[i].last <=> i = full + 1
                    /\ Len(ss[i].msg) = IF ss[i].last THEN Len(pt) - full * CHUNK_SIZE ELSE CHUNK_SIZE
               /\ Len(pt) - full * CHUNK_SIZE < CHUNK_SIZE
               /\ full <= COUNTER_MAX => Stream(ss, id, cell)
               /\ \A n \in 0 .. full + 1 : n <= COUNTER_MAX => Stream(SubSeq(ss, 1, n), id, cell)
  <1> DEFINE len == Len(pt)  full == len \div CHUNK_SIZE  N == full + 1
             lo(i) == (i - 1) * CHUNK_SIZE  end(i) == IF i = N THEN len ELSE i * CHUNK_SIZE
             msg(i) == SubSeq(pt, lo(i) + 1, end(i))  upto(i) == SubSeq(pt, 1, end(i))
             aad == BlobSegmentAad(id)
             ss == ChunkedSeals(pt, id, cell)
  <1>1. len \in Nat /\ CHUNK_SIZE \in Nat \ {0} BY LenProperties, ChunkAssumption
  <1>2. full \in Nat /\ full * CHUNK_SIZE <= len /\ len < full * CHUNK_SIZE + CHUNK_SIZE
    BY <1>1, Division
  <1>3. ss = [i \in 1 .. N |-> Seal(cell, i = N, aad, msg(i), upto(i))] BY DEF ChunkedSeals
  <1> HIDE DEF len, full, ss
  <1>4. ASSUME NEW i \in 1 .. N
        PROVE  /\ i \in Int /\ lo(i) \in Nat /\ end(i) \in Nat /\ lo(i) <= end(i) /\ end(i) <= len
               /\ end(i) - lo(i) = IF i = N THEN len - full * CHUNK_SIZE ELSE CHUNK_SIZE
               /\ i # 1 => i - 1 \in 1 .. N /\ end(i - 1) = lo(i)
               /\ i = 1 => lo(i) = 0
    <2>1. i \in Int /\ 0 <= i - 1 /\ i - 1 \in Int /\ full \in Int /\ i - 1 <= full BY <1>2
    <2>2. /\ lo(i) \in Int /\ 0 <= lo(i) /\ i * CHUNK_SIZE = lo(i) + CHUNK_SIZE
          /\ i * CHUNK_SIZE \in Int /\ 0 * CHUNK_SIZE = 0
      BY <1>1, <2>1, Multiples
    <2>3. i # N => i * CHUNK_SIZE <= full * CHUNK_SIZE
      <3> SUFFICES ASSUME i # N PROVE i * CHUNK_SIZE <= full * CHUNK_SIZE OBVIOUS
      <3>1. i <= full BY <1>2
      <3> QED BY <1>1, <2>1, <3>1, Multiples
    <2>4. i = N => lo(i) = full * CHUNK_SIZE BY <1>2
    <2>5. full * CHUNK_SIZE \in Int BY <1>1, <2>1, Multiples
    <2>6. i # 1 => i - 1 \in 1 .. N /\ i - 1 # N BY <1>2
    <2>7. i = 1 => lo(i) = 0
      <3> SUFFICES ASSUME i = 1 PROVE lo(i) = 0 OBVIOUS
      <3>1. i - 1 = 0 OBVIOUS
      <3> QED BY <2>2, <3>1
    <2> DEFINE x == lo(i)  y == i * CHUNK_SIZE  z == full * CHUNK_SIZE
    <2>8. i # 1 => end(i - 1) = x BY <2>6
    <2>9. end(i) = IF i = N THEN len ELSE y OBVIOUS
    <2>10. /\ x \in Int /\ 0 <= x /\ y = x + CHUNK_SIZE /\ z \in Int /\ (i # N => y <= z) /\ (i = N => x = z)
           /\ z <= len
      BY <1>2, <2>2, <2>3, <2>4, <2>5
    <2> DEFINE e == end(i)
    <2> HIDE DEF x, y, z, e
    <2>11. /\ x \in Nat /\ e \in Nat /\ x <= e /\ e <= len
           /\ e - x = IF i = N THEN len - z ELSE CHUNK_SIZE
      BY <1>1, <2>9, <2>10 DEF e
    <2> QED BY <2>1, <2>6, <2>7, <2>8, <2>11 DEF x, z, e
  <1> HIDE DEF lo, end
  <1>5. ASSUME NEW i \in 1 .. N
        PROVE  /\ msg(i) \in Seq(Cell) /\ Len(msg(i)) = end(i) - lo(i) /\ upto(i) \in Seq(Cell)
               /\ upto(i) = (IF i = 1 THEN <<>> ELSE upto(i - 1)) \o msg(i)
    <2>1. msg(i) \in Seq(Cell) /\ Len(msg(i)) = end(i) - lo(i) BY <1>4, Slice DEF len
    <2>2. SubSeq(pt, 0 + 1, end(i)) \in Seq(Cell)
      <3>1. 0 \in Nat /\ 0 <= end(i) BY <1>4
      <3> QED BY <1>4, <3>1, Slice DEF len
    <2>3. SubSeq(pt, 0 + 1, lo(i)) \o SubSeq(pt, lo(i) + 1, end(i)) = SubSeq(pt, 0 + 1, end(i))
      <3>1. 0 \in Nat /\ 0 <= lo(i) BY <1>4
      <3>2. lo(i) \in Nat /\ end(i) \in Nat /\ lo(i) <= end(i) /\ end(i) <= Len(pt) BY <1>4 DEF len
      <3> QED BY <3>1, <3>2, SliceJoin, Zenon
    <2>4. SubSeq(pt, 1, lo(i)) = IF i = 1 THEN <<>> ELSE upto(i - 1)
      <3>1. CASE i = 1
        <4>1. SubSeq(pt, 1, 0) = <<>> BY SubSeqEmpty
        <4> QED BY <1>4, <3>1, <4>1
      <3>2. CASE i # 1 BY <1>4, <3>2
      <3> QED BY <3>1, <3>2
    <2>5. 0 + 1 = 1 OBVIOUS
    <2>6. upto(i) \in Seq(Cell) /\ SubSeq(pt, 1, lo(i)) \o msg(i) = upto(i) BY <2>2, <2>3, <2>5
    <2>7. upto(i) = (IF i = 1 THEN <<>> ELSE upto(i - 1)) \o msg(i) BY <2>4, <2>6
    <2> HIDE DEF msg, upto
    <2> QED BY <2>1, <2>6, <2>7
  <1> HIDE DEF msg, upto
  <1>6. ASSUME NEW i \in 1 .. N
        PROVE  /\ ss[i] = Seal(cell, i = N, aad, msg(i), upto(i)) /\ ss[i] \in SealRecord
               /\ ss[i].prefix = cell /\ ss[i].last = (i = N) /\ ss[i].aad = aad
               /\ ss[i].msg = msg(i) /\ ss[i].upto = upto(i)
    <2>1. ss[i] = Seal(cell, i = N, aad, msg(i), upto(i)) BY <1>3
    <2>2. cell \in Cell /\ (i = N) \in BOOLEAN BY DEF Cell, PrefixCell
    <2>3. aad \in {BlobSegmentAad(x) : x \in BlobIds} OBVIOUS
    <2> HIDE DEF aad
    <2> QED BY <1>5, <2>1, <2>2, <2>3 DEF Seal, SealRecord
  <1>7. ss \in Seq(SealRecord) /\ Len(ss) = N
    <2>1. N \in Nat BY <1>2
    <2>2. ss \in [1 .. N -> SealRecord] BY <1>3, <1>6
    <2> HIDE DEF N
    <2>3. ss \in Seq(SealRecord) BY <2>1, <2>2, SeqDef
    <2>4. DOMAIN ss = 1 .. N /\ DOMAIN ss = 1 .. Len(ss) /\ Len(ss) \in Nat BY <2>2, <2>3, LenProperties
    <2> QED BY <2>1, <2>3, <2>4
  <1>8. N \in 1 .. N /\ N \in Nat BY <1>2
  <1>9. Complete(ss) /\ Plain(ss) = pt
    <2>1. ss # <<>> BY <1>7, <1>8, EmptySeq
    <2>2. ss[N].last /\ ss[N].upto = upto(N) BY <1>6, <1>8
    <2>3. upto(N) = pt BY SubSeqFull DEF upto, end, len
    <2> QED BY <1>7, <2>1, <2>2, <2>3 DEF Complete, Plain
  <1>10. ASSUME NEW i \in 1 .. N
         PROVE  ss[i].upto = (IF i = 1 THEN <<>> ELSE ss[i - 1].upto) \o ss[i].msg
    <2>1. i # 1 => i - 1 \in 1 .. N BY <1>4
    <2>2. i # 1 => ss[i - 1].upto = upto(i - 1) BY <1>6, <2>1
    <2>3. upto(i) = (IF i = 1 THEN <<>> ELSE upto(i - 1)) \o msg(i) BY <1>5
    <2>4. ss[i].upto = upto(i) /\ ss[i].msg = msg(i) BY <1>6
    <2> QED BY <2>2, <2>3, <2>4
  <1>11. SealChain(ss) BY <1>6, <1>7, <1>10 DEF SealChain
  <1>12. ASSUME NEW i \in 1 .. N
         PROVE  Len(ss[i].msg) = IF ss[i].last THEN len - full * CHUNK_SIZE ELSE CHUNK_SIZE
    <2> DEFINE r == IF i = N THEN len - full * CHUNK_SIZE ELSE CHUNK_SIZE
    <2>1. Len(msg(i)) = end(i) - lo(i) BY <1>5
    <2>2. end(i) - lo(i) = r BY <1>4
    <2>3. ss[i].msg = msg(i) /\ ss[i].last = (i = N) BY <1>6
    <2>4. r = IF ss[i].last THEN len - full * CHUNK_SIZE ELSE CHUNK_SIZE BY <2>3
    <2> HIDE DEF r
    <2> QED BY <2>1, <2>2, <2>3, <2>4
  <1>13. full * CHUNK_SIZE \in Int BY <1>1, <1>2, Multiples
  <1>14. len - full * CHUNK_SIZE < CHUNK_SIZE
    <2> DEFINE z == full * CHUNK_SIZE
    <2> HIDE DEF z
    <2>1. z \in Int /\ len < z + CHUNK_SIZE BY <1>2, <1>13 DEF z
    <2>2. len - z < CHUNK_SIZE BY <1>1, <2>1
    <2> QED BY <2>2 DEF z
  <1>15. full <= COUNTER_MAX => Stream(ss, id, cell)
    <2> SUFFICES ASSUME full <= COUNTER_MAX, NEW i \in 1 .. N
                 PROVE  IF ss[i].last THEN Len(ss[i].msg) < CHUNK_SIZE
                        ELSE Len(ss[i].msg) = CHUNK_SIZE /\ i <= COUNTER_MAX
      BY <1>6, <1>7, <1>11 DEF Stream
    <2>1. ~ss[i].last => i <= full
      <3>1. ~ss[i].last => i # N BY <1>6
      <3>2. i # N => i <= full BY <1>2
      <3> QED BY <3>1, <3>2
    <2> QED BY <1>2, <1>12, <1>14, <2>1, CounterAssumption
  <1>16. ASSUME NEW n \in 0 .. N, n <= COUNTER_MAX PROVE Stream(SubSeq(ss, 1, n), id, cell)
    <2> DEFINE t == SubSeq(ss, 1, n)
    <2>1. n \in Nat /\ 0 <= n /\ n <= Len(ss) BY <1>7, <1>8
    <2>2. t \in Seq(SealRecord) /\ Len(t) = n /\ \A i \in 1 .. n : t[i] = ss[i]
      <3>1. /\ SubSeq(ss, 0 + 1, n) \in Seq(SealRecord) /\ Len(SubSeq(ss, 0 + 1, n)) = n - 0
            /\ \A j \in 1 .. n - 0 : SubSeq(ss, 0 + 1, n)[j] = ss[0 + j]
        BY <1>7, <2>1, Slice
      <3> QED BY <2>1, <3>1
    <2> HIDE DEF t
    <2>3. ASSUME NEW i \in 1 .. n
          PROVE  /\ t[i].last => i = n
                 /\ t[i].upto = (IF i = 1 THEN <<>> ELSE t[i - 1].upto) \o t[i].msg
                 /\ t[i].prefix = cell /\ t[i].aad = BlobSegmentAad(id)
                 /\ IF t[i].last THEN Len(t[i].msg) < CHUNK_SIZE
                    ELSE Len(t[i].msg) = CHUNK_SIZE /\ i <= COUNTER_MAX
      <3>1. i \in 1 .. N /\ (i # 1 => i - 1 \in 1 .. n) /\ i <= n /\ i \in Nat BY <1>8
      <3>2. t[i] = ss[i] /\ (i # 1 => t[i - 1] = ss[i - 1]) BY <2>2, <3>1
      <3>3. t[i].upto = (IF i = 1 THEN <<>> ELSE t[i - 1].upto) \o t[i].msg BY <1>10, <3>1, <3>2
      <3>4. t[i].last => i = n
        <4>1. t[i].last => i = N BY <1>6, <3>1, <3>2
        <4>2. i = N => i = n BY <1>8, <3>1
        <4> QED BY <4>1, <4>2
      <3>5. i <= COUNTER_MAX BY <1>16, <2>1, <3>1, CounterAssumption
      <3>6. IF t[i].last THEN Len(t[i].msg) < CHUNK_SIZE ELSE Len(t[i].msg) = CHUNK_SIZE
        BY <1>12, <1>14, <3>1, <3>2
      <3> QED BY <1>6, <3>1, <3>2, <3>3, <3>4, <3>5, <3>6
    <2>4. Stream(t, id, cell) BY <2>2, <2>3 DEF Stream, SealChain
    <2> QED BY <2>4 DEF t
  <1> QED BY <1>2, <1>6, <1>7, <1>9, <1>11, <1>12, <1>14, <1>15, <1>16 DEF full, len, ss

----------------------------------------------------------------------------
(* Reading a framed blob piece by piece                                    *)

\* Where the piece with counter i starts in a framed blob.
PieceStart(i) == HEADER_LEN + i * PieceLen

\* The pieces with counters below n open as next segments.
OpenedTo(k, f, cell, aad, n) ==
    \A i \in 0 .. n - 1 :
        Opens(k, cell, i, FALSE, aad, SubSeq(f, PieceStart(i) + 1, PieceStart(i) + PieceLen))

\* Pieces follow each other.
LEMMA PieceStarts ==
    ASSUME NEW i \in Int
    PROVE  /\ PieceStart(i) \in Int /\ PieceStart(i + 1) = PieceStart(i) + PieceLen
           /\ PieceLen \in Nat \ {0}
           /\ PieceStart(i - 1) = PieceStart(i) - PieceLen /\ PieceStart(0) = HEADER_LEN
           /\ 0 <= i => HEADER_LEN <= PieceStart(i)
           /\ \A j \in Int : i <= j => PieceStart(i) <= PieceStart(j)
  <1>1. PieceLen \in Nat \ {0} BY ChunkAssumption, TagAssumption DEF PieceLen
  <1>2. /\ i * PieceLen \in Int /\ (i + 1) * PieceLen = i * PieceLen + PieceLen
        /\ (i - 1) * PieceLen = i * PieceLen - PieceLen /\ 0 * PieceLen = 0
        /\ 0 <= i => 0 <= i * PieceLen
    BY <1>1, Multiples
  <1>3. \A j \in Int : j * PieceLen \in Int /\ (i <= j => i * PieceLen <= j * PieceLen)
    BY <1>1, Multiples
  <1>4. \A j \in Int : i <= j => PieceStart(i) <= PieceStart(j)
    <2> SUFFICES ASSUME NEW j \in Int, i <= j PROVE PieceStart(i) <= PieceStart(j) OBVIOUS
    <2> DEFINE p == i * PieceLen
               q == j * PieceLen
    <2>1. p \in Int /\ q \in Int /\ p <= q /\ PieceStart(i) = 4 + p /\ PieceStart(j) = 4 + q
      BY <1>2, <1>3 DEF PieceStart, HEADER_LEN
    <2> HIDE DEF p, q
    <2> QED BY <2>1
  <1> DEFINE p == i * PieceLen
             q == (i + 1) * PieceLen
             r == (i - 1) * PieceLen
             z == 0 * PieceLen
  <1>5. /\ p \in Int /\ q = p + PieceLen /\ r = p - PieceLen /\ z = 0 /\ (0 <= i => 0 <= p)
        /\ PieceStart(i) = 4 + p /\ PieceStart(i + 1) = 4 + q /\ PieceStart(i - 1) = 4 + r
        /\ PieceStart(0) = 4 + z /\ HEADER_LEN = 4
    BY <1>2 DEF PieceStart, HEADER_LEN
  <1> HIDE DEF p, q, r, z
  <1> QED BY <1>1, <1>4, <1>5

\* A slice of a slice.
LEMMA SliceShift ==
    ASSUME NEW S, NEW x \in Seq(S), NEW h \in Nat, h <= Len(x), NEW p \in Nat, NEW q \in Nat,
           p <= q, h + q <= Len(x)
    PROVE  SubSeq(SubSeq(x, h + 1, Len(x)), p + 1, q) = SubSeq(x, (h + p) + 1, h + q)
  <1> DEFINE m == Len(x)
             b == SubSeq(x, h + 1, m)
             u == SubSeq(b, p + 1, q)
             hp == h + p
             hq == h + q
             v == SubSeq(x, hp + 1, hq)
  <1>1. m \in Nat /\ hp \in Nat /\ hq \in Nat /\ hp <= hq /\ hq <= m /\ h <= m /\ m = Len(x)
    BY LenProperties
  <1> HIDE DEF m
  <1>2. b \in Seq(S) /\ Len(b) = m - h /\ \A j \in 1 .. m - h : b[j] = x[h + j] BY <1>1, Slice
  <1>3. q <= Len(b) BY <1>1, <1>2 DEF hq
  <1> HIDE DEF b
  <1>4. u \in Seq(S) /\ Len(u) = q - p /\ \A j \in 1 .. q - p : u[j] = b[p + j] BY <1>2, <1>3, Slice
  <1> HIDE DEF u
  <1>5. v \in Seq(S) /\ Len(v) = hq - hp /\ \A j \in 1 .. hq - hp : v[j] = x[hp + j]
    <2> HIDE DEF hp, hq
    <2> QED BY <1>1, Slice
  <1> HIDE DEF v
  <1>6. hq - hp = q - p BY DEF hp, hq
  <1>7. ASSUME NEW j \in 1 .. q - p PROVE u[j] = v[j]
    <2>1. p + j \in 1 .. m - h /\ h + (p + j) = hp + j BY <1>1 DEF hp, hq
    <2>2. u[j] = x[h + (p + j)] BY <1>2, <1>4, <2>1
    <2> QED BY <1>5, <1>6, <2>1, <2>2
  <1>8. u = v BY <1>4, <1>5, <1>6, <1>7, SeqEqual
  <1> QED BY <1>8 DEF u, v, b, m, hp, hq

\* How decrypt_chunked cuts a framed blob.
LEMMA PiecesCut ==
    ASSUME NEW f \in Seq(Cell), HEADER_LEN <= Len(f)
    PROVE  LET ps == Pieces(BodyOf(f))  n == Len(ps)
           IN  /\ n \in Nat /\ (ps = <<>> <=> n = 0) /\ (n = 0 => Len(f) = HEADER_LEN)
               /\ n # 0 => PieceStart(n - 1) < Len(f) /\ Len(f) <= PieceStart(n)
               /\ \A i \in 1 .. n :
                    ps[i] = SubSeq(f, PieceStart(i - 1) + 1, IF i = n THEN Len(f) ELSE PieceStart(i))
  <1> DEFINE body == BodyOf(f)
             ps == Pieces(body)
             n == Len(ps)
             len == Len(body)
  <1>1. Len(f) \in Nat /\ 4 \in Nat /\ 4 <= Len(f) /\ Len(f) <= Len(f) BY LenProperties DEF HEADER_LEN
  <1>2. body \in Seq(Cell) /\ len = Len(f) - 4
    <2> DEFINE m == Len(f)
    <2>1. m \in Nat /\ 4 <= m /\ m <= Len(f) BY <1>1
    <2> HIDE DEF m
    <2>2. SubSeq(f, 4 + 1, m) \in Seq(Cell) /\ Len(SubSeq(f, 4 + 1, m)) = m - 4 BY <1>1, <2>1, Slice
    <2> QED BY <2>2 DEF BodyOf, HEADER_LEN, m
  <1>3. /\ ps \in Seq(Seq(Cell)) /\ n \in Nat /\ len \in Nat
        /\ n = 0 => body = <<>>
        /\ n # 0 => (n - 1) * PieceLen < len /\ len <= n * PieceLen
        /\ \A i \in 1 .. n :
             /\ (i - 1) * PieceLen \in Nat /\ PieceEnd(len, n, i) \in Nat
             /\ (i - 1) * PieceLen < PieceEnd(len, n, i) /\ PieceEnd(len, n, i) <= len
             /\ ps[i] = SubSeq(body, (i - 1) * PieceLen + 1, PieceEnd(len, n, i))
    <2> HIDE DEF body
    <2> QED BY <1>2, PiecesAre
  <1> HIDE DEF ps
  <1>4. ps = <<>> <=> n = 0 BY <1>3, EmptySeq
  <1>5. n = 0 => Len(f) = HEADER_LEN
    <2>1. n = 0 => len = 0 BY <1>3
    <2>2. len = Len(f) - 4 /\ HEADER_LEN = 4 BY <1>2 DEF HEADER_LEN
    <2> HIDE DEF n, len
    <2> QED BY <1>1, <2>1, <2>2
  <1>6. n # 0 => PieceStart(n - 1) < Len(f) /\ Len(f) <= PieceStart(n)
    <2> DEFINE p == (n - 1) * PieceLen
               q == n * PieceLen
    <2>1. p \in Int /\ q \in Int
      <3>1. n \in Int /\ n - 1 \in Int /\ PieceLen \in Nat BY <1>3, ChunkAssumption, TagAssumption DEF PieceLen
      <3> HIDE DEF n
      <3> QED BY <3>1, Multiples
    <2>2. n # 0 => p < len /\ len <= q BY <1>3
    <2>3. PieceStart(n - 1) = 4 + p /\ PieceStart(n) = 4 + q BY DEF PieceStart, HEADER_LEN
    <2> HIDE DEF p, q, len, n
    <2> QED BY <1>1, <1>2, <2>1, <2>2, <2>3
  <1>7. ASSUME NEW i \in 1 .. n
        PROVE  ps[i] = SubSeq(f, PieceStart(i - 1) + 1, IF i = n THEN Len(f) ELSE PieceStart(i))
    <2> DEFINE p == (i - 1) * PieceLen
               q == PieceEnd(len, n, i)
    <2>1. p \in Nat /\ q \in Nat /\ p < q /\ q <= len /\ ps[i] = SubSeq(body, p + 1, q) BY <1>3
    <2>2. PieceStart(i - 1) = 4 + p BY DEF PieceStart, HEADER_LEN
    <2>3. 4 + q = IF i = n THEN Len(f) ELSE PieceStart(i)
      <3>1. CASE i = n BY <1>1, <1>2, <3>1 DEF PieceEnd
      <3>2. CASE i # n BY <3>2 DEF PieceEnd, PieceStart, HEADER_LEN
      <3> QED BY <3>1, <3>2
    <2>4. body = SubSeq(f, 4 + 1, Len(f)) BY DEF BodyOf, HEADER_LEN
    <2> HIDE DEF p, q, body
    <2>5. p <= q /\ 4 + q <= Len(f) BY <1>1, <1>2, <2>1
    <2>6. SubSeq(SubSeq(f, 4 + 1, Len(f)), p + 1, q) = SubSeq(f, (4 + p) + 1, 4 + q)
      BY <1>1, <2>1, <2>5, SliceShift
    <2> QED BY <2>1, <2>2, <2>3, <2>4, <2>6
  <1> QED BY <1>3, <1>4, <1>5, <1>6, <1>7 DEF ps

\* A blob whose pieces open one after the other, the last one as last, decodes.
LEMMA DoesDecode ==
    ASSUME NEW f \in Seq(Cell), HEADER_LEN <= Len(f), NEW k, NEW wk, NEW id, NEW n \in Nat,
           HeaderOpens(k, f, wk, id), OpenedTo(k, f, f[3], BlobSegmentAad(id), n),
           PieceStart(n) < Len(f), Len(f) <= PieceStart(n) + PieceLen,
           Opens(k, f[3], n, TRUE, BlobSegmentAad(id), SubSeq(f, PieceStart(n) + 1, Len(f)))
    PROVE  Decodes(k, f, wk, id)
  <1> DEFINE ps == Pieces(BodyOf(f))
             m == Len(ps)
             aad == BlobSegmentAad(id)
  <1>1. /\ m \in Nat /\ (ps = <<>> <=> m = 0) /\ (m = 0 => Len(f) = HEADER_LEN)
        /\ m # 0 => PieceStart(m - 1) < Len(f) /\ Len(f) <= PieceStart(m)
        /\ \A i \in 1 .. m :
             ps[i] = SubSeq(f, PieceStart(i - 1) + 1, IF i = m THEN Len(f) ELSE PieceStart(i))
    BY PiecesCut
  <1> HIDE DEF ps, aad, m
  <1>2. Len(f) \in Nat /\ HEADER_LEN \in Nat BY LenProperties DEF HEADER_LEN
  <1>3. m = n + 1
    <2>1. m # 0
      <3>1. HEADER_LEN <= PieceStart(n) /\ PieceStart(n) \in Int BY PieceStarts
      <3> QED BY <1>1, <1>2, <3>1
    <2>2. ~(n + 1 <= m - 1)
      <3>1. n + 1 \in Int /\ m - 1 \in Int BY <1>1
      <3>2. n + 1 <= m - 1 => PieceStart(n + 1) <= PieceStart(m - 1) BY <3>1, PieceStarts
      <3>3. PieceStart(n + 1) = PieceStart(n) + PieceLen /\ PieceStart(m - 1) \in Int /\ PieceStart(n) \in Int
            /\ PieceLen \in Nat
        BY <3>1, PieceStarts
      <3> QED BY <1>1, <1>2, <2>1, <3>2, <3>3
    <2>3. ~(m <= n)
      <3>1. m <= n => PieceStart(m) <= PieceStart(n) BY <1>1, PieceStarts
      <3>2. PieceStart(m) \in Int /\ PieceStart(n) \in Int BY <1>1, PieceStarts
      <3> QED BY <1>1, <1>2, <2>1, <3>1, <3>2
    <2> QED BY <1>1, <2>2, <2>3
  <1>4. ASSUME NEW i \in 1 .. m PROVE Opens(k, f[3], i - 1, i = m, aad, ps[i])
    <2>1. ps[i] = SubSeq(f, PieceStart(i - 1) + 1, IF i = m THEN Len(f) ELSE PieceStart(i)) BY <1>1
    <2>2. CASE i = m
      <3>1. i - 1 = n /\ (i = m) = TRUE BY <1>3, <2>2
      <3> QED BY <2>1, <2>2, <3>1 DEF aad
    <2>3. CASE i # m
      <3>1. i - 1 \in 0 .. n - 1 /\ (i = m) = FALSE /\ i \in Int BY <1>1, <1>3, <2>3
      <3>2. PieceStart(i) = PieceStart(i - 1) + PieceLen
        <4>1. i - 1 \in Int /\ (i - 1) + 1 = i BY <3>1
        <4>2. PieceStart((i - 1) + 1) = PieceStart(i - 1) + PieceLen BY <4>1, PieceStarts
        <4> QED BY <4>1, <4>2
      <3>3. Opens(k, f[3], i - 1, FALSE, aad, SubSeq(f, PieceStart(i - 1) + 1, PieceStart(i - 1) + PieceLen))
        BY <3>1 DEF OpenedTo, aad
      <3> QED BY <2>1, <2>3, <3>1, <3>2, <3>3
    <2> QED BY <2>2, <2>3
  <1>5. ps # <<>> BY <1>1, <1>3
  <1> QED BY <1>4, <1>5 DEF Decodes, OpensBody, ps, m, aad

\* If a blob decodes and its first pieces open as next segments, so does the
\* piece that follows them if it is a full one; if not, it opens as the last.
LEMMA MustDecode ==
    ASSUME NEW f \in Seq(Cell), HEADER_LEN <= Len(f), NEW k \in DataKeys, NEW wk, NEW id, NEW n \in Nat,
           Chained, OpenedTo(k, f, f[3], BlobSegmentAad(id), n), NEW j, NEW cell, Stream(seals[k], j, cell),
           PieceStart(n) <= Len(f), Decodes(k, f, wk, id)
    PROVE  /\ PieceStart(n) + PieceLen <= Len(f) =>
                Opens(k, f[3], n, FALSE, BlobSegmentAad(id),
                      SubSeq(f, PieceStart(n) + 1, PieceStart(n) + PieceLen))
           /\ Len(f) < PieceStart(n) + PieceLen =>
                Opens(k, f[3], n, TRUE, BlobSegmentAad(id), SubSeq(f, PieceStart(n) + 1, Len(f)))
  <1> DEFINE ps == Pieces(BodyOf(f))
             m == Len(ps)
             aad == BlobSegmentAad(id)
  <1>1. /\ m \in Nat /\ (ps = <<>> <=> m = 0) /\ (m = 0 => Len(f) = HEADER_LEN)
        /\ m # 0 => PieceStart(m - 1) < Len(f) /\ Len(f) <= PieceStart(m)
        /\ \A i \in 1 .. m :
             ps[i] = SubSeq(f, PieceStart(i - 1) + 1, IF i = m THEN Len(f) ELSE PieceStart(i))
    BY PiecesCut
  <1>2. ps # <<>> /\ \A i \in 1 .. m : Opens(k, f[3], i - 1, i = m, aad, ps[i])
    BY DEF Decodes, OpensBody
  <1> HIDE DEF ps, aad, m
  <1>3. Len(f) \in Nat /\ m # 0 /\ m \in 1 .. m BY <1>1, <1>2, LenProperties
  <1>4. /\ PieceStart(n) \in Int /\ PieceStart(m) \in Int /\ PieceLen \in Nat \ {0}
        /\ PieceStart(n + 1) = PieceStart(n) + PieceLen
        /\ PieceStart(m - 1) \in Int
        /\ m <= n => PieceStart(m) <= PieceStart(n)
        /\ n + 1 <= m - 1 => PieceStart(n + 1) <= PieceStart(m - 1)
    <2>1. m \in Int /\ n \in Int /\ m - 1 \in Int /\ n + 1 \in Int BY <1>1
    <2> QED BY <2>1, PieceStarts
  <1>5. ~(m <= n)
    <2> SUFFICES ASSUME m <= n PROVE FALSE OBVIOUS
    <2>1. m - 1 \in 0 .. n - 1 /\ (m - 1) + 1 = m BY <1>1, <1>3
    <2>2. \E b : Opens(k, f[3], m - 1, FALSE, aad, b) BY <2>1 DEF OpenedTo, aad
    <2>3. Opens(k, f[3], m - 1, m = m, aad, ps[m]) BY <1>2, <1>3
    <2>4. (m = m) = TRUE OBVIOUS
    <2> QED BY <2>2, <2>3, <2>4 DEF Opens
  <1>6. n + 1 \in 1 .. m /\ (n + 1) - 1 = n BY <1>1, <1>5
  <1>7. Opens(k, f[3], n, n + 1 = m, aad, ps[n + 1]) BY <1>2, <1>6
  <1>8. ps[n + 1] = SubSeq(f, PieceStart(n) + 1, IF n + 1 = m THEN Len(f) ELSE PieceStart(n + 1))
    BY <1>1, <1>6
  <1>9. CASE n + 1 = m
    <2>1. (n + 1 = m) = TRUE /\ PieceStart(m) = PieceStart(n) + PieceLen BY <1>4, <1>9
    <2>2. Opens(k, f[3], n, TRUE, aad, SubSeq(f, PieceStart(n) + 1, Len(f))) BY <1>7, <1>8, <2>1
    <2>3. ~(PieceStart(n) + PieceLen <= Len(f))
      <3> SUFFICES ASSUME PieceStart(n) + PieceLen <= Len(f) PROVE FALSE OBVIOUS
      <3>1. Len(f) = PieceStart(n) + PieceLen BY <1>1, <1>3, <1>4, <2>1
      <3> DEFINE p == PieceStart(n)
                 q == Len(f)
                 b == SubSeq(f, p + 1, q)
      <3>2. p \in Nat /\ q \in Nat /\ p <= q /\ q <= Len(f) /\ q - p = PieceLen
        <4>1. HEADER_LEN <= PieceStart(n) /\ HEADER_LEN \in Nat BY PieceStarts DEF HEADER_LEN
        <4> QED BY <1>3, <1>4, <3>1, <4>1
      <3> HIDE DEF p, q
      <3>3. Len(b) = PieceLen BY <3>2, Slice
      <3>4. b = SubSeq(f, PieceStart(n) + 1, Len(f)) BY DEF p, q
      <3> HIDE DEF b
      <3>5. /\ n < Len(seals[k]) /\ seals[k][n + 1].last = TRUE
            /\ b = SealBytes(k, n, Len(seals[k][n + 1].msg))
        BY <2>2, <3>4 DEF Opens
      <3>6. seals[k] \in Seq(SealRecord) BY DEF Chained
      <3>7. n + 1 \in 1 .. Len(seals[k]) BY <3>5, <3>6, LenProperties
      <3>8. Len(seals[k][n + 1].msg) < CHUNK_SIZE BY <3>5, <3>7 DEF Stream
      <3>9. Len(seals[k][n + 1].msg) \in Nat BY <3>6, <3>7, SegmentsAre
      <3>10. Len(b) = Len(seals[k][n + 1].msg) + TAG_LEN BY <3>5, <3>9, SegmentBytes
      <3> QED BY <3>3, <3>8, <3>9, <3>10, ChunkAssumption, TagAssumption DEF PieceLen
    <2> QED BY <2>2, <2>3 DEF aad
  <1>10. CASE n + 1 # m
    <2>1. (n + 1 = m) = FALSE /\ n + 1 <= m - 1 BY <1>1, <1>6, <1>10
    <2>2. Opens(k, f[3], n, FALSE, aad, SubSeq(f, PieceStart(n) + 1, PieceStart(n) + PieceLen))
      BY <1>4, <1>7, <1>8, <2>1
    <2>3. ~(Len(f) < PieceStart(n) + PieceLen) BY <1>1, <1>3, <1>4, <2>1
    <2> QED BY <2>2, <2>3 DEF aad
  <1> QED BY <1>9, <1>10
=============================================================================
