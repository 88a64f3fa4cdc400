------------------------ MODULE RfbCompressed_proofs -------------------------
(***************************************************************************)
(* Proofs about RfbCompressed: a rectangle sent as ZRLE or ZYWRLE is read  *)
(* by the client as it was sent, fits the client's buffer, and leaves the  *)
(* streams of zlib of both ends at the same block.                         *)
(*                                                                         *)
(* A tile is a sequence of tokens.  For each way a tile can go (raw, one   *)
(* colour, runs with and without a palette, packed indices) the client's   *)
(* reader, given the tile's tokens and any others behind them, gives the   *)
(* tile's pixels and leaves the others.  Hence a sequence of tiles is read *)
(* one by one.  The shortest of the estimates bounds the bytes of a tile,  *)
(* and the tiles have as many pixels as the image.                         *)
(***************************************************************************)
EXTENDS RfbCompressed, Numbers_proofs, SequenceTheorems, TLAPS

-----------------------------------------------------------------------------
Tokens == [is : {"pixel"}, v : Nat] \cup [is : {"byte"}, v : Nat]

(* Pixels and bytes are tokens. *)
LEMMA TokensAre ==
  ASSUME NEW v \in Nat
  PROVE  Pixel(v) \in Tokens /\ Byte(v) \in Tokens
BY DEF Pixel, Byte, Tokens

(* What comes behind s. *)
LEMMA RestIsHadBack ==
  ASSUME NEW T, NEW s \in Seq(T), NEW t \in Seq(T)
  PROVE  /\ s \o t \in Seq(T) /\ Len(s \o t) = Len(s) + Len(t)
         /\ SubSeq(s \o t, Len(s) + 1, Len(s \o t)) = t
         /\ Len(s) = 1 => Tail(s \o t) = t
<1>1. /\ Len(s) \in Nat /\ Len(t) \in Nat
      /\ s \o t \in Seq(T) /\ Len(s \o t) = Len(s) + Len(t)
      /\ \A i \in 1..(Len(s) + Len(t)) :
           (s \o t)[i] = IF i <= Len(s) THEN s[i] ELSE t[i - Len(s)]
  BY ConcatProperties, LenProperties
<1> DEFINE u == s \o t
           r == SubSeq(u, Len(s) + 1, Len(u))
<1> HIDE DEF u
<1>2. \A i \in (Len(s) + 1)..Len(u) : u[i] \in T
  BY <1>1, ElementOfSeq DEF u
<1>3. /\ r \in Seq(T) /\ Len(r) = Len(t)
      /\ \A i \in 1..Len(t) : r[i] = u[Len(s) + i]
  <2>1. Len(s) + 1 \in Int /\ Len(u) \in Int
    BY <1>1 DEF u
  <2>2. /\ r \in Seq(T)
        /\ Len(r) = IF Len(s) + 1 <= Len(u) THEN Len(u) - (Len(s) + 1) + 1
                    ELSE 0
        /\ \A i \in 1..(Len(u) - (Len(s) + 1) + 1) : r[i] = u[Len(s) + 1 + i - 1]
    BY <1>2, <2>1, SubSeqProperties
  <2>3. Len(u) - (Len(s) + 1) + 1 = Len(t)
        /\ \A i \in 1..Len(t) : Len(s) + 1 + i - 1 = Len(s) + i
    BY <1>1 DEF u
  <2>4. Len(s) + 1 <= Len(u) <=> Len(t) # 0
    BY <1>1 DEF u
  <2> HIDE DEF r
  <2>5. Len(r) = Len(t)
    BY <1>1, <2>2, <2>3, <2>4
  <2>6. ASSUME NEW i \in 1..Len(t) PROVE r[i] = u[Len(s) + i]
    <3>1. r[i] = u[Len(s) + 1 + i - 1] /\ Len(s) + 1 + i - 1 = Len(s) + i
      BY <2>2, <2>3
    <3>2. QED
      BY <3>1
  <2>7. QED
    BY <2>2, <2>5, <2>6
<1>4. \A i \in 1..Len(t) : u[Len(s) + i] = t[i]
  BY <1>1 DEF u
<1> HIDE DEF r
<1>5. r = t
  BY <1>3, <1>4, SeqEqual
<1>6. ASSUME Len(s) = 1 PROVE Tail(u) = t
  <2>1. u \in Seq(T) /\ u # <<>>
    BY <1>1, <1>6 DEF u
  <2>2. Tail(u) = SubSeq(u, 2, Len(u))
    BY <2>1, TailIsSubSeq
  <2>3. QED
    BY <1>5, <1>6, <2>2 DEF r
<1>7. QED
  BY <1>1, <1>5, <1>6 DEF u, r

-----------------------------------------------------------------------------
(* Lengths in bytes. *)

PixelPlaces(tokens) == {i \in DOMAIN tokens : tokens[i].is = "pixel"}

(* Pixels are counted. *)
LEMMA PixelsAreCounted ==
  ASSUME NEW s \in Seq(Tokens)
  PROVE  /\ PixelPlaces(s) \subseteq 1..Len(s) /\ IsFiniteSet(PixelPlaces(s))
         /\ Cardinality(PixelPlaces(s)) \in 0..Len(s)
<1>1. Len(s) \in Nat /\ DOMAIN s = 1..Len(s)
  BY LenProperties
<1>2. IsFiniteSet(1..Len(s)) /\ Cardinality(1..Len(s)) = Len(s)
  BY <1>1, FS_Interval
<1>3. PixelPlaces(s) \in SUBSET (1..Len(s))
  BY <1>1 DEF PixelPlaces
<1>4. IsFiniteSet(PixelPlaces(s)) /\ Cardinality(PixelPlaces(s)) <= Len(s)
  BY <1>2, <1>3, FS_Subset
<1>5. Cardinality(PixelPlaces(s)) \in Nat
  BY <1>4, FS_CardinalityType
<1>6. QED
  BY <1>1, <1>3, <1>4, <1>5

(* Tokens that are put together have the sum of their lengths. *)
LEMMA BytesAreAdded ==
  ASSUME zrleFormat \in 1..4, NEW s \in Seq(Tokens), NEW t \in Seq(Tokens)
  PROVE  /\ Bytes(s) \in Nat /\ Bytes(t) \in Nat
         /\ Bytes(s \o t) = Bytes(s) + Bytes(t)
<1> DEFINE u == s \o t
           P == PixelPlaces(s)
           Q == PixelPlaces(t)
           R == {j \in (Len(s) + 1)..(Len(s) + Len(t)) : j - Len(s) \in Q}
<1>1. /\ Len(s) \in Nat /\ Len(t) \in Nat
      /\ DOMAIN s = 1..Len(s) /\ DOMAIN t = 1..Len(t)
      /\ u \in Seq(Tokens) /\ Len(u) = Len(s) + Len(t)
      /\ DOMAIN u = 1..(Len(s) + Len(t))
      /\ \A i \in 1..(Len(s) + Len(t)) :
           u[i] = IF i <= Len(s) THEN s[i] ELSE t[i - Len(s)]
  <2>1. u \in Seq(Tokens)
    BY ConcatProperties
  <2>2. QED
    BY <2>1, ConcatProperties, LenProperties
<1>2. /\ P \subseteq 1..Len(s) /\ IsFiniteSet(P) /\ Cardinality(P) \in Nat
      /\ Q \subseteq 1..Len(t) /\ IsFiniteSet(Q) /\ Cardinality(Q) \in Nat
  BY <1>1, PixelsAreCounted
<1> HIDE DEF u
<1>3. PixelPlaces(u) = P \cup R
  <2>1. ASSUME NEW i \in 1..(Len(s) + Len(t))
        PROVE  i \in PixelPlaces(u) <=> i \in P \cup R
    <3>1. CASE i <= Len(s)
      BY <1>1, <3>1 DEF PixelPlaces
    <3>2. CASE ~(i <= Len(s))
      <4>1. i - Len(s) \in 1..Len(t) /\ i \notin P
            /\ i \in (Len(s) + 1)..(Len(s) + Len(t))
        BY <1>1, <1>2, <3>2
      <4>2. i \in PixelPlaces(u) <=> u[i].is = "pixel"
        BY <1>1 DEF PixelPlaces
      <4>3. i \in R <=> t[i - Len(s)].is = "pixel"
        BY <1>1, <4>1 DEF PixelPlaces
      <4>4. u[i] = t[i - Len(s)]
        BY <1>1, <3>2
      <4>5. QED
        BY <4>1, <4>2, <4>3, <4>4
    <3>3. QED
      BY <3>1, <3>2
  <2>2. PixelPlaces(u) \subseteq 1..(Len(s) + Len(t))
    BY <1>1 DEF PixelPlaces
  <2>3. P \cup R \subseteq 1..(Len(s) + Len(t))
    BY <1>1, <1>2
  <2> HIDE DEF P, R
  <2>4. QED
    BY <2>1, <2>2, <2>3
<1>4. IsFiniteSet(R) /\ Cardinality(R) = Cardinality(Q)
  <2> DEFINE f == [i \in Q |-> i + Len(s)]
  <2>1. f \in Bijection(Q, R)
    <3>1. f \in [Q -> R]
      BY <1>1, <1>2
    <3>2. \A i, j \in Q : f[i] = f[j] => i = j
      BY <1>1, <1>2
    <3>3. \A j \in R : j - Len(s) \in Q /\ f[j - Len(s)] = j
      BY <1>1, <1>2
    <3> HIDE DEF f, R, Q
    <3>4. QED
      BY <3>1, <3>2, <3>3 DEF Bijection, Injection, Surjection, IsInjective
  <2>2. ExistsBijection(Q, R)
    BY <2>1 DEF ExistsBijection
  <2> HIDE DEF Q, R
  <2>3. QED
    BY <1>2, <2>2, FS_Bijection
<1>5. P \cap R = {}
  BY <1>1, <1>2
<1>6. Cardinality(PixelPlaces(u)) = Cardinality(P) + Cardinality(Q)
  <2> HIDE DEF P, Q, R
  <2>1. Cardinality(P \cup R)
          = Cardinality(P) + Cardinality(R) - Cardinality(P \cap R)
    BY <1>2, <1>4, FS_Union
  <2>2. Cardinality(P \cap R) = 0
    BY <1>5, FS_EmptySet
  <2>3. Cardinality(PixelPlaces(u)) = Cardinality(P \cup R)
    BY <1>3
  <2>4. QED
    BY <1>2, <1>4, <2>1, <2>2, <2>3
<1>7. /\ Bytes(s) = Len(s) + (zrleFormat - 1) * Cardinality(P)
      /\ Bytes(t) = Len(t) + (zrleFormat - 1) * Cardinality(Q)
      /\ Bytes(u) = Len(u) + (zrleFormat - 1) * Cardinality(PixelPlaces(u))
  BY DEF Bytes, PixelPlaces
<1> HIDE DEF P, Q
<1>8. zrleFormat = 1 \/ zrleFormat = 2 \/ zrleFormat = 3 \/ zrleFormat = 4
  OBVIOUS
<1> DEFINE a == Len(s)
           b == Len(t)
           p == Cardinality(P)
           q == Cardinality(Q)
<1>9. /\ a \in Nat /\ b \in Nat /\ p \in Nat /\ q \in Nat
      /\ Len(u) = a + b /\ Cardinality(PixelPlaces(u)) = p + q
  BY <1>1, <1>2, <1>6
<1>10. Bytes(s) = a + (zrleFormat - 1) * p /\ Bytes(t) = b + (zrleFormat - 1) * q
       /\ Bytes(u) = (a + b) + (zrleFormat - 1) * (p + q)
  BY <1>7, <1>9
<1> HIDE DEF a, b, p, q
<1>11. CASE zrleFormat = 1
  BY <1>9, <1>10, <1>11 DEF u
<1>12. CASE zrleFormat = 2
  BY <1>9, <1>10, <1>12 DEF u
<1>13. CASE zrleFormat = 3
  BY <1>9, <1>10, <1>13 DEF u
<1>14. CASE zrleFormat = 4
  BY <1>9, <1>10, <1>14 DEF u
<1>15. QED
  BY <1>8, <1>11, <1>12, <1>13, <1>14

(* Pixels have the bytes of the format, ... *)
LEMMA BytesOfPixels ==
  ASSUME zrleFormat \in 1..4, NEW n \in Nat, NEW f \in [1..n -> Nat]
  PROVE  LET s == [i \in 1..n |-> Pixel(f[i])]
         IN /\ s \in Seq(Tokens) /\ Len(s) = n
            /\ Bytes(s) = n * zrleFormat
<1> DEFINE s == [i \in 1..n |-> Pixel(f[i])]
<1>1. s \in Seq(Tokens) /\ Len(s) = n /\ DOMAIN s = 1..n
  <2>1. \A i \in 1..n : Pixel(f[i]) \in Tokens
    BY TokensAre
  <2>2. QED
    BY <2>1
<1>2. PixelPlaces(s) = 1..n
  BY <1>1 DEF PixelPlaces, Pixel
<1>3. Cardinality(1..n) = n
  BY FS_Interval
<1>4. Bytes(s) = n + (zrleFormat - 1) * n
  BY <1>1, <1>2, <1>3 DEF Bytes, PixelPlaces
<1>5. zrleFormat = 1 \/ zrleFormat = 2 \/ zrleFormat = 3 \/ zrleFormat = 4
  OBVIOUS
<1>6. Bytes(s) = n * zrleFormat
  BY <1>4, <1>5
<1> HIDE DEF s
<1>7. QED
  BY <1>1, <1>6 DEF s

(* ... and bytes one each. *)
LEMMA BytesOfBytes ==
  ASSUME zrleFormat \in 1..4, NEW s \in Seq(Tokens), \A i \in 1..Len(s) : s[i].is = "byte"
  PROVE  Bytes(s) = Len(s)
<1>1. Len(s) \in Nat /\ DOMAIN s = 1..Len(s)
  BY LenProperties
<1>2. PixelPlaces(s) = {}
  BY <1>1 DEF PixelPlaces
<1>3. Cardinality({}) = 0
  BY FS_EmptySet
<1>4. Bytes(s) = Len(s) + (zrleFormat - 1) * Cardinality(PixelPlaces(s))
  BY DEF Bytes, PixelPlaces
<1>5. zrleFormat - 1 \in Int /\ Cardinality(PixelPlaces(s)) = 0
  BY <1>2, <1>3
<1> HIDE DEF PixelPlaces
<1>6. (zrleFormat - 1) * Cardinality(PixelPlaces(s)) = 0
  BY <1>5
<1>7. QED
  BY <1>1, <1>4, <1>6

-----------------------------------------------------------------------------
(* A function that is defined step by step is there. *)
StepsFrom(f, a, n, g) ==
  f = [i \in 0..n |-> IF i = 0 THEN a ELSE g[<<i, f[i - 1]>>]]

(* A function that is computed step by step exists. *)
LEMMA StepsExist ==
  ASSUME NEW T, NEW a \in T, NEW n \in Nat, NEW g \in [(1..n) \X T -> T]
  PROVE  \E f \in [0..n -> T] : StepsFrom(f, a, n, g)
<1> DEFINE Steps(f, m) == f[0] = a /\ \A i \in 1..m : f[i] = g[<<i, f[i - 1]>>]
           S == {m \in Nat : m <= n => \E f \in [0..m -> T] : Steps(f, m)}
<1>1. 0 \in S
  <2> DEFINE f == [i \in 0..0 |-> a]
  <2>1. f \in [0..0 -> T] /\ Steps(f, 0)
    OBVIOUS
  <2> HIDE DEF f, Steps
  <2>2. QED
    BY <2>1
<1>2. ASSUME NEW m \in Nat, m \in S PROVE m + 1 \in S
  <2>1. SUFFICES ASSUME m + 1 <= n
                 PROVE  \E f \in [0..(m + 1) -> T] : Steps(f, m + 1)
    OBVIOUS
  <2>2. PICK f \in [0..m -> T] : Steps(f, m)
    BY <1>2, <2>1
  <2> DEFINE last == g[<<m + 1, f[m]>>]
             h == [i \in 0..(m + 1) |-> IF i = m + 1 THEN last ELSE f[i]]
  <2>3. last \in T
    <3>1. f[m] \in T /\ m + 1 \in 1..n
      BY <2>1
    <3>2. QED
      BY <3>1
  <2> HIDE DEF last
  <2>4. h \in [0..(m + 1) -> T]
    BY <2>3
  <2>5. ASSUME NEW i \in 1..(m + 1) PROVE h[i] = g[<<i, h[i - 1]>>]
    <3>1. h[i - 1] = f[i - 1]
      OBVIOUS
    <3>2. CASE i = m + 1
      <4>1. h[i] = last /\ i - 1 = m
        BY <3>2
      <4>2. QED
        BY <3>1, <3>2, <4>1 DEF last
    <3>3. CASE i # m + 1
      <4>1. h[i] = f[i] /\ i \in 1..m
        BY <3>3
      <4>2. QED
        BY <2>2, <3>1, <4>1
    <3>4. QED
      BY <3>2, <3>3
  <2>6. h[0] = a
    BY <2>2
  <2> HIDE DEF h
  <2>7. QED
    BY <2>4, <2>5, <2>6
<1>3. n \in S
  <2> HIDE DEF S
  <2>1. QED
    BY <1>1, <1>2, SetInduction
<1>4. PICK f \in [0..n -> T] : Steps(f, n)
  BY <1>3
<1>5. ASSUME NEW i \in 0..n
      PROVE  f[i] = IF i = 0 THEN a ELSE g[<<i, f[i - 1]>>]
  BY <1>4
<1>6. StepsFrom(f, a, n, g)
  BY <1>5 DEF StepsFrom
<1>7. QED
  BY <1>6

(* Sequences put together in either order. *)
LEMMA PartsAreGrouped ==
  ASSUME NEW U, NEW u \in Seq(U), NEW v \in Seq(U), NEW w \in Seq(U)
  PROVE  u \o v \in Seq(U) /\ (u \o v) \o w = u \o (v \o w)
<1>1. u \o v \in Seq(U)
  BY ConcatProperties
<1>2. (u \o v) \o w = u \o (v \o w)
  BY ConcatAssociative
<1>3. QED
  BY <1>1, <1>2

(* The same, of all sequences over a set. *)
IsGrouped(U) ==
  \A u, v, w \in Seq(U) : u \o v \in Seq(U) /\ (u \o v) \o w = u \o (v \o w)

LEMMA ListsAreGrouped ==
  ASSUME NEW U
  PROVE  IsGrouped(U)
<1> SUFFICES ASSUME NEW u \in Seq(U), NEW v \in Seq(U), NEW w \in Seq(U)
             PROVE  u \o v \in Seq(U) /\ (u \o v) \o w = u \o (v \o w)
  BY DEF IsGrouped
<1>1. QED
  BY PartsAreGrouped

PartsOf(n, T) == [1..n -> Seq(T)]

RestsOf(n, T) == [0..n -> Seq(T)]

(* A function of 1..n is a sequence of n elements. *)
LEMMA ListOf ==
  ASSUME NEW n \in Nat, NEW f, f = [i \in 1..n |-> f[i]]
  PROVE  Len(f) = n /\ DOMAIN f = 1..n
OBVIOUS

Follow(from, parts, n, t) ==
  /\ from[n] = t
  /\ \A k \in 1..n : from[k - 1] = parts[k] \o from[k]
  /\ ZrleSeqs!FlattenSeq(parts) \o t = from[0]

(* Parts that are put together can be taken off one by one.               *)
LEMMA PartsFollow ==
  ASSUME NEW T, NEW n \in Nat, NEW parts \in PartsOf(n, T), NEW t \in Seq(T)
  PROVE  /\ ZrleSeqs!FlattenSeq(parts) \in Seq(T)
         /\ \E from \in RestsOf(n, T) : Follow(from, parts, n, t)
<1> SUFFICES \E from \in RestsOf(n, T) :
               /\ from[n] = t
               /\ \A k \in 1..n : from[k - 1] = parts[k] \o from[k]
               /\ ZrleSeqs!FlattenSeq(parts) \in Seq(T)
               /\ ZrleSeqs!FlattenSeq(parts) \o t = from[0]
  BY DEF Follow
<1>1. Len(parts) = n
  <2>1. parts = [k \in 1..n |-> parts[k]]
    BY DEF PartsOf
  <2>2. QED
    BY <2>1, ListOf
<1>2. PICK from \in RestsOf(n, T) :
        from[n] = t /\ \A k \in 1..n : from[k - 1] = parts[k] \o from[k]
  <2>0. \A k \in 1..n : parts[k] \in Seq(T)
    BY DEF PartsOf
  <2> DEFINE g == [p \in (1..n) \X Seq(T) |-> parts[n - p[1] + 1] \o p[2]]
  <2>1. g \in [(1..n) \X Seq(T) -> Seq(T)]
    <3>1. ASSUME NEW i \in 1..n, NEW s \in Seq(T)
          PROVE  parts[n - i + 1] \o s \in Seq(T)
      <4>1. n - i + 1 \in 1..n
        OBVIOUS
      <4>2. parts[n - i + 1] \in Seq(T)
        BY <2>0, <4>1
      <4>3. QED
        BY <4>2, ConcatProperties
    <3>2. QED
      BY <3>1
  <2>2. PICK f \in [0..n -> Seq(T)] : StepsFrom(f, t, n, g)
    <3> HIDE DEF g
    <3>1. QED
      BY <2>1, StepsExist
  <2> DEFINE r == [k \in 0..n |-> f[n - k]]
  <2>3. r \in [0..n -> Seq(T)] /\ r[n] = t
    <3>1. f[0] = t
      <4> HIDE DEF g
      <4>1. QED
        BY <2>2 DEF StepsFrom
    <3>2. QED
      BY <2>2, <3>1
  <2>4. ASSUME NEW k \in 1..n PROVE r[k - 1] = parts[k] \o r[k]
    <3> DEFINE i == n - k + 1
    <3>1. i \in 1..n /\ i \in 0..n /\ i # 0 /\ i - 1 = n - k /\ n - i + 1 = k
          /\ n - (k - 1) = i /\ k - 1 \in 0..n /\ k \in 0..n
      OBVIOUS
    <3>2. r[k - 1] = f[i] /\ r[k] = f[i - 1] /\ f[i - 1] \in Seq(T)
      BY <3>1
    <3> HIDE DEF i, g
    <3>3. f[i] = g[<<i, f[i - 1]>>]
      BY <2>2, <3>1 DEF StepsFrom
    <3>4. g[<<i, f[i - 1]>>] = parts[n - i + 1] \o f[i - 1]
      BY <3>1, <3>2 DEF g
    <3>5. QED
      BY <3>1, <3>2, <3>3, <3>4
  <2> HIDE DEF r
  <2>5. r \in RestsOf(n, T)
    BY <2>3 DEF RestsOf
  <2>6. QED
    BY <2>3, <2>4, <2>5
<1>6. \A u, v, w \in Seq(T) :
        u \o v \in Seq(T) /\ (u \o v) \o w = u \o (v \o w)
  <2>1. IsGrouped(T)
    BY ListsAreGrouped, Zenon
  <2>2. QED
    BY <2>1, Zenon DEF IsGrouped
<1>3. CASE n = 0
  <2>1. ZrleSeqs!FlattenSeq(parts) = parts
    BY <1>1, <1>3 DEF ZrleSeqs!FlattenSeq
  <2>2. parts \in Seq(Seq(T)) /\ parts = <<>>
    <3>1. parts \in Seq(Seq(T))
      BY DEF PartsOf
    <3>2. QED
      BY <1>1, <1>3, <3>1, EmptySeq
  <2>3. <<>> \in Seq(T) /\ <<>> \o t = t
    BY ConcatEmptySeq
  <2>4. QED
    BY <1>2, <1>3, <2>1, <2>2, <2>3
<1>4. CASE n # 0
  <2> DEFINE Flattens(f) ==
               f = [i \in 1..n |-> IF i = 1 THEN parts[i] ELSE f[i - 1] \o parts[i]]
             flat == CHOOSE f : Flattens(f)
  <2>0. \A k \in 1..n : parts[k] \in Seq(T)
    BY DEF PartsOf
  <2>1. \E f : Flattens(f)
    <3> DEFINE g == [p \in (1..n) \X Seq(T) |-> p[2] \o parts[p[1]]]
    <3>1. g \in [(1..n) \X Seq(T) -> Seq(T)]
      <4>1. ASSUME NEW i \in 1..n, NEW s \in Seq(T)
            PROVE  s \o parts[i] \in Seq(T)
        <5>1. parts[i] \in Seq(T)
          BY <2>0
        <5>2. QED
          BY <5>1, ConcatProperties
      <4>2. QED
        BY <4>1
    <3>2. <<>> \in Seq(T)
      OBVIOUS
    <3>3. PICK h \in [0..n -> Seq(T)] : StepsFrom(h, <<>>, n, g)
      <4> HIDE DEF g
      <4>1. QED
        BY <3>1, <3>2, StepsExist
    <3>4. ASSUME NEW i \in 1..n
          PROVE  h[i] = IF i = 1 THEN parts[i] ELSE h[i - 1] \o parts[i]
      <4>1. i \in 0..n /\ i # 0 /\ i - 1 \in 0..n
        OBVIOUS
      <4>2. h[i - 1] \in Seq(T) /\ parts[i] \in Seq(T)
        BY <2>0, <4>1
      <4>3. h[i] = g[<<i, h[i - 1]>>]
        <5> HIDE DEF g
        <5>1. QED
          BY <3>3, <4>1 DEF StepsFrom
      <4>4. h[i] = h[i - 1] \o parts[i]
        BY <4>2, <4>3
      <4>5. h[0] = <<>>
        <5> HIDE DEF g
        <5>1. QED
          BY <3>3 DEF StepsFrom
      <4>6. <<>> \o parts[i] = parts[i]
        BY <4>2, ConcatEmptySeq
      <4>7. CASE i = 1
        <5>1. h[i - 1] = <<>>
          BY <4>5, <4>7
        <5>2. QED
          BY <4>4, <4>6, <4>7, <5>1
      <4>8. QED
        BY <4>4, <4>7
    <3> DEFINE f == [i \in 1..n |-> h[i]]
    <3>5. ASSUME NEW i \in 1..n
          PROVE  f[i] = IF i = 1 THEN parts[i] ELSE f[i - 1] \o parts[i]
      <4>1. i # 1 => f[i - 1] = h[i - 1]
        OBVIOUS
      <4>2. QED
        BY <3>4, <4>1
    <3>6. f = [i \in 1..n |-> f[i]]
      OBVIOUS
    <3> HIDE DEF f
    <3>7. Flattens(f)
      BY <3>5, <3>6
    <3>8. QED
      BY <3>7
  <2>2. Flattens(flat)
    BY <2>1
  <2>3. ZrleSeqs!FlattenSeq(parts) = flat[n]
    BY <1>1, <1>4 DEF ZrleSeqs!FlattenSeq
  <2> HIDE DEF flat
  <2>4. ASSUME NEW i \in 1..n
        PROVE  flat[i] = IF i = 1 THEN parts[i] ELSE flat[i - 1] \o parts[i]
    BY <2>2
  <2> DEFINE Put(i) == flat[i] \in Seq(T) /\ flat[i] \o from[i] = from[0]
             S == {i \in Nat : i + 1 <= n => Put(i + 1)}
  <2>5. 0 \in S
    <3>1. 1 \in 1..n
      BY <1>4
    <3>2. flat[1] = parts[1] /\ parts[1] \in Seq(T)
      BY <2>0, <2>4, <3>1
    <3>3. from[0] = parts[1] \o from[1]
      <4>1. from[1 - 1] = parts[1] \o from[1]
        BY <1>2, <3>1
      <4>2. 1 - 1 = 0
        OBVIOUS
      <4>3. QED
        BY <4>1, <4>2, Zenon
    <3>4. Put(1)
      BY <3>2, <3>3
    <3>5. 0 + 1 = 1
      OBVIOUS
    <3> HIDE DEF Put
    <3>6. QED
      BY <3>4, <3>5
  <2>6. ASSUME NEW i \in Nat, i \in S PROVE i + 1 \in S
    <3>1. SUFFICES ASSUME (i + 1) + 1 <= n PROVE Put((i + 1) + 1)
      <4> HIDE DEF Put
      <4>1. QED
        OBVIOUS
    <3> DEFINE k == i + 2
    <3>2. k \in 1..n /\ k # 1 /\ k - 1 = i + 1 /\ k = (i + 1) + 1
          /\ k \in 0..n
      BY <3>1
    <3>3. Put(i + 1)
      <4> HIDE DEF Put
      <4>1. i + 1 <= n
        BY <3>1
      <4>2. QED
        BY <2>6, <4>1
    <3> HIDE DEF k
    <3>4. flat[k] = flat[i + 1] \o parts[k] /\ parts[k] \in Seq(T)
          /\ from[k] \in Seq(T)
      BY <2>0, <2>4, <3>2 DEF RestsOf
    <3>5. from[i + 1] = parts[k] \o from[k]
      BY <1>2, <3>2
    <3> DEFINE x == flat[i + 1]
               y == parts[k]
               z == from[k]
    <3>6. x \in Seq(T) /\ y \in Seq(T) /\ z \in Seq(T)
      BY <3>3, <3>4
    <3> HIDE DEF x, y, z
    <3>7. x \o y \in Seq(T) /\ (x \o y) \o z = x \o (y \o z)
      BY <1>6, <3>6
    <3>8. flat[k] \o from[k] = from[0]
      BY <3>3, <3>4, <3>5, <3>7 DEF x, y, z
    <3>9. flat[k] \in Seq(T)
      BY <3>4, <3>7 DEF x, y
    <3>10. QED
      BY <3>2, <3>8, <3>9
  <2>7. Put(n)
    <3>1. n - 1 \in S
      <4>1. n - 1 \in Nat
        BY <1>4
      <4> HIDE DEF S
      <4>2. QED
        BY <2>5, <2>6, <4>1, SetInduction
    <3>2. (n - 1) + 1 = n /\ (n - 1) + 1 <= n
      OBVIOUS
    <3> HIDE DEF Put
    <3>3. Put((n - 1) + 1)
      BY <3>1, <3>2
    <3>4. QED
      BY <3>2, <3>3, Zenon
  <2>8. QED
    BY <1>2, <2>3, <2>7
<1>5. QED
  BY <1>3, <1>4

-----------------------------------------------------------------------------
(* The least and the greatest, as the encoding has them. *)
LEMMA LeastOfPlaces ==
  ASSUME NEW S \in SUBSET Nat, NEW m \in S, \A y \in S : m <= y
  PROVE  ZrleSets!Min(S) = m
<1>1. \A x, y \in Nat : x <= y /\ y <= x => x = y
  OBVIOUS
<1>2. QED
  BY <1>1 DEF ZrleSets!Min

(* A set of numbers has a least. *)
LEMMA ZrleLeast ==
  ASSUME NEW S \in SUBSET Nat, S # {}
  PROVE  ZrleSets!Min(S) \in S /\ \A y \in S : ZrleSets!Min(S) <= y
<1>1. \E m \in S : \A y \in S : m <= y
  BY SomeIsLeast
<1>2. QED
  BY <1>1 DEF ZrleSets!Min

(* A bounded set of numbers has a greatest. *)
LEMMA ZrleGreatest ==
  ASSUME NEW S \in SUBSET Nat, S # {}, NEW b \in Nat, \A y \in S : y <= b
  PROVE  ZrleSets!Max(S) \in S /\ \A y \in S : y <= ZrleSets!Max(S)
<1>1. PICK m \in S : \A y \in S : m >= y
  BY SomeIsGreatest
<1>2. \A x \in S : (\A y \in S : x >= y) => x = m
  BY <1>1
<1>3. ZrleSets!Max(S) = m
  BY <1>1, <1>2 DEF ZrleSets!Max
<1>4. QED
  BY <1>1, <1>3

(* The smaller of two numbers. *)
LEMMA SmallerOfTwo ==
  ASSUME NEW a \in Nat, NEW b \in Nat
  PROVE  ZrleSets!Min({a, b}) = IF a <= b THEN a ELSE b
<1>1. CASE a <= b
  BY <1>1, LeastOfPlaces
<1>2. CASE ~(a <= b)
  <2>1. \A y \in {a, b} : b <= y
    BY <1>2
  <2>2. QED
    BY <1>2, <2>1, LeastOfPlaces
<1>3. QED
  BY <1>1, <1>2

-----------------------------------------------------------------------------
(* Runs. *)

(* A run is of equal pixels, and as long as there are any. *)
LEMMA RunIs ==
  ASSUME NEW px \in Seq(Nat), NEW i \in 1..Len(px)
  PROVE  LET len == RunFrom(px, i)
         IN /\ len \in 1..(Len(px) - i + 1)
            /\ \A k \in i..(i + len - 1) : px[k] = px[i]
            /\ \A n \in 1..(Len(px) - i + 1) :
                 (\A k \in i..(i + n - 1) : px[k] = px[i]) => n <= len
<1> DEFINE S == {n \in 1..(Len(px) - i + 1) :
                   \A k \in i..(i + n - 1) : px[k] = px[i]}
<1>1. Len(px) \in Nat
  BY LenProperties
<1>2. 1 \in S
  BY <1>1
<1>3. S \in SUBSET Nat /\ Len(px) - i + 1 \in Nat
      /\ \A y \in S : y <= Len(px) - i + 1
  BY <1>1
<1>4. RunFrom(px, i) = ZrleSets!Max(S)
  BY DEF RunFrom
<1> HIDE DEF S
<1>5. RunFrom(px, i) \in S /\ \A y \in S : y <= RunFrom(px, i)
  BY <1>2, <1>3, <1>4, ZrleGreatest
<1>6. QED
  BY <1>5 DEF S

(* A run from the pixel before a start is that pixel, and from any other,  *)
(* one more than from the next.                                            *)
LEMMA RunsFollow ==
  ASSUME NEW px \in Seq(Nat), NEW i \in 1..Len(px)
  PROVE  RunFrom(px, i) = IF i = Len(px) THEN 1
                          ELSE IF Starts(px, i + 1) THEN 1
                          ELSE RunFrom(px, i + 1) + 1
<1> DEFINE n == Len(px)
           len == RunFrom(px, i)
<1>1. n \in Nat
  BY LenProperties
<1>2. /\ len \in 1..(n - i + 1)
      /\ \A k \in i..(i + len - 1) : px[k] = px[i]
      /\ \A m \in 1..(n - i + 1) :
           (\A k \in i..(i + m - 1) : px[k] = px[i]) => m <= len
  BY RunIs
<1> HIDE DEF len
<1>3. CASE i = n
  BY <1>1, <1>2, <1>3 DEF len
<1>4. CASE i # n /\ Starts(px, i + 1)
  <2>1. px[i + 1] # px[i]
    BY <1>1, <1>4 DEF Starts
  <2>2. ~(len >= 2)
    <3>1. len >= 2 => i + 1 \in i..(i + len - 1)
      BY <1>1, <1>2
    <3>2. QED
      BY <1>2, <2>1, <3>1
  <2>3. QED
    BY <1>2, <1>4, <2>2 DEF len
<1>5. CASE i # n /\ ~Starts(px, i + 1)
  <2> DEFINE next == RunFrom(px, i + 1)
  <2>1. i + 1 \in 1..n /\ px[i + 1] = px[i]
    BY <1>1, <1>5 DEF Starts
  <2>2. /\ next \in 1..(n - (i + 1) + 1)
        /\ \A k \in (i + 1)..(i + 1 + next - 1) : px[k] = px[i + 1]
        /\ \A m \in 1..(n - (i + 1) + 1) :
             (\A k \in (i + 1)..(i + 1 + m - 1) : px[k] = px[i + 1]) => m <= next
    BY <2>1, RunIs
  <2> HIDE DEF next
  <2>3. next + 1 <= len
    <3>1. next + 1 \in 1..(n - i + 1)
      BY <1>1, <2>2
    <3>2. ASSUME NEW k \in i..(i + (next + 1) - 1) PROVE px[k] = px[i]
      <4>1. k = i \/ k \in (i + 1)..(i + 1 + next - 1)
        BY <2>2
      <4>2. QED
        BY <2>1, <2>2, <4>1
    <3>3. QED
      BY <1>2, <3>1, <3>2
  <2>4. len - 1 <= next
    <3>1. CASE len = 1
      BY <2>2, <3>1
    <3>2. CASE len # 1
      <4> DEFINE m == len - 1
      <4>1. m \in 1..(n - (i + 1) + 1)
        BY <1>1, <1>2, <3>2
      <4>2. ASSUME NEW k \in (i + 1)..(i + 1 + m - 1) PROVE px[k] = px[i + 1]
        <5>1. k \in i..(i + len - 1)
          BY <1>2
        <5>2. QED
          BY <1>2, <2>1, <5>1
      <4> HIDE DEF m
      <4>3. m <= next
        BY <2>2, <4>1, <4>2
      <4>4. QED
        BY <4>3 DEF m
    <3>3. QED
      BY <3>1, <3>2
  <2>5. len = next + 1
    BY <1>2, <2>2, <2>3, <2>4
  <2>6. QED
    BY <1>5, <2>5 DEF len, next
<1>6. QED
  BY <1>3, <1>4, <1>5

-----------------------------------------------------------------------------
(* The length of a run. *)
LEMMA LengthOfRunIs ==
  ASSUME NEW len \in Nat \ {0}, NEW q, q = (len - 1) \div MaxRunByte,
         NEW r, r = (len - 1) % MaxRunByte
  PROVE  /\ q \in Nat /\ r \in 0..(MaxRunByte - 1)
         /\ len - 1 = q * MaxRunByte + r
         /\ RunLength(len) \in Seq(Tokens) /\ Len(RunLength(len)) = q + 1
         /\ \A i \in 1..q : RunLength(len)[i] = Byte(MaxRunByte)
         /\ RunLength(len)[q + 1] = Byte(r)
<1> DEFINE a == [i \in 1..q |-> Byte(MaxRunByte)]
           b == <<Byte(r)>>
<1>1. MaxRunByte \in Nat \ {0}
  BY CompressedAssumption
<1>2. /\ q \in Nat /\ r \in 0..(MaxRunByte - 1)
      /\ len - 1 = q * MaxRunByte + r
  <2>1. len - 1 \in Nat
    OBVIOUS
  <2>2. QED
    BY <1>1, <2>1, Division
<1>3. RunLength(len) = a \o b
  BY DEF RunLength
<1>4. a \in Seq(Tokens) /\ Len(a) = q
  <2>1. Byte(MaxRunByte) \in Tokens
    BY <1>1, TokensAre
  <2>2. QED
    BY <1>2, <2>1
<1>5. b \in Seq(Tokens) /\ Len(b) = 1
  <2>1. Byte(r) \in Tokens
    BY <1>1, <1>2, TokensAre
  <2>2. QED
    BY <2>1
<1>6. /\ \A i \in 1..q : a[i] = Byte(MaxRunByte)
      /\ b[1] = Byte(r)
  OBVIOUS
<1> HIDE DEF a, b
<1>7. /\ a \o b \in Seq(Tokens) /\ Len(a \o b) = q + 1
      /\ \A i \in 1..(q + 1) : (a \o b)[i] = IF i <= q THEN a[i] ELSE b[i - q]
  <2>1. /\ a \o b \in Seq(Tokens) /\ Len(a \o b) = Len(a) + Len(b)
        /\ \A i \in 1..(Len(a) + Len(b)) :
             (a \o b)[i] = IF i <= Len(a) THEN a[i] ELSE b[i - Len(a)]
    BY <1>4, <1>5, ConcatProperties
  <2>2. QED
    BY <1>4, <1>5, <2>1
<1>8. \A i \in 1..q : (a \o b)[i] = Byte(MaxRunByte)
  BY <1>2, <1>6, <1>7
<1>9. (a \o b)[q + 1] = Byte(r)
  <2>1. q + 1 \in 1..(q + 1) /\ ~(q + 1 <= q) /\ (q + 1) - q = 1
    BY <1>2
  <2>2. (a \o b)[q + 1] = b[(q + 1) - q]
    BY <1>7, <2>1
  <2>3. QED
    BY <1>6, <2>1, <2>2
<1>10. QED
  BY <1>2, <1>3, <1>7, <1>8, <1>9

(* A head and a length are read back as they were. *)
LEMMA LengthIsRead ==
  ASSUME NEW len \in Nat \ {0}, NEW head \in Tokens, NEW t \in Seq(Tokens)
  PROVE  LET u    == <<head>> \o RunLength(len)
             s    == u \o t
             ends == {i \in 2..Len(s) : s[i] # Byte(MaxRunByte)}
             last == ZrleSets!Min(ends)
         IN /\ u \in Seq(Tokens) /\ s \in Seq(Tokens) /\ s # <<>> /\ s[1] = head
            /\ ends # {} /\ s[last].is = "byte"
            /\ 1 + (last - 2) * MaxRunByte + s[last].v = len
            /\ SubSeq(s, last + 1, Len(s)) = t
<1> DEFINE q == (len - 1) \div MaxRunByte
           r == (len - 1) % MaxRunByte
           rl == RunLength(len)
           u == <<head>> \o rl
           s == u \o t
           ends == {i \in 2..Len(s) : s[i] # Byte(MaxRunByte)}
           last == ZrleSets!Min(ends)
<1>1. MaxRunByte \in Nat \ {0}
  BY CompressedAssumption
<1>2. /\ q \in Nat /\ r \in 0..(MaxRunByte - 1)
      /\ len - 1 = q * MaxRunByte + r
      /\ rl \in Seq(Tokens) /\ Len(rl) = q + 1
      /\ \A i \in 1..q : rl[i] = Byte(MaxRunByte)
      /\ rl[q + 1] = Byte(r)
  BY LengthOfRunIs, Zenon
<1> HIDE DEF rl, q, r
<1>3. <<head>> \in Seq(Tokens) /\ Len(<<head>>) = 1 /\ <<head>>[1] = head
  OBVIOUS
<1>4. /\ u \in Seq(Tokens) /\ Len(u) = q + 2
      /\ \A i \in 1..(q + 2) : u[i] = IF i <= 1 THEN head ELSE rl[i - 1]
  <2> DEFINE h == <<head>>
  <2>1. h \in Seq(Tokens) /\ Len(h) = 1 /\ h[1] = head
    BY <1>3
  <2> HIDE DEF h
  <2>2. /\ h \o rl \in Seq(Tokens) /\ Len(h \o rl) = 1 + (q + 1)
        /\ \A i \in 1..(1 + (q + 1)) :
             (h \o rl)[i] = IF i <= 1 THEN h[i] ELSE rl[i - 1]
    <3>1. /\ h \o rl \in Seq(Tokens) /\ Len(h \o rl) = Len(h) + Len(rl)
          /\ \A i \in 1..(Len(h) + Len(rl)) :
               (h \o rl)[i] = IF i <= Len(h) THEN h[i] ELSE rl[i - Len(h)]
      BY <1>2, <2>1, ConcatProperties
    <3>2. QED
      BY <1>2, <2>1, <3>1
  <2>3. 1 + (q + 1) = q + 2
    BY <1>2
  <2>4. \A i \in 1..(q + 2) : i <= 1 => i = 1
    BY <1>2
  <2>5. QED
    BY <2>1, <2>2, <2>3, <2>4 DEF h
<1> HIDE DEF u
<1>5. /\ u[1] = head /\ u[q + 2] = Byte(r)
      /\ \A i \in 2..(q + 1) : u[i] = Byte(MaxRunByte)
  BY <1>2, <1>4
<1>6. /\ s \in Seq(Tokens) /\ Len(s) = q + 2 + Len(t) /\ Len(t) \in Nat
      /\ SubSeq(s, q + 2 + 1, Len(s)) = t
      /\ \A i \in 1..(q + 2) : s[i] = u[i]
  <2>1. /\ s \in Seq(Tokens) /\ Len(s) = Len(u) + Len(t)
        /\ SubSeq(s, Len(u) + 1, Len(s)) = t
    BY <1>4, RestIsHadBack
  <2>2. Len(t) \in Nat
    BY LenProperties
  <2>3. \A i \in 1..(Len(u) + Len(t)) :
          s[i] = IF i <= Len(u) THEN u[i] ELSE t[i - Len(u)]
    BY <1>4, ConcatProperties
  <2> HIDE DEF s
  <2>4. QED
    BY <1>2, <1>4, <2>1, <2>2, <2>3
<1> HIDE DEF s
<1>7. s[1] = head /\ s[q + 2] = Byte(r)
      /\ \A i \in 2..(q + 1) : s[i] = Byte(MaxRunByte)
  BY <1>2, <1>5, <1>6
<1>8. Byte(r) # Byte(MaxRunByte) /\ Byte(r).is = "byte" /\ Byte(r).v = r
  BY <1>1, <1>2 DEF Byte
<1>9. q + 2 \in ends
  BY <1>2, <1>6, <1>7, <1>8
<1>10. ends \in SUBSET Nat /\ \A y \in ends : q + 2 <= y
  <2>1. ASSUME NEW y \in ends PROVE q + 2 <= y
    <3>1. y \in 2..Len(s) /\ s[y] # Byte(MaxRunByte)
      OBVIOUS
    <3>2. y \notin 2..(q + 1)
      BY <1>7, <3>1
    <3>3. QED
      BY <1>2, <1>6, <3>1, <3>2
  <2>2. QED
    BY <1>6, <2>1
<1> HIDE DEF ends
<1>11. last = q + 2
  BY <1>9, <1>10, LeastOfPlaces
<1>12. s # <<>>
  BY <1>2, <1>6
<1>13. 1 + (last - 2) * MaxRunByte + s[last].v = len
  <2>1. last - 2 = q /\ s[last].v = r
    BY <1>2, <1>7, <1>8, <1>11
  <2>2. q * MaxRunByte \in Nat
    BY <1>1, <1>2
  <2>3. QED
    BY <1>2, <2>1, <2>2
<1>14. s[last].is = "byte" /\ SubSeq(s, last + 1, Len(s)) = t
  BY <1>6, <1>7, <1>8, <1>11
<1> HIDE DEF last
<1>15. QED
  BY <1>4, <1>6, <1>7, <1>9, <1>12, <1>13, <1>14 DEF last, ends, s, u, rl

-----------------------------------------------------------------------------
(* Tokens alone. *)
LEMMA OneToken ==
  ASSUME zrleFormat \in 1..4, NEW v \in Nat
  PROVE  /\ <<Pixel(v)>> \in Seq(Tokens) /\ Len(<<Pixel(v)>>) = 1
         /\ <<Byte(v)>> \in Seq(Tokens) /\ Len(<<Byte(v)>>) = 1
         /\ Bytes(<<Pixel(v)>>) = zrleFormat /\ Bytes(<<Byte(v)>>) = 1
<1>1. Pixel(v) \in Tokens /\ Byte(v) \in Tokens
  BY TokensAre
<1> DEFINE p == <<Pixel(v)>>
           b == <<Byte(v)>>
<1>2. /\ p \in Seq(Tokens) /\ Len(p) = 1 /\ b \in Seq(Tokens) /\ Len(b) = 1
      /\ DOMAIN p = 1..1 /\ p[1].is = "pixel"
      /\ \A i \in 1..1 : b[i].is = "byte"
  BY <1>1 DEF Pixel, Byte
<1> HIDE DEF p, b
<1>3. Bytes(b) = 1
  BY <1>2, BytesOfBytes
<1>4. Bytes(p) = zrleFormat
  <2>1. PixelPlaces(p) = {1}
    BY <1>2 DEF PixelPlaces
  <2>2. Cardinality({1}) = 1
    BY FS_Singleton
  <2>3. Bytes(p) = 1 + (zrleFormat - 1) * 1
    BY <1>2, <2>1, <2>2 DEF Bytes, PixelPlaces
  <2>4. QED
    BY <2>3
<1>5. QED
  BY <1>2, <1>3, <1>4 DEF p, b

-----------------------------------------------------------------------------
(* A palette, and one that a tile can use. *)
IsPalette(palette) == palette \in Seq(Nat) /\ Len(palette) <= 127

HasColour(palette, c) == \E i \in DOMAIN palette : palette[i] = c

(* The index of a palette's colour finds it. *)
LEMMA IndexIs ==
  ASSUME NEW palette, IsPalette(palette), NEW c, HasColour(palette, c)
  PROVE  /\ palette # <<>>
         /\ ZrleIndex(palette, c) \in 0..(Len(palette) - 1)
         /\ palette[ZrleIndex(palette, c) + 1] = c
<1>1. Len(palette) \in Nat /\ DOMAIN palette = 1..Len(palette)
  BY LenProperties DEF IsPalette
<1> DEFINE i == CHOOSE i \in DOMAIN palette : palette[i] = c
<1>2. i \in DOMAIN palette /\ palette[i] = c
  BY DEF HasColour
<1>3. ZrleIndex(palette, c) = i - 1
  BY DEF ZrleIndex
<1> HIDE DEF i
<1>4. i \in 1..Len(palette) /\ (i - 1) + 1 = i
  BY <1>1, <1>2
<1>5. palette # <<>>
  BY <1>1, <1>4
<1>6. QED
  BY <1>2, <1>3, <1>4, <1>5

(* The tokens of a run are tokens. *)
LEMMA RunHasTokens ==
  ASSUME zrleFormat \in 1..4, NEW c \in Nat, NEW len \in Nat \ {0},
         NEW palette, IsPalette(palette),
         palette = <<>> \/ HasColour(palette, c)
  PROVE  /\ RunTokens(c, len, palette) \in Seq(Tokens)
         /\ Bytes(RunTokens(c, len, palette)) \in Nat
         /\ Bytes(RunTokens(c, len, palette))
              <= (IF palette = <<>> THEN zrleFormat ELSE 0) + len
<1> DEFINE q == (len - 1) \div MaxRunByte
           r == (len - 1) % MaxRunByte
           index == ZrleIndex(palette, c)
           rl == RunLength(len)
<1>1. /\ q \in Nat /\ r \in 0..(MaxRunByte - 1)
      /\ len - 1 = q * MaxRunByte + r
      /\ rl \in Seq(Tokens) /\ Len(rl) = q + 1
      /\ \A i \in 1..q : rl[i] = Byte(MaxRunByte)
      /\ rl[q + 1] = Byte(r)
  BY LengthOfRunIs, Zenon
<1> HIDE DEF q, r, rl
<1>2. q * 2 <= len - 1
  <2>1. 2 <= MaxRunByte /\ MaxRunByte \in Nat
    BY CompressedAssumption
  <2>2. 2 * q <= MaxRunByte * q /\ MaxRunByte * q \in Nat
    BY <1>1, <2>1, LargerProduct
  <2>3. MaxRunByte * q = q * MaxRunByte /\ 2 * q = q * 2
    BY <1>1, <2>1
  <2> DEFINE m == q * MaxRunByte
  <2>4. q * 2 <= m /\ m \in Nat /\ len - 1 = m + r
    BY <1>1, <2>2, <2>3
  <2> HIDE DEF m
  <2>5. r \in Nat /\ q * 2 \in Nat
    BY <1>1, <2>1
  <2>6. QED
    BY <2>4, <2>5
<1>3. Bytes(rl) = q + 1
  <2>1. ASSUME NEW i \in 1..Len(rl) PROVE rl[i].is = "byte"
    <3>1. i \in 1..q \/ i = q + 1
      BY <1>1
    <3>2. rl[i] = Byte(MaxRunByte) \/ rl[i] = Byte(r)
      BY <1>1, <3>1
    <3>3. QED
      BY <3>2 DEF Byte
  <2>2. QED
    BY <1>1, <2>1, BytesOfBytes
<1>4. CASE palette = <<>>
  <2>1. RunTokens(c, len, palette) = <<Pixel(c)>> \o rl
    BY <1>4 DEF RunTokens, rl
  <2> DEFINE h == <<Pixel(c)>>
  <2>2. h \in Seq(Tokens) /\ Bytes(h) = zrleFormat
    BY OneToken
  <2> HIDE DEF h
  <2>3. h \o rl \in Seq(Tokens) /\ Bytes(h \o rl) = zrleFormat + (q + 1)
    BY <1>1, <1>3, <2>2, BytesAreAdded, ConcatProperties
  <2>4. zrleFormat + (q + 1) \in Nat /\ zrleFormat + (q + 1) <= zrleFormat + len
    BY <1>1, <1>2
  <2>5. RunTokens(c, len, palette) = h \o rl
    BY <2>1 DEF h
  <2>6. QED
    BY <1>4, <2>3, <2>4, <2>5
<1>5. CASE palette # <<>>
  <2>1. index \in Nat /\ index + 128 \in Nat
    <3>1. index \in 0..(Len(palette) - 1)
      BY <1>5, IndexIs
    <3>2. QED
      BY <3>1
  <2>2. CASE len <= 2
    <3> DEFINE s == [k \in 1..len |-> Byte(index)]
    <3>1. RunTokens(c, len, palette) = s
      BY <1>5, <2>2 DEF RunTokens
    <3>2. Byte(index) \in Tokens /\ Byte(index).is = "byte"
      BY <2>1, TokensAre DEF Byte
    <3>3. s \in Seq(Tokens) /\ Len(s) = len
      BY <3>2
    <3>4. \A k \in 1..Len(s) : s[k].is = "byte"
      BY <3>2, <3>3
    <3> HIDE DEF s
    <3>5. Bytes(s) = len
      BY <3>3, <3>4, BytesOfBytes
    <3>6. QED
      BY <1>5, <3>1, <3>3, <3>5
  <2>3. CASE ~(len <= 2)
    <3>1. RunTokens(c, len, palette) = <<Byte(index + 128)>> \o rl
      BY <1>5, <2>3 DEF RunTokens, rl
    <3> DEFINE h == <<Byte(index + 128)>>
    <3> HIDE DEF index
    <3>2. h \in Seq(Tokens) /\ Bytes(h) = 1
      BY <2>1, OneToken
    <3> HIDE DEF h
    <3>3. h \o rl \in Seq(Tokens) /\ Bytes(h \o rl) = 1 + (q + 1)
      BY <1>1, <1>3, <3>2, BytesAreAdded, ConcatProperties
    <3>4. 1 + (q + 1) <= len
      BY <1>1, <1>2, <2>3
    <3>5. QED
      BY <1>1, <1>5, <3>1, <3>3, <3>4 DEF h
  <2>4. QED
    BY <2>2, <2>3
<1>6. QED
  BY <1>4, <1>5

(* An index alone is read as a run of one, ... *)
LEMMA IndexIsRead ==
  ASSUME NEW c \in Nat, NEW palette, IsPalette(palette), HasColour(palette, c),
         NEW t \in Seq(Tokens)
  PROVE  LET s == <<Byte(ZrleIndex(palette, c))>> \o t
         IN /\ s \in Seq(Tokens)
            /\ ReadRun(s, palette)
                 = [ok |-> TRUE, c |-> c, len |-> 1, rest |-> t]
<1> DEFINE index == ZrleIndex(palette, c)
           h == <<Byte(index)>>
           s == h \o t
<1>1. /\ palette # <<>> /\ index \in 0..(Len(palette) - 1)
      /\ palette[index + 1] = c /\ Len(palette) \in Nat /\ Len(palette) <= 127
  BY IndexIs, LenProperties DEF IsPalette
<1> HIDE DEF index
<1>2. index \in Nat /\ index < 128 /\ index % 128 = index /\ index < Len(palette)
  BY <1>1
<1>3. h \in Seq(Tokens) /\ Len(h) = 1 /\ h[1] = Byte(index)
  <2>1. Byte(index) \in Tokens
    BY <1>2, TokensAre
  <2>2. QED
    BY <2>1
<1> HIDE DEF h
<1>4. s \in Seq(Tokens) /\ Len(s) = 1 + Len(t) /\ Tail(s) = t
  BY <1>3, RestIsHadBack
<1>5. s[1] = Byte(index) /\ s # <<>>
  <2>1. Len(t) \in Nat
    BY LenProperties
  <2>2. \A i \in 1..(Len(h) + Len(t)) :
          s[i] = IF i <= Len(h) THEN h[i] ELSE t[i - Len(h)]
    BY <1>3, ConcatProperties
  <2>3. QED
    BY <1>3, <1>4, <2>1, <2>2
<1> HIDE DEF s
<1>6. s[1].is = "byte" /\ s[1].v = index
  BY <1>5 DEF Byte
<1>7. ~(s[1].v % 128 >= Len(palette)) /\ s[1].v < 128
      /\ palette[(s[1].v % 128) + 1] = c
  BY <1>1, <1>2, <1>6
<1>8. ReadRun(s, palette) = [ok |-> TRUE, c |-> c, len |-> 1, rest |-> t]
  BY <1>1, <1>4, <1>5, <1>6, <1>7 DEF ReadRun
<1>9. QED
  BY <1>4, <1>8 DEF s, h, index

(* ... and a run with its length, as that. *)
LEMMA RunIsRead ==
  ASSUME NEW c \in Nat, NEW len \in Nat \ {0}, NEW palette, IsPalette(palette),
         palette = <<>> \/ (HasColour(palette, c) /\ len > 2),
         NEW t \in Seq(Tokens)
  PROVE  ReadRun(RunTokens(c, len, palette) \o t, palette)
           = [ok |-> TRUE, c |-> c, len |-> len, rest |-> t]
<1> DEFINE index == ZrleIndex(palette, c)
           head == IF palette = <<>> THEN Pixel(c) ELSE Byte(index + 128)
           u    == <<head>> \o RunLength(len)
           s    == u \o t
           ends == {i \in 2..Len(s) : s[i] # Byte(MaxRunByte)}
           last == ZrleSets!Min(ends)
<1>1. palette # <<>> =>
        /\ index \in 0..(Len(palette) - 1) /\ palette[index + 1] = c
        /\ Len(palette) \in Nat /\ Len(palette) <= 127
  BY IndexIs, LenProperties DEF IsPalette
<1>2. RunTokens(c, len, palette) = u
  BY DEF RunTokens
<1> HIDE DEF index
<1>3. head \in Tokens
  <2>1. palette # <<>> => index + 128 \in Nat
    BY <1>1
  <2>2. QED
    BY <2>1, TokensAre
<1> HIDE DEF head
<1>4. /\ u \in Seq(Tokens) /\ s \in Seq(Tokens) /\ s # <<>> /\ s[1] = head
      /\ ends # {} /\ s[last].is = "byte"
      /\ 1 + (last - 2) * MaxRunByte + s[last].v = len
      /\ SubSeq(s, last + 1, Len(s)) = t
  BY <1>3, LengthIsRead, Zenon
<1> HIDE DEF u, s, ends, last
<1>5. CASE palette = <<>>
  <2>1. s[1].is = "pixel" /\ s[1].v = c
    BY <1>4, <1>5 DEF head, Pixel
  <2>2. ReadRun(s, palette) = [ok |-> TRUE, c |-> c, len |-> len, rest |-> t]
    <3>1. ReadRun(s, palette)
            = [ok |-> TRUE, c |-> s[1].v,
               len |-> 1 + (last - 2) * MaxRunByte + s[last].v,
               rest |-> SubSeq(s, last + 1, Len(s))]
      BY <1>4, <1>5, <2>1, Zenon DEF ReadRun, last, ends
    <3>2. QED
      BY <1>4, <2>1, <3>1
  <2>3. QED
    BY <1>2, <2>2 DEF s
<1>6. CASE palette # <<>>
  <2>1. s[1].is = "byte" /\ s[1].v = index + 128
    BY <1>4, <1>6 DEF head, Byte
  <2>2. (index + 128) % 128 = index /\ ~(index + 128 < 128)
        /\ ~(index >= Len(palette))
    BY <1>1, <1>6
  <2>3. ~(s[1].v % 128 >= Len(palette)) /\ ~(s[1].v < 128)
        /\ palette[(s[1].v % 128) + 1] = c
    BY <1>1, <1>6, <2>1, <2>2
  <2>4. ReadRun(s, palette) = [ok |-> TRUE, c |-> c, len |-> len, rest |-> t]
    <3>1. ReadRun(s, palette)
            = [ok |-> TRUE, c |-> palette[(s[1].v % 128) + 1],
               len |-> 1 + (last - 2) * MaxRunByte + s[last].v,
               rest |-> SubSeq(s, last + 1, Len(s))]
      BY <1>4, <1>6, <2>1, <2>3, Zenon DEF ReadRun, last, ends
    <3>2. QED
      BY <1>4, <2>3, <3>1
  <2>5. QED
    BY <1>2, <2>4 DEF s
<1>7. QED
  BY <1>5, <1>6

-----------------------------------------------------------------------------
(* A sequence of two. *)
LEMMA BothAre ==
  ASSUME NEW T, NEW a \in Seq(T), NEW b \in Seq(T), NEW d \in Seq(T),
         Len(d) = Len(a) + Len(b), \A k \in 1..Len(a) : d[k] = a[k],
         \A k \in 1..Len(b) : d[Len(a) + k] = b[k]
  PROVE  a \o b = d
<1>1. Len(a) \in Nat /\ Len(b) \in Nat
  BY LenProperties
<1>2. /\ a \o b \in Seq(T) /\ Len(a \o b) = Len(a) + Len(b)
      /\ \A k \in 1..(Len(a) + Len(b)) :
           (a \o b)[k] = IF k <= Len(a) THEN a[k] ELSE b[k - Len(a)]
  BY ConcatProperties
<1>3. ASSUME NEW k \in 1..(Len(a) + Len(b)) PROVE (a \o b)[k] = d[k]
  <2>1. CASE k <= Len(a)
    BY <1>1, <1>2, <2>1
  <2>2. CASE ~(k <= Len(a))
    <3>1. k - Len(a) \in 1..Len(b) /\ Len(a) + (k - Len(a)) = k
      BY <1>1, <2>2
    <3>2. d[Len(a) + (k - Len(a))] = b[k - Len(a)]
      BY <3>1
    <3>3. QED
      BY <1>2, <2>2, <3>1, <3>2
  <2>3. QED
    BY <2>1, <2>2
<1>4. QED
  BY <1>2, <1>3, SeqEqual

(* Tokens put together in either order. *)
LEMMA TokensAreGrouped ==
  \A u, v, w \in Seq(Tokens) : (u \o v) \o w = u \o (v \o w)
<1>1. IsGrouped(Tokens)
  BY ListsAreGrouped, Zenon
<1>2. QED
  BY <1>1, Zenon DEF IsGrouped

(* The first pixels of a tile. *)
FirstOf(px, p) == [k \in 1..p |-> px[k]]

(* The first pixels of a picture are as many. *)
LEMMA FirstIs ==
  ASSUME NEW px \in Seq(Nat), NEW p \in 0..Len(px)
  PROVE  FirstOf(px, p) \in Seq(Nat) /\ Len(FirstOf(px, p)) = p
<1>1. /\ Len(px) \in Nat /\ \A k \in 1..Len(px) : px[k] \in Nat
  BY LenProperties
<1>2. \A k \in 1..p : px[k] \in Nat
  BY <1>1
<1>3. p \in Nat
  BY <1>1
<1>4. QED
  BY <1>2, <1>3 DEF FirstOf

(* Pixels of one colour behind the first ones. *)
LEMMA MoreIs ==
  ASSUME NEW px \in Seq(Nat), NEW p \in Nat, NEW n \in Nat, p + n <= Len(px),
         NEW c \in Nat, \A k \in (p + 1)..(p + n) : px[k] = c
  PROVE  FirstOf(px, p) \o [k \in 1..n |-> c] = FirstOf(px, p + n)
<1> DEFINE a == FirstOf(px, p)
           b == [k \in 1..n |-> c]
           d == FirstOf(px, p + n)
<1>1. Len(px) \in Nat /\ p \in 0..Len(px) /\ p + n \in 0..Len(px)
  BY LenProperties
<1>2. a \in Seq(Nat) /\ Len(a) = p /\ d \in Seq(Nat) /\ Len(d) = p + n
  BY <1>1, FirstIs
<1>3. b \in Seq(Nat) /\ Len(b) = n /\ \A k \in 1..n : b[k] = c
  OBVIOUS
<1>4. /\ \A k \in 1..p : a[k] = px[k]
      /\ \A k \in 1..(p + n) : d[k] = px[k]
  BY DEF FirstOf
<1> HIDE DEF a, b, d
<1>5. ASSUME NEW k \in 1..Len(a) PROVE d[k] = a[k]
  <2>1. k \in 1..p /\ k \in 1..(p + n)
    BY <1>2
  <2>2. QED
    BY <1>4, <2>1, Zenon
<1>6. ASSUME NEW k \in 1..Len(b) PROVE d[Len(a) + k] = b[k]
  <2>1. p + k \in 1..(p + n) /\ p + k \in (p + 1)..(p + n)
    BY <1>3
  <2>2. QED
    BY <1>2, <1>3, <1>4, <2>1
<1>7. a \o b = d
  <2>1. Len(d) = Len(a) + Len(b)
    BY <1>2, <1>3
  <2>2. QED
    BY <1>2, <1>3, <1>5, <1>6, <2>1, BothAre
<1>8. QED
  BY <1>7 DEF a, b, d

(* A run that is read adds its pixels. *)
LEMMA RunIsAdded ==
  ASSUME NEW px \in Seq(Nat), NEW i \in 1..Len(px), NEW palette, NEW rest,
         NEW c \in Nat, NEW len \in Nat \ {0}, NEW t,
         ReadRun(rest, palette) = [ok |-> TRUE, c |-> c, len |-> len, rest |-> t],
         i + len - 1 <= Len(px), \A k \in i..(i + len - 1) : px[k] = c
  PROVE  AddRun(TileDone(FirstOf(px, i - 1), rest), i, palette, Len(px))
           = TileDone(FirstOf(px, i + len - 1), t)
<1> DEFINE tile == TileDone(FirstOf(px, i - 1), rest)
           n == Len(px)
           run == ReadRun(rest, palette)
<1>1. n \in Nat
  BY LenProperties
<1>2. Len(FirstOf(px, i - 1)) = i - 1
  <2>1. i - 1 \in 0..Len(px)
    BY <1>1
  <2>2. QED
    BY <2>1, FirstIs
<1>3. /\ tile.ok = TRUE /\ tile.px = FirstOf(px, i - 1) /\ tile.rest = rest
      /\ Len(tile.px) = i - 1
  BY <1>2 DEF TileDone
<1> HIDE DEF tile
<1>4. run.ok = TRUE /\ run.c = c /\ run.len = len /\ run.rest = t
  OBVIOUS
<1> HIDE DEF run
<1>5. ~(Len(tile.px) >= i)
  BY <1>1, <1>3
<1>6. ZrleSets!Min({run.len, n - Len(tile.px)}) = len
  <2>1. n - Len(tile.px) = n - (i - 1) /\ n - (i - 1) \in Nat
        /\ len <= n - (i - 1)
    <3>1. n - (i - 1) \in Nat /\ len <= n - (i - 1)
      BY <1>1
    <3>2. n - Len(tile.px) = n - (i - 1)
      BY <1>3, Zenon
    <3>3. QED
      BY <3>1, <3>2
  <2> DEFINE m == n - (i - 1)
  <2>2. m \in Nat /\ len <= m /\ n - Len(tile.px) = m
    BY <2>1
  <2> HIDE DEF m
  <2>3. QED
    BY <1>4, <2>2, SmallerOfTwo
<1>7. AddRun(tile, i, palette, n)
        = TileDone(FirstOf(px, i - 1) \o [k \in 1..len |-> c], t)
  BY <1>3, <1>4, <1>5, <1>6 DEF AddRun, run
<1>8. FirstOf(px, i - 1) \o [k \in 1..len |-> c] = FirstOf(px, i + len - 1)
  <2> DEFINE p == i - 1
  <2>1. p \in Nat /\ p + len <= Len(px) /\ p + len = i + len - 1
        /\ \A k \in (p + 1)..(p + len) : k \in i..(i + len - 1)
    BY <1>1
  <2>2. \A k \in (p + 1)..(p + len) : px[k] = c
    BY <2>1
  <2> HIDE DEF p
  <2>3. FirstOf(px, p) \o [k \in 1..len |-> c] = FirstOf(px, p + len)
    BY <2>1, <2>2, MoreIs
  <2>4. QED
    BY <2>1, <2>3 DEF p
<1>9. QED
  BY <1>7, <1>8 DEF tile

-----------------------------------------------------------------------------
(* A tile of runs. *)
RleParts(px, palette) ==
  [i \in DOMAIN px |->
     IF Starts(px, i) THEN RunTokens(px[i], RunFrom(px, i), palette) ELSE <<>>]

(* A palette of all colours, or none. *)
CanPaint(palette, px) ==
  /\ IsPalette(palette)
  /\ palette = <<>> \/ \A i \in DOMAIN px : HasColour(palette, px[i])

(* The parts are what their definition says. *)
LEMMA PartsAre ==
  ASSUME zrleFormat \in 1..4, NEW px \in Seq(Nat), NEW palette,
         CanPaint(palette, px)
  PROVE  /\ RleParts(px, palette) \in PartsOf(Len(px), Tokens)
         /\ \A i \in 1..Len(px) :
              /\ RleParts(px, palette)[i]
                   = IF Starts(px, i)
                     THEN RunTokens(px[i], RunFrom(px, i), palette) ELSE <<>>
              /\ RunFrom(px, i) \in Nat \ {0} /\ px[i] \in Nat
              /\ palette = <<>> \/ HasColour(palette, px[i])
<1>1. /\ Len(px) \in Nat /\ DOMAIN px = 1..Len(px)
      /\ \A i \in 1..Len(px) : px[i] \in Nat
  BY LenProperties
<1>2. ASSUME NEW i \in 1..Len(px)
      PROVE  /\ RunFrom(px, i) \in Nat \ {0}
             /\ palette = <<>> \/ HasColour(palette, px[i])
             /\ RunTokens(px[i], RunFrom(px, i), palette) \in Seq(Tokens)
  <2>1. RunFrom(px, i) \in 1..(Len(px) - i + 1)
    BY RunIs
  <2>2. RunFrom(px, i) \in Nat \ {0}
    BY <1>1, <2>1
  <2>3. IsPalette(palette) /\ (palette = <<>> \/ HasColour(palette, px[i]))
    BY <1>1 DEF CanPaint
  <2>4. px[i] \in Nat
    BY <1>1
  <2>5. RunTokens(px[i], RunFrom(px, i), palette) \in Seq(Tokens)
    BY <2>2, <2>3, <2>4, RunHasTokens
  <2>6. QED
    BY <2>2, <2>3, <2>5
<1>3. <<>> \in Seq(Tokens)
  OBVIOUS
<1>4. RleParts(px, palette) \in [1..Len(px) -> Seq(Tokens)]
  BY <1>1, <1>2, <1>3 DEF RleParts
<1>5. QED
  BY <1>1, <1>2, <1>4 DEF RleParts, PartsOf

(* Whether the first of two indices is read when i pixels are asked for. *)
Halfway(px, palette, i) ==
  palette # <<>> /\ Starts(px, i) /\ RunFrom(px, i) = 2

(* What has been read then. *)
ReadTo(px, palette, from, i) ==
  IF i = 0 THEN TileDone(FirstOf(px, 0), from[0])
  ELSE IF Halfway(px, palette, i)
  THEN TileDone(FirstOf(px, i), <<Byte(ZrleIndex(palette, px[i]))>> \o from[i])
  ELSE TileDone(FirstOf(px, i + RunFrom(px, i) - 1), from[i])

(* The rests of the parts. *)
AreRests(from, px, palette) ==
  /\ from \in RestsOf(Len(px), Tokens)
  /\ \A k \in 1..Len(px) : from[k - 1] = RleParts(px, palette)[k] \o from[k]

(* The next pixel that starts a run is read. *)
LEMMA StartIsRead ==
  ASSUME zrleFormat \in 1..4, NEW px \in Seq(Nat), NEW palette,
         CanPaint(palette, px),
         NEW from, AreRests(from, px, palette), NEW i \in 1..Len(px),
         Starts(px, i)
  PROVE  AddRun(ReadTo(px, palette, from, i - 1), i, palette, Len(px))
           = ReadTo(px, palette, from, i)
<1> DEFINE n == Len(px)
           len == RunFrom(px, i)
           c == px[i]
           prev == ReadTo(px, palette, from, i - 1)
<1>1. n \in Nat /\ i - 1 \in 0..n
  BY LenProperties
<1>2. /\ len \in Nat \ {0} /\ c \in Nat
      /\ palette = <<>> \/ HasColour(palette, c)
      /\ RleParts(px, palette)[i] = RunTokens(c, len, palette)
  BY PartsAre
<1>3. /\ i + len - 1 <= n
      /\ \A k \in i..(i + len - 1) : px[k] = c
  <2>1. len \in 1..(n - i + 1) /\ \A k \in i..(i + len - 1) : px[k] = c
    BY RunIs
  <2>2. QED
    BY <1>1, <2>1
<1>4. from[i] \in Seq(Tokens)
      /\ from[i - 1] = RunTokens(c, len, palette) \o from[i]
  <2>1. i \in 0..n
    BY <1>1
  <2>2. QED
    BY <1>2, <2>1 DEF AreRests, RestsOf
<1>5. prev = TileDone(FirstOf(px, i - 1), from[i - 1])
  <2>1. CASE i = 1
    <3>1. i - 1 = 0
      BY <2>1
    <3>2. QED
      BY <3>1 DEF ReadTo
  <2>2. CASE i # 1
    <3> DEFINE j == i - 1
    <3>1. j \in 1..n /\ j # n /\ j + 1 = i /\ j # 0
      BY <1>1, <2>2
    <3>2. Starts(px, j + 1)
      BY <3>1
    <3> HIDE DEF j
    <3>3. RunFrom(px, j) = 1
      BY <3>1, <3>2, RunsFollow
    <3>4. ~Halfway(px, palette, j)
      BY <3>3 DEF Halfway
    <3>5. j + RunFrom(px, j) - 1 = j
      BY <3>1, <3>3
    <3>6. ReadTo(px, palette, from, j) = TileDone(FirstOf(px, j), from[j])
      BY <3>1, <3>4, <3>5 DEF ReadTo
    <3>7. QED
      BY <3>6 DEF j
  <2>3. QED
    BY <2>1, <2>2
<1>6. IsPalette(palette)
  BY DEF CanPaint
<1> HIDE DEF len, c, prev
<1>7. i # 0
  BY <1>1
<1>8. CASE palette = <<>> \/ len > 2
  <2>1. ReadRun(from[i - 1], palette)
          = [ok |-> TRUE, c |-> c, len |-> len, rest |-> from[i]]
    <3>1. palette = <<>> \/ (HasColour(palette, c) /\ len > 2)
      BY <1>2, <1>8
    <3>2. ReadRun(RunTokens(c, len, palette) \o from[i], palette)
            = [ok |-> TRUE, c |-> c, len |-> len, rest |-> from[i]]
      BY <1>2, <1>4, <1>6, <3>1, RunIsRead
    <3>3. QED
      BY <1>4, <3>2
  <2>2. AddRun(TileDone(FirstOf(px, i - 1), from[i - 1]), i, palette, n)
          = TileDone(FirstOf(px, i + len - 1), from[i])
    BY <1>2, <1>3, <2>1, RunIsAdded
  <2>3. ~Halfway(px, palette, i)
    BY <1>8 DEF Halfway, len
  <2>4. ReadTo(px, palette, from, i) = TileDone(FirstOf(px, i + len - 1), from[i])
    BY <1>7, <2>3 DEF ReadTo, len
  <2>5. QED
    BY <1>5, <2>2, <2>4 DEF prev
<1>9. CASE palette # <<>> /\ ~(len > 2)
  <2> DEFINE one == <<Byte(ZrleIndex(palette, c))>>
             rest == IF len = 1 THEN from[i] ELSE one \o from[i]
  <2>1. len = 1 \/ len = 2
    BY <1>2, <1>9
  <2>2. HasColour(palette, c)
    BY <1>2, <1>9
  <2>3. one \in Seq(Tokens) /\ rest \in Seq(Tokens)
    <3>1. ZrleIndex(palette, c) \in Nat
      <4>1. ZrleIndex(palette, c) \in 0..(Len(palette) - 1)
        BY <1>6, <2>2, IndexIs
      <4>2. QED
        BY <4>1
    <3>2. one \in Seq(Tokens)
      <4>1. Byte(ZrleIndex(palette, c)) \in Tokens
        BY <3>1, TokensAre
      <4>2. QED
        BY <4>1
    <3> HIDE DEF one
    <3>3. one \o from[i] \in Seq(Tokens)
      BY <1>4, <3>2, ConcatProperties
    <3>4. QED
      BY <1>4, <3>2, <3>3
  <2>4. from[i - 1] = one \o rest
    <3>1. RunTokens(c, len, palette)
            = [k \in 1..len |-> Byte(ZrleIndex(palette, c))]
      BY <1>9, <2>1 DEF RunTokens
    <3>2. CASE len = 1
      <4>1. [k \in 1..len |-> Byte(ZrleIndex(palette, c))] = one
        BY <3>2
      <4>2. QED
        BY <1>4, <3>1, <3>2, <4>1
    <3>3. CASE len = 2
      <4>1. [k \in 1..len |-> Byte(ZrleIndex(palette, c))] = one \o one
        BY <2>3, <3>3
      <4> HIDE DEF one
      <4>2. (one \o one) \o from[i] = one \o (one \o from[i])
        BY <1>4, <2>3, TokensAreGrouped
      <4>3. from[i - 1] = (one \o one) \o from[i]
        BY <1>4, <3>1, <4>1
      <4>4. rest = one \o from[i]
        BY <3>3
      <4> HIDE DEF rest
      <4>5. QED
        BY <4>2, <4>3, <4>4, Zenon
    <3>4. QED
      BY <2>1, <3>2, <3>3
  <2>5. ReadRun(one \o rest, palette)
          = [ok |-> TRUE, c |-> c, len |-> 1, rest |-> rest]
    <3> HIDE DEF rest
    <3>1. QED
      BY <1>2, <1>6, <2>2, <2>3, IndexIsRead
  <2> HIDE DEF one, rest
  <2>6. AddRun(TileDone(FirstOf(px, i - 1), from[i - 1]), i, palette, n)
          = TileDone(FirstOf(px, i), rest)
    <3>1. /\ i + 1 - 1 = i /\ i + 1 - 1 <= Len(px) /\ i \in i..(i + len - 1)
          /\ \A k \in i..(i + 1 - 1) : k = i
      BY <1>1, <1>2
    <3>2. \A k \in i..(i + 1 - 1) : px[k] = c
      BY <1>3, <3>1
    <3>3. ReadRun(from[i - 1], palette)
            = [ok |-> TRUE, c |-> c, len |-> 1, rest |-> rest]
      BY <2>4, <2>5
    <3> DEFINE m == 1
    <3>4. /\ m \in Nat \ {0} /\ i + m - 1 <= Len(px)
          /\ \A k \in i..(i + m - 1) : px[k] = c
          /\ ReadRun(from[i - 1], palette)
               = [ok |-> TRUE, c |-> c, len |-> m, rest |-> rest]
      BY <3>1, <3>2, <3>3
    <3> HIDE DEF m
    <3>5. AddRun(TileDone(FirstOf(px, i - 1), from[i - 1]), i, palette, n)
            = TileDone(FirstOf(px, i + m - 1), rest)
      BY <1>2, <3>4, RunIsAdded
    <3>6. i + m - 1 = i
      BY <3>1 DEF m
    <3>7. QED
      BY <3>5, <3>6
  <2>7. ReadTo(px, palette, from, i) = TileDone(FirstOf(px, i), rest)
    <3>1. CASE len = 1
      <4>1. ~Halfway(px, palette, i) /\ i + len - 1 = i
        BY <1>1, <3>1 DEF Halfway, len
      <4>2. QED
        BY <1>7, <3>1, <4>1 DEF ReadTo, rest, len
    <3>2. CASE len = 2
      <4>1. Halfway(px, palette, i) /\ len # 1
        BY <1>9, <3>2 DEF Halfway, len
      <4>2. QED
        BY <1>7, <4>1 DEF ReadTo, rest, one, c
    <3>3. QED
      BY <2>1, <3>1, <3>2
  <2>8. QED
    BY <1>5, <2>6, <2>7 DEF prev
<1>10. QED
  BY <1>8, <1>9

(* The next pixel that starts no run is read, or was. *)
LEMMA SkippedIsRead ==
  ASSUME zrleFormat \in 1..4, NEW px \in Seq(Nat), NEW palette,
         CanPaint(palette, px),
         NEW from, AreRests(from, px, palette), NEW i \in 1..Len(px),
         ~Starts(px, i)
  PROVE  AddRun(ReadTo(px, palette, from, i - 1), i, palette, Len(px))
           = ReadTo(px, palette, from, i)
<1> DEFINE n == Len(px)
           j == i - 1
           len == RunFrom(px, i)
           prev == ReadTo(px, palette, from, j)
<1>1. n \in Nat
  BY LenProperties
<1>2. j \in 1..n /\ j # n /\ j # 0 /\ j + 1 = i /\ px[i] = px[j] /\ i # 0
  BY <1>1 DEF Starts
<1>3. len \in 1..(n - i + 1)
  BY RunIs
<1>4. RunFrom(px, j) = len + 1
  <2> HIDE DEF j
  <2>1. RunFrom(px, j) = RunFrom(px, j + 1) + 1
    BY <1>2, RunsFollow
  <2>2. QED
    BY <1>2, <2>1
<1>5. from[i] \in Seq(Tokens) /\ from[j] = from[i]
  <2>1. i \in 0..n
    BY <1>1
  <2>2. from[i] \in Seq(Tokens) /\ from[j] = <<>> \o from[i]
    BY <2>1, PartsAre DEF AreRests, RestsOf
  <2>3. QED
    BY <2>2, ConcatEmptySeq
<1> HIDE DEF len, j
<1>6. ~Halfway(px, palette, i)
  BY DEF Halfway
<1>7. ReadTo(px, palette, from, i) = TileDone(FirstOf(px, i + len - 1), from[i])
  BY <1>2, <1>6 DEF ReadTo, len
<1>8. CASE Halfway(px, palette, j)
  <2> DEFINE c == px[j]
             rest == <<Byte(ZrleIndex(palette, c))>> \o from[j]
  <2>1. prev = TileDone(FirstOf(px, j), rest)
    BY <1>2, <1>8 DEF ReadTo
  <2>2. len = 1
    <3>1. RunFrom(px, j) = 2 /\ len \in Int
      BY <1>3, <1>8 DEF Halfway
    <3>2. QED
      BY <1>4, <3>1
  <2>3. c \in Nat /\ HasColour(palette, c) /\ IsPalette(palette)
    BY <1>2, <1>8, PartsAre DEF Halfway, CanPaint
  <2>4. ReadRun(rest, palette) = [ok |-> TRUE, c |-> c, len |-> 1, rest |-> from[j]]
    BY <1>5, <2>3, IndexIsRead
  <2> HIDE DEF rest
  <2> DEFINE m == 1
  <2>5. /\ m \in Nat \ {0} /\ i + m - 1 <= Len(px)
        /\ \A k \in i..(i + m - 1) : px[k] = c
        /\ ReadRun(rest, palette)
             = [ok |-> TRUE, c |-> c, len |-> m, rest |-> from[j]]
    <3>1. \A k \in i..(i + 1 - 1) : k = i
      BY <1>1
    <3>2. i + 1 - 1 <= Len(px)
      BY <1>1
    <3>3. QED
      BY <1>2, <2>4, <3>1, <3>2
  <2> HIDE DEF m
  <2>6. AddRun(TileDone(FirstOf(px, i - 1), rest), i, palette, n)
          = TileDone(FirstOf(px, i + m - 1), from[j])
    <3> HIDE DEF c
    <3>1. QED
      BY <2>3, <2>5, RunIsAdded
  <2>7. i + m - 1 = i + len - 1
    BY <2>2 DEF m
  <2>8. QED
    BY <1>5, <1>7, <2>1, <2>6, <2>7 DEF prev, j
<1>9. CASE ~Halfway(px, palette, j)
  <2> DEFINE p == i + len - 1
  <2>1. p \in 0..n /\ p >= i /\ j + RunFrom(px, j) - 1 = p
    BY <1>1, <1>2, <1>3, <1>4
  <2> HIDE DEF p
  <2>2. prev = TileDone(FirstOf(px, p), from[j])
    BY <1>2, <1>9, <2>1 DEF ReadTo
  <2>3. Len(FirstOf(px, p)) = p
    BY <2>1, FirstIs
  <2>4. Len(prev.px) >= i
    BY <2>1, <2>2, <2>3 DEF TileDone
  <2>5. AddRun(prev, i, palette, n) = prev
    <3> HIDE DEF prev
    <3>1. QED
      BY <2>4 DEF AddRun
  <2>6. QED
    BY <1>5, <1>7, <2>2, <2>5 DEF prev, j, p
<1>10. QED
  BY <1>8, <1>9

(* All runs are read. *)
LEMMA AllRunsAreRead ==
  ASSUME zrleFormat \in 1..4, NEW px \in Seq(Nat), px # <<>>, NEW palette,
         CanPaint(palette, px), NEW from, AreRests(from, px, palette)
  PROVE  ReadRuns(from[0], palette, Len(px)) = TileDone(px, from[Len(px)])
<1> DEFINE n == Len(px)
           Read(i) == ReadTo(px, palette, from, i)
           Reads(f) == f = [i \in 0..n |->
                              IF i = 0 THEN TileDone(<<>>, from[0])
                              ELSE AddRun(f[i - 1], i, palette, n)]
           after == CHOOSE f : Reads(f)
<1>1. n \in Nat \ {0}
  BY EmptySeq
<1>2. Read(0) = TileDone(<<>>, from[0])
  <2>1. FirstOf(px, 0) = <<>>
    BY DEF FirstOf
  <2>2. QED
    BY <2>1 DEF ReadTo
<1>3. ASSUME NEW i \in 1..n
      PROVE  AddRun(Read(i - 1), i, palette, n) = Read(i)
  BY StartIsRead, SkippedIsRead
<1> HIDE DEF Read
<1>4. \E f : Reads(f)
  <2> DEFINE f == [i \in 0..n |-> Read(i)]
  <2>1. ASSUME NEW i \in 0..n
        PROVE  f[i] = IF i = 0 THEN TileDone(<<>>, from[0])
                      ELSE AddRun(f[i - 1], i, palette, n)
    <3>1. CASE i = 0
      BY <1>2, <3>1
    <3>2. CASE i # 0
      <4>1. i \in 1..n /\ i - 1 \in 0..n
        BY <1>1, <3>2
      <4>2. f[i] = Read(i) /\ f[i - 1] = Read(i - 1)
        BY <4>1
      <4>3. QED
        BY <1>3, <3>2, <4>1, <4>2
    <3>3. QED
      BY <3>1, <3>2
  <2>2. f = [i \in 0..n |-> f[i]]
    OBVIOUS
  <2> HIDE DEF f
  <2>3. Reads(f)
    BY <2>1, <2>2
  <2>4. QED
    BY <2>3
<1>5. Reads(after)
  BY <1>4
<1>6. ReadRuns(from[0], palette, n) = after[n]
  BY DEF ReadRuns
<1> HIDE DEF after
<1>7. ASSUME NEW i \in 0..n
      PROVE  after[i] = IF i = 0 THEN TileDone(<<>>, from[0])
                        ELSE AddRun(after[i - 1], i, palette, n)
  BY <1>5
<1> DEFINE S == {i \in Nat : i <= n => after[i] = Read(i)}
<1>8. 0 \in S
  <2>1. 0 \in 0..n
    BY <1>1
  <2>2. QED
    BY <1>2, <1>7, <2>1
<1>9. ASSUME NEW i \in Nat, i \in S PROVE i + 1 \in S
  <2>1. SUFFICES ASSUME i + 1 <= n PROVE after[i + 1] = Read(i + 1)
    OBVIOUS
  <2> DEFINE k == i + 1
  <2>2. k \in 0..n /\ k \in 1..n /\ k # 0 /\ k - 1 = i /\ i <= n
    BY <1>1, <2>1
  <2> HIDE DEF k
  <2>3. after[i] = Read(i)
    BY <1>9, <2>2
  <2>4. after[k] = AddRun(after[k - 1], k, palette, n)
    BY <1>7, <2>2
  <2>5. AddRun(Read(k - 1), k, palette, n) = Read(k)
    BY <1>3, <2>2
  <2>6. QED
    BY <2>2, <2>3, <2>4, <2>5 DEF k
<1>10. after[n] = Read(n)
  <2>1. n \in S
    <3> HIDE DEF S
    <3>1. n \in Nat
      BY <1>1
    <3>2. QED
      BY <1>8, <1>9, <3>1, SetInduction
  <2>2. QED
    BY <1>1, <2>1
<1>11. Read(n) = TileDone(px, from[n])
  <2>1. n \in 1..Len(px) /\ n # 0
    BY <1>1
  <2>2. RunFrom(px, n) = 1
    BY <2>1, RunsFollow
  <2>3. ~Halfway(px, palette, n) /\ n + RunFrom(px, n) - 1 = n
    BY <1>1, <2>2 DEF Halfway
  <2>4. Read(n) = TileDone(FirstOf(px, n), from[n])
    BY <2>1, <2>3 DEF Read, ReadTo
  <2>5. FirstOf(px, n) = px
    BY LenProperties DEF FirstOf
  <2>6. QED
    BY <2>4, <2>5
<1>12. QED
  BY <1>6, <1>10, <1>11

-----------------------------------------------------------------------------
(* The runs that start after k pixels. *)
StartsAfter(px, k) == {i \in (k + 1)..Len(px) : Starts(px, i)}

(* The starts of runs behind a place, one place further. *)
LEMMA StartsAreCounted ==
  ASSUME NEW px \in Seq(Nat), NEW k \in 0..Len(px)
  PROVE  /\ IsFiniteSet(StartsAfter(px, k))
         /\ Cardinality(StartsAfter(px, k)) \in Nat
         /\ k = Len(px) => Cardinality(StartsAfter(px, k)) = 0
         /\ k # 0 => Cardinality(StartsAfter(px, k - 1))
                       = Cardinality(StartsAfter(px, k))
                           + (IF Starts(px, k) THEN 1 ELSE 0)
<1> DEFINE n == Len(px)
           S == StartsAfter(px, k)
<1>1. n \in Nat
  BY LenProperties
<1>2. IsFiniteSet(S) /\ Cardinality(S) \in Nat
  <2>1. IsFiniteSet(1..n)
    BY <1>1, FS_Interval
  <2>2. S \in SUBSET (1..n)
    BY <1>1 DEF StartsAfter
  <2> HIDE DEF S
  <2>3. IsFiniteSet(S)
    BY <2>1, <2>2, FS_Subset
  <2>4. QED
    BY <2>3, FS_CardinalityType
<1>3. ASSUME k = n PROVE Cardinality(S) = 0
  <2>1. S = {}
    BY <1>1, <1>3 DEF StartsAfter
  <2>2. QED
    BY <2>1, FS_EmptySet
<1>4. ASSUME k # 0
      PROVE  Cardinality(StartsAfter(px, k - 1))
               = Cardinality(S) + (IF Starts(px, k) THEN 1 ELSE 0)
  <2>1. (k - 1) + 1 = k /\ k \in 1..n /\ k \notin S
        /\ k..n = {k} \cup ((k + 1)..n)
    BY <1>1, <1>4 DEF StartsAfter
  <2>2. CASE Starts(px, k)
    <3>1. StartsAfter(px, k - 1) = S \cup {k}
      BY <2>1, <2>2 DEF StartsAfter
    <3> HIDE DEF S
    <3>2. Cardinality(S \cup {k}) = Cardinality(S) + 1
      BY <1>2, <2>1, FS_AddElement
    <3>3. QED
      BY <2>2, <3>1, <3>2
  <2>3. CASE ~Starts(px, k)
    <3>1. StartsAfter(px, k - 1) = S
      BY <2>1, <2>3 DEF StartsAfter
    <3>2. QED
      BY <1>2, <2>3, <3>1
  <2>4. QED
    BY <2>2, <2>3
<1>5. QED
  BY <1>2, <1>3, <1>4

(* Where the run of the pixel before ends. *)
EndOf(px, k) == IF k = 0 THEN 0 ELSE k + RunFrom(px, k) - 1

(* Where the run of a pixel ends. *)
LEMMA EndsAre ==
  ASSUME NEW px \in Seq(Nat), NEW k \in 1..Len(px)
  PROVE  /\ EndOf(px, k) \in k..Len(px)
         /\ EndOf(px, k) = k + RunFrom(px, k) - 1
         /\ RunFrom(px, k) \in Nat
         /\ EndOf(px, k - 1) = IF Starts(px, k) THEN k - 1 ELSE EndOf(px, k)
<1>1. Len(px) \in Nat
  BY LenProperties
<1>2. RunFrom(px, k) \in 1..(Len(px) - k + 1)
  BY RunIs
<1>3. EndOf(px, k) \in k..Len(px) /\ EndOf(px, k) = k + RunFrom(px, k) - 1
      /\ RunFrom(px, k) \in Nat
  BY <1>1, <1>2 DEF EndOf
<1>4. EndOf(px, k - 1) = IF Starts(px, k) THEN k - 1 ELSE EndOf(px, k)
  <2>1. CASE k = 1
    BY <2>1 DEF EndOf, Starts
  <2>2. CASE k # 1
    <3> DEFINE j == k - 1
    <3>1. j \in 1..Len(px) /\ j # Len(px) /\ j # 0 /\ j + 1 = k
      BY <1>1, <2>2
    <3> HIDE DEF j
    <3>2. RunFrom(px, j) = IF Starts(px, k) THEN 1 ELSE RunFrom(px, k) + 1
      BY <3>1, RunsFollow
    <3>3. EndOf(px, j) = j + RunFrom(px, j) - 1
      BY <3>1 DEF EndOf
    <3>4. CASE Starts(px, k)
      BY <3>1, <3>2, <3>3, <3>4 DEF j
    <3>5. CASE ~Starts(px, k)
      <4>1. EndOf(px, j) = j + (RunFrom(px, k) + 1) - 1
        BY <3>2, <3>3, <3>5
      <4>2. j + (RunFrom(px, k) + 1) - 1 = k + RunFrom(px, k) - 1
        <5> DEFINE q == RunFrom(px, k)
        <5>1. q \in Nat
          BY <1>3
        <5> HIDE DEF q
        <5>2. j + (q + 1) - 1 = k + q - 1
          BY <1>1, <3>1, <5>1
        <5>3. QED
          BY <5>2 DEF q
      <4>3. QED
        BY <1>3, <3>5, <4>1, <4>2 DEF j
    <3>6. QED
      BY <3>4, <3>5
  <2>3. QED
    BY <2>1, <2>2
<1>5. QED
  BY <1>3, <1>4

(* Runs need the pixels' bytes, one for each start, and one for each pixel. *)
LEMMA RestsHaveBytes ==
  ASSUME zrleFormat \in 1..4, NEW px \in Seq(Nat), NEW palette,
         CanPaint(palette, px), NEW from, AreRests(from, px, palette),
         from[Len(px)] = <<>>,
         NEW g \in Nat, g = IF palette = <<>> THEN zrleFormat ELSE 0
  PROVE  Bytes(from[0]) <= g * Cardinality(StartsAfter(px, 0)) + Len(px)
<1> DEFINE n == Len(px)
           R(k) == Cardinality(StartsAfter(px, k))
           Fits(k) == Bytes(from[k]) <= g * R(k) + (n - EndOf(px, k))
           S == {j \in Nat : j <= n => Fits(n - j)}
<1>1. n \in Nat
  BY LenProperties
<1>2. 0 \in S
  <2>1. Bytes(<<>>) = 0
    <3> DEFINE s == <<>>
    <3>1. s \in Seq(Tokens) /\ Len(s) = 0 /\ \A i \in 1..Len(s) : s[i].is = "byte"
      OBVIOUS
    <3> HIDE DEF s
    <3>2. Bytes(s) = 0
      BY <3>1, BytesOfBytes
    <3>3. QED
      BY <3>2 DEF s
  <2>2. R(n) = 0
    BY <1>1, StartsAreCounted
  <2>3. EndOf(px, n) = n
    <3>1. CASE n = 0
      BY <3>1 DEF EndOf
    <3>2. CASE n # 0
      <4>1. n \in 1..Len(px)
        BY <1>1, <3>2
      <4>2. EndOf(px, n) \in n..n
        BY <4>1, EndsAre
      <4>3. QED
        BY <1>1, <4>2
    <3>3. QED
      BY <3>1, <3>2
  <2>4. g * 0 = 0 /\ n - n = 0 /\ n - 0 = n
    BY <1>1
  <2> HIDE DEF R
  <2>5. Fits(n)
    BY <2>1, <2>2, <2>3, <2>4
  <2> HIDE DEF Fits
  <2>6. QED
    BY <2>4, <2>5
<1>3. ASSUME NEW j \in Nat, j \in S PROVE j + 1 \in S
  <2> DEFINE k == n - j
  <2>1. SUFFICES ASSUME j + 1 <= n PROVE Fits(n - (j + 1))
    <3> HIDE DEF Fits
    <3>1. QED
      OBVIOUS
  <2>2. k \in 1..n /\ k \in 0..n /\ n - (j + 1) = k - 1 /\ j <= n
    BY <1>1, <2>1
  <2>3. Fits(k)
    <3> HIDE DEF Fits
    <3>1. QED
      BY <1>3, <2>2
  <2> HIDE DEF k
  <2> DEFINE part == RleParts(px, palette)[k]
             len == RunFrom(px, k)
             e == EndOf(px, k)
             d == EndOf(px, k - 1)
             a == R(k)
             b == R(k - 1)
  <2>4. from[k] \in Seq(Tokens) /\ from[k - 1] = part \o from[k]
    BY <2>2 DEF AreRests, RestsOf
  <2>5. /\ a \in Nat /\ b = a + (IF Starts(px, k) THEN 1 ELSE 0)
    BY <1>1, <2>2, StartsAreCounted
  <2>6. /\ e \in k..n /\ e = k + len - 1 /\ len \in Nat
        /\ d = IF Starts(px, k) THEN k - 1 ELSE e
    BY <2>2, EndsAre
  <2> DEFINE x == Bytes(from[k])
             y == Bytes(part)
             z == Bytes(from[k - 1])
  <2>7. x <= g * a + (n - e)
    BY <2>3
  <2> HIDE DEF R, e, d, a, b, len
  <2>8. CASE Starts(px, k)
    <3>1. /\ part = RunTokens(px[k], len, palette) /\ len \in Nat \ {0}
          /\ px[k] \in Nat /\ (palette = <<>> \/ HasColour(palette, px[k]))
      BY <2>2, <2>8, PartsAre DEF len
    <3>2. IsPalette(palette)
      BY DEF CanPaint
    <3>3. part \in Seq(Tokens) /\ y \in Nat /\ y <= g + len
      BY <3>1, <3>2, RunHasTokens
    <3> HIDE DEF part
    <3>4. x \in Nat /\ z = y + x
      BY <2>4, <3>3, BytesAreAdded
    <3>5. b = a + 1 /\ d = k - 1
      BY <2>5, <2>6, <2>8
    <3>6. g * b = g * a + g
      BY <2>5, <3>5
    <3> DEFINE m == g * a
    <3>7. m \in Nat /\ g * b = m + g
      BY <2>5, <3>6
    <3>a. x <= m + (n - e)
      BY <2>7
    <3>b. y \in Nat /\ y <= g + len /\ d = k - 1
      BY <3>3, <3>5
    <3>c. m \in Nat
      BY <3>7
    <3>d. /\ k \in Int /\ len \in Nat /\ e \in Int /\ e = k + len - 1
          /\ n \in Nat /\ d \in Int
      BY <1>1, <2>2, <2>6, <3>b
    <3> HIDE DEF m, x, y, z, n
    <3>e. z = y + x /\ x \in Nat
      BY <3>4
    <3>8. z <= (m + g) + (n - d)
      BY <3>a, <3>b, <3>c, <3>d, <3>e
    <3>9. z <= g * b + (n - d)
      BY <3>7, <3>8
    <3>10. QED
      BY <2>2, <3>9 DEF z, b, d, n
  <2>9. CASE ~Starts(px, k)
    <3>1. part = <<>>
      BY <2>2, <2>9, PartsAre
    <3>2. from[k - 1] = from[k]
      BY <2>4, <3>1, ConcatEmptySeq
    <3>3. b = a /\ d = e
      BY <2>5, <2>6, <2>9
    <3>4. z <= g * b + (n - d)
      BY <2>7, <3>2, <3>3
    <3>5. QED
      BY <2>2, <3>4 DEF z, b, d
  <2>10. QED
    BY <2>8, <2>9
<1>4. n \in S
  <2> HIDE DEF S
  <2>1. QED
    BY <1>1, <1>2, <1>3, SetInduction
<1>5. Fits(0)
  <2>1. n <= n /\ n - n = 0
    BY <1>1
  <2> HIDE DEF Fits
  <2>2. Fits(n - n)
    BY <1>4, <2>1
  <2>3. QED
    BY <2>1, <2>2, Zenon
<1>6. QED
  BY <1>1, <1>5 DEF EndOf

(* Runs are read back, and need no more bytes than is said.                *)
LEMMA RunsAreReadBack ==
  ASSUME zrleFormat \in 1..4, NEW px \in Seq(Nat), px # <<>>, NEW palette,
         CanPaint(palette, px), NEW t \in Seq(Tokens),
         NEW g \in Nat, g = IF palette = <<>> THEN zrleFormat ELSE 0
  PROVE  /\ RleTokens(px, palette) \in Seq(Tokens)
         /\ ReadRuns(RleTokens(px, palette) \o t, palette, Len(px))
              = TileDone(px, t)
         /\ Bytes(RleTokens(px, palette))
              <= g * Cardinality({i \in DOMAIN px : Starts(px, i)}) + Len(px)
<1> DEFINE parts == RleParts(px, palette)
           n == Len(px)
<1>1. n \in Nat /\ DOMAIN px = 1..n
  BY LenProperties
<1>2. RleTokens(px, palette) = ZrleSeqs!FlattenSeq(parts)
  BY DEF RleTokens, RleParts
<1>3. parts \in PartsOf(n, Tokens)
  BY PartsAre
<1>4. <<>> \in Seq(Tokens)
  OBVIOUS
<1> HIDE DEF parts, n
<1>5. ASSUME NEW u \in Seq(Tokens)
      PROVE  /\ ZrleSeqs!FlattenSeq(parts) \in Seq(Tokens)
             /\ \E from \in RestsOf(n, Tokens) : Follow(from, parts, n, u)
  BY <1>1, <1>3, PartsFollow
<1>6. /\ RleTokens(px, palette) \in Seq(Tokens)
      /\ ReadRuns(RleTokens(px, palette) \o t, palette, n) = TileDone(px, t)
  <2>1. PICK from \in RestsOf(n, Tokens) :
          Follow(from, parts, n, t)
    BY <1>5
  <2>2. AreRests(from, px, palette)
    BY <2>1 DEF AreRests, Follow, parts, n
  <2>3. ReadRuns(from[0], palette, n) = TileDone(px, from[n])
    BY <2>2, AllRunsAreRead DEF n
  <2>4. QED
    BY <1>2, <1>5, <2>1, <2>3 DEF Follow
<1>7. Bytes(RleTokens(px, palette))
        <= g * Cardinality({i \in DOMAIN px : Starts(px, i)}) + n
  <2>1. PICK from \in RestsOf(n, Tokens) :
          Follow(from, parts, n, <<>>)
    BY <1>4, <1>5
  <2>2. AreRests(from, px, palette) /\ from[Len(px)] = <<>>
    BY <2>1 DEF AreRests, Follow, parts, n
  <2>3. Bytes(from[0]) <= g * Cardinality(StartsAfter(px, 0)) + Len(px)
    BY <2>2, RestsHaveBytes
  <2>4. from[0] = RleTokens(px, palette)
    BY <1>2, <1>4, <1>5, <2>1, ConcatEmptySeq DEF Follow
  <2>5. StartsAfter(px, 0) = {i \in DOMAIN px : Starts(px, i)}
    <3>1. 0 + 1 = 1
      OBVIOUS
    <3>2. QED
      BY <1>1, <3>1 DEF StartsAfter, n
  <2>6. QED
    BY <2>3, <2>4, <2>5 DEF n
<1>8. QED
  BY <1>6, <1>7 DEF n

-----------------------------------------------------------------------------
(* The palette of a tile. *)
Helpers == [size : Nat, palette : Seq(Nat)]

(* A helper has all colours of the first pixels, if it is not too large. *)
Helps(ph, px, i) ==
  /\ ph \in Helpers
  /\ i # 0 => ph.size # 0
  /\ ph.size <= ZRLE_PALETTE_MAX_SIZE =>
       /\ Len(ph.palette) = ph.size
       /\ \A j \in 1..i : HasColour(ph.palette, px[j])

(* A colour inserted into the palette is in it, or there are too many. *)
LEMMA InsertHelps ==
  ASSUME NEW ph \in Helpers, NEW c \in Nat
  PROVE  /\ HelperInsert(ph, c) \in Helpers
         /\ (ph.size <= ZRLE_PALETTE_MAX_SIZE => Len(ph.palette) = ph.size) =>
              /\ HelperInsert(ph, c).size # 0
              /\ HelperInsert(ph, c).size <= ZRLE_PALETTE_MAX_SIZE =>
                   LET next == HelperInsert(ph, c) IN
                   /\ ph.size <= ZRLE_PALETTE_MAX_SIZE
                   /\ Len(next.palette) = next.size
                   /\ HasColour(next.palette, c)
                   /\ \A d : HasColour(ph.palette, d)
                               => HasColour(next.palette, d)
<1> DEFINE m == ZRLE_PALETTE_MAX_SIZE
           next == HelperInsert(ph, c)
           old == ph.palette
<1>1. m \in Nat /\ m >= 2
  BY CompressedAssumption
<1>2. ph.size \in Nat /\ old \in Seq(Nat) /\ Len(old) \in Nat
      /\ DOMAIN old = 1..Len(old)
  BY LenProperties DEF Helpers
<1>3. CASE ph.size >= m
  <2>1. next = [size |-> ph.size + 1, palette |-> old]
    BY <1>3 DEF HelperInsert, Helpers
  <2>2. next \in Helpers /\ next.size = ph.size + 1
    BY <1>2, <2>1 DEF Helpers
  <2>3. next.size # 0 /\ ~(next.size <= m)
    BY <1>1, <1>2, <1>3, <2>2
  <2>4. QED
    BY <2>2, <2>3
<1>4. CASE ~(ph.size >= m) /\ ZrleSeqs!Contains(old, c)
  <2>1. next = ph
    BY <1>4 DEF HelperInsert
  <2>2. HasColour(old, c) /\ Len(old) # 0
    BY <1>2, <1>4 DEF HasColour, ZrleSeqs!Contains
  <2>3. ph.size <= m
    BY <1>1, <1>2, <1>4
  <2>4. QED
    BY <2>1, <2>2, <2>3
<1>5. CASE ~(ph.size >= m) /\ ~ZrleSeqs!Contains(old, c)
  <2> DEFINE new == Append(old, c)
  <2>1. next = [size |-> ph.size + 1, palette |-> new]
    BY <1>5 DEF HelperInsert
  <2>2. /\ new \in Seq(Nat) /\ Len(new) = Len(old) + 1
        /\ \A i \in 1..Len(old) : new[i] = old[i]
        /\ new[Len(old) + 1] = c
    BY <1>2, AppendProperties
  <2>3. DOMAIN new = 1..(Len(old) + 1)
    BY <2>2, LenProperties
  <2> HIDE DEF new
  <2>4. next \in Helpers /\ next.size = ph.size + 1 /\ next.palette = new
    BY <1>2, <2>1, <2>2 DEF Helpers
  <2>5. HasColour(new, c)
    BY <1>2, <2>2, <2>3 DEF HasColour
  <2>6. \A d : HasColour(old, d) => HasColour(new, d)
    BY <1>2, <2>2, <2>3 DEF HasColour
  <2>7. next.size # 0 /\ ph.size <= m
    BY <1>1, <1>2, <1>5, <2>4
  <2>8. Len(old) = ph.size => Len(next.palette) = next.size
    BY <2>2, <2>4
  <2> HIDE DEF next
  <2>9. QED
    BY <2>4, <2>5, <2>6, <2>7, <2>8 DEF next
<1>6. QED
  BY <1>3, <1>4, <1>5

(* The palette of a picture has all its colours, or there are too many. *)
LEMMA PaletteIs ==
  ASSUME NEW px \in Seq(Nat), px # <<>>
  PROVE  LET ph == ZrlePalette(px)
         IN /\ ph.size \in Nat \ {0} /\ ph.palette \in Seq(Nat)
            /\ ph.size <= ZRLE_PALETTE_MAX_SIZE =>
                 /\ Len(ph.palette) = ph.size
                 /\ \A i \in DOMAIN px : HasColour(ph.palette, px[i])
            /\ ph.size = 1 => \A i \in DOMAIN px : px[i] = px[1]
<1> DEFINE n == Len(px)
           m == ZRLE_PALETTE_MAX_SIZE
           start == [size |-> 0, palette |-> <<>>]
           Next(p, i) == IF Starts(px, i) THEN HelperInsert(p, px[i]) ELSE p
           FilledBy(f) == f = [i \in 0..Len(px) |->
                              IF i = 0 THEN [size |-> 0, palette |-> <<>>]
                              ELSE IF Starts(px, i)
                              THEN HelperInsert(f[i - 1], px[i])
                              ELSE f[i - 1]]
           after == CHOOSE f : FilledBy(f)
<1>1. n \in Nat \ {0} /\ DOMAIN px = 1..n /\ \A i \in 1..n : px[i] \in Nat
  BY EmptySeq, LenProperties
<1>2. start \in Helpers /\ start.size = 0 /\ start.palette = <<>>
  <2>1. <<>> \in Seq(Nat)
    OBVIOUS
  <2>2. QED
    BY <2>1 DEF Helpers
<1>3. \E f : FilledBy(f)
  <2> DEFINE g == [p \in (1..n) \X Helpers |->
                     IF Starts(px, p[1]) THEN HelperInsert(p[2], px[p[1]])
                     ELSE p[2]]
  <2>1. g \in [(1..n) \X Helpers -> Helpers]
    <3>1. ASSUME NEW i \in 1..n, NEW p \in Helpers
          PROVE  HelperInsert(p, px[i]) \in Helpers
      BY <1>1, InsertHelps
    <3>2. QED
      BY <3>1
  <2> HIDE DEF start
  <2>2. PICK f \in [0..n -> Helpers] : StepsFrom(f, start, n, g)
    <3> HIDE DEF g, n
    <3>1. QED
      BY <1>1, <1>2, <2>1, StepsExist
  <2>3. ASSUME NEW i \in 0..n
        PROVE  f[i] = IF i = 0 THEN start
                      ELSE IF Starts(px, i) THEN HelperInsert(f[i - 1], px[i])
                      ELSE f[i - 1]
    <3>1. f[i] = IF i = 0 THEN start ELSE g[<<i, f[i - 1]>>]
      <4> HIDE DEF g
      <4>1. QED
        BY <2>2 DEF StepsFrom
    <3>2. i # 0 => g[<<i, f[i - 1]>>]
                     = IF Starts(px, i) THEN HelperInsert(f[i - 1], px[i])
                       ELSE f[i - 1]
      <4>1. SUFFICES ASSUME i # 0
                     PROVE  g[<<i, f[i - 1]>>]
                     = IF Starts(px, i) THEN HelperInsert(f[i - 1], px[i])
                       ELSE f[i - 1]
        OBVIOUS
      <4>2. i \in 1..n /\ f[i - 1] \in Helpers
        <5>1. i \in 1..n /\ i - 1 \in 0..n
          BY <1>1, <4>1
        <5>2. QED
          BY <2>2, <5>1
      <4>3. <<i, f[i - 1]>> \in (1..n) \X Helpers
        BY <4>2
      <4>4. QED
        BY <4>3
    <3> HIDE DEF g
    <3>3. QED
      BY <3>1, <3>2
  <2>4. f = [i \in 0..n |-> f[i]]
    OBVIOUS
  <2>5. FilledBy(f)
    BY <2>3, <2>4 DEF start
  <2>6. QED
    BY <2>5
<1>4. FilledBy(after)
  BY <1>3
<1>5. ZrlePalette(px) = after[n]
  BY DEF ZrlePalette
<1> HIDE DEF after, start
<1>6. ASSUME NEW i \in 0..n
      PROVE  after[i] = IF i = 0 THEN start ELSE Next(after[i - 1], i)
  BY <1>4 DEF start
<1> DEFINE S == {i \in Nat : i <= n => Helps(after[i], px, i)}
<1>7. 0 \in S
  <2>1. after[0] = start
    BY <1>1, <1>6
  <2>2. Len(<<>>) = 0
    OBVIOUS
  <2>3. QED
    BY <1>2, <2>1, <2>2 DEF Helps
<1>8. ASSUME NEW i \in Nat, i \in S PROVE i + 1 \in S
  <2> DEFINE k == i + 1
             p == after[i]
             q == after[k]
  <2>1. SUFFICES ASSUME k <= n PROVE Helps(q, px, k)
    OBVIOUS
  <2>2. k \in 1..n /\ k \in 0..n /\ k # 0 /\ k - 1 = i /\ i <= n
        /\ \A j \in 1..k : j = k \/ j \in 1..i
    BY <1>1, <2>1
  <2>3. Helps(p, px, i)
    BY <1>8, <2>2
  <2> HIDE DEF k
  <2>4. q = IF Starts(px, k) THEN HelperInsert(p, px[k]) ELSE p
    BY <1>6, <2>2
  <2>5. p \in Helpers /\ px[k] \in Nat
    BY <1>1, <2>2, <2>3 DEF Helps
  <2> HIDE DEF p, q
  <2>6. CASE Starts(px, k)
    <3>1. q = HelperInsert(p, px[k])
      BY <2>4, <2>6
    <3>2. p.size <= m => Len(p.palette) = p.size
      BY <2>3 DEF Helps
    <3>3. /\ q \in Helpers /\ q.size # 0
          /\ q.size <= m =>
               /\ p.size <= m /\ Len(q.palette) = q.size
               /\ HasColour(q.palette, px[k])
               /\ \A d : HasColour(p.palette, d) => HasColour(q.palette, d)
      BY <2>5, <3>1, <3>2, InsertHelps
    <3>4. ASSUME q.size <= m, NEW j \in 1..k PROVE HasColour(q.palette, px[j])
      <4>1. CASE j = k
        BY <3>3, <3>4, <4>1
      <4>2. CASE j # k
        <5>1. HasColour(p.palette, px[j])
          BY <2>2, <2>3, <3>3, <3>4, <4>2 DEF Helps
        <5>2. QED
          BY <3>3, <3>4, <5>1
      <4>3. QED
        BY <4>1, <4>2
    <3>5. QED
      BY <3>3, <3>4 DEF Helps
  <2>7. CASE ~Starts(px, k)
    <3>1. q = p
      BY <2>4, <2>7
    <3>2. i # 0 /\ px[k] = px[i] /\ i \in 1..i
      BY <2>2, <2>7 DEF Starts
    <3>3. ASSUME p.size <= m, NEW j \in 1..k PROVE HasColour(p.palette, px[j])
      <4>1. \A l \in 1..i : HasColour(p.palette, px[l])
        BY <2>3, <3>3 DEF Helps
      <4>2. CASE j = k
        BY <3>2, <4>1, <4>2
      <4>3. CASE j # k
        BY <2>2, <4>1, <4>3
      <4>4. QED
        BY <4>2, <4>3
    <3>4. QED
      BY <2>3, <3>1, <3>2, <3>3 DEF Helps
  <2>8. QED
    BY <2>6, <2>7
<1>9. Helps(after[n], px, n)
  <2>1. n \in S
    <3> HIDE DEF S
    <3>1. n \in Nat
      BY <1>1
    <3>2. QED
      BY <1>7, <1>8, <3>1, SetInduction
  <2>2. QED
    BY <1>1, <2>1
<1> DEFINE ph == ZrlePalette(px)
<1>10. Helps(ph, px, n)
  BY <1>5, <1>9
<1> HIDE DEF ph
<1>11. ph.size \in Nat \ {0} /\ ph.palette \in Seq(Nat)
  BY <1>1, <1>10 DEF Helps, Helpers
<1>12. ph.size <= m => /\ Len(ph.palette) = ph.size
                       /\ \A i \in DOMAIN px : HasColour(ph.palette, px[i])
  BY <1>1, <1>10 DEF Helps
<1>13. ASSUME ph.size = 1, NEW i \in DOMAIN px PROVE px[i] = px[1]
  <2>1. 1 <= m
    BY CompressedAssumption
  <2>2. Len(ph.palette) = 1 /\ 1 \in DOMAIN px
        /\ HasColour(ph.palette, px[i]) /\ HasColour(ph.palette, px[1])
    BY <1>1, <1>12, <1>13, <2>1
  <2>3. DOMAIN ph.palette = 1..1
    BY <1>11, <2>2, LenProperties
  <2>4. QED
    BY <2>2, <2>3 DEF HasColour
<1>14. QED
  BY <1>11, <1>12, <1>13 DEF ph

-----------------------------------------------------------------------------
(* What comes behind the type of a tile. *)
LEMMA TypeIsRead ==
  ASSUME zrleFormat \in 1..4, NEW type \in Nat, NEW body \in Seq(Tokens)
  PROVE  LET s == <<Byte(type)>> \o body
         IN /\ s \in Seq(Tokens) /\ s # <<>> /\ s[1] = Byte(type)
            /\ s[1].is = "byte" /\ s[1].v = type /\ Tail(s) = body
            /\ Bytes(s) = 1 + Bytes(body) /\ Bytes(body) \in Nat
<1> DEFINE h == <<Byte(type)>>
           s == h \o body
<1>1. h \in Seq(Tokens) /\ Len(h) = 1 /\ Bytes(h) = 1 /\ h[1] = Byte(type)
  BY OneToken
<1> HIDE DEF h
<1>2. s \in Seq(Tokens) /\ Len(s) = 1 + Len(body) /\ Tail(s) = body
  <2>1. /\ h \o body \in Seq(Tokens) /\ Len(h \o body) = Len(h) + Len(body)
        /\ Len(h) = 1 => Tail(h \o body) = body
    BY <1>1, RestIsHadBack
  <2>2. QED
    BY <1>1, <2>1
<1>3. Bytes(s) = 1 + Bytes(body) /\ Bytes(body) \in Nat
  BY <1>1, BytesAreAdded
<1>4. s[1] = Byte(type) /\ s # <<>>
  <2>1. Len(body) \in Nat
    BY LenProperties
  <2>2. \A i \in 1..(Len(h) + Len(body)) :
          s[i] = IF i <= Len(h) THEN h[i] ELSE body[i - Len(h)]
    BY <1>1, ConcatProperties
  <2>3. QED
    BY <1>1, <1>2, <2>1, <2>2
<1> HIDE DEF s
<1>5. s[1].is = "byte" /\ s[1].v = type
  BY <1>4 DEF Byte
<1>6. QED
  BY <1>2, <1>3, <1>4, <1>5 DEF s, h

PixelTokens(colours) == [i \in DOMAIN colours |-> Pixel(colours[i])]

(* Pixels are read back. *)
LEMMA PixelsAreRead ==
  ASSUME zrleFormat \in 1..4, NEW colours \in Seq(Nat), colours # <<>>,
         NEW t \in Seq(Tokens)
  PROVE  LET p == PixelTokens(colours)
             n == Len(colours)
         IN /\ p \in Seq(Tokens) /\ Len(p) = n /\ Bytes(p) = n * zrleFormat
            /\ ReadPixels(p \o t, n) = colours
            /\ SubSeq(p \o t, n + 1, Len(p \o t)) = t
<1> DEFINE p == PixelTokens(colours)
           n == Len(colours)
           s == p \o t
<1>1. n \in Nat \ {0} /\ DOMAIN colours = 1..n /\ colours \in [1..n -> Nat]
  BY EmptySeq, LenProperties
<1>2. p \in Seq(Tokens) /\ Len(p) = n /\ Bytes(p) = n * zrleFormat
  <2>1. p = [i \in 1..n |-> Pixel(colours[i])]
    BY <1>1 DEF PixelTokens
  <2> HIDE DEF p, n
  <2>2. QED
    BY <1>1, <2>1, BytesOfPixels
<1>3. \A i \in 1..n : p[i] = Pixel(colours[i])
  BY <1>1 DEF PixelTokens
<1> HIDE DEF p, n
<1>4. /\ s \in Seq(Tokens) /\ Len(s) = n + Len(t)
      /\ SubSeq(s, n + 1, Len(s)) = t
  <2>1. /\ p \o t \in Seq(Tokens) /\ Len(p \o t) = Len(p) + Len(t)
        /\ SubSeq(p \o t, Len(p) + 1, Len(p \o t)) = t
    BY <1>2, RestIsHadBack
  <2>2. QED
    BY <1>2, <2>1
<1>5. ASSUME NEW i \in 1..n PROVE s[i] = Pixel(colours[i])
  <2>1. Len(t) \in Nat
    BY LenProperties
  <2>2. \A j \in 1..(Len(p) + Len(t)) :
          s[j] = IF j <= Len(p) THEN p[j] ELSE t[j - Len(p)]
    BY <1>2, ConcatProperties
  <2>3. QED
    BY <1>1, <1>2, <1>3, <2>1, <2>2
<1> HIDE DEF s
<1>6. Len(s) >= n
  <2>1. Len(t) \in Nat
    BY LenProperties
  <2>2. QED
    BY <1>1, <1>4, <2>1
<1>7. ASSUME NEW i \in 1..n PROVE s[i].is = "pixel" /\ s[i].v = colours[i]
  <2>1. Pixel(colours[i]).is = "pixel" /\ Pixel(colours[i]).v = colours[i]
    BY DEF Pixel
  <2>2. QED
    BY <1>5, <2>1
<1>8. ReadPixels(s, n) = [i \in 1..n |-> colours[i]]
  BY <1>6, <1>7 DEF ReadPixels
<1>9. [i \in 1..n |-> colours[i]] = colours
  BY <1>1
<1>10. QED
  BY <1>2, <1>4, <1>8, <1>9 DEF s, p, n

-----------------------------------------------------------------------------
(* Indices in the bits of bytes. *)

(* The indices of a byte, and the values of one of them. *)
LEMMA BitsAreFew ==
  ASSUME NEW bits \in {1, 2, 4}
  PROVE  8 \div bits \in {2, 4, 8} /\ 2^bits \in {2, 4, 16}
<1>1. /\ 8 \div 1 = 8 /\ 2^1 = 2 /\ 8 \div 2 = 4 /\ 2^2 = 4
      /\ 8 \div 4 = 2 /\ 2^4 = 16
  OBVIOUS
<1>2. QED
  BY <1>1

(* What is shifted in comes out again. *)
LEMMA OneShift ==
  ASSUME NEW a \in Nat, NEW base \in {2, 4, 16}, NEW i \in 0..(base - 1)
  PROVE  /\ a * base + i \in Nat
         /\ (a * base + i) \div base = a /\ (a * base + i) % base = i
<1>1. CASE base = 2
  <2>1. a * 2 + i \in Nat /\ (a * 2 + i) \div 2 = a /\ (a * 2 + i) % 2 = i
    BY <1>1
  <2>2. QED
    BY <1>1, <2>1
<1>2. CASE base = 4
  <2>1. a * 4 + i \in Nat /\ (a * 4 + i) \div 4 = a /\ (a * 4 + i) % 4 = i
    BY <1>2
  <2>2. QED
    BY <1>2, <2>1
<1>3. CASE base = 16
  <2>1. /\ a * 16 + i \in Nat
        /\ (a * 16 + i) \div 16 = a /\ (a * 16 + i) % 16 = i
    BY <1>3
  <2>2. QED
    BY <1>3, <2>1
<1>4. QED
  BY <1>1, <1>2, <1>3

(* Divisions by powers of two, step by step. *)
LEMMA Halves ==
  ASSUME NEW x \in Nat
  PROVE  /\ x \div 1 = x /\ x \div 4 = (x \div 2) \div 2
         /\ x \div 8 = (x \div 4) \div 2 /\ x \div 16 = (x \div 8) \div 2
         /\ x \div 32 = (x \div 16) \div 2 /\ x \div 64 = (x \div 32) \div 2
         /\ x \div 128 = (x \div 64) \div 2
         /\ x \div 16 = (x \div 4) \div 4 /\ x \div 64 = (x \div 16) \div 4
OBVIOUS

(* Bits and indices of a byte. *)
LEMMA BitsAre ==
  ASSUME NEW bits \in {1, 2, 4}
  PROVE  \/ bits = 1 /\ 8 \div bits = 8 /\ 2^bits = 2
         \/ bits = 2 /\ 8 \div bits = 4 /\ 2^bits = 4
         \/ bits = 4 /\ 8 \div bits = 2 /\ 2^bits = 16
<1>1. CASE bits = 1
  <2>1. 8 \div 1 = 8 /\ 2^1 = 2
    OBVIOUS
  <2>2. QED
    BY <1>1, <2>1
<1>2. CASE bits = 2
  <2>1. 8 \div 2 = 4 /\ 2^2 = 4
    OBVIOUS
  <2>2. QED
    BY <1>2, <2>1
<1>3. CASE bits = 4
  <2>1. 8 \div 4 = 2 /\ 2^4 = 16
    OBVIOUS
  <2>2. QED
    BY <1>3, <2>1
<1>4. QED
  BY <1>1, <1>2, <1>3

(* A byte is its indices, one shifted in after the other. *)
Shifted(f, index, d, base) ==
  /\ f \in [0..d -> Nat] /\ f[0] = 0
  /\ \A b \in 1..d : f[b] = f[b - 1] * base + index[b]

(* A byte is shifted together from its indices. *)
LEMMA ByteIsShifted ==
  ASSUME NEW bits \in {1, 2, 4}, NEW index \in [1..(8 \div bits) -> Nat]
  PROVE  \E f : /\ Shifted(f, index, 8 \div bits, 2^bits)
                /\ PackedByte(index, bits) = f[8 \div bits]
<1> DEFINE d == 8 \div bits
           base == 2^bits
           Shifts(f) == f = [b \in 0..(8 \div bits) |->
                               IF b = 0 THEN 0
                               ELSE f[b - 1] * 2^bits + index[b]]
           shifted == CHOOSE f : Shifts(f)
           g == [p \in (1..d) \X Nat |-> p[2] * base + index[p[1]]]
<1>1. d \in Nat /\ base \in Nat
  <2>1. \A k \in {2, 4, 8, 16} : k \in Nat
    OBVIOUS
  <2>2. d \in {2, 4, 8} /\ base \in {2, 4, 16}
    BY BitsAreFew, Zenon
  <2> HIDE DEF d, base
  <2>3. QED
    BY <2>1, <2>2
<1>2. PackedByte(index, bits) = shifted[d]
  BY DEF PackedByte
<1>3. index \in [1..d -> Nat]
  OBVIOUS
<1>4. g \in [(1..d) \X Nat -> Nat]
  <2> HIDE DEF d, base
  <2>1. ASSUME NEW b \in 1..d, NEW x \in Nat PROVE x * base + index[b] \in Nat
    <3>1. index[b] \in Nat /\ x * base \in Nat
      BY <1>1, <1>3
    <3>2. QED
      BY <3>1
  <2>2. QED
    BY <2>1
<1>5. PICK f \in [0..d -> Nat] : StepsFrom(f, 0, d, g)
  <2> HIDE DEF g, d
  <2>1. 0 \in Nat
    OBVIOUS
  <2>2. QED
    BY <1>1, <1>4, <2>1, StepsExist
<1>6. ASSUME NEW b \in 0..d
      PROVE  f[b] = IF b = 0 THEN 0 ELSE f[b - 1] * base + index[b]
  <2>1. f[b] = IF b = 0 THEN 0 ELSE g[<<b, f[b - 1]>>]
    <3> HIDE DEF g, d
    <3>1. QED
      BY <1>5 DEF StepsFrom
  <2>2. ASSUME b # 0 PROVE g[<<b, f[b - 1]>>] = f[b - 1] * base + index[b]
    <3> HIDE DEF d, base
    <3>1. b \in 1..d /\ b - 1 \in 0..d
      BY <1>1, <2>2
    <3>2. f[b - 1] \in Nat
      BY <1>5, <3>1
    <3>3. <<b, f[b - 1]>> \in (1..d) \X Nat
      BY <3>1, <3>2
    <3>4. QED
      BY <3>3
  <2> HIDE DEF g
  <2>3. QED
    BY <2>1, <2>2
<1>7. Shifts(f)
  <2>1. f = [b \in 0..d |-> f[b]]
    BY <1>5
  <2>2. QED
    BY <1>6, <2>1
<1>8. Shifts(shifted)
  BY <1>7
<1> HIDE DEF shifted
<1>9. ASSUME NEW b \in 0..d
      PROVE  shifted[b] = IF b = 0 THEN 0 ELSE shifted[b - 1] * base + index[b]
  BY <1>8
<1> HIDE DEF d, base
<1> DEFINE S == {b \in Nat : b <= d => shifted[b] = f[b]}
<1>10. 0 \in S
  <2>1. 0 \in 0..d
    BY <1>1
  <2>2. QED
    BY <1>6, <1>9, <2>1
<1>11. ASSUME NEW b \in Nat, b \in S PROVE b + 1 \in S
  <2> DEFINE k == b + 1
  <2>1. SUFFICES ASSUME k <= d PROVE shifted[k] = f[k]
    OBVIOUS
  <2>2. k \in 0..d /\ k # 0 /\ k - 1 = b /\ b <= d
    BY <1>1, <2>1
  <2> HIDE DEF k
  <2>3. shifted[b] = f[b]
    BY <1>11, <2>2
  <2>4. QED
    BY <1>6, <1>9, <2>2, <2>3
<1>12. shifted[d] = f[d]
  <2>1. d \in S
    <3> HIDE DEF S
    <3>1. QED
      BY <1>1, <1>10, <1>11, SetInduction
  <2>2. QED
    BY <1>1, <2>1
<1>13. Shifted(f, index, d, base)
  <2>1. \A b \in 1..d : b \in 0..d /\ b # 0
    BY <1>1
  <2>2. f[0] = 0
    <3>1. 0 \in 0..d
      BY <1>1
    <3>2. QED
      BY <1>6, <3>1
  <2>3. QED
    BY <1>5, <1>6, <2>1, <2>2 DEF Shifted
<1>14. QED
  BY <1>2, <1>12, <1>13 DEF d, base

(* The steps of a byte, one by one. *)
LEMMA ShiftedOnce ==
  ASSUME NEW base \in {2, 4, 16}, NEW d \in Nat, NEW f, NEW index,
         Shifted(f, index, d, base), \A b \in 1..d : index[b] \in 0..(base - 1)
  PROVE  /\ \A b \in 0..d : f[b] \in Nat
         /\ \A b \in 1..d : f[b] \div base = f[b - 1]
         /\ \A b \in 1..d : f[b] % base = index[b]
<1>1. \A b \in 0..d : f[b] \in Nat
  BY DEF Shifted
<1>2. ASSUME NEW b \in 1..d
      PROVE  f[b] \div base = f[b - 1] /\ f[b] % base = index[b]
  <2>1. f[b] = f[b - 1] * base + index[b]
    BY DEF Shifted
  <2>2. b - 1 \in 0..d
    OBVIOUS
  <2>3. f[b - 1] \in Nat /\ index[b] \in 0..(base - 1)
    BY <1>1, <2>2
  <2> DEFINE a == f[b - 1]
             i == index[b]
  <2>4. a \in Nat /\ i \in 0..(base - 1)
    BY <2>3
  <2>5. f[b] = a * base + i
    BY <2>1
  <2>6. (a * base + i) \div base = a /\ (a * base + i) % base = i
    <3> HIDE DEF a, i
    <3>1. QED
      BY <2>4, OneShift
  <2>7. f[b] \div base = a /\ f[b] % base = i
    <3> HIDE DEF a, i
    <3>1. QED
      BY <2>5, <2>6, Zenon
  <2>8. QED
    BY <2>7
<1>3. QED
  BY <1>1, <1>2

(* The bits to the right of an index of one bit. *)
LEMMA PlacesOfOne ==
  ASSUME NEW b \in 1..8
  PROVE  \/ (b = 1 /\ 8 - 1 * b = 7) \/ (b = 2 /\ 8 - 1 * b = 6)
         \/ (b = 3 /\ 8 - 1 * b = 5) \/ (b = 4 /\ 8 - 1 * b = 4)
         \/ (b = 5 /\ 8 - 1 * b = 3) \/ (b = 6 /\ 8 - 1 * b = 2)
         \/ (b = 7 /\ 8 - 1 * b = 1) \/ (b = 8 /\ 8 - 1 * b = 0)
<1>1. \/ b = 1 \/ b = 2 \/ b = 3 \/ b = 4 \/ b = 5 \/ b = 6 \/ b = 7 \/ b = 8
  OBVIOUS
<1>2. /\ 8 - 1 * 1 = 7 /\ 8 - 1 * 2 = 6 /\ 8 - 1 * 3 = 5 /\ 8 - 1 * 4 = 4
      /\ 8 - 1 * 5 = 3 /\ 8 - 1 * 6 = 2 /\ 8 - 1 * 7 = 1 /\ 8 - 1 * 8 = 0
  OBVIOUS
<1>3. QED
  BY <1>1, <1>2, Zenon

(* The bits to the right of an index of two bits. *)
LEMMA PlacesOfTwo ==
  ASSUME NEW b \in 1..4
  PROVE  \/ (b = 1 /\ 8 - 2 * b = 6) \/ (b = 2 /\ 8 - 2 * b = 4)
         \/ (b = 3 /\ 8 - 2 * b = 2) \/ (b = 4 /\ 8 - 2 * b = 0)
<1>1. \/ b = 1 \/ b = 2 \/ b = 3 \/ b = 4
  OBVIOUS
<1>2. 8 - 2 * 1 = 6 /\ 8 - 2 * 2 = 4 /\ 8 - 2 * 3 = 2 /\ 8 - 2 * 4 = 0
  OBVIOUS
<1>3. QED
  BY <1>1, <1>2, Zenon

(* The bits to the right of an index of four bits. *)
LEMMA PlacesOfFour ==
  ASSUME NEW b \in 1..2
  PROVE  (b = 1 /\ 8 - 4 * b = 4) \/ (b = 2 /\ 8 - 4 * b = 0)
<1>1. \/ b = 1 \/ b = 2
  OBVIOUS
<1>2. 8 - 4 * 1 = 4 /\ 8 - 4 * 2 = 0
  OBVIOUS
<1>3. QED
  BY <1>1, <1>2, Zenon

(* A place in a byte, of which eight are one bit each, four two and two four. *)
LEMMA PlaceOfBits ==
  ASSUME NEW bits \in {1, 2, 4}, NEW b \in 1..(8 \div bits), NEW f,
         \A k \in 0..(8 \div bits) : f[k] \in Nat,
         \A k \in 1..(8 \div bits) : f[k] \div 2^bits = f[k - 1]
  PROVE  f[8 \div bits] \div 2^(8 - bits * b) = f[b]
<1> DEFINE d == 8 \div bits
           base == 2^bits
           v == f[d]
<1>1. /\ 2^0 = 1 /\ 2^1 = 2 /\ 2^2 = 4 /\ 2^3 = 8 /\ 2^4 = 16 /\ 2^5 = 32
      /\ 2^6 = 64 /\ 2^7 = 128
  OBVIOUS
<1>2. /\ \A k \in 1..d : f[k] \div base = f[k - 1]
      /\ \A k \in 0..d : f[k] \in Nat
  OBVIOUS
<1>3. \/ bits = 1 /\ d = 8 /\ base = 2
      \/ bits = 2 /\ d = 4 /\ base = 4
      \/ bits = 4 /\ d = 2 /\ base = 16
  BY BitsAre, Zenon
<1>4. b \in 1..d
  OBVIOUS
<1> HIDE DEF d, base
<1>5. v \in Nat
  BY <1>2, <1>3
<1>6. /\ v \div 1 = v /\ v \div 4 = (v \div 2) \div 2
      /\ v \div 8 = (v \div 4) \div 2 /\ v \div 16 = (v \div 8) \div 2
      /\ v \div 32 = (v \div 16) \div 2 /\ v \div 64 = (v \div 32) \div 2
      /\ v \div 128 = (v \div 64) \div 2
      /\ v \div 16 = (v \div 4) \div 4 /\ v \div 64 = (v \div 16) \div 4
  BY <1>5, Halves
<1>7. CASE bits = 1
  <2>1. d = 8 /\ base = 2
    BY <1>3, <1>7
  <2>2. v = f[8]
    BY <2>1
  <2>3. \A k \in 1..8 : f[k] \div 2 = f[k - 1]
    BY <1>2, <2>1
  <2>4. /\ f[8] \div 2 = f[7] /\ f[7] \div 2 = f[6] /\ f[6] \div 2 = f[5]
        /\ f[5] \div 2 = f[4] /\ f[4] \div 2 = f[3] /\ f[3] \div 2 = f[2]
        /\ f[2] \div 2 = f[1]
    BY <2>3
  <2> HIDE DEF v
  <2>5. /\ v \div 1 = f[8] /\ v \div 2 = f[7] /\ v \div 4 = f[6]
        /\ v \div 8 = f[5] /\ v \div 16 = f[4] /\ v \div 32 = f[3]
        /\ v \div 64 = f[2] /\ v \div 128 = f[1]
    <3>1. v \div 1 = f[8] /\ v \div 2 = f[7]
      BY <1>6, <2>2, <2>4, Zenon
    <3>2. v \div 4 = f[6]
      BY <1>6, <2>4, <3>1, Zenon
    <3>3. v \div 8 = f[5]
      BY <1>6, <2>4, <3>2, Zenon
    <3>4. v \div 16 = f[4]
      BY <1>6, <2>4, <3>3, Zenon
    <3>5. v \div 32 = f[3]
      BY <1>6, <2>4, <3>4, Zenon
    <3>6. v \div 64 = f[2]
      BY <1>6, <2>4, <3>5, Zenon
    <3>7. v \div 128 = f[1]
      BY <1>6, <2>4, <3>6, Zenon
    <3>8. QED
      BY <3>1, <3>2, <3>3, <3>4, <3>5, <3>6, <3>7
  <2>6. b \in 1..8 /\ bits = 1
    BY <1>4, <1>7, <2>1
  <2>7. \/ (b = 1 /\ 8 - bits * b = 7) \/ (b = 2 /\ 8 - bits * b = 6)
        \/ (b = 3 /\ 8 - bits * b = 5) \/ (b = 4 /\ 8 - bits * b = 4)
        \/ (b = 5 /\ 8 - bits * b = 3) \/ (b = 6 /\ 8 - bits * b = 2)
        \/ (b = 7 /\ 8 - bits * b = 1) \/ (b = 8 /\ 8 - bits * b = 0)
    BY <2>6, PlacesOfOne, Zenon
  <2> DEFINE p == 8 - bits * b
  <2>8. v \div 2^p = f[b]
    <3>1. \/ (b = 1 /\ p = 7) \/ (b = 2 /\ p = 6) \/ (b = 3 /\ p = 5) \/ (b = 4 /\ p = 4)
          \/ (b = 5 /\ p = 3) \/ (b = 6 /\ p = 2) \/ (b = 7 /\ p = 1) \/ (b = 8 /\ p = 0)
      BY <2>7
    <3> HIDE DEF p
    <3>2. /\ v \div 2^0 = f[8] /\ v \div 2^1 = f[7] /\ v \div 2^2 = f[6]
          /\ v \div 2^3 = f[5] /\ v \div 2^4 = f[4] /\ v \div 2^5 = f[3]
          /\ v \div 2^6 = f[2] /\ v \div 2^7 = f[1]
      <4>1. /\ v \div 2^0 = f[8] /\ v \div 2^1 = f[7]
            /\ v \div 2^2 = f[6] /\ v \div 2^3 = f[5]
        BY <1>1, <2>5, Zenon
      <4>2. /\ v \div 2^4 = f[4] /\ v \div 2^5 = f[3]
            /\ v \div 2^6 = f[2] /\ v \div 2^7 = f[1]
        BY <1>1, <2>5, Zenon
      <4>3. QED
        BY <4>1, <4>2, Zenon
    <3>3. QED
      BY <3>1, <3>2, Zenon
  <2>9. QED
    BY <2>8 DEF v, d, p
<1>8. CASE bits = 2
  <2>1. d = 4 /\ base = 4
    BY <1>3, <1>8
  <2>2. v = f[4]
    BY <2>1
  <2>3. \A k \in 1..4 : f[k] \div 4 = f[k - 1]
    BY <1>2, <2>1
  <2>4. f[4] \div 4 = f[3] /\ f[3] \div 4 = f[2] /\ f[2] \div 4 = f[1]
    BY <2>3
  <2> HIDE DEF v
  <2>5. /\ v \div 1 = f[4] /\ v \div 4 = f[3] /\ v \div 16 = f[2]
        /\ v \div 64 = f[1]
    <3>1. v \div 1 = f[4] /\ v \div 4 = f[3]
      BY <1>6, <2>2, <2>4, Zenon
    <3>2. v \div 16 = f[2]
      BY <1>6, <2>4, <3>1, Zenon
    <3>3. v \div 64 = f[1]
      BY <1>6, <2>4, <3>2, Zenon
    <3>4. QED
      BY <3>1, <3>2, <3>3
  <2>6. b \in 1..4 /\ bits = 2
    BY <1>4, <1>8, <2>1
  <2>7. \/ (b = 1 /\ 8 - bits * b = 6) \/ (b = 2 /\ 8 - bits * b = 4)
        \/ (b = 3 /\ 8 - bits * b = 2) \/ (b = 4 /\ 8 - bits * b = 0)
    BY <2>6, PlacesOfTwo, Zenon
  <2>8. v \div 2^(8 - bits * b) = f[b]
    BY <1>1, <2>5, <2>7, Zenon
  <2>9. QED
    BY <2>8 DEF v, d
<1>9. CASE bits = 4
  <2>1. d = 2 /\ base = 16
    BY <1>3, <1>9
  <2>2. v = f[2]
    BY <2>1
  <2>3. \A k \in 1..2 : f[k] \div 16 = f[k - 1]
    BY <1>2, <2>1
  <2>4. f[2] \div 16 = f[1]
    BY <2>3
  <2> HIDE DEF v
  <2>5. v \div 1 = f[2] /\ v \div 16 = f[1]
    BY <1>6, <2>2, <2>4, Zenon
  <2>6. b \in 1..2 /\ bits = 4
    BY <1>4, <1>9, <2>1
  <2>7. \/ (b = 1 /\ 8 - bits * b = 4) \/ (b = 2 /\ 8 - bits * b = 0)
    BY <2>6, PlacesOfFour, Zenon
  <2>8. v \div 2^(8 - bits * b) = f[b]
    BY <1>1, <2>5, <2>7, Zenon
  <2>9. QED
    BY <2>8 DEF v, d
<1>10. QED
  BY <1>7, <1>8, <1>9

(* The two, of a byte. *)
LEMMA StepsOfByte ==
  ASSUME NEW bits \in {1, 2, 4}, NEW f, NEW index,
         Shifted(f, index, 8 \div bits, 2^bits),
         \A b \in 1..(8 \div bits) : index[b] \in 0..(2^bits - 1)
  PROVE  /\ \A b \in 0..(8 \div bits) : f[b] \in Nat
         /\ \A b \in 1..(8 \div bits) : f[b] % 2^bits = index[b]
         /\ \A b \in 1..(8 \div bits) :
               f[8 \div bits] \div 2^(8 - bits * b) = f[b]
<1> DEFINE d == 8 \div bits
           base == 2^bits
<1>1. d \in Nat /\ base \in {2, 4, 16}
  <2>1. \A k \in {2, 4, 8} : k \in Nat
    OBVIOUS
  <2>2. d \in {2, 4, 8} /\ base \in {2, 4, 16}
    BY BitsAreFew, Zenon
  <2> HIDE DEF d, base
  <2>3. QED
    BY <2>1, <2>2
<1>2. Shifted(f, index, d, base) /\ \A b \in 1..d : index[b] \in 0..(base - 1)
  OBVIOUS
<1>3. base = 2^bits /\ d = 8 \div bits
  OBVIOUS
<1> HIDE DEF d, base
<1>4. /\ \A b \in 0..d : f[b] \in Nat
      /\ \A b \in 1..d : f[b] \div base = f[b - 1]
      /\ \A b \in 1..d : f[b] % base = index[b]
  BY <1>1, <1>2, ShiftedOnce
<1>5. ASSUME NEW b \in 1..d
      PROVE  f[d] \div 2^(8 - bits * b) = f[b]
  <2>1. /\ b \in 1..(8 \div bits)
        /\ \A k \in 0..(8 \div bits) : f[k] \in Nat
        /\ \A k \in 1..(8 \div bits) : f[k] \div 2^bits = f[k - 1]
    BY <1>3, <1>4, <1>5, Zenon
  <2>2. f[8 \div bits] \div 2^(8 - bits * b) = f[b]
    BY <2>1, PlaceOfBits, Zenon
  <2>3. QED
    BY <1>3, <2>2, Zenon
<1>6. QED
  BY <1>4, <1>5 DEF d, base

(* The index that is read from a byte is the one that was put there. *)
LEMMA IndexIsInByte ==
  ASSUME NEW bits \in {1, 2, 4}, NEW index,
         index \in [1..(8 \div bits) -> 0..(2^bits - 1)]
  PROVE  /\ PackedByte(index, bits) \in Nat
         /\ \A b \in 1..(8 \div bits) :
               (PackedByte(index, bits) \div 2^(8 - bits * b)) % 2^bits
                 = index[b]
<1> DEFINE d == 8 \div bits
           base == 2^bits
<1>1. base \in Nat /\ d \in Nat /\ d \in 0..d
  <2>1. \A k \in {2, 4, 8} : k \in Nat /\ k \in 0..k
    OBVIOUS
  <2>2. \A k \in {2, 4, 16} : k \in Nat
    OBVIOUS
  <2>3. d \in {2, 4, 8} /\ base \in {2, 4, 16}
    BY BitsAreFew, Zenon
  <2> HIDE DEF d, base
  <2>4. QED
    BY <2>1, <2>2, <2>3, Zenon
<1>2. index \in [1..d -> Nat] /\ \A k \in 1..d : index[k] \in 0..(base - 1)
  <2>1. index \in [1..d -> 0..(base - 1)]
    OBVIOUS
  <2> HIDE DEF d, base
  <2>2. \A x \in 0..(base - 1) : x \in Nat
    BY <1>1
  <2>3. QED
    BY <2>1, <2>2
<1>3. PICK f : /\ Shifted(f, index, 8 \div bits, 2^bits)
               /\ PackedByte(index, bits) = f[8 \div bits]
  BY <1>2, ByteIsShifted, Zenon
<1>4. /\ \A b \in 0..(8 \div bits) : f[b] \in Nat
      /\ \A b \in 1..(8 \div bits) : f[b] % 2^bits = index[b]
      /\ \A b \in 1..(8 \div bits) :
               f[8 \div bits] \div 2^(8 - bits * b) = f[b]
  <2>1. /\ Shifted(f, index, 8 \div bits, 2^bits)
        /\ \A b \in 1..(8 \div bits) : index[b] \in 0..(2^bits - 1)
    BY <1>2, <1>3, Zenon
  <2> HIDE DEF d, base
  <2>2. QED
    BY <2>1, StepsOfByte, Zenon
<1>5. QED
  BY <1>1, <1>3, <1>4, Zenon

(* A row of pixels in whole bytes. *)
LEMMA RowOfTwo ==
  ASSUME NEW w \in Nat \ {0}
  PROVE  /\ (w + 1) \div 2 \in 1..w
         /\ \A x \in 0..(w - 1) :
              /\ x \div 2 \in 0..((w + 1) \div 2 - 1)
              /\ x % 2 \in 0..1 /\ x = (x \div 2) * 2 + (x % 2)
<1>1. (w + 1) \div 2 \in 1..w
  OBVIOUS
<1>2. ASSUME NEW x \in 0..(w - 1)
      PROVE  /\ x \div 2 \in 0..((w + 1) \div 2 - 1)
             /\ x % 2 \in 0..1 /\ x = (x \div 2) * 2 + (x % 2)
  <2>1. x \div 2 \in 0..((w + 1) \div 2 - 1)
    OBVIOUS
  <2>2. x % 2 \in 0..1
    OBVIOUS
  <2>3. x = (x \div 2) * 2 + (x % 2)
    <3>1. x \in Nat
      OBVIOUS
    <3>2. \A d \in Nat \ {0} : x = (x \div d) * d + (x % d)
      BY <3>1, Division
    <3>3. QED
      BY <3>2
  <2>4. QED
    BY <2>1, <2>2, <2>3, Zenon
<1>3. QED
  BY <1>1, <1>2, Zenon

(* Rows of four indices a byte. *)
LEMMA RowOfFour ==
  ASSUME NEW w \in Nat \ {0}
  PROVE  /\ (w + 3) \div 4 \in 1..w
         /\ \A x \in 0..(w - 1) :
              /\ x \div 4 \in 0..((w + 3) \div 4 - 1)
              /\ x % 4 \in 0..3 /\ x = (x \div 4) * 4 + (x % 4)
<1>1. (w + 3) \div 4 \in 1..w
  OBVIOUS
<1>2. ASSUME NEW x \in 0..(w - 1)
      PROVE  /\ x \div 4 \in 0..((w + 3) \div 4 - 1)
             /\ x % 4 \in 0..3 /\ x = (x \div 4) * 4 + (x % 4)
  <2>1. x \div 4 \in 0..((w + 3) \div 4 - 1)
    OBVIOUS
  <2>2. x % 4 \in 0..3
    OBVIOUS
  <2>3. x = (x \div 4) * 4 + (x % 4)
    <3>1. x \in Nat
      OBVIOUS
    <3>2. \A d \in Nat \ {0} : x = (x \div d) * d + (x % d)
      BY <3>1, Division
    <3>3. QED
      BY <3>2
  <2>4. QED
    BY <2>1, <2>2, <2>3, Zenon
<1>3. QED
  BY <1>1, <1>2, Zenon

(* Rows of eight indices a byte. *)
LEMMA RowOfEight ==
  ASSUME NEW w \in Nat \ {0}
  PROVE  /\ (w + 7) \div 8 \in 1..w
         /\ \A x \in 0..(w - 1) :
              /\ x \div 8 \in 0..((w + 7) \div 8 - 1)
              /\ x % 8 \in 0..7 /\ x = (x \div 8) * 8 + (x % 8)
<1>1. (w + 7) \div 8 \in 1..w
  OBVIOUS
<1>2. ASSUME NEW x \in 0..(w - 1)
      PROVE  /\ x \div 8 \in 0..((w + 7) \div 8 - 1)
             /\ x % 8 \in 0..7 /\ x = (x \div 8) * 8 + (x % 8)
  <2>1. x \div 8 \in 0..((w + 7) \div 8 - 1)
    OBVIOUS
  <2>2. x % 8 \in 0..7
    OBVIOUS
  <2>3. x = (x \div 8) * 8 + (x % 8)
    <3>1. x \in Nat
      OBVIOUS
    <3>2. \A d \in Nat \ {0} : x = (x \div d) * d + (x % d)
      BY <3>1, Division
    <3>3. QED
      BY <3>2
  <2>4. QED
    BY <2>1, <2>2, <2>3, Zenon
<1>3. QED
  BY <1>1, <1>2, Zenon

(* Every pixel of a row has a place in the bytes of the row. *)
LEMMA RowOfBytes ==
  ASSUME NEW w \in Nat \ {0}, NEW d \in {2, 4, 8},
         NEW row, row = (w + d - 1) \div d
  PROVE  /\ row \in 1..w
         /\ \A x \in 0..(w - 1) :
              /\ x \div d \in 0..(row - 1) /\ x % d \in 0..(d - 1)
              /\ x = (x \div d) * d + (x % d)
<1>1. CASE d = 2
  <2>1. w + 2 - 1 = w + 1 /\ 2 - 1 = 1
    OBVIOUS
  <2>2. row = (w + 1) \div 2
    BY <1>1, <2>1, Zenon
  <2>3. QED
    BY <1>1, <2>1, <2>2, RowOfTwo, Zenon
<1>2. CASE d = 4
  <2>1. w + 4 - 1 = w + 3 /\ 4 - 1 = 3
    OBVIOUS
  <2>2. row = (w + 3) \div 4
    BY <1>2, <2>1, Zenon
  <2>3. QED
    BY <1>2, <2>1, <2>2, RowOfFour, Zenon
<1>3. CASE d = 8
  <2>1. w + 8 - 1 = w + 7 /\ 8 - 1 = 7
    OBVIOUS
  <2>2. row = (w + 7) \div 8
    BY <1>3, <2>1, Zenon
  <2>3. QED
    BY <1>3, <2>1, <2>2, RowOfEight, Zenon
<1>4. QED
  BY <1>1, <1>2, <1>3, Zenon

(* Bits that are enough for the palette. *)
LEMMA BitsAreEnough ==
  ASSUME NEW size \in 2..16
  PROVE  /\ BitsPerPackedPixel(size) \in {1, 2, 4}
         /\ size <= 2^BitsPerPackedPixel(size)
         /\ BitsPerPackedPixel(size)
              = (IF size > 4 THEN 4 ELSE IF size > 2 THEN 2 ELSE 1)
         /\ 8 \div BitsPerPackedPixel(size) \in {2, 4, 8}
<1>1. BitsPerPackedPixel(size)
        = (IF size > 4 THEN 4 ELSE IF size > 2 THEN 2 ELSE 1)
  BY DEF BitsPerPackedPixel
<1>2. BitsPerPackedPixel(size) \in {1, 2, 4}
  BY <1>1
<1>3. size <= 2^BitsPerPackedPixel(size)
      /\ 8 \div BitsPerPackedPixel(size) \in {2, 4, 8}
  <2> DEFINE bits == BitsPerPackedPixel(size)
  <2> HIDE DEF bits
  <2>1. \/ bits = 1 /\ 8 \div bits = 8 /\ 2^bits = 2
        \/ bits = 2 /\ 8 \div bits = 4 /\ 2^bits = 4
        \/ bits = 4 /\ 8 \div bits = 2 /\ 2^bits = 16
    BY <1>2, BitsAre DEF bits
  <2>2. bits = (IF size > 4 THEN 4 ELSE IF size > 2 THEN 2 ELSE 1)
    BY <1>1 DEF bits
  <2>3. size <= 2^bits /\ 8 \div bits \in {2, 4, 8}
    BY <2>1, <2>2
  <2>4. QED
    BY <2>3 DEF bits
<1>4. QED
  BY <1>1, <1>2, <1>3

-----------------------------------------------------------------------------
(* The index that PackedTokens puts at a place of a byte, of d a byte and  *)
(* row bytes a row.                                                        *)
PackedIndex(px, w, palette, d, row, k, b) ==
  LET x == ((k - 1) % row) * d + b - 1
  IN IF x >= w THEN 0 ELSE ZrleIndex(palette, px[((k - 1) \div row) * w + x + 1])

(* A picture, its palette and the bytes of its rows. *)
CanPack(px, w, h, palette, bits, d, row) ==
  /\ w \in Nat \ {0} /\ h \in Nat \ {0} /\ px \in Seq(Nat) /\ Len(px) = w * h
  /\ IsPalette(palette) /\ \A i \in DOMAIN px : HasColour(palette, px[i])
  /\ Len(palette) \in 2..16
  /\ bits = BitsPerPackedPixel(Len(palette)) /\ d = 8 \div bits
  /\ row = (w + d - 1) \div d

(* Every pixel of a row is in a byte of it. *)
RowIsPacked(w, d, row) ==
  \A x \in 0..(w - 1) : /\ x \div d \in 0..(row - 1) /\ x % d \in 0..(d - 1)
                        /\ x = (x \div d) * d + (x % d)

(* What follows for a picture that can be packed. *)
LEMMA CanPackIs ==
  ASSUME NEW px, NEW w, NEW h, NEW palette, NEW bits, NEW d, NEW row,
         CanPack(px, w, h, palette, bits, d, row)
  PROVE  /\ bits \in {1, 2, 4} /\ d \in {2, 4, 8} /\ d \in Nat \ {0}
         /\ 2^bits \in Nat /\ Len(palette) <= 2^bits /\ 0 < 2^bits
         /\ row \in 1..w /\ row \in Nat \ {0} /\ RowIsPacked(w, d, row)
<1> DEFINE size == Len(palette)
<1>1. size \in 2..16 /\ w \in Nat \ {0} /\ row = (w + d - 1) \div d
      /\ bits = BitsPerPackedPixel(size) /\ d = 8 \div bits
  BY DEF CanPack
<1> HIDE DEF size
<1>2. bits \in {1, 2, 4} /\ size <= 2^bits /\ d \in {2, 4, 8}
  BY <1>1, BitsAreEnough, Zenon
<1>3. 2^bits \in {2, 4, 16}
  BY <1>2, BitsAreFew, Zenon
<1>4. row \in 1..w /\ RowIsPacked(w, d, row)
  BY <1>1, <1>2, RowOfBytes, Zenon DEF RowIsPacked
<1>5. \A e \in {2, 4, 8} : e \in Nat \ {0}
  OBVIOUS
<1>6. \A e \in {2, 4, 16} : e \in Nat /\ 0 < e
  OBVIOUS
<1>7. \A e \in 1..w : e \in Nat \ {0}
  BY <1>1
<1>8. QED
  BY <1>2, <1>3, <1>4, <1>5, <1>6, <1>7, Zenon DEF size

(* The indices of all pixels are put where they are looked for. *)
IndicesAre(px, w, h, palette, d, row) ==
  \A x \in 0..(w - 1), y \in 0..(h - 1) :
    /\ y * row + (x \div d) + 1 \in 1..(row * h)
    /\ (x % d) + 1 \in 1..d
    /\ y * w + x + 1 \in DOMAIN px
    /\ PackedIndex(px, w, palette, d, row, y * row + (x \div d) + 1, (x % d) + 1)
         = ZrleIndex(palette, px[y * w + x + 1])

(* Every index has its bits, and every pixel its index. *)
LEMMA IndicesArePacked ==
  ASSUME NEW px, NEW w, NEW h, NEW palette, NEW bits, NEW d, NEW row,
         CanPack(px, w, h, palette, bits, d, row)
  PROVE  /\ \A k \in 1..(row * h), b \in 1..d :
              PackedIndex(px, w, palette, d, row, k, b) \in 0..(2^bits - 1)
         /\ IndicesAre(px, w, h, palette, d, row)
<1> DEFINE size == Len(palette)
           top == 2^bits
<1>1. /\ w \in Nat \ {0} /\ h \in Nat \ {0} /\ px \in Seq(Nat) /\ Len(px) = w * h
      /\ IsPalette(palette) /\ \A i \in DOMAIN px : HasColour(palette, px[i])
      /\ size \in 2..16
  BY DEF CanPack
<1>2. /\ d \in Nat \ {0} /\ top \in Nat /\ size <= top /\ 0 < top
      /\ row \in Nat \ {0}
      /\ RowIsPacked(w, d, row)
  <2>1. d \in Nat \ {0} /\ top \in Nat /\ size <= top /\ 0 < top
    BY CanPackIs, Zenon
  <2>2. /\ row \in Nat \ {0}
        /\ RowIsPacked(w, d, row)
    BY CanPackIs, Zenon
  <2>3. QED
    BY <2>1, <2>2, Zenon
<1>3. DOMAIN px = 1..(w * h)
  BY <1>1, LenProperties
<1> HIDE DEF size, top
<1>4. ASSUME NEW i \in 1..(w * h)
      PROVE  ZrleIndex(palette, px[i]) \in 0..(top - 1)
  <2>1. ZrleIndex(palette, px[i]) \in 0..(size - 1)
    BY <1>1, <1>3, IndexIs, Zenon DEF size
  <2>2. \A n \in 0..(size - 1) : n \in 0..(top - 1)
    BY <1>1, <1>2
  <2>3. QED
    BY <2>1, <2>2
<1>5. ASSUME NEW k \in 1..(row * h), NEW b \in 1..d
      PROVE  PackedIndex(px, w, palette, d, row, k, b) \in 0..(top - 1)
  <2> DEFINE q == (k - 1) % row
             y == (k - 1) \div row
             x == q * d + b - 1
  <2>1. q \in 0..(row - 1) /\ y \in 0..(h - 1)
    BY <1>1, <1>2, CellOfPlace, Zenon
  <2>2. PackedIndex(px, w, palette, d, row, k, b)
          = IF x >= w THEN 0 ELSE ZrleIndex(palette, px[y * w + x + 1])
    BY DEF PackedIndex
  <2> HIDE DEF q, y
  <2>3. x \in Nat
    <3>1. q \in Nat /\ d \in Nat /\ b \in Nat /\ b >= 1
      BY <1>2, <2>1
    <3>2. q * d \in Nat
      BY <3>1
    <3>3. QED
      BY <3>1, <3>2
  <2> HIDE DEF x
  <2>4. CASE x >= w
    <3>1. 0 \in 0..(top - 1)
      BY <1>2
    <3>2. QED
      BY <2>2, <2>4, <3>1
  <2>5. CASE ~(x >= w)
    <3>1. x \in 0..(w - 1)
      BY <1>1, <2>3, <2>5
    <3>2. y * w + x + 1 \in 1..(w * h)
      BY <1>1, <2>1, <3>1, PlaceOfCell, Zenon
    <3>3. QED
      BY <1>4, <2>2, <2>5, <3>2, Zenon
  <2>6. QED
    BY <2>4, <2>5
<1>6. ASSUME NEW x \in 0..(w - 1), NEW y \in 0..(h - 1)
      PROVE  /\ y * row + (x \div d) + 1 \in 1..(row * h)
             /\ (x % d) + 1 \in 1..d
             /\ y * w + x + 1 \in DOMAIN px
             /\ PackedIndex(px, w, palette, d, row,
                            y * row + (x \div d) + 1, (x % d) + 1)
                  = ZrleIndex(palette, px[y * w + x + 1])
  <2> DEFINE q == x \div d
             r == x % d
             k == y * row + q + 1
             b == r + 1
  <2>1. q \in 0..(row - 1) /\ r \in 0..(d - 1) /\ x = q * d + r
    BY <1>2, Zenon DEF RowIsPacked
  <2> HIDE DEF q, r
  <2>2. k \in 1..(row * h) /\ (k - 1) % row = q /\ (k - 1) \div row = y
    <3>1. row \in Nat \ {0} /\ h \in Nat \ {0}
      BY <1>1, <1>2, Zenon
    <3>2. q \in 0..(row - 1) /\ y \in 0..(h - 1)
      BY <2>1
    <3>3. /\ y * row + q + 1 \in 1..(row * h)
          /\ ((y * row + q + 1) - 1) % row = q
          /\ ((y * row + q + 1) - 1) \div row = y
      BY <3>1, <3>2, PlaceOfCell
    <3>4. QED
      BY <3>3, Zenon DEF k
  <2>3. b \in 1..d
    BY <1>2, <2>1
  <2>4. q * d + b - 1 = x
    <3>1. q \in Nat /\ d \in Nat /\ r \in Nat
      BY <1>2, <2>1
    <3>2. q * d \in Nat
      BY <3>1
    <3>3. QED
      BY <2>1, <3>1, <3>2
  <2>5. y * w + x + 1 \in DOMAIN px
    BY <1>1, <1>3, PlaceOfCell, Zenon
  <2>6. ~(x >= w)
    BY <1>1
  <2> HIDE DEF k, b
  <2>7. PackedIndex(px, w, palette, d, row, k, b)
          = ZrleIndex(palette, px[y * w + x + 1])
    BY <2>2, <2>4, <2>6, Zenon DEF PackedIndex
  <2>8. QED
    BY <2>2, <2>3, <2>5, <2>7, Zenon DEF k, b, q, r
<1>7. QED
  BY <1>5, <1>6, Zenon DEF top, IndicesAre

(* The client finds the index of each pixel in the bytes. *)
IndicesAreIn(tokens, px, w, h, palette, bits, d, row) ==
  \A x \in 0..(w - 1), y \in 0..(h - 1) :
    (tokens[y * row + (x \div d) + 1].v \div 2^(8 - bits * ((x % d) + 1))) % 2^bits
      = ZrleIndex(palette, px[y * w + x + 1])

(* The tokens of a picture with a palette are the bytes of its rows. *)
LEMMA PackedTokensAre ==
  ASSUME zrleFormat \in 1..4,
         NEW px, NEW w, NEW h, NEW palette, NEW bits, NEW d, NEW row,
         CanPack(px, w, h, palette, bits, d, row)
  PROVE  LET tokens == PackedTokens(px, w, palette)
         IN /\ tokens \in Seq(Tokens) /\ Len(tokens) = row * h
            /\ Bytes(tokens) = row * h
            /\ \A k \in 1..(row * h) : tokens[k].is = "byte"
            /\ IndicesAreIn(tokens, px, w, h, palette, bits, d, row)
<1> DEFINE n == row * h
           tokens == PackedTokens(px, w, palette)
           index(k, b) == PackedIndex(px, w, palette, d, row, k, b)
           byte(k) == PackedByte([b \in 1..d |-> index(k, b)], bits)
<1>1. /\ w \in Nat \ {0} /\ h \in Nat \ {0} /\ Len(px) = w * h
      /\ bits = BitsPerPackedPixel(Len(palette)) /\ d = 8 \div bits
      /\ row = (w + d - 1) \div d
  BY DEF CanPack
<1>2. bits \in {1, 2, 4} /\ row \in Nat \ {0}
  BY CanPackIs, Zenon
<1>3. \A k \in 1..n, b \in 1..d : index(k, b) \in 0..(2^bits - 1)
  BY IndicesArePacked, Zenon
<1>3a. IndicesAre(px, w, h, palette, d, row)
  BY IndicesArePacked, Zenon
<1>4. n \in Nat
  BY <1>1, <1>2
<1>5. Len(px) \div w = h
  <2>1. (h * w + 0) \div w = h
    <3>1. 0 \in 0..(w - 1)
      BY <1>1
    <3>2. QED
      BY <1>1, <3>1, DivisionIsUnique, Zenon
  <2>2. h * w + 0 = w * h
    BY <1>1
  <2>3. QED
    BY <1>1, <2>1, <2>2
<1>6. tokens = [k \in 1..n |-> Byte(byte(k))]
  BY <1>1, <1>5, Zenon DEF PackedTokens, PackedIndex
<1> HIDE DEF tokens, n, index
<1>7. ASSUME NEW k \in 1..n
      PROVE  /\ byte(k) \in Nat
             /\ \A b \in 1..d :
                  (byte(k) \div 2^(8 - bits * b)) % 2^bits = index(k, b)
  <2> DEFINE f == [b \in 1..d |-> index(k, b)]
  <2>1. f \in [1..(8 \div bits) -> 0..(2^bits - 1)]
    BY <1>1, <1>3
  <2>2. \A b \in 1..d : f[b] = index(k, b)
    OBVIOUS
  <2> HIDE DEF f
  <2>3. /\ PackedByte(f, bits) \in Nat
        /\ \A b \in 1..(8 \div bits) :
             (PackedByte(f, bits) \div 2^(8 - bits * b)) % 2^bits = f[b]
    BY <1>2, <2>1, IndexIsInByte, Zenon
  <2>4. QED
    BY <1>1, <2>2, <2>3, Zenon DEF f
<1> HIDE DEF byte
<1>8. /\ \A k \in 1..n : byte(k) \in Nat
      /\ \A k \in 1..n, b \in 1..d :
           (byte(k) \div 2^(8 - bits * b)) % 2^bits = index(k, b)
  BY <1>7, Zenon
<1>9. \A k \in 1..n : tokens[k] = Byte(byte(k))
  BY <1>6
<1>10. \A k \in 1..n : tokens[k].is = "byte" /\ tokens[k].v = byte(k)
  <2>1. \A v : Byte(v).is = "byte" /\ Byte(v).v = v
    BY DEF Byte
  <2>2. QED
    BY <1>9, <2>1, Zenon
<1>11. tokens \in Seq(Tokens) /\ Len(tokens) = n
  <2>1. \A k \in 1..n : Byte(byte(k)) \in Tokens
    BY <1>8, TokensAre, Zenon
  <2>2. tokens \in [1..n -> Tokens]
    BY <1>6, <2>1
  <2>3. DOMAIN tokens = 1..n
    BY <1>6
  <2>4. QED
    BY <1>4, <2>2, <2>3, ListOf
<1>12. Bytes(tokens) = n
  BY <1>10, <1>11, BytesOfBytes
<1>13. ASSUME NEW x \in 0..(w - 1), NEW y \in 0..(h - 1)
       PROVE  (tokens[y * row + (x \div d) + 1].v
                    \div 2^(8 - bits * ((x % d) + 1))) % 2^bits
                   = ZrleIndex(palette, px[y * w + x + 1])
  <2> DEFINE k == y * row + (x \div d) + 1
             b == (x % d) + 1
  <2>1. k \in 1..n /\ b \in 1..d
        /\ index(k, b) = ZrleIndex(palette, px[y * w + x + 1])
    BY <1>3a, Zenon DEF IndicesAre, n, index
  <2> HIDE DEF k, b
  <2>2. tokens[k].v = byte(k)
    BY <1>10, <2>1, Zenon
  <2>3. (byte(k) \div 2^(8 - bits * b)) % 2^bits = index(k, b)
    BY <1>8, <2>1, Zenon
  <2>4. (tokens[k].v \div 2^(8 - bits * b)) % 2^bits
          = ZrleIndex(palette, px[y * w + x + 1])
    BY <2>1, <2>2, <2>3, Zenon
  <2>5. QED
    BY <2>4 DEF k, b
<1>14. QED
  <2>1. IndicesAreIn(tokens, px, w, h, palette, bits, d, row)
    BY <1>13, Zenon DEF IndicesAreIn
  <2>2. QED
    BY <1>10, <1>11, <1>12, <2>1, Zenon DEF tokens, n

(* What the client finds behind the palette: the bytes of the rows.        *)
AreRows(s, size, tokens, t) ==
  /\ s \in Seq(Tokens) /\ Len(s) = size + Len(tokens) + Len(t)
  /\ \A k \in 1..Len(tokens) : s[size + k] = tokens[k]
  /\ SubSeq(s, size + Len(tokens) + 1, Len(s)) = t

(* The rows are behind the palette, and the rest is behind them. *)
LEMMA RowsAreBehind ==
  ASSUME NEW p \in Seq(Tokens), NEW tokens \in Seq(Tokens), NEW t \in Seq(Tokens)
  PROVE  AreRows(p \o (tokens \o t), Len(p), tokens, t)
<1> DEFINE u == tokens \o t
           s == p \o u
           a == Len(p)
           n == Len(tokens)
           b == Len(t)
<1>1. a \in Nat /\ n \in Nat /\ b \in Nat
  BY LenProperties
<1>2. u \in Seq(Tokens) /\ Len(u) = n + b
  BY RestIsHadBack
<1>3. \A k \in 1..(n + b) : u[k] = IF k <= n THEN tokens[k] ELSE t[k - n]
  BY ConcatProperties
<1> HIDE DEF u
<1>4. s \in Seq(Tokens) /\ Len(s) = a + Len(u)
  BY <1>2, RestIsHadBack
<1>5. \A k \in 1..(a + Len(u)) : s[k] = IF k <= a THEN p[k] ELSE u[k - a]
  BY <1>2, ConcatProperties
<1> HIDE DEF s, a, n, b
<1>6. ASSUME NEW k \in 1..n PROVE s[a + k] = tokens[k]
  <2>1. a + k \in 1..(a + Len(u)) /\ ~(a + k <= a) /\ (a + k) - a = k
        /\ k \in 1..(n + b) /\ k <= n
    BY <1>1, <1>2
  <2>2. u[k] = tokens[k]
    BY <1>3, <2>1
  <2> DEFINE j == a + k
  <2>3. j \in 1..(a + Len(u)) /\ ~(j <= a) /\ j - a = k
    BY <2>1, Zenon
  <2> HIDE DEF j
  <2>4. s[j] = u[k]
    BY <1>5, <2>3, Zenon
  <2>5. QED
    BY <2>2, <2>4 DEF j
<1>7. SubSeq(s, a + n + 1, Len(s)) = t
  <2> DEFINE v == p \o tokens
  <2>1. v \in Seq(Tokens) /\ Len(v) = a + n
    BY RestIsHadBack DEF a, n
  <2>2. s = v \o t
    BY TokensAreGrouped DEF s, u
  <2> HIDE DEF v
  <2>3. SubSeq(v \o t, Len(v) + 1, Len(v \o t)) = t
    BY <2>1, RestIsHadBack
  <2>4. QED
    BY <2>1, <2>2, <2>3
<1>8. Len(s) = a + n + b
  BY <1>1, <1>2, <1>4
<1>9. QED
  BY <1>4, <1>6, <1>7, <1>8 DEF AreRows, s, a, n, b, u

(* ReadPacked(), of the bits, indices a byte, bytes a row and palette. *)
ReadPackedWith(bits, d, row, palette, type, s, w, h) ==
  LET at(x, y) == type + y * row + x \div d + 1
      index(x, y) == (s[at(x, y)].v \div 2^(8 - bits * ((x % d) + 1))) % 2^bits
      pixel(i) == index((i - 1) % w, (i - 1) \div w)
  IN IF palette = <<>> \/ Len(s) < type + row * h
        \/ \E k \in (type + 1)..(type + row * h) : s[k].is # "byte"
        \/ \E i \in 1..(w * h) : pixel(i) >= type
     THEN TileFailed
     ELSE TileDone([i \in 1..(w * h) |-> palette[pixel(i) + 1]],
                   SubSeq(s, type + row * h + 1, Len(s)))

BitsOf(type) == IF type > 4 THEN 4 ELSE IF type > 2 THEN 2 ELSE 1

(* ReadPacked with its local numbers. *)
LEMMA ReadPackedIs ==
  ASSUME NEW type, NEW s, NEW w, NEW h, NEW bits, bits = BitsOf(type),
         NEW d, d = 8 \div bits, NEW row, row = (w + d - 1) \div d,
         NEW palette, ReadPixels(s, type) = palette
  PROVE  ReadPacked(type, s, w, h)
           = ReadPackedWith(bits, d, row, palette, type, s, w, h)
<1> DEFINE bpp == BitsOf(type)
           divider == 8 \div bpp
           rowLen == (w + divider - 1) \div divider
<1>1. ReadPacked(type, s, w, h)
        = ReadPackedWith(bpp, divider, rowLen, ReadPixels(s, type), type, s, w, h)
  BY DEF ReadPacked, ReadPackedWith, BitsOf
<1>2. bits = bpp /\ d = divider /\ row = rowLen
  BY Zenon
<1> HIDE DEF bpp, divider, rowLen
<1>3. QED
  BY <1>1, <1>2, Zenon

(* A picture that is sent as indices is read back.                         *)
LEMMA PackedIsRead ==
  ASSUME zrleFormat \in 1..4,
         NEW px, NEW w, NEW h, NEW palette, NEW bits, NEW d, NEW row,
         CanPack(px, w, h, palette, bits, d, row), NEW t \in Seq(Tokens)
  PROVE  ReadPacked(Len(palette),
                    PixelTokens(palette) \o (PackedTokens(px, w, palette) \o t),
                    w, h) = TileDone(px, t)
<1> DEFINE size == Len(palette)
           tokens == PackedTokens(px, w, palette)
           n == row * h
           s == PixelTokens(palette) \o (tokens \o t)
           at(x, y) == size + y * row + x \div d + 1
           index(x, y) == (s[at(x, y)].v \div 2^(8 - bits * ((x % d) + 1)))
                            % 2^bits
           pixel(i) == index((i - 1) % w, (i - 1) \div w)
<1>1. /\ w \in Nat \ {0} /\ h \in Nat \ {0} /\ px \in Seq(Nat) /\ Len(px) = w * h
      /\ IsPalette(palette) /\ \A i \in DOMAIN px : HasColour(palette, px[i])
      /\ size \in 2..16 /\ bits = BitsPerPackedPixel(size) /\ d = 8 \div bits
      /\ row = (w + d - 1) \div d
  BY DEF CanPack
<1>2. bits = BitsOf(size)
  BY <1>1, BitsAreEnough DEF BitsOf
<1>3. d \in {2, 4, 8} /\ row \in Nat \ {0} /\ RowIsPacked(w, d, row)
  BY CanPackIs, Zenon
<1>4. n \in Nat
  BY <1>1, <1>3
<1>5. /\ tokens \in Seq(Tokens) /\ Len(tokens) = n
      /\ \A k \in 1..n : tokens[k].is = "byte"
      /\ IndicesAreIn(tokens, px, w, h, palette, bits, d, row)
  BY PackedTokensAre
<1>6. IndicesAre(px, w, h, palette, d, row)
  BY IndicesArePacked, Zenon
<1>7. palette \in Seq(Nat) /\ palette # <<>> /\ DOMAIN palette = 1..size
  <2>1. palette \in Seq(Nat) /\ size # 0
    <3>1. palette \in Seq(Nat)
      BY <1>1, Zenon DEF IsPalette
    <3>2. \A k \in 2..16 : k # 0
      OBVIOUS
    <3>3. QED
      BY <1>1, <3>1, <3>2, Zenon
  <2>2. QED
    BY <2>1, LenProperties, EmptySeq
<1>8. /\ PixelTokens(palette) \in Seq(Tokens) /\ Len(PixelTokens(palette)) = size
      /\ ReadPixels(s, size) = palette
  <2>1. tokens \o t \in Seq(Tokens)
    BY <1>5, RestIsHadBack
  <2> HIDE DEF tokens
  <2>2. QED
    BY <1>7, <2>1, PixelsAreRead
<1>9. AreRows(s, size, tokens, t)
  <2> HIDE DEF tokens
  <2>1. AreRows(s, Len(PixelTokens(palette)), tokens, t)
    BY <1>5, <1>8, RowsAreBehind
  <2>2. QED
    BY <1>8, <2>1
<1> HIDE DEF tokens, s, n, size
<1>10. /\ s \in Seq(Tokens) /\ Len(s) >= size + n
       /\ \A k \in 1..n : s[size + k] = tokens[k]
       /\ SubSeq(s, size + n + 1, Len(s)) = t
  <2>1. Len(t) \in Nat
    BY LenProperties
  <2>2. QED
    BY <1>1, <1>4, <1>5, <1>9, <2>1 DEF AreRows
<1>11. ASSUME NEW k \in (size + 1)..(size + n) PROVE s[k].is = "byte"
  <2>1. k - size \in 1..n /\ size + (k - size) = k
    BY <1>1, <1>4
  <2>2. s[size + (k - size)] = tokens[k - size] /\ tokens[k - size].is = "byte"
    BY <1>5, <1>10, <2>1, Zenon
  <2>3. QED
    BY <2>1, <2>2
<1>12. ASSUME NEW x \in 0..(w - 1), NEW y \in 0..(h - 1)
       PROVE  index(x, y) = ZrleIndex(palette, px[y * w + x + 1])
  <2> DEFINE q == x \div d
             k == y * row + q + 1
  <2>1. k \in 1..n
    BY <1>6, Zenon DEF IndicesAre, n
  <2>2. at(x, y) = size + k
    <3>1. q \in Nat
      <4>1. q \in 0..(row - 1)
        BY <1>3, Zenon DEF RowIsPacked
      <4>2. QED
        BY <1>3, <4>1
    <3> HIDE DEF q
    <3>2. y \in Nat /\ row \in Nat /\ size \in Nat
      BY <1>1, <1>3
    <3>3. y * row \in Nat
      BY <3>2
    <3>4. size + y * row + q + 1 = size + (y * row + q + 1)
      BY <3>1, <3>2, <3>3
    <3>5. QED
      BY <3>4 DEF q
  <2>3. s[at(x, y)] = tokens[k]
    <3> HIDE DEF k, at
    <3>1. QED
      BY <1>10, <2>1, <2>2, Zenon
  <2>4. (tokens[k].v \div 2^(8 - bits * ((x % d) + 1))) % 2^bits
          = ZrleIndex(palette, px[y * w + x + 1])
    BY <1>5, Zenon DEF IndicesAreIn
  <2> HIDE DEF k, at
  <2>5. QED
    BY <2>3, <2>4, Zenon
<1> HIDE DEF index
<1>13. ASSUME NEW i \in 1..(w * h)
       PROVE  /\ pixel(i) = ZrleIndex(palette, px[i])
              /\ pixel(i) \in 0..(size - 1) /\ palette[pixel(i) + 1] = px[i]
  <2>1. /\ (i - 1) % w \in 0..(w - 1) /\ (i - 1) \div w \in 0..(h - 1)
        /\ i = ((i - 1) \div w) * w + ((i - 1) % w) + 1
    BY <1>1, CellOfPlace, Zenon
  <2>2. pixel(i) = ZrleIndex(palette, px[i])
    BY <1>12, <2>1, Zenon
  <2>3. i \in DOMAIN px
    BY <1>1, LenProperties
  <2>4. /\ ZrleIndex(palette, px[i]) \in 0..(size - 1)
        /\ palette[ZrleIndex(palette, px[i]) + 1] = px[i]
    BY <1>1, <2>3, IndexIs, Zenon DEF size
  <2>5. QED
    BY <2>2, <2>4, Zenon
<1> HIDE DEF pixel
<1>14. ~(\E i \in 1..(w * h) : pixel(i) >= size)
  <2>1. \A j \in 0..(size - 1) : ~(j >= size)
    BY <1>1
  <2>2. QED
    BY <1>13, <2>1, Zenon
<1>15. ~(\E k \in (size + 1)..(size + n) : s[k].is # "byte")
  BY <1>11, Zenon
<1>16. ~(Len(s) < size + n)
  <2>1. Len(s) \in Nat
    BY <1>10, LenProperties
  <2>2. size \in Nat
    BY <1>1
  <2>3. Len(s) >= size + n
    BY <1>10, Zenon
  <2>4. QED
    BY <1>4, <2>1, <2>2, <2>3
<1>17. [i \in 1..(w * h) |-> palette[pixel(i) + 1]] = px
  <2>1. px = [i \in 1..(w * h) |-> px[i]]
    BY <1>1, LenProperties
  <2>2. QED
    BY <1>13, <2>1
<1>18. ReadPacked(size, s, w, h)
         = IF palette = <<>> \/ Len(s) < size + n
              \/ \E k \in (size + 1)..(size + n) : s[k].is # "byte"
              \/ \E i \in 1..(w * h) : pixel(i) >= size
           THEN TileFailed
           ELSE TileDone([i \in 1..(w * h) |-> palette[pixel(i) + 1]],
                         SubSeq(s, size + n + 1, Len(s)))
  <2>1. bits = BitsOf(size)
        /\ d = 8 \div bits /\ row = (w + d - 1) \div d
        /\ ReadPixels(s, size) = palette
    BY <1>1, <1>2, <1>8
  <2>2. ReadPacked(size, s, w, h)
          = ReadPackedWith(bits, d, row, palette, size, s, w, h)
    <3>1. PICK b, e, r, p : b = bits /\ e = d /\ r = row /\ p = palette
      OBVIOUS
    <3>2. b = BitsOf(size) /\ e = 8 \div b /\ r = (w + e - 1) \div e
          /\ ReadPixels(s, size) = p
      BY <2>1, <3>1, Zenon
    <3>3. ReadPacked(size, s, w, h) = ReadPackedWith(b, e, r, p, size, s, w, h)
      BY <3>2, ReadPackedIs
    <3>4. QED
      BY <3>1, <3>3, Zenon
  <2>3. QED
    BY <2>2, Zenon DEF ReadPackedWith, pixel, index, n
<1>19. ReadPacked(size, s, w, h) = TileDone(px, t)
  BY <1>7, <1>10, <1>14, <1>15, <1>16, <1>17, <1>18, Zenon
<1>20. QED
  BY <1>19 DEF size, s, tokens

-----------------------------------------------------------------------------
(* The shortest way is the first, or shorter than the first.               *)
LEMMA ShortestIs ==
  ASSUME NEW e, NEW n \in Nat \ {0}, DOMAIN e = 1..n,
         \A i \in 1..n : e[i].bytes \in Nat
  PROVE  \E m \in 1..n : /\ Shortest(e) = e[m].how
                         /\ m = 1 \/ e[m].bytes < e[1].bytes
<1> DEFINE I == {i \in DOMAIN e : \A j \in DOMAIN e : e[i].bytes <= e[j].bytes}
           B == {e[i].bytes : i \in 1..n}
           m == ZrleSets!Min(I)
<1>1. 1 \in 1..n
  OBVIOUS
<1>2. PICK b \in B : \A y \in B : b <= y
  <2>1. B \in SUBSET Nat /\ B # {}
    BY <1>1
  <2> HIDE DEF B
  <2>2. QED
    BY <2>1, ZrleLeast
<1>3. I \in SUBSET Nat /\ I # {}
  <2>1. PICK i \in 1..n : e[i].bytes = b
    OBVIOUS
  <2>2. \A j \in 1..n : e[j].bytes \in B
    OBVIOUS
  <2>3. i \in I
    BY <1>2, <2>1, <2>2
  <2>4. I \subseteq 1..n
    OBVIOUS
  <2> HIDE DEF I
  <2>5. QED
    BY <2>3, <2>4
<1>4. m \in I /\ \A y \in I : m <= y
  <2> HIDE DEF I
  <2>1. QED
    BY <1>3, ZrleLeast
<1>5. Shortest(e) = e[m].how
  BY DEF Shortest
<1> HIDE DEF m
<1>6. m \in 1..n /\ \A j \in 1..n : e[m].bytes <= e[j].bytes
  BY <1>4
<1>7. ASSUME m # 1 PROVE e[m].bytes < e[1].bytes
  <2>1. ~(m <= 1)
    BY <1>6, <1>7
  <2>2. 1 \notin I
    BY <1>4, <2>1
  <2>3. PICK j \in 1..n : ~(e[1].bytes <= e[j].bytes)
    BY <1>1, <2>2
  <2>4. e[m].bytes <= e[j].bytes
    BY <1>6
  <2>5. e[m].bytes \in Nat /\ e[j].bytes \in Nat /\ e[1].bytes \in Nat
    BY <1>1, <1>6
  <2>6. QED
    BY <2>3, <2>4, <2>5
<1>8. QED
  BY <1>5, <1>6, <1>7

(* The ways of a tile that have a chance, one after the other.             *)
LEMMA WaysAre ==
  ASSUME NEW a, NEW b, NEW c, NEW d
  PROVE  /\ (<<a, b>> \o <<>>) \o <<>> = <<a, b>>
         /\ (<<a, b>> \o <<c>>) \o <<>> = <<a, b, c>>
         /\ (<<a, b>> \o <<c>>) \o <<d>> = <<a, b, c, d>>
<1> DEFINE T == {a, b, c, d}
<1>1. <<>> \in Seq(T) /\ <<a, b>> \in Seq(T) /\ <<c>> \in Seq(T) /\ <<d>> \in Seq(T)
      /\ <<a, b, c>> \in Seq(T) /\ <<a, b, c, d>> \in Seq(T)
  OBVIOUS
<1>2. Len(<<a, b>>) = 2 /\ Len(<<c>>) = 1 /\ Len(<<a, b, c>>) = 3 /\ Len(<<d>>) = 1
      /\ Len(<<a, b, c, d>>) = 4
  OBVIOUS
<1> HIDE DEF T
<1>3. \A s \in Seq(T) : s \o <<>> = s
  BY ConcatEmptySeq
<1>4. <<a, b>> \o <<c>> = <<a, b, c>>
  <2> DEFINE p == <<a, b>>
             q == <<c>>
             r == <<a, b, c>>
  <2>1. p \in Seq(T) /\ q \in Seq(T) /\ r \in Seq(T)
    BY <1>1
  <2>2. Len(p) = 2 /\ Len(q) = 1 /\ Len(r) = 3 /\ 3 = 2 + 1
    BY <1>2
  <2>3. \A k \in 1..2 : r[k] = p[k]
    OBVIOUS
  <2>4. \A k \in 1..1 : r[2 + k] = q[k]
    OBVIOUS
  <2> HIDE DEF p, q, r
  <2>5. p \o q = r
    <3>1. /\ Len(r) = Len(p) + Len(q) /\ \A k \in 1..Len(p) : r[k] = p[k]
          /\ \A k \in 1..Len(q) : r[Len(p) + k] = q[k]
      BY <2>2, <2>3, <2>4
    <3>2. QED
      BY <2>1, <3>1, BothAre
  <2>6. QED
    BY <2>5 DEF p, q, r
<1>5. <<a, b, c>> \o <<d>> = <<a, b, c, d>>
  <2> DEFINE p == <<a, b, c>>
             q == <<d>>
             r == <<a, b, c, d>>
  <2>1. p \in Seq(T) /\ q \in Seq(T) /\ r \in Seq(T)
    BY <1>1
  <2>2. Len(p) = 3 /\ Len(q) = 1 /\ Len(r) = 4 /\ 4 = 3 + 1
    BY <1>2
  <2>3. \A k \in 1..3 : r[k] = p[k]
    OBVIOUS
  <2>4. \A k \in 1..1 : r[3 + k] = q[k]
    OBVIOUS
  <2> HIDE DEF p, q, r
  <2>5. p \o q = r
    <3>1. /\ Len(r) = Len(p) + Len(q) /\ \A k \in 1..Len(p) : r[k] = p[k]
          /\ \A k \in 1..Len(q) : r[Len(p) + k] = q[k]
      BY <2>2, <2>3, <2>4
    <3>2. QED
      BY <2>1, <3>1, BothAre
  <2>6. QED
    BY <2>5 DEF p, q, r
<1>6. QED
  BY <1>1, <1>3, <1>4, <1>5

(* The runs of a picture, and those of more than one pixel.                *)
RunCount(px) == Cardinality({i \in DOMAIN px : Starts(px, i)})

LongRunCount(px) ==
  Cardinality({i \in {j \in DOMAIN px : Starts(px, j)} : RunFrom(px, i) > 1})

(* A picture has a run. *)
LEMMA RunsAreCounted ==
  ASSUME NEW px \in Seq(Nat), px # <<>>
  PROVE  RunCount(px) \in Nat \ {0} /\ LongRunCount(px) \in Nat
<1> DEFINE runs == {i \in DOMAIN px : Starts(px, i)}
           long == {i \in runs : RunFrom(px, i) > 1}
<1>1. Len(px) \in Nat \ {0} /\ DOMAIN px = 1..Len(px)
  BY EmptySeq, LenProperties
<1>2. IsFiniteSet(runs) /\ Cardinality(runs) \in Nat
  <2>1. runs = StartsAfter(px, 0)
    <3>1. 0 + 1 = 1
      OBVIOUS
    <3>2. QED
      BY <1>1, <3>1 DEF StartsAfter
  <2>2. 0 \in 0..Len(px)
    BY <1>1
  <2>3. IsFiniteSet(StartsAfter(px, 0)) /\ Cardinality(StartsAfter(px, 0)) \in Nat
    BY <2>2, StartsAreCounted
  <2> HIDE DEF runs
  <2>4. QED
    BY <2>1, <2>3
<1>3. 1 \in runs
  BY <1>1 DEF Starts
<1>4. long \subseteq runs
  OBVIOUS
<1> HIDE DEF runs, long
<1>5. Cardinality(runs) # 0
  BY <1>2, <1>3, FS_EmptySet
<1>6. IsFiniteSet(long) /\ Cardinality(long) \in Nat
  BY <1>2, <1>4, FS_Subset, FS_CardinalityType
<1>7. QED
  BY <1>2, <1>5, <1>6 DEF RunCount, LongRunCount, runs, long

(* A quotient is not more than the dividend.                               *)
LEMMA QuotientIsNotMore ==
  ASSUME NEW x \in Nat, NEW k \in Nat \ {0}
  PROVE  x \div k \in Nat /\ x \div k <= x
<1> DEFINE q == x \div k
           r == x % k
<1>1. q \in Nat /\ r \in 0..(k - 1) /\ x = q * k + r
  BY Division
<1> HIDE DEF q, r
<1>2. 1 * q <= k * q
  BY <1>1, LargerProduct
<1>3. q \in Nat /\ q <= x
  <2>1. 1 * q = q /\ k * q = q * k /\ q * k \in Nat /\ r \in Nat
    BY <1>1
  <2>2. QED
    BY <1>1, <1>2, <2>1
<1>4. QED
  BY <1>3 DEF q

(* The estimate of raw pixels is no more than they need. *)
LEMMA RawIsEstimated ==
  ASSUME zrleFormat \in 1..4, NEW n \in Nat, NEW level \in 0..3
  PROVE  LET raw == (n * zrleFormat)
                      \div (IF zrleFormat = 1 THEN 1 ELSE 2^level)
         IN raw \in Nat /\ raw <= n * zrleFormat
<1> DEFINE k == IF zrleFormat = 1 THEN 1 ELSE 2^level
           x == n * zrleFormat
<1>1. 2^0 = 1 /\ 2^1 = 2 /\ 2^2 = 4 /\ 2^3 = 8
  OBVIOUS
<1>2. level = 0 \/ level = 1 \/ level = 2 \/ level = 3
  OBVIOUS
<1>3. 2^level = 1 \/ 2^level = 2 \/ 2^level = 4 \/ 2^level = 8
  BY <1>1, <1>2, Zenon
<1>4. k \in Nat \ {0}
  BY <1>3
<1>5. x \in Nat
  OBVIOUS
<1> HIDE DEF k, x
<1>6. x \div k \in Nat /\ x \div k <= x
  BY <1>4, <1>5, QuotientIsNotMore
<1>7. QED
  BY <1>6 DEF k, x

-----------------------------------------------------------------------------
(* The way a tile goes, and the bytes that were taken to be needed.        *)
WayIs(how, px, size) ==
  LET bytes == Len(px) * zrleFormat
  IN \/ how = "raw"
     \/ how = "rle" /\ (zrleFormat + 1) * RunCount(px) < bytes
     \/ /\ how = "palette rle" /\ size <= ZRLE_PALETTE_MAX_SIZE
        /\ zrleFormat * size + LongRunCount(px) + RunCount(px) < bytes
     \/ /\ how = "packed" /\ size <= MaxPackedPalette
        /\ zrleFormat * size + (Len(px) * BitsPerPackedPixel(size)) \div 8 < bytes

(* The way that is taken is one of the four, with what its estimate says. *)
LEMMA OneWay ==
  ASSUME zrleFormat \in 1..4, NEW px \in Seq(Nat), px # <<>>, NEW level \in 0..3,
         NEW ph, ph.size \in Nat \ {0}
  PROVE  WayIs(Shortest(Estimates(px, ph, level)), px, ph.size)
<1> DEFINE n == Len(px)
           size == ph.size
           raw == (n * zrleFormat) \div (IF zrleFormat = 1 THEN 1 ELSE 2^level)
           rle == (zrleFormat + 1) * RunCount(px)
           prle == zrleFormat * size + LongRunCount(px) + RunCount(px)
           packed == zrleFormat * size + (n * BitsPerPackedPixel(size)) \div 8
           e1 == [how |-> "raw", bytes |-> raw]
           e2 == [how |-> "rle", bytes |-> rle]
           e3 == [how |-> "palette rle", bytes |-> prle]
           e4 == [how |-> "packed", bytes |-> packed]
           e == Estimates(px, ph, level)
           none == ph.size > ZRLE_PALETTE_MAX_SIZE
           many == ph.size > MaxPackedPalette
           top == n * zrleFormat
<1>1. n \in Nat \ {0}
  BY EmptySeq, LenProperties
<1>2. RunCount(px) \in Nat \ {0} /\ LongRunCount(px) \in Nat
  BY RunsAreCounted
<1>3. raw \in Nat /\ raw <= top
  BY <1>1, RawIsEstimated
<1>4. top \in Nat
  BY <1>1
<1>5. rle \in Nat /\ prle \in Nat
  <2> DEFINE r == RunCount(px)
             l == LongRunCount(px)
  <2>1. size \in Nat /\ r \in Nat /\ l \in Nat /\ zrleFormat \in Nat
    BY <1>2
  <2> HIDE DEF size, r, l
  <2>2. zrleFormat * size \in Nat /\ (zrleFormat + 1) * r \in Nat
    BY <2>1
  <2>3. (zrleFormat + 1) * r \in Nat /\ zrleFormat * size + l + r \in Nat
    BY <2>1, <2>2
  <2>4. QED
    BY <2>3 DEF size, r, l
<1>6. packed \in Nat
  <2>1. BitsPerPackedPixel(size) \in Nat
    BY DEF BitsPerPackedPixel
  <2>2. n * BitsPerPackedPixel(size) \in Nat /\ zrleFormat * size \in Nat
    BY <1>1, <2>1
  <2>3. (n * BitsPerPackedPixel(size)) \div 8 \in Nat
    BY <2>2, QuotientIsNotMore
  <2>4. QED
    BY <2>2, <2>3
<1>7. e = (<<e1, e2>> \o (IF none THEN <<>> ELSE <<e3>>))
            \o (IF many THEN <<>> ELSE <<e4>>)
  BY Zenon DEF Estimates, RunCount, LongRunCount
<1>8. none => many
  BY CompressedAssumption
<1>9. /\ ~none => size <= ZRLE_PALETTE_MAX_SIZE
      /\ ~many => size <= MaxPackedPalette
  BY CompressedAssumption
<1>10. /\ WayIs("raw", px, size)
       /\ rle < top => WayIs("rle", px, size)
       /\ prle < top /\ size <= ZRLE_PALETTE_MAX_SIZE => WayIs("palette rle", px, size)
       /\ packed < top /\ size <= MaxPackedPalette => WayIs("packed", px, size)
  BY DEF WayIs
<1>11. /\ e1.how = "raw" /\ e2.how = "rle" /\ e3.how = "palette rle"
       /\ e4.how = "packed" /\ e1.bytes = raw /\ e2.bytes = rle
       /\ e3.bytes = prle /\ e4.bytes = packed
  OBVIOUS
<1> HIDE DEF e, e1, e2, e3, e4, raw, rle, prle, packed, top, none, many, size
<1>12. \A m \in Nat : m < raw => m < top
  BY <1>3, <1>4
<1>13. CASE none
  <2>1. e = <<e1, e2>>
    BY <1>7, <1>8, <1>13, WaysAre
  <2>2. DOMAIN e = 1..2 /\ e[1] = e1 /\ e[2] = e2
    BY <2>1
  <2>3. 2 \in Nat \ {0} /\ \A i \in 1..2 : e[i].bytes \in Nat
    <3>1. e[1].bytes \in Nat /\ e[2].bytes \in Nat
      BY <1>3, <1>5, <1>11, <2>2, Zenon
    <3>2. \A i \in 1..2 : i = 1 \/ i = 2
      OBVIOUS
    <3>3. 2 \in Nat \ {0}
      OBVIOUS
    <3>4. QED
      BY <3>1, <3>2, <3>3, Zenon
  <2>4. PICK m \in 1..2 : Shortest(e) = e[m].how /\ (m = 1 \/ e[m].bytes < e[1].bytes)
    BY <2>2, <2>3, ShortestIs
  <2>5. m = 1 \/ m = 2
    OBVIOUS
  <2>6. Shortest(e) = "raw" \/ (Shortest(e) = "rle" /\ rle < raw)
    BY <1>11, <2>2, <2>4, <2>5
  <2>7. QED
    BY <1>5, <1>10, <1>12, <2>6 DEF e, size
<1>14. CASE ~none /\ many
  <2>1. e = <<e1, e2, e3>>
    BY <1>7, <1>14, WaysAre
  <2>2. DOMAIN e = 1..3 /\ e[1] = e1 /\ e[2] = e2 /\ e[3] = e3
    BY <2>1
  <2>3. 3 \in Nat \ {0} /\ \A i \in 1..3 : e[i].bytes \in Nat
    <3>1. e[1].bytes \in Nat /\ e[2].bytes \in Nat /\ e[3].bytes \in Nat
      BY <1>3, <1>5, <1>11, <2>2, Zenon
    <3>2. \A i \in 1..3 : i = 1 \/ i = 2 \/ i = 3
      OBVIOUS
    <3>3. 3 \in Nat \ {0}
      OBVIOUS
    <3>4. QED
      BY <3>1, <3>2, <3>3, Zenon
  <2>4. PICK m \in 1..3 : Shortest(e) = e[m].how /\ (m = 1 \/ e[m].bytes < e[1].bytes)
    BY <2>2, <2>3, ShortestIs
  <2>5. m = 1 \/ m = 2 \/ m = 3
    OBVIOUS
  <2>6. \/ Shortest(e) = "raw"
        \/ Shortest(e) = "rle" /\ rle < raw
        \/ Shortest(e) = "palette rle" /\ prle < raw
    BY <1>11, <2>2, <2>4, <2>5
  <2>7. QED
    BY <1>5, <1>9, <1>10, <1>12, <1>14, <2>6 DEF e, size
<1>15. CASE ~none /\ ~many
  <2>1. e = <<e1, e2, e3, e4>>
    BY <1>7, <1>15, WaysAre
  <2>2. DOMAIN e = 1..4 /\ e[1] = e1 /\ e[2] = e2 /\ e[3] = e3 /\ e[4] = e4
    BY <2>1
  <2>3. 4 \in Nat \ {0} /\ \A i \in 1..4 : e[i].bytes \in Nat
    <3>1. e[1].bytes \in Nat /\ e[2].bytes \in Nat /\ e[3].bytes \in Nat /\ e[4].bytes \in Nat
      BY <1>3, <1>5, <1>6, <1>11, <2>2, Zenon
    <3>2. \A i \in 1..4 : i = 1 \/ i = 2 \/ i = 3 \/ i = 4
      OBVIOUS
    <3>3. 4 \in Nat \ {0}
      OBVIOUS
    <3>4. QED
      BY <3>1, <3>2, <3>3, Zenon
  <2>4. PICK m \in 1..4 : Shortest(e) = e[m].how /\ (m = 1 \/ e[m].bytes < e[1].bytes)
    BY <2>2, <2>3, ShortestIs
  <2>5. m = 1 \/ m = 2 \/ m = 3 \/ m = 4
    OBVIOUS
  <2>6. \/ Shortest(e) = "raw"
        \/ Shortest(e) = "rle" /\ rle < raw
        \/ Shortest(e) = "palette rle" /\ prle < raw
        \/ Shortest(e) = "packed" /\ packed < raw
    BY <1>11, <2>2, <2>4, <2>5
  <2>7. QED
    BY <1>5, <1>6, <1>9, <1>10, <1>12, <1>15, <2>6 DEF e, size
<1>16. QED
  BY <1>13, <1>14, <1>15

-----------------------------------------------------------------------------
(* What the client makes of what is behind the type of a tile.             *)
ReadBody(type, rest, w, h) ==
  CASE type = 0 -> ReadRaw(rest, w * h)
    [] type = 1 ->
         IF ReadPixels(rest, 1) = <<>> THEN TileFailed
         ELSE TileDone([i \in 1..(w * h) |-> rest[1].v], Tail(rest))
    [] type \in 2..127 -> ReadPacked(type, rest, w, h)
    [] type = 128 -> ReadRuns(rest, <<>>, w * h)
    [] type = 129 -> TileFailed
    [] OTHER ->
         LET palette == ReadPixels(rest, type - 128)
         IN IF palette = <<>> THEN TileFailed
            ELSE ReadRuns(SubSeq(rest, type - 127, Len(rest)), palette, w * h)

(* A tile of a type and what is behind it. *)
LEMMA TileIsRead ==
  ASSUME zrleFormat \in 1..4, NEW type \in Nat, NEW body \in Seq(Tokens),
         NEW t \in Seq(Tokens), NEW w, NEW h
  PROVE  LET tile == <<Byte(type)>> \o body
         IN /\ tile \in Seq(Tokens) /\ tile # <<>> /\ tile[1] = Byte(type)
            /\ tile \o t # <<>> /\ (tile \o t)[1] = Byte(type)
            /\ ReadPlainTile(tile \o t, w, h) = ReadBody(type, body \o t, w, h)
            /\ Bytes(tile) = 1 + Bytes(body) /\ Bytes(body) \in Nat
<1> DEFINE head == <<Byte(type)>>
           tile == head \o body
           s == tile \o t
           rest == body \o t
<1>1. /\ tile \in Seq(Tokens) /\ tile # <<>> /\ tile[1] = Byte(type)
      /\ Bytes(tile) = 1 + Bytes(body) /\ Bytes(body) \in Nat
  BY TypeIsRead
<1>2. rest \in Seq(Tokens)
  BY RestIsHadBack
<1>3. s = head \o rest
  <2>1. head \in Seq(Tokens)
    BY OneToken
  <2> HIDE DEF head
  <2>2. QED
    BY <2>1, TokensAreGrouped
<1> HIDE DEF rest, s
<1>4. /\ s # <<>> /\ s[1] = Byte(type) /\ s[1].is = "byte" /\ s[1].v = type
      /\ Tail(s) = rest
  BY <1>2, <1>3, TypeIsRead
<1>5. ReadPlainTile(s, w, h) = ReadBody(type, rest, w, h)
  <2>1. ReadPlainTile(s, w, h)
          = IF s = <<>> \/ s[1].is # "byte" THEN TileFailed
            ELSE ReadBody(s[1].v, Tail(s), w, h)
    BY Zenon DEF ReadPlainTile, ReadBody
  <2>2. QED
    BY <1>4, <2>1, Zenon
<1>6. QED
  BY <1>1, <1>4, <1>5 DEF s, rest

-----------------------------------------------------------------------------
(* What is behind the type, and that it is the picture. *)
IsBody(type, body, px, w, h) ==
  /\ body \in Seq(Tokens)
  /\ \A t \in Seq(Tokens) : ReadBody(type, body \o t, w, h) = TileDone(px, t)

(* A picture of w columns and h rows. *)
IsZrlePicture(px, w, h) ==
  /\ w \in Nat \ {0} /\ h \in Nat \ {0} /\ px \in Seq(Nat) /\ Len(px) = w * h

(* A picture has a pixel, and is the function of its pixels. *)
LEMMA ZrlePictureIs ==
  ASSUME NEW px, NEW w, NEW h, IsZrlePicture(px, w, h)
  PROVE  /\ px \in Seq(Nat) /\ px # <<>> /\ Len(px) \in Nat \ {0}
         /\ DOMAIN px = 1..Len(px) /\ px[1] \in Nat
         /\ px = [i \in 1..(w * h) |-> px[i]] /\ Len(px) = w * h
<1>1. w \in Nat \ {0} /\ h \in Nat \ {0} /\ px \in Seq(Nat) /\ Len(px) = w * h
  BY DEF IsZrlePicture
<1>2. w * h \in Nat \ {0}
  BY <1>1
<1>3. DOMAIN px = 1..Len(px) /\ px \in [1..Len(px) -> Nat]
  BY <1>1, LenProperties
<1>4. px # <<>>
  BY <1>1, <1>2, EmptySeq
<1>5. 1 \in 1..Len(px)
  BY <1>1, <1>2
<1>6. QED
  BY <1>1, <1>2, <1>3, <1>4, <1>5

(* Raw pixels are read back. *)
LEMMA RawIsRead ==
  ASSUME zrleFormat \in 1..4, NEW px, NEW w, NEW h, IsZrlePicture(px, w, h)
  PROVE  /\ IsBody(0, PixelTokens(px), px, w, h)
         /\ Bytes(PixelTokens(px)) = Len(px) * zrleFormat
<1>1. px \in Seq(Nat) /\ px # <<>> /\ Len(px) = w * h
  BY ZrlePictureIs
<1>2. ASSUME NEW t \in Seq(Tokens)
      PROVE  ReadBody(0, PixelTokens(px) \o t, w, h) = TileDone(px, t)
  <2> DEFINE s == PixelTokens(px) \o t
  <2>1. /\ ReadPixels(s, Len(px)) = px
        /\ SubSeq(s, Len(px) + 1, Len(s)) = t
    BY <1>1, PixelsAreRead
  <2> HIDE DEF s
  <2>2. ReadRaw(s, w * h) = TileDone(px, t)
    BY <1>1, <2>1 DEF ReadRaw
  <2>3. ReadBody(0, s, w, h) = ReadRaw(s, w * h)
    BY DEF ReadBody
  <2>4. QED
    BY <2>2, <2>3 DEF s
<1>3. <<>> \in Seq(Tokens)
  OBVIOUS
<1>4. /\ PixelTokens(px) \in Seq(Tokens)
      /\ Bytes(PixelTokens(px)) = Len(px) * zrleFormat
  BY <1>1, <1>3, PixelsAreRead
<1>5. QED
  BY <1>2, <1>4 DEF IsBody

(* A tile of one colour is read back. *)
LEMMA OneColourIsRead ==
  ASSUME zrleFormat \in 1..4, NEW px, NEW w, NEW h, IsZrlePicture(px, w, h),
         \A i \in DOMAIN px : px[i] = px[1]
  PROVE  /\ IsBody(1, <<Pixel(px[1])>>, px, w, h)
         /\ Bytes(<<Pixel(px[1])>>) = zrleFormat
<1> DEFINE c == px[1]
           p == <<Pixel(c)>>
<1>1. /\ c \in Nat /\ DOMAIN px = 1..Len(px) /\ Len(px) = w * h
      /\ px = [i \in 1..(w * h) |-> px[i]]
  BY ZrlePictureIs
<1>2. p \in Seq(Tokens) /\ Len(p) = 1 /\ Bytes(p) = zrleFormat
  BY <1>1, OneToken
<1>3. ASSUME NEW t \in Seq(Tokens)
      PROVE  ReadBody(1, p \o t, w, h) = TileDone(px, t)
  <2> DEFINE s == p \o t
  <2>1. Tail(s) = t /\ Len(s) = 1 + Len(t) /\ Len(t) \in Nat
    <3> HIDE DEF p
    <3>1. QED
      BY <1>2, RestIsHadBack, LenProperties
  <2>2. s[1] = Pixel(c)
    <3>1. p[1] = Pixel(c)
      OBVIOUS
    <3> HIDE DEF p
    <3>2. \A i \in 1..(Len(p) + Len(t)) :
            s[i] = IF i <= Len(p) THEN p[i] ELSE t[i - Len(p)]
      BY <1>2, ConcatProperties
    <3>3. 1 \in 1..(Len(p) + Len(t)) /\ 1 <= Len(p)
      BY <1>2, <2>1
    <3>4. QED
      BY <3>1, <3>2, <3>3
  <2> HIDE DEF s, p
  <2>3. s[1].is = "pixel" /\ s[1].v = c
    <3> HIDE DEF c
    <3>1. QED
      BY <2>2 DEF Pixel
  <2>4. ReadPixels(s, 1) # <<>>
    <3>1. Len(s) >= 1 /\ \A i \in 1..1 : s[i].is = "pixel"
      BY <2>1, <2>3
    <3>2. ReadPixels(s, 1) = [i \in 1..1 |-> s[i].v]
      BY <3>1 DEF ReadPixels
    <3>3. DOMAIN ReadPixels(s, 1) = 1..1 /\ 1 \in 1..1
      BY <3>2
    <3>4. 1 \notin DOMAIN <<>>
      OBVIOUS
    <3>5. QED
      BY <3>3, <3>4, Zenon
  <2>5. [i \in 1..(w * h) |-> s[1].v] = px
    <3>1. \A i \in 1..(w * h) : px[i] = c
      BY <1>1
    <3> HIDE DEF c
    <3>2. QED
      BY <1>1, <2>3, <3>1
  <2>6. ReadBody(1, s, w, h)
          = IF ReadPixels(s, 1) = <<>> THEN TileFailed
            ELSE TileDone([i \in 1..(w * h) |-> s[1].v], Tail(s))
    BY DEF ReadBody
  <2>7. ReadBody(1, s, w, h) = TileDone(px, t)
    BY <2>1, <2>4, <2>5, <2>6, Zenon
  <2>8. QED
    BY <2>7 DEF s
<1>4. QED
  BY <1>2, <1>3 DEF IsBody

(* Runs without a palette are read back. *)
LEMMA RleIsRead ==
  ASSUME zrleFormat \in 1..4, NEW px, NEW w, NEW h, IsZrlePicture(px, w, h)
  PROVE  /\ IsBody(128, RleTokens(px, <<>>), px, w, h)
         /\ Bytes(RleTokens(px, <<>>)) <= zrleFormat * RunCount(px) + Len(px)
<1>1. px \in Seq(Nat) /\ px # <<>> /\ Len(px) = w * h
  BY ZrlePictureIs
<1>2. CanPaint(<<>>, px)
  <2>1. <<>> \in Seq(Nat) /\ Len(<<>>) = 0
    OBVIOUS
  <2>2. QED
    BY <2>1 DEF CanPaint, IsPalette
<1>3. PICK g \in Nat : g = (IF <<>> = <<>> THEN zrleFormat ELSE 0) /\ g = zrleFormat
  OBVIOUS
<1>4. ASSUME NEW t \in Seq(Tokens)
      PROVE  /\ RleTokens(px, <<>>) \in Seq(Tokens)
             /\ ReadRuns(RleTokens(px, <<>>) \o t, <<>>, Len(px)) = TileDone(px, t)
             /\ Bytes(RleTokens(px, <<>>)) <= g * RunCount(px) + Len(px)
  BY <1>1, <1>2, <1>3, RunsAreReadBack DEF RunCount
<1>5. ASSUME NEW t \in Seq(Tokens)
      PROVE  ReadBody(128, RleTokens(px, <<>>) \o t, w, h) = TileDone(px, t)
  <2> DEFINE s == RleTokens(px, <<>>) \o t
  <2>1. ReadRuns(s, <<>>, w * h) = TileDone(px, t)
    BY <1>1, <1>4
  <2> HIDE DEF s
  <2>2. ReadBody(128, s, w, h) = ReadRuns(s, <<>>, w * h)
    BY DEF ReadBody
  <2>3. QED
    BY <2>1, <2>2 DEF s
<1>6. <<>> \in Seq(Tokens)
  OBVIOUS
<1>7. QED
  BY <1>3, <1>4, <1>5, <1>6 DEF IsBody

(* Runs with a palette are read back. *)
LEMMA PaletteRunsAreRead ==
  ASSUME zrleFormat \in 1..4, NEW px, NEW w, NEW h, IsZrlePicture(px, w, h),
         NEW palette, CanPaint(palette, px), NEW size \in 2..127,
         Len(palette) = size
  PROVE  LET body == PixelTokens(palette) \o RleTokens(px, palette)
         IN /\ IsBody(128 + size, body, px, w, h)
            /\ PixelTokens(palette) \in Seq(Tokens)
            /\ RleTokens(px, palette) \in Seq(Tokens)
            /\ Bytes(body) <= zrleFormat * size + Len(px)
<1> DEFINE p == PixelTokens(palette)
           r == RleTokens(px, palette)
           body == p \o r
<1>1. px \in Seq(Nat) /\ px # <<>> /\ Len(px) = w * h /\ Len(px) \in Nat
  BY ZrlePictureIs
<1>2. palette \in Seq(Nat) /\ palette # <<>>
  <2>1. palette \in Seq(Nat)
    BY DEF CanPaint, IsPalette
  <2>2. size # 0
    OBVIOUS
  <2>3. QED
    BY <2>1, <2>2, EmptySeq
<1>3. PICK g \in Nat : g = (IF palette = <<>> THEN zrleFormat ELSE 0) /\ g = 0
  BY <1>2
<1>4. ASSUME NEW t \in Seq(Tokens)
      PROVE  /\ r \in Seq(Tokens)
             /\ ReadRuns(r \o t, palette, Len(px)) = TileDone(px, t)
             /\ Bytes(r) <= g * RunCount(px) + Len(px)
  BY <1>1, <1>3, RunsAreReadBack DEF RunCount
<1>5. ASSUME NEW t \in Seq(Tokens)
      PROVE  /\ p \in Seq(Tokens) /\ Bytes(p) = size * zrleFormat
             /\ ReadPixels(p \o t, size) = palette
             /\ SubSeq(p \o t, size + 1, Len(p \o t)) = t
  BY <1>2, PixelsAreRead
<1>6. <<>> \in Seq(Tokens)
  OBVIOUS
<1>7. p \in Seq(Tokens) /\ r \in Seq(Tokens)
  BY <1>4, <1>5, <1>6
<1> HIDE DEF p, r
<1>8. body \in Seq(Tokens)
  BY <1>7, RestIsHadBack
<1>9. ASSUME NEW t \in Seq(Tokens)
      PROVE  ReadBody(128 + size, body \o t, w, h) = TileDone(px, t)
  <2> DEFINE rest == r \o t
             s == p \o rest
             type == 128 + size
  <2>1. body \o t = s
    BY <1>7, TokensAreGrouped
  <2>2. rest \in Seq(Tokens)
    BY <1>7, RestIsHadBack
  <2>3. ReadRuns(rest, palette, w * h) = TileDone(px, t)
    BY <1>1, <1>4
  <2> HIDE DEF rest
  <2>4. ReadPixels(s, size) = palette /\ SubSeq(s, size + 1, Len(s)) = rest
    BY <1>5, <2>2
  <2> HIDE DEF s
  <2>5. type - 128 = size /\ type - 127 = size + 1
    OBVIOUS
  <2>6. type # 0 /\ type # 1 /\ type \notin 2..127 /\ type # 128 /\ type # 129
    OBVIOUS
  <2> HIDE DEF type
  <2>7. ReadBody(type, s, w, h)
          = LET colours == ReadPixels(s, type - 128)
            IN IF colours = <<>> THEN TileFailed
               ELSE ReadRuns(SubSeq(s, type - 127, Len(s)), colours, w * h)
    BY <2>6 DEF ReadBody
  <2>8. ReadBody(type, s, w, h) = TileDone(px, t)
    BY <1>2, <2>3, <2>4, <2>5, <2>7, Zenon
  <2>9. QED
    BY <2>1, <2>8 DEF type
<1>10. Bytes(body) <= zrleFormat * size + Len(px)
  <2>1. Bytes(body) = Bytes(p) + Bytes(r) /\ Bytes(r) \in Nat
    BY <1>7, BytesAreAdded
  <2>2. Bytes(r) <= g * RunCount(px) + Len(px) /\ Bytes(p) = size * zrleFormat
    BY <1>4, <1>5, <1>6
  <2>3. g * RunCount(px) = 0
    <3>1. RunCount(px) \in Nat
      BY <1>1, RunsAreCounted
    <3>2. QED
      BY <1>3, <3>1
  <2>4. size * zrleFormat = zrleFormat * size /\ size * zrleFormat \in Nat
    OBVIOUS
  <2>5. QED
    BY <1>1, <2>1, <2>2, <2>3, <2>4
<1>11. QED
  BY <1>7, <1>8, <1>9, <1>10 DEF IsBody, p, r

(* Packed indices are read back. *)
LEMMA IndicesAreRead ==
  ASSUME zrleFormat \in 1..4, NEW px, NEW w, NEW h, IsZrlePicture(px, w, h),
         NEW palette, IsPalette(palette),
         \A i \in DOMAIN px : HasColour(palette, px[i]),
         NEW size \in 2..16, Len(palette) = size
  PROVE  LET body == PixelTokens(palette) \o PackedTokens(px, w, palette)
         IN /\ IsBody(size, body, px, w, h)
            /\ PixelTokens(palette) \in Seq(Tokens)
            /\ PackedTokens(px, w, palette) \in Seq(Tokens)
            /\ Bytes(body) <= zrleFormat * size + Len(px)
<1> DEFINE p == PixelTokens(palette)
           k == PackedTokens(px, w, palette)
           body == p \o k
<1>1. w \in Nat \ {0} /\ h \in Nat \ {0} /\ px \in Seq(Nat) /\ Len(px) = w * h
  BY DEF IsZrlePicture
<1>2. palette \in Seq(Nat) /\ palette # <<>>
  <2>1. palette \in Seq(Nat)
    BY DEF IsPalette
  <2>2. size # 0
    OBVIOUS
  <2>3. QED
    BY <2>1, <2>2, EmptySeq
<1>3. PICK bits, d, row : CanPack(px, w, h, palette, bits, d, row)
  BY <1>1, Zenon DEF CanPack
<1>4. row \in 1..w
  BY <1>3, CanPackIs, Zenon
<1>5. k \in Seq(Tokens) /\ Bytes(k) = row * h
  BY <1>3, PackedTokensAre
<1>6. <<>> \in Seq(Tokens)
  OBVIOUS
<1>7. p \in Seq(Tokens) /\ Bytes(p) = size * zrleFormat
  BY <1>2, <1>6, PixelsAreRead
<1>8. ASSUME NEW t \in Seq(Tokens)
      PROVE  ReadPacked(size, p \o (k \o t), w, h) = TileDone(px, t)
  BY <1>3, PackedIsRead, Zenon
<1> HIDE DEF p, k
<1>9. body \in Seq(Tokens)
  BY <1>5, <1>7, RestIsHadBack
<1>10. ASSUME NEW t \in Seq(Tokens)
       PROVE  ReadBody(size, body \o t, w, h) = TileDone(px, t)
  <2> DEFINE s == p \o (k \o t)
  <2>1. body \o t = s
    BY <1>5, <1>7, TokensAreGrouped
  <2>2. ReadPacked(size, s, w, h) = TileDone(px, t)
    BY <1>8
  <2> HIDE DEF s
  <2>3. size # 0 /\ size # 1 /\ size \in 2..127
    OBVIOUS
  <2>4. ReadBody(size, s, w, h) = ReadPacked(size, s, w, h)
    BY <2>3 DEF ReadBody
  <2>5. QED
    BY <2>1, <2>2, <2>4
<1>11. Bytes(body) <= zrleFormat * size + Len(px)
  <2>1. Bytes(body) = Bytes(p) + Bytes(k)
    BY <1>5, <1>7, BytesAreAdded
  <2>2. row \in Nat /\ row <= w /\ w \in Nat /\ h \in Nat
    BY <1>1, <1>4
  <2>3. row * h <= w * h /\ row * h \in Nat /\ w * h \in Nat
    BY <2>2, LargerProduct
  <2>4. size * zrleFormat = zrleFormat * size /\ size * zrleFormat \in Nat
    OBVIOUS
  <2>5. QED
    BY <1>1, <1>5, <1>7, <2>1, <2>3, <2>4
<1>12. QED
  BY <1>5, <1>7, <1>9, <1>10, <1>11 DEF IsBody, p, k

-----------------------------------------------------------------------------
(* A tile of n pixels needs no more than twice their bytes, and less if a  *)
(* pixel has more than one.                                                *)
FewBytes(b, n) ==
  b \in Nat /\ b <= 2 * (n * zrleFormat) - (IF zrleFormat = 1 THEN 0 ELSE 1)

(* A tile shorter than raw pixels, with a pixel's byte more. *)
LEMMA BytesAreFew ==
  ASSUME zrleFormat \in 1..4, NEW n \in Nat \ {0}, NEW a \in Nat,
         a < n * zrleFormat, NEW b \in Nat, b <= 1 + a + n
  PROVE  FewBytes(b, n)
<1>1. CASE zrleFormat = 1
  BY <1>1 DEF FewBytes
<1>2. CASE zrleFormat = 2
  BY <1>2 DEF FewBytes
<1>3. CASE zrleFormat = 3
  BY <1>3 DEF FewBytes
<1>4. CASE zrleFormat = 4
  BY <1>4 DEF FewBytes
<1>5. QED
  BY <1>1, <1>2, <1>3, <1>4

(* A tile that is read back, whatever comes after it, and is not too long. *)
IsTile(tile, px, w, h) ==
  /\ tile \in Seq(Tokens) /\ tile # <<>>
  /\ FewBytes(Bytes(tile), Len(px))
  /\ \A t \in Seq(Tokens) :
       /\ tile \o t # <<>> /\ (tile \o t)[1] = tile[1]
       /\ ReadPlainTile(tile \o t, w, h) = TileDone(px, t)

(* A body that is read back makes a tile that is. *)
LEMMA BodyMakesTile ==
  ASSUME zrleFormat \in 1..4, NEW px, NEW w, NEW h, IsZrlePicture(px, w, h),
         NEW type \in Nat, NEW body, IsBody(type, body, px, w, h),
         NEW a \in Nat, a < Len(px) * zrleFormat, Bytes(body) <= a + Len(px)
  PROVE  IsTile(<<Byte(type)>> \o body, px, w, h)
<1> DEFINE tile == <<Byte(type)>> \o body
           n == Len(px)
           b == Bytes(tile)
<1>1. n \in Nat \ {0}
  BY ZrlePictureIs
<1>2. body \in Seq(Tokens)
  BY DEF IsBody
<1>3. ASSUME NEW t \in Seq(Tokens)
      PROVE  /\ tile \in Seq(Tokens) /\ tile # <<>> /\ tile[1] = Byte(type)
             /\ tile \o t # <<>> /\ (tile \o t)[1] = Byte(type)
             /\ ReadPlainTile(tile \o t, w, h) = ReadBody(type, body \o t, w, h)
             /\ b = 1 + Bytes(body) /\ Bytes(body) \in Nat
  BY <1>2, TileIsRead
<1>4. <<>> \in Seq(Tokens)
  OBVIOUS
<1> HIDE DEF tile, b, n
<1>5. tile \in Seq(Tokens) /\ tile # <<>> /\ b = 1 + Bytes(body)
      /\ Bytes(body) \in Nat
  BY <1>3, <1>4
<1>6. ASSUME NEW t \in Seq(Tokens)
      PROVE  /\ tile \o t # <<>> /\ (tile \o t)[1] = tile[1]
             /\ ReadPlainTile(tile \o t, w, h) = TileDone(px, t)
  <2>1. ReadBody(type, body \o t, w, h) = TileDone(px, t)
    BY DEF IsBody
  <2>2. QED
    BY <1>3, <2>1, Zenon
<1>7. FewBytes(b, n)
  <2>1. a < n * zrleFormat /\ Bytes(body) <= a + n
    BY DEF n
  <2>2. b \in Nat /\ b <= 1 + a + n
    BY <1>1, <1>5, <2>1
  <2>3. QED
    BY <1>1, <2>1, <2>2, BytesAreFew
<1>8. QED
  BY <1>5, <1>6, <1>7 DEF IsTile, tile, b, n

(* A sequence of two tokens. *)
LEMMA PairOfTokens ==
  ASSUME NEW u \in Tokens, NEW v \in Tokens
  PROVE  <<u>> \o <<v>> = <<u, v>>
<1> DEFINE p == <<u>>
           q == <<v>>
           r == <<u, v>>
<1>1. p \in Seq(Tokens) /\ q \in Seq(Tokens) /\ r \in Seq(Tokens)
  OBVIOUS
<1>2. Len(p) = 1 /\ Len(q) = 1 /\ Len(r) = 1 + 1
  OBVIOUS
<1>3. (\A k \in 1..1 : r[k] = p[k]) /\ \A k \in 1..1 : r[1 + k] = q[k]
  OBVIOUS
<1> HIDE DEF p, q, r
<1>4. p \o q = r
  <2>1. /\ Len(r) = Len(p) + Len(q) /\ \A k \in 1..Len(p) : r[k] = p[k]
        /\ \A k \in 1..Len(q) : r[Len(p) + k] = q[k]
    BY <1>2, <1>3
  <2>2. QED
    BY <1>1, <2>1, BothAre
<1>5. QED
  BY <1>4 DEF p, q, r

(* The tile of a palette of more than one colour. *)
TileOfWay(how, ph, px, w) ==
  CASE how = "raw" -> <<Byte(0)>> \o PixelTokens(px)
    [] how = "rle" -> <<Byte(128)>> \o RleTokens(px, <<>>)
    [] how = "palette rle" ->
         <<Byte(128 + ph.size)>> \o PixelTokens(ph.palette)
           \o RleTokens(px, ph.palette)
    [] how = "packed" ->
         <<Byte(ph.size)>> \o PixelTokens(ph.palette)
           \o PackedTokens(px, w, ph.palette)

TileOfPalette(how, ph, px, w) ==
  CASE ph.size = 1 -> <<Byte(1), Pixel(px[1])>>
    [] OTHER -> TileOfWay(how, ph, px, w)

(* PlainTile with its palette and its way. *)
LEMMA PlainTileIs ==
  ASSUME NEW px, NEW w, NEW level
  PROVE  PlainTile(px, w, level)
           = TileOfPalette(Shortest(Estimates(px, ZrlePalette(px), level)),
                           ZrlePalette(px), px, w)
BY DEF PlainTile, TileOfPalette, TileOfWay, PixelTokens

(* Every tile is read back, whichever way it goes. *)
LEMMA PlainTileIsRead ==
  ASSUME zrleFormat \in 1..4, NEW px, NEW w, NEW h, IsZrlePicture(px, w, h),
         NEW level \in 0..3
  PROVE  IsTile(PlainTile(px, w, level), px, w, h)
<1> DEFINE ph == ZrlePalette(px)
           size == ph.size
           palette == ph.palette
           how == Shortest(Estimates(px, ph, level))
           tile == PlainTile(px, w, level)
           n == Len(px)
           bytes == n * zrleFormat
           m == ZRLE_PALETTE_MAX_SIZE
<1>1. px \in Seq(Nat) /\ px # <<>> /\ n \in Nat \ {0} /\ px[1] \in Nat
  BY ZrlePictureIs
<1>2. /\ size \in Nat \ {0} /\ palette \in Seq(Nat)
      /\ size <= m => /\ Len(palette) = size
                      /\ \A i \in DOMAIN px : HasColour(palette, px[i])
      /\ size = 1 => \A i \in DOMAIN px : px[i] = px[1]
  BY <1>1, PaletteIs
<1>3. WayIs(how, px, size)
  BY <1>1, <1>2, OneWay
<1>4. tile = IF size = 1 THEN <<Byte(1), Pixel(px[1])>>
             ELSE TileOfWay(how, ph, px, w)
  <2>1. tile = TileOfPalette(how, ph, px, w)
    BY PlainTileIs
  <2> HIDE DEF ph, how, tile
  <2>2. QED
    BY <2>1 DEF TileOfPalette
<1>5. RunCount(px) \in Nat \ {0} /\ LongRunCount(px) \in Nat
  BY <1>1, RunsAreCounted
<1>6. bytes \in Nat /\ n <= bytes /\ zrleFormat <= bytes
  <2>1. \A f \in 1..4 : n * f \in Nat /\ n <= n * f /\ f <= n * f
    <3>1. TAKE f \in 1..4
    <3>2. f = 1 \/ f = 2 \/ f = 3 \/ f = 4
      OBVIOUS
    <3>3. QED
      BY <1>1, <3>2
  <2>2. QED
    BY <2>1
<1>7. m \in Nat /\ m <= 127 /\ MaxPackedPalette \in Nat /\ MaxPackedPalette <= 16
      /\ MaxPackedPalette <= m
  BY CompressedAssumption
<1> HIDE DEF ph, size, palette, how, tile, n, bytes, m
<1>8. CASE size = 1
  <2>1. /\ IsBody(1, <<Pixel(px[1])>>, px, w, h)
        /\ Bytes(<<Pixel(px[1])>>) = zrleFormat
    BY <1>2, <1>8, OneColourIsRead
  <2>2. tile = <<Byte(1)>> \o <<Pixel(px[1])>>
    <3>1. Byte(1) \in Tokens /\ Pixel(px[1]) \in Tokens
      BY <1>1, TokensAre
    <3>2. QED
      BY <1>4, <1>8, <3>1, PairOfTokens, Zenon
  <2>3. PICK a \in Nat : a < bytes /\ zrleFormat <= a + n
    <3>1. /\ zrleFormat - 1 \in Nat /\ zrleFormat - 1 < bytes
          /\ zrleFormat <= (zrleFormat - 1) + n
      BY <1>1, <1>6
    <3>2. QED
      BY <3>1
  <2>4. IsTile(<<Byte(1)>> \o <<Pixel(px[1])>>, px, w, h)
    <3>1. a < Len(px) * zrleFormat /\ Bytes(<<Pixel(px[1])>>) <= a + Len(px)
      BY <2>1, <2>3 DEF n, bytes
    <3>2. 1 \in Nat
      OBVIOUS
    <3>3. PICK body : body = <<Pixel(px[1])>>
      OBVIOUS
    <3>4. IsTile(<<Byte(1)>> \o body, px, w, h)
      BY <2>1, <3>1, <3>2, <3>3, BodyMakesTile
    <3>5. QED
      BY <3>3, <3>4
  <2>5. QED
    BY <2>2, <2>4 DEF tile
<1>9. CASE size # 1 /\ how = "raw"
  <2>1. /\ IsBody(0, PixelTokens(px), px, w, h)
        /\ Bytes(PixelTokens(px)) = bytes
    BY RawIsRead DEF n, bytes
  <2>2. tile = <<Byte(0)>> \o PixelTokens(px)
    BY <1>4, <1>9 DEF TileOfWay
  <2>3. PICK a \in Nat : a < bytes /\ bytes <= a + n
    <3>1. bytes - n \in Nat /\ bytes - n < bytes /\ bytes <= (bytes - n) + n
      BY <1>1, <1>6
    <3>2. QED
      BY <3>1
  <2>4. a < Len(px) * zrleFormat /\ Bytes(PixelTokens(px)) <= a + Len(px)
    BY <2>1, <2>3 DEF n, bytes
  <2>5. IsTile(<<Byte(0)>> \o PixelTokens(px), px, w, h)
    <3>1. 0 \in Nat
      OBVIOUS
    <3>2. QED
      BY <2>1, <2>4, <3>1, BodyMakesTile
  <2>6. QED
    BY <2>2, <2>5 DEF tile
<1>10. CASE size # 1 /\ how = "rle" /\ (zrleFormat + 1) * RunCount(px) < bytes
  <2> DEFINE body == RleTokens(px, <<>>)
             a == zrleFormat * RunCount(px)
  <2>1. IsBody(128, body, px, w, h) /\ Bytes(body) <= a + n
    BY RleIsRead DEF n
  <2>2. tile = <<Byte(128)>> \o body
    BY <1>4, <1>10 DEF TileOfWay
  <2>3. a \in Nat /\ a < bytes
    <3>1. (zrleFormat + 1) * RunCount(px) = a + RunCount(px) /\ a \in Nat
      BY <1>5
    <3> HIDE DEF a
    <3>2. QED
      BY <1>5, <1>6, <1>10, <3>1
  <2> HIDE DEF body, a
  <2>4. a < Len(px) * zrleFormat /\ Bytes(body) <= a + Len(px)
    BY <2>1, <2>3 DEF n, bytes
  <2>5. IsTile(<<Byte(128)>> \o body, px, w, h)
    <3>1. 128 \in Nat
      OBVIOUS
    <3>2. QED
      BY <2>1, <2>3, <2>4, <3>1, BodyMakesTile
  <2>6. QED
    BY <2>2, <2>5 DEF tile
<1>11. CASE /\ size # 1 /\ how = "palette rle" /\ size <= m
            /\ zrleFormat * size + LongRunCount(px) + RunCount(px) < bytes
  <2> DEFINE p == PixelTokens(palette)
             r == RleTokens(px, palette)
             body == p \o r
             a == zrleFormat * size
             type == 128 + size
  <2>1. size \in 2..127 /\ Len(palette) = size /\ CanPaint(palette, px)
    <3>0. size \in 2..127
      <4>1. size \in Nat \ {0} /\ size # 1 /\ size <= m
        BY <1>2, <1>11
      <4>2. QED
        BY <1>7, <4>1
    <3>1. size \in 2..127 /\ Len(palette) = size
          /\ \A i \in DOMAIN px : HasColour(palette, px[i])
      BY <1>2, <1>11, <3>0, Zenon
    <3>2. QED
      BY <1>2, <3>1 DEF CanPaint, IsPalette
  <2>2. /\ IsBody(type, body, px, w, h) /\ Bytes(body) <= a + n
        /\ p \in Seq(Tokens) /\ r \in Seq(Tokens)
    BY <2>1, PaletteRunsAreRead DEF n
  <2>3. type \in Nat
    BY <1>2
  <2>4. tile = (<<Byte(type)>> \o p) \o r
    BY <1>4, <1>11, Zenon DEF TileOfWay, size, palette
  <2>5. <<Byte(type)>> \in Seq(Tokens)
    <3> HIDE DEF type
    <3>1. QED
      BY <2>3, OneToken
  <2>6. a \in Nat /\ a < bytes
    <3>1. a \in Nat
      BY <1>2
    <3> HIDE DEF a
    <3>2. a + LongRunCount(px) + RunCount(px) < bytes
      BY <1>11 DEF a
    <3>3. QED
      BY <1>5, <1>6, <3>1, <3>2
  <2> HIDE DEF p, r, a, type
  <2>7. tile = <<Byte(type)>> \o body
    BY <2>2, <2>4, <2>5, TokensAreGrouped
  <2> HIDE DEF body
  <2>8. a < Len(px) * zrleFormat /\ Bytes(body) <= a + Len(px)
    BY <2>2, <2>6 DEF n, bytes
  <2>9. IsTile(<<Byte(type)>> \o body, px, w, h)
    BY <2>2, <2>3, <2>6, <2>8, BodyMakesTile
  <2>10. QED
    BY <2>7, <2>9 DEF tile
<1>12. CASE /\ size # 1 /\ how = "packed" /\ size <= MaxPackedPalette
            /\ zrleFormat * size + (n * BitsPerPackedPixel(size)) \div 8 < bytes
  <2> DEFINE p == PixelTokens(palette)
             k == PackedTokens(px, w, palette)
             body == p \o k
             a == zrleFormat * size
  <2>1. size \in 2..16 /\ Len(palette) = size /\ IsPalette(palette)
        /\ \A i \in DOMAIN px : HasColour(palette, px[i])
    <3>1. size \in 2..16 /\ Len(palette) = size
          /\ \A i \in DOMAIN px : HasColour(palette, px[i])
      BY <1>2, <1>7, <1>12
    <3>2. QED
      BY <1>2, <3>1 DEF IsPalette
  <2>2. /\ IsBody(size, body, px, w, h) /\ Bytes(body) <= a + n
        /\ p \in Seq(Tokens) /\ k \in Seq(Tokens)
    BY <2>1, IndicesAreRead DEF n
  <2>3. tile = (<<Byte(size)>> \o p) \o k
    BY <1>4, <1>12, Zenon DEF TileOfWay, size, palette
  <2>4. <<Byte(size)>> \in Seq(Tokens)
    BY <1>2, OneToken
  <2>5. a \in Nat /\ a < bytes
    <3> DEFINE x == n * BitsPerPackedPixel(size)
    <3>1. a \in Nat
      BY <1>2
    <3>2. x \div 8 \in Nat
      <4>1. BitsPerPackedPixel(size) \in Nat
        BY DEF BitsPerPackedPixel
      <4>2. x \in Nat
        BY <1>1, <4>1
      <4> HIDE DEF x
      <4>3. QED
        BY <4>2, QuotientIsNotMore
    <3> DEFINE y == x \div 8
    <3>3. a + y < bytes /\ y \in Nat
      BY <1>12, <3>2
    <3> HIDE DEF a, y
    <3>4. QED
      BY <1>6, <3>1, <3>3
  <2> HIDE DEF p, k, a
  <2>6. tile = <<Byte(size)>> \o body
    BY <2>2, <2>3, <2>4, TokensAreGrouped
  <2> HIDE DEF body
  <2>7. a < Len(px) * zrleFormat /\ Bytes(body) <= a + Len(px)
    BY <2>2, <2>5 DEF n, bytes
  <2>8. IsTile(<<Byte(size)>> \o body, px, w, h)
    BY <1>2, <2>2, <2>5, <2>7, BodyMakesTile
  <2>9. QED
    BY <2>6, <2>8 DEF tile
<1>13. QED
  BY <1>3, <1>8, <1>9, <1>10, <1>11, <1>12 DEF WayIs, n, bytes, m

-----------------------------------------------------------------------------
(* The wavelets' coefficients of a tile are another tile of its size.      *)
LEMMA CoefficientsAre ==
  ASSUME NEW px, NEW w, NEW h, IsZrlePicture(px, w, h), NEW reversed \in BOOLEAN
  PROVE  IsZrlePicture(Coefficients(px, reversed), w, h)
         /\ Len(Coefficients(px, reversed)) = Len(px)
<1> DEFINE n == Len(px)
<1>1. /\ w \in Nat \ {0} /\ h \in Nat \ {0} /\ n = w * h
  BY DEF IsZrlePicture
<1>2. n \in Nat \ {0} /\ DOMAIN px = 1..n /\ px[1] \in Nat /\ px \in Seq(Nat)
  BY ZrlePictureIs
<1>3. \A i \in 1..n : px[i] \in Nat
  BY <1>2
<1> HIDE DEF n
<1>4. CASE reversed
  <2> DEFINE f == [i \in 1..n |-> px[(n - i) + 1]]
  <2>1. Coefficients(px, reversed) = f
    BY <1>4 DEF Coefficients, ZrleSeqs!Reverse, n
  <2>2. \A i \in 1..n : (n - i) + 1 \in 1..n
    BY <1>2
  <2>3. f \in [1..n -> Nat]
    BY <1>3, <2>2
  <2>4. DOMAIN f = 1..n
    OBVIOUS
  <2> HIDE DEF f
  <2>5. f \in Seq(Nat) /\ Len(f) = n
    BY <1>2, <2>3, <2>4
  <2>6. QED
    BY <1>1, <2>1, <2>5 DEF IsZrlePicture, n
<1>5. CASE ~reversed
  <2> DEFINE f == [i \in 1..n |-> px[1]]
  <2>1. Coefficients(px, reversed) = f
    BY <1>2, <1>5 DEF Coefficients
  <2>2. f \in [1..n -> Nat]
    BY <1>2
  <2>3. DOMAIN f = 1..n
    OBVIOUS
  <2> HIDE DEF f
  <2>4. f \in Seq(Nat) /\ Len(f) = n
    BY <1>2, <2>2, <2>3
  <2>5. QED
    BY <1>1, <2>1, <2>4 DEF IsZrlePicture, n
<1>6. QED
  BY <1>4, <1>5

(* Both ends agree on the level of the wavelets. *)
LevelsAgree ==
  zrleEncoding \in {"zrle", "zywrle"}
    /\ (zrleEncoding = "zywrle" => zrleQuality \in 0..8)

(* The level is none for plain ZRLE, and the same at both ends. *)
LEMMA LevelsAre ==
  ASSUME LevelsAgree
  PROVE  /\ ZywrleLevel \in 0..3
         /\ zrleEncoding = "zrle" => ZywrleLevel = 0
         /\ zrleEncoding = "zywrle" => ZywrleLevel = ClientZywrleLevel
         /\ zrleEncoding = "zywrle" => ZywrleLevel > 0
<1>1. CASE zrleEncoding = "zrle"
  <2>1. ZywrleLevel = 0
    BY <1>1 DEF ZywrleLevel
  <2>2. QED
    BY <1>1, <2>1
<1>2. CASE zrleEncoding = "zywrle"
  <2>1. zrleQuality \in 0..8
    BY <1>2 DEF LevelsAgree
  <2>2. ZywrleLevel = IF zrleQuality \in 0..2 THEN 3
                      ELSE IF zrleQuality \in 3..5 THEN 2 ELSE 1
    BY <1>2, <2>1 DEF ZywrleLevel
  <2>3. ClientZywrleLevel = 3 - (zrleQuality \div 3)
    BY <2>1 DEF ClientZywrleLevel
  <2>4. ZywrleLevel = ClientZywrleLevel /\ ZywrleLevel \in 1..3
    <3>1. CASE zrleQuality \in 0..2
      <4>1. zrleQuality \div 3 = 0
        BY <3>1
      <4>2. QED
        BY <2>2, <2>3, <3>1, <4>1
    <3>2. CASE zrleQuality \in 3..5
      <4>1. zrleQuality \div 3 = 1 /\ zrleQuality \notin 0..2
        BY <3>2
      <4>2. QED
        BY <2>2, <2>3, <3>2, <4>1
    <3>3. CASE zrleQuality \in 6..8
      <4>1. zrleQuality \div 3 = 2 /\ zrleQuality \notin 0..2
            /\ zrleQuality \notin 3..5
        BY <3>3
      <4>2. QED
        BY <2>2, <2>3, <3>3, <4>1
    <3>4. QED
      BY <2>1, <3>1, <3>2, <3>3
  <2>5. QED
    BY <1>2, <2>4
<1>3. QED
  BY <1>1, <1>2 DEF LevelsAgree

-----------------------------------------------------------------------------
GoodResults == {"exact", "lossy"}

(* A tile that was sent is read, and no further than to its end.           *)
SentIs(sent, px, w, h, coefficients) ==
  /\ sent \in Seq(Tokens)
  /\ Bytes(sent) \in Nat /\ Bytes(sent) <= 2 * (Len(px) * zrleFormat)
  /\ \A t \in Seq(Tokens) :
       LET read == HandleZRLETile(sent \o t, w, h)
       IN /\ read.rest = t
          /\ TileResult(read, px, coefficients, ZywrleLevel) \in GoodResults

(* What fits a tile's share of the buffer. *)
LEMMA BytesOfTile ==
  ASSUME zrleFormat \in 1..4, NEW n \in Nat, NEW b, FewBytes(b, n)
  PROVE  /\ b \in Nat /\ b <= 2 * (n * zrleFormat)
         /\ zrleFormat # 1 => 1 + b <= 2 * (n * zrleFormat)
<1> DEFINE x == 2 * (n * zrleFormat)
<1>1. x \in Nat
  OBVIOUS
<1>2. b \in Nat /\ b <= x - (IF zrleFormat = 1 THEN 0 ELSE 1)
  BY DEF FewBytes
<1> HIDE DEF x
<1>3. QED
  BY <1>1, <1>2 DEF x

(* A tile without wavelets is read as it was sent. *)
LEMMA PlainIsSent ==
  ASSUME zrleFormat \in 1..4, LevelsAgree,
         NEW px, NEW w, NEW h, IsZrlePicture(px, w, h), NEW coefficients,
         NEW tile, IsTile(tile, px, w, h),
         ~(ZywrleLevel > 0 /\ zrleFormat # 1 /\ tile[1] = Byte(0))
  PROVE  SentIs(tile, px, w, h, coefficients)
<1>1. Len(px) \in Nat
  BY ZrlePictureIs
<1>2. /\ tile \in Seq(Tokens) /\ Bytes(tile) \in Nat
      /\ Bytes(tile) <= 2 * (Len(px) * zrleFormat)
  BY <1>1, BytesOfTile DEF IsTile
<1>3. ASSUME NEW t \in Seq(Tokens)
      PROVE  LET read == HandleZRLETile(tile \o t, w, h)
             IN /\ read.rest = t
                /\ TileResult(read, px, coefficients, ZywrleLevel) \in GoodResults
  <2> DEFINE s == tile \o t
             read == HandleZRLETile(s, w, h)
  <2>1. s # <<>> /\ s[1] = tile[1] /\ ReadPlainTile(s, w, h) = TileDone(px, t)
    BY DEF IsTile
  <2> HIDE DEF s
  <2>2. ~(s # <<>> /\ s[1] = Byte(0) /\ zrleFormat # 1 /\ zrleEncoding = "zywrle"
            /\ ClientZywrleLevel > 0)
    BY <2>1, LevelsAre
  <2>3. read = TileDone(px, t)
    BY <2>1, <2>2 DEF HandleZRLETile
  <2> HIDE DEF read
  <2>4. read.ok /\ read.rest = t /\ read.level = 0 /\ read.px = px
    BY <2>3 DEF TileDone
  <2>5. TileResult(read, px, coefficients, ZywrleLevel) = "exact"
    BY <2>4 DEF TileResult
  <2>6. QED
    BY <2>4, <2>5 DEF GoodResults, read, s
<1>4. QED
  BY <1>2, <1>3 DEF SentIs

(* A tile of coefficients is read, and its level with it. *)
LEMMA WaveletsAreSent ==
  ASSUME zrleFormat \in 1..4, LevelsAgree,
         NEW px, NEW w, NEW h, IsZrlePicture(px, w, h), NEW coefficients,
         Len(coefficients) = Len(px),
         NEW tile, IsTile(tile, coefficients, w, h),
         ZywrleLevel > 0, zrleFormat # 1
  PROVE  SentIs(<<Byte(0)>> \o tile, px, w, h, coefficients)
<1> DEFINE sent == <<Byte(0)>> \o tile
           level == ZywrleLevel
<1>1. Len(px) \in Nat
  BY ZrlePictureIs
<1>2. /\ tile \in Seq(Tokens) /\ Bytes(tile) \in Nat
      /\ 1 + Bytes(tile) <= 2 * (Len(px) * zrleFormat)
  BY <1>1, BytesOfTile DEF IsTile
<1>3. level \in 1..3 /\ level = ClientZywrleLevel /\ zrleEncoding = "zywrle"
  BY LevelsAre DEF LevelsAgree
<1>4. 0 \in Nat
  OBVIOUS
<1>5. <<Byte(0)>> \in Seq(Tokens)
  BY <1>4, OneToken
<1>6. sent \in Seq(Tokens) /\ Bytes(sent) = 1 + Bytes(tile)
  BY <1>2, <1>4, TypeIsRead
<1>7. ASSUME NEW t \in Seq(Tokens)
      PROVE  LET read == HandleZRLETile(sent \o t, w, h)
             IN /\ read.rest = t
                /\ TileResult(read, px, coefficients, level) \in GoodResults
  <2> DEFINE rest == tile \o t
             s == sent \o t
             read == HandleZRLETile(s, w, h)
  <2>1. ReadPlainTile(rest, w, h) = TileDone(coefficients, t)
    BY DEF IsTile
  <2>2. s = <<Byte(0)>> \o rest
    <3>1. PICK z : z = <<Byte(0)>>
      OBVIOUS
    <3>2. z \in Seq(Tokens)
      BY <1>5, <3>1
    <3>3. (z \o tile) \o t = z \o (tile \o t)
      BY <1>2, <3>2, TokensAreGrouped
    <3>4. QED
      BY <3>1, <3>3
  <2>3. rest \in Seq(Tokens)
    BY <1>2, RestIsHadBack
  <2> HIDE DEF rest, s
  <2>4. s # <<>> /\ s[1] = Byte(0) /\ Tail(s) = rest
    BY <1>4, <2>2, <2>3, TypeIsRead
  <2>5. ClientZywrleLevel > 0
    BY <1>3
  <2>6. read = [TileDone(coefficients, t) EXCEPT !.level = level]
    BY <1>3, <2>1, <2>4, <2>5 DEF HandleZRLETile
  <2> HIDE DEF read, level
  <2>7. read.ok /\ read.rest = t /\ read.level = level /\ read.px = coefficients
    BY <2>6 DEF TileDone
  <2>8. level # 0
    BY <1>3
  <2>9. TileResult(read, px, coefficients, level) = "lossy"
    BY <2>7, <2>8 DEF TileResult
  <2>10. QED
    BY <2>7, <2>9 DEF GoodResults, read, s
<1>8. QED
  BY <1>2, <1>6, <1>7 DEF SentIs

(* Whatever is sent of a tile is read. *)
LEMMA SentTileIs ==
  ASSUME zrleFormat \in 1..4, LevelsAgree,
         NEW px, NEW w, NEW h, IsZrlePicture(px, w, h), NEW reversed \in BOOLEAN
  PROVE  SentIs(ZrleTile(px, w, ZywrleLevel, Coefficients(px, reversed)),
                px, w, h, Coefficients(px, reversed))
<1> DEFINE co == Coefficients(px, reversed)
           level == ZywrleLevel
           plain == PlainTile(px, w, level)
           inner == PlainTile(co, w, 0)
<1>1. IsZrlePicture(co, w, h) /\ Len(co) = Len(px)
  BY CoefficientsAre
<1>2. level \in 0..3
  BY LevelsAre
<1>3. IsTile(plain, px, w, h)
  BY <1>2, PlainTileIsRead
<1>4. IsTile(inner, co, w, h)
  <2>1. 0 \in 0..3
    OBVIOUS
  <2>2. QED
    BY <1>1, <2>1, PlainTileIsRead
<1>5. ZrleTile(px, w, level, co)
        = IF level > 0 /\ zrleFormat # 1 /\ plain[1] = Byte(0)
          THEN <<Byte(0)>> \o inner ELSE plain
  BY DEF ZrleTile
<1> HIDE DEF co, plain, inner
<1>6. CASE level > 0 /\ zrleFormat # 1 /\ plain[1] = Byte(0)
  <2>1. SentIs(<<Byte(0)>> \o inner, px, w, h, co)
    BY <1>1, <1>4, <1>6, WaveletsAreSent
  <2>2. QED
    BY <1>5, <1>6, <2>1 DEF co
<1>7. CASE ~(level > 0 /\ zrleFormat # 1 /\ plain[1] = Byte(0))
  <2>1. SentIs(plain, px, w, h, co)
    BY <1>3, <1>7, PlainIsSent
  <2>2. QED
    BY <1>5, <1>7, <2>1 DEF co
<1>8. QED
  BY <1>6, <1>7

-----------------------------------------------------------------------------
(* The sides of tiles of t along a side of n, of which there are m.        *)
IsSides(n, t, m) ==
  /\ m \in Nat \ {0}
  /\ \A q \in 0..(m - 1) :
       /\ q * t \in Nat /\ q * t < n
       /\ q + 1 < m => ZrleSets!Min({t, n - q * t}) = t
       /\ q + 1 = m => ZrleSets!Min({t, n - q * t}) = n - q * t
       /\ ZrleSets!Min({t, n - q * t}) \in Nat \ {0}
       /\ q * t + ZrleSets!Min({t, n - q * t}) <= n

(* As many tiles as the server counts are sides that cover n. *)
LEMMA SidesAre ==
  ASSUME NEW n \in Nat \ {0}, NEW t \in Nat \ {0}, NEW m,
         m = (n + t - 1) \div t
  PROVE  IsSides(n, t, m)
<1> DEFINE x == n + t - 1
           r == x % t
<1>1. x \in Nat
  OBVIOUS
<1>2. m \in Nat /\ r \in 0..(t - 1) /\ x = m * t + r
  <2> HIDE DEF x
  <2>1. x \div t \in Nat /\ x % t \in 0..(t - 1) /\ x = (x \div t) * t + (x % t)
    BY <1>1, Division
  <2>2. m = x \div t
    BY DEF x
  <2>3. QED
    BY <2>1, <2>2
<1> HIDE DEF r
<1>3. m * t \in Nat /\ n = m * t + r - t + 1
  <2>1. m * t \in Nat
    BY <1>2
  <2>2. QED
    BY <1>2, <2>1
<1>4. m # 0
  <2>1. m = 0 => m * t = 0
    BY <1>2
  <2>2. QED
    BY <1>2, <1>3, <2>1
<1>5. ASSUME NEW q \in 0..(m - 1)
      PROVE  /\ q * t \in Nat /\ q * t < n
             /\ q + 1 < m => ZrleSets!Min({t, n - q * t}) = t
             /\ q + 1 = m => ZrleSets!Min({t, n - q * t}) = n - q * t
             /\ ZrleSets!Min({t, n - q * t}) \in Nat \ {0}
             /\ q * t + ZrleSets!Min({t, n - q * t}) <= n
  <2> DEFINE y == q * t
             z == n - y
             s == ZrleSets!Min({t, z})
             l == m * t
  <2>1. q \in Nat /\ q + 1 \in Nat /\ q + 1 <= m /\ t \in Nat
    BY <1>2
  <2>2. (q + 1) * t <= l /\ (q + 1) * t = y + t /\ y \in Nat /\ l \in Nat
    <3>1. (q + 1) * t <= m * t
      BY <1>2, <2>1, LargerProduct
    <3>2. (q + 1) * t = q * t + t /\ q * t \in Nat /\ m * t \in Nat
      BY <1>2, <2>1
    <3>3. QED
      BY <3>1, <3>2
  <2>3. q + 1 < m => y + t + t <= l
    <3>1. SUFFICES ASSUME q + 1 < m PROVE y + t + t <= l
      OBVIOUS
    <3>2. q + 2 \in Nat /\ q + 2 <= m
      BY <1>2, <2>1, <3>1
    <3>3. (q + 2) * t <= m * t
      BY <1>2, <2>1, <3>2, LargerProduct
    <3>4. (q + 2) * t = q * t + t + t /\ q * t \in Nat /\ m * t \in Nat
      BY <1>2, <2>1
    <3>5. QED
      BY <3>3, <3>4
  <2>4. q + 1 = m => y + t = l
    BY <2>2
  <2>5. n = l + r - t + 1 /\ r \in 0..(t - 1)
    BY <1>2, <1>3
  <2> HIDE DEF y, l
  <2>6. y < n /\ z \in Nat /\ z # 0
    BY <2>1, <2>2, <2>5
  <2>7. q + 1 < m => t <= z
    BY <2>1, <2>2, <2>3, <2>5
  <2>8. q + 1 = m => z <= t
    BY <2>1, <2>2, <2>4, <2>5
  <2>9. s = IF t <= z THEN t ELSE z
    <3> HIDE DEF z
    <3>1. QED
      BY <2>6, SmallerOfTwo
  <2>10. s \in Nat \ {0} /\ y + s <= n /\ (q + 1 < m => s = t)
         /\ (q + 1 = m => s = z)
    <3>1. n \in Nat /\ z = n - y
      OBVIOUS
    <3> HIDE DEF s, z
    <3>2. QED
      BY <2>2, <2>6, <2>7, <2>8, <2>9, <3>1
  <2>11. QED
    BY <2>2, <2>6, <2>10 DEF y
<1>6. QED
  BY <1>2, <1>4, <1>5 DEF IsSides

(* A tile of an image: wide by high from the corner (tx, ty).              *)
TileOf(image, tx, ty, wide, high) ==
  [w |-> wide,
   px |-> [i \in 1..(wide * high) |->
             image.px[(ty + (i - 1) \div wide) * image.w
                      + tx + ((i - 1) % wide) + 1]]]

IsZrleImage(image) == IsZrlePicture(image.px, image.w, image.h)

(* A tile's pixel is a pixel of the image. *)
LEMMA PlaceInImage ==
  ASSUME NEW W \in Nat \ {0}, NEW H \in Nat \ {0}, NEW tx \in Nat, NEW ty \in Nat,
         NEW w \in Nat \ {0}, NEW h \in Nat \ {0}, tx + w <= W, ty + h <= H,
         NEW i \in 1..(w * h)
  PROVE  (ty + (i - 1) \div w) * W + tx + ((i - 1) % w) + 1 \in 1..(W * H)
<1>1. PICK x \in 0..(w - 1) : x = (i - 1) % w
  BY CellOfPlace, Zenon
<1>2. PICK y \in 0..(h - 1) : y = (i - 1) \div w
  BY CellOfPlace, Zenon
<1>3. PICK u : u = tx + x
  OBVIOUS
<1>4. PICK v : v = ty + y
  OBVIOUS
<1>5. u \in 0..(W - 1) /\ v \in 0..(H - 1)
  BY <1>3, <1>4
<1>6. v * W + u + 1 \in 1..(W * H)
  BY <1>5, PlaceOfCell, Zenon
<1>7. v * W \in Nat
  BY <1>5
<1>8. (v * W) + u + 1 = (v * W) + tx + x + 1
  <2>1. PICK z : z = v * W
    OBVIOUS
  <2>2. z + u + 1 = z + tx + x + 1
    BY <1>3, <1>7, <2>1
  <2>3. QED
    BY <2>1, <2>2
<1>9. (ty + (i - 1) \div w) * W + tx + ((i - 1) % w) + 1 = (v * W) + tx + x + 1
  BY <1>1, <1>2, <1>4, Zenon
<1>10. QED
  BY <1>6, <1>8, <1>9, Zenon

(* A part of an image is a picture. *)
LEMMA TileOfImage ==
  ASSUME NEW image, IsZrleImage(image), NEW tx \in Nat, NEW ty \in Nat,
         NEW w \in Nat \ {0}, NEW h \in Nat \ {0},
         tx + w <= image.w, ty + h <= image.h
  PROVE  LET tile == TileOf(image, tx, ty, w, h)
         IN tile.w = w /\ IsZrlePicture(tile.px, w, h)
<1> DEFINE n == w * h
           at(i) == (ty + (i - 1) \div w) * image.w + tx + ((i - 1) % w) + 1
           f == [i \in 1..n |-> image.px[at(i)]]
<1>1. image.w \in Nat \ {0} /\ image.h \in Nat \ {0} /\ image.px \in Seq(Nat)
      /\ Len(image.px) = image.w * image.h
  BY DEF IsZrleImage, IsZrlePicture
<1>2. \A i \in 1..n : at(i) \in 1..Len(image.px)
  BY <1>1, PlaceInImage, Zenon
<1>3. \A j \in 1..Len(image.px) : image.px[j] \in Nat
  BY <1>1, ElementOfSeq, Zenon
<1>4. n \in Nat
  OBVIOUS
<1>5. TileOf(image, tx, ty, w, h) = [w |-> w, px |-> f]
  BY Zenon DEF TileOf
<1> HIDE DEF at, n
<1>6. \A i \in 1..n : image.px[at(i)] \in Nat
  BY <1>2, <1>3, Zenon
<1>7. f \in [1..n -> Nat] /\ DOMAIN f = 1..n
  BY <1>6, Zenon
<1> HIDE DEF f
<1>8. f \in Seq(Nat) /\ Len(f) = n
  BY <1>4, <1>7
<1>9. IsZrlePicture(f, w, h)
  BY <1>8 DEF IsZrlePicture, n
<1>10. QED
  BY <1>5, <1>9

(* The tiles of an image, across and down. *)
WideOf(image, k, across) ==
  ZrleSets!Min({ZrleTileWidth, image.w - ((k - 1) % across) * ZrleTileWidth})
HighOf(image, k, across) ==
  ZrleSets!Min({ZrleTileHeight, image.h - ((k - 1) \div across) * ZrleTileHeight})

IsTiling(tiles, image, across, down) ==
  /\ across \in Nat \ {0} /\ down \in Nat \ {0}
  /\ IsSides(image.w, ZrleTileWidth, across)
  /\ IsSides(image.h, ZrleTileHeight, down)
  /\ DOMAIN tiles = 1..(across * down) /\ Len(tiles) = across * down
  /\ \A k \in 1..(across * down) :
       /\ tiles[k].w = WideOf(image, k, across)
       /\ IsZrlePicture(tiles[k].px, WideOf(image, k, across),
                        HighOf(image, k, across))

(* The tiles of an image are pictures that cover it. *)
LEMMA TilesAre ==
  ASSUME NEW image, IsZrleImage(image)
  PROVE  \E across, down : IsTiling(ZrleTiles(image), image, across, down)
<1> DEFINE across == (image.w + ZrleTileWidth - 1) \div ZrleTileWidth
           down == (image.h + ZrleTileHeight - 1) \div ZrleTileHeight
           n == across * down
           at(k, a, b) == TileOf(image, a * ZrleTileWidth, b * ZrleTileHeight,
                                 WideOf(image, k, across), HighOf(image, k, across))
           tile(k) == at(k, (k - 1) % across, (k - 1) \div across)
           tiles == ZrleTiles(image)
<1>1. image.w \in Nat \ {0} /\ image.h \in Nat \ {0}
  BY DEF IsZrleImage, IsZrlePicture
<1>2. ZrleTileWidth \in Nat \ {0} /\ ZrleTileHeight \in Nat \ {0}
  BY CompressedAssumption
<1>3. IsSides(image.w, ZrleTileWidth, across)
  BY <1>1, <1>2, SidesAre, Zenon
<1>4. IsSides(image.h, ZrleTileHeight, down)
  BY <1>1, <1>2, SidesAre, Zenon
<1>5. tiles = [k \in 1..n |-> tile(k)]
  BY Zenon DEF ZrleTiles, TileOf, WideOf, HighOf
<1> HIDE DEF across, down, tiles
<1>6. across \in Nat \ {0} /\ down \in Nat \ {0}
  BY <1>3, <1>4, Zenon DEF IsSides
<1>7. n \in Nat
  BY <1>6
<1>8. ASSUME NEW k \in 1..n
      PROVE  /\ tile(k).w = WideOf(image, k, across)
             /\ IsZrlePicture(tile(k).px, WideOf(image, k, across),
                              HighOf(image, k, across))
  <2>1. PICK q \in 0..(across - 1) : q = (k - 1) % across
    BY <1>6, CellOfPlace, Zenon
  <2>2. PICK r \in 0..(down - 1) : r = (k - 1) \div across
    BY <1>6, CellOfPlace, Zenon
  <2>3. q * ZrleTileWidth \in Nat /\ WideOf(image, k, across) \in Nat \ {0}
        /\ q * ZrleTileWidth + WideOf(image, k, across) <= image.w
    BY <1>3, <2>1, Zenon DEF IsSides, WideOf
  <2>4. r * ZrleTileHeight \in Nat /\ HighOf(image, k, across) \in Nat \ {0}
        /\ r * ZrleTileHeight + HighOf(image, k, across) <= image.h
    BY <1>4, <2>2, Zenon DEF IsSides, HighOf
  <2>5. tile(k) = at(k, q, r)
    <3> HIDE DEF at
    <3>1. QED
      BY <2>1, <2>2
  <2>6. LET t == at(k, q, r)
        IN /\ t.w = WideOf(image, k, across)
           /\ IsZrlePicture(t.px, WideOf(image, k, across),
                            HighOf(image, k, across))
    BY <2>3, <2>4, TileOfImage, Zenon
  <2>7. QED
    <3> HIDE DEF at, tile
    <3>1. QED
      BY <2>5, <2>6, Zenon
<1>9. DOMAIN tiles = 1..n /\ \A k \in 1..n : tiles[k] = tile(k)
  BY <1>5, Zenon
<1> HIDE DEF tile
<1>10. Len(tiles) = n
  <2> HIDE DEF n
  <2>1. QED
    BY <1>5, <1>7
<1>11. QED
  BY <1>3, <1>4, <1>6, <1>8, <1>9, <1>10, Zenon DEF IsTiling, tiles

(* The pixels of the tiles before one, of those of an image of wide by     *)
(* high: the rows of tiles above, and the part of its own row before it.   *)
AreaBefore(image, k, across, down) ==
  IF k = across * down + 1 THEN image.w * image.h
  ELSE image.w * (((k - 1) \div across) * ZrleTileHeight)
         + (((k - 1) % across) * ZrleTileWidth) * HighOf(image, k, across)

(* The area of one tile more in a row. *)
LEMMA NextColumn ==
  ASSUME NEW a \in Nat, NEW q \in Nat, NEW t \in Nat, NEW h \in Nat
  PROVE  a + ((q + 1) * t) * h = (a + (q * t) * h) + t * h
<1>1. (q + 1) * t = q * t + t /\ q * t \in Nat
  OBVIOUS
<1>2. PICK x \in Nat : x = q * t
  BY <1>1
<1>3. (x + t) * h = x * h + t * h /\ x * h \in Nat /\ t * h \in Nat
  OBVIOUS
<1>4. PICK y \in Nat : y = x * h
  BY <1>3
<1>5. PICK z \in Nat : z = t * h
  BY <1>3
<1>6. a + (y + z) = (a + y) + z
  OBVIOUS
<1>7. QED
  BY <1>1, <1>2, <1>3, <1>4, <1>5, <1>6

(* The area of a full row. *)
LEMMA RowIsFull ==
  ASSUME NEW a \in Nat, NEW x \in Nat, NEW w \in Nat, x <= w, NEW h \in Nat
  PROVE  (a + x * h) + (w - x) * h = a + w * h
<1>1. PICK d \in Nat : d = w - x
  OBVIOUS
<1>2. w = x + d
  BY <1>1
<1>3. (x + d) * h = x * h + d * h /\ x * h \in Nat /\ d * h \in Nat
  OBVIOUS
<1>4. PICK y \in Nat : y = x * h
  BY <1>3
<1>5. PICK z \in Nat : z = d * h
  BY <1>3
<1>6. (a + y) + z = a + (y + z)
  OBVIOUS
<1>7. QED
  BY <1>1, <1>2, <1>3, <1>4, <1>5, <1>6

(* The area of one row of tiles more. *)
LEMMA RowsAreAdded ==
  ASSUME NEW w \in Nat, NEW r \in Nat, NEW t \in Nat
  PROVE  w * (r * t) + w * t = w * ((r + 1) * t)
<1>1. (r + 1) * t = r * t + t /\ r * t \in Nat
  OBVIOUS
<1>2. PICK x \in Nat : x = r * t
  BY <1>1
<1>3. w * (x + t) = w * x + w * t
  OBVIOUS
<1>4. QED
  BY <1>1, <1>2, <1>3

(* The area of all rows. *)
LEMMA RowsAreAll ==
  ASSUME NEW w \in Nat, NEW y \in Nat, NEW h \in Nat, y <= h
  PROVE  w * y + w * (h - y) = w * h
<1>1. PICK d \in Nat : d = h - y
  OBVIOUS
<1>2. h = y + d
  BY <1>1
<1>3. w * (y + d) = w * y + w * d
  OBVIOUS
<1>4. QED
  BY <1>1, <1>2, <1>3

(* Of two tiles that follow each other, the second has the first before it. *)
LEMMA AreaOfTile ==
  ASSUME NEW image, IsZrleImage(image), NEW across, NEW down,
         NEW tiles, IsTiling(tiles, image, across, down),
         NEW k \in 1..(across * down)
  PROVE  /\ AreaBefore(image, k, across, down) \in Nat
         /\ WideOf(image, k, across) * HighOf(image, k, across) \in Nat
         /\ AreaBefore(image, k + 1, across, down)
              = AreaBefore(image, k, across, down)
                  + WideOf(image, k, across) * HighOf(image, k, across)
<1> DEFINE n == across * down
<1>1. image.w \in Nat \ {0} /\ image.h \in Nat \ {0}
  BY DEF IsZrleImage, IsZrlePicture
<1>2. ZrleTileWidth \in Nat \ {0} /\ ZrleTileHeight \in Nat \ {0}
  BY CompressedAssumption
<1>3. /\ across \in Nat \ {0} /\ down \in Nat \ {0}
      /\ IsSides(image.w, ZrleTileWidth, across)
      /\ IsSides(image.h, ZrleTileHeight, down)
  BY DEF IsTiling
<1>4. PICK q \in 0..(across - 1) : q = (k - 1) % across
  BY <1>3, CellOfPlace, Zenon
<1>5. PICK r \in 0..(down - 1) : r = (k - 1) \div across
  BY <1>3, CellOfPlace, Zenon
<1>6. k = r * across + q + 1
  BY <1>3, <1>4, <1>5, CellOfPlace, Zenon
<1>7. PICK W \in Nat \ {0} : W = image.w
  BY <1>1
<1>8. PICK H \in Nat \ {0} : H = image.h
  BY <1>1
<1>9. PICK tw \in Nat \ {0} : tw = ZrleTileWidth
  BY <1>2
<1>10. PICK th \in Nat \ {0} : th = ZrleTileHeight
  BY <1>2
<1>11. PICK w : w = WideOf(image, k, across)
  OBVIOUS
<1>12. PICK h : h = HighOf(image, k, across)
  OBVIOUS
<1>13. PICK x : x = q * tw
  OBVIOUS
<1>14. PICK y : y = r * th
  OBVIOUS
<1>15. w = ZrleSets!Min({tw, W - x}) /\ h = ZrleSets!Min({th, H - y})
  BY <1>4, <1>5, <1>7, <1>8, <1>9, <1>10, <1>11, <1>12, <1>13, <1>14
     DEF WideOf, HighOf
<1>16. /\ x \in Nat /\ x < W /\ (q + 1 < across => w = tw)
       /\ (q + 1 = across => w = W - x) /\ w \in Nat \ {0}
  BY <1>3, <1>7, <1>9, <1>13, <1>15, Zenon DEF IsSides
<1>17. /\ y \in Nat /\ y < H /\ (r + 1 < down => h = th)
       /\ (r + 1 = down => h = H - y) /\ h \in Nat \ {0}
  BY <1>3, <1>8, <1>10, <1>14, <1>15, Zenon DEF IsSides
<1>18. n \in Nat /\ k \in 1..n
  BY <1>3
<1>19. AreaBefore(image, k, across, down) = W * y + x * h
  <2>1. k # n + 1
    <3> HIDE DEF n
    <3>1. QED
      BY <1>18
  <2>2. QED
    BY <1>4, <1>5, <1>7, <1>9, <1>10, <1>12, <1>13, <1>14, <2>1 DEF AreaBefore
<1>20. W * y \in Nat /\ x * h \in Nat /\ w * h \in Nat
  BY <1>16, <1>17
<1>21. AreaBefore(image, k + 1, across, down) = (W * y + x * h) + w * h
  <2>1. CASE q + 1 < across
    <3>1. q + 1 \in 0..(across - 1)
      BY <1>3, <2>1
    <3>2. PICK i : i = r * across + (q + 1) + 1
      OBVIOUS
    <3>3. i \in 1..n /\ (i - 1) % across = q + 1 /\ (i - 1) \div across = r
      <4>1. PICK c \in 0..(across - 1) : c = q + 1
        BY <3>1
      <4>2. i = r * across + c + 1
        BY <3>2, <4>1, Zenon
      <4>3. i \in 1..n /\ (i - 1) % across = c /\ (i - 1) \div across = r
        <5>1. /\ r * across + c + 1 \in 1..(across * down)
              /\ ((r * across + c + 1) - 1) % across = c
              /\ ((r * across + c + 1) - 1) \div across = r
          BY <1>3, PlaceOfCell
        <5>2. QED
          BY <4>2, <5>1
      <4>4. QED
        BY <4>1, <4>3, Zenon
    <3>4. i = k + 1
      <4>1. r * across \in Nat
        BY <1>3
      <4>2. PICK z \in Nat : z = r * across
        BY <4>1
      <4>3. k = z + q + 1 /\ i = z + (q + 1) + 1
        BY <1>6, <3>2, <4>2
      <4>4. QED
        BY <4>3
    <3>5. i # n + 1
      <4> HIDE DEF n
      <4>1. QED
        BY <1>18, <3>3
    <3>6. HighOf(image, i, across) = h
      BY <1>5, <1>12, <3>3 DEF HighOf
    <3>7. AreaBefore(image, i, across, down) = W * y + ((q + 1) * tw) * h
      BY <1>7, <1>9, <1>10, <1>14, <3>3, <3>5, <3>6 DEF AreaBefore
    <3>8. W * y + ((q + 1) * tw) * h = (W * y + (q * tw) * h) + tw * h
      <4>1. q \in Nat /\ tw \in Nat /\ h \in Nat
        BY <1>17
      <4>2. QED
        BY <1>20, <4>1, NextColumn
    <3>9. w = tw
      BY <1>16, <2>1
    <3>10. QED
      BY <1>13, <3>4, <3>7, <3>8, <3>9
  <2>2. CASE q + 1 = across
    <3>1. (W * y + x * h) + w * h = W * y + W * h
      <4>1. W \in Nat /\ x <= W /\ h \in Nat /\ x \in Nat
        BY <1>16, <1>17
      <4>2. (W * y + x * h) + (W - x) * h = W * y + W * h
        BY <1>20, <4>1, RowIsFull
      <4>3. QED
        BY <1>16, <2>2, <4>2
    <3>2. k = (r + 1) * across
      <4>1. (r + 1) * across = r * across + across /\ r * across \in Nat
        BY <1>3
      <4>2. PICK z \in Nat : z = r * across
        BY <4>1
      <4>3. k = z + q + 1 /\ (r + 1) * across = z + across
        BY <1>6, <4>1, <4>2
      <4>4. QED
        BY <1>3, <2>2, <4>3
    <3>3. CASE r + 1 < down
      <4>1. r + 1 \in 0..(down - 1) /\ 0 \in 0..(across - 1)
        BY <1>3, <3>3
      <4>2. PICK i : i = (r + 1) * across + 0 + 1
        OBVIOUS
      <4>3. i \in 1..n /\ (i - 1) % across = 0 /\ (i - 1) \div across = r + 1
        BY <1>3, <4>1, <4>2, PlaceOfCell
      <4>4. i = k + 1
        BY <1>18, <3>2, <4>2
      <4>5. i # n + 1
        <5> HIDE DEF n
        <5>1. QED
          BY <1>18, <4>3
      <4>6. HighOf(image, i, across) \in Nat
        <5>1. HighOf(image, i, across)
                = ZrleSets!Min({ZrleTileHeight,
                                image.h - (r + 1) * ZrleTileHeight})
          BY <4>3 DEF HighOf
        <5>2. ZrleSets!Min({ZrleTileHeight,
                            image.h - (r + 1) * ZrleTileHeight}) \in Nat \ {0}
          BY <1>3, <4>1, Zenon DEF IsSides
        <5>3. QED
          BY <5>1, <5>2
      <4>7. AreaBefore(image, i, across, down)
              = W * ((r + 1) * th) + (0 * tw) * HighOf(image, i, across)
        BY <1>7, <1>9, <1>10, <4>3, <4>5 DEF AreaBefore
      <4>8. (0 * tw) * HighOf(image, i, across) = 0
        BY <4>6
      <4>9. W * (r * th) + W * th = W * ((r + 1) * th)
        <5>1. W \in Nat /\ r \in Nat /\ th \in Nat
          OBVIOUS
        <5>2. QED
          BY <5>1, RowsAreAdded
      <4>10. W * ((r + 1) * th) \in Nat
        OBVIOUS
      <4>11. h = th
        BY <1>17, <3>3
      <4>12. QED
        BY <1>14, <3>1, <4>4, <4>7, <4>8, <4>9, <4>10, <4>11
    <3>4. CASE r + 1 = down
      <4>1. k = n
        <5>1. (r + 1) * across = across * down
          BY <1>3, <3>4
        <5>2. QED
          BY <3>2, <5>1
      <4>2. AreaBefore(image, k + 1, across, down) = W * H
        BY <1>7, <1>8, <4>1 DEF AreaBefore
      <4>3. W * y + W * (H - y) = W * H
        <5>1. W \in Nat /\ H \in Nat /\ y \in Nat /\ y <= H
          BY <1>17
        <5>2. QED
          BY <5>1, RowsAreAll
      <4>4. h = H - y
        BY <1>17, <3>4
      <4>5. QED
        BY <3>1, <4>2, <4>3, <4>4
    <3>5. QED
      BY <1>3, <3>3, <3>4
  <2>3. QED
    BY <1>3, <2>1, <2>2
<1>22. QED
  <2>1. PICK a \in Nat : a = W * y
    BY <1>20
  <2>2. PICK b \in Nat : b = x * h
    BY <1>20
  <2>3. a + b \in Nat
    OBVIOUS
  <2>4. QED
    BY <1>11, <1>12, <1>19, <1>20, <1>21, <2>1, <2>2, <2>3

-----------------------------------------------------------------------------
(* The tiles of an image, and what is sent of them.                        *)
SentTiles(tiles, n, reversed) == [i \in 1..n |-> SentTile(tiles[i], reversed)]

(* A tile that is sent, read by an end that knows its sides.               *)
TileIsSent(tile, sent, reversed) ==
  /\ sent \in Seq(Tokens)
  /\ Bytes(sent) \in Nat /\ Bytes(sent) <= 2 * (Len(tile.px) * zrleFormat)
  /\ \A t \in Seq(Tokens) :
       LET next == NextTile([rest |-> sent \o t, results |-> {}], tile, reversed)
       IN next.rest = t /\ next.results \subseteq GoodResults

(* The next tile is read, and no further. *)
LEMMA TileIsNext ==
  ASSUME zrleFormat \in 1..4, LevelsAgree, NEW tile, NEW h, NEW reversed \in BOOLEAN,
         IsZrlePicture(tile.px, tile.w, h)
  PROVE  TileIsSent(tile, SentTile(tile, reversed), reversed)
<1> DEFINE co == Coefficients(tile.px, reversed)
           sent == SentTile(tile, reversed)
           read(s) == HandleZRLETile(s, tile.w, Len(tile.px) \div tile.w)
           result(s) == TileResult(read(s), tile.px, co, ZywrleLevel)
<1>1. Len(tile.px) \div tile.w = h
  <2>1. PICK w \in Nat \ {0} : w = tile.w
    BY DEF IsZrlePicture
  <2>2. h \in Nat /\ Len(tile.px) = w * h /\ 0 \in 0..(w - 1)
    BY <2>1 DEF IsZrlePicture
  <2>3. (h * w + 0) \div w = h
    BY <2>1, <2>2, DivisionIsUnique
  <2>4. h * w + 0 = w * h
    BY <2>1, <2>2
  <2>5. QED
    BY <2>1, <2>2, <2>3, <2>4
<1>2. SentIs(sent, tile.px, tile.w, h, co)
  BY SentTileIs, Zenon DEF SentTile
<1>3. ASSUME NEW s
      PROVE  LET next == NextTile([rest |-> s, results |-> {}], tile, reversed)
             IN next.rest = read(s).rest /\ next.results = {result(s)}
  <2>1. NextTile([rest |-> s, results |-> {}], tile, reversed)
          = [rest |-> read(s).rest, results |-> {} \cup {result(s)}]
    BY Zenon DEF NextTile
  <2> HIDE DEF result, read
  <2>2. QED
    BY <2>1
<1>4. ASSUME NEW t \in Seq(Tokens)
      PROVE  read(sent \o t).rest = t /\ result(sent \o t) \in GoodResults
  <2>1. /\ HandleZRLETile(sent \o t, tile.w, h).rest = t
        /\ TileResult(HandleZRLETile(sent \o t, tile.w, h), tile.px, co,
                      ZywrleLevel) \in GoodResults
    BY <1>2, Zenon DEF SentIs
  <2>2. QED
    BY <1>1, <2>1, Zenon
<1> HIDE DEF read, result, sent
<1>5. ASSUME NEW t \in Seq(Tokens)
      PROVE  LET next == NextTile([rest |-> sent \o t, results |-> {}], tile,
                                  reversed)
             IN next.rest = t /\ next.results \subseteq GoodResults
  BY <1>3, <1>4, Zenon
<1>6. sent \in Seq(Tokens) /\ Bytes(sent) \in Nat
      /\ Bytes(sent) <= 2 * (Len(tile.px) * zrleFormat)
  BY <1>2, Zenon DEF SentIs
<1>7. QED
  BY <1>5, <1>6, Zenon DEF TileIsSent, sent

(* What is read of a tile does not depend on the tiles before it.          *)
LEMMA NextAdds ==
  ASSUME NEW rest, NEW results, NEW tile, NEW reversed
  PROVE  NextTile([rest |-> rest, results |-> results], tile, reversed)
           = [rest |-> NextTile([rest |-> rest, results |-> {}],
                                tile, reversed).rest,
              results |-> results \cup NextTile([rest |-> rest, results |-> {}],
                                                tile, reversed).results]
<1> DEFINE read == HandleZRLETile(rest, tile.w, Len(tile.px) \div tile.w)
           result == TileResult(read, tile.px, Coefficients(tile.px, reversed),
                                ZywrleLevel)
<1>1. \A others : NextTile([rest |-> rest, results |-> others], tile, reversed)
        = [rest |-> read.rest, results |-> others \cup {result}]
  BY Zenon DEF NextTile
<1> HIDE DEF read, result
<1>2. NextTile([rest |-> rest, results |-> {}], tile, reversed)
        = [rest |-> read.rest, results |-> {result}]
  <2>1. {} \cup {result} = {result}
    OBVIOUS
  <2>2. QED
    BY <1>1, <2>1, Zenon
<1>3. QED
  BY <1>1, <1>2

(* The tokens of all tiles, one after the other. *)
AreSent(tiles, n, reversed, parts, from) ==
  /\ parts \in PartsOf(n, Tokens) /\ from \in RestsOf(n, Tokens)
  /\ Follow(from, parts, n, <<>>)
  /\ \A k \in 1..n : TileIsSent(tiles[k], parts[k], reversed)
                     /\ parts[k] = SentTile(tiles[k], reversed)

(* All tiles are sent one after the other. *)
LEMMA TilesAreSent ==
  ASSUME zrleFormat \in 1..4, LevelsAgree, NEW image, IsZrleImage(image),
         NEW across, NEW down, NEW tiles, IsTiling(tiles, image, across, down),
         NEW reversed \in BOOLEAN
  PROVE  LET n == across * down
             parts == SentTiles(tiles, n, reversed)
         IN /\ ZrleSeqs!FlattenSeq(parts) \in Seq(Tokens)
            /\ n \in Nat
            /\ \E from : AreSent(tiles, n, reversed, parts, from)
                         /\ from[0] = ZrleSeqs!FlattenSeq(parts)
<1> DEFINE n == across * down
           parts == SentTiles(tiles, n, reversed)
<1>1. n \in Nat
  BY DEF IsTiling
<1>2. ASSUME NEW k \in 1..n
      PROVE  TileIsSent(tiles[k], SentTile(tiles[k], reversed), reversed)
  <2>1. IsZrlePicture(tiles[k].px, tiles[k].w, HighOf(image, k, across))
    BY Zenon DEF IsTiling
  <2>2. QED
    BY <2>1, TileIsNext, Zenon
<1>3. \A k \in 1..n : parts[k] = SentTile(tiles[k], reversed)
  BY Zenon DEF SentTiles
<1>4. parts \in PartsOf(n, Tokens)
  <2>1. \A k \in 1..n : SentTile(tiles[k], reversed) \in Seq(Tokens)
    BY <1>2, Zenon DEF TileIsSent
  <2>2. QED
    BY <2>1, Zenon DEF PartsOf, SentTiles
<1> HIDE DEF parts, n
<1>5. <<>> \in Seq(Tokens)
  OBVIOUS
<1>6. ZrleSeqs!FlattenSeq(parts) \in Seq(Tokens)
  BY <1>1, <1>4, <1>5, PartsFollow, Zenon
<1>7. PICK from \in RestsOf(n, Tokens) : Follow(from, parts, n, <<>>)
  BY <1>1, <1>4, <1>5, PartsFollow, Zenon
<1>8. from[0] = ZrleSeqs!FlattenSeq(parts)
  <2>1. ZrleSeqs!FlattenSeq(parts) \o <<>> = from[0]
    BY <1>7, Zenon DEF Follow
  <2>2. \A s \in Seq(Tokens) : s \o <<>> = s
    OBVIOUS
  <2>3. QED
    BY <1>6, <2>1, <2>2, Zenon
<1>9. AreSent(tiles, n, reversed, parts, from)
  BY <1>2, <1>3, <1>4, <1>7, Zenon DEF AreSent
<1>10. QED
  BY <1>1, <1>6, <1>8, <1>9, Zenon DEF parts, n

(* The bytes of one tile less. *)
LEMMA BytesLeft ==
  ASSUME zrleFormat \in 1..4, NEW a \in Nat, NEW d \in Nat, NEW all \in Nat,
         NEW b \in Nat, NEW c \in Nat, b <= 2 * (d * zrleFormat),
         c + 2 * ((a + d) * zrleFormat) <= all
  PROVE  (b + c) + 2 * (a * zrleFormat) <= all
<1>1. zrleFormat \in Nat
  OBVIOUS
<1>2. (a + d) * zrleFormat = a * zrleFormat + d * zrleFormat
      /\ a * zrleFormat \in Nat /\ d * zrleFormat \in Nat
  BY <1>1
<1>3. PICK x \in Nat : x = a * zrleFormat
  BY <1>2
<1>4. PICK y \in Nat : y = d * zrleFormat
  BY <1>2
<1>5. (a + d) * zrleFormat = x + y /\ b <= 2 * y /\ c + 2 * (x + y) <= all
  BY <1>2, <1>3, <1>4
<1>6. (b + c) + 2 * x <= all
  BY <1>5
<1>7. QED
  BY <1>3, <1>6

(* What is sent of an image fits the client's buffer. *)
LEMMA SentFits ==
  ASSUME zrleFormat \in 1..4, NEW image, IsZrleImage(image),
         NEW across, NEW down, NEW tiles, IsTiling(tiles, image, across, down),
         NEW reversed \in BOOLEAN, NEW parts, NEW from,
         AreSent(tiles, across * down, reversed, parts, from)
  PROVE  Bytes(from[0]) <= 2 * image.w * image.h * zrleFormat
<1> DEFINE n == across * down
           area(k) == AreaBefore(image, k, across, down)
           all == 2 * ((image.w * image.h) * zrleFormat)
           S == {i \in Nat : i <= n =>
                   Bytes(from[n - i]) + 2 * (area((n - i) + 1) * zrleFormat)
                     <= all}
<1>1. n \in Nat \ {0}
  <2>1. across \in Nat \ {0} /\ down \in Nat \ {0}
    BY DEF IsTiling
  <2>2. QED
    BY <2>1
<1>2. image.w \in Nat \ {0} /\ image.h \in Nat \ {0}
  BY DEF IsZrleImage, IsZrlePicture
<1>3. zrleFormat \in Nat /\ image.w * image.h \in Nat
  BY <1>2
<1>4. (image.w * image.h) * zrleFormat \in Nat
  BY <1>3
<1>5. all \in Nat /\ all = 2 * image.w * image.h * zrleFormat
  <2>1. PICK W \in Nat : W = image.w
    BY <1>2
  <2>2. PICK H \in Nat : H = image.h
    BY <1>2
  <2>3. PICK f \in Nat : f = zrleFormat
    BY <1>3
  <2>4. 2 * ((W * H) * f) = 2 * W * H * f
    OBVIOUS
  <2>5. QED
    BY <1>4, <2>1, <2>2, <2>3, <2>4
<1>6. ASSUME NEW k \in 1..n
      PROVE  /\ area(k) \in Nat /\ Len(tiles[k].px) \in Nat
             /\ area(k + 1) = area(k) + Len(tiles[k].px)
  <2>1. IsZrlePicture(tiles[k].px, WideOf(image, k, across),
                      HighOf(image, k, across))
    BY Zenon DEF IsTiling
  <2>2. Len(tiles[k].px)
          = WideOf(image, k, across) * HighOf(image, k, across)
    BY <2>1, Zenon DEF IsZrlePicture
  <2>3. QED
    BY <2>2, AreaOfTile, Zenon
<1>7. area(n + 1) = image.w * image.h
  BY Zenon DEF AreaBefore
<1>8. /\ from[n] = <<>>
      /\ \A k \in 1..n : /\ from[k - 1] = parts[k] \o from[k]
                         /\ parts[k] \in Seq(Tokens)
                         /\ Bytes(parts[k]) \in Nat
                         /\ Bytes(parts[k]) <= 2 * (Len(tiles[k].px) * zrleFormat)
  BY Zenon DEF AreSent, Follow, TileIsSent
<1>9. \A k \in 0..n : from[k] \in Seq(Tokens)
  BY Zenon DEF AreSent, RestsOf
<1> HIDE DEF n, area
<1>10. 0 \in S
  <2>1. Bytes(<<>>) = 0
    <3>1. <<>> \in Seq(Tokens) /\ Len(<<>>) = 0 /\ \A i \in 1..0 : <<>>[i].is = "byte"
      OBVIOUS
    <3>2. QED
      BY <3>1, BytesOfBytes
  <2>2. n - 0 = n
    BY <1>1
  <2>3. Bytes(from[n]) + 2 * (area(n + 1) * zrleFormat) = all
    BY <1>4, <1>7, <1>8, <2>1
  <2>4. QED
    BY <1>5, <2>2, <2>3
<1>11. ASSUME NEW i \in Nat, i \in S PROVE i + 1 \in S
  <2>1. SUFFICES ASSUME i + 1 <= n
                 PROVE  Bytes(from[n - (i + 1)])
                          + 2 * (area((n - (i + 1)) + 1) * zrleFormat) <= all
    OBVIOUS
  <2>2. PICK k \in 1..n : k = n - i
    BY <1>1, <2>1
  <2>3. n - (i + 1) = k - 1 /\ (n - (i + 1)) + 1 = k /\ k \in 0..n
        /\ k - 1 \in 0..n
    BY <1>1, <2>1, <2>2
  <2>4. Bytes(from[k]) + 2 * (area(k + 1) * zrleFormat) <= all
    <3>1. i <= n
      BY <1>1, <2>1
    <3>2. QED
      BY <1>11, <2>2, <3>1
  <2>5. /\ Bytes(from[k]) \in Nat
        /\ Bytes(parts[k] \o from[k]) = Bytes(parts[k]) + Bytes(from[k])
    BY <1>8, <1>9, <2>3, BytesAreAdded, Zenon
  <2>6. PICK b \in Nat : b = Bytes(parts[k])
    BY <1>8
  <2>7. PICK c \in Nat : c = Bytes(from[k])
    BY <2>5
  <2>8. PICK a \in Nat : a = area(k)
    BY <1>6
  <2>9. PICK d \in Nat : d = Len(tiles[k].px)
    BY <1>6
  <2>10. b <= 2 * (d * zrleFormat)
    BY <1>8, <2>6, <2>9, Zenon
  <2>11. c + 2 * ((a + d) * zrleFormat) <= all
    <3>1. area(k + 1) = a + d
      BY <1>6, <2>8, <2>9, Zenon
    <3>2. QED
      BY <2>4, <2>7, <3>1, Zenon
  <2>12. (b + c) + 2 * (a * zrleFormat) <= all
    <3> HIDE DEF all
    <3>1. QED
      BY <1>5, <2>10, <2>11, BytesLeft
  <2>13. from[k - 1] = parts[k] \o from[k]
    BY <1>8
  <2>14. QED
    BY <2>3, <2>5, <2>6, <2>7, <2>8, <2>12, <2>13, Zenon
<1>12. n \in S
  <2> HIDE DEF S
  <2>1. Nat \subseteq S
    BY <1>10, <1>11, SetInduction
  <2>2. QED
    BY <1>1, <2>1
<1>13. Bytes(from[0]) + 2 * (area(1) * zrleFormat) <= all
  <2>1. n - n = 0 /\ 0 + 1 = 1 /\ n <= n
    BY <1>1
  <2>2. QED
    BY <1>12, <2>1
<1>14. Bytes(from[0]) \in Nat /\ 2 * (area(1) * zrleFormat) \in Nat
  <2>1. 0 \in 0..n /\ 1 \in 1..n
    BY <1>1
  <2>2. area(1) \in Nat /\ from[0] \in Seq(Tokens)
    BY <1>6, <1>9, <2>1
  <2>3. area(1) * zrleFormat \in Nat
    BY <1>3, <2>2
  <2>4. QED
    BY <2>2, <2>3, BytesAreAdded
<1> HIDE DEF all
<1>15. QED
  <2>1. PICK b \in Nat : b = Bytes(from[0])
    BY <1>14
  <2>2. PICK x \in Nat : x = 2 * (area(1) * zrleFormat)
    BY <1>14
  <2>3. b + x <= all
    BY <1>13, <2>1, <2>2, Zenon
  <2>4. b <= all
    BY <1>5, <2>3
  <2>5. QED
    BY <1>5, <2>1, <2>4, Zenon

(* HandleZRLE() of the first tiles. *)
ReadTiles(f, tiles, n, sent, reversed) ==
  f = [i \in 0..n |->
         IF i = 0 THEN [rest |-> sent, results |-> {}]
         ELSE NextTile(f[i - 1], tiles[i], reversed)]

(* What has become of the first tiles. *)
ResultsTo(tiles, from, reversed, i) ==
  UNION {NextTile([rest |-> from[j - 1], results |-> {}],
                  tiles[j], reversed).results : j \in 1..i}

(* Each tile in turn is read as it was sent. *)
LEMMA TilesAreRead ==
  ASSUME NEW tiles, NEW n \in Nat, NEW reversed \in BOOLEAN, NEW parts, NEW from,
         AreSent(tiles, n, reversed, parts, from)
  PROVE  LET after == CHOOSE f : ReadTiles(f, tiles, n, from[0], reversed)
         IN after[n].results \subseteq GoodResults
<1> DEFINE one(j) == NextTile([rest |-> from[j - 1], results |-> {}],
                              tiles[j], reversed)
           upTo(i) == UNION {one(j).results : j \in 1..i}
           state(i) == [rest |-> from[i], results |-> upTo(i)]
           f == [i \in 0..n |-> state(i)]
           after == CHOOSE g : ReadTiles(g, tiles, n, from[0], reversed)
<1>1. ASSUME NEW j \in 1..n
      PROVE  one(j).rest = from[j] /\ one(j).results \subseteq GoodResults
  <2>1. from[j - 1] = parts[j] \o from[j] /\ TileIsSent(tiles[j], parts[j], reversed)
    BY Zenon DEF AreSent, Follow
  <2>2. j \in 0..n
    OBVIOUS
  <2>3. from[j] \in Seq(Tokens)
    BY <2>2, Zenon DEF AreSent, RestsOf
  <2>4. LET next == NextTile([rest |-> parts[j] \o from[j], results |-> {}],
                             tiles[j], reversed)
        IN next.rest = from[j] /\ next.results \subseteq GoodResults
    BY <2>1, <2>3, Zenon DEF TileIsSent
  <2>5. QED
    BY <2>1, <2>4, Zenon
<1>2. ASSUME NEW i \in 1..n
      PROVE  NextTile(state(i - 1), tiles[i], reversed) = state(i)
  <2>1. NextTile(state(i - 1), tiles[i], reversed)
          = [rest |-> one(i).rest, results |-> upTo(i - 1) \cup one(i).results]
    <3> HIDE DEF upTo
    <3>1. \A r : NextTile([rest |-> from[i - 1], results |-> r], tiles[i], reversed)
                  = [rest |-> one(i).rest, results |-> r \cup one(i).results]
      BY NextAdds
    <3>2. QED
      BY <3>1, Zenon
  <2> HIDE DEF one
  <2>2. upTo(i - 1) \cup one(i).results = upTo(i)
    <3>1. \A j : j \in 1..i <=> j = i \/ j \in 1..(i - 1)
      OBVIOUS
    <3>2. \A x : x \in upTo(i) <=> \E j \in 1..i : x \in one(j).results
      OBVIOUS
    <3>3. \A x : x \in upTo(i - 1) <=> \E j \in 1..(i - 1) : x \in one(j).results
      OBVIOUS
    <3> HIDE DEF upTo
    <3>4. QED
      BY <3>1, <3>2, <3>3
  <2>3. QED
    BY <1>1, <2>1, <2>2
<1> HIDE DEF one
<1>3. upTo(0) = {}
  OBVIOUS
<1>4. upTo(n) \subseteq GoodResults
  BY <1>1
<1> HIDE DEF upTo
<1>5. ReadTiles(f, tiles, n, from[0], reversed)
  <2>1. ASSUME NEW i \in 0..n
        PROVE  f[i] = IF i = 0 THEN [rest |-> from[0], results |-> {}]
                      ELSE NextTile(f[i - 1], tiles[i], reversed)
    <3>1. CASE i = 0
      BY <1>3, <3>1
    <3>2. CASE i # 0
      <4>1. i \in 1..n /\ i - 1 \in 0..n
        BY <3>2
      <4>2. f[i] = state(i) /\ f[i - 1] = state(i - 1)
        BY <4>1, Zenon
      <4> HIDE DEF state
      <4>3. QED
        BY <1>2, <3>2, <4>1, <4>2, Zenon
    <3>3. QED
      BY <3>1, <3>2
  <2>2. f = [i \in 0..n |-> f[i]]
    BY Zenon
  <2> HIDE DEF f
  <2>3. f = [i \in 0..n |->
               IF i = 0 THEN [rest |-> from[0], results |-> {}]
               ELSE NextTile(f[i - 1], tiles[i], reversed)]
    BY <2>1, <2>2, Zenon
  <2>4. QED
    BY <2>3, Zenon DEF ReadTiles
<1>6. ReadTiles(after, tiles, n, from[0], reversed)
  <2> HIDE DEF f
  <2>1. QED
    BY <1>5, Zenon
<1> HIDE DEF after, f
<1>7. ASSUME NEW i \in 0..n
      PROVE  after[i] = IF i = 0 THEN [rest |-> from[0], results |-> {}]
                        ELSE NextTile(after[i - 1], tiles[i], reversed)
  BY <1>6, Zenon DEF ReadTiles
<1> DEFINE S == {i \in Nat : i <= n => after[i] = state(i)}
<1>8. 0 \in S
  <2>1. 0 \in 0..n
    OBVIOUS
  <2>2. after[0] = [rest |-> from[0], results |-> {}]
    BY <1>7, <2>1, Zenon
  <2>3. QED
    BY <1>3, <2>2
<1>9. ASSUME NEW i \in Nat, i \in S PROVE i + 1 \in S
  <2> DEFINE k == i + 1
  <2>1. SUFFICES ASSUME k <= n PROVE after[k] = state(k)
    OBVIOUS
  <2>2. k \in 1..n /\ k \in 0..n /\ k # 0 /\ k - 1 = i /\ i <= n
    BY <2>1
  <2> HIDE DEF k, state
  <2>3. after[i] = state(i)
    BY <1>9, <2>2
  <2>4. after[k] = NextTile(after[i], tiles[k], reversed)
    BY <1>7, <2>2, Zenon
  <2>5. NextTile(state(i), tiles[k], reversed) = state(k)
    BY <1>2, <2>2, Zenon
  <2>6. QED
    BY <2>3, <2>4, <2>5, Zenon
<1>10. n \in S
  <2> HIDE DEF S
  <2>1. Nat \subseteq S
    BY <1>8, <1>9, SetInduction
  <2>2. QED
    BY <2>1
<1>11. after[n].results = upTo(n)
  BY <1>10
<1>12. QED
  BY <1>4, <1>11, Zenon DEF after

(* Every image is drawn as it was sent, or as its wavelets make it.        *)
LEMMA ZrleIsRead ==
  ASSUME zrleFormat \in 1..4, LevelsAgree, NEW image, IsZrleImage(image),
         NEW reversed \in BOOLEAN
  PROVE  ZrleResult(image, reversed) \in GoodResults
<1> DEFINE tiles == ZrleTiles(image)
<1>1. PICK across, down : IsTiling(tiles, image, across, down)
  BY TilesAre, Zenon
<1> DEFINE n == across * down
           parts == SentTiles(tiles, n, reversed)
           sent == ZrleSeqs!FlattenSeq(parts)
           after == CHOOSE f : ReadTiles(f, tiles, n, sent, reversed)
           results == after[n].results
<1>2. PICK from : AreSent(tiles, n, reversed, parts, from) /\ from[0] = sent
  BY <1>1, TilesAreSent
<1>3. n \in Nat
  BY <1>1, TilesAreSent, Zenon
<1>4. DOMAIN tiles = 1..n /\ Len(tiles) = n
  BY <1>1, Zenon DEF IsTiling
<1>5. Bytes(sent) <= 2 * image.w * image.h * zrleFormat
  BY <1>1, <1>2, SentFits, Zenon
<1>6. results \subseteq GoodResults
  <2> HIDE DEF n, parts, tiles
  <2>1. LET g == CHOOSE f : ReadTiles(f, tiles, n, from[0], reversed)
        IN g[n].results \subseteq GoodResults
    BY <1>2, <1>3, TilesAreRead, Zenon
  <2> HIDE DEF sent
  <2>2. QED
    BY <1>2, <2>1, Zenon
<1>7. Bytes(sent) \in Nat /\ 2 * image.w * image.h * zrleFormat \in Nat
  <2>1. sent \in Seq(Tokens)
    BY <1>1, TilesAreSent, Zenon
  <2>2. zrleFormat \in Nat /\ image.w \in Nat /\ image.h \in Nat
    BY DEF IsZrleImage, IsZrlePicture
  <2>3. 2 * image.w * image.h * zrleFormat \in Nat
    BY <2>2
  <2>4. QED
    BY <2>1, <2>3, BytesAreAdded
<1>8. ZrleResult(image, reversed)
        = IF Bytes(sent) > 2 * image.w * image.h * zrleFormat THEN "no space"
          ELSE IF "wrong" \in results THEN "wrong"
          ELSE IF "lossy" \in results THEN "lossy" ELSE "exact"
  <2> HIDE DEF n
  <2> DEFINE all == ZrleSeqs!FlattenSeq(
                      [i \in DOMAIN tiles |-> SentTile(tiles[i], reversed)])
             ends == (CHOOSE g : g = [i \in 0..Len(tiles) |->
                        IF i = 0 THEN [rest |-> all, results |-> {}]
                        ELSE NextTile(g[i - 1], tiles[i], reversed)]
                     )[Len(tiles)].results
  <2>1. ZrleResult(image, reversed)
          = IF Bytes(all) > 2 * image.w * image.h * zrleFormat THEN "no space"
            ELSE IF "wrong" \in ends THEN "wrong"
            ELSE IF "lossy" \in ends THEN "lossy" ELSE "exact"
    BY DEF ZrleResult
  <2>2. sent = all
    BY <1>4, Zenon DEF SentTiles
  <2> HIDE DEF sent, all, tiles
  <2>3. results = ends
    BY <1>4, <2>2, Zenon DEF ReadTiles
  <2> HIDE DEF results, ends
  <2>4. QED
    BY <2>1, <2>2, <2>3, Zenon
<1> HIDE DEF results, sent
<1>9. ~(Bytes(sent) > 2 * image.w * image.h * zrleFormat)
  BY <1>5, <1>7
<1>10. "wrong" \notin results
  BY <1>6 DEF GoodResults
<1>11. QED
  BY <1>8, <1>9, <1>10 DEF GoodResults

-----------------------------------------------------------------------------
Used == {s \in ZlibStreams : serverBlocks[s] > 0}

(* The levels at which ZYWRLE is asked for are kept with it, and a client  *)
(* that was sent no block is in no stream.                                 *)
CompressedInv ==
  /\ CompressedTypeOK
  /\ CompressedIsDecoded
  /\ zrleEncoding = "zywrle" => zrleQuality \in ZrleQualityLevels
  /\ Used = {} => decompStream = [of |-> "none", read |-> 0]

(* A block that is sent is read if there was no other stream before.       *)
LEMMA BlockIsRead ==
  ASSUME CompressedInv, zrleResult # "closed", NEW stream \in ZlibStreams,
         NEW result \in GoodResults, SendBlock(stream, result)
  PROVE  /\ serverBlocks' \in [ZlibStreams -> 0..MaxBlocks]
         /\ decompStream' \in [of : ZlibStreams \cup {"none"}, read : 0..MaxBlocks]
         /\ zrleResult' \in {"exact", "lossy", "closed"}
         /\ CompressedIsDecoded'
         /\ Used' # {}
<1> DEFINE block == serverBlocks[stream] + 1
           fits == /\ decompStream.of \in {stream, "none"}
                   /\ decompStream.read = block - 1
<1>1. /\ serverBlocks \in [ZlibStreams -> 0..MaxBlocks]
      /\ decompStream \in [of : ZlibStreams \cup {"none"}, read : 0..MaxBlocks]
  BY DEF CompressedInv, CompressedTypeOK
<1>2. MaxBlocks \in Nat
  BY CompressedAssumption
<1>3. block \in 1..MaxBlocks /\ block - 1 = serverBlocks[stream]
      /\ serverBlocks[stream] \in 0..MaxBlocks
  BY <1>1, <1>2 DEF SendBlock
<1>4. /\ serverBlocks' = [serverBlocks EXCEPT ![stream] = block]
      /\ decompStream' = IF fits THEN [of |-> stream, read |-> block]
                         ELSE decompStream
      /\ zrleResult' = IF fits THEN result ELSE "closed"
  BY DEF SendBlock
<1>5. /\ serverBlocks' \in [ZlibStreams -> 0..MaxBlocks]
      /\ serverBlocks'[stream] = block
      /\ \A s \in ZlibStreams \ {stream} : serverBlocks'[s] = serverBlocks[s]
  BY <1>1, <1>2, <1>3, <1>4
<1>6. stream \in Used' /\ \A s \in ZlibStreams \ {stream} : s \in Used' <=> s \in Used
  BY <1>3, <1>5 DEF Used
<1>7. /\ Used # ZlibStreams
      /\ \A s \in Used : decompStream = [of |-> s, read |-> serverBlocks[s]]
      /\ Used = {} => decompStream = [of |-> "none", read |-> 0]
  BY DEF CompressedInv, CompressedIsDecoded, Used
<1>8. Used \subseteq ZlibStreams /\ Used' \subseteq ZlibStreams
  BY DEF Used
<1>9. CompressedIsDecoded'
        <=> IF Used' = ZlibStreams THEN zrleResult' = "closed"
            ELSE /\ zrleResult' \in {"exact", "lossy"}
                 /\ \A s \in Used' :
                      decompStream' = [of |-> s, read |-> serverBlocks'[s]]
  BY Zenon DEF CompressedIsDecoded, Used
<1>10. zrleResult' \in {"exact", "lossy", "closed"}
  BY <1>4 DEF GoodResults
<1>11. decompStream' \in [of : ZlibStreams \cup {"none"}, read : 0..MaxBlocks]
  <2>1. block \in 0..MaxBlocks
    BY <1>2, <1>3
  <2> HIDE DEF block
  <2>2. [of |-> stream, read |-> block]
          \in [of : ZlibStreams \cup {"none"}, read : 0..MaxBlocks]
    BY <2>1
  <2>3. QED
    BY <1>1, <1>4, <2>2
<1> HIDE DEF block
<1>12. CASE \E s \in ZlibStreams \ {stream} : s \in Used
  <2>1. PICK s \in ZlibStreams \ {stream} : s \in Used
    BY <1>12
  <2>2. ZlibStreams = {s, stream}
    BY <2>1 DEF ZlibStreams
  <2>3. Used' = ZlibStreams
    BY <1>6, <1>8, <2>1, <2>2
  <2>4. decompStream.of = s /\ s # "none"
    BY <1>7, <2>1 DEF ZlibStreams
  <2>5. zrleResult' = "closed"
    BY <1>4, <2>1, <2>4
  <2>6. CompressedIsDecoded'
    BY <1>9, <2>3, <2>5, Zenon
  <2>7. QED
    BY <1>5, <1>6, <1>10, <1>11, <2>6
<1>13. CASE \A s \in ZlibStreams \ {stream} : s \notin Used
  <2>1. Used' = {stream} /\ Used \subseteq {stream}
    BY <1>6, <1>8, <1>13
  <2>2. Used' # ZlibStreams
    BY <2>1 DEF ZlibStreams
  <2>3. fits
    <3>1. CASE stream \in Used
      BY <1>3, <1>7, <3>1
    <3>2. CASE stream \notin Used
      <4>1. Used = {}
        BY <2>1, <3>2
      <4>2. serverBlocks[stream] = 0
        BY <1>3, <3>2 DEF Used
      <4>3. QED
        BY <1>3, <1>7, <4>1, <4>2
    <3>3. QED
      BY <3>1, <3>2
  <2>4. zrleResult' \in {"exact", "lossy"}
        /\ decompStream' = [of |-> stream, read |-> serverBlocks'[stream]]
    BY <1>4, <1>5, <2>3 DEF GoodResults
  <2>5. CompressedIsDecoded'
    BY <1>9, <2>1, <2>2, <2>4
  <2>6. QED
    BY <1>5, <1>6, <1>10, <1>11, <2>5
<1>14. QED
  BY <1>12, <1>13

(* The invariant of RfbCompressed. *)
THEOREM CompressedInvariance == CompressedSpec => []CompressedInv
<1>1. CompressedInit => CompressedInv
  <2> SUFFICES ASSUME CompressedInit PROVE CompressedInv
    OBVIOUS
  <2>1. MaxBlocks \in Nat
    BY CompressedAssumption
  <2>2. \A s \in ZlibStreams : serverBlocks[s] = 0
    BY DEF CompressedInit
  <2>3. Used = {}
    BY <2>2 DEF Used
  <2>4. CompressedTypeOK
    <3>1. 0 \in 0..MaxBlocks
      BY <2>1
    <3>2. serverBlocks \in [ZlibStreams -> 0..MaxBlocks]
      BY <3>1 DEF CompressedInit
    <3>3. decompStream \in [of : ZlibStreams \cup {"none"}, read : 0..MaxBlocks]
      BY <3>1 DEF CompressedInit
    <3>4. QED
      BY <3>2, <3>3 DEF CompressedInit, CompressedTypeOK
  <2>5. Used # ZlibStreams
    BY <2>3 DEF ZlibStreams
  <2>6. zrleResult \in {"exact", "lossy"}
    BY DEF CompressedInit
  <2>7. CompressedIsDecoded
    BY <2>3, <2>5, <2>6 DEF CompressedIsDecoded, Used
  <2>8. QED
    BY <2>4, <2>7 DEF CompressedInit, CompressedInv
<1>2. CompressedInv /\ [CompressedNext]_compressedVars => CompressedInv'
  <2> SUFFICES ASSUME CompressedInv, [CompressedNext]_compressedVars
               PROVE  CompressedInv'
    OBVIOUS
  <2>1. CompressedTypeOK /\ CompressedIsDecoded
    BY DEF CompressedInv
  <2>2. ASSUME UNCHANGED <<serverBlocks, decompStream>>
        PROVE  Used' = Used
    BY <2>2 DEF Used
  <2>3. ASSUME UNCHANGED <<serverBlocks, decompStream, zrleResult>>
        PROVE  CompressedIsDecoded'
    BY <2>1, <2>3, Zenon DEF CompressedIsDecoded
  <2>4. CASE CompressedEncodings
    <3>1. UNCHANGED <<zrleFormat, serverBlocks, decompStream, zrleResult>>
          /\ zrleEncoding' \in {"zlib", "ultra", "zrle", "zywrle"}
          /\ zrleQuality' \in ZrleQualityLevels
      BY <2>4 DEF CompressedEncodings
    <3>2. CompressedTypeOK'
      BY <2>1, <3>1 DEF CompressedTypeOK
    <3>3. CompressedIsDecoded' /\ Used' = Used
      BY <2>2, <2>3, <3>1
    <3>4. QED
      BY <3>1, <3>2, <3>3 DEF CompressedInv
  <2>5. ASSUME NEW image \in ZrleImages, SendZrle(image) PROVE CompressedInv'
    <3>1. PICK reversed \in BOOLEAN :
            SendBlock("zrle", ZrleResult(image, reversed))
      BY <2>5, Zenon DEF SendZrle
    <3>2. /\ zrleResult # "closed" /\ zrleEncoding \in {"zrle", "zywrle"}
          /\ zrleQuality' = IF zrleEncoding = "zrle" THEN 9 ELSE zrleQuality
          /\ zrleFormat' = zrleFormat /\ zrleEncoding' = zrleEncoding
      BY <2>5, Zenon DEF SendZrle
    <3>3. zrleFormat \in 1..4 /\ ZrleQualityLevels \subseteq 0..8
      BY <2>1, CompressedAssumption DEF CompressedTypeOK
    <3>4. LevelsAgree
      BY <3>2, <3>3 DEF LevelsAgree, CompressedInv
    <3>5. IsZrleImage(image)
      BY CompressedAssumption, Zenon DEF IsZrleImage, IsZrlePicture
    <3>6. ZrleResult(image, reversed) \in GoodResults
      BY <3>3, <3>4, <3>5, ZrleIsRead, Zenon
    <3>7. "zrle" \in ZlibStreams
      BY DEF ZlibStreams
    <3>8. /\ serverBlocks' \in [ZlibStreams -> 0..MaxBlocks]
          /\ decompStream' \in [of : ZlibStreams \cup {"none"},
                                read : 0..MaxBlocks]
          /\ zrleResult' \in {"exact", "lossy", "closed"}
          /\ CompressedIsDecoded' /\ Used' # {}
      BY <3>1, <3>2, <3>6, <3>7, BlockIsRead, Zenon
    <3>9. CompressedTypeOK'
      BY <2>1, <3>2, <3>8 DEF CompressedTypeOK
    <3>10. zrleEncoding' = "zywrle" => zrleQuality' \in ZrleQualityLevels
      BY <3>2 DEF CompressedInv
    <3>11. QED
      BY <3>8, <3>9, <3>10, Zenon DEF CompressedInv
  <2>6. ASSUME NEW image \in ZrleImages, SendZlib(image) PROVE CompressedInv'
    <3>1. /\ zrleResult # "closed" /\ zrleEncoding = "zlib"
          /\ zrleFormat' = zrleFormat /\ zrleEncoding' = zrleEncoding
          /\ zrleQuality' = zrleQuality
      BY <2>6 DEF SendZlib
    <3>2. CASE /\ zrleResult' = "exact"
               /\ UNCHANGED <<serverBlocks, decompStream>>
      <4>1. CompressedIsDecoded' /\ Used' = Used
        <5>1. Used # ZlibStreams
          BY <2>1, <3>1 DEF CompressedIsDecoded, Used
        <5>2. \A s \in Used : decompStream = [of |-> s, read |-> serverBlocks[s]]
          BY <2>1, <5>1, Zenon DEF CompressedIsDecoded, Used
        <5>3. Used' = Used
          BY <2>2, <3>2
        <5>4. QED
          BY <3>2, <5>1, <5>2, <5>3 DEF CompressedIsDecoded, Used
      <4>2. CompressedTypeOK'
        BY <2>1, <3>1, <3>2 DEF CompressedTypeOK
      <4>3. QED
        BY <3>1, <3>2, <4>1, <4>2 DEF CompressedInv
    <3>3. CASE SendBlock("zlib", "exact")
      <4>1. "zlib" \in ZlibStreams /\ "exact" \in GoodResults
        BY DEF ZlibStreams, GoodResults
      <4>2. /\ serverBlocks' \in [ZlibStreams -> 0..MaxBlocks]
            /\ decompStream' \in [of : ZlibStreams \cup {"none"},
                                  read : 0..MaxBlocks]
            /\ zrleResult' \in {"exact", "lossy", "closed"}
            /\ CompressedIsDecoded' /\ Used' # {}
        BY <3>1, <3>3, <4>1, BlockIsRead, Zenon
      <4>3. CompressedTypeOK'
        BY <2>1, <3>1, <4>2 DEF CompressedTypeOK
      <4>4. QED
        BY <3>1, <4>2, <4>3, Zenon DEF CompressedInv
    <3>4. QED
      BY <2>6, <3>2, <3>3, Zenon DEF SendZlib
  <2>7. CASE SendUltra
    <3>1. /\ zrleResult # "closed" /\ zrleResult' = "exact"
          /\ UNCHANGED <<zrleFormat, zrleEncoding, zrleQuality, serverBlocks,
                         decompStream>>
      BY <2>7 DEF SendUltra
    <3>2. Used # ZlibStreams
      BY <2>1, <3>1 DEF CompressedIsDecoded, Used
    <3>3. Used' = Used
      BY <2>2, <3>1
    <3>4. \A s \in Used : decompStream = [of |-> s, read |-> serverBlocks[s]]
      BY <2>1, <3>2, Zenon DEF CompressedIsDecoded, Used
    <3>5. CompressedIsDecoded'
      BY <3>1, <3>2, <3>3, <3>4 DEF CompressedIsDecoded, Used
    <3>6. CompressedTypeOK'
      BY <2>1, <3>1 DEF CompressedTypeOK
    <3>7. QED
      BY <3>1, <3>3, <3>5, <3>6 DEF CompressedInv
  <2>8. CASE UNCHANGED compressedVars
    <3>1. UNCHANGED <<zrleFormat, zrleEncoding, zrleQuality, serverBlocks,
                      decompStream, zrleResult>>
      BY <2>8 DEF compressedVars
    <3>2. CompressedTypeOK' /\ CompressedIsDecoded' /\ Used' = Used
      BY <2>1, <2>2, <2>3, <3>1 DEF CompressedTypeOK
    <3>3. QED
      BY <3>1, <3>2 DEF CompressedInv
  <2>9. QED
    BY <2>4, <2>5, <2>6, <2>7, <2>8 DEF CompressedNext
<1>3. QED
  BY <1>1, <1>2, PTL DEF CompressedSpec

(* While the client has used only one of zlib and ZRLE, every rectangle is *)
(* drawn as it was sent, fits the client's buffer and leaves both ends at  *)
(* the same block; once both are used, the client's single stream fails.   *)
THEOREM CompressedStaysDecoded == CompressedSpec => []CompressedIsDecoded
<1>1. CompressedInv => CompressedIsDecoded
  BY DEF CompressedInv
<1>2. QED
  BY <1>1, CompressedInvariance, PTL

=============================================================================
