-------------------------- MODULE RfbEncodings_proofs ------------------------
(***************************************************************************)
(* Proofs about the encodings of rectangles, each with its own             *)
(* specification:                                                          *)
(*   RfbEncodings    a picture sent as RRE, CoRRE or hextile is drawn as   *)
(*                   it was;                                               *)
(*   RfbTight        a rectangle of the Tight encoding is read as it was   *)
(*                   sent, and the streams stay in step;                   *)
(*   RfbWavelet      the client undoes the wavelets of ZYWRLE.             *)
(***************************************************************************)
EXTENDS RfbDisplay_proofs, RfbEncodings, RfbTight, RfbWavelet

-----------------------------------------------------------------------------
(***************************************************************************)
(* RfbEncodings.                                                           *)
(***************************************************************************)

(* The greatest element of a set. *)
LEMMA GreatestIs ==
  ASSUME NEW S \in SUBSET Int, NEW m \in S, \A y \in S : m >= y
  PROVE  EncodingSets!Max(S) = m
<1>1. \A x \in S : (\A y \in S : x >= y) => x = m
  OBVIOUS
<1>2. QED
  BY <1>1 DEF EncodingSets!Max

(* A set of numbers below a bound has one. *)
LEMMA GreatestExists ==
  ASSUME NEW S \in SUBSET Nat, S # {}, NEW b \in Nat, \A y \in S : y <= b
  PROVE  /\ EncodingSets!Max(S) \in S
         /\ \A y \in S : y <= EncodingSets!Max(S)
<1>1. PICK m \in S : \A y \in S : m >= y
  BY SomeIsGreatest
<1>2. EncodingSets!Max(S) = m
  BY <1>1, GreatestIs
<1>3. QED
  BY <1>1, <1>2

(* So does the least. *)
LEMMA LeastExists ==
  ASSUME NEW S \in SUBSET Nat, S # {}
  PROVE  /\ EncodingSets!Min(S) \in S
         /\ \A y \in S : EncodingSets!Min(S) <= y
<1>1. \E x \in S : \A y \in S : x =< y
  BY SomeIsLeast
<1>2. QED
  BY <1>1 DEF EncodingSets!Min

-----------------------------------------------------------------------------
(* A picture has its width and height. *)
LEMMA SizeOfPicture ==
  ASSUME NEW w \in Nat \ {0}, NEW h \in Nat \ {0}, NEW data,
         DOMAIN data = Points(w, h)
  PROVE  WidthIn(data) = w /\ HeightIn(data) = h
<1>1. /\ <<w - 1, 0>> \in Points(w, h) /\ <<0, h - 1>> \in Points(w, h)
      /\ \A p \in Points(w, h) : /\ p[1] \in 0..(w - 1) /\ p[2] \in 0..(h - 1)
  BY DEF Points
<1>2. EncodingSets!Max({p[1] : p \in DOMAIN data}) = w - 1
  <2> DEFINE S == {p[1] : p \in DOMAIN data}
  <2>1. S \in SUBSET Int /\ w - 1 \in S /\ \A y \in S : w - 1 >= y
    <3>1. w - 1 \in S
      BY <1>1
    <3>2. QED
      BY <1>1, <3>1
  <2> HIDE DEF S
  <2>2. EncodingSets!Max(S) = w - 1
    BY <2>1, GreatestIs
  <2>3. QED
    BY <2>2 DEF S
<1>3. EncodingSets!Max({p[2] : p \in DOMAIN data}) = h - 1
  <2> DEFINE S == {p[2] : p \in DOMAIN data}
  <2>1. S \in SUBSET Int /\ h - 1 \in S /\ \A y \in S : h - 1 >= y
    <3>1. h - 1 \in S
      BY <1>1
    <3>2. QED
      BY <1>1, <3>1
  <2> HIDE DEF S
  <2>2. EncodingSets!Max(S) = h - 1
    BY <2>1, GreatestIs
  <2>3. QED
    BY <2>2 DEF S
<1>4. QED
  BY <1>2, <1>3 DEF WidthIn, HeightIn

(* The rows in their order reach every point. *)
LEMMA RowsReachAll ==
  ASSUME NEW w \in Nat \ {0}, NEW h \in Nat \ {0}, NEW data,
         DOMAIN data = Points(w, h)
  PROVE  /\ Len(RowOrder(data)) \in Nat /\ Len(RowOrder(data)) > 0
         /\ DOMAIN RowOrder(data) = 1..Len(RowOrder(data))
         /\ \A i \in DOMAIN RowOrder(data) : RowOrder(data)[i] \in Points(w, h)
         /\ \A p \in Points(w, h) :
              \E i \in DOMAIN RowOrder(data) : RowOrder(data)[i] = p
<1> DEFINE n == w * h
           f == [i \in 1..n |-> <<(i - 1) % w, (i - 1) \div w>>]
<1>1. n \in Nat /\ n > 0
  <2>1. PICK k \in Nat : h = k + 1
    <3>1. h - 1 \in Nat /\ h = (h - 1) + 1
      OBVIOUS
    <3>2. QED
      BY <3>1
  <2>2. w * h = w * k + w /\ w * k \in Nat
    BY <2>1
  <2>3. QED
    BY <2>2
<1>2. RowOrder(data) = f
  BY SizeOfPicture DEF RowOrder
<1>3. ASSUME NEW i \in 1..n PROVE f[i] \in Points(w, h)
  <2>1. i - 1 \in Nat /\ i - 1 < h * w
    OBVIOUS
  <2>2. (i - 1) \div w < h
    BY <2>1, QuotientIsLess
  <2>3. (i - 1) \div w \in Nat /\ (i - 1) % w \in 0..(w - 1)
    BY <2>1, Division
  <2>4. QED
    BY <2>2, <2>3 DEF Points
<1>4. ASSUME NEW p \in Points(w, h) PROVE \E i \in 1..n : f[i] = p
  <2>1. /\ p = <<p[1], p[2]>> /\ p[1] \in 0..(w - 1) /\ p[2] \in 0..(h - 1)
    BY DEF Points
  <2> DEFINE x == p[1]
             y == p[2]
             q == y * w
  <2>2. q + x \in Nat /\ (q + x) \div w = y /\ (q + x) % w = x
    BY <2>1, DivisionIsUnique
  <2>3. q + x < n
    <3>1. PICK k \in Nat : h = y + 1 + k
      <4>1. h - y - 1 \in Nat /\ h = y + 1 + (h - y - 1)
        BY <2>1
      <4>2. QED
        BY <4>1
    <3>2. n = q + w + w * k /\ w * k \in Nat /\ q \in Nat
      BY <2>1, <3>1
    <3>3. QED
      BY <2>1, <3>2
  <2> HIDE DEF q, n
  <2>4. (q + x) + 1 \in 1..n /\ ((q + x) + 1) - 1 = q + x
    BY <1>1, <2>2, <2>3
  <2>5. f[(q + x) + 1] = <<x, y>>
    BY <2>2, <2>4
  <2>6. QED
    BY <2>1, <2>4, <2>5
<1> HIDE DEF n
<1>5. DOMAIN f = 1..n /\ Len(f) = n
  BY <1>1
<1> HIDE DEF f
<1>6. QED
  BY <1>1, <1>2, <1>3, <1>4, <1>5

-----------------------------------------------------------------------------
(* The biggest rectangle at a point contains it and has one colour.        *)
LEMMA BiggestIsOfOneColour ==
  ASSUME NEW w \in Nat \ {0}, NEW h \in Nat \ {0}, NEW data,
         DOMAIN data = Points(w, h), NEW x, NEW y, <<x, y>> \in Points(w, h)
  PROVE  LET s == BiggestSubrect(data, x, y) IN
         /\ s \in [colour : {data[<<x, y>>]}, x : {x}, y : {y},
                   w : Nat, h : Nat]
         /\ <<x, y>> \in Area(s.x, s.y, s.w, s.h)
         /\ \A p \in Area(s.x, s.y, s.w, s.h) :
              p \in Points(w, h) /\ data[p] = data[<<x, y>>]
<1> DEFINE colour == data[<<x, y>>]
           Run(j) == {i \in x .. WidthIn(data) - 1 :
                       \A k \in x..i : data[<<k, j>>] = colour}
           runEnd(j) == EncodingSets!Max(Run(j))
           Column == {j \in y .. HeightIn(data) - 1 :
                       \A k \in y..j : data[<<x, k>>] = colour}
           vy == EncodingSets!Max(Column)
           hx == runEnd(y)
           Ends == {runEnd(j) : j \in y..vy}
           vx == EncodingSets!Min(Ends)
           High == {j \in y..vy : \A k \in y..j : runEnd(k) >= hx}
           hy == EncodingSets!Max(High)
           s == BiggestSubrect(data, x, y)
           hw == hx - x + 1
           hh == hy - y + 1
           vw == vx - x + 1
           vh == vy - y + 1
<1>1. s = IF hw * hh > vw * vh THEN Subrect(colour, x, y, hw, hh)
           ELSE Subrect(colour, x, y, vw, vh)
  BY DEF BiggestSubrect, VerticalWidth
<1> HIDE DEF hw, hh, vw, vh
<1>2. WidthIn(data) = w /\ HeightIn(data) = h
  BY SizeOfPicture
<1>3. x \in 0..(w - 1) /\ y \in 0..(h - 1)
  BY DEF Points
<1>4. vy \in Column
  <2>1. y \in Column
    <3>1. y \in y..(h - 1) /\ \A k \in y..y : k = y
      BY <1>3
    <3>2. QED
      BY <1>2, <3>1
  <2>2. Column \in SUBSET Nat /\ h - 1 \in Nat /\ \A j \in Column : j <= h - 1
    BY <1>2, <1>3
  <2> HIDE DEF Column
  <2>3. QED
    BY <2>1, <2>2, GreatestExists
<1>5. vy \in y..(h - 1) /\ \A k \in y..vy : data[<<x, k>>] = colour
  <2> HIDE DEF vy
  <2>1. QED
    BY <1>2, <1>4
<1> HIDE DEF vy
<1>6. ASSUME NEW j \in y..vy PROVE runEnd(j) \in Run(j)
  <2>1. x \in Run(j)
    <3>1. x \in x..(w - 1) /\ \A k \in x..x : k = x
      BY <1>3
    <3>2. data[<<x, j>>] = colour
      BY <1>5
    <3>3. QED
      BY <1>2, <3>1, <3>2
  <2>2. Run(j) \in SUBSET Nat /\ w - 1 \in Nat /\ \A i \in Run(j) : i <= w - 1
    BY <1>2, <1>3
  <2> HIDE DEF Run
  <2>3. QED
    BY <2>1, <2>2, GreatestExists
<1>7. \A j \in y..vy :
        /\ runEnd(j) \in x..(w - 1)
        /\ \A i \in x..runEnd(j) : data[<<i, j>>] = colour
  <2>1. SUFFICES ASSUME NEW j \in y..vy
                 PROVE  /\ runEnd(j) \in x..(w - 1)
                        /\ \A i \in x..runEnd(j) : data[<<i, j>>] = colour
    OBVIOUS
  <2>2. runEnd(j) \in Run(j)
    BY <1>6
  <2> HIDE DEF runEnd
  <2>3. QED
    BY <1>2, <2>2
<1> HIDE DEF runEnd
<1>8. y \in y..vy
  BY <1>3, <1>5
<1>9. vx \in Ends /\ \A e \in Ends : vx <= e
  <2>1. Ends \in SUBSET Nat /\ Ends # {}
    <3>1. runEnd(y) \in Ends
      BY <1>8
    <3>2. \A j \in y..vy : runEnd(j) \in Nat
      BY <1>3, <1>7
    <3>3. QED
      BY <3>1, <3>2
  <2> HIDE DEF Ends
  <2>2. QED
    BY <2>1, LeastExists
<1>10. vx \in x..(w - 1) /\ \A j \in y..vy : vx <= runEnd(j)
  <2> HIDE DEF vx
  <2>1. QED
    BY <1>7, <1>9
<1>11. hy \in High
  <2>1. y \in High
    <3>1. hx \in x..(w - 1) /\ \A k \in y..y : k = y
      BY <1>3, <1>7, <1>8
    <3>2. runEnd(y) >= hx
      BY <1>3, <3>1
    <3>3. QED
      BY <1>8, <3>1, <3>2
  <2>2. High \in SUBSET Nat /\ vy \in Nat /\ \A j \in High : j <= vy
    BY <1>3, <1>5
  <2> HIDE DEF High
  <2>3. QED
    BY <2>1, <2>2, GreatestExists
<1>12. hy \in y..vy /\ \A k \in y..hy : runEnd(k) >= hx
  <2> HIDE DEF hy
  <2>1. QED
    BY <1>11
<1>13. hx \in x..(w - 1)
  BY <1>7, <1>8
<1> HIDE DEF vx, hy, hx
<1>14. ASSUME NEW ex \in x..(w - 1), NEW ey \in y..vy,
              \A j \in y..ey : ex <= runEnd(j)
       PROVE  LET r == Subrect(colour, x, y, ex - x + 1, ey - y + 1) IN
              /\ r \in [colour : {colour}, x : {x}, y : {y}, w : Nat, h : Nat]
              /\ <<x, y>> \in Area(r.x, r.y, r.w, r.h)
              /\ \A p \in Area(r.x, r.y, r.w, r.h) :
                   p \in Points(w, h) /\ data[p] = colour
  <2> DEFINE r == Subrect(colour, x, y, ex - x + 1, ey - y + 1)
  <2>1. Area(r.x, r.y, r.w, r.h) = (x..ex) \X (y..ey)
    <3>1. /\ r.x = x /\ r.y = y /\ r.w = ex - x + 1 /\ r.h = ey - y + 1
      BY DEF Subrect
    <3>2. x + (ex - x + 1) - 1 = ex /\ y + (ey - y + 1) - 1 = ey
      BY <1>3, <1>5
    <3>3. QED
      BY <3>1, <3>2 DEF Area
  <2>2. r \in [colour : {colour}, x : {x}, y : {y}, w : Nat, h : Nat]
    <3>1. ex - x + 1 \in Nat /\ ey - y + 1 \in Nat
      BY <1>3, <1>5
    <3>2. QED
      BY <3>1 DEF Subrect
  <2>3. <<x, y>> \in (x..ex) \X (y..ey)
    BY <1>3, <1>5
  <2>4. ASSUME NEW p \in (x..ex) \X (y..ey)
        PROVE  p \in Points(w, h) /\ data[p] = colour
    <3>1. p[1] \in x..ex /\ p[2] \in y..ey /\ p = <<p[1], p[2]>>
      OBVIOUS
    <3>2. /\ p[1] \in 0..(w - 1) /\ p[2] \in 0..(h - 1) /\ p[2] \in y..vy
      <4> DEFINE a == p[1]
                 b == p[2]
      <4>1. a \in x..ex /\ b \in y..ey
        BY <3>1
      <4> HIDE DEF a, b
      <4>2. ex \in Int /\ ey \in Int /\ vy \in Int /\ vy <= h - 1
        BY <1>3, <1>5
      <4>3. a \in 0..(w - 1) /\ b \in 0..(h - 1) /\ b \in y..vy
        BY <1>3, <4>1, <4>2
      <4>4. QED
        BY <4>3 DEF a, b
    <3>3. runEnd(p[2]) \in x..(w - 1) /\ ex <= runEnd(p[2])
      BY <1>7, <1>14, <3>1, <3>2
    <3>4. p[1] \in x..runEnd(p[2])
      BY <1>3, <3>1, <3>3
    <3>5. data[<<p[1], p[2]>>] = colour
      BY <1>7, <3>2, <3>4
    <3>6. QED
      BY <3>1, <3>2, <3>5 DEF Points
  <2> HIDE DEF r
  <2>5. QED
    BY <2>1, <2>2, <2>3, <2>4 DEF r
<1>15. CASE s = Subrect(colour, x, y, hw, hh)
  <2>1. \A j \in y..hy : hx <= runEnd(j)
    <3>1. SUFFICES ASSUME NEW j \in y..hy PROVE hx <= runEnd(j)
      OBVIOUS
    <3>2. j \in y..vy /\ runEnd(j) >= hx
      BY <1>3, <1>5, <1>12
    <3>3. runEnd(j) \in x..(w - 1)
      BY <1>7, <3>2
    <3>4. QED
      BY <1>3, <1>13, <3>2, <3>3
  <2>2. QED
    BY <1>12, <1>13, <1>14, <1>15, <2>1 DEF hw, hh
<1>16. CASE s = Subrect(colour, x, y, vw, vh)
  <2>1. vy \in y..vy
    BY <1>3, <1>5
  <2>2. QED
    BY <1>10, <1>14, <1>16, <2>1 DEF vw, vh
<1>17. QED
  BY <1>1, <1>15, <1>16

-----------------------------------------------------------------------------
(* subrectEncode() *)
Covers(s, p) == p \in Area(s.x, s.y, s.w, s.h)

IsPicture(data, w, h) == data = [p \in Points(w, h) |-> data[p]]

Rectangles(data, back) ==
  [colour : {data[p] : p \in DOMAIN data} \ {back},
   x : Nat, y : Nat, w : Nat, h : Nat]

(* The rectangles so far have the colour of what they cover, and what they *)
(* cover is exactly what is marked as done.                                *)
Encodes(acc, data, back) ==
  /\ acc.left = [p \in DOMAIN data |-> acc.left[p]]
  /\ acc.subrects \in Seq(Rectangles(data, back))
  /\ \A p \in DOMAIN data :
       /\ acc.left[p] \in {back, data[p]}
       /\ \A i \in DOMAIN acc.subrects :
            Covers(acc.subrects[i], p)
              => acc.left[p] = back /\ acc.subrects[i].colour = data[p]
       /\ acc.left[p] = back /\ data[p] # back
            => \E i \in DOMAIN acc.subrects : Covers(acc.subrects[i], p)

(* The next pixel is done after its turn, and so is what was before. *)
LEMMA SubrectIsEncoded ==
  ASSUME NEW w \in Nat \ {0}, NEW h \in Nat \ {0}, NEW data, NEW back,
         DOMAIN data = Points(w, h), NEW p \in Points(w, h),
         NEW acc, Encodes(acc, data, back)
  PROVE  LET next == SubrectAt(acc, p, back) IN
         /\ Encodes(next, data, back)
         /\ next.left[p] = back
         /\ \A q \in Points(w, h) : acc.left[q] = back => next.left[q] = back
<1> DEFINE left == acc.left
           subrects == acc.subrects
           s == BiggestSubrect(left, p[1], p[2])
           marked == FillRectangle(left, [s EXCEPT !.colour = back])
           longer == Append(subrects, s)
           next == SubrectAt(acc, p, back)
           n == Len(subrects)
           D == Points(w, h)
<1>1. CASE left[p] = back
  <2>1. next = acc
    BY <1>1 DEF SubrectAt
  <2>2. QED
    BY <1>1, <2>1
<1>2. CASE left[p] # back
  <2>1. next.left = marked /\ next.subrects = longer
    BY <1>2 DEF SubrectAt
  <2>2. DOMAIN left = D /\ left[p] = data[p]
    BY <1>2 DEF Encodes
  <2>3. p = <<p[1], p[2]>> /\ p[1] \in Nat /\ p[2] \in Nat
    BY DEF Points
  <2>4. /\ s \in [colour : {left[<<p[1], p[2]>>]}, x : {p[1]}, y : {p[2]},
                  w : Nat, h : Nat]
        /\ <<p[1], p[2]>> \in Area(s.x, s.y, s.w, s.h)
        /\ \A q \in Area(s.x, s.y, s.w, s.h) :
             q \in D /\ left[q] = left[<<p[1], p[2]>>]
    BY <2>2, <2>3, BiggestIsOfOneColour
  <2>5. /\ s \in [colour : {data[p]}, x : Nat, y : Nat, w : Nat, h : Nat]
        /\ Covers(s, p)
        /\ \A q \in D : Covers(s, q) => left[q] = data[p]
    <3>1. left[<<p[1], p[2]>>] = data[p]
      BY <2>2, <2>3
    <3> HIDE DEF s, left
    <3>2. s \in [colour : {data[p]}, x : Nat, y : Nat, w : Nat, h : Nat]
      BY <2>3, <2>4, <3>1
    <3>3. Covers(s, p)
      BY <2>3, <2>4 DEF Covers
    <3>4. \A q \in D : Covers(s, q) => left[q] = data[p]
      BY <2>4, <3>1 DEF Covers
    <3>5. QED
      BY <3>2, <3>3, <3>4
  <2> HIDE DEF s
  <2>6. ASSUME NEW q \in D
        PROVE  marked[q] = IF Covers(s, q) THEN back ELSE left[q]
    <3> DEFINE t == [s EXCEPT !.colour = back]
    <3>1. t.x = s.x /\ t.y = s.y /\ t.w = s.w /\ t.h = s.h /\ t.colour = back
      BY <2>5
    <3> HIDE DEF t
    <3>2. QED
      BY <2>2, <3>1 DEF FillRectangle, Covers, t
  <2>7. marked = [q \in D |-> marked[q]]
    BY <2>2 DEF FillRectangle
  <2> HIDE DEF marked
  <2>8. s \in Rectangles(data, back)
    BY <1>2, <2>2, <2>5 DEF Rectangles
  <2>9. subrects \in Seq(Rectangles(data, back))
    BY DEF Encodes
  <2>10. /\ longer \in Seq(Rectangles(data, back))
         /\ n \in Nat /\ DOMAIN longer = 1..(n + 1) /\ DOMAIN subrects = 1..n
         /\ longer[n + 1] = s /\ \A i \in 1..n : longer[i] = subrects[i]
    BY <2>8, <2>9
  <2> HIDE DEF longer, n
  <2>11. s.colour = data[p]
    BY <2>5
  <2>12. ASSUME NEW q \in D
         PROVE  /\ marked[q] \in {back, data[q]}
                /\ \A i \in 1..(n + 1) :
                     Covers(longer[i], q)
                       => marked[q] = back /\ longer[i].colour = data[q]
                /\ marked[q] = back /\ data[q] # back
                     => \E i \in 1..(n + 1) : Covers(longer[i], q)
    <3>1. /\ left[q] \in {back, data[q]}
          /\ \A i \in 1..n :
               Covers(subrects[i], q)
                 => left[q] = back /\ subrects[i].colour = data[q]
          /\ left[q] = back /\ data[q] # back
               => \E i \in 1..n : Covers(subrects[i], q)
      BY <2>10 DEF Encodes
    <3> HIDE DEF left, subrects
    <3>2. marked[q] \in {back, data[q]}
      BY <2>6, <3>1
    <3>3. ASSUME NEW i \in 1..(n + 1), Covers(longer[i], q)
          PROVE  marked[q] = back /\ longer[i].colour = data[q]
      <4>1. CASE i = n + 1
        <5>1. Covers(s, q)
          BY <2>10, <3>3, <4>1
        <5>2. left[q] = data[p] /\ data[p] # back
          BY <1>2, <2>2, <2>5, <5>1
        <5>3. data[q] = data[p]
          BY <3>1, <5>2
        <5>4. QED
          BY <2>6, <2>10, <2>11, <4>1, <5>1, <5>3
      <4>2. CASE i # n + 1
        <5>1. i \in 1..n
          BY <2>10, <4>2
        <5>2. left[q] = back /\ longer[i].colour = data[q]
          BY <2>10, <3>1, <3>3, <5>1
        <5>3. QED
          BY <2>6, <5>2
      <4>3. QED
        BY <4>1, <4>2
    <3>4. ASSUME marked[q] = back, data[q] # back
          PROVE  \E i \in 1..(n + 1) : Covers(longer[i], q)
      <4>1. CASE Covers(s, q)
        <5>1. n + 1 \in 1..(n + 1)
          BY <2>10
        <5>2. QED
          BY <2>10, <4>1, <5>1
      <4>2. CASE ~Covers(s, q)
        <5>1. left[q] = back
          BY <2>6, <3>4, <4>2
        <5>2. PICK i \in 1..n : Covers(subrects[i], q)
          BY <3>1, <3>4, <5>1
        <5>3. i \in 1..(n + 1) /\ longer[i] = subrects[i]
          BY <2>10
        <5>4. QED
          BY <5>2, <5>3
      <4>3. QED
        BY <4>1, <4>2
    <3>5. QED
      BY <3>2, <3>3, <3>4
  <2>13. Encodes(next, data, back)
    <3> HIDE DEF next
    <3>1. QED
      BY <2>1, <2>7, <2>10, <2>12 DEF Encodes
  <2>14. marked[p] = back
    BY <2>5, <2>6
  <2>15. \A q \in D : left[q] = back => marked[q] = back
    BY <2>6
  <2>16. /\ next.left[p] = back
         /\ \A q \in D : left[q] = back => next.left[q] = back
    <3> HIDE DEF next, left
    <3>1. QED
      BY <2>1, <2>14, <2>15
  <2>17. QED
    BY <2>13, <2>16
<1>3. QED
  BY <1>1, <1>2

(* The pixels in their turn, as they are left after each. *)
Passes(after, data, back) ==
  after = [n \in 0..Len(RowOrder(data)) |->
             IF n = 0 THEN [subrects |-> <<>>, left |-> data]
             ELSE SubrectAt(after[n - 1], RowOrder(data)[n], back)]

(* There is such a sequence ... *)
LEMMA PassesExist ==
  ASSUME NEW data, NEW back, Len(RowOrder(data)) \in Nat
  PROVE  \E after : Passes(after, data, back)
<1> DEFINE Step(f, n) ==
             IF n = 0 THEN [subrects |-> <<>>, left |-> data]
             ELSE SubrectAt(f[n - 1], RowOrder(data)[n], back)
           S == {n \in Nat : \E f : f = [i \in 0..n |-> Step(f, i)]}
<1>1. 0 \in S
  <2> DEFINE f == [i \in 0..0 |-> [subrects |-> <<>>, left |-> data]]
  <2>1. f = [i \in 0..0 |-> Step(f, i)]
    OBVIOUS
  <2> HIDE DEF f
  <2>2. QED
    BY <2>1
<1>2. ASSUME NEW n \in Nat, n \in S PROVE n + 1 \in S
  <2>1. PICK f : f = [i \in 0..n |-> Step(f, i)]
    BY <1>2
  <2> DEFINE last == SubrectAt(f[n], RowOrder(data)[n + 1], back)
             g == [i \in 0..(n + 1) |-> IF i = n + 1 THEN last ELSE f[i]]
  <2>2. ASSUME NEW i \in 0..(n + 1) PROVE g[i] = Step(g, i)
    <3>1. CASE i = n + 1
      BY <3>1
    <3>2. CASE i # n + 1
      <4>1. i \in 0..n /\ g[i] = f[i] /\ f[i] = Step(f, i)
        BY <2>1, <3>2
      <4>2. i # 0 => g[i - 1] = f[i - 1]
        BY <3>2
      <4>3. QED
        BY <4>1, <4>2
    <3>3. QED
      BY <3>1, <3>2
  <2>3. g = [i \in 0..(n + 1) |-> g[i]]
    OBVIOUS
  <2> HIDE DEF g
  <2>4. g = [i \in 0..(n + 1) |-> Step(g, i)]
    BY <2>2, <2>3
  <2>5. QED
    BY <2>4
<1>3. Len(RowOrder(data)) \in S
  <2> HIDE DEF S
  <2>1. QED
    BY <1>1, <1>2, SetInduction
<1>4. QED
  BY <1>3 DEF Passes

(* ... at whose end the rectangles encode the picture. *)
LEMMA SubrectsEncode ==
  ASSUME NEW w \in Nat \ {0}, NEW h \in Nat \ {0}, NEW data, NEW back,
         IsPicture(data, w, h)
  PROVE  \E acc : /\ Subrects(data, back) = acc.subrects
                  /\ Encodes(acc, data, back)
                  /\ \A p \in Points(w, h) : acc.left[p] = back
<1> DEFINE order == RowOrder(data)
           size == Len(order)
           D == Points(w, h)
<1>1. DOMAIN data = D
  BY DEF IsPicture
<1>2. /\ size \in Nat /\ DOMAIN order = 1..size
      /\ \A i \in 1..size : order[i] \in D
      /\ \A p \in D : \E i \in 1..size : order[i] = p
  <2>1. /\ Len(order) \in Nat
        /\ DOMAIN order = 1..Len(order)
        /\ \A i \in DOMAIN order : order[i] \in Points(w, h)
        /\ \A p \in Points(w, h) : \E i \in DOMAIN order : order[i] = p
    BY <1>1, RowsReachAll
  <2> HIDE DEF order
  <2>2. QED
    BY <2>1
<1> DEFINE after == CHOOSE f : Passes(f, data, back)
<1>3. Passes(after, data, back)
  BY <1>2, PassesExist
<1>4. Subrects(data, back) = after[size].subrects
  BY DEF Subrects, Passes
<1> HIDE DEF after
<1> DEFINE S == {n \in Nat : n <= size =>
                   /\ Encodes(after[n], data, back)
                   /\ \A i \in 1..n : after[n].left[order[i]] = back}
<1>5. 0 \in S
  <2>1. after[0] = [subrects |-> <<>>, left |-> data]
    BY <1>2, <1>3 DEF Passes
  <2>2. after[0].left = data /\ after[0].subrects = <<>>
    BY <2>1
  <2>3. <<>> \in Seq(Rectangles(data, back)) /\ DOMAIN <<>> = {}
    OBVIOUS
  <2>4. Encodes(after[0], data, back)
    BY <1>1, <2>2, <2>3 DEF Encodes, IsPicture
  <2>5. QED
    BY <2>4
<1>6. ASSUME NEW n \in Nat, n \in S PROVE n + 1 \in S
  <2>1. SUFFICES ASSUME n + 1 <= size
                 PROVE  /\ Encodes(after[n + 1], data, back)
                        /\ \A i \in 1..(n + 1) :
                             after[n + 1].left[order[i]] = back
    OBVIOUS
  <2>2. /\ Encodes(after[n], data, back)
        /\ \A i \in 1..n : after[n].left[order[i]] = back
    BY <1>2, <1>6, <2>1
  <2>3. n + 1 \in 1..size /\ order[n + 1] \in D
    BY <1>2, <2>1
  <2>4. after[n + 1] = SubrectAt(after[n], order[n + 1], back)
    <3>1. n + 1 \in 0..size /\ n + 1 # 0 /\ (n + 1) - 1 = n
      BY <2>3
    <3>2. QED
      BY <1>3, <3>1 DEF Passes
  <2> HIDE DEF order, size
  <2>5. /\ Encodes(after[n + 1], data, back)
        /\ after[n + 1].left[order[n + 1]] = back
        /\ \A q \in D : after[n].left[q] = back => after[n + 1].left[q] = back
    <3> DEFINE acc == after[n]
               p == order[n + 1]
    <3>1. Encodes(acc, data, back) /\ p \in Points(w, h)
      BY <2>2, <2>3
    <3> HIDE DEF acc, p
    <3>2. DOMAIN data = Points(w, h)
      BY <1>1
    <3>3. Encodes(SubrectAt(acc, p, back), data, back)
      BY <3>1, <3>2, SubrectIsEncoded
    <3>4. SubrectAt(acc, p, back).left[p] = back
      BY <3>1, <3>2, SubrectIsEncoded
    <3>5. \A q \in Points(w, h) :
            acc.left[q] = back => SubrectAt(acc, p, back).left[q] = back
      <4>1. SUFFICES ASSUME NEW q \in Points(w, h), acc.left[q] = back
                     PROVE  SubrectAt(acc, p, back).left[q] = back
        OBVIOUS
      <4>2. QED
        BY <3>1, <3>2, <4>1, SubrectIsEncoded
    <3>6. QED
      BY <2>4, <3>3, <3>4, <3>5 DEF acc, p
  <2>6. ASSUME NEW i \in 1..(n + 1) PROVE after[n + 1].left[order[i]] = back
    <3>1. CASE i = n + 1
      BY <2>5, <3>1
    <3>2. CASE i # n + 1
      <4>1. i \in 1..n /\ i \in 1..size
        BY <1>2, <2>1, <3>2
      <4>2. QED
        BY <1>2, <2>2, <2>5, <4>1
    <3>3. QED
      BY <3>1, <3>2
  <2>7. QED
    BY <2>5, <2>6
<1>7. size \in S
  <2> HIDE DEF S
  <2>1. QED
    BY <1>2, <1>5, <1>6, SetInduction
<1>8. Encodes(after[size], data, back)
  BY <1>2, <1>7
<1>9. \A p \in D : after[size].left[p] = back
  <2>1. \A i \in 1..size : after[size].left[order[i]] = back
    BY <1>2, <1>7
  <2> HIDE DEF order, size
  <2>2. QED
    BY <1>2, <2>1
<1>10. QED
  BY <1>4, <1>8, <1>9

(* So a client that fills the background and then each rectangle draws the *)
(* picture.                                                                *)
LEMMA SubrectsAreDrawn ==
  ASSUME NEW w \in Nat \ {0}, NEW h \in Nat \ {0}, NEW data, NEW back,
         IsPicture(data, w, h)
  PROVE  /\ Subrects(data, back) \in Seq(Rectangles(data, back))
         /\ Drawn(Filled(data, back), Subrects(data, back)) = data
<1> DEFINE subrects == Subrects(data, back)
           D == Points(w, h)
           Hits(p) == {i \in DOMAIN subrects : Covers(subrects[i], p)}
<1>1. PICK acc : /\ subrects = acc.subrects
                 /\ Encodes(acc, data, back)
                 /\ \A p \in D : acc.left[p] = back
  BY SubrectsEncode
<1>2. DOMAIN data = D
  BY DEF IsPicture
<1> HIDE DEF subrects
<1>3. /\ subrects \in Seq(Rectangles(data, back))
      /\ \A p \in D :
           /\ \A i \in DOMAIN subrects :
                Covers(subrects[i], p) => subrects[i].colour = data[p]
           /\ data[p] # back
                => \E i \in DOMAIN subrects : Covers(subrects[i], p)
  BY <1>1, <1>2 DEF Encodes
<1>4. ASSUME NEW p \in D
      PROVE  data[p] = IF Hits(p) = {} THEN back
                       ELSE subrects[EncodingSets!Max(Hits(p))].colour
  <2>1. CASE Hits(p) = {}
    BY <1>3, <2>1
  <2>2. CASE Hits(p) # {}
    <3>1. /\ Hits(p) \in SUBSET Nat /\ Len(subrects) \in Nat
          /\ \A i \in Hits(p) : i <= Len(subrects)
      BY <1>3
    <3>2. EncodingSets!Max(Hits(p)) \in Hits(p)
      <4> HIDE DEF Hits
      <4>1. QED
        BY <2>2, <3>1, GreatestExists
    <3>3. \A i \in Hits(p) : subrects[i].colour = data[p]
      BY <1>3
    <3> HIDE DEF Hits
    <3>4. QED
      BY <2>2, <3>2, <3>3
  <2>3. QED
    BY <2>1, <2>2
<1>5. Drawn(Filled(data, back), subrects)
      = [p \in D |-> IF Hits(p) = {} THEN back
                     ELSE subrects[EncodingSets!Max(Hits(p))].colour]
  BY <1>2 DEF Drawn, Filled, Covers
<1> HIDE DEF Hits
<1>6. Drawn(Filled(data, back), subrects) = [p \in D |-> data[p]]
  BY <1>4, <1>5
<1>7. data = [p \in D |-> data[p]]
  BY DEF IsPicture
<1>8. QED
  BY <1>3, <1>6, <1>7 DEF subrects

-----------------------------------------------------------------------------
(* A picture of Pictures has a width, a height and colours. *)
LEMMA PictureHasSize ==
  ASSUME NEW data \in Pictures
  PROVE  \E w, h \in Nat \ {0} :
           /\ IsPicture(data, w, h)
           /\ \A p \in Points(w, h) : data[p] \in PixelColours
<1>1. PICK s \in Tiles : data \in [Points(s[1], s[2]) -> s[3]]
  BY DEF Pictures
<1>2. s[1] \in Nat \ {0} /\ s[2] \in Nat \ {0} /\ s[3] \in SUBSET PixelColours
  BY EncodingAssumption
<1>3. \A p \in Points(s[1], s[2]) : data[p] \in PixelColours
  BY <1>1, <1>2
<1>4. IsPicture(data, s[1], s[2])
  BY <1>1 DEF IsPicture
<1>5. QED
  BY <1>2, <1>3, <1>4

(* testColours() says what colours there are. *)
LEMMA TestedColours ==
  ASSUME NEW w \in Nat \ {0}, NEW h \in Nat \ {0},
         NEW data, IsPicture(data, w, h),
         \A p \in Points(w, h) : data[p] \in PixelColours
  PROVE  LET t == TestColours(data) IN
         /\ t.solid \in BOOLEAN /\ t.mono \in BOOLEAN
         /\ t.solid => t.mono /\ \A p \in Points(w, h) : data[p] = t.bg
         /\ t.mono => \A p \in Points(w, h) : data[p] \in {t.bg, t.fg}
<1>1. DOMAIN data = Points(w, h)
  BY DEF IsPicture
<1>2. Len(RowOrder(data)) > 0
  BY <1>1, RowsReachAll
<1>3. /\ Len(RowOrder(data)) \in Nat
      /\ DOMAIN RowOrder(data) = 1..Len(RowOrder(data))
      /\ \A i \in DOMAIN RowOrder(data) : RowOrder(data)[i] \in Points(w, h)
      /\ \A p \in Points(w, h) :
           \E i \in DOMAIN RowOrder(data) : RowOrder(data)[i] = p
  BY <1>1, RowsReachAll
<1> DEFINE order == RowOrder(data)
           n == Len(order)
           c1 == data[order[1]]
           others == {i \in DOMAIN order : data[order[i]] # c1}
           c2 == IF others = {} THEN NoColour
                 ELSE data[order[EncodingSets!Min(others)]]
           third == {i \in DOMAIN order : data[order[i]] \notin {c1, c2}}
           seen == IF third = {} THEN DOMAIN order
                   ELSE 1 .. (EncodingSets!Min(third) - 1)
           With(c) == {i \in seen : data[order[i]] = c}
           count(c) ==
             EncodingSets!Quantify(seen, LAMBDA i : data[order[i]] = c)
           t == TestColours(data)
<1>4. t = [solid |-> others = {}, mono |-> third = {},
           bg |-> IF count(c1) > count(c2) THEN c1 ELSE c2,
           fg |-> IF count(c1) > count(c2) THEN c2 ELSE c1]
  BY DEF TestColours
<1> HIDE DEF order
<1>5. /\ n \in Nat /\ n > 0 /\ DOMAIN order = 1..n
      /\ \A i \in 1..n : order[i] \in Points(w, h)
      /\ \A p \in Points(w, h) : \E i \in 1..n : order[i] = p
  BY <1>3, <1>2 DEF order
<1> HIDE DEF n
<1>6. \A c : count(c) = Cardinality(With(c))
  <2>1. \A S : EncodingSets!Cardinality(S) = Cardinality(S)
    BY DEF EncodingSets!Cardinality, Cardinality
  <2>2. QED
    BY <2>1 DEF EncodingSets!Quantify
<1> HIDE DEF count
<1>7. ASSUME others = {}
      PROVE  third = {} /\ t.bg = c1 /\ \A p \in Points(w, h) : data[p] = c1
  <2>1. \A i \in 1..n : data[order[i]] = c1
    BY <1>5, <1>7
  <2>2. third = {} /\ seen = 1..n /\ c2 = NoColour
    BY <1>5, <1>7, <2>1
  <2>3. With(c1) = 1..n
    BY <2>1, <2>2
  <2>4. With(c2) = {}
    <3>1. \A i \in 1..n : data[order[i]] # NoColour
      BY <1>5, EncodingAssumption
    <3>2. QED
      BY <2>2, <3>1
  <2> HIDE DEF With, c2, c1, seen
  <2>5. count(c1) = n /\ count(c2) = 0
    <3>1. Cardinality(1..n) = n
      BY <1>5, FS_Interval
    <3>2. Cardinality({}) = 0
      BY FS_EmptySet
    <3>3. QED
      BY <1>6, <2>3, <2>4, <3>1, <3>2
  <2>6. t.bg = c1
    <3>1. count(c1) > count(c2)
      BY <1>5, <2>5
    <3> HIDE DEF t, third, others
    <3>2. QED
      BY <1>4, <3>1
  <2>7. \A p \in Points(w, h) : data[p] = c1
    BY <1>5, <2>1
  <2>8. QED
    BY <2>2, <2>6, <2>7
<1>8. ASSUME third = {}
      PROVE  \A p \in Points(w, h) : data[p] \in {t.bg, t.fg}
  <2>1. \A i \in 1..n : data[order[i]] \in {c1, c2}
    BY <1>5, <1>8
  <2> HIDE DEF c1, c2, third, others, t
  <2>2. {t.bg, t.fg} = {c1, c2}
    BY <1>4
  <2>3. QED
    BY <1>5, <2>1, <2>2
<1>9. t.solid = (others = {}) /\ t.mono = (third = {})
  <2> HIDE DEF c1, c2, third, others, t
  <2>1. QED
    BY <1>4
<1> HIDE DEF c1, c2, third, others, t
<1>10. QED
  BY <1>7, <1>8, <1>9 DEF t

-----------------------------------------------------------------------------
(* What the server believes that the client knows, the client knows. *)
EncodingIInv ==
  /\ drawnAsSent = TRUE
  /\ validBg \in BOOLEAN /\ validFg \in BOOLEAN
  /\ validBg => clientBg = bg
  /\ validFg => clientFg = fg

(* One tile: its colours are the client's when they are left out, and the  *)
(* rectangles of a tile with two colours have the foreground.              *)
LEMMA HextileIsDrawn ==
  ASSUME EncodingIInv, SendHextile
  PROVE  EncodingIInv'
<1>1. PICK m \in Hextiles : Remember(m) /\ HandleHextile(m)
  BY DEF SendHextile
<1>2. PICK data \in Pictures :
        LET t        == TestColours(data)
            subrects == IF t.solid THEN <<>> ELSE Subrects(data, t.bg)
            bytes    == IF t.mono THEN 2 ELSE 2 + BytesPerPixel
        IN m = [raw |-> TooLong(data, subrects, 1, bytes),
                mono |-> ~t.solid /\ t.mono, coloured |-> ~t.mono,
                bg |-> t.bg, fg |-> t.fg, subrects |-> subrects,
                pixels |-> data]
  BY DEF Hextiles
<1> DEFINE t == TestColours(data)
           subrects == IF t.solid THEN <<>> ELSE Subrects(data, t.bg)
           bytes == IF t.mono THEN 2 ELSE 2 + BytesPerPixel
           long == TooLong(data, subrects, 1, bytes)
           back == IF SendsBackground(m) THEN m.bg ELSE clientBg
           fore == IF SendsForeground(m) THEN m.fg ELSE clientFg
           list == [i \in DOMAIN m.subrects |->
                      IF m.coloured THEN m.subrects[i]
                      ELSE [m.subrects[i] EXCEPT !.colour = fore]]
<1>3. m = [raw |-> long, mono |-> ~t.solid /\ t.mono, coloured |-> ~t.mono,
           bg |-> t.bg, fg |-> t.fg, subrects |-> subrects, pixels |-> data]
  BY <1>2
<1>4. PICK w \in Nat \ {0}, h \in Nat \ {0} :
        /\ IsPicture(data, w, h)
        /\ \A p \in Points(w, h) : data[p] \in PixelColours
  BY PictureHasSize
<1>5. /\ t.solid \in BOOLEAN /\ t.mono \in BOOLEAN
      /\ t.solid => t.mono /\ \A p \in Points(w, h) : data[p] = t.bg
      /\ t.mono => \A p \in Points(w, h) : data[p] \in {t.bg, t.fg}
  BY <1>4, TestedColours
<1> HIDE DEF t
<1>6. /\ Subrects(data, t.bg) \in Seq(Rectangles(data, t.bg))
      /\ Drawn(Filled(data, t.bg), Subrects(data, t.bg)) = data
  BY <1>4, SubrectsAreDrawn
<1>7. /\ m.raw = long /\ m.mono = (~t.solid /\ t.mono) /\ m.coloured = ~t.mono
      /\ m.bg = t.bg /\ m.fg = t.fg /\ m.subrects = subrects /\ m.pixels = data
  <2> HIDE DEF subrects, long
  <2>1. QED
    BY <1>3
<1> HIDE DEF back, fore, list, long, subrects
<1>8. /\ drawnAsSent' = IF m.raw THEN TRUE
                        ELSE Drawn(Filled(data, back), list) = data
      /\ ~m.raw => /\ clientBg' = back
                   /\ clientFg' = IF list = <<>> THEN fore
                                  ELSE EncodingSeqs!Last(list).colour
  BY <1>1, <1>7 DEF HandleHextile, back, fore, list
<1>9. /\ bg' = m.bg /\ fg' = (IF SendsForeground(m) THEN m.fg ELSE fg)
      /\ validBg' = ~m.raw
  BY <1>1 DEF Remember
<1>10. /\ m.raw => validFg' = FALSE
       /\ ~m.raw /\ m.coloured => validFg' = FALSE
       /\ ~m.raw /\ ~m.coloured => validFg' = (validFg \/ SendsForeground(m))
  <2>1. validFg' = CASE m.raw -> FALSE
                     [] m.coloured -> FALSE
                     [] OTHER -> validFg \/ SendsForeground(m)
    BY <1>1 DEF Remember, AfterColoured
  <2>2. m.raw => validFg' = FALSE
    BY <2>1
  <2>3. ~m.raw /\ m.coloured => validFg' = FALSE
    BY <2>1
  <2>4. ~m.raw /\ ~m.coloured => validFg' = (validFg \/ SendsForeground(m))
    BY <2>1
  <2>5. QED
    BY <2>2, <2>3, <2>4
<1>11. m.raw \in BOOLEAN /\ m.coloured \in BOOLEAN
  BY <1>5, <1>7 DEF long, TooLong
<1>12. CASE m.raw
  <2>1. drawnAsSent' = TRUE /\ validBg' = FALSE /\ validFg' = FALSE
    <3>1. drawnAsSent' = TRUE
      BY <1>8, <1>12
    <3>2. validBg' = FALSE
      BY <1>9, <1>12
    <3>3. QED
      BY <1>12, <1>10, <3>1, <3>2
  <2>2. QED
    BY <2>1 DEF EncodingIInv
<1>13. CASE ~m.raw
  <2>1. back = m.bg
    BY DEF back, SendsBackground, EncodingIInv
  <2>2. clientBg' = bg'
    BY <1>8, <1>9, <1>13, <2>1
  <2>3. ASSUME m.coloured
        PROVE  drawnAsSent' = TRUE /\ validFg' = FALSE
    <3>1. ~t.mono /\ ~t.solid
      BY <1>5, <1>7, <2>3
    <3>2. m.subrects = Subrects(data, t.bg)
      BY <1>7, <3>1 DEF subrects
    <3>3. list = [i \in DOMAIN m.subrects |-> m.subrects[i]]
      BY <2>3 DEF list
    <3>4. list = Subrects(data, t.bg)
      BY <1>6, <3>2, <3>3
    <3>5. validFg' = FALSE
      BY <1>13, <1>10, <2>3
    <3>6. QED
      BY <1>6, <1>7, <1>8, <1>13, <2>1, <3>4, <3>5
  <2>4. ASSUME ~m.coloured
        PROVE  /\ drawnAsSent' = TRUE
               /\ validFg' \in BOOLEAN
               /\ validFg' => clientFg' = fg'
    <3>1. t.mono
      BY <1>5, <1>7, <2>4
    <3>2. validFg' = (validFg \/ SendsForeground(m))
      BY <1>13, <1>10, <2>4
    <3>3. ASSUME t.solid PROVE /\ list = <<>>
                               /\ Drawn(Filled(data, back), list) = data
      <4>1. m.subrects = <<>>
        BY <1>7, <3>3 DEF subrects
      <4>2. list = <<>>
        BY <4>1 DEF list
      <4>3. \A p \in Points(w, h) : data[p] = back
        BY <1>5, <1>7, <2>1, <3>3
      <4>4. Drawn(Filled(data, back), list) = [p \in DOMAIN data |-> back]
        <5>1. DOMAIN list = {}
          BY <4>2
        <5>2. QED
          BY <5>1 DEF Drawn, Filled
      <4>5. data = [p \in Points(w, h) |-> data[p]]
        BY <1>4 DEF IsPicture
      <4>6. DOMAIN data = Points(w, h)
        BY <1>4 DEF IsPicture
      <4>7. QED
        BY <4>2, <4>3, <4>4, <4>5, <4>6
    <3>4. ASSUME ~t.solid
          PROVE  m.mono /\ fore = m.fg /\ list = Subrects(data, t.bg)
      <4>1. m.mono /\ m.subrects = Subrects(data, t.bg)
        BY <1>5, <1>7, <3>1, <3>4 DEF subrects
      <4>2. fore = m.fg
        BY <4>1 DEF fore, SendsForeground, EncodingIInv
      <4>3. ASSUME NEW r \in Rectangles(data, t.bg)
            PROVE  [r EXCEPT !.colour = fore] = r
        <5>1. r.colour \in {t.bg, t.fg} /\ r.colour # t.bg
          <6>1. DOMAIN data = Points(w, h)
            BY <1>4 DEF IsPicture
          <6>2. PICK p \in Points(w, h) : r.colour = data[p] /\ data[p] # t.bg
            BY <6>1 DEF Rectangles
          <6>3. QED
            BY <1>5, <3>1, <6>2
        <5>2. r.colour = fore
          BY <1>7, <4>2, <5>1
        <5>3. QED
          BY <5>2 DEF Rectangles
      <4>4. list = [i \in DOMAIN m.subrects |->
                     [m.subrects[i] EXCEPT !.colour = fore]]
        BY <2>4 DEF list
      <4>5. \A i \in DOMAIN m.subrects :
              [m.subrects[i] EXCEPT !.colour = fore] = m.subrects[i]
        BY <1>6, <4>1, <4>3
      <4>6. list = [i \in DOMAIN m.subrects |-> m.subrects[i]]
        BY <4>4, <4>5
      <4>7. list = Subrects(data, t.bg)
        BY <1>6, <4>1, <4>6
      <4>8. QED
        BY <4>1, <4>2, <4>7
    <3>5. drawnAsSent' = TRUE
      <4>1. Drawn(Filled(data, back), list) = data
        BY <1>6, <1>7, <2>1, <3>3, <3>4
      <4>2. QED
        BY <1>8, <1>13, <4>1
    <3>6. clientFg' = fore
      <4>1. CASE list = <<>>
        BY <1>8, <1>13, <4>1
      <4>2. CASE list # <<>>
        <5>1. ~t.solid
          BY <3>3, <4>2
        <5>2. Len(list) \in 1..Len(list) /\ DOMAIN list = 1..Len(list)
          BY <1>6, <3>4, <4>2, <5>1
        <5>3. list[Len(list)].colour = fore
          <6>1. list \in Seq(Rectangles(data, t.bg)) /\ list = m.subrects
            BY <1>6, <1>7, <3>4, <5>1 DEF subrects
          <6>2. list[Len(list)] \in Rectangles(data, t.bg)
            BY <5>2, <6>1
          <6>3. list[Len(list)]
                = [m.subrects[Len(list)] EXCEPT !.colour = fore]
            BY <2>4, <5>2, <6>1 DEF list
          <6> DEFINE r == list[Len(list)]
          <6>4. r \in Rectangles(data, t.bg) /\ r = [r EXCEPT !.colour = fore]
            BY <6>1, <6>2, <6>3
          <6> HIDE DEF r
          <6>5. r.colour = fore
            BY <6>4 DEF Rectangles
          <6>6. QED
            BY <6>5 DEF r
        <5>4. QED
          BY <1>8, <1>13, <4>2, <5>3 DEF EncodingSeqs!Last
      <4>3. QED
        BY <4>1, <4>2
    <3>7. validFg' \in BOOLEAN
      BY <3>2
    <3>8. ASSUME validFg' PROVE clientFg' = fg'
      <4>1. CASE SendsForeground(m)
        BY <1>9, <3>6, <4>1 DEF fore
      <4>2. CASE ~SendsForeground(m)
        BY <1>9, <3>2, <3>6, <3>8, <4>2 DEF fore, EncodingIInv
      <4>3. QED
        BY <4>1, <4>2
    <3>9. QED
      BY <3>5, <3>7, <3>8
  <2>5. validBg' \in BOOLEAN
    BY <1>9, <1>11
  <2>6. QED
    BY <1>11, <2>2, <2>3, <2>4, <2>5 DEF EncodingIInv
<1>14. QED
  BY <1>11, <1>12, <1>13

(* Every tile that was sent is drawn as it was, whatever colours the tiles *)
(* before it left on either side: the server never leaves out a colour     *)
(* that the client does not have.                                          *)
THEOREM EncodingsAreDrawn == EncodingSpec => []DecodedIsEncoded
<1>1. EncodingInit => EncodingIInv
  BY DEF EncodingInit, HextileInit, EncodingIInv
<1>2. ASSUME EncodingIInv, [EncodingNext]_encodingState PROVE EncodingIInv'
  <2>1. ASSUME NEW coordinates, DrawsAll(coordinates) PROVE EncodingIInv'
    <3>1. PICK data \in Pictures :
            \E back \in BgColours(data) :
              drawnAsSent' =
                (\/ TooLong(data, Subrects(data, back), BytesPerPixel,
                            BytesPerPixel + coordinates)
                 \/ Drawn(Filled(data, back), Subrects(data, back)) = data)
      BY <2>1 DEF DrawsAll
    <3>2. PICK w \in Nat \ {0}, h \in Nat \ {0} : IsPicture(data, w, h)
      BY PictureHasSize
    <3>3. \A back : Drawn(Filled(data, back), Subrects(data, back)) = data
      BY <3>2, SubrectsAreDrawn
    <3>4. drawnAsSent' = TRUE
      BY <3>1, <3>3
    <3>5. UNCHANGED <<bg, fg, validBg, validFg, clientBg, clientFg>>
      BY <2>1 DEF DrawsAll, encoderVars
    <3>6. QED
      BY <1>2, <3>4, <3>5 DEF EncodingIInv
  <2>2. ASSUME NextRectangle PROVE EncodingIInv'
    BY <1>2, <2>2 DEF NextRectangle, EncodingIInv
  <2>3. ASSUME UNCHANGED encodingState PROVE EncodingIInv'
    BY <1>2, <2>3 DEF encodingState, encoderVars, EncodingIInv
  <2>4. QED
    BY <1>2, <2>1, <2>2, <2>3, HextileIsDrawn
       DEF EncodingNext, SendRRE, SendCoRRE
<1>3. EncodingIInv => DecodedIsEncoded
  BY DEF EncodingIInv, DecodedIsEncoded
<1>4. QED
  BY <1>1, <1>2, <1>3, PTL DEF EncodingSpec

-----------------------------------------------------------------------------
(***************************************************************************)
(* RfbTight.                                                               *)
(***************************************************************************)

(* The least number of a set. *)
LEMMA LeastOfSet ==
  ASSUME NEW S \in SUBSET Nat, S # {}
  PROVE  TightSets!Min(S) \in S /\ \A y \in S : TightSets!Min(S) <= y
BY LeastExists DEF TightSets!Min, EncodingSets!Min

IsPlace(i, x, y, w, h) == i \in 1..(w * h) /\ XOf(i, w) = x /\ YOf(i, w) = y

(* The place of the point of column x and row y, ... *)
LEMMA PlaceOfPoint ==
  ASSUME NEW w \in Nat \ {0}, NEW h \in Nat \ {0},
         NEW x \in 0..(w - 1), NEW y \in 0..(h - 1),
         NEW i, i = y * w + x + 1
  PROVE  IsPlace(i, x, y, w, h)
<1>1. /\ y * w + x + 1 \in 1..(w * h)
      /\ ((y * w + x + 1) - 1) % w = x /\ ((y * w + x + 1) - 1) \div w = y
  BY PlaceOfCell
<1>2. QED
  BY <1>1, Zenon DEF XOf, YOf, IsPlace

(* ... and the point of a place. *)
LEMMA PointOfPlace ==
  ASSUME NEW w \in Nat \ {0}, NEW h \in Nat \ {0}, NEW i \in 1..(w * h)
  PROVE  /\ XOf(i, w) \in 0..(w - 1) /\ YOf(i, w) \in 0..(h - 1)
         /\ i = YOf(i, w) * w + XOf(i, w) + 1
BY CellOfPlace, Zenon DEF XOf, YOf

(* A rectangle that DetectSmoothImage() looks at has pixels to look at. *)
LEMMA SomePixelIsSampled ==
  ASSUME NEW w \in Nat \ {0}, NEW h \in Nat \ {0},
         w >= DETECT_MIN_WIDTH
  PROVE  SampledPixels(w, h) # {}
<1> DEFINE corners == IF w > h THEN {<<k * h, 0>> : k \in 0..((w - 1) \div h)}
                      ELSE {<<0, k * w>> : k \in 0..((h - 1) \div w)}
           diagonal(c) == {d \in 0..(h - 1) :
                             d < h - c[2]
                               /\ d < w - c[1] - DETECT_SUBROW_WIDTH}
           near(c) == {<<c[1] + d + dx, c[2] + d>> :
                         d \in diagonal(c), dx \in 1..DETECT_SUBROW_WIDTH}
<1>1. DETECT_SUBROW_WIDTH \in Nat \ {0} /\ w >= DETECT_SUBROW_WIDTH + 1
  BY TightAssumption
<1>2. <<0, 0>> \in corners
  <2>1. w - 1 \in Nat /\ h - 1 \in Nat
    OBVIOUS
  <2>2. (w - 1) \div h \in Nat /\ (h - 1) \div w \in Nat
    BY <2>1, Division
  <2>3. 0 \in 0..((w - 1) \div h) /\ 0 \in 0..((h - 1) \div w)
    BY <2>2
  <2>4. 0 * h = 0 /\ 0 * w = 0
    OBVIOUS
  <2>5. QED
    BY <2>3, <2>4
<1> HIDE DEF corners
<1>3. 0 \in diagonal(<<0, 0>>) /\ 1 \in 1..DETECT_SUBROW_WIDTH
  BY <1>1
<1> HIDE DEF diagonal
<1>4. <<0 + 0 + 1, 0 + 0>> \in near(<<0, 0>>)
  BY <1>3
<1>5. SampledPixels(w, h) = UNION {near(c) : c \in corners}
  BY DEF SampledPixels, corners, diagonal
<1> HIDE DEF near
<1>6. QED
  BY <1>2, <1>4, <1>5

(* A length of compressed data is read as it was written. *)
LEMMA TightLengthsAreRead == LengthsAreRead
<1> SUFFICES ASSUME NEW n \in CompactLengths
             PROVE  ReadCompactLen(CompactLen(n)) = n
  BY DEF LengthsAreRead
<1> DEFINE a == Half
           q == n \div a
           r == n % a
           aa == a * a
           top == 2 * a * a * a - 1
<1>1. a \in Nat \ {0}
  BY TightAssumption
<1>2. aa \in Nat \ {0} /\ 2 * a \in Nat /\ 2 * a * a * a \in Nat
  BY <1>1
<1>3. n \in Nat /\ n < 2 * a * a * a
  BY <1>2 DEF CompactLengths
<1>4. q \in Nat /\ r \in 0..(a - 1) /\ n = q * a + r
  BY <1>1, <1>3, Division
<1>5. CASE n < a
  <2>1. CompactLen(n) = <<n>>
    BY <1>5 DEF CompactLen
  <2>2. n % a = n
    <3>1. q = 0
      <4>1. n < 1 * a
        BY <1>1, <1>3, <1>5
      <4>2. q < 1
        BY <1>1, <1>3, <4>1, QuotientIsLess
      <4>3. QED
        BY <1>4, <4>2
    <3>2. 0 * a = 0
      BY <1>1
    <3> HIDE DEF q, r
    <3>3. r = n
      BY <1>4, <3>1, <3>2
    <3>4. QED
      BY <3>3 DEF r
  <2>3. ReadCompactLen(<<n>>) = (n % a) + 0
    BY <1>5 DEF ReadCompactLen
  <2>4. QED
    BY <1>3, <2>1, <2>2, <2>3
<1>6. CASE ~(n < a) /\ n < aa
  <2>1. CompactLen(n) = <<r + a, q>>
    BY <1>6 DEF CompactLen
  <2>2. q < a
    BY <1>1, <1>3, <1>6, QuotientIsLess
  <2>3. (r + a) % a = r
    <3> HIDE DEF a, r
    <3>1. 1 * a + r = r + a /\ 1 \in Nat
      BY <1>1, <1>4
    <3>2. (1 * a + r) % a = r
      BY <1>1, <1>4, DivisionIsUnique
    <3>3. QED
      BY <3>1, <3>2
  <2>4. q % a = q
    <3>1. 0 * a + q = q /\ q \in 0..(a - 1)
      BY <1>1, <1>4, <2>2
    <3>2. QED
      BY <1>1, <3>1, DivisionIsUnique
  <2> HIDE DEF q, r
  <2>5. ~(r + a < a)
    BY <1>1, <1>4
  <2>6. ReadCompactLen(<<r + a, q>>) = ((r + a) % a) + ((q % a) * a + 0)
    BY <2>2, <2>5 DEF ReadCompactLen
  <2>7. q * a \in Nat
    BY <1>1, <1>4
  <2>8. QED
    BY <1>4, <2>1, <2>3, <2>4, <2>6, <2>7
<1>7. CASE ~(n < a) /\ ~(n < aa)
  <2> DEFINE s == q \div a
             t == q % a
  <2>1. s \in Nat /\ t \in 0..(a - 1) /\ q = s * a + t
    BY <1>1, <1>4, Division
  <2>2. n = s * aa + (t * a + r) /\ t * a + r \in 0..(aa - 1)
    <3> HIDE DEF q, r, s, t
    <3>1. q * a = s * aa + t * a
      BY <1>1, <2>1
    <3>2. s * aa \in Nat /\ t * a \in Nat
      BY <1>1, <1>2, <2>1
    <3>3. n = s * aa + (t * a + r)
      BY <1>4, <3>1, <3>2
    <3>4. t * a <= (a - 1) * a
      BY <1>1, <2>1, LargerProduct
    <3>5. (a - 1) * a = aa - a
      BY <1>1
    <3>6. QED
      BY <1>1, <1>2, <1>4, <3>2, <3>3, <3>4, <3>5
  <2>3. n \div aa = s
    BY <1>2, <2>1, <2>2, DivisionIsUnique
  <2>4. s < 2 * a
    <3>1. n < (2 * a) * aa
      BY <1>1, <1>3
    <3>2. QED
      BY <1>2, <1>3, <2>3, <3>1, QuotientIsLess
  <2>5. s % (2 * a) = s
    <3>1. 0 * (2 * a) + s = s /\ s \in 0..(2 * a - 1) /\ 2 * a \in Nat \ {0}
      BY <1>1, <2>1, <2>4
    <3>2. QED
      BY <3>1, DivisionIsUnique
  <2>6. CompactLen(n) = <<r + a, t + a, s>>
    BY <1>7, <2>3, <2>5 DEF CompactLen
  <2>7. (r + a) % a = r /\ (t + a) % a = t
    <3> HIDE DEF r, t
    <3> HIDE DEF a
    <3>1. 1 * a + r = r + a /\ 1 * a + t = t + a /\ 1 \in Nat
      BY <1>1, <1>4, <2>1
    <3>2. (1 * a + r) % a = r
      BY <1>1, <1>4, DivisionIsUnique
    <3>3. (1 * a + t) % a = t
      BY <1>1, <2>1, DivisionIsUnique
    <3>4. QED
      BY <3>1, <3>2, <3>3
  <2> HIDE DEF q, r, s, t
  <2>8. ~(r + a < a) /\ ~(t + a < a)
    BY <1>1, <1>4, <2>1
  <2>9. ReadCompactLen(<<r + a, t + a, s>>)
          = ((r + a) % a) + (((t + a) % a) * a + s * a * a)
    BY <2>8 DEF ReadCompactLen
  <2>10. s * a * a = s * aa /\ s * aa \in Nat /\ t * a \in Nat
    BY <1>1, <2>1
  <2> HIDE DEF aa
  <2>11. QED
    BY <1>4, <2>2, <2>6, <2>7, <2>9, <2>10
<1>8. QED
  BY <1>5, <1>6, <1>7

-----------------------------------------------------------------------------
(* The palette. *)

IsList(list) == Len(list) \in Nat /\ DOMAIN list = 1..Len(list)

Colours(palette) == {palette[i].rgb : i \in DOMAIN palette}

(* A function of the numbers up to n is a list. *)
LEMMA ListOf ==
  ASSUME NEW n \in Nat, NEW f, f = [i \in 1..n |-> f[i]]
  PROVE  IsList(f) /\ Len(f) = n
BY DEF IsList

(* A colour that is put into a palette is then one of its colours, and the *)
(* others stay.                                                            *)
LEMMA InsertKeepsColours ==
  ASSUME NEW palette, IsList(palette), NEW rgb, NEW n
  PROVE  /\ IsList(PaletteInsert(palette, rgb, n))
         /\ Colours(palette) \cup {rgb}
              \subseteq Colours(PaletteInsert(palette, rgb, n))
<1> DEFINE old   == {i \in DOMAIN palette : palette[i].rgb = rgb}
           place == IF old = {} THEN Len(palette) + 1 ELSE TightSets!Min(old)
           count == n + (IF old = {} THEN 0 ELSE palette[place].n)
           tops  == {i \in 1..place :
                       \A k \in i..(place - 1) : palette[k].n < count}
           top   == TightSets!Min(tops)
           size  == IF old = {} THEN Len(palette) + 1 ELSE Len(palette)
           new   == PaletteInsert(palette, rgb, n)
<1>1. Len(palette) \in Nat /\ DOMAIN palette = 1..Len(palette)
  BY DEF IsList
<1>2. /\ place \in 1..size /\ size \in Nat /\ size >= Len(palette)
      /\ size > Len(palette) => place = size
      /\ place \in DOMAIN palette => palette[place].rgb = rgb
  <2>1. CASE old = {}
    BY <1>1, <2>1
  <2>2. CASE old # {}
    <3>1. old \in SUBSET Nat
      BY <1>1
    <3>2. TightSets!Min(old) \in old
      BY <2>2, <3>1, LeastOfSet
    <3>3. QED
      BY <1>1, <2>2, <3>2
  <2>3. QED
    BY <2>1, <2>2
<1> HIDE DEF place, count, size
<1>3. top \in tops
  <2>1. place \in tops
    BY <1>2
  <2>2. tops \in SUBSET Nat
    BY <1>2
  <2>3. QED
    BY <2>1, <2>2, LeastOfSet
<1>4. top \in 1..place
  BY <1>3
<1>5. new = [i \in 1..size |->
               IF i = top THEN [rgb |-> rgb, n |-> count]
               ELSE IF i \in (top + 1)..place THEN palette[i - 1]
               ELSE palette[i]]
  BY DEF PaletteInsert, place, count, size
<1> HIDE DEF top, tops, new
<1>6. IsList(new) /\ DOMAIN new = 1..size
  <2>1. new = [i \in 1..size |-> new[i]]
    BY <1>5
  <2>2. QED
    BY <1>2, <2>1, <1>5, ListOf
<1>7. rgb \in Colours(new)
  <2>1. top \in 1..size
    BY <1>2, <1>4
  <2>2. new[top].rgb = rgb
    BY <1>5, <2>1
  <2>3. QED
    BY <1>6, <2>1, <2>2 DEF Colours
<1>8. ASSUME NEW j \in DOMAIN palette
      PROVE  palette[j].rgb \in Colours(new)
  <2>1. j \in 1..size /\ j \in 1..Len(palette)
    BY <1>1, <1>2
  <2>2. CASE j = place
    BY <1>2, <1>7, <2>2
  <2>3. CASE j \in top..(place - 1)
    <3>1. j + 1 \in 1..size /\ j + 1 # top /\ j + 1 \in (top + 1)..place
          /\ (j + 1) - 1 = j
      BY <1>2, <1>4, <2>1, <2>3
    <3>2. new[j + 1] = palette[j]
      BY <1>5, <3>1
    <3>3. QED
      BY <1>6, <3>1, <3>2 DEF Colours
  <2>4. CASE j # place /\ j \notin top..(place - 1)
    <3>1. j # top /\ j \notin (top + 1)..place
      BY <1>2, <1>4, <2>1, <2>4
    <3>2. new[j] = palette[j]
      BY <1>5, <2>1, <3>1
    <3>3. QED
      BY <1>6, <2>1, <3>2 DEF Colours
  <2>5. QED
    BY <2>2, <2>3, <2>4
<1>9. QED
  <2>1. Colours(palette) \subseteq Colours(new)
    BY <1>8 DEF Colours
  <2>2. QED
    BY <1>6, <1>7, <2>1 DEF new

(* FillPalette##bpp() from the third colour on is a sequence of steps, ... *)
Fills(after, px, third, start, max) ==
  after = [i \in 0..Len(px) |->
             IF i < third THEN [palette |-> start, full |-> FALSE]
             ELSE FillWith(after[i - 1], px, third, max, i)]

(* ... which there is, ... *)
LEMMA FillsExist ==
  ASSUME NEW px, NEW third \in Nat \ {0}, NEW start, NEW max, Len(px) \in Nat
  PROVE  \E after : Fills(after, px, third, start, max)
<1> DEFINE Step(f, i) ==
             IF i < third THEN [palette |-> start, full |-> FALSE]
             ELSE FillWith(f[i - 1], px, third, max, i)
           S == {n \in Nat : \E f : f = [i \in 0..n |-> Step(f, i)]}
<1>1. 0 \in S
  <2> DEFINE f == [i \in 0..0 |-> [palette |-> start, full |-> FALSE]]
  <2>1. f = [i \in 0..0 |-> Step(f, i)]
    OBVIOUS
  <2> HIDE DEF f
  <2>2. QED
    BY <2>1
<1>2. ASSUME NEW n \in Nat, n \in S PROVE n + 1 \in S
  <2>1. PICK f : f = [i \in 0..n |-> Step(f, i)]
    BY <1>2
  <2> DEFINE last == IF n + 1 < third
                     THEN [palette |-> start, full |-> FALSE]
                     ELSE FillWith(f[n], px, third, max, n + 1)
             g == [i \in 0..(n + 1) |-> IF i = n + 1 THEN last ELSE f[i]]
  <2>2. ASSUME NEW i \in 0..(n + 1) PROVE g[i] = Step(g, i)
    <3>1. CASE i = n + 1
      BY <3>1
    <3>2. CASE i # n + 1
      <4>1. i \in 0..n /\ g[i] = f[i]
        BY <3>2
      <4>2. f[i] = Step(f, i)
        <5> HIDE DEF Step
        <5>1. QED
          BY <2>1, <4>1
      <4>3. ~(i < third) => g[i - 1] = f[i - 1]
        BY <3>2
      <4>4. QED
        BY <4>1, <4>2, <4>3
    <3>3. QED
      BY <3>1, <3>2
  <2>3. g = [i \in 0..(n + 1) |-> g[i]]
    OBVIOUS
  <2> HIDE DEF g
  <2>4. g = [i \in 0..(n + 1) |-> Step(g, i)]
    BY <2>2, <2>3
  <2>5. QED
    BY <2>4
<1>3. Len(px) \in S
  <2> HIDE DEF S
  <2>1. QED
    BY <1>1, <1>2, SetInduction
<1>4. QED
  BY <1>3 DEF Fills

(* The palette of a step that has not overflowed has the colours of the    *)
(* pixels so far, but for the run that the step is in.                     *)
FilledTo(acc, px, i) ==
  /\ \E p, b : acc = [palette |-> p, full |-> b] /\ b \in BOOLEAN
  /\ ~acc.full =>
       /\ IsList(acc.palette)
       /\ \A j \in 1..i : \/ px[j] \in Colours(acc.palette)
                          \/ ~RunEnds(px, i) /\ px[j] = px[i]

(* ... and each of whose steps keeps this. *)
LEMMA StepCovers ==
  ASSUME NEW n \in Nat, NEW S, NEW px \in [1..n -> S], NEW third \in 1..n,
         NEW max, NEW acc, NEW i \in 1..n, third <= i, FilledTo(acc, px, i - 1)
  PROVE  FilledTo(FillWith(acc, px, third, max, i), px, i)
<1> DEFINE new == FillWith(acc, px, third, max, i)
           run == LengthOfRun(px, third, i)
<1>1. PICK p, b : acc = [palette |-> p, full |-> b] /\ b \in BOOLEAN
  BY DEF FilledTo
<1>2. acc.palette = p /\ acc.full = b
  BY <1>1
<1>3. ASSUME ~b, NEW j \in 1..(i - 1), px[j] \notin Colours(p)
      PROVE  px[j] = px[i]
  <2>1. ~RunEnds(px, i - 1) /\ px[j] = px[i - 1]
    BY <1>2, <1>3 DEF FilledTo
  <2>2. px[(i - 1) + 1] = px[i - 1]
    BY <2>1 DEF RunEnds
  <2>3. QED
    BY <2>1, <2>2
<1>4. CASE b
  <2>1. new = acc
    BY <1>2, <1>4 DEF FillWith
  <2>2. QED
    BY <1>1, <1>2, <1>4, <2>1 DEF FilledTo
<1>5. CASE ~b /\ ~RunEnds(px, i)
  <2>1. new = acc
    BY <1>5 DEF FillWith
  <2>2. IsList(p)
    BY <1>2, <1>5 DEF FilledTo
  <2>3. ASSUME NEW j \in 1..i, px[j] \notin Colours(p) PROVE px[j] = px[i]
    BY <1>3, <1>5, <2>3
  <2>4. QED
    BY <1>1, <1>2, <1>5, <2>1, <2>2, <2>3 DEF FilledTo
<1>6. CASE ~b /\ RunEnds(px, i) /\ PaletteFull(p, px[i], max)
  <2>1. new = [acc EXCEPT !.full = TRUE]
    BY <1>2, <1>6 DEF FillWith
  <2>2. new = [palette |-> p, full |-> TRUE]
    BY <1>1, <2>1
  <2>3. new.full = TRUE
    BY <2>2
  <2>4. QED
    BY <2>2, <2>3 DEF FilledTo
<1>7. CASE ~b /\ RunEnds(px, i) /\ ~PaletteFull(p, px[i], max)
  <2> DEFINE q == PaletteInsert(p, px[i], run)
  <2>1. new = [acc EXCEPT !.palette = PaletteInsert(@, px[i], run)]
    BY <1>2, <1>7 DEF FillWith
  <2>2. new = [palette |-> q, full |-> b]
    BY <1>1, <2>1
  <2>3. IsList(p)
    BY <1>2, <1>7 DEF FilledTo
  <2>4. IsList(q) /\ Colours(p) \cup {px[i]} \subseteq Colours(q)
    BY <2>3, InsertKeepsColours
  <2> HIDE DEF q
  <2>5. ASSUME NEW j \in 1..i PROVE px[j] \in Colours(q)
    BY <1>3, <1>7, <2>4
  <2>6. new.palette = q /\ new.full = b
    BY <2>2
  <2>7. QED
    BY <1>1, <2>2, <2>4, <2>5, <2>6 DEF FilledTo
<1>8. QED
  BY <1>4, <1>5, <1>6, <1>7

(* Every pixel is in a palette that does not overflow. *)
HasColours(palette, px) ==
  /\ IsList(palette)
  /\ palette # <<>> =>
       \A j \in DOMAIN px : \E k \in DOMAIN palette : palette[k] = px[j]

(* The palette of all steps has every colour. *)
LEMMA ThirdsAreFilled ==
  ASSUME NEW n \in Nat, NEW S, NEW px \in [1..n -> S], NEW third \in 1..n,
         NEW start, NEW max, IsList(start),
         \A j \in 1..(third - 1) : px[j] \in Colours(start)
  PROVE  HasColours(FillFromThird(px, third, start, max), px)
<1>1. Len(px) = n /\ DOMAIN px = 1..n
  <2>1. px = [j \in 1..n |-> px[j]]
    OBVIOUS
  <2>2. QED
    BY <2>1, ListOf
<1>2. \E f : Fills(f, px, third, start, max)
  BY <1>1, FillsExist
<1> DEFINE after == CHOOSE f : Fills(f, px, third, start, max)
           filled == after[Len(px)]
<1>3. Fills(after, px, third, start, max)
  BY <1>2
<1>4. FillFromThird(px, third, start, max)
        = IF filled.full THEN <<>>
          ELSE [i \in DOMAIN filled.palette |-> filled.palette[i].rgb]
  BY DEF FillFromThird, Fills
<1> HIDE DEF after
<1>5. ASSUME NEW i \in 0..n
      PROVE  after[i] = IF i < third THEN [palette |-> start, full |-> FALSE]
                        ELSE FillWith(after[i - 1], px, third, max, i)
  BY <1>1, <1>3 DEF Fills
<1> DEFINE T == {i \in Nat : i <= n => FilledTo(after[i], px, i)}
<1>6. ASSUME NEW i \in 0..n, i < third PROVE FilledTo(after[i], px, i)
  <2>1. after[i] = [palette |-> start, full |-> FALSE]
    BY <1>5, <1>6
  <2>2. after[i].palette = start /\ after[i].full = FALSE
    BY <2>1
  <2>3. \A j \in 1..i : px[j] \in Colours(start)
    BY <1>6
  <2>4. QED
    BY <2>1, <2>2, <2>3 DEF FilledTo
<1>7. 0 \in T
  <2>1. 0 \in 0..n /\ 0 < third
    OBVIOUS
  <2>2. FilledTo(after[0], px, 0)
    BY <1>6, <2>1
  <2>3. QED
    BY <2>2
<1>8. ASSUME NEW i \in Nat, i \in T PROVE i + 1 \in T
  <2>1. SUFFICES ASSUME i + 1 <= n PROVE FilledTo(after[i + 1], px, i + 1)
    OBVIOUS
  <2>2. i + 1 \in 0..n /\ i + 1 \in 1..n /\ (i + 1) - 1 = i
    BY <2>1
  <2>3. FilledTo(after[i], px, i)
    BY <1>8, <2>1
  <2>4. CASE i + 1 < third
    BY <1>6, <2>2, <2>4
  <2>5. CASE ~(i + 1 < third)
    <3>1. after[i + 1] = FillWith(after[i], px, third, max, i + 1)
      BY <1>5, <2>2, <2>5
    <3>2. third <= i + 1 /\ FilledTo(after[i], px, (i + 1) - 1)
      BY <2>2, <2>3, <2>5
    <3>3. QED
      BY <2>2, <3>1, <3>2, StepCovers
  <2>6. QED
    BY <2>4, <2>5
<1>9. FilledTo(filled, px, n)
  <2>1. n \in T
    <3> HIDE DEF T
    <3>1. QED
      BY <1>7, <1>8, SetInduction
  <2>2. QED
    BY <1>1, <2>1
<1> DEFINE colours == [i \in DOMAIN filled.palette |-> filled.palette[i].rgb]
<1>10. filled.full \in BOOLEAN
  BY <1>9 DEF FilledTo
<1> HIDE DEF filled
<1>11. CASE filled.full
  BY <1>4, <1>11 DEF HasColours, IsList
<1>12. CASE ~filled.full
  <2>1. FillFromThird(px, third, start, max) = colours
    BY <1>4, <1>12
  <2>2. IsList(filled.palette) /\ RunEnds(px, n)
    BY <1>1, <1>9, <1>12 DEF FilledTo, RunEnds
  <2>3. \A j \in 1..n : px[j] \in Colours(filled.palette)
    BY <1>9, <1>12, <2>2 DEF FilledTo
  <2>4. IsList(colours)
    <3>1. colours = [i \in 1..Len(filled.palette) |-> colours[i]]
          /\ Len(filled.palette) \in Nat
      BY <2>2 DEF IsList
    <3> HIDE DEF colours
    <3>2. QED
      BY <3>1, ListOf
  <2>5. ASSUME NEW j \in 1..n
        PROVE  \E k \in DOMAIN colours : colours[k] = px[j]
    BY <2>3 DEF Colours
  <2> HIDE DEF colours
  <2>6. QED
    BY <1>1, <2>1, <2>4, <2>5 DEF HasColours
<1>13. QED
  BY <1>10, <1>11, <1>12

(* An image of a rectangle. *)
IsImage(image) ==
  /\ image.w \in Nat \ {0} /\ image.h \in Nat \ {0}
  /\ image.px \in [1..(image.w * image.h) -> Samples]

(* The palette of an image, if it gets one, has all of its colours. *)
LEMMA PaletteIsFilled ==
  ASSUME NEW image, IsImage(image)
  PROVE  HasColours(FillPalette(image), image.px)
<1> DEFINE px     == image.px
           n      == image.w * image.h
           max    == PaletteMaxColours(image)
           c0     == px[1]
           others == {i \in DOMAIN px : px[i] # c0}
           c1     == px[TightSets!Min(others)]
           thirds == {i \in others : px[i] # c1}
           third  == TightSets!Min(thirds)
           count(c) == TightSets!Quantify(
                         IF thirds = {} THEN DOMAIN px ELSE 1..(third - 1),
                         LAMBDA i : px[i] = c)
           n0 == count(c0)
           n1 == count(c1) - 1
           start == PaletteInsert(PaletteInsert(<<>>, c0, n0), c1, n1)
           palette == FillPalette(image)
<1>1. n \in Nat \ {0} /\ px \in [1..n -> Samples] /\ DOMAIN px = 1..n
  BY DEF IsImage
<1>2. palette = IF others = {} THEN <<c0>>
                ELSE IF max < 2 THEN <<>>
                ELSE IF thirds = {}
                THEN IF n0 > n1 THEN <<c0, c1>> ELSE <<c1, c0>>
                ELSE IF tightFormat = 1 THEN <<>>
                ELSE FillFromThird(px, third, start, max)
  BY DEF FillPalette
<1>3. ASSUME others # {}, thirds # {}
      PROVE  third \in 1..n /\ \A j \in 1..(third - 1) : px[j] \in {c0, c1}
  <2>1. thirds \in SUBSET Nat
    BY <1>1
  <2>2. third \in thirds /\ \A y \in thirds : third <= y
    BY <1>3, <2>1, LeastOfSet
  <2> HIDE DEF third, c0, c1
  <2>3. third \in 1..n
    BY <1>1, <2>2
  <2>4. ASSUME NEW j \in 1..(third - 1) PROVE px[j] \in {c0, c1}
    <3>1. j \in 1..n /\ ~(third <= j)
      BY <1>1, <2>3
    <3>2. QED
      BY <1>1, <2>2, <3>1
  <2>5. QED
    BY <2>3, <2>4
<1> HIDE DEF px, n, max, c1, third, n0, n1, palette
<1>4. CASE others = {}
  <2>1. palette = <<c0>>
    BY <1>2, <1>4
  <2>2. IsList(<<c0>>) /\ DOMAIN <<c0>> = {1} /\ <<c0>>[1] = c0
    BY DEF IsList
  <2>3. \A j \in DOMAIN px : px[j] = c0
    BY <1>4
  <2> HIDE DEF c0, others
  <2>4. QED
    BY <2>1, <2>2, <2>3 DEF HasColours, palette, px
<1>5. CASE palette = <<>>
  BY <1>5 DEF HasColours, IsList, palette
<1>6. CASE others # {} /\ thirds = {} /\ palette # <<>>
  <2> HIDE DEF c0
  <2>1. palette = <<c0, c1>> \/ palette = <<c1, c0>>
    BY <1>2, <1>6
  <2>2. IsList(palette) /\ DOMAIN palette = {1, 2}
        /\ {palette[1], palette[2]} = {c0, c1}
    BY <2>1 DEF IsList
  <2>3. \A j \in DOMAIN px : px[j] \in {c0, c1}
    BY <1>6
  <2>4. QED
    BY <2>2, <2>3 DEF HasColours, palette, px
<1>7. CASE others # {} /\ thirds # {} /\ palette # <<>>
  <2> HIDE DEF c0
  <2>1. palette = FillFromThird(px, third, start, max)
    BY <1>2, <1>7
  <2>2. IsList(start) /\ {c0, c1} \subseteq Colours(start)
    <3>1. IsList(<<>>)
      BY DEF IsList
    <3>2. IsList(PaletteInsert(<<>>, c0, n0))
          /\ c0 \in Colours(PaletteInsert(<<>>, c0, n0))
      BY <3>1, InsertKeepsColours
    <3>3. QED
      BY <3>2, InsertKeepsColours
  <2> HIDE DEF start
  <2>3. third \in 1..n /\ \A j \in 1..(third - 1) : px[j] \in Colours(start)
    BY <1>3, <1>7, <2>2
  <2>4. HasColours(FillFromThird(px, third, start, max), px)
    BY <1>1, <2>2, <2>3, ThirdsAreFilled
  <2>5. QED
    BY <2>1, <2>4 DEF palette, px
<1>8. QED
  BY <1>4, <1>5, <1>6, <1>7

-----------------------------------------------------------------------------
(* The messages. *)

(* A client reads an image in a message that is not a JPEG: it expects     *)
(* compressed data if the server compressed them, and gets the pixels.     *)
IsRead(msg, image) ==
  /\ msg.kind \in {"fill", "copy", "palette", "gradient"}
  /\ msg.stream \in Streams
  /\ msg.kind = "palette" => ~(Len(msg.palette) < 2)
  /\ msg.kind # "fill" =>
       (ExpectsChunk(msg, image.w, image.h)
          <=> ~(msg.bytes < TIGHT_MIN_TO_COMPRESS))
  /\ Decoded(msg, image.w, image.h) = image.px

(* The bytes of a row of whole bytes. *)
LEMMA WholeBytes ==
  ASSUME NEW a \in Nat
  PROVE  (a * ByteBits + ByteBits - 1) \div ByteBits = a
<1> DEFINE d == ByteBits
<1>1. d \in Nat \ {0} /\ d - 1 \in 0..(d - 1)
  BY TightAssumption
<1> HIDE DEF d
<1>2. (a * d + (d - 1)) \div d = a
  BY <1>1, DivisionIsUnique
<1>3. a * d + (d - 1) = a * d + d - 1
  <2>1. a * d \in Nat
    BY <1>1
  <2>2. QED
    BY <1>1, <2>1
<1>4. QED
  BY <1>2, <1>3 DEF d

(* The server counts the bytes of a message as the client does. *)
LEMMA BytesAreExpected ==
  ASSUME NEW msg, NEW w \in Nat \ {0}, NEW h \in Nat \ {0}, NEW row \in Nat,
         (w * BitsPixel(msg) + ByteBits - 1) \div ByteBits = row,
         msg.bytes = row * h
  PROVE  ExpectsChunk(msg, w, h) <=> ~(msg.bytes < TIGHT_MIN_TO_COMPRESS)
<1>1. h * row = row * h /\ row * h \in Nat
  OBVIOUS
<1>2. ExpectsChunk(msg, w, h) <=> row * h >= TIGHT_MIN_TO_COMPRESS
  BY <1>1 DEF ExpectsChunk
<1>3. TIGHT_MIN_TO_COMPRESS \in Nat
  BY TightAssumption
<1>4. QED
  BY <1>1, <1>2, <1>3

(* One colour. *)
LEMMA SolidIsRead ==
  ASSUME NEW image, IsImage(image), Len(FillPalette(image)) = 1
  PROVE  IsRead(SolidRect(image), image)
<1> DEFINE px == image.px
           n  == image.w * image.h
           palette == FillPalette(image)
           msg == SolidRect(image)
<1>1. n \in Nat \ {0} /\ px \in [1..n -> Samples]
  BY DEF IsImage
<1>2. HasColours(palette, px)
  BY PaletteIsFilled
<1> HIDE DEF n, px, palette
<1>3. DOMAIN palette = {1}
  BY <1>2 DEF HasColours, IsList, palette
<1>4. palette # <<>>
  BY <1>3
<1>5. ASSUME NEW j \in 1..n PROVE px[j] = px[1]
  <2>1. px[j] = palette[1]
    BY <1>1, <1>2, <1>3, <1>4 DEF HasColours
  <2>2. 1 \in 1..n
    BY <1>1
  <2>3. px[1] = palette[1]
    BY <1>1, <1>2, <1>3, <1>4, <2>2 DEF HasColours
  <2>4. QED
    BY <2>1, <2>3
<1>6. msg = [kind |-> "fill", stream |-> 0, palette |-> <<px[1]>>,
             data |-> <<>>, bytes |-> 0]
  BY DEF SolidRect, px
<1>7. msg.kind = "fill" /\ msg.stream = 0 /\ msg.palette[1] = px[1]
  BY <1>6
<1> HIDE DEF msg
<1>8. Decoded(msg, image.w, image.h) = [i \in 1..n |-> px[1]]
  BY <1>7 DEF Decoded, n
<1>9. [i \in 1..n |-> px[1]] = px
  BY <1>1, <1>5
<1>10. QED
  BY <1>7, <1>8, <1>9 DEF IsRead, Streams, msg, px

(* No filter. *)
LEMMA FullColourIsRead ==
  ASSUME NEW image, IsImage(image), tightFormat \in TightFormats
  PROVE  IsRead(FullColourRect(image), image)
<1> DEFINE w == image.w
           h == image.h
           f == tightFormat
           msg == FullColourRect(image)
<1>1. w \in Nat \ {0} /\ h \in Nat \ {0}
  BY DEF IsImage
<1>2. f \in Nat
  BY TightAssumption
<1>3. msg = [kind |-> "copy", stream |-> 0, palette |-> <<>>,
             data |-> image.px, bytes |-> w * h * f]
  BY DEF FullColourRect
<1>4. /\ msg.kind = "copy" /\ msg.stream = 0 /\ msg.data = image.px
      /\ msg.bytes = w * h * f
  BY <1>3
<1> HIDE DEF msg
<1>5. BitsPixel(msg) = f * ByteBits
  BY <1>4 DEF BitsPixel
<1>6. (w * BitsPixel(msg) + ByteBits - 1) \div ByteBits = w * f
  <2>1. w * f \in Nat /\ ByteBits \in Nat
    BY <1>1, <1>2, TightAssumption
  <2>2. w * (f * ByteBits) = (w * f) * ByteBits
    BY <1>1, <1>2, <2>1
  <2>3. QED
    BY <1>5, <2>1, <2>2, WholeBytes
<1>7. w * f \in Nat /\ w * h * f = (w * f) * h
  BY <1>1, <1>2
<1>8. ExpectsChunk(msg, w, h) <=> ~(msg.bytes < TIGHT_MIN_TO_COMPRESS)
  BY <1>1, <1>4, <1>6, <1>7, BytesAreExpected
<1>9. Decoded(msg, w, h) = image.px
  BY <1>4 DEF Decoded
<1>10. QED
  BY <1>4, <1>8, <1>9 DEF IsRead, Streams, msg

(* More than two colours: the place of the pixel's colour. *)
LEMMA IndexedIsRead ==
  ASSUME NEW image, IsImage(image), NEW palette,
         HasColours(palette, image.px), Len(palette) \notin {0, 1, 2}
  PROVE  IsRead(IndexedRect(image, palette), image)
<1> DEFINE w == image.w
           h == image.h
           px == image.px
           place(i) == CHOOSE k \in DOMAIN palette : palette[k] = px[i]
           msg == IndexedRect(image, palette)
<1>1. w \in Nat \ {0} /\ h \in Nat \ {0} /\ px \in [1..(w * h) -> Samples]
  BY DEF IsImage
<1>2. DOMAIN palette = 1..Len(palette) /\ Len(palette) \in Nat /\ palette # <<>>
  BY DEF HasColours, IsList
<1>3. ASSUME NEW i \in 1..(w * h)
      PROVE  place(i) \in DOMAIN palette /\ palette[place(i)] = px[i]
  <2>1. \E k \in DOMAIN palette : palette[k] = px[i]
    BY <1>1, <1>2 DEF HasColours
  <2>2. QED
    BY <2>1
<1>4. msg = [kind |-> "palette", stream |-> 2, palette |-> palette,
             data |-> [i \in 1..(w * h) |-> place(i) - 1], bytes |-> w * h]
  BY <1>1 DEF IndexedRect, EncodeIndexedRect
<1> HIDE DEF place
<1>5. /\ msg.kind = "palette" /\ msg.stream = 2 /\ msg.palette = palette
      /\ msg.bytes = w * h
  BY <1>4
<1>6. \A i \in 1..(w * h) : msg.data[i] = place(i) - 1
  BY <1>4
<1> HIDE DEF msg
<1>7. BitsPixel(msg) = ByteBits
  <2>1. Len(palette) # 2
    OBVIOUS
  <2>2. QED
    BY <1>5, <2>1 DEF BitsPixel, BitsOfPalette
<1>8. ExpectsChunk(msg, w, h) <=> ~(msg.bytes < TIGHT_MIN_TO_COMPRESS)
  <2> DEFINE row == (w * BitsPixel(msg) + ByteBits - 1) \div ByteBits
  <2>1. row = w
    BY <1>1, <1>7, WholeBytes
  <2> HIDE DEF row
  <2>2. row \in Nat /\ msg.bytes = row * h
    BY <1>1, <1>5, <2>1
  <2>3. w \in Nat \ {0} /\ h \in Nat \ {0}
    BY <1>1
  <2>4. row = (w * BitsPixel(msg) + ByteBits - 1) \div ByteBits
    BY DEF row
  <2> HIDE DEF w, h
  <2>5. QED
    BY <2>2, <2>3, <2>4, BytesAreExpected
<1>9. FilterPalette(msg, w, h) = [i \in 1..(w * h) |-> palette[msg.data[i] + 1]]
  <2>1. Len(msg.palette) # 2
    BY <1>5
  <2>2. QED
    BY <1>5, <2>1 DEF FilterPalette
<1>10. ASSUME NEW i \in 1..(w * h) PROVE palette[msg.data[i] + 1] = px[i]
  <2>1. place(i) \in Nat
    BY <1>2, <1>3
  <2>2. msg.data[i] + 1 = place(i)
    BY <1>6, <2>1
  <2>3. QED
    BY <1>3, <2>2
<1>11. FilterPalette(msg, w, h) = px
  BY <1>1, <1>9, <1>10
<1>12. Decoded(msg, w, h) = px
  BY <1>5, <1>11 DEF Decoded
<1>13. ~(Len(msg.palette) < 2)
  <2>1. Len(msg.palette) \in Nat /\ Len(msg.palette) \notin {0, 1, 2}
    BY <1>2, <1>5
  <2>2. \A l \in Nat : l \notin {0, 1, 2} => ~(l < 2)
    OBVIOUS
  <2>3. QED
    BY <2>1, <2>2, Zenon
<1>14. QED
  BY <1>5, <1>8, <1>12, <1>13 DEF IsRead, Streams, msg

(* The bytes of a row of bits are enough for it. *)
LEMMA BitsOfRow ==
  ASSUME NEW w \in Nat \ {0}
  PROVE  LET row == (w + ByteBits - 1) \div ByteBits
         IN  /\ row \in Nat \ {0}
             /\ \A x \in 0..(w - 1) :
                  /\ x \div ByteBits \in 0..(row - 1)
                  /\ x % ByteBits \in 0..(ByteBits - 1)
                  /\ x = (x \div ByteBits) * ByteBits + (x % ByteBits)
<1> DEFINE d == ByteBits
           row == (w + d - 1) \div d
<1>1. d \in Nat \ {0}
  BY TightAssumption
<1> HIDE DEF d
<1>2. w + d - 1 \in Nat
  BY <1>1
<1>3. row \in Nat /\ w + d - 1 = row * d + ((w + d - 1) % d)
      /\ (w + d - 1) % d \in 0..(d - 1)
  BY <1>1, <1>2, Division
<1> HIDE DEF row
<1>4. row * d \in Nat /\ w <= row * d
  BY <1>1, <1>3
<1>5. row # 0
  BY <1>1, <1>4
<1>6. ASSUME NEW x \in 0..(w - 1)
      PROVE  /\ x \div d \in 0..(row - 1) /\ x % d \in 0..(d - 1)
             /\ x = (x \div d) * d + (x % d)
  <2>1. x \in Nat /\ x < row * d
    BY <1>4
  <2>2. x \div d \in Nat /\ x % d \in 0..(d - 1) /\ x = (x \div d) * d + (x % d)
    BY <1>1, <2>1, Division
  <2>3. x \div d < row
    BY <1>1, <1>3, <2>1, QuotientIsLess
  <2>4. QED
    BY <1>3, <2>2, <2>3
<1>7. QED
  BY <1>3, <1>5, <1>6 DEF row, d

IsPair(palette) == Len(palette) = 2

(* Two colours: a bit of the byte of the pixel's column. *)
LEMMA MonoIsRead ==
  ASSUME NEW image, IsImage(image), NEW palette,
         HasColours(palette, image.px), IsPair(palette)
  PROVE  IsRead(MonoRect(image, palette), image)
<1> DEFINE w == image.w
           h == image.h
           px == image.px
           d == ByteBits
           row == (w + d - 1) \div d
           data == EncodeMonoRect(image, palette[1])
           msg == MonoRect(image, palette)
<1>1. w \in Nat \ {0} /\ h \in Nat \ {0} /\ px \in [1..(w * h) -> Samples]
  BY DEF IsImage
<1>2. DOMAIN palette = {1, 2} /\ palette # <<>>
  BY DEF HasColours, IsList, IsPair
<1>3. row \in Nat \ {0} /\ d \in Nat
  BY <1>1, BitsOfRow, TightAssumption
<1>4. data = [k \in 1..(row * h) |->
                {b \in 0..(d - 1) :
                   LET x == XOf(k, row) * d + b
                   IN  x < w /\ At(image, x, YOf(k, row)) # palette[1]}]
  BY DEF EncodeMonoRect
<1>5. Len(data) = row * h
  <2>1. row * h \in Nat
    BY <1>1, <1>3
  <2>2. data = [k \in 1..(row * h) |-> data[k]]
    BY <1>4
  <2> HIDE DEF data, row
  <2>3. QED
    BY <2>1, <2>2, ListOf
<1>6. msg = [kind |-> "palette", stream |-> 1, palette |-> palette,
             data |-> data, bytes |-> row * h]
  BY <1>5 DEF MonoRect
<1>7. /\ msg.kind = "palette" /\ msg.stream = 1 /\ msg.palette = palette
      /\ msg.bytes = row * h /\ msg.data = data
  BY <1>6
<1> HIDE DEF msg, data
<1>8. BitsPixel(msg) = 1
  BY <1>7 DEF BitsPixel, BitsOfPalette, IsPair
<1>9. ExpectsChunk(msg, w, h) <=> ~(msg.bytes < TIGHT_MIN_TO_COMPRESS)
  <2>1. w * BitsPixel(msg) = w
    BY <1>1, <1>8
  <2>2. (w * BitsPixel(msg) + ByteBits - 1) \div ByteBits = row
    BY <2>1
  <2> HIDE DEF w, h, row
  <2>3. QED
    BY <1>1, <1>3, <1>7, <2>2, BytesAreExpected
<1>10. ASSUME NEW i \in 1..(w * h)
       PROVE  palette[IF XOf(i, w) % d
                           \in data[YOf(i, w) * row + XOf(i, w) \div d + 1]
                      THEN 2 ELSE 1] = px[i]
  <2> DEFINE x == XOf(i, w)
             y == YOf(i, w)
             a == x \div d
             b == x % d
             k == y * row + a + 1
  <2>1. x \in 0..(w - 1) /\ y \in 0..(h - 1) /\ i = y * w + x + 1
    BY <1>1, PointOfPlace
  <2>2. a \in 0..(row - 1) /\ b \in 0..(d - 1) /\ x = a * d + b
    BY <1>1, <2>1, BitsOfRow
  <2> HIDE DEF row
  <2>3. k \in 1..(row * h) /\ XOf(k, row) = a /\ YOf(k, row) = y
    <3>1. a \in 0..(row - 1) /\ y \in 0..(h - 1)
          /\ row \in Nat \ {0} /\ h \in Nat \ {0}
      BY <1>1, <1>3, <2>1, <2>2
    <3> HIDE DEF a, y, h, d
    <3>2. k = y * row + a + 1
      OBVIOUS
    <3> HIDE DEF x, b, k, w, px
    <3>3. IsPlace(k, a, y, row, h)
      BY <3>1, <3>2, PlaceOfPoint
    <3>4. QED
      BY <3>3 DEF IsPlace
  <2> HIDE DEF x, y, a, b, k
  <2>4. data[k] = {c \in 0..(d - 1) :
                     a * d + c < w /\ At(image, a * d + c, y) # palette[1]}
    BY <1>4, <2>3
  <2>5. b \in data[k] <=> x < w /\ At(image, x, y) # palette[1]
    BY <2>2, <2>4
  <2>6. At(image, x, y) = px[i] /\ x < w
    BY <1>1, <2>1 DEF At
  <2>7. px[i] = palette[1] \/ px[i] = palette[2]
    BY <1>1, <1>2 DEF HasColours
  <2>8. palette[IF b \in data[k] THEN 2 ELSE 1] = px[i]
    <3>1. CASE px[i] = palette[1]
      <4>1. b \notin data[k]
        BY <2>5, <2>6, <3>1
      <4>2. QED
        BY <3>1, <4>1
    <3>2. CASE px[i] # palette[1]
      <4>1. b \in data[k]
        BY <2>5, <2>6, <3>2
      <4>2. QED
        BY <2>7, <3>2, <4>1
    <3>3. QED
      BY <3>1, <3>2
  <2>9. QED
    BY <2>8 DEF x, y, a, b, k
<1>11. FilterPalette(msg, w, h)
         = [i \in 1..(w * h) |->
              palette[IF XOf(i, w) % d
                           \in data[YOf(i, w) * row + XOf(i, w) \div d + 1]
                      THEN 2 ELSE 1]]
  BY <1>7 DEF FilterPalette, IsPair
<1>12. FilterPalette(msg, w, h) = px
  <2> HIDE DEF w, h, px, row, d
  <2>1. QED
    BY <1>1, <1>10, <1>11
<1>13. Decoded(msg, w, h) = px
  BY <1>7, <1>12 DEF Decoded
<1>14. ~(Len(msg.palette) < 2)
  <2>1. Len(msg.palette) = 2 /\ ~(2 < 2)
    BY <1>7 DEF IsPair
  <2>2. QED
    BY <2>1, Zenon
<1>15. QED
  BY <1>7, <1>9, <1>13, <1>14 DEF IsRead, Streams, msg

(* What was subtracted is added again, modulo the number of samples. *)
LEMMA DifferenceIsUndone ==
  ASSUME NEW m \in Nat \ {0}, NEW x \in 0..(m - 1), NEW p \in 0..(m - 1)
  PROVE  (x - p) % m \in 0..(m - 1) /\ (((x - p) % m) + p) % m = x
<1> DEFINE r == (x - p) % m
           k == (x - p) \div m
<1>1. r \in 0..(m - 1) /\ k \in Int /\ x - p = k * m + r
  OBVIOUS
<1> HIDE DEF r, k
<1>2. k * m \in Int
  BY <1>1
<1>3. k = 0 \/ k = -1
  <2>1. CASE k >= 1
    <3>1. k - 1 \in Nat
      BY <1>1, <2>1
    <3>2. (k - 1) * m \in Nat /\ (k - 1) * m = k * m - m
      BY <1>1, <3>1
    <3>3. QED
      BY <1>1, <1>2, <3>2
  <2>2. CASE k <= -2
    <3>1. -2 - k \in Nat
      BY <1>1, <2>2
    <3>2. (-2 - k) * m \in Nat /\ (-2 - k) * m = -2 * m - k * m
      BY <1>1, <3>1
    <3>3. QED
      BY <1>1, <1>2, <3>2
  <2>3. QED
    BY <1>1, <2>1, <2>2
<1>4. k * m = 0 \/ k * m = -m
  BY <1>3
<1>5. r + p = x \/ r + p = x + m
  BY <1>1, <1>4
<1>6. (r + p) % m = x
  <2>1. CASE r + p = x
    <3>1. 0 * m + x = x /\ (0 * m + x) % m = x
      BY DivisionIsUnique
    <3>2. QED
      BY <2>1, <3>1
  <2>2. CASE r + p = x + m
    <3>1. 1 * m + x = x + m /\ (1 * m + x) % m = x
      BY DivisionIsUnique
    <3>2. QED
      BY <2>2, <3>1
  <2>3. QED
    BY <1>5, <2>1, <2>2
<1>7. QED
  BY <1>1, <1>6 DEF r

(* The rows above a point. *)
LEMMA RowsAbove ==
  ASSUME NEW y \in Nat, NEW w \in Nat
  PROVE  /\ y * w \in Nat /\ (y - 1) * w = y * w - w
         /\ y >= 1 => (y - 1) * w \in Nat
<1>1. y * w \in Nat /\ (y - 1) * w = y * w - w
  OBVIOUS
<1>2. ASSUME y >= 1 PROVE (y - 1) * w \in Nat
  <2>1. y - 1 \in Nat
    BY <1>2
  <2>2. QED
    BY <2>1
<1>3. QED
  BY <1>1, <1>2

(* The client estimates a pixel as the server predicted it. *)
LEMMA EstimateIsPrediction ==
  ASSUME NEW image, IsImage(image), NEW i \in 1..(image.w * image.h),
         NEW before, \A j \in 1..(i - 1) : before[j] = image.px[j]
  PROVE  /\ Estimate(before, image.w, i) \in 0..MaxSample
         /\ FilterGradient(image)[i]
              = (image.px[i] - Estimate(before, image.w, i)) % (MaxSample + 1)
<1> DEFINE w == image.w
           h == image.h
           px == image.px
           x == XOf(i, w)
           y == YOf(i, w)
           left == IF x - 1 < 0 \/ y < 0 THEN 0 ELSE At(image, x - 1, y)
           up == IF x < 0 \/ y - 1 < 0 THEN 0 ELSE At(image, x, y - 1)
           corner == IF x - 1 < 0 \/ y - 1 < 0 THEN 0
                     ELSE At(image, x - 1, y - 1)
           p == left + up - corner
           prediction == IF p < 0 THEN 0
                         ELSE IF p > MaxSample THEN MaxSample ELSE p
           above == IF i > w THEN before[i - w] ELSE 0
           e == before[i - 1] + above
                  - (IF i > w THEN before[i - w - 1] ELSE 0)
<1>1. /\ w \in Nat \ {0} /\ h \in Nat \ {0} /\ px \in [1..(w * h) -> Samples]
      /\ w * h \in Nat
  BY DEF IsImage
<1>2. MaxSample \in Nat /\ Samples \subseteq 0..MaxSample
  BY TightAssumption
<1>3. FilterGradient(image)[i] = (px[i] - prediction) % (MaxSample + 1)
  <2>1. DOMAIN px = 1..(w * h)
    BY <1>1
  <2>2. QED
    BY <2>1 DEF FilterGradient
<1>4. Estimate(before, w, i)
        = IF x = 0 THEN above
          ELSE IF e > MaxSample THEN MaxSample ELSE IF e < 0 THEN 0 ELSE e
  BY DEF Estimate
<1>5. x \in 0..(w - 1) /\ y \in 0..(h - 1) /\ i = y * w + x + 1
  BY <1>1, PointOfPlace
<1> DEFINE here == y * w
           rows == (y - 1) * w
<1>6. /\ here \in Nat /\ rows = here - w /\ i = here + x + 1
      /\ (y >= 1 => rows \in Nat)
      /\ (y = 0 => here = 0)
  <2>1. y \in Nat /\ w \in Nat
    BY <1>1, <1>5
  <2> HIDE DEF x, y, w
  <2>2. here \in Nat /\ rows = here - w /\ (y >= 1 => rows \in Nat)
    BY <2>1, RowsAbove
  <2>3. y = 0 => here = 0
    BY <2>1
  <2>4. QED
    BY <1>5, <2>2, <2>3
<1>7. ASSUME NEW j \in 1..(i - 1)
      PROVE  before[j] = px[j] /\ px[j] \in 0..MaxSample
  <2>1. j \in 1..(w * h)
    BY <1>1
  <2>2. QED
    BY <1>1, <1>2, <2>1
<1> HIDE DEF x, y
<1>8. At(image, x - 1, y) = px[here + (x - 1) + 1]
       /\ At(image, x, y - 1) = px[rows + x + 1]
       /\ At(image, x - 1, y - 1) = px[rows + (x - 1) + 1]
  BY DEF At
<1> HIDE DEF here, rows
<1>9. w \in Nat \ {0} /\ i \in Nat
  BY <1>1
<1>10. At(image, x - 1, y) = px[i - 1]
  <2>1. here + (x - 1) + 1 = i - 1
    BY <1>5, <1>6
  <2>2. QED
    BY <1>8, <2>1
<1>11. /\ At(image, x, y - 1) = px[i - w]
       /\ At(image, x - 1, y - 1) = px[i - w - 1]
  <2> HIDE DEF w
  <2>1. rows + x + 1 = i - w /\ rows + (x - 1) + 1 = i - w - 1
    BY <1>5, <1>6, <1>9
  <2>2. QED
    BY <1>8, <2>1
<1>12. y - 1 < 0 <=> ~(i > w)
  BY <1>1, <1>5, <1>6
<1>13. x >= 1 => i - 1 \in 1..(i - 1)
  BY <1>5, <1>6
<1>14. i > w => i - w \in 1..(i - 1)
  BY <1>1
<1>15. i > w /\ x >= 1 => i - w - 1 \in 1..(i - 1)
  <2> HIDE DEF w
  <2>1. SUFFICES ASSUME i > w, x >= 1 PROVE i - w - 1 \in 1..(i - 1)
    OBVIOUS
  <2>2. y >= 1
    BY <1>5, <1>12, <2>1
  <2>3. here >= w
    BY <1>6, <1>9, <2>2
  <2>4. QED
    BY <1>5, <1>6, <1>9, <2>1, <2>3
<1>16. CASE x = 0
  <2>1. left = 0 /\ corner = 0 /\ up = above /\ above \in 0..MaxSample
    BY <1>2, <1>5, <1>7, <1>11, <1>12, <1>14, <1>16
  <2> HIDE DEF left, corner, up, above, e, px
  <2>2. prediction = above
    BY <1>2, <2>1
  <2>3. QED
    BY <1>3, <1>4, <1>16, <2>1, <2>2 DEF px
<1>17. CASE x # 0
  <2>1. x >= 1 /\ ~(x - 1 < 0) /\ ~(y < 0) /\ ~(x < 0)
    BY <1>5, <1>17
  <2>2. left = before[i - 1] /\ before[i - 1] \in 0..MaxSample
    BY <1>7, <1>10, <1>13, <2>1
  <2>3. up = above /\ above \in 0..MaxSample
    BY <1>2, <1>7, <1>11, <1>12, <1>14, <2>1
  <2>4. corner = (IF i > w THEN before[i - w - 1] ELSE 0)
        /\ corner \in 0..MaxSample
    BY <1>2, <1>7, <1>11, <1>12, <1>15, <2>1
  <2>5. e = p
    BY <2>2, <2>3, <2>4
  <2> HIDE DEF left, corner, up, above, e, px
  <2>6. p \in Int
    BY <2>2, <2>3, <2>4
  <2> HIDE DEF p
  <2>7. (IF e > MaxSample THEN MaxSample ELSE IF e < 0 THEN 0 ELSE e)
          = prediction
        /\ prediction \in 0..MaxSample
    BY <1>2, <2>5, <2>6
  <2> HIDE DEF prediction
  <2>8. QED
    BY <1>3, <1>4, <1>17, <2>7 DEF px
<1>18. QED
  BY <1>16, <1>17

(* The client's pixels are a sequence of steps, ... *)
EstimatesOf(after, data, w, h) ==
  after = [n \in 0..(w * h) |->
             IF n = 0 THEN <<>> ELSE NextPixel(after[n - 1], data, w, n)]

(* ... which there is. *)
LEMMA EstimatesExist ==
  ASSUME NEW data, NEW w, NEW h, w * h \in Nat
  PROVE  \E after : EstimatesOf(after, data, w, h)
<1> DEFINE Step(f, i) ==
             IF i = 0 THEN <<>> ELSE NextPixel(f[i - 1], data, w, i)
           S == {n \in Nat : \E f : f = [i \in 0..n |-> Step(f, i)]}
<1>1. 0 \in S
  <2> DEFINE f == [i \in 0..0 |-> <<>>]
  <2>1. f = [i \in 0..0 |-> Step(f, i)]
    OBVIOUS
  <2> HIDE DEF f
  <2>2. QED
    BY <2>1
<1>2. ASSUME NEW n \in Nat, n \in S PROVE n + 1 \in S
  <2>1. PICK f : f = [i \in 0..n |-> Step(f, i)]
    BY <1>2
  <2> DEFINE last == NextPixel(f[n], data, w, n + 1)
             g == [i \in 0..(n + 1) |-> IF i = n + 1 THEN last ELSE f[i]]
  <2>2. ASSUME NEW i \in 0..(n + 1) PROVE g[i] = Step(g, i)
    <3>1. CASE i = n + 1
      BY <3>1
    <3>2. CASE i # n + 1
      <4>1. i \in 0..n /\ g[i] = f[i]
        BY <3>2
      <4>2. f[i] = Step(f, i)
        <5> HIDE DEF Step
        <5>1. QED
          BY <2>1, <4>1
      <4>3. i # 0 => g[i - 1] = f[i - 1]
        BY <3>2
      <4>4. QED
        BY <4>1, <4>2, <4>3
    <3>3. QED
      BY <3>1, <3>2
  <2>3. g = [i \in 0..(n + 1) |-> g[i]]
    OBVIOUS
  <2> HIDE DEF g
  <2>4. g = [i \in 0..(n + 1) |-> Step(g, i)]
    BY <2>2, <2>3
  <2>5. QED
    BY <2>4
<1>3. w * h \in S
  <2> HIDE DEF S
  <2>1. QED
    BY <1>1, <1>2, SetInduction
<1>4. QED
  BY <1>3 DEF EstimatesOf

(* The gradient filter is undone. *)
LEMMA GradientIsUndone ==
  ASSUME NEW image, IsImage(image)
  PROVE  GradientPixels(FilterGradient(image), image.w, image.h) = image.px
<1> DEFINE w == image.w
           h == image.h
           px == image.px
           size == w * h
           data == FilterGradient(image)
           after == CHOOSE f : EstimatesOf(f, data, w, h)
           T == {n \in Nat : n <= size => after[n] = [j \in 1..n |-> px[j]]}
<1>1. size \in Nat /\ px \in [1..size -> Samples]
  BY DEF IsImage
<1>2. EstimatesOf(after, data, w, h)
  BY <1>1, EstimatesExist
<1>3. GradientPixels(data, w, h) = after[size]
  BY DEF GradientPixels, EstimatesOf
<1> HIDE DEF after
<1>4. ASSUME NEW n \in 0..size
      PROVE  after[n] = IF n = 0 THEN <<>>
                        ELSE NextPixel(after[n - 1], data, w, n)
  BY <1>2 DEF EstimatesOf
<1>5. 0 \in T
  <2>1. after[0] = <<>>
    BY <1>1, <1>4
  <2>2. <<>> = [j \in 1..0 |-> px[j]]
    OBVIOUS
  <2>3. QED
    BY <2>1, <2>2
<1>6. ASSUME NEW n \in Nat, n \in T PROVE n + 1 \in T
  <2>1. SUFFICES ASSUME n + 1 <= size
                 PROVE  after[n + 1] = [j \in 1..(n + 1) |-> px[j]]
    OBVIOUS
  <2> DEFINE before == after[n]
             i == n + 1
             e == Estimate(before, w, i)
  <2>2. before = [j \in 1..n |-> px[j]]
    BY <1>1, <1>6, <2>1
  <2>3. i \in 1..size /\ i \in 0..size /\ i # 0 /\ i - 1 = n
    BY <1>1, <2>1
  <2>4. after[i] = NextPixel(before, data, w, i)
    BY <1>4, <2>3
  <2>5. \A j \in 1..(i - 1) : before[j] = px[j]
    BY <2>2
  <2> HIDE DEF before, i
  <2>6. e \in 0..MaxSample /\ data[i] = (px[i] - e) % (MaxSample + 1)
    BY <2>3, <2>5, EstimateIsPrediction
  <2> HIDE DEF e, data, size
  <2>7. px[i] \in 0..MaxSample /\ MaxSample \in Nat
    <3>1. px[i] \in Samples
      BY <1>1, <2>3
    <3>2. QED
      BY <3>1, TightAssumption
  <2> HIDE DEF px, w
  <2>8. (data[i] + e) % (MaxSample + 1) = px[i]
    <3> DEFINE m == MaxSample + 1
    <3>1. m \in Nat \ {0} /\ px[i] \in 0..(m - 1) /\ e \in 0..(m - 1)
      BY <2>6, <2>7
    <3>2. data[i] = (px[i] - e) % m
      BY <2>6
    <3> HIDE DEF m
    <3>3. (data[i] + e) % m = px[i]
      BY <3>1, <3>2, DifferenceIsUndone
    <3>4. QED
      BY <3>3 DEF m
  <2>9. after[i] = Append(before, px[i])
    BY <2>4, <2>8 DEF NextPixel, e
  <2>10. Append([j \in 1..n |-> px[j]], px[n + 1])
           = [j \in 1..(n + 1) |-> px[j]]
    <3>1. Len([j \in 1..n |-> px[j]]) = n
      <4> DEFINE f == [j \in 1..n |-> px[j]]
      <4>1. f = [j \in 1..n |-> f[j]]
        OBVIOUS
      <4> HIDE DEF f
      <4>2. QED
        BY <4>1, ListOf DEF f
    <3>2. QED
      BY <3>1
  <2>11. QED
    BY <2>2, <2>9, <2>10 DEF i
<1>7. size \in T
  <2> HIDE DEF T
  <2>1. QED
    BY <1>1, <1>5, <1>6, SetInduction
<1>8. after[size] = [j \in 1..size |-> px[j]]
  BY <1>1, <1>7
<1>9. [j \in 1..size |-> px[j]] = px
  BY <1>1
<1>10. QED
  BY <1>3, <1>8, <1>9

(* The gradient filter, or none for pixels of a byte. *)
LEMMA GradientIsRead ==
  ASSUME NEW image, IsImage(image), tightFormat \in TightFormats
  PROVE  IsRead(GradientRect(image), image)
<1> DEFINE w == image.w
           h == image.h
           f == tightFormat
           msg == GradientRect(image)
<1>1. CASE f = 1
  BY <1>1, FullColourIsRead DEF GradientRect
<1>2. CASE f # 1
  <2>1. w \in Nat \ {0} /\ h \in Nat \ {0}
    BY DEF IsImage
  <2>2. f \in Nat
    BY TightAssumption
  <2>3. msg = [kind |-> "gradient", stream |-> 3, palette |-> <<>>,
               data |-> FilterGradient(image), bytes |-> w * h * f]
    BY <1>2 DEF GradientRect
  <2>4. /\ msg.kind = "gradient" /\ msg.stream = 3
        /\ msg.data = FilterGradient(image) /\ msg.bytes = w * h * f
    BY <2>3
  <2> HIDE DEF msg
  <2>5. BitsPixel(msg) = f * ByteBits
    BY <2>4 DEF BitsPixel
  <2>6. (w * BitsPixel(msg) + ByteBits - 1) \div ByteBits = w * f
    <3>1. w * f \in Nat /\ ByteBits \in Nat
      BY <2>1, <2>2, TightAssumption
    <3>2. w * (f * ByteBits) = (w * f) * ByteBits
      BY <2>1, <2>2, <3>1
    <3>3. QED
      BY <2>5, <3>1, <3>2, WholeBytes
  <2>7. w * f \in Nat /\ w * h * f = (w * f) * h
    BY <2>1, <2>2
  <2>8. ExpectsChunk(msg, w, h) <=> ~(msg.bytes < TIGHT_MIN_TO_COMPRESS)
    BY <2>1, <2>4, <2>6, <2>7, BytesAreExpected
  <2>9. Decoded(msg, w, h) = image.px
    BY <2>4, GradientIsUndone DEF Decoded
  <2>10. QED
    BY <2>4, <2>8, <2>9 DEF IsRead, Streams, msg
<1>3. QED
  BY <1>1, <1>2

-----------------------------------------------------------------------------
(* The rectangles. *)

(* The averages of DetectSmoothImage() are over some pixels. *)
LEMMA NothingIsDividedByZero ==
  ASSUME NEW image, IsImage(image)
  PROVE  ~DividesByZero(image)
<1>1. SUFFICES ASSUME MayBeSmooth(image)
               PROVE  SampledPixels(image.w, image.h) # {}
  BY DEF DividesByZero
<1>2. image.w >= DETECT_MIN_WIDTH
  BY <1>1 DEF MayBeSmooth
<1>3. image.w \in Nat \ {0} /\ image.h \in Nat \ {0}
  BY DEF IsImage
<1>4. QED
  BY <1>2, <1>3, SomePixelIsSampled

IsJpeg(msg) == msg.kind = "jpeg" /\ tightFormat # 1

(* Whatever subencoding is chosen, the client reads it. *)
LEMMA MessageIsRead ==
  ASSUME tightFormat \in TightFormats, NEW image, IsImage(image),
         NEW smooth \in BOOLEAN, smooth => MayBeSmooth(image),
         NEW msg \in TightSubrects(image, smooth)
  PROVE  IsRead(msg, image) \/ IsJpeg(msg)
<1> DEFINE palette == FillPalette(image)
           size    == Len(palette)
           jpeg    == smooth /\ qualityLevel # -1
<1>1. ASSUME jpeg, msg \in JpegRects(image)
      PROVE  IsRead(msg, image) \/ IsJpeg(msg)
  <2>1. tightFormat # 1
    BY <1>1 DEF MayBeSmooth
  <2>2. CASE msg = FullColourRect(image)
    BY <2>2, FullColourIsRead
  <2>3. CASE msg # FullColourRect(image)
    <3>1. msg = [kind |-> "jpeg", stream |-> 0, palette |-> <<>>,
                 data |-> <<>>, bytes |-> 0]
      BY <1>1, <2>3 DEF JpegRects
    <3>2. msg.kind = "jpeg"
      BY <3>1
    <3>3. QED
      BY <2>1, <3>2 DEF IsJpeg
  <2>4. QED
    BY <2>2, <2>3
<1>2. TightSubrects(image, smooth)
        = CASE size = 0 ->
                 IF jpeg THEN JpegRects(image)
                 ELSE {IF smooth THEN GradientRect(image)
                       ELSE FullColourRect(image)}
            [] size = 1 -> {SolidRect(image)}
            [] size = 2 -> {MonoRect(image, palette)}
            [] OTHER ->
                 IF size > ManyColours /\ qualityLevel <= 3 /\ jpeg
                 THEN JpegRects(image) ELSE {IndexedRect(image, palette)}
  BY DEF TightSubrects
<1> HIDE DEF palette, size, jpeg
<1>3. CASE size = 0
  <2>1. msg \in IF jpeg THEN JpegRects(image)
                ELSE {IF smooth THEN GradientRect(image)
                      ELSE FullColourRect(image)}
    BY <1>2, <1>3
  <2>2. CASE jpeg
    BY <1>1, <2>1, <2>2
  <2>3. CASE ~jpeg
    <3>1. msg = GradientRect(image) \/ msg = FullColourRect(image)
      BY <2>1, <2>3
    <3>2. QED
      BY <3>1, FullColourIsRead, GradientIsRead
  <2>4. QED
    BY <2>2, <2>3
<1>4. CASE size = 1
  <2>1. msg = SolidRect(image)
    BY <1>2, <1>4
  <2>2. QED
    BY <1>4, <2>1, SolidIsRead DEF size, palette
<1>5. HasColours(palette, image.px)
  BY PaletteIsFilled DEF palette
<1>6. CASE size = 2
  <2>1. msg = MonoRect(image, palette)
    BY <1>2, <1>6
  <2>2. IsPair(palette)
    BY <1>6 DEF IsPair, size
  <2>3. QED
    BY <1>5, <2>1, <2>2, MonoIsRead
<1>7. CASE size \notin {0, 1, 2}
  <2>1. msg \in IF size > ManyColours /\ qualityLevel <= 3 /\ jpeg
                THEN JpegRects(image) ELSE {IndexedRect(image, palette)}
    BY <1>2, <1>7
  <2>2. \/ jpeg /\ msg \in JpegRects(image)
        \/ msg = IndexedRect(image, palette)
    BY <2>1
  <2>3. Len(palette) \notin {0, 1, 2}
    BY <1>7 DEF size
  <2>4. IsRead(IndexedRect(image, palette), image)
    BY <1>5, <2>3, IndexedIsRead
  <2>5. QED
    BY <1>1, <2>2, <2>4
<1>8. QED
  BY <1>3, <1>4, <1>6, <1>7

(* Whatever levels a client changes, both ends have read as many blocks of *)
(* each stream, and no rectangle was wrong.                                *)
TightInv ==
  /\ TightTypeOK
  /\ zlibStreamChunks = zsChunks
  /\ tightResult \in {"exact", "lossy", "failed"}

(* No stream is active at first. *)
LEMMA TightInitInv == TightInit => TightInv
<1> SUFFICES ASSUME TightInit PROVE TightInv
  OBVIOUS
<1>1. MaxChunks \in Nat
  BY TightAssumption
<1>2. zsChunks \in [Streams -> -1..MaxChunks]
  BY <1>1 DEF TightInit
<1>3. QED
  BY <1>2 DEF TightInit, TightInv, TightTypeOK

(* The images that are sent have pixels. *)
LEMMA ImagesHavePixels ==
  ASSUME NEW image \in TightImages
  PROVE  IsImage(image)
<1>1. PICK s \in TightSizes :
        image \in [w : {s[1]}, h : {s[2]}, px : [1..(s[1] * s[2]) -> Samples]]
  BY DEF TightImages
<1>2. s[1] \in Nat \ {0} /\ s[2] \in Nat \ {0}
  BY TightAssumption
<1>3. image.w = s[1] /\ image.h = s[2]
      /\ image.px \in [1..(s[1] * s[2]) -> Samples]
  BY <1>1
<1>4. QED
  BY <1>2, <1>3 DEF IsImage

(* A rectangle keeps the streams in step. *)
LEMMA SendTightInv ==
  ASSUME TightInv, SendTight
  PROVE  TightInv'
<1>1. PICK image \in TightImages, smooth \in BOOLEAN :
        /\ smooth => MayBeSmooth(image)
        /\ \E msg \in TightSubrects(image, smooth) :
             /\ Chunk(msg) <= MaxChunks
             /\ zsChunks' = IF Chunk(msg) = 0 THEN zsChunks
                            ELSE [zsChunks EXCEPT ![msg.stream] = Chunk(msg)]
             /\ HandleTight(msg, Chunk(msg), image)
  BY DEF SendTight
<1>2. PICK msg \in TightSubrects(image, smooth) :
        /\ Chunk(msg) <= MaxChunks
        /\ zsChunks' = IF Chunk(msg) = 0 THEN zsChunks
                       ELSE [zsChunks EXCEPT ![msg.stream] = Chunk(msg)]
        /\ HandleTight(msg, Chunk(msg), image)
  BY <1>1
<1> DEFINE chunk == Chunk(msg)
           w == image.w
           h == image.h
<1>3. /\ tightFormat \in TightFormats /\ zsChunks \in [Streams -> -1..MaxChunks]
      /\ zlibStreamChunks = zsChunks
  BY DEF TightInv, TightTypeOK
<1>4. IsImage(image)
  BY ImagesHavePixels
<1>5. IsRead(msg, image) \/ IsJpeg(msg)
  BY <1>1, <1>3, <1>4, MessageIsRead
<1>6. ~DividesByZero(image)
  BY <1>4, NothingIsDividedByZero
<1>7. /\ tightResult'
           = CASE DividesByZero(image) -> "divided by zero"
               [] Rejects(msg, chunk, w, h) -> "rejected"
               [] msg.kind = "jpeg" -> "lossy"
               [] OTHER -> IF Decoded(msg, w, h) = image.px
                           THEN "exact" ELSE "wrong"
      /\ zlibStreamChunks' =
           IF chunk = 0 THEN zlibStreamChunks
           ELSE [zlibStreamChunks EXCEPT ![msg.stream] = chunk]
  BY <1>2 DEF HandleTight
<1>8. zlibStreamChunks' = zsChunks'
  BY <1>2, <1>3, <1>7
<1>9. msg.kind \notin {"fill", "jpeg"} /\ ~(msg.bytes < TIGHT_MIN_TO_COMPRESS)
        => chunk = NextChunk(zsChunks[msg.stream])
  BY DEF Chunk
<1>10. msg.kind \in {"fill", "jpeg"} \/ msg.bytes < TIGHT_MIN_TO_COMPRESS
         => chunk = 0
  BY DEF Chunk
<1> HIDE DEF chunk
<1>11. ASSUME msg.stream \in Streams
       PROVE  NextChunk(zsChunks[msg.stream]) \in Nat \ {0}
  <2>1. zsChunks[msg.stream] \in -1..MaxChunks /\ MaxChunks \in Nat
    BY <1>3, <1>11, TightAssumption
  <2>2. QED
    BY <2>1 DEF NextChunk
<1>12. CASE IsRead(msg, image)
  <2>1. /\ msg.kind \in {"fill", "copy", "palette", "gradient"}
        /\ msg.stream \in Streams
        /\ msg.kind = "palette" => ~(Len(msg.palette) < 2)
        /\ msg.kind # "fill" =>
             (ExpectsChunk(msg, w, h) <=> ~(msg.bytes < TIGHT_MIN_TO_COMPRESS))
        /\ Decoded(msg, w, h) = image.px
    BY <1>12 DEF IsRead
  <2>2. chunk # 0 => chunk = NextChunk(zsChunks[msg.stream])
    BY <1>9, <1>10
  <2>3. msg.kind # "fill" => (ExpectsChunk(msg, w, h) <=> chunk # 0)
    BY <1>9, <1>10, <1>11, <2>1
  <2>4. ExpectsChunk(msg, w, h) \in BOOLEAN
    BY DEF ExpectsChunk
  <2>5. ~Rejects(msg, chunk, w, h)
    BY <1>3, <2>1, <2>2, <2>3, <2>4, Zenon DEF Rejects
  <2>6. tightResult' = "exact"
    BY <1>6, <1>7, <2>1, <2>5
  <2>7. zsChunks' \in [Streams -> -1..MaxChunks]
    <3>1. CASE chunk = 0
      BY <1>2, <1>3, <3>1 DEF chunk
    <3>2. CASE chunk # 0
      <4>1. chunk \in Nat /\ chunk <= MaxChunks /\ MaxChunks \in Nat
        BY <1>2, <1>11, <2>1, <2>2, <3>2, TightAssumption DEF chunk
      <4>2. chunk \in -1..MaxChunks
        BY <4>1
      <4>3. zsChunks' = [zsChunks EXCEPT ![msg.stream] = chunk]
        BY <1>2, <3>2 DEF chunk
      <4>4. QED
        BY <1>3, <4>2, <4>3
    <3>3. QED
      BY <3>1, <3>2
  <2>8. QED
    BY <1>8, <2>6, <2>7 DEF TightInv, TightTypeOK, SendTight
<1>13. CASE IsJpeg(msg)
  <2>1. msg.kind = "jpeg" /\ tightFormat # 1 /\ chunk = 0
    BY <1>10, <1>13 DEF IsJpeg
  <2>2. ~Rejects(msg, chunk, w, h)
    BY <2>1 DEF Rejects
  <2>3. tightResult' = "lossy"
    BY <1>6, <1>7, <2>1, <2>2
  <2>4. zsChunks' = zsChunks
    BY <1>2, <2>1 DEF chunk
  <2>5. QED
    BY <1>3, <1>8, <2>3, <2>4 DEF TightInv, TightTypeOK, SendTight
<1>14. QED
  BY <1>5, <1>12, <1>13

(* For rectangles of any size, whatever they look like and whatever levels *)
(* the client asks for between them, both ends of the four streams stay in *)
(* step.                                                                   *)
THEOREM TightInvariance == TightSpec => []TightInv
<1>1. TightInit => TightInv
  BY TightInitInv
<1>2. TightInv /\ [TightNext]_tightVars => TightInv'
  <2> SUFFICES ASSUME TightInv, [TightNext]_tightVars PROVE TightInv'
    OBVIOUS
  <2>1. CASE TightEncodings
    BY <2>1 DEF TightEncodings, TightInv, TightTypeOK
  <2>2. CASE SendTight
    BY <2>2, SendTightInv
  <2>3. CASE SendTightFails
    BY <2>3 DEF SendTightFails, TightInv, TightTypeOK
  <2>4. CASE UNCHANGED tightVars
    BY <2>4 DEF tightVars, TightInv, TightTypeOK
  <2>5. QED
    BY <2>1, <2>2, <2>3, <2>4 DEF TightNext
<1>3. QED
  BY <1>1, <1>2, PTL DEF TightSpec

(* No rectangle is rejected by the client or drawn wrong, none makes the   *)
(* server divide by zero, and every length is read as it was written: the  *)
(* subencodings of tight.c at both ends.                                   *)
THEOREM TightStaysDecoded == TightSpec => []TightIsDecoded
<1>1. TightInv => TightIsDecoded
  BY TightLengthsAreRead DEF TightInv, TightIsDecoded
<1>2. QED
  BY <1>1, TightInvariance, PTL

-----------------------------------------------------------------------------
(***************************************************************************)
(* RfbWavelet.                                                             *)
(***************************************************************************)

(* The sides of the blocks of a level: levels are at most three. *)
LEMMA SidesOfBlocks ==
  ASSUME NEW l \in 0..3
  PROVE  2^l \in Nat \ {0} /\ (l < 3 => 2^(l + 1) = 2 * 2^l)
<1>1. 2^0 = 1 /\ 2^1 = 2 /\ 2^2 = 4 /\ 2^3 = 8
  OBVIOUS
<1>2. 0 + 1 = 1 /\ 1 + 1 = 2 /\ 2 + 1 = 3
  OBVIOUS
<1>3. CASE l = 0
  <2>1. 2^l = 1 /\ 2^(l + 1) = 2
    BY <1>1, <1>2, <1>3, Zenon
  <2>2. QED
    BY <2>1
<1>4. CASE l = 1
  <2>1. 2^l = 2 /\ 2^(l + 1) = 4
    BY <1>1, <1>2, <1>4, Zenon
  <2>2. QED
    BY <2>1
<1>5. CASE l = 2
  <2>1. 2^l = 4 /\ 2^(l + 1) = 8
    BY <1>1, <1>2, <1>5, Zenon
  <2>2. QED
    BY <2>1
<1>6. CASE l = 3
  <2>1. 2^l = 8
    BY <1>1, <1>6, Zenon
  <2>2. ~(l < 3)
    BY <1>6
  <2>3. QED
    BY <2>1, <2>2
<1>7. QED
  BY <1>3, <1>4, <1>5, <1>6

(* A step on two values stays in their range and is its own inverse. *)
LEMMA HarrIsUndone ==
  ASSUME NEW a \in Values, NEW b \in Values
  PROVE  /\ Harr(a, b)[1] \in Values /\ Harr(a, b)[2] \in Values
         /\ Harr(Harr(a, b)[1], Harr(a, b)[2]) = <<a, b>>
<1>1. WaveletMax \in Nat /\ a \in Int /\ b \in Int
      /\ a \in -WaveletMax..WaveletMax /\ b \in -WaveletMax..WaveletMax
  BY WaveletAssumption DEF Values
<1>2. CASE a < 0 /\ ~(b < 0)
  <2>1. CASE a + b < 0
    <3>1. Harr(a, b) = <<a + b, a>>
      BY <1>1, <1>2, <2>1 DEF Harr
    <3>2. Harr(a + b, a) = <<a, b>>
      BY <1>1, <1>2, <2>1 DEF Harr
    <3>3. QED
      BY <1>1, <1>2, <2>1, <3>1, <3>2 DEF Values
  <2>2. CASE ~(a + b < 0)
    <3>1. Harr(a, b) = <<a + b, -b>>
      BY <1>1, <1>2, <2>2 DEF Harr
    <3>2. Harr(a + b, -b) = <<a, b>>
      BY <1>1, <1>2, <2>2 DEF Harr
    <3>3. QED
      BY <1>1, <1>2, <2>2, <3>1, <3>2 DEF Values
  <2>3. QED
    BY <2>1, <2>2
<1>3. CASE ~(a < 0) /\ b < 0
  <2>1. CASE a + b < 0
    <3>1. Harr(a, b) = <<a + b, -b>>
      BY <1>1, <1>3, <2>1 DEF Harr
    <3>2. Harr(a + b, -b) = <<a, b>>
      BY <1>1, <1>3, <2>1 DEF Harr
    <3>3. QED
      BY <1>1, <1>3, <2>1, <3>1, <3>2 DEF Values
  <2>2. CASE ~(a + b < 0)
    <3>1. Harr(a, b) = <<a + b, a>>
      BY <1>1, <1>3, <2>2 DEF Harr
    <3>2. Harr(a + b, a) = <<a, b>>
      BY <1>1, <1>3, <2>2 DEF Harr
    <3>3. QED
      BY <1>1, <1>3, <2>2, <3>1, <3>2 DEF Values
  <2>3. QED
    BY <2>1, <2>2
<1>4. CASE a < 0 /\ b < 0
  <2>1. CASE a - b < 0
    <3>1. Harr(a, b) = <<a, a - b>>
      BY <1>1, <1>4, <2>1 DEF Harr
    <3>2. Harr(a, a - b) = <<a, b>>
      BY <1>1, <1>4, <2>1 DEF Harr
    <3>3. QED
      BY <1>1, <1>4, <2>1, <3>1, <3>2 DEF Values
  <2>2. CASE ~(a - b < 0)
    <3>1. Harr(a, b) = <<b, a - b>>
      BY <1>1, <1>4, <2>2 DEF Harr
    <3>2. Harr(b, a - b) = <<a, b>>
      BY <1>1, <1>4, <2>2 DEF Harr
    <3>3. QED
      BY <1>1, <1>4, <2>2, <3>1, <3>2 DEF Values
  <2>3. QED
    BY <2>1, <2>2
<1>5. CASE ~(a < 0) /\ ~(b < 0)
  <2>1. CASE a - b < 0
    <3>1. Harr(a, b) = <<b, a - b>>
      BY <1>1, <1>5, <2>1 DEF Harr
    <3>2. Harr(b, a - b) = <<a, b>>
      BY <1>1, <1>5, <2>1 DEF Harr
    <3>3. QED
      BY <1>1, <1>5, <2>1, <3>1, <3>2 DEF Values
  <2>2. CASE ~(a - b < 0)
    <3>1. Harr(a, b) = <<a, a - b>>
      BY <1>1, <1>5, <2>2 DEF Harr
    <3>2. Harr(a, a - b) = <<a, b>>
      BY <1>1, <1>5, <2>2 DEF Harr
    <3>3. QED
      BY <1>1, <1>5, <2>2, <3>1, <3>2 DEF Values
  <2>3. QED
    BY <2>1, <2>2
<1>6. QED
  BY <1>2, <1>3, <1>4, <1>5

(* The place of the other value of a pair. *)
OtherOf(x, d) == IF x % (2 * d) = 0 THEN x + d ELSE x - d

(* A number that d divides is d times an even or an odd number. *)
LEMMA EvenOrOdd ==
  ASSUME NEW d \in Nat \ {0}, NEW x \in Nat, x % d = 0
  PROVE  \E k \in Nat : \/ x = k * (2 * d) /\ x % (2 * d) = 0
                        \/ x = k * (2 * d) + d /\ x % (2 * d) = d
<1> DEFINE e == 2 * d
           k == x \div e
           r == x % e
           q == x \div d
<1>1. e \in Nat \ {0}
  OBVIOUS
<1>2. k \in Nat /\ r \in 0..(e - 1) /\ x = k * e + r
  BY <1>1, Division
<1>3. r < d => r = 0
  <2>1. SUFFICES ASSUME r < d PROVE r = 0
    OBVIOUS
  <2>2. r \in 0..(d - 1) /\ 2 * k \in Nat
    BY <1>2, <2>1
  <2>3. x = (2 * k) * d + r
    BY <1>2
  <2> HIDE DEF k, r
  <2>4. x % d = r
    BY <2>2, <2>3, DivisionIsUnique
  <2>5. QED
    BY <2>4
<1>4. ~(r < d) => r = d
  <2>1. SUFFICES ASSUME ~(r < d) PROVE r = d
    OBVIOUS
  <2>2. r - d \in 0..(d - 1) /\ 2 * k + 1 \in Nat
    BY <1>2, <2>1
  <2>3. x = (2 * k + 1) * d + (r - d)
    BY <1>2
  <2> HIDE DEF k, r
  <2>4. x % d = r - d
    BY <2>2, <2>3, DivisionIsUnique
  <2>5. r - d = 0
    BY <2>4
  <2>6. QED
    BY <1>2, <2>5
<1> HIDE DEF k, q
<1>5. r = 0 \/ r = d
  BY <1>3, <1>4
<1>6. QED
  BY <1>2, <1>5

OtherIsThere(x, d, w) ==
  LET o == OtherOf(x, d)
  IN  /\ o \in 0..(w - 1) /\ o % d = 0
      /\ OtherOf(o, d) = x
      /\ o % (2 * d) = 0 <=> x % (2 * d) # 0

(* Both values of a pair are there. *)
LEMMA PairIsThere ==
  ASSUME NEW d \in Nat \ {0}, NEW w \in Nat, w % (2 * d) = 0,
         NEW x \in 0..(w - 1), x % d = 0
  PROVE  OtherIsThere(x, d, w)
<1> DEFINE e == 2 * d
           n == w \div e
           o == OtherOf(x, d)
<1>1. e \in Nat \ {0}
  OBVIOUS
<1>2. n \in Nat /\ w = n * e
  <2>1. w % e = 0
    OBVIOUS
  <2> HIDE DEF e
  <2>2. w = n * e + (w % e) /\ n \in Nat
    BY <1>1, Division
  <2>3. n * e \in Nat
    BY <1>1, <2>2
  <2>4. QED
    BY <2>1, <2>2, <2>3
<1>3. PICK k \in Nat : \/ x = k * e /\ x % e = 0
                       \/ x = k * e + d /\ x % e = d
  <2>1. x \in Nat
    OBVIOUS
  <2>2. QED
    BY <2>1, EvenOrOdd
<1> DEFINE low == k * e
<1>4. low \in Nat /\ k + 1 <= n /\ low + e <= w
  <2>1. low \in Nat /\ low < n * e
    BY <1>1, <1>2, <1>3
  <2>2. k < n
    <3>1. ASSUME n <= k PROVE FALSE
      <4>1. n * e <= k * e
        BY <1>1, <1>2, <3>1, LargerProduct
      <4>2. QED
        BY <1>1, <1>2, <2>1, <4>1
    <3>2. QED
      BY <1>2, <3>1
  <2>3. (k + 1) * e <= n * e
    <3>1. k + 1 \in Nat /\ k + 1 <= n
      BY <1>2, <2>2
    <3>2. QED
      BY <1>1, <1>2, <3>1, LargerProduct
  <2>4. (k + 1) * e = k * e + e
    BY <1>1
  <2>5. QED
    BY <1>1, <1>2, <2>1, <2>2, <2>3, <2>4
<1>5. /\ low % e = 0 /\ (low + d) % e = d
      /\ low % d = 0 /\ (low + d) % d = 0
  <2>1. low + 0 = low /\ (low + 0) % e = 0
    <3>1. 0 \in 0..(e - 1)
      BY <1>1
    <3> HIDE DEF e
    <3>2. (k * e + 0) % e = 0
      BY <1>1, <3>1, DivisionIsUnique
    <3>3. QED
      BY <1>4, <3>2
  <2>2. (low + d) % e = d
    <3>1. d \in 0..(e - 1)
      OBVIOUS
    <3> HIDE DEF e
    <3>2. QED
      BY <1>1, <3>1, DivisionIsUnique
  <2>3. (2 * k) * d = low /\ (2 * k + 1) * d = low + d
    BY <1>1
  <2>4. ((2 * k) * d + 0) % d = 0
    <3>1. 2 * k \in Nat /\ 0 \in 0..(d - 1)
      OBVIOUS
    <3>2. QED
      BY <3>1, DivisionIsUnique
  <2>5. ((2 * k + 1) * d + 0) % d = 0
    <3>1. 2 * k + 1 \in Nat /\ 0 \in 0..(d - 1)
      OBVIOUS
    <3>2. QED
      BY <3>1, DivisionIsUnique
  <2> HIDE DEF low
  <2>6. low + 0 = low /\ (low + d) + 0 = low + d
    BY <1>4
  <2>7. QED
    BY <2>1, <2>2, <2>3, <2>4, <2>5, <2>6
<1>6. d # 0 /\ d \in Nat
  OBVIOUS
<1>7. CASE x = low /\ x % e = 0
  <2> HIDE DEF low
  <2>1. o = low + d
    BY <1>7 DEF OtherOf
  <2>2. OtherOf(low + d, d) = low
    BY <1>4, <1>5, <1>6 DEF OtherOf
  <2>3. low + d \in 0..(w - 1)
    BY <1>1, <1>4, <1>6
  <2> HIDE DEF e, o
  <2>4. QED
    BY <1>5, <1>6, <1>7, <2>1, <2>2, <2>3 DEF e, o, OtherIsThere
<1>8. CASE x = low + d /\ x % e = d
  <2> HIDE DEF low
  <2>1. o = low
    BY <1>4, <1>6, <1>8 DEF OtherOf
  <2>2. OtherOf(low, d) = low + d
    BY <1>5 DEF OtherOf
  <2>3. low \in 0..(w - 1)
    BY <1>1, <1>4, <1>6
  <2> HIDE DEF e, o
  <2>4. QED
    BY <1>5, <1>6, <1>8, <2>1, <2>2, <2>3 DEF e, o, OtherIsThere
<1>9. QED
  BY <1>3, <1>7, <1>8

(* One level of one row of values, a function on 0..(w - 1): it is what it *)
(* was after the second time.                                              *)
LEMMA RowIsUndone ==
  ASSUME NEW d \in Nat \ {0}, NEW w \in Nat, w % (2 * d) = 0, NEW at, NEW new,
         \A x \in 0..(w - 1) : at[x] \in Values,
         \A x \in 0..(w - 1) : x % d = 0 => new[x] = HarrAt(at, x, d),
         NEW x \in 0..(w - 1), x % d = 0
  PROVE  HarrAt(at, x, d) \in Values /\ HarrAt(new, x, d) = at[x]
<1> DEFINE o == OtherOf(x, d)
           a == at[x]
           b == at[o]
           e == 2 * d
<1>1. /\ o \in 0..(w - 1) /\ o % d = 0 /\ OtherOf(o, d) = x
      /\ o % e = 0 <=> x % e # 0
  <2>1. OtherIsThere(x, d, w)
    BY PairIsThere
  <2>2. QED
    BY <2>1 DEF OtherIsThere
<1>2. x \in Int /\ d \in Int /\ a \in Values /\ b \in Values
  BY <1>1
<1>3. new[x] = HarrAt(at, x, d) /\ new[o] = HarrAt(at, o, d)
  BY <1>1
<1>4. CASE x % e = 0
  <2>1. o = x + d /\ o % e # 0
    BY <1>1, <1>4 DEF OtherOf
  <2>2. o - d = x
    BY <1>2, <2>1
  <2> HIDE DEF e, o
  <2>3. /\ HarrAt(at, x, d) = Harr(a, b)[1]
        /\ HarrAt(new, x, d) = Harr(new[x], new[o])[1]
    BY <1>4, <2>1 DEF HarrAt, e
  <2>4. HarrAt(at, o, d) = Harr(a, b)[2]
    BY <2>1, <2>2 DEF HarrAt, e
  <2> HIDE DEF a, b
  <2>5. /\ Harr(a, b)[1] \in Values
        /\ Harr(Harr(a, b)[1], Harr(a, b)[2]) = <<a, b>>
    BY <1>2, HarrIsUndone
  <2>6. HarrAt(new, x, d) = a
    BY <1>3, <2>3, <2>4, <2>5
  <2>7. QED
    BY <2>3, <2>5, <2>6 DEF a
<1>5. CASE x % e # 0
  <2>1. o = x - d /\ o % e = 0
    BY <1>1, <1>5 DEF OtherOf
  <2>2. o + d = x
    BY <1>2, <2>1
  <2> HIDE DEF e, o
  <2>3. /\ HarrAt(at, x, d) = Harr(b, a)[2]
        /\ HarrAt(new, x, d) = Harr(new[o], new[x])[2]
    BY <1>5, <2>1 DEF HarrAt, e
  <2>4. HarrAt(at, o, d) = Harr(b, a)[1]
    BY <2>1, <2>2 DEF HarrAt, e
  <2> HIDE DEF a, b
  <2>5. /\ Harr(b, a)[2] \in Values
        /\ Harr(Harr(b, a)[1], Harr(b, a)[2]) = <<b, a>>
    BY <1>2, HarrIsUndone
  <2>6. HarrAt(new, x, d) = a
    BY <1>3, <2>3, <2>4, <2>5
  <2>7. QED
    BY <2>3, <2>5, <2>6 DEF a
<1>6. QED
  BY <1>4, <1>5

(* CoefficientMaps of a tile that a level divides. *)
CoefficientMaps(w, h) == [Grid(w, h) -> Values]

(* All rows, ... *)
LEMMA RowsAreUndone ==
  ASSUME NEW l \in 0..2, NEW w \in Nat, w % 2^(l + 1) = 0, NEW h,
         NEW c, c \in CoefficientMaps(w, h)
  PROVE  /\ AcrossRows(c, w, l) \in CoefficientMaps(w, h)
         /\ AcrossRows(AcrossRows(c, w, l), w, l) = c
<1> DEFINE d == 2^l
           G == Grid(w, h)
           new == AcrossRows(c, w, l)
           row(y) == [x \in 0..(w - 1) |-> c[<<x, y>>]]
           newRow(y) == [x \in 0..(w - 1) |-> new[<<x, y>>]]
<1>1. d \in Nat \ {0} /\ w % (2 * d) = 0
  <2>1. l \in 0..3 /\ l < 3
    OBVIOUS
  <2>2. d \in Nat \ {0} /\ 2^(l + 1) = 2 * d
    BY <2>1, SidesOfBlocks
  <2>3. QED
    BY <2>2
<1>2. DOMAIN c = G /\ \A p \in G : c[p] \in Values
  BY DEF CoefficientMaps
<1>3. new = [p \in G |-> IF Coarse(p, l) THEN HarrAt(row(p[2]), p[1], d)
                         ELSE c[p]]
  BY <1>2 DEF AcrossRows
<1>4. AcrossRows(new, w, l)
        = [p \in G |-> IF Coarse(p, l) THEN HarrAt(newRow(p[2]), p[1], d)
                       ELSE new[p]]
  BY <1>3 DEF AcrossRows
<1> HIDE DEF new, d
<1>5. ASSUME NEW p \in G, Coarse(p, l)
      PROVE  /\ HarrAt(row(p[2]), p[1], d) \in Values
             /\ HarrAt(newRow(p[2]), p[1], d) = c[p]
  <2> DEFINE y == p[2]
             at == row(y)
             next == newRow(y)
  <2>1. /\ p[1] \in 0..(w - 1) /\ p[2] \in 0..(h - 1) /\ p = <<p[1], p[2]>>
        /\ p[1] % d = 0 /\ p[2] % d = 0
    BY <1>5 DEF Grid, Coarse, d
  <2>2. ASSUME NEW x \in 0..(w - 1)
        PROVE  at[x] = c[<<x, y>>] /\ next[x] = new[<<x, y>>] /\ <<x, y>> \in G
    BY <2>1 DEF Grid
  <2> HIDE DEF at, next, y
  <2>3. \A x \in 0..(w - 1) : at[x] \in Values
    BY <1>2, <2>2
  <2>4. ASSUME NEW x \in 0..(w - 1), x % d = 0
        PROVE  next[x] = HarrAt(at, x, d)
    <3>1. Coarse(<<x, y>>, l)
      BY <2>1, <2>4 DEF Coarse, d, y
    <3>2. new[<<x, y>>] = HarrAt(at, x, d)
      BY <1>3, <2>2, <3>1 DEF at
    <3>3. QED
      BY <2>2, <3>2
  <2>5. HarrAt(at, p[1], d) \in Values /\ HarrAt(next, p[1], d) = at[p[1]]
    BY <1>1, <2>1, <2>3, <2>4, RowIsUndone
  <2>6. at[p[1]] = c[p]
    BY <2>1, <2>2 DEF y
  <2>7. QED
    BY <2>5, <2>6 DEF at, next, y
<1>6. new \in CoefficientMaps(w, h)
  <2> HIDE DEF G, row
  <2>1. \A p \in G : (IF Coarse(p, l) THEN HarrAt(row(p[2]), p[1], d)
                      ELSE c[p]) \in Values
    BY <1>2, <1>5
  <2>2. QED
    BY <1>3, <2>1 DEF CoefficientMaps, G
<1>7. AcrossRows(new, w, l) = c
  <2> HIDE DEF G, row, newRow
  <2>1. \A p \in G : (IF Coarse(p, l) THEN HarrAt(newRow(p[2]), p[1], d)
                      ELSE new[p]) = c[p]
    BY <1>3, <1>5
  <2>2. c = [p \in G |-> c[p]]
    BY <1>2 DEF CoefficientMaps, G
  <2>3. QED
    BY <1>4, <2>1, <2>2
<1>8. QED
  BY <1>6, <1>7 DEF new

(* ... and all columns. *)
LEMMA ColumnsAreUndone ==
  ASSUME NEW l \in 0..2, NEW h \in Nat, h % 2^(l + 1) = 0, NEW w,
         NEW c, c \in CoefficientMaps(w, h)
  PROVE  /\ AlongColumns(c, h, l) \in CoefficientMaps(w, h)
         /\ AlongColumns(AlongColumns(c, h, l), h, l) = c
<1> DEFINE d == 2^l
           G == Grid(w, h)
           new == AlongColumns(c, h, l)
           column(x) == [y \in 0..(h - 1) |-> c[<<x, y>>]]
           newColumn(x) == [y \in 0..(h - 1) |-> new[<<x, y>>]]
<1>1. d \in Nat \ {0} /\ h % (2 * d) = 0
  <2>1. l \in 0..3 /\ l < 3
    OBVIOUS
  <2>2. d \in Nat \ {0} /\ 2^(l + 1) = 2 * d
    BY <2>1, SidesOfBlocks
  <2>3. QED
    BY <2>2
<1>2. DOMAIN c = G /\ \A p \in G : c[p] \in Values
  BY DEF CoefficientMaps
<1>3. new = [p \in G |-> IF Coarse(p, l) THEN HarrAt(column(p[1]), p[2], d)
                         ELSE c[p]]
  BY <1>2 DEF AlongColumns
<1>4. AlongColumns(new, h, l)
        = [p \in G |-> IF Coarse(p, l) THEN HarrAt(newColumn(p[1]), p[2], d)
                       ELSE new[p]]
  BY <1>3 DEF AlongColumns
<1> HIDE DEF new, d
<1>5. ASSUME NEW p \in G, Coarse(p, l)
      PROVE  /\ HarrAt(column(p[1]), p[2], d) \in Values
             /\ HarrAt(newColumn(p[1]), p[2], d) = c[p]
  <2> DEFINE x == p[1]
             at == column(x)
             next == newColumn(x)
  <2>1. /\ p[1] \in 0..(w - 1) /\ p[2] \in 0..(h - 1) /\ p = <<p[1], p[2]>>
        /\ p[1] % d = 0 /\ p[2] % d = 0
    BY <1>5 DEF Grid, Coarse, d
  <2>2. ASSUME NEW y \in 0..(h - 1)
        PROVE  at[y] = c[<<x, y>>] /\ next[y] = new[<<x, y>>] /\ <<x, y>> \in G
    BY <2>1 DEF Grid
  <2> HIDE DEF at, next, x
  <2>3. \A y \in 0..(h - 1) : at[y] \in Values
    BY <1>2, <2>2
  <2>4. ASSUME NEW y \in 0..(h - 1), y % d = 0
        PROVE  next[y] = HarrAt(at, y, d)
    <3>1. Coarse(<<x, y>>, l)
      BY <2>1, <2>4 DEF Coarse, d, x
    <3>2. new[<<x, y>>] = HarrAt(at, y, d)
      BY <1>3, <2>2, <3>1 DEF at
    <3>3. QED
      BY <2>2, <3>2
  <2>5. HarrAt(at, p[2], d) \in Values /\ HarrAt(next, p[2], d) = at[p[2]]
    BY <1>1, <2>1, <2>3, <2>4, RowIsUndone
  <2>6. at[p[2]] = c[p]
    BY <2>1, <2>2 DEF x
  <2>7. QED
    BY <2>5, <2>6 DEF at, next, x
<1>6. new \in CoefficientMaps(w, h)
  <2> HIDE DEF G, column
  <2>1. \A p \in G : (IF Coarse(p, l) THEN HarrAt(column(p[1]), p[2], d)
                      ELSE c[p]) \in Values
    BY <1>2, <1>5
  <2>2. QED
    BY <1>3, <2>1 DEF CoefficientMaps, G
<1>7. AlongColumns(new, h, l) = c
  <2> HIDE DEF G, column, newColumn
  <2>1. \A p \in G : (IF Coarse(p, l) THEN HarrAt(newColumn(p[1]), p[2], d)
                      ELSE new[p]) = c[p]
    BY <1>3, <1>5
  <2>2. c = [p \in G |-> c[p]]
    BY <1>2 DEF CoefficientMaps, G
  <2>3. QED
    BY <1>4, <2>1, <2>2
<1>8. QED
  BY <1>6, <1>7 DEF new

Filters == [Values -> Values]

Keeps(conv) == \A v \in Values : conv[v] = v

LevelReturns(conv, c, w, h, l) ==
  /\ Analysed(conv, c, w, h, l) \in CoefficientMaps(w, h)
  /\ Synthesized(c, w, h, l) \in CoefficientMaps(w, h)
  /\ Keeps(conv) => Synthesized(Analysed(conv, c, w, h, l), w, h, l) = c

(* A level keeps the shape of the coefficients, and is undone unless the   *)
(* filter changes them.                                                    *)
LEMMA LevelIsUndone ==
  ASSUME NEW l \in 0..2, NEW w \in Nat, NEW h \in Nat,
         w % 2^(l + 1) = 0, h % 2^(l + 1) = 0,
         NEW c, c \in CoefficientMaps(w, h), NEW conv, conv \in Filters
  PROVE  LevelReturns(conv, c, w, h, l)
<1> DEFINE rows == AcrossRows(c, w, l)
           both == AlongColumns(rows, h, l)
           back == AlongColumns(c, h, l)
<1>1. rows \in CoefficientMaps(w, h) /\ AcrossRows(rows, w, l) = c
  BY RowsAreUndone
<1> HIDE DEF rows
<1>2. both \in CoefficientMaps(w, h) /\ AlongColumns(both, h, l) = rows
  BY <1>1, ColumnsAreUndone
<1>3. back \in CoefficientMaps(w, h)
  BY ColumnsAreUndone
<1> HIDE DEF both, back
<1>4. AcrossRows(back, w, l) \in CoefficientMaps(w, h)
  BY <1>3, RowsAreUndone
<1>5. /\ FilterWaveletSquare(conv, both, l) \in CoefficientMaps(w, h)
      /\ Keeps(conv) => FilterWaveletSquare(conv, both, l) = both
  <2>1. DOMAIN both = Grid(w, h) /\ \A p \in Grid(w, h) : both[p] \in Values
    BY <1>2 DEF CoefficientMaps
  <2>2. FilterWaveletSquare(conv, both, l)
          = [p \in Grid(w, h) |->
               IF Coarse(p, l) /\ ~Coarse(p, l + 1)
               THEN conv[both[p]] ELSE both[p]]
    BY <2>1 DEF FilterWaveletSquare
  <2>3. \A p \in Grid(w, h) : (IF Coarse(p, l) /\ ~Coarse(p, l + 1)
               THEN conv[both[p]] ELSE both[p]) \in Values
    BY <2>1 DEF Filters
  <2>4. FilterWaveletSquare(conv, both, l) \in CoefficientMaps(w, h)
    BY <2>2, <2>3 DEF CoefficientMaps
  <2>5. ASSUME Keeps(conv) PROVE FilterWaveletSquare(conv, both, l) = both
    <3>1. \A p \in Grid(w, h) : (IF Coarse(p, l) /\ ~Coarse(p, l + 1)
               THEN conv[both[p]] ELSE both[p]) = both[p]
      BY <2>1, <2>5 DEF Keeps
    <3>2. both = [p \in Grid(w, h) |-> both[p]]
      BY <1>2 DEF CoefficientMaps
    <3>3. QED
      BY <2>2, <3>1, <3>2
  <2>6. QED
    BY <2>4, <2>5
<1>6. Analysed(conv, c, w, h, l) = FilterWaveletSquare(conv, both, l)
  BY DEF Analysed, both, rows
<1>7. Synthesized(c, w, h, l) = AcrossRows(back, w, l)
  BY DEF Synthesized, back
<1>8. Synthesized(both, w, h, l) = c
  BY <1>1, <1>2 DEF Synthesized
<1>9. QED
  BY <1>4, <1>5, <1>6, <1>7, <1>8 DEF LevelReturns

(* The levels of Wavelet() ... *)
LEMMA WaveletByLevel ==
  ASSUME NEW conv, NEW c, NEW w, NEW h, NEW level \in 1..3
  PROVE  LET c1 == Analysed(conv, c, w, h, 0)
             c2 == Analysed(conv, c1, w, h, 1)
             c3 == Analysed(conv, c2, w, h, 2)
         IN Wavelet(conv, c, w, h, level)
              = IF level = 1 THEN c1 ELSE IF level = 2 THEN c2 ELSE c3
<1> DEFINE c1 == Analysed(conv, c, w, h, 0)
           c2 == Analysed(conv, c1, w, h, 1)
           c3 == Analysed(conv, c2, w, h, 2)
           Of(f) == [l \in 0..level |->
                       IF l = 0 THEN c
                       ELSE Analysed(conv, f[l - 1], w, h, l - 1)]
           g == [l \in 0..level |-> IF l = 0 THEN c ELSE IF l = 1 THEN c1
                                    ELSE IF l = 2 THEN c2 ELSE c3]
           after == CHOOSE f : f = Of(f)
<1>1. g = Of(g)
  <2>1. ASSUME NEW l \in 0..level
        PROVE  g[l] = IF l = 0 THEN c
                      ELSE Analysed(conv, g[l - 1], w, h, l - 1)
    <3>1. l \in 0..3 /\ (l # 0 => l - 1 \in 0..level)
      OBVIOUS
    <3>2. /\ l = 0 => g[l] = c
          /\ l = 1 => g[l] = Analysed(conv, g[l - 1], w, h, l - 1)
          /\ l = 2 => g[l] = Analysed(conv, g[l - 1], w, h, l - 1)
          /\ l = 3 => g[l] = Analysed(conv, g[l - 1], w, h, l - 1)
      BY <3>1
    <3> HIDE DEF g
    <3>3. QED
      BY <3>1, <3>2
  <2>2. g = [l \in 0..level |-> g[l]]
    OBVIOUS
  <2> HIDE DEF g
  <2>3. QED
    BY <2>1, <2>2
<1>2. after = Of(after)
  <2> HIDE DEF g, Of
  <2>1. QED
    BY <1>1
<1>3. Wavelet(conv, c, w, h, level) = after[level]
  BY DEF Wavelet
<1> HIDE DEF after
<1>4. after[0] = c
  BY <1>2
<1>5. after[1] = c1
  <2>1. 1 \in 0..level /\ 1 # 0 /\ 1 - 1 = 0
    OBVIOUS
  <2>2. after[1] = Analysed(conv, after[0], w, h, 0)
    BY <1>2, <2>1
  <2>3. QED
    BY <1>4, <2>2
<1>6. level # 1 => after[2] = c2
  <2>1. SUFFICES ASSUME level # 1 PROVE after[2] = c2
    OBVIOUS
  <2>2. 2 \in 0..level /\ 2 # 0 /\ 2 - 1 = 1
    BY <2>1
  <2>3. after[2] = Analysed(conv, after[1], w, h, 1)
    BY <1>2, <2>2
  <2>4. QED
    BY <1>5, <2>3
<1>7. level = 3 => after[3] = c3
  <2>1. SUFFICES ASSUME level = 3 PROVE after[3] = c3
    OBVIOUS
  <2>2. 3 \in 0..level /\ 3 # 0 /\ 3 - 1 = 2 /\ level # 1
    BY <2>1
  <2>3. after[3] = Analysed(conv, after[2], w, h, 2)
    BY <1>2, <2>2
  <2>4. QED
    BY <1>6, <2>2, <2>3
<1> HIDE DEF c1, c2, c3
<1>8. level = 1 \/ level = 2 \/ level = 3
  OBVIOUS
<1>9. Wavelet(conv, c, w, h, level)
        = IF level = 1 THEN c1 ELSE IF level = 2 THEN c2 ELSE c3
  BY <1>3, <1>5, <1>6, <1>7, <1>8
<1>10. QED
  BY <1>9 DEF c1, c2, c3

(* ... and of InvWavelet(). *)
LEMMA InvWaveletByLevel ==
  ASSUME NEW c, NEW w, NEW h, NEW level \in 1..3
  PROVE  InvWavelet(c, w, h, level)
           = IF level = 1 THEN Synthesized(c, w, h, 0)
             ELSE IF level = 2
             THEN Synthesized(Synthesized(c, w, h, 1), w, h, 0)
             ELSE Synthesized(Synthesized(Synthesized(c, w, h, 2),
                                          w, h, 1), w, h, 0)
<1> DEFINE c1 == Synthesized(c, w, h, level - 1)
           c2 == Synthesized(c1, w, h, level - 2)
           c3 == Synthesized(c2, w, h, level - 3)
           Of(f) == [l \in 0..level |->
                       IF l = 0 THEN c
                       ELSE Synthesized(f[l - 1], w, h, level - l)]
           g == [l \in 0..level |-> IF l = 0 THEN c ELSE IF l = 1 THEN c1
                                    ELSE IF l = 2 THEN c2 ELSE c3]
           after == CHOOSE f : f = Of(f)
<1>1. g = Of(g)
  <2>1. ASSUME NEW l \in 0..level
        PROVE  g[l] = IF l = 0 THEN c
                      ELSE Synthesized(g[l - 1], w, h, level - l)
    <3>1. l \in 0..3 /\ (l # 0 => l - 1 \in 0..level)
      OBVIOUS
    <3>2. /\ l = 0 => g[l] = c
          /\ l = 1 => g[l] = Synthesized(g[l - 1], w, h, level - l)
          /\ l = 2 => g[l] = Synthesized(g[l - 1], w, h, level - l)
          /\ l = 3 => g[l] = Synthesized(g[l - 1], w, h, level - l)
      BY <3>1
    <3> HIDE DEF g
    <3>3. QED
      BY <3>1, <3>2
  <2>2. g = [l \in 0..level |-> g[l]]
    OBVIOUS
  <2> HIDE DEF g
  <2>3. QED
    BY <2>1, <2>2
<1>2. after = Of(after)
  <2> HIDE DEF g, Of
  <2>1. QED
    BY <1>1
<1>3. InvWavelet(c, w, h, level) = after[level]
  BY DEF InvWavelet
<1> HIDE DEF after
<1>4. after[0] = c
  BY <1>2
<1>5. after[1] = c1
  <2>1. 1 \in 0..level /\ 1 # 0 /\ 1 - 1 = 0
    OBVIOUS
  <2>2. after[1] = Synthesized(after[0], w, h, level - 1)
    BY <1>2, <2>1
  <2>3. QED
    BY <1>4, <2>2
<1>6. level # 1 => after[2] = c2
  <2>1. SUFFICES ASSUME level # 1 PROVE after[2] = c2
    OBVIOUS
  <2>2. 2 \in 0..level /\ 2 # 0 /\ 2 - 1 = 1
    BY <2>1
  <2>3. after[2] = Synthesized(after[1], w, h, level - 2)
    BY <1>2, <2>2
  <2>4. QED
    BY <1>5, <2>3
<1>7. level = 3 => after[3] = c3
  <2>1. SUFFICES ASSUME level = 3 PROVE after[3] = c3
    OBVIOUS
  <2>2. 3 \in 0..level /\ 3 # 0 /\ 3 - 1 = 2 /\ level # 1
    BY <2>1
  <2>3. after[3] = Synthesized(after[2], w, h, level - 3)
    BY <1>2, <2>2
  <2>4. QED
    BY <1>6, <2>2, <2>3
<1>8. CASE level = 1
  <2>1. level - 1 = 0
    BY <1>8
  <2>2. QED
    BY <1>3, <1>5, <1>8, <2>1
<1>9. CASE level = 2
  <2>1. level - 1 = 1 /\ level - 2 = 0 /\ level # 1
    BY <1>9
  <2>2. QED
    BY <1>3, <1>6, <1>9, <2>1
<1>10. CASE level = 3
  <2>1. /\ level - 1 = 2 /\ level - 2 = 1 /\ level - 3 = 0
        /\ level # 1 /\ level # 2
    BY <1>10
  <2>2. QED
    BY <1>3, <1>7, <1>10, <2>1
<1>11. QED
  BY <1>8, <1>9, <1>10
(* Blocks(n, level): the blocks of each of its levels divide a side. *)
Blocks(n, level) == n \in Nat /\ \A l \in 0..2 : l < level => n % 2^(l + 1) = 0

(* The part of a side that the level divides. *)
LEMMA AlignedIsBlocks ==
  ASSUME NEW n \in Nat, NEW level \in 1..3
  PROVE  /\ Blocks(Aligned(n, level), level)
         /\ Aligned(n, level) <= n
<1> DEFINE e == 2^level
           q == n \div e
           r == n % e
           a == Aligned(n, level)
<1>0. 2^1 = 2 /\ 2^2 = 4 /\ 2^3 = 8
  OBVIOUS
<1>1. e \in Nat \ {0} /\ level \in 0..3
  <2>1. level \in 0..3
    OBVIOUS
  <2>2. QED
    BY <2>1, SidesOfBlocks
<1>2. a = n - r
  BY DEF Aligned
<1> HIDE DEF e, a
<1>3. q \in Nat /\ r \in 0..(e - 1) /\ n = q * e + r /\ q * e \in Nat
  <2>1. q \in Nat /\ r \in 0..(e - 1) /\ n = q * e + r
    BY <1>1, Division
  <2>2. QED
    BY <1>1, <2>1
<1> HIDE DEF q, r
<1>4. a = q * e /\ a \in Nat /\ a <= n
  BY <1>1, <1>2, <1>3
<1>5. ASSUME NEW l \in 0..2, l < level
      PROVE  a % 2^(l + 1) = 0
  <2> DEFINE d == 2^(l + 1)
  <2>1. d \in Nat \ {0} /\ \E m \in Nat : e = m * d
    <3>1. CASE l = 0 /\ level = 1
      <4>1. l + 1 = 1
        BY <3>1
      <4>2. d = 2 /\ e = 2
        BY <1>0, <3>1, <4>1, Zenon DEF e
      <4>3. QED
        BY <4>2
    <3>2. CASE l = 0 /\ level = 2
      <4>1. l + 1 = 1
        BY <3>2
      <4>2. d = 2 /\ e = 4
        BY <1>0, <3>2, <4>1, Zenon DEF e
      <4>3. QED
        BY <4>2
    <3>3. CASE l = 0 /\ level = 3
      <4>1. l + 1 = 1
        BY <3>3
      <4>2. d = 2 /\ e = 8
        BY <1>0, <3>3, <4>1, Zenon DEF e
      <4>3. QED
        BY <4>2
    <3>4. CASE l = 1 /\ level = 2
      <4>1. l + 1 = 2
        BY <3>4
      <4>2. d = 4 /\ e = 4
        BY <1>0, <3>4, <4>1, Zenon DEF e
      <4>3. QED
        BY <4>2
    <3>5. CASE l = 1 /\ level = 3
      <4>1. l + 1 = 2
        BY <3>5
      <4>2. d = 4 /\ e = 8
        BY <1>0, <3>5, <4>1, Zenon DEF e
      <4>3. QED
        BY <4>2
    <3>6. CASE l = 2 /\ level = 3
      <4>1. l + 1 = 3
        BY <3>6
      <4>2. d = 8 /\ e = 8
        BY <1>0, <3>6, <4>1, Zenon DEF e
      <4>3. QED
        BY <4>2
    <3>7. /\ l = 0 \/ l = 1 \/ l = 2
          /\ level = 1 \/ level = 2 \/ level = 3
          /\ l < level
      BY <1>5
    <3>8. QED
      BY <3>1, <3>2, <3>3, <3>4, <3>5, <3>6, <3>7
  <2> HIDE DEF d
  <2>2. PICK m \in Nat : e = m * d
    BY <2>1
  <2> DEFINE k == q * m
  <2>3. k \in Nat /\ a = k * d + 0
    BY <1>3, <1>4, <2>1, <2>2
  <2>4. 0 \in 0..(d - 1)
    BY <2>1
  <2> HIDE DEF k
  <2>5. (k * d + 0) % d = 0
    BY <2>1, <2>3, <2>4, DivisionIsUnique
  <2>6. QED
    BY <2>3, <2>5 DEF d
<1>6. QED
  BY <1>4, <1>5 DEF Blocks, a

TransformReturns(conv, c, w, h, level) ==
  /\ Wavelet(conv, c, w, h, level) \in CoefficientMaps(w, h)
  /\ InvWavelet(c, w, h, level) \in CoefficientMaps(w, h)
  /\ Keeps(conv) => InvWavelet(Wavelet(conv, c, w, h, level), w, h, level) = c

(* The transform of a tile that the level divides. *)
LEMMA TransformIsUndone ==
  ASSUME NEW level \in 1..3, NEW w, NEW h, Blocks(w, level), Blocks(h, level),
         NEW c, c \in CoefficientMaps(w, h), NEW conv, conv \in Filters
  PROVE  TransformReturns(conv, c, w, h, level)
<1> DEFINE C == CoefficientMaps(w, h)
           A(b, l) == Analysed(conv, b, w, h, l)
           S(b, l) == Synthesized(b, w, h, l)
<1>1. ASSUME NEW b \in C, NEW l \in 0..2, l < level
      PROVE  /\ A(b, l) \in C /\ S(b, l) \in C
             /\ Keeps(conv) => S(A(b, l), l) = b
  <2>1. /\ w \in Nat /\ h \in Nat
        /\ w % 2^(l + 1) = 0 /\ h % 2^(l + 1) = 0
    BY <1>1 DEF Blocks
  <2>2. b \in CoefficientMaps(w, h) /\ conv \in Filters
    OBVIOUS
  <2>3. LevelReturns(conv, b, w, h, l)
    <3> HIDE DEF C, A, S
    <3>1. QED
      BY <2>1, <2>2, LevelIsUndone
  <2>4. QED
    BY <2>3 DEF LevelReturns
<1>2. c \in C
  OBVIOUS
<1>3. ASSUME NEW b \in C
      PROVE  /\ Wavelet(conv, b, w, h, level)
                  = IF level = 1 THEN A(b, 0)
                    ELSE IF level = 2 THEN A(A(b, 0), 1)
                    ELSE A(A(A(b, 0), 1), 2)
             /\ InvWavelet(b, w, h, level)
                  = IF level = 1 THEN S(b, 0)
                    ELSE IF level = 2 THEN S(S(b, 1), 0)
                    ELSE S(S(S(b, 2), 1), 0)
  BY WaveletByLevel, InvWaveletByLevel
<1> HIDE DEF A, S, C
<1>4. 0 \in 0..2 /\ 1 \in 0..2 /\ 2 \in 0..2
  OBVIOUS
<1>5. CASE level = 1
  <2>1. 0 < level
    BY <1>5
  <2>2. A(c, 0) \in C /\ S(c, 0) \in C /\ (Keeps(conv) => S(A(c, 0), 0) = c)
    BY <1>1, <1>2, <1>4, <2>1
  <2>3. \A b \in C : Wavelet(conv, b, w, h, level) = A(b, 0)
                     /\ InvWavelet(b, w, h, level) = S(b, 0)
    BY <1>3, <1>5
  <2>4. QED
    BY <1>2, <2>2, <2>3 DEF C, TransformReturns
<1>6. CASE level = 2
  <2>1. 0 < level /\ 1 < level /\ level # 1
    BY <1>6
  <2>2. /\ A(c, 0) \in C /\ A(A(c, 0), 1) \in C
        /\ S(c, 1) \in C /\ S(S(c, 1), 0) \in C
        /\ Keeps(conv) => S(A(A(c, 0), 1), 1) = A(c, 0)
        /\ Keeps(conv) => S(A(c, 0), 0) = c
    BY <1>1, <1>2, <1>4, <2>1
  <2>3. \A b \in C : Wavelet(conv, b, w, h, level) = A(A(b, 0), 1)
                     /\ InvWavelet(b, w, h, level) = S(S(b, 1), 0)
    BY <1>3, <1>6, <2>1
  <2>4. QED
    BY <1>2, <2>2, <2>3 DEF C, TransformReturns
<1>7. CASE level = 3
  <2>1. 0 < level /\ 1 < level /\ 2 < level /\ level # 1 /\ level # 2
    BY <1>7
  <2>2. /\ A(c, 0) \in C /\ A(A(c, 0), 1) \in C /\ A(A(A(c, 0), 1), 2) \in C
        /\ S(c, 2) \in C /\ S(S(c, 2), 1) \in C /\ S(S(S(c, 2), 1), 0) \in C
    BY <1>1, <1>2, <1>4, <2>1
  <2>3. Keeps(conv) => /\ S(A(A(A(c, 0), 1), 2), 2) = A(A(c, 0), 1)
                 /\ S(A(A(c, 0), 1), 1) = A(c, 0)
                 /\ S(A(c, 0), 0) = c
    BY <1>1, <1>2, <1>4, <2>1, <2>2
  <2>4. \A b \in C : Wavelet(conv, b, w, h, level) = A(A(A(b, 0), 1), 2)
                     /\ InvWavelet(b, w, h, level) = S(S(S(b, 2), 1), 0)
    BY <1>3, <1>7, <2>1
  <2>5. QED
    BY <1>2, <2>2, <2>3, <2>4 DEF C, TransformReturns
<1>8. level = 1 \/ level = 2 \/ level = 3
  OBVIOUS
<1>9. QED
  BY <1>5, <1>6, <1>7, <1>8

AllPoints == Int \X Int

Holds(list, p) == \E k \in DOMAIN list : list[k] = p

(* Two lists of points that follow each other hold the points of both. *)
LEMMA BothAreHeld ==
  ASSUME NEW s \in Seq(AllPoints), NEW t \in Seq(AllPoints)
  PROVE  /\ s \o t \in Seq(AllPoints)
         /\ \A p : Holds(s, p) \/ Holds(t, p) => Holds(s \o t, p)
<1>1. /\ s \o t \in Seq(AllPoints)
      /\ Len(s) \in Nat /\ Len(t) \in Nat /\ Len(s \o t) = Len(s) + Len(t)
      /\ DOMAIN s = 1..Len(s) /\ DOMAIN t = 1..Len(t)
      /\ DOMAIN (s \o t) = 1..Len(s \o t)
  OBVIOUS
<1>2. \A k \in 1..Len(s) : (s \o t)[k] = s[k] /\ k \in 1..(Len(s) + Len(t))
  OBVIOUS
<1>3. \A k \in 1..Len(t) : /\ (s \o t)[Len(s) + k] = t[k]
                           /\ Len(s) + k \in 1..(Len(s) + Len(t))
  OBVIOUS
<1>4. ASSUME NEW p, Holds(s, p)
      PROVE  Holds(s \o t, p)
  <2>1. PICK k \in 1..Len(s) : s[k] = p
    BY <1>1, <1>4 DEF Holds
  <2>2. k \in DOMAIN (s \o t) /\ (s \o t)[k] = p
    BY <1>1, <1>2, <2>1
  <2>3. QED
    BY <2>2, Zenon DEF Holds
<1>5. ASSUME NEW p, Holds(t, p)
      PROVE  Holds(s \o t, p)
  <2>1. PICK k \in 1..Len(t) : t[k] = p
    BY <1>1, <1>5 DEF Holds
  <2>2. Len(s) + k \in DOMAIN (s \o t) /\ (s \o t)[Len(s) + k] = p
    BY <1>1, <1>3, <2>1
  <2>3. QED
    BY <2>2, Zenon DEF Holds
<1>6. QED
  BY <1>1, <1>4, <1>5

(* A rectangle, row by row. *)
LEMMA RectangleIsHeld ==
  ASSUME NEW x \in Nat, NEW y \in Nat, NEW w \in Nat, NEW h \in Nat
  PROVE  /\ RowByRow(x, y, w, h) \in Seq(AllPoints)
         /\ \A i \in 0..(w - 1), j \in 0..(h - 1) :
              Holds(RowByRow(x, y, w, h), <<x + i, y + j>>)
<1> DEFINE n == w * h
           list == RowByRow(x, y, w, h)
<1>1. n \in Nat
  OBVIOUS
<1>2. list = [k \in 1..n |-> <<x + XOf(k, w), y + YOf(k, w)>>]
  BY DEF RowByRow, XOf, YOf
<1>3. ASSUME NEW k \in 1..n
      PROVE  <<x + XOf(k, w), y + YOf(k, w)>> \in AllPoints
  <2>1. w # 0 /\ h # 0
    BY <1>3
  <2>2. XOf(k, w) \in 0..(w - 1) /\ YOf(k, w) \in 0..(h - 1)
    BY <2>1, PointOfPlace
  <2>3. x + XOf(k, w) \in Int /\ y + YOf(k, w) \in Int
    BY <2>2
  <2>4. QED
    BY <2>3 DEF AllPoints
<1> HIDE DEF n, list
<1>4. list \in Seq(AllPoints)
  BY <1>1, <1>2, <1>3
<1>5. ASSUME NEW i \in 0..(w - 1), NEW j \in 0..(h - 1)
      PROVE  Holds(list, <<x + i, y + j>>)
  <2> DEFINE k == j * w + i + 1
  <2>1. w \in Nat \ {0} /\ h \in Nat \ {0}
    OBVIOUS
  <2>2. IsPlace(k, i, j, w, h)
    BY <2>1, PlaceOfPoint
  <2> HIDE DEF k
  <2>3. k \in DOMAIN list /\ list[k] = <<x + i, y + j>>
    BY <1>2, <2>2 DEF IsPlace, n
  <2>4. QED
    BY <2>3, Zenon DEF Holds
<1>6. QED
  BY <1>4, <1>5 DEF list

(* A sub-image: its points are a block apart. *)
LEMMA SubImageIsHeld ==
  ASSUME NEW l \in 0..2, NEW w \in Nat, NEW h \in Nat, NEW r \in 0..3,
         NEW x, NEW y,
         x = IF r \in {1, 3} THEN 2^l ELSE 0,
         y = IF r \in {2, 3} THEN 2^l ELSE 0
  PROVE  LET s == 2^(l + 1)
         IN  /\ SubImage(w, h, r, l) \in Seq(AllPoints)
             /\ \A i \in 0..((w \div s) - 1), j \in 0..((h \div s) - 1) :
                  Holds(SubImage(w, h, r, l), <<x + s * i, y + s * j>>)
<1> DEFINE s == 2^(l + 1)
           d == 2^l
           v == w \div s
           u == h \div s
           n == v * u
           list == SubImage(w, h, r, l)
<1>1. d \in Nat \ {0} /\ s = 2 * d /\ s \in Nat \ {0}
  <2>1. l \in 0..3 /\ l < 3
    OBVIOUS
  <2>2. d \in Nat \ {0} /\ s = 2 * d
    BY <2>1, SidesOfBlocks
  <2> HIDE DEF d, s
  <2>3. QED
    BY <2>2
<1>2. list = [k \in 1..n |-> <<x + s * XOf(k, v), y + s * YOf(k, v)>>]
  BY DEF SubImage, XOf, YOf
<1>3. x \in Nat /\ y \in Nat
  <2> HIDE DEF d
  <2>1. /\ x = (IF r \in {1, 3} THEN d ELSE 0)
        /\ y = (IF r \in {2, 3} THEN d ELSE 0)
    BY DEF d
  <2>2. QED
    BY <1>1, <2>1
<1> HIDE DEF s, d
<1>4. v \in Nat /\ u \in Nat
  BY <1>1, Division
<1> HIDE DEF v, u
<1>5. n \in Nat
  BY <1>4
<1>6. ASSUME NEW k \in 1..n
      PROVE  <<x + s * XOf(k, v), y + s * YOf(k, v)>> \in AllPoints
  <2>1. v # 0 /\ u # 0
    BY <1>4, <1>6
  <2>2. XOf(k, v) \in 0..(v - 1) /\ YOf(k, v) \in 0..(u - 1)
    BY <1>4, <2>1, PointOfPlace
  <2>3. XOf(k, v) \in Nat /\ YOf(k, v) \in Nat
    BY <1>4, <2>2
  <2>4. s * XOf(k, v) \in Nat /\ s * YOf(k, v) \in Nat
    BY <1>1, <2>3
  <2>5. x + s * XOf(k, v) \in Int /\ y + s * YOf(k, v) \in Int
    BY <1>3, <2>4
  <2>6. QED
    BY <2>5 DEF AllPoints
<1> HIDE DEF n, list
<1>7. list \in Seq(AllPoints)
  BY <1>2, <1>5, <1>6
<1>8. ASSUME NEW i \in 0..(v - 1), NEW j \in 0..(u - 1)
      PROVE  Holds(list, <<x + s * i, y + s * j>>)
  <2> DEFINE k == j * v + i + 1
  <2>1. v \in Nat \ {0} /\ u \in Nat \ {0}
    BY <1>4, <1>8
  <2>2. IsPlace(k, i, j, v, u)
    BY <2>1, PlaceOfPoint
  <2> HIDE DEF k
  <2>3. k \in DOMAIN list /\ list[k] = <<x + s * i, y + s * j>>
    BY <1>2, <2>2 DEF IsPlace, n
  <2>4. QED
    BY <2>3, Zenon DEF Holds
<1>9. QED
  BY <1>7, <1>8 DEF list, s, v, u

(* Where a coordinate of a level is in the sub-images of the level. *)
LEMMA PlaceInBlocks ==
  ASSUME NEW d \in Nat \ {0}, NEW w \in Nat, w % (2 * d) = 0,
         NEW x \in 0..(w - 1), x % d = 0
  PROVE  \E i \in 0..((w \div (2 * d)) - 1) :
           \/ x = 0 + (2 * d) * i /\ x % (2 * d) = 0
           \/ x = d + (2 * d) * i /\ x % (2 * d) # 0
<1> DEFINE e == 2 * d
           n == w \div e
<1>1. e \in Nat \ {0} /\ d # 0
  OBVIOUS
<1>2. n \in Nat /\ w = n * e
  <2>1. w % e = 0
    OBVIOUS
  <2> HIDE DEF e
  <2>2. w = n * e + (w % e) /\ n \in Nat
    BY <1>1, Division
  <2>3. n * e \in Nat
    BY <1>1, <2>2
  <2>4. QED
    BY <2>1, <2>2, <2>3
<1>3. PICK i \in Nat : \/ x = i * e /\ x % e = 0
                       \/ x = i * e + d /\ x % e = d
  <2>1. x \in Nat
    OBVIOUS
  <2>2. QED
    BY <2>1, EvenOrOdd
<1>4. e * i = i * e /\ i * e \in Nat
  BY <1>1, <1>3
<1>5. i < n
  <2>1. i * e < n * e
    BY <1>1, <1>2, <1>3, <1>4
  <2>2. ASSUME n <= i PROVE FALSE
    <3>1. n * e <= i * e
      BY <1>1, <1>2, <1>3, <2>2, LargerProduct
    <3>2. n * e \in Nat
      BY <1>1, <1>2
    <3>3. QED
      BY <1>4, <2>1, <3>1, <3>2
  <2>3. QED
    BY <1>2, <1>3, <2>2
<1> HIDE DEF e, n
<1>6. i \in 0..(n - 1)
  BY <1>2, <1>3, <1>5
<1>7. \/ x = 0 + e * i /\ x % e = 0
      \/ x = d + e * i /\ x % e # 0
  BY <1>1, <1>3, <1>4
<1>8. QED
  BY <1>6, <1>7 DEF e, n

(* The four sub-images of a level hold the points of the level, the first  *)
(* those of the next.                                                      *)
LEMMA LevelIsHeld ==
  ASSUME NEW l \in 0..2, NEW w \in Nat, NEW h \in Nat,
         w % 2^(l + 1) = 0, h % 2^(l + 1) = 0
  PROVE  /\ SubImage(w, h, 0, l) \in Seq(AllPoints)
         /\ FineValues(w, h, l) \in Seq(AllPoints)
         /\ \A p \in Grid(w, h) : Coarse(p, l) =>
              IF Coarse(p, l + 1) THEN Holds(SubImage(w, h, 0, l), p)
              ELSE Holds(FineValues(w, h, l), p)
<1> DEFINE s == 2^(l + 1)
           d == 2^l
           v == w \div s
           u == h \div s
           S(r) == SubImage(w, h, r, l)
<1>1. d \in Nat \ {0} /\ s = 2 * d /\ s \in Nat \ {0}
  <2>1. l \in 0..3 /\ l < 3
    OBVIOUS
  <2>2. d \in Nat \ {0} /\ s = 2 * d
    BY <2>1, SidesOfBlocks
  <2> HIDE DEF d, s
  <2>3. QED
    BY <2>2
<1>2. ASSUME NEW r \in 0..3, NEW x, NEW y,
             x = IF r \in {1, 3} THEN d ELSE 0,
             y = IF r \in {2, 3} THEN d ELSE 0
      PROVE  /\ S(r) \in Seq(AllPoints)
             /\ \A i \in 0..(v - 1), j \in 0..(u - 1) :
                  Holds(S(r), <<x + s * i, y + s * j>>)
  BY <1>2, SubImageIsHeld
<1> HIDE DEF S
<1>3. /\ S(0) \in Seq(AllPoints)
      /\ \A i \in 0..(v - 1), j \in 0..(u - 1) :
           Holds(S(0), <<0 + s * i, 0 + s * j>>)
  <2>1. 0 \in 0..3 /\ 0 \notin {1, 3} /\ 0 \notin {2, 3}
    OBVIOUS
  <2> HIDE DEF d, s, v, u
  <2>2. QED
    BY <1>2, <2>1
<1>4. /\ S(1) \in Seq(AllPoints)
      /\ \A i \in 0..(v - 1), j \in 0..(u - 1) :
           Holds(S(1), <<d + s * i, 0 + s * j>>)
  <2>1. 1 \in 0..3 /\ 1 \in {1, 3} /\ 1 \notin {2, 3}
    OBVIOUS
  <2> HIDE DEF d, s, v, u
  <2>2. QED
    BY <1>2, <2>1
<1>5. /\ S(2) \in Seq(AllPoints)
      /\ \A i \in 0..(v - 1), j \in 0..(u - 1) :
           Holds(S(2), <<0 + s * i, d + s * j>>)
  <2>1. 2 \in 0..3 /\ 2 \notin {1, 3} /\ 2 \in {2, 3}
    OBVIOUS
  <2> HIDE DEF d, s, v, u
  <2>2. QED
    BY <1>2, <2>1
<1>6. /\ S(3) \in Seq(AllPoints)
      /\ \A i \in 0..(v - 1), j \in 0..(u - 1) :
           Holds(S(3), <<d + s * i, d + s * j>>)
  <2>1. 3 \in 0..3 /\ 3 \in {1, 3} /\ 3 \in {2, 3}
    OBVIOUS
  <2> HIDE DEF d, s, v, u
  <2>2. QED
    BY <1>2, <2>1
<1>7. FineValues(w, h, l) = (S(3) \o S(2)) \o S(1)
  BY DEF FineValues, S
<1>8. S(3) \o S(2) \in Seq(AllPoints)
      /\ \A p : Holds(S(3), p) \/ Holds(S(2), p) => Holds(S(3) \o S(2), p)
  BY <1>5, <1>6, BothAreHeld
<1>9. /\ FineValues(w, h, l) \in Seq(AllPoints)
      /\ \A p : Holds(S(3), p) \/ Holds(S(2), p) \/ Holds(S(1), p)
                  => Holds(FineValues(w, h, l), p)
  <2>1. /\ (S(3) \o S(2)) \o S(1) \in Seq(AllPoints)
        /\ \A p : Holds(S(3) \o S(2), p) \/ Holds(S(1), p)
                    => Holds((S(3) \o S(2)) \o S(1), p)
    BY <1>4, <1>8, BothAreHeld
  <2>2. QED
    BY <1>7, <1>8, <2>1, Zenon
<1>10. ASSUME NEW p \in Grid(w, h), Coarse(p, l)
       PROVE  IF Coarse(p, l + 1) THEN Holds(S(0), p)
              ELSE Holds(FineValues(w, h, l), p)
  <2>1. /\ p[1] \in 0..(w - 1) /\ p[2] \in 0..(h - 1) /\ p = <<p[1], p[2]>>
        /\ p[1] % d = 0 /\ p[2] % d = 0
    BY <1>10 DEF Grid, Coarse
  <2>2. Coarse(p, l + 1) <=> p[1] % s = 0 /\ p[2] % s = 0
    BY DEF Coarse
  <2>3. w % (2 * d) = 0 /\ h % (2 * d) = 0
    BY <1>1
  <2>4. PICK i \in 0..(v - 1) : \/ p[1] = 0 + s * i /\ p[1] % s = 0
                                \/ p[1] = d + s * i /\ p[1] % s # 0
    <3> HIDE DEF d
    <3>1. \E i \in 0..((w \div (2 * d)) - 1) :
            \/ p[1] = 0 + (2 * d) * i /\ p[1] % (2 * d) = 0
            \/ p[1] = d + (2 * d) * i /\ p[1] % (2 * d) # 0
      BY <1>1, <2>1, <2>3, PlaceInBlocks
    <3> HIDE DEF s
    <3>2. QED
      BY <1>1, <3>1
  <2>5. PICK j \in 0..(u - 1) : \/ p[2] = 0 + s * j /\ p[2] % s = 0
                                \/ p[2] = d + s * j /\ p[2] % s # 0
    <3> HIDE DEF d
    <3>1. \E j \in 0..((h \div (2 * d)) - 1) :
            \/ p[2] = 0 + (2 * d) * j /\ p[2] % (2 * d) = 0
            \/ p[2] = d + (2 * d) * j /\ p[2] % (2 * d) # 0
      BY <1>1, <2>1, <2>3, PlaceInBlocks
    <3> HIDE DEF s
    <3>2. QED
      BY <1>1, <3>1
  <2> HIDE DEF d, s, v, u
  <2>6. /\ Holds(S(0), <<0 + s * i, 0 + s * j>>)
        /\ Holds(S(1), <<d + s * i, 0 + s * j>>)
        /\ Holds(S(2), <<0 + s * i, d + s * j>>)
        /\ Holds(S(3), <<d + s * i, d + s * j>>)
    BY <1>3, <1>4, <1>5, <1>6
  <2> DEFINE i0 == 0 + s * i
             i1 == d + s * i
             j0 == 0 + s * j
             j1 == d + s * j
  <2> HIDE DEF i0, i1, j0, j1
  <2>7. CASE p[1] = i0 /\ p[1] % s = 0 /\ p[2] = j0 /\ p[2] % s = 0
    BY <2>1, <2>2, <2>6, <2>7, Zenon DEF i0, j0
  <2>8. CASE p[1] = i1 /\ p[1] % s # 0 /\ p[2] = j0 /\ p[2] % s = 0
    BY <1>9, <2>1, <2>2, <2>6, <2>8, Zenon DEF i1, j0
  <2>9. CASE p[1] = i0 /\ p[1] % s = 0 /\ p[2] = j1 /\ p[2] % s # 0
    BY <1>9, <2>1, <2>2, <2>6, <2>9, Zenon DEF i0, j1
  <2>10. CASE p[1] = i1 /\ p[1] % s # 0 /\ p[2] = j1 /\ p[2] % s # 0
    BY <1>9, <2>1, <2>2, <2>6, <2>10, Zenon DEF i1, j1
  <2>11. QED
    BY <2>4, <2>5, <2>7, <2>8, <2>9, <2>10, Zenon DEF i0, i1, j0, j1
<1>11. QED
  BY <1>3, <1>9, <1>10 DEF S

(* The coefficients, level by level. *)
LEMMA OrderByLevel ==
  ASSUME NEW w, NEW h, NEW level \in 1..3
  PROVE  LET f1 == <<>> \o FineValues(w, h, 0)
             f2 == f1 \o FineValues(w, h, 1)
             f3 == f2 \o FineValues(w, h, 2)
         IN CoefficientOrder(w, h, level)
              = IF level = 1 THEN f1 \o SubImage(w, h, 0, 0)
                ELSE IF level = 2 THEN f2 \o SubImage(w, h, 0, 1)
                ELSE f3 \o SubImage(w, h, 0, 2)
<1> DEFINE f1 == <<>> \o FineValues(w, h, 0)
           f2 == f1 \o FineValues(w, h, 1)
           f3 == f2 \o FineValues(w, h, 2)
           Of(f) == [l \in 0..level |->
                       IF l = 0 THEN <<>>
                       ELSE f[l - 1] \o FineValues(w, h, l - 1)]
           g == [l \in 0..level |-> IF l = 0 THEN <<>> ELSE IF l = 1 THEN f1
                                    ELSE IF l = 2 THEN f2 ELSE f3]
           upTo == CHOOSE f : f = Of(f)
<1>1. g = Of(g)
  <2>1. ASSUME NEW l \in 0..level
        PROVE  g[l] = IF l = 0 THEN <<>>
                      ELSE g[l - 1] \o FineValues(w, h, l - 1)
    <3>1. l \in 0..3 /\ (l # 0 => l - 1 \in 0..level)
      OBVIOUS
    <3>2. l = 0 => g[l] = <<>>
      BY <3>1
    <3>3. l = 1 => g[l] = g[l - 1] \o FineValues(w, h, l - 1)
      <4>1. SUFFICES ASSUME l = 1
                     PROVE  g[l] = g[l - 1] \o FineValues(w, h, l - 1)
        OBVIOUS
      <4>2. l - 1 = 0 /\ 0 \in 0..level /\ l # 0
        BY <4>1
      <4>3. g[l] = f1 /\ g[0] = <<>>
        BY <4>1, <4>2
      <4> HIDE DEF g
      <4>4. QED
        BY <4>2, <4>3, Zenon
    <3>4. l = 2 => g[l] = g[l - 1] \o FineValues(w, h, l - 1)
      <4>1. SUFFICES ASSUME l = 2
                     PROVE  g[l] = g[l - 1] \o FineValues(w, h, l - 1)
        OBVIOUS
      <4>2. l - 1 = 1 /\ 1 \in 0..level /\ l # 0 /\ l # 1 /\ 1 # 0
        BY <4>1
      <4> HIDE DEF f1, f2
      <4>3. g[l] = f2 /\ g[1] = f1
        BY <4>1, <4>2
      <4> HIDE DEF g
      <4>4. QED
        BY <4>2, <4>3, Zenon DEF f2
    <3>5. l = 3 => g[l] = g[l - 1] \o FineValues(w, h, l - 1)
      <4>1. SUFFICES ASSUME l = 3
                     PROVE  g[l] = g[l - 1] \o FineValues(w, h, l - 1)
        OBVIOUS
      <4>2. /\ l - 1 = 2 /\ 2 \in 0..level /\ l # 0 /\ l # 1 /\ l # 2
            /\ 2 # 0 /\ 2 # 1
        BY <4>1
      <4> HIDE DEF f1, f2, f3
      <4>3. g[l] = f3 /\ g[2] = f2
        BY <4>1, <4>2
      <4> HIDE DEF g
      <4>4. QED
        BY <4>2, <4>3, Zenon DEF f3
    <3> HIDE DEF g
    <3>6. /\ l = 0 \/ l = 1 \/ l = 2 \/ l = 3
          /\ l = 1 => l # 0
          /\ l = 2 => l # 0
          /\ l = 3 => l # 0
      BY <3>1
    <3>7. QED
      BY <3>2, <3>3, <3>4, <3>5, <3>6, Zenon
  <2>2. g = [l \in 0..level |-> g[l]]
    <3> HIDE DEF f1, f2, f3
    <3>1. QED
      OBVIOUS
  <2> HIDE DEF g
  <2>3. QED
    BY <2>1, <2>2
<1>2. upTo = Of(upTo)
  <2> HIDE DEF g, Of
  <2>1. QED
    BY <1>1
<1>3. CoefficientOrder(w, h, level)
        = upTo[level] \o SubImage(w, h, 0, level - 1)
  BY DEF CoefficientOrder
<1> HIDE DEF upTo
<1>4. upTo[0] = <<>>
  BY <1>2
<1>5. upTo[1] = f1
  <2>1. 1 \in 0..level /\ 1 # 0 /\ 1 - 1 = 0
    OBVIOUS
  <2>2. upTo[1] = upTo[0] \o FineValues(w, h, 0)
    BY <1>2, <2>1
  <2>3. QED
    BY <1>4, <2>2, Zenon
<1>6. level # 1 => upTo[2] = f2
  <2>1. SUFFICES ASSUME level # 1 PROVE upTo[2] = f2
    OBVIOUS
  <2>2. 2 \in 0..level /\ 2 # 0 /\ 2 - 1 = 1
    BY <2>1
  <2>3. upTo[2] = upTo[1] \o FineValues(w, h, 1)
    BY <1>2, <2>2
  <2>4. QED
    BY <1>5, <2>3, Zenon
<1>7. level = 3 => upTo[3] = f3
  <2>1. SUFFICES ASSUME level = 3 PROVE upTo[3] = f3
    OBVIOUS
  <2>2. 3 \in 0..level /\ 3 # 0 /\ 3 - 1 = 2 /\ level # 1
    BY <2>1
  <2>3. upTo[3] = upTo[2] \o FineValues(w, h, 2)
    BY <1>2, <2>2
  <2>4. QED
    BY <1>6, <2>2, <2>3, Zenon
<1> HIDE DEF f1, f2, f3
<1>8. CASE level = 1
  <2>1. level - 1 = 0
    BY <1>8
  <2>2. CoefficientOrder(w, h, level) = f1 \o SubImage(w, h, 0, 0)
    BY <1>3, <1>5, <1>8, <2>1, Zenon
  <2>3. QED
    BY <1>8, <2>2, Zenon DEF f1, f2, f3
<1>9. CASE level = 2
  <2>1. level - 1 = 1 /\ level # 1
    BY <1>9
  <2>2. CoefficientOrder(w, h, level) = f2 \o SubImage(w, h, 0, 1)
    BY <1>3, <1>6, <1>9, <2>1, Zenon
  <2>3. QED
    BY <1>9, <2>1, <2>2, Zenon DEF f1, f2, f3
<1>10. CASE level = 3
  <2>1. level - 1 = 2 /\ level # 1 /\ level # 2
    BY <1>10
  <2>2. CoefficientOrder(w, h, level) = f3 \o SubImage(w, h, 0, 2)
    BY <1>3, <1>7, <1>10, <2>1, Zenon
  <2>3. QED
    BY <1>10, <2>1, <2>2, Zenon DEF f1, f2, f3
<1>11. QED
  BY <1>8, <1>9, <1>10

(* The coefficients of every point are in the order. *)
LEMMA CoefficientsAreHeld ==
  ASSUME NEW level \in 1..3, NEW w, NEW h, Blocks(w, level), Blocks(h, level)
  PROVE  /\ CoefficientOrder(w, h, level) \in Seq(AllPoints)
         /\ \A p \in Grid(w, h) : Holds(CoefficientOrder(w, h, level), p)
<1> DEFINE F(l) == FineValues(w, h, l)
           S(l) == SubImage(w, h, 0, l)
           order == CoefficientOrder(w, h, level)
<1>1. ASSUME NEW l \in 0..2, l < level
      PROVE  /\ S(l) \in Seq(AllPoints) /\ F(l) \in Seq(AllPoints)
             /\ \A p \in Grid(w, h) : Coarse(p, l) =>
                  IF Coarse(p, l + 1) THEN Holds(S(l), p) ELSE Holds(F(l), p)
  <2>1. /\ w \in Nat /\ h \in Nat
        /\ w % 2^(l + 1) = 0 /\ h % 2^(l + 1) = 0
    BY <1>1 DEF Blocks
  <2>2. QED
    BY <2>1, LevelIsHeld
<1>2. \A p \in Grid(w, h) : Coarse(p, 0)
  <2>1. 2^0 = 1
    OBVIOUS
  <2>2. ASSUME NEW p \in Grid(w, h) PROVE Coarse(p, 0)
    <3>1. p[1] \in Int /\ p[2] \in Int
      BY DEF Grid
    <3>2. p[1] % 1 = 0 /\ p[2] % 1 = 0
      BY <3>1
    <3>3. QED
      BY <2>1, <3>2, Zenon DEF Coarse
  <2>3. QED
    BY <2>2
<1> DEFINE f1 == <<>> \o F(0)
           f2 == f1 \o F(1)
           f3 == f2 \o F(2)
<1>3. order = IF level = 1 THEN f1 \o S(0) ELSE IF level = 2 THEN f2 \o S(1)
              ELSE f3 \o S(2)
  BY OrderByLevel, Zenon
<1> HIDE DEF F, S, order
<1>4. /\ 0 \in 0..2 /\ 1 \in 0..2 /\ 2 \in 0..2
      /\ 0 + 1 = 1 /\ 1 + 1 = 2 /\ 0 < level
  OBVIOUS
<1>5. /\ S(0) \in Seq(AllPoints) /\ F(0) \in Seq(AllPoints)
      /\ \A p \in Grid(w, h) :
           IF Coarse(p, 1) THEN Holds(S(0), p) ELSE Holds(F(0), p)
  BY <1>1, <1>2, <1>4
<1>6. f1 \in Seq(AllPoints) /\ \A p : Holds(F(0), p) => Holds(f1, p)
  <2>1. <<>> \in Seq(AllPoints)
    OBVIOUS
  <2>2. QED
    BY <1>5, <2>1, BothAreHeld
<1> HIDE DEF f1
<1>7. CASE level = 1
  <2>1. /\ f1 \o S(0) \in Seq(AllPoints)
        /\ \A p : Holds(f1, p) \/ Holds(S(0), p) => Holds(f1 \o S(0), p)
    BY <1>5, <1>6, BothAreHeld
  <2>2. order = f1 \o S(0)
    BY <1>3, <1>7, Zenon
  <2>3. QED
    BY <1>5, <1>6, <2>1, <2>2, Zenon DEF order
<1>8. ASSUME level # 1
      PROVE  /\ S(1) \in Seq(AllPoints) /\ F(1) \in Seq(AllPoints)
             /\ \A p \in Grid(w, h) : Coarse(p, 1) =>
                  IF Coarse(p, 2) THEN Holds(S(1), p) ELSE Holds(F(1), p)
             /\ f2 \in Seq(AllPoints)
             /\ \A p : Holds(f1, p) \/ Holds(F(1), p) => Holds(f2, p)
  <2>1. 1 < level
    BY <1>8
  <2>2. /\ S(1) \in Seq(AllPoints) /\ F(1) \in Seq(AllPoints)
        /\ \A p \in Grid(w, h) : Coarse(p, 1) =>
             IF Coarse(p, 2) THEN Holds(S(1), p) ELSE Holds(F(1), p)
    BY <1>1, <1>4, <2>1
  <2>3. /\ f2 \in Seq(AllPoints)
        /\ \A p : Holds(f1, p) \/ Holds(F(1), p) => Holds(f2, p)
    BY <1>6, <2>2, BothAreHeld
  <2>4. QED
    BY <2>2, <2>3, Zenon
<1> HIDE DEF f2
<1>9. CASE level = 2
  <2>1. level # 1
    BY <1>9
  <2>2. /\ f2 \o S(1) \in Seq(AllPoints)
        /\ \A p : Holds(f2, p) \/ Holds(S(1), p) => Holds(f2 \o S(1), p)
    BY <1>8, <2>1, BothAreHeld
  <2>3. order = f2 \o S(1)
    BY <1>3, <1>9, <2>1, Zenon
  <2>4. QED
    BY <1>5, <1>6, <1>8, <2>1, <2>2, <2>3, Zenon DEF order
<1>10. CASE level = 3
  <2>1. level # 1 /\ level # 2 /\ 2 < level
    BY <1>10
  <2>2. /\ S(2) \in Seq(AllPoints) /\ F(2) \in Seq(AllPoints)
        /\ \A p \in Grid(w, h) : Coarse(p, 2) =>
             (Holds(S(2), p) \/ Holds(F(2), p))
    BY <1>1, <1>4, <2>1
  <2>3. /\ f3 \in Seq(AllPoints)
        /\ \A p : Holds(f2, p) \/ Holds(F(2), p) => Holds(f3, p)
    BY <1>8, <2>1, <2>2, BothAreHeld
  <2> HIDE DEF f3
  <2>4. /\ f3 \o S(2) \in Seq(AllPoints)
        /\ \A p : Holds(f3, p) \/ Holds(S(2), p) => Holds(f3 \o S(2), p)
    BY <2>2, <2>3, BothAreHeld
  <2>5. order = f3 \o S(2)
    BY <1>3, <2>1, Zenon
  <2>6. ASSUME NEW p \in Grid(w, h) PROVE Holds(f3 \o S(2), p)
    <3>1. Holds(F(0), p) \/ Coarse(p, 1)
      BY <1>5, Zenon
    <3>2. Coarse(p, 1) => Holds(F(1), p) \/ Coarse(p, 2)
      BY <1>8, <2>1, Zenon
    <3>3. QED
      BY <1>6, <1>8, <2>1, <2>2, <2>3, <2>4, <3>1, <3>2, Zenon
  <2>7. QED
    BY <2>4, <2>5, <2>6, Zenon DEF order
<1>11. level = 1 \/ level = 2 \/ level = 3
  OBVIOUS
<1>12. QED
  BY <1>7, <1>9, <1>10, <1>11

(* Every point of a tile is sent: the coefficients of the part that the    *)
(* level divides, then the pixels to the right, below and at the corner.   *)
LEMMA TileIsHeld ==
  ASSUME NEW level \in 1..3, NEW w \in Nat, NEW h \in Nat,
         NEW p \in Grid(w, h)
  PROVE  Holds(WireOrder(w, h, level), p)
<1> DEFINE aw == Aligned(w, level)
           ah == Aligned(h, level)
           inner == CoefficientOrder(aw, ah, level)
           right == RowByRow(aw, 0, w - aw, ah)
           below == RowByRow(0, ah, aw, h - ah)
           corner == RowByRow(aw, ah, w - aw, h - ah)
           outer == UnalignedOrder(w, h, level)
<1>1. Blocks(aw, level) /\ Blocks(ah, level) /\ aw <= w /\ ah <= h
  BY AlignedIsBlocks
<1>2. WireOrder(w, h, level)
        = IF Untouched(w, h, level) THEN RowByRow(0, 0, w, h)
          ELSE inner \o outer
  BY Zenon DEF WireOrder
<1>3. outer = (right \o below) \o corner
  BY Zenon DEF UnalignedOrder
<1>4. inner \in Seq(AllPoints) /\ \A q \in Grid(aw, ah) : Holds(inner, q)
  BY <1>1, CoefficientsAreHeld
<1> HIDE DEF aw, ah, inner, outer
<1>5. aw \in Nat /\ ah \in Nat /\ w - aw \in Nat /\ h - ah \in Nat
  BY <1>1 DEF Blocks
<1>6. p[1] \in 0..(w - 1) /\ p[2] \in 0..(h - 1) /\ p = <<p[1], p[2]>>
  BY DEF Grid
<1>7. CASE Untouched(w, h, level)
  <2>1. Holds(RowByRow(0, 0, w, h), <<0 + p[1], 0 + p[2]>>)
    BY <1>6, RectangleIsHeld
  <2>2. 0 + p[1] = p[1] /\ 0 + p[2] = p[2]
    BY <1>6
  <2>3. Holds(RowByRow(0, 0, w, h), p)
    BY <1>6, <2>1, <2>2, Zenon
  <2>4. QED
    BY <1>2, <1>7, <2>3, Zenon
<1>8. right \in Seq(AllPoints) /\ below \in Seq(AllPoints)
      /\ corner \in Seq(AllPoints)
  BY <1>5, RectangleIsHeld
<1>9. /\ outer \in Seq(AllPoints)
      /\ \A q : Holds(right, q) \/ Holds(below, q) \/ Holds(corner, q)
                  => Holds(outer, q)
  <2> HIDE DEF right, below, corner
  <2>1. /\ right \o below \in Seq(AllPoints)
        /\ \A q : Holds(right, q) \/ Holds(below, q) => Holds(right \o below, q)
    BY <1>8, BothAreHeld
  <2>2. /\ (right \o below) \o corner \in Seq(AllPoints)
        /\ \A q : Holds(right \o below, q) \/ Holds(corner, q)
                    => Holds((right \o below) \o corner, q)
    BY <1>8, <2>1, BothAreHeld
  <2>3. QED
    BY <1>3, <2>1, <2>2, Zenon
<1>10. \A q : Holds(inner, q) \/ Holds(outer, q) => Holds(inner \o outer, q)
  BY <1>4, <1>9, BothAreHeld
<1>11. CASE p[1] < aw /\ p[2] < ah
  <2>1. p \in Grid(aw, ah)
    BY <1>5, <1>6, <1>11 DEF Grid
  <2>2. Holds(inner, p)
    BY <1>4, <2>1
  <2>3. QED
    BY <2>2, <1>2, <1>7, <1>10, Zenon
<1>12. CASE ~(p[1] < aw) /\ p[2] < ah
  <2> DEFINE i == p[1] - aw
             j == p[2]
  <2>1. i \in 0..((w - aw) - 1) /\ j \in 0..(ah - 1)
        /\ aw + i = p[1] /\ 0 + j = p[2]
    BY <1>5, <1>6, <1>12
  <2> HIDE DEF i, j
  <2>2. Holds(right, <<aw + i, 0 + j>>)
    BY <1>5, <2>1, RectangleIsHeld
  <2>3. Holds(right, p)
    BY <1>6, <2>1, <2>2, Zenon
  <2>4. QED
    BY <2>3, <1>2, <1>7, <1>9, <1>10, Zenon
<1>13. CASE p[1] < aw /\ ~(p[2] < ah)
  <2> DEFINE i == p[1]
             j == p[2] - ah
  <2>1. i \in 0..(aw - 1) /\ j \in 0..((h - ah) - 1)
        /\ 0 + i = p[1] /\ ah + j = p[2]
    BY <1>5, <1>6, <1>13
  <2> HIDE DEF i, j
  <2>2. Holds(below, <<0 + i, ah + j>>)
    BY <1>5, <2>1, RectangleIsHeld
  <2>3. Holds(below, p)
    BY <1>6, <2>1, <2>2, Zenon
  <2>4. QED
    BY <2>3, <1>2, <1>7, <1>9, <1>10, Zenon
<1>14. CASE ~(p[1] < aw) /\ ~(p[2] < ah)
  <2> DEFINE i == p[1] - aw
             j == p[2] - ah
  <2>1. i \in 0..((w - aw) - 1) /\ j \in 0..((h - ah) - 1)
        /\ aw + i = p[1] /\ ah + j = p[2]
    BY <1>5, <1>6, <1>14
  <2> HIDE DEF i, j
  <2>2. Holds(corner, <<aw + i, ah + j>>)
    BY <1>5, <2>1, RectangleIsHeld
  <2>3. Holds(corner, p)
    BY <1>6, <2>1, <2>2, Zenon
  <2>4. QED
    BY <2>3, <1>2, <1>7, <1>9, <1>10, Zenon
<1>15. QED
  BY <1>11, <1>12, <1>13, <1>14

(* The coefficients of the tile, ... *)
CoefficientsOf(conv, tile, level) ==
  LET aw == Aligned(tile.w, level)  ah == Aligned(tile.h, level)
  IN Wavelet(conv, [p \in Grid(aw, ah) |-> Centred(tile.px[p])], aw, ah, level)

(* ... and what is sent of a point. *)
SentOf(p) ==
  LET coefs == CoefficientsOf(waveletFilter, waveletTile, waveletLevel)
  IN IF p \in DOMAIN coefs THEN coefs[p] ELSE waveletTile.px[p]

WaveletOrder == WireOrder(waveletTile.w, waveletTile.h, waveletLevel)

WaveletInv ==
  /\ waveletTile \in WaveletTiles /\ waveletLevel \in WaveletLevels
  /\ waveletFilter \in WaveletFilters
  /\ waveletStep = "sent"
       => waveletWire = [k \in DOMAIN WaveletOrder |-> SentOf(WaveletOrder[k])]
  /\ WaveletIsUndone

(* A brightness is a value around zero and back, except the darkest. *)
LEMMA CentredIsUndone ==
  ASSUME NEW y \in Brightness
  PROVE  /\ Centred(y) \in Values
         /\ Uncentred(Centred(y)) = IF y = 0 THEN 1 ELSE y
<1>1. WaveletMax \in Nat /\ y \in 0..(2 * WaveletMax + 1)
  BY WaveletAssumption DEF Brightness
<1>2. CASE y = 0
  BY <1>1, <1>2 DEF Centred, Uncentred, Values
<1>3. CASE y # 0
  BY <1>1, <1>3 DEF Centred, Uncentred, Values
<1>4. QED
  BY <1>2, <1>3

(* Any value is a brightness again. *)
LEMMA ValueIsBrightness ==
  ASSUME NEW v \in Values
  PROVE  Uncentred(v) \in Brightness
BY WaveletAssumption DEF Uncentred, Values, Brightness

(* The client's step. *)
LEMMA SynthesisIsRight ==
  ASSUME WaveletInv, ZywrleSynthesize
  PROVE  WaveletIsUndone'
<1> DEFINE tile == waveletTile
           w == tile.w
           h == tile.h
           level == waveletLevel
           aw == Aligned(w, level)
           ah == Aligned(h, level)
           inner == Grid(aw, ah)
           G == Grid(w, h)
           start == [p \in inner |-> Centred(tile.px[p])]
           coefs == Wavelet(waveletFilter, start, aw, ah, level)
           order == WireOrder(w, h, level)
           put == [p \in G |->
                     waveletWire[CHOOSE k \in DOMAIN order : order[k] = p]]
           got == [p \in inner |-> put[p]]
           fine == InvWavelet(got, aw, ah, level)
<1>1. /\ w \in Nat /\ h \in Nat /\ tile.px \in [G -> Brightness]
      /\ level \in 1..3 /\ waveletFilter \in Filters
  BY WaveletAssumption DEF WaveletInv, Filters
<1>2. waveletWire = [k \in DOMAIN order |-> SentOf(order[k])]
  BY Zenon DEF WaveletInv, ZywrleSynthesize, WaveletOrder
<1>3. /\ waveletDrawn' = [p \in G |->
                             IF p \in DOMAIN fine THEN Uncentred(fine[p])
                             ELSE put[p]]
      /\ waveletTile' = tile /\ waveletLevel' = level
      /\ waveletFilter' = waveletFilter
  BY DEF ZywrleSynthesize
<1>4. ASSUME NEW p
      PROVE  SentOf(p) = IF p \in DOMAIN coefs THEN coefs[p] ELSE tile.px[p]
  BY Zenon DEF SentOf, CoefficientsOf
<1>5. \A p \in G : Holds(order, p)
  <2> HIDE DEF w, h, level
  <2>1. QED
    BY <1>1, TileIsHeld
<1>6. Blocks(aw, level) /\ Blocks(ah, level) /\ aw <= w /\ ah <= h
  <2> HIDE DEF w, h, level
  <2>1. QED
    BY <1>1, AlignedIsBlocks
<1>7. inner \subseteq G
  <2> HIDE DEF w, h, aw, ah
  <2>1. QED
    BY <1>1, <1>6 DEF Blocks, Grid
<1>8. start \in CoefficientMaps(aw, ah)
  <2> HIDE DEF w, h, aw, ah, level, tile, G
  <2>1. \A p \in inner : Centred(tile.px[p]) \in Values
    BY <1>1, <1>7, CentredIsUndone
  <2>2. QED
    BY <2>1 DEF CoefficientMaps
<1> HIDE DEF order, start
<1>9. /\ coefs \in CoefficientMaps(aw, ah)
      /\ InvWavelet(coefs, aw, ah, level) \in CoefficientMaps(aw, ah)
      /\ Keeps(waveletFilter) => InvWavelet(coefs, aw, ah, level) = start
  <2> HIDE DEF aw, ah, level
  <2>1. TransformReturns(waveletFilter, start, aw, ah, level)
    BY <1>1, <1>6, <1>8, TransformIsUndone
  <2>2. /\ coefs \in CoefficientMaps(aw, ah)
        /\ Keeps(waveletFilter) => InvWavelet(coefs, aw, ah, level) = start
    BY <2>1 DEF TransformReturns
  <2> HIDE DEF coefs
  <2>3. TransformReturns(waveletFilter, coefs, aw, ah, level)
    BY <1>1, <1>6, <2>2, TransformIsUndone
  <2>4. QED
    BY <2>2, <2>3 DEF TransformReturns
<1> HIDE DEF coefs, inner, G, fine, got, put
<1>10. DOMAIN coefs = inner /\ coefs = [p \in inner |-> coefs[p]]
  BY <1>9, Zenon DEF CoefficientMaps, inner
<1>11. ASSUME NEW p \in G
       PROVE  put[p] = IF p \in inner THEN coefs[p] ELSE tile.px[p]
  <2> DEFINE at == CHOOSE k \in DOMAIN order : order[k] = p
  <2>1. at \in DOMAIN order /\ order[at] = p
    BY <1>5, Zenon DEF Holds
  <2>2. put[p] = waveletWire[at]
    BY Zenon DEF put
  <2> HIDE DEF at
  <2>3. waveletWire[at] = SentOf(p)
    BY <1>2, <2>1, Zenon
  <2>4. QED
    BY <1>4, <1>10, <2>2, <2>3, Zenon
<1>12. got = coefs
  <2>1. \A p \in inner : put[p] = coefs[p]
    BY <1>7, <1>11
  <2>2. got = [p \in inner |-> put[p]]
    BY DEF got
  <2>3. QED
    BY <1>10, <2>1, <2>2
<1>13. fine \in CoefficientMaps(aw, ah) /\ (Keeps(waveletFilter) => fine = start)
  BY <1>9, <1>12, Zenon DEF fine
<1>14. DOMAIN fine = inner /\ \A p \in inner : fine[p] \in Values
  BY <1>13 DEF CoefficientMaps, inner
<1>15. ASSUME NEW p \in G
       PROVE  /\ waveletDrawn'[p] \in Brightness
              /\ p \notin inner => waveletDrawn'[p] = tile.px[p]
              /\ p \in inner /\ Keeps(waveletFilter)
                   => waveletDrawn'[p]
                        = IF tile.px[p] = 0 THEN 1 ELSE tile.px[p]
  <2>1. tile.px[p] \in Brightness
    BY <1>1
  <2>2. CASE p \in inner
    <3>1. waveletDrawn'[p] = Uncentred(fine[p])
      BY <1>3, <1>14, <2>2, Zenon
    <3>2. Uncentred(fine[p]) \in Brightness
      BY <1>14, <2>2, ValueIsBrightness
    <3>3. ASSUME Keeps(waveletFilter)
          PROVE  Uncentred(fine[p]) = IF tile.px[p] = 0 THEN 1 ELSE tile.px[p]
      <4>1. fine[p] = Centred(tile.px[p])
        BY <1>13, <2>2, <3>3, Zenon DEF start
      <4>2. QED
        BY <2>1, <4>1, CentredIsUndone
    <3>4. QED
      BY <2>2, <3>1, <3>2, <3>3, Zenon
  <2>3. CASE p \notin inner
    <3>1. waveletDrawn'[p] = tile.px[p]
      BY <1>3, <1>11, <1>14, <2>3, Zenon
    <3>2. QED
      BY <2>1, <2>3, <3>1, Zenon
  <2>4. QED
    BY <2>2, <2>3
<1>16. QED
  BY <1>3, <1>15, Zenon DEF WaveletIsUndone, Keeps, inner, G

(* What is sent of every point of the tile is its coefficient, or its      *)
(* pixel where the level does not reach, and the tile that is drawn of it  *)
(* is as WaveletIsUndone says: ZYWRLE_ANALYZE and ZYWRLE_SYNTHESIZE.       *)
THEOREM WaveletInvariance == WaveletSpec => []WaveletInv
<1>1. WaveletInit => WaveletInv
  BY DEF WaveletInit, WaveletInv, WaveletIsUndone
<1>2. ASSUME WaveletInv, [WaveletNext]_waveletVars PROVE WaveletInv'
  <2>1. CASE ZywrleAnalyze
    <3>1. /\ waveletTile' = waveletTile /\ waveletLevel' = waveletLevel
          /\ waveletFilter' = waveletFilter /\ waveletStep' = "sent"
      BY <2>1 DEF ZywrleAnalyze
    <3>2. waveletWire' = [k \in DOMAIN WaveletOrder |-> SentOf(WaveletOrder[k])]
      BY <2>1, Zenon DEF ZywrleAnalyze, WaveletOrder, SentOf, CoefficientsOf
    <3>3. /\ WaveletOrder' = WaveletOrder
          /\ \A p : SentOf(p)' = SentOf(p)
      BY <3>1, Zenon DEF WaveletOrder, SentOf, CoefficientsOf
    <3>4. WaveletIsUndone'
      BY <3>1 DEF WaveletIsUndone
    <3>5. QED
      BY <1>2, <3>1, <3>2, <3>3, <3>4 DEF WaveletInv
  <2>2. CASE ZywrleSynthesize
    <3>1. /\ waveletTile' = waveletTile /\ waveletLevel' = waveletLevel
          /\ waveletFilter' = waveletFilter /\ waveletStep' = "drawn"
      BY <2>2 DEF ZywrleSynthesize
    <3>2. WaveletIsUndone'
      BY <1>2, <2>2, SynthesisIsRight
    <3>3. QED
      BY <1>2, <3>1, <3>2 DEF WaveletInv
  <2>3. CASE UNCHANGED waveletVars
    <3>1. /\ waveletTile' = waveletTile /\ waveletLevel' = waveletLevel
          /\ waveletFilter' = waveletFilter /\ waveletStep' = waveletStep
          /\ waveletWire' = waveletWire /\ waveletDrawn' = waveletDrawn
      BY <2>3 DEF waveletVars
    <3>2. WaveletOrder' = WaveletOrder /\ \A p : SentOf(p)' = SentOf(p)
      BY <3>1, Zenon DEF WaveletOrder, SentOf, CoefficientsOf
    <3>3. WaveletIsUndone'
      BY <1>2, <3>1, Zenon DEF WaveletInv, WaveletIsUndone
    <3>4. QED
      BY <1>2, <3>1, <3>2, <3>3 DEF WaveletInv
  <2>4. QED
    BY <1>2, <2>1, <2>2, <2>3 DEF WaveletNext
<1>3. QED
  BY <1>1, <1>2, PTL DEF WaveletSpec

(* A tile that is drawn has no pixel out of the range of its byte, the     *)
(* pixels that the level does not cover as they were and, if the filter    *)
(* keeps the coefficients, the others too, the darkest as the next.        *)
THEOREM WaveletIsUndoneAlways == WaveletSpec => []WaveletIsUndone
<1>1. WaveletInv => WaveletIsUndone
  BY DEF WaveletInv
<1>2. QED
  BY <1>1, WaveletInvariance, PTL

=============================================================================
