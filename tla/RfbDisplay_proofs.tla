-------------------------- MODULE RfbDisplay_proofs --------------------------
(***************************************************************************)
(* Proofs about three parts of what the server shows its clients, each     *)
(* with its own specification:                                             *)
(*   RfbCursorShape  whatever form of the cursor a client is sent shows    *)
(*                   what was painted, where it was painted;               *)
(*   RfbScale        what a client shows of a scaled screen lags the       *)
(*                   screen only by what it is still to be sent;           *)
(*   RfbTranslate    a client of any format shows the colours drawn, less  *)
(*                   than a step of the coarser format away.               *)
(***************************************************************************)
EXTENDS RfbCursorShape, RfbScale, RfbTranslate, Numbers_proofs, TLAPS

-----------------------------------------------------------------------------
(* Numbers. *)

(* The lesser of two numbers. *)
LEMMA MinOfTwo ==
  ASSUME NEW a \in Int, NEW b \in Int
  PROVE  Min({a, b}) = IF a <= b THEN a ELSE b
<1> DEFINE m == IF a <= b THEN a ELSE b
<1>1. m \in {a, b} /\ \A y \in {a, b} : m <= y
  OBVIOUS
<1>2. \A x \in {a, b} : (\A y \in {a, b} : x <= y) => x = m
  OBVIOUS
<1> HIDE DEF m
<1>3. QED
  BY <1>1, <1>2 DEF Min, m

-----------------------------------------------------------------------------
(* Sizes of shapes. *)
Sizes == (Nat \ {0}) \X (Nat \ {0})

(* The bytes of a row are enough for its points. *)
LEMMA RowBytesCover ==
  ASSUME NEW width \in Nat \ {0}
  PROVE  /\ RowBytes(width) \in Nat \ {0}
         /\ \A x \in 0..(width - 1) :
              /\ x \div ShapeByteBits \in 0..(RowBytes(width) - 1)
              /\ x % ShapeByteBits \in 0..(ShapeByteBits - 1)
              /\ x = (x \div ShapeByteBits) * ShapeByteBits + (x % ShapeByteBits)
<1> DEFINE d == ShapeByteBits
           w == RowBytes(width)
<1>1. d \in Nat \ {0, 1}
  BY ShapeAssumption
<1>2. width + d - 1 \in Nat
  BY <1>1
<1>3. w \in Nat /\ width + d - 1 = w * d + ((width + d - 1) % d)
      /\ (width + d - 1) % d \in 0..(d - 1)
  BY <1>1, <1>2, Division DEF RowBytes
<1> HIDE DEF w
<1>4. w * d \in Nat /\ w * d >= width
  BY <1>1, <1>3
<1>5. w # 0
  BY <1>1, <1>4
<1>6. ASSUME NEW x \in 0..(width - 1)
      PROVE  /\ x \div d \in 0..(w - 1) /\ x % d \in 0..(d - 1)
             /\ x = (x \div d) * d + (x % d)
  <2>1. x \in Nat
    OBVIOUS
  <2>2. x \div d \in Nat /\ x % d \in 0..(d - 1) /\ x = (x \div d) * d + (x % d)
    BY <1>1, <2>1, Division
  <2>3. ASSUME NEW y \in Nat, NEW r \in Nat, x = y * d + r, w <= y PROVE FALSE
    <3>1. PICK e \in Nat : y = w + e
      <4>1. y - w \in Nat /\ y = w + (y - w)
        BY <1>3, <2>3
      <4>2. QED
        BY <4>1
    <3>2. y * d = w * d + e * d /\ e * d \in Nat
      BY <1>1, <1>3, <3>1
    <3>3. y * d >= w * d /\ y * d \in Nat
      BY <1>4, <3>2
    <3>4. x >= y * d
      BY <2>3, <3>3
    <3>5. QED
      BY <1>4, <2>1, <3>3, <3>4
  <2>4. x \div d < w
    BY <1>1, <1>3, <2>2, <2>3
  <2>5. QED
    BY <1>3, <2>2, <2>4
<1>7. QED
  BY <1>3, <1>5, <1>6 DEF w

(* The byte i of row j is one of the bitmap. *)
LEMMA ByteOfRow ==
  ASSUME NEW size \in Sizes, NEW i \in 0..(RowBytes(size[1]) - 1),
         NEW j \in 0..(size[2] - 1)
  PROVE  LET k == j * RowBytes(size[1]) + i
         IN  /\ k \in BitmapBytes(size)
             /\ k % RowBytes(size[1]) = i /\ k \div RowBytes(size[1]) = j
<1> DEFINE w == RowBytes(size[1])
<1>1. size[1] \in Nat \ {0} /\ size[2] \in Nat \ {0}
  BY DEF Sizes
<1>2. w \in Nat \ {0}
  BY <1>1, RowBytesCover
<1> HIDE DEF w
<1>3. i \in 0..(w - 1)
  BY DEF w
<1>4. j * w + i \in Nat /\ (j * w + i) % w = i /\ (j * w + i) \div w = j
  <2>1. j \in Nat
    BY <1>1
  <2>2. QED
    BY <1>2, <1>3, <2>1, DivisionIsUnique
<1>5. j * w + i <= w * size[2] - 1
  <2>1. PICK e \in Nat : size[2] = j + 1 + e
    <3>1. size[2] - j - 1 \in Nat /\ size[2] = j + 1 + (size[2] - j - 1)
      BY <1>1
    <3>2. QED
      BY <3>1
  <2>2. w * size[2] = j * w + w + e * w /\ e * w \in Nat /\ j * w \in Nat
    BY <1>2, <2>1
  <2>3. QED
    BY <1>2, <1>3, <2>2
<1>6. w * size[2] \in Nat
  BY <1>1, <1>2
<1>7. QED
  BY <1>4, <1>5, <1>6 DEF BitmapBytes, w

(* A bit of a bitmap is a point. *)
LEMMA BitOfByte ==
  ASSUME NEW size \in Sizes, NEW points, NEW i \in 0..(RowBytes(size[1]) - 1),
         NEW j \in 0..(size[2] - 1), NEW b \in 0..(ShapeByteBits - 1)
  PROVE  b \in BitmapOf(size, points)[j * RowBytes(size[1]) + i]
           <=> <<i * ShapeByteBits + b, j>> \in points
<1> DEFINE w == RowBytes(size[1])
           k == j * w + i
<1>1. k \in BitmapBytes(size) /\ k % w = i /\ k \div w = j
  BY ByteOfRow
<1> HIDE DEF k
<1>2. BitmapOf(size, points)[k]
        = {a \in 0..(ShapeByteBits - 1) :
             <<(k % w) * ShapeByteBits + a, k \div w>> \in points}
  BY <1>1 DEF BitmapOf
<1>3. QED
  BY <1>1, <1>2 DEF k

(* The points of a bitmap are those it was made of. *)
LEMMA PointsOfBitmap ==
  ASSUME NEW size \in Sizes, NEW points, NEW p \in ShapePoints(size)
  PROVE  IsOn(size, BitmapOf(size, points), p) <=> p \in points
<1> DEFINE d == ShapeByteBits
           i == p[1] \div d
           b == p[1] % d
<1>1. /\ p[1] \in 0..(size[1] - 1) /\ p[2] \in 0..(size[2] - 1)
      /\ p = <<p[1], p[2]>> /\ size[1] \in Nat \ {0}
  BY DEF ShapePoints, Sizes
<1>2. i \in 0..(RowBytes(size[1]) - 1) /\ b \in 0..(d - 1) /\ p[1] = i * d + b
  BY <1>1, RowBytesCover
<1>3. b \in BitmapOf(size, points)[p[2] * RowBytes(size[1]) + i]
        <=> <<i * d + b, p[2]>> \in points
  BY <1>1, <1>2, BitOfByte
<1>4. QED
  BY <1>1, <1>2, <1>3 DEF IsOn

(* A bitmap has bytes, and is not the one that is not there. *)
LEMMA BitmapIsThere ==
  ASSUME NEW size \in Sizes, NEW points
  PROVE  BitmapOf(size, points) # NoBitmap
<1>1. 0 \in 0..(RowBytes(size[1]) - 1) /\ 0 \in 0..(size[2] - 1)
  <2>1. size[1] \in Nat \ {0} /\ size[2] \in Nat \ {0}
    BY DEF Sizes
  <2>2. RowBytes(size[1]) \in Nat \ {0}
    BY <2>1, RowBytesCover
  <2>3. QED
    BY <2>1, <2>2
<1>2. 0 * RowBytes(size[1]) + 0 \in BitmapBytes(size)
  BY <1>1, ByteOfRow
<1>3. DOMAIN BitmapOf(size, points) # {}
  BY <1>2 DEF BitmapOf
<1>4. DOMAIN NoBitmap = {}
  BY DEF NoBitmap
<1>5. QED
  BY <1>3, <1>4

(* The points that are blackened around the rows of a byte. *)
Near(ink, x, j) ==
  \E r \in {j - 1, j, j + 1} : <<x, r>> \in ink

(* A byte of the mask has the bits of the bytes above, at and below it. *)
LEMMA BitsOfRows ==
  ASSUME NEW size \in Sizes, NEW ink \in SUBSET ShapePoints(size),
         NEW i \in 0..(RowBytes(size[1]) - 1), NEW j \in 0..(size[2] - 1),
         NEW b
  PROVE  b \in UNION {BitmapOf(size, ink)[r * RowBytes(size[1]) + i] :
                        r \in {j - 1, j, j + 1} \cap 0..(size[2] - 1)}
           <=> b \in 0..(ShapeByteBits - 1) /\ Near(ink, i * ShapeByteBits + b, j)
<1> DEFINE w == RowBytes(size[1])
           bitmap == BitmapOf(size, ink)
           rows == {j - 1, j, j + 1} \cap 0..(size[2] - 1)
<1>1. ASSUME NEW r \in rows
      PROVE  bitmap[r * w + i] \subseteq 0..(ShapeByteBits - 1)
  <2>1. r * w + i \in BitmapBytes(size)
    BY ByteOfRow
  <2>2. QED
    BY <2>1 DEF BitmapOf
<1>2. ASSUME NEW r \in rows, b \in 0..(ShapeByteBits - 1)
      PROVE  b \in bitmap[r * w + i] <=> <<i * ShapeByteBits + b, r>> \in ink
  BY <1>2, BitOfByte
<1>3. ASSUME NEW r, NEW x, <<x, r>> \in ink
      PROVE  r \in 0..(size[2] - 1)
  <2>1. <<x, r>> \in ShapePoints(size)
    BY <1>3
  <2>2. QED
    BY <2>1 DEF ShapePoints
<1> HIDE DEF w, bitmap
<1>4. b \in UNION {bitmap[r * w + i] : r \in rows}
        <=> \E r \in rows : b \in bitmap[r * w + i]
  OBVIOUS
<1>5. (\E r \in rows : b \in bitmap[r * w + i])
        <=> b \in 0..(ShapeByteBits - 1)
            /\ \E r \in rows : <<i * ShapeByteBits + b, r>> \in ink
  BY <1>1, <1>2
<1>6. (\E r \in rows : <<i * ShapeByteBits + b, r>> \in ink)
        <=> Near(ink, i * ShapeByteBits + b, j)
  BY <1>3 DEF Near
<1>7. QED
  BY <1>4, <1>5, <1>6 DEF w, bitmap

(* The mask that is made up: the painted points and what is next to them,  *)
(* across the borders of bytes.                                            *)
LEMMA MaskIsAround ==
  ASSUME NEW size \in Sizes, NEW ink \in SUBSET ShapePoints(size),
         NEW p \in ShapePoints(size)
  PROVE  IsOn(size, rfbMakeMaskForXCursor(size, BitmapOf(size, ink)), p)
           <=> p \in Around(size, ink)
<1> DEFINE d == ShapeByteBits
           w == RowBytes(size[1])
           last == d - 1
           source == BitmapOf(size, ink)
           c(i, j) == UNION {source[r * w + i] :
                               r \in {j - 1, j, j + 1} \cap 0..(size[2] - 1)}
           x == p[1]
           j == p[2]
           i == x \div d
           b == x % d
           k == j * w + i
<1>1. /\ x \in 0..(size[1] - 1) /\ j \in 0..(size[2] - 1)
      /\ p = <<x, j>> /\ size[1] \in Nat \ {0} /\ size[2] \in Nat \ {0}
      /\ d \in Nat \ {0, 1}
  BY ShapeAssumption DEF ShapePoints, Sizes
<1>2. /\ i \in 0..(w - 1) /\ b \in 0..last /\ x = i * d + b
      /\ w \in Nat \ {0}
  BY <1>1, RowBytesCover
<1>3. k \in BitmapBytes(size) /\ k % w = i /\ k \div w = j
  BY <1>1, <1>2, ByteOfRow
<1>4. IsOn(size, rfbMakeMaskForXCursor(size, source), p) <=>
        \/ b \in c(i, j)
        \/ \E a \in c(i, j) : b = a - 1
        \/ \E a \in c(i, j) : b = a + 1
        \/ b = last /\ i < w - 1 /\ 0 \in c(i + 1, j)
        \/ b = 0 /\ i > 0 /\ last \in c(i - 1, j)
  <2> HIDE DEF w, source, b, i, k
  <2>1. rfbMakeMaskForXCursor(size, source)[k] =
          ((c(k % w, k \div w) \cup {a - 1 : a \in c(k % w, k \div w)}
              \cup {a + 1 : a \in c(k % w, k \div w)}) \cap 0..last)
          \cup {a \in {last} : k % w < w - 1 /\ 0 \in c((k % w) + 1, k \div w)}
          \cup {a \in {0} : k % w > 0 /\ last \in c((k % w) - 1, k \div w)}
    BY <1>3 DEF rfbMakeMaskForXCursor, w
  <2>2. IsOn(size, rfbMakeMaskForXCursor(size, source), p)
          <=> b \in rfbMakeMaskForXCursor(size, source)[k]
    BY DEF IsOn, b, k, i, w
  <2> HIDE DEF c, last
  <2>3. QED
    BY <1>2, <1>3, <2>1, <2>2
<1>5. \A a : a \in c(i, j) <=> a \in 0..last /\ Near(ink, i * d + a, j)
  BY <1>1, <1>2, BitsOfRows
<1>6. i < w - 1 => (0 \in c(i + 1, j) <=> Near(ink, (i + 1) * d + 0, j))
  <2> SUFFICES ASSUME i < w - 1 PROVE 0 \in c(i + 1, j) <=> Near(ink, (i + 1) * d + 0, j)
    OBVIOUS
  <2>1. i + 1 \in 0..(w - 1) /\ 0 \in 0..last
    BY <1>1, <1>2
  <2>2. QED
    BY <1>1, <2>1, BitsOfRows
<1>7. i > 0 => (last \in c(i - 1, j) <=> Near(ink, (i - 1) * d + last, j))
  <2> SUFFICES ASSUME i > 0
               PROVE last \in c(i - 1, j) <=> Near(ink, (i - 1) * d + last, j)
    OBVIOUS
  <2>1. i - 1 \in 0..(w - 1) /\ last \in 0..last
    BY <1>1, <1>2
  <2>2. QED
    BY <1>1, <2>1, BitsOfRows
<1>8. ASSUME NEW y, Near(ink, y, j) PROVE y \in 0..(size[1] - 1)
  <2>1. PICK r : <<y, r>> \in ink
    BY <1>8 DEF Near
  <2>2. <<y, r>> \in ShapePoints(size)
    BY <2>1
  <2>3. QED
    BY <2>2 DEF ShapePoints
<1> HIDE DEF w, source, b, i, k, c
<1>9. p \in Around(size, ink) <=>
        Near(ink, x - 1, j) \/ Near(ink, x, j) \/ Near(ink, x + 1, j)
  <2>1. ASSUME NEW q \in ink
        PROVE  /\ q = <<q[1], q[2]>>
               /\ q[1] \in Int /\ q[2] \in Int
               /\ q[1] - x \in -1..1 <=> q[1] \in {x - 1, x, x + 1}
               /\ q[2] - j \in -1..1 <=> q[2] \in {j - 1, j, j + 1}
    <3>1. q \in (0..(size[1] - 1)) \X (0..(size[2] - 1))
      BY DEF ShapePoints
    <3>2. q = <<q[1], q[2]>> /\ q[1] \in Int /\ q[2] \in Int
      BY <1>1, <3>1
    <3>3. x \in Int /\ j \in Int
      BY <1>1
    <3> HIDE DEF x, j
    <3>4. QED
      BY <3>2, <3>3
  <2>2. p \in Around(size, ink) <=>
          \E q \in ink : q[1] - x \in -1..1 /\ q[2] - j \in -1..1
    BY DEF Around
  <2> HIDE DEF x, j
  <2>3. (\E q \in ink : q[1] - x \in -1..1 /\ q[2] - j \in -1..1) <=>
          \E y \in {x - 1, x, x + 1}, r \in {j - 1, j, j + 1} : <<y, r>> \in ink
    <3>1. ASSUME NEW q \in ink, q[1] - x \in -1..1, q[2] - j \in -1..1
          PROVE  \E y \in {x - 1, x, x + 1}, r \in {j - 1, j, j + 1} :
                   <<y, r>> \in ink
      BY <2>1, <3>1
    <3>2. ASSUME NEW y \in {x - 1, x, x + 1}, NEW r \in {j - 1, j, j + 1},
                 <<y, r>> \in ink
          PROVE  \E q \in ink : q[1] - x \in -1..1 /\ q[2] - j \in -1..1
      <4>1. <<y, r>>[1] = y /\ <<y, r>>[2] = r
        OBVIOUS
      <4>2. QED
        BY <2>1, <3>2, <4>1
    <3>3. QED
      BY <3>1, <3>2
  <2>4. QED
    BY <2>2, <2>3 DEF Near
<1>10. /\ Near(ink, x, j) <=> b \in c(i, j)
  BY <1>2, <1>5
<1>11. Near(ink, x + 1, j) <=>
         \/ \E a \in c(i, j) : b = a - 1
         \/ b = last /\ i < w - 1 /\ 0 \in c(i + 1, j)
  <2>0. i \in Int /\ d \in Int /\ b \in Int /\ i * d \in Int /\ w \in Int
    BY <1>1, <1>2
  <2>1. CASE b < last
    <3>1. b + 1 \in 0..last /\ i * d + (b + 1) = x + 1 /\ b # last
      BY <1>1, <1>2, <2>0, <2>1
    <3>2. (b + 1 \in c(i, j)) <=> Near(ink, x + 1, j)
      BY <1>5, <3>1
    <3>3. (\E a \in c(i, j) : b = a - 1) <=> b + 1 \in c(i, j)
      <4>1. \A a : a \in c(i, j) => a \in Int
        BY <1>1, <1>5
      <4>2. QED
        BY <1>2, <2>0, <4>1
    <3>4. QED
      BY <3>1, <3>2, <3>3
  <2>2. CASE b = last
    <3>1. (i + 1) * d + 0 = x + 1
      BY <1>1, <1>2, <2>0, <2>2
    <3>2. ~\E a \in c(i, j) : b = a - 1
      BY <1>1, <1>5, <2>2
    <3>3. Near(ink, x + 1, j) => i < w - 1
      <4> SUFFICES ASSUME Near(ink, x + 1, j) PROVE i < w - 1
        OBVIOUS
      <4>1. x + 1 \in 0..(size[1] - 1)
        BY <1>8
      <4>2. (x + 1) \div d \in 0..(w - 1)
        BY <1>1, <4>1, RowBytesCover DEF w
      <4>3. (x + 1) \div d = i + 1
        <5>1. i + 1 \in Nat /\ 0 \in 0..(d - 1) /\ d \in Nat \ {0}
          BY <1>1, <1>2
        <5>2. ((i + 1) * d + 0) \div d = i + 1
          BY <5>1, DivisionIsUnique
        <5>3. QED
          BY <3>1, <5>2
      <4>4. QED
        BY <1>2, <2>0, <4>2, <4>3
    <3>4. QED
      BY <1>6, <2>2, <3>1, <3>2, <3>3
  <2>3. QED
    BY <1>1, <1>2, <2>1, <2>2
<1>12. Near(ink, x - 1, j) <=>
         \/ \E a \in c(i, j) : b = a + 1
         \/ b = 0 /\ i > 0 /\ last \in c(i - 1, j)
  <2>0. i \in Int /\ d \in Int /\ b \in Int /\ i * d \in Int /\ w \in Int
    BY <1>1, <1>2
  <2>1. CASE b > 0
    <3>1. b - 1 \in 0..last /\ i * d + (b - 1) = x - 1 /\ b # 0
      BY <1>1, <1>2, <2>0, <2>1
    <3>2. (b - 1 \in c(i, j)) <=> Near(ink, x - 1, j)
      BY <1>5, <3>1
    <3>3. (\E a \in c(i, j) : b = a + 1) <=> b - 1 \in c(i, j)
      <4>1. \A a : a \in c(i, j) => a \in Int
        BY <1>1, <1>5
      <4>2. QED
        BY <1>2, <2>0, <4>1
    <3>4. QED
      BY <3>1, <3>2, <3>3
  <2>2. CASE b = 0
    <3>1. (i - 1) * d + last = x - 1
      BY <1>1, <1>2, <2>0, <2>2
    <3>2. ~\E a \in c(i, j) : b = a + 1
      BY <1>1, <1>5, <2>2
    <3>3. Near(ink, x - 1, j) => i > 0
      <4> SUFFICES ASSUME Near(ink, x - 1, j) PROVE i > 0
        OBVIOUS
      <4>1. x - 1 \in 0..(size[1] - 1)
        BY <1>8
      <4>2. i # 0
        BY <1>1, <1>2, <2>0, <2>2, <4>1
      <4>3. QED
        BY <1>2, <4>2
    <3>4. QED
      BY <1>7, <2>2, <3>1, <3>2, <3>3
  <2>3. QED
    BY <1>1, <1>2, <2>1, <2>2
<1>13. QED
  BY <1>4, <1>9, <1>10, <1>11, <1>12 DEF source

-----------------------------------------------------------------------------
(* A shape is the record of its forms. *)
IsShape(c) ==
  c = [size |-> c.size, source |-> c.source, richSource |-> c.richSource,
       mask |-> c.mask, fore |-> c.fore, back |-> c.back]

(* What a form in two colours shows at a point. *)
TwoColour(c, p) == IF IsOn(c.size, c.source, p) THEN c.fore ELSE c.back

(* Every form that a shape has is what was painted: in pixels exactly, in  *)
(* two colours as far as these go.  Without pixels there are no other      *)
(* colours, and without a bitmap they are still those of the application.  *)
FormsAreRight(c) ==
  /\ IsShape(c) /\ c.size \in Sizes
  /\ painted.ink \in [ShapePoints(c.size) -> Black..White]
  /\ painted.mask \subseteq ShapePoints(c.size)
  /\ \A p \in ShapePoints(c.size) :
       IsOn(c.size, c.mask, p) <=> p \in painted.mask
  /\ c.richSource # NoBitmap =>
       \A p \in ShapePoints(c.size) : c.richSource[p] = painted.ink[p]
  /\ c.source # NoBitmap =>
       \A p \in ShapePoints(c.size) : TwoColour(c, p) = InTwoColours(painted.ink[p])
  /\ c.richSource = NoBitmap =>
       /\ c.source # NoBitmap
       /\ \A p \in ShapePoints(c.size) : TwoColour(c, p) = painted.ink[p]
  /\ c.source = NoBitmap => c.fore = painted.fore /\ c.back = painted.back

ShapeInv ==
  /\ FormsAreRight(shapeCursor)
  /\ rcShape = [v \in ShapeClients |-> rcShape[v]]
  /\ ClientShowsTheCursor

(* A shape has pixels, and those that are made up are not none. *)
LEMMA PixelsAreThere ==
  ASSUME NEW size \in Sizes, NEW f, DOMAIN f = ShapePoints(size)
  PROVE  f # NoBitmap
<1>1. <<0, 0>> \in ShapePoints(size)
  BY DEF ShapePoints, Sizes
<1>2. DOMAIN NoBitmap = {}
  BY DEF NoBitmap
<1>3. QED
  BY <1>1, <1>2

(* A conversion leaves every form right, and makes the one asked for. *)
LEMMA ConvertedIsRight ==
  ASSUME NEW c, FormsAreRight(c), NEW rich \in BOOLEAN
  PROVE  /\ FormsAreRight(Converted(c, rich))
         /\ Converted(c, rich).size = c.size
         /\ rich => Converted(c, rich).richSource # NoBitmap
         /\ ~rich => Converted(c, rich).source # NoBitmap
<1> DEFINE points == ShapePoints(c.size)
<1>1. CASE rich /\ c.richSource = NoBitmap
  <2> DEFINE r == [p \in points |-> TwoColour(c, p)]
             e == Converted(c, rich)
  <2>1. e = [size |-> c.size, source |-> c.source, richSource |-> r,
             mask |-> c.mask, fore |-> c.fore, back |-> c.back]
    BY <1>1 DEF Converted, rfbMakeRichCursorFromXCursor, FormsAreRight, IsShape,
                TwoColour
  <2>2. r # NoBitmap
    BY PixelsAreThere DEF FormsAreRight
  <2>3. \A p \in points : r[p] = painted.ink[p]
    BY <1>1 DEF FormsAreRight
  <2> HIDE DEF r, e
  <2>4. /\ e.size = c.size /\ e.source = c.source /\ e.richSource = r
        /\ e.mask = c.mask /\ e.fore = c.fore /\ e.back = c.back /\ IsShape(e)
    BY <2>1 DEF IsShape
  <2>5. FormsAreRight(e)
    BY <2>2, <2>3, <2>4 DEF FormsAreRight, TwoColour
  <2>6. QED
    BY <1>1, <2>2, <2>4, <2>5 DEF e
<1>2. CASE ~rich /\ c.source = NoBitmap
  <2> DEFINE interp == c.fore = Black /\ c.back = Black
             On(p) == IF interp THEN c.richSource[p] >= 128
                                ELSE c.richSource[p] # c.back
             on == {p \in points : On(p)}
             s == BitmapOf(c.size, on)
             f == IF interp THEN White ELSE c.fore
             e == Converted(c, rich)
  <2>1. e = [size |-> c.size, source |-> s, richSource |-> c.richSource,
             mask |-> c.mask, fore |-> f, back |-> c.back]
    BY <1>2 DEF Converted, rfbMakeXCursorFromRichCursor, FormsAreRight, IsShape
  <2>2. s # NoBitmap
    BY BitmapIsThere DEF FormsAreRight
  <2>3. ASSUME NEW p \in points
        PROVE  (IF IsOn(c.size, s, p) THEN f ELSE c.back)
                 = InTwoColours(painted.ink[p])
    <3>1. IsOn(c.size, s, p) <=> On(p)
      BY PointsOfBitmap DEF FormsAreRight
    <3>2. /\ c.richSource[p] = painted.ink[p]
          /\ c.fore = painted.fore /\ c.back = painted.back
      BY <1>2 DEF FormsAreRight
    <3> HIDE DEF s
    <3>3. QED
      BY <3>1, <3>2 DEF InTwoColours
  <2> HIDE DEF s, f, e
  <2>4. /\ e.size = c.size /\ e.source = s /\ e.richSource = c.richSource
        /\ e.mask = c.mask /\ e.fore = f /\ e.back = c.back /\ IsShape(e)
    BY <2>1 DEF IsShape
  <2>5. c.richSource # NoBitmap
    BY <1>2 DEF FormsAreRight
  <2>6. FormsAreRight(e)
    BY <2>2, <2>3, <2>4, <2>5 DEF FormsAreRight, TwoColour
  <2>7. QED
    BY <1>2, <2>2, <2>4, <2>6 DEF e
<1>3. CASE (rich /\ c.richSource # NoBitmap) \/ (~rich /\ c.source # NoBitmap)
  BY <1>3 DEF Converted
<1>4. QED
  BY <1>1, <1>2, <1>3

(* A painted cursor is in both forms at once what it is. *)
LEMMA XCursorIsRight ==
  ASSUME NEW size \in Sizes, NEW ink \in SUBSET ShapePoints(size),
         NEW bits, NEW mask \in SUBSET ShapePoints(size),
         \A p \in ShapePoints(size) : IsOn(size, bits, p) <=> p \in mask,
         Painted([size |-> size, source |-> BitmapOf(size, ink),
                  richSource |-> NoBitmap, mask |-> bits,
                  fore |-> White, back |-> Black],
                 GreyOf(ShapePoints(size), ink), mask)
  PROVE  FormsAreRight(shapeCursor)
<1> DEFINE source == BitmapOf(size, ink)
           grey == GreyOf(ShapePoints(size), ink)
<1>1. source # NoBitmap
  BY BitmapIsThere
<1>2. grey \in [ShapePoints(size) -> Black..White]
  BY DEF GreyOf, Black, White
<1>3. \A p \in ShapePoints(size) :
        (IF IsOn(size, source, p) THEN White ELSE Black) = grey[p]
  BY PointsOfBitmap DEF GreyOf
<1> HIDE DEF source, grey
<1>4. /\ shapeCursor = [size |-> size, source |-> source,
                        richSource |-> NoBitmap, mask |-> bits,
                        fore |-> White, back |-> Black]
      /\ painted = [ink |-> grey, mask |-> mask, fore |-> White, back |-> Black]
  BY DEF Painted, source, grey
<1>5. /\ shapeCursor.size = size /\ shapeCursor.source = source
      /\ shapeCursor.richSource = NoBitmap /\ shapeCursor.mask = bits
      /\ shapeCursor.fore = White /\ shapeCursor.back = Black
      /\ painted.ink = grey /\ painted.mask = mask
      /\ painted.fore = White /\ painted.back = Black
      /\ IsShape(shapeCursor)
  BY <1>4 DEF IsShape
<1>6. \A p \in ShapePoints(size) : InTwoColours(grey[p]) = grey[p]
  BY <1>3, <1>5 DEF InTwoColours, Black, White
<1>7. QED
  BY <1>1, <1>2, <1>3, <1>5, <1>6 DEF FormsAreRight, TwoColour

(* Pixels, with perhaps two colours for the clients that want them. *)
LEMMA RichCursorIsRight == PaintedRichCursor => FormsAreRight(shapeCursor)
<1> SUFFICES ASSUME PaintedRichCursor PROVE FormsAreRight(shapeCursor)
  OBVIOUS
<1>0. PICK size \in RichSizes :
        \E rich \in [ShapePoints(size) -> ShapeInks] :
        \E colours \in {<<Black, Black>>} \cup
                         {c \in ShapeInks \X ShapeInks : c[1] > c[2]} :
          LET mask == {p \in ShapePoints(size) : rich[p] # Black}
          IN  Painted([size |-> size, source |-> NoBitmap, richSource |-> rich,
                       mask |-> BitmapOf(size, mask),
                       fore |-> colours[1], back |-> colours[2]], rich, mask)
  BY DEF PaintedRichCursor
<1>1. PICK rich \in [ShapePoints(size) -> ShapeInks],
           colours \in {<<Black, Black>>} \cup
                         {c \in ShapeInks \X ShapeInks : c[1] > c[2]} :
        LET mask == {p \in ShapePoints(size) : rich[p] # Black}
        IN  Painted([size |-> size, source |-> NoBitmap, richSource |-> rich,
                     mask |-> BitmapOf(size, mask),
                     fore |-> colours[1], back |-> colours[2]], rich, mask)
  BY <1>0
<1> DEFINE f == colours[1]
           b == colours[2]
           mask == {p \in ShapePoints(size) : rich[p] # Black}
<1>2. size \in Sizes
  BY <1>0, ShapeAssumption DEF Sizes
<1>3. rich \in [ShapePoints(size) -> Black..White] /\ rich # NoBitmap
  <2>1. rich \in [ShapePoints(size) -> Black..White]
    BY <1>1, ShapeAssumption
  <2>2. QED
    BY <1>2, <2>1, PixelsAreThere
<1>4. \A p \in ShapePoints(size) :
        IsOn(size, BitmapOf(size, mask), p) <=> p \in mask
  BY <1>2, PointsOfBitmap
<1>5. /\ shapeCursor = [size |-> size, source |-> NoBitmap,
                        richSource |-> rich, mask |-> BitmapOf(size, mask),
                        fore |-> f, back |-> b]
      /\ painted = [ink |-> rich, mask |-> mask, fore |-> f, back |-> b]
  BY <1>1 DEF Painted
<1>6. mask \subseteq ShapePoints(size)
  OBVIOUS
<1> HIDE DEF mask, f, b
<1>7. /\ shapeCursor.size = size /\ shapeCursor.source = NoBitmap
      /\ shapeCursor.richSource = rich
      /\ shapeCursor.mask = BitmapOf(size, mask)
      /\ shapeCursor.fore = f /\ shapeCursor.back = b
      /\ painted.ink = rich /\ painted.mask = mask
      /\ painted.fore = f /\ painted.back = b
      /\ IsShape(shapeCursor)
  BY <1>5 DEF IsShape
<1>8. QED
  BY <1>2, <1>3, <1>4, <1>6, <1>7 DEF FormsAreRight

(* What the application paints, as characters or as pixels, is right. *)
LEMMA ShapeInitInv == ShapeInit => ShapeInv
<1> SUFFICES ASSUME ShapeInit PROVE ShapeInv
  OBVIOUS
<1>1. ASSUME PaintedXCursor PROVE FormsAreRight(shapeCursor)
  <2>1. PICK size \in ShapeSizes : \E ink \in SUBSET ShapePoints(size) :
          LET grey == GreyOf(ShapePoints(size), ink)
          IN  \/ Painted(rfbMakeXCursor(size, ink, NoString), grey,
                         Around(size, ink))
              \/ Painted(rfbMakeXCursor(size, ink, <<ink>>), grey, ink)
    BY <1>1 DEF PaintedXCursor
  <2>0. PICK ink \in SUBSET ShapePoints(size) :
          LET grey == GreyOf(ShapePoints(size), ink)
          IN  \/ Painted(rfbMakeXCursor(size, ink, NoString), grey,
                         Around(size, ink))
              \/ Painted(rfbMakeXCursor(size, ink, <<ink>>), grey, ink)
    BY <2>1
  <2>2. size \in Sizes
    BY <2>1, ShapeAssumption DEF Sizes
  <2>3. CASE Painted(rfbMakeXCursor(size, ink, NoString),
                     GreyOf(ShapePoints(size), ink), Around(size, ink))
    <3>1. Around(size, ink) \in SUBSET ShapePoints(size)
      BY DEF Around
    <3>2. \A p \in ShapePoints(size) :
            IsOn(size, rfbMakeMaskForXCursor(size, BitmapOf(size, ink)), p)
              <=> p \in Around(size, ink)
      BY <2>2, MaskIsAround
    <3>3. rfbMakeXCursor(size, ink, NoString) =
            [size |-> size, source |-> BitmapOf(size, ink),
             richSource |-> NoBitmap,
             mask |-> rfbMakeMaskForXCursor(size, BitmapOf(size, ink)),
             fore |-> White, back |-> Black]
      BY DEF rfbMakeXCursor
    <3>4. QED
      BY <2>2, <2>3, <3>1, <3>2, <3>3, XCursorIsRight
  <2>4. CASE Painted(rfbMakeXCursor(size, ink, <<ink>>),
                     GreyOf(ShapePoints(size), ink), ink)
    <3>1. <<ink>> # NoString /\ <<ink>>[1] = ink
      BY DEF NoString
    <3>2. rfbMakeXCursor(size, ink, <<ink>>) =
            [size |-> size, source |-> BitmapOf(size, ink),
             richSource |-> NoBitmap, mask |-> BitmapOf(size, ink),
             fore |-> White, back |-> Black]
      BY <3>1 DEF rfbMakeXCursor
    <3>3. \A p \in ShapePoints(size) :
            IsOn(size, BitmapOf(size, ink), p) <=> p \in ink
      BY <2>2, PointsOfBitmap
    <3>4. QED
      BY <2>2, <2>4, <3>2, <3>3, XCursorIsRight
  <2>5. QED
    BY <2>0, <2>3, <2>4
<1>2. ASSUME PaintedRichCursor PROVE FormsAreRight(shapeCursor)
  BY <1>2, RichCursorIsRight
<1>3. rcShape = [v \in ShapeClients |-> rcShape[v]] /\ ClientShowsTheCursor
  <2>1. rcShape = [v \in ShapeClients |-> NoCursorYet]
    BY DEF ShapeInit
  <2>2. \A v \in ShapeClients : rcShape[v] = NoCursorYet
    BY <2>1
  <2>3. QED
    BY <2>1, <2>2 DEF ClientShowsTheCursor
<1>4. FormsAreRight(shapeCursor)
  BY <1>1, <1>2 DEF ShapeInit
<1>5. QED
  BY <1>3, <1>4 DEF ShapeInv

(* Sending the shape to a client, converted for it when need be, keeps it. *)
LEMMA SendCursorShapeInv ==
  ASSUME ShapeInv, NEW v \in ShapeClients, rfbSendCursorShape(v),
         useRichCursorEncoding \in [ShapeClients -> BOOLEAN]
  PROVE  ShapeInv'
<1> DEFINE rich == useRichCursorEncoding[v]
           c == Converted(shapeCursor, rich)
           shown == HandleCursorShape(c, rich)
<1>1. /\ FormsAreRight(c) /\ c.size = shapeCursor.size
      /\ rich => c.richSource # NoBitmap
      /\ ~rich => c.source # NoBitmap
  BY ConvertedIsRight DEF ShapeInv
<1>2. /\ shapeCursor' = c /\ painted' = painted
      /\ useRichCursorEncoding' = useRichCursorEncoding
      /\ \/ rcShape' = [rcShape EXCEPT ![v] = shown]
         \/ rcShape' = [rcShape EXCEPT ![v] = rcShape[v]]
  BY DEF rfbSendCursorShape
<1>3. /\ shown.rcMask = painted.mask
      /\ \A p \in DOMAIN painted.ink :
           shown.rcSource[p] = IF rich THEN painted.ink[p]
                                       ELSE InTwoColours(painted.ink[p])
  <2>1. DOMAIN painted.ink = ShapePoints(c.size)
    BY <1>1 DEF FormsAreRight
  <2>2. shown.rcMask = painted.mask
    BY <1>1 DEF FormsAreRight, HandleCursorShape
  <2>3. ASSUME NEW p \in ShapePoints(c.size)
        PROVE  shown.rcSource[p] = IF rich THEN painted.ink[p]
                                           ELSE InTwoColours(painted.ink[p])
    <3> HIDE DEF c
    <3>1. shown.rcSource[p] = IF rich THEN c.richSource[p] ELSE TwoColour(c, p)
      BY DEF HandleCursorShape, TwoColour
    <3>2. QED
      BY <1>1, <3>1 DEF FormsAreRight
  <2>4. QED
    BY <2>1, <2>2, <2>3
<1>4. FormsAreRight(shapeCursor)'
  <2> HIDE DEF c
  <2>1. QED
    BY <1>1, <1>2 DEF FormsAreRight, IsShape, TwoColour, InTwoColours
<1> HIDE DEF c, shown
<1>5. rcShape' = [u \in ShapeClients |-> rcShape'[u]]
  BY <1>2 DEF ShapeInv
<1>6. ClientShowsTheCursor'
  BY <1>2, <1>3 DEF ShapeInv, ClientShowsTheCursor, InTwoColours
<1>7. QED
  BY <1>4, <1>5, <1>6 DEF ShapeInv

(* Every form that the server has of its cursor is what was painted,       *)
(* whichever clients it was converted for.                                 *)
THEOREM ShapeInvariance == ShapeSpec => []ShapeInv
<1> DEFINE Inv == ShapeInv /\ useRichCursorEncoding \in [ShapeClients -> BOOLEAN]
<1>1. ShapeInit => Inv
  BY ShapeInitInv DEF ShapeInit
<1>2. Inv /\ [ShapeNext]_shapeVars => Inv'
  <2> SUFFICES ASSUME Inv, [ShapeNext]_shapeVars PROVE Inv'
    OBVIOUS
  <2>1. CASE ShapeNext
    BY <2>1, SendCursorShapeInv DEF ShapeNext, rfbSendCursorShape
  <2>2. CASE UNCHANGED shapeVars
    BY <2>2 DEF shapeVars, ShapeInv, FormsAreRight, IsShape, TwoColour,
                InTwoColours, ClientShowsTheCursor
  <2>3. QED
    BY <2>1, <2>2
<1>3. QED
  BY <1>1, <1>2, PTL DEF ShapeSpec

(* ClientShowsTheCursor, for cursors of any size and bytes of any number   *)
(* of bits: a client that was sent the shape shows what was painted, where *)
(* it was painted.                                                         *)
THEOREM ShapeIsShown == ShapeSpec => []ClientShowsTheCursor
<1>1. ShapeInv => ClientShowsTheCursor
  BY DEF ShapeInv
<1>2. QED
  BY <1>1, ShapeInvariance, PTL

-----------------------------------------------------------------------------
(* Scaled screens. *)

(* What a pixel shows of a column that it stands for. *)
Fresh(pixel, c) == pixel.of # {} /\ c \notin pixel.drawn

PixelsOf(w) == [0..(w - 1) -> ScaledPixel]
Views == UNION {[w : {w}, px : PixelsOf(w)] : w \in ScaledWidths \cup {NoScreen}}

ScaledPixels == UNION {PixelsOf(w) : w \in ScaledWidths}

ScaleTyped ==
  /\ trueColour \in BOOLEAN
  /\ scaledScreenNext \subseteq ScaledWidths \ {FullWidth}
  /\ scaledScreenRefCount \in [ScaledWidths -> Int]
  /\ scaledFrameBuffer \in [ScaledWidths -> ScaledPixels]
  /\ \A w \in ScaledWidths : scaledFrameBuffer[w] \in PixelsOf(w)
  /\ scaledScreen \in [ScaleClients -> ScaledWidths \cup {NoScreen}]
  /\ newScaleSizePending \in [ScaleClients -> BOOLEAN]
  /\ scaleModified \in [ScaleClients -> SUBSET FullColumns]
  /\ scaleRequested \in [ScaleClients -> SUBSET FullColumns]
  /\ scaledView \in [ScaleClients -> Views]
  /\ resizeUnanswered \in [ScaleClients -> BOOLEAN]

(* A screen has as many references as clients. *)
ClientsOn(screens, w) == Cardinality({v \in ScaleClients : screens[v] = w})
ScreensAreCounted ==
  \A w \in ScaledWidths : scaledScreenRefCount[w] = ClientsOn(scaledScreen, w)

(* A screen that has clients is on the chain and up to date. *)
ScreenIsFresh(pixels, w) ==
  \A c \in FullColumns : Fresh(pixels[ScaleX(FullWidth, w, c)], c)
ScreensAreFresh ==
  \A w \in ScaledWidths :
    w = FullWidth \/ scaledScreenRefCount[w] > 0 =>
      /\ w \in scaledScreenNext \cup {FullWidth}
      /\ ScreenIsFresh(scaledFrameBuffer[w], w)

(* A client shows pixels of its own screen's size unless it is to be told  *)
(* of another, and has all that it is not to be sent.                      *)
ViewIsFresh(view, modified) ==
  \A c \in FullColumns :
    c \in modified \/ Fresh(view.px[ScaleX(FullWidth, view.w, c)], c)
ViewsAreFresh ==
  \A v \in ScaleClients :
    /\ newScaleSizePending[v] => v \in NewFBSizeClients
    /\ scaledScreen[v] = NoScreen => scaleModified[v] = {}
    /\ scaledScreen[v] # NoScreen /\ ~newScaleSizePending[v] =>
         /\ scaledView[v].w = scaledScreen[v]
         /\ resizeUnanswered[v] \/ ViewIsFresh(scaledView[v], scaleModified[v])

ScaleInv == ScaleTyped /\ ScreensAreCounted /\ ScreensAreFresh /\ ViewsAreFresh

-----------------------------------------------------------------------------
(* CEIL is not less than the quotient. *)
LEMMA CeilIsEnough ==
  ASSUME NEW a \in Nat, NEW b \in Nat \ {0}
  PROVE  Ceil(a, b) \in Nat /\ Ceil(a, b) * b >= a
<1> DEFINE n == a + b - 1
           k == n \div b
<1>1. n \in Nat
  OBVIOUS
<1>2. k \in Nat /\ n % b \in 0..(b - 1) /\ n = k * b + (n % b)
  BY <1>1, Division
<1> HIDE DEF k
<1>3. k * b \in Nat
  BY <1>2
<1>4. k * b >= a
  BY <1>2, <1>3
<1>5. QED
  BY <1>2, <1>4 DEF Ceil, k

(* Scaled screens are no larger than the screen. *)
LEMMA WidthsAreSmall ==
  /\ FullWidth \in Nat \ {0} /\ FullWidth \in ScaledWidths
  /\ \A w \in ScaledWidths : w \in Nat \ {0} /\ w <= FullWidth
<1>1. FullWidth \in Nat \ {0}
  BY ScaleAssumption
<1>2. FullWidth \in ScaledWidths
  BY DEF ScaledWidths
<1>3. ASSUME NEW f \in 1..FullWidth
      PROVE  FullWidth \div f \in Nat \ {0} /\ FullWidth \div f <= FullWidth
  <2> DEFINE q == FullWidth \div f
  <2>1. q \in Nat /\ FullWidth % f \in 0..(f - 1)
        /\ FullWidth = q * f + (FullWidth % f)
    BY <1>1, Division
  <2> HIDE DEF q
  <2>2. q # 0
    <3>1. q = 0 => q * f = 0
      OBVIOUS
    <3>2. QED
      BY <1>1, <2>1, <3>1
  <2>3. q * 1 <= q * f
    <3>1. 1 * q <= f * q
      BY <2>1, LargerProduct
    <3>2. 1 * q = q * 1 /\ f * q = q * f
      BY <2>1
    <3>3. QED
      BY <3>1, <3>2
  <2>4. q * f <= FullWidth /\ q * f \in Nat
    BY <1>1, <2>1
  <2>5. q <= FullWidth
    BY <1>1, <2>1, <2>3, <2>4
  <2>6. QED
    BY <2>1, <2>2, <2>5 DEF q
<1>4. ASSUME NEW w \in ScaledWidths PROVE w \in Nat \ {0} /\ w <= FullWidth
  <2>1. CASE w = FullWidth
    BY <1>1, <2>1
  <2>2. CASE w # FullWidth
    <3>1. PICK f \in ScaleFactors : w = FullWidth \div f
      BY <2>2 DEF ScaledWidths
    <3>2. f \in 1..FullWidth
      BY ScaleAssumption
    <3>3. QED
      BY <1>3, <3>1, <3>2
  <2>3. QED
    BY <2>1, <2>2
<1>5. QED
  BY <1>1, <1>2, <1>4

(* The pixel that stands for a column is one of the scaled screen. *)
LEMMA PixelIsInScreen ==
  ASSUME NEW w \in ScaledWidths, NEW c \in FullColumns
  PROVE  ScaleX(FullWidth, w, c) \in 0..(w - 1)
<1>1. /\ FullWidth \in Nat \ {0} /\ w \in Nat \ {0}
      /\ c \in Nat /\ c <= FullWidth - 1
  BY WidthsAreSmall DEF FullColumns
<1>2. CASE w = FullWidth
  BY <1>1, <1>2 DEF ScaleX
<1>3. CASE w # FullWidth
  <2>1. (c + 1) * w <= FullWidth * w /\ (c + 1) * w = c * w + w /\ c * w \in Nat
        /\ FullWidth * w = w * FullWidth
    BY <1>1, LargerProduct
  <2>2. c * w < w * FullWidth
    BY <1>1, <2>1
  <2>3. (c * w) \div FullWidth < w /\ (c * w) \div FullWidth \in Nat
    BY <1>1, <2>1, <2>2, QuotientIsLess, Division
  <2>4. QED
    BY <1>1, <1>3, <2>3 DEF ScaleX
<1>4. QED
  BY <1>2, <1>3

(* A rectangle in the scaled screen has the pixels of all its columns. *)
LEMMA CorrectionCovers ==
  ASSUME NEW w \in ScaledWidths, NEW x \in Nat, NEW n \in Nat,
         x + n <= FullWidth, NEW c \in x..(x + n - 1)
  PROVE  ScaleX(FullWidth, w, c) \in Within(rfbScaledCorrection(FullWidth, w, x, n))
<1>1. /\ FullWidth \in Nat \ {0} /\ w \in Nat \ {0}
      /\ c \in Nat /\ c \in FullColumns /\ n # 0
  BY WidthsAreSmall DEF FullColumns
<1>2. CASE w = FullWidth
  <2>1. Within(<<x, n>>) = x..(x + n - 1)
    BY DEF Within
  <2>2. QED
    BY <1>2, <2>1 DEF ScaleX, rfbScaledCorrection
<1>3. CASE w # FullWidth
  <2> DEFINE from == FullWidth
             a == x * w
             x2 == a \div from
             over == n * w + (x * w - x2 * from)
             w2 == Ceil(over, from)
             p == (c * w) \div from
  <2>1. x * w \in Nat /\ n * w \in Nat /\ c * w \in Nat /\ a \in Nat
    BY <1>1
  <2>2. x2 \in Nat /\ x2 * from <= x * w /\ x2 * from \in Nat
    <3> HIDE DEF a
    <3>1. x2 \in Nat /\ a % from \in 0..(from - 1)
          /\ a = x2 * from + (a % from)
      BY <1>1, <2>1, Division
    <3> HIDE DEF x2
    <3>2. x2 * from \in Nat
      BY <1>1, <3>1
    <3>3. x2 * from <= a
      BY <1>1, <2>1, <3>1, <3>2
    <3>4. QED
      BY <3>1, <3>2, <3>3 DEF a
  <2>3. p \in Nat /\ p < w
    BY <1>1, <1>3, PixelIsInScreen DEF ScaleX
  <2>4. x2 <= p
    <3>1. x <= c
      BY <1>1
    <3>2. x * w <= c * w
      BY <1>1, <3>1, LargerProduct
    <3>3. QED
      BY <1>1, <2>1, <3>2, QuotientGrows
  <2> HIDE DEF x2
  <2>5. over \in Nat
    BY <2>1, <2>2
  <2>6. w2 \in Nat /\ w2 * from >= over
    BY <1>1, <2>5, CeilIsEnough
  <2>7. p < x2 + w2
    <3> HIDE DEF w2
    <3>1. (c + 1) * w <= (x + n) * w /\ (x + n) * w = x * w + n * w
          /\ (c + 1) * w = c * w + w
      BY <1>1, LargerProduct
    <3>2. (x2 + w2) * from = x2 * from + w2 * from /\ w2 * from \in Nat
      BY <1>1, <2>2, <2>6
    <3>3. c * w < x * w + n * w
      BY <1>1, <2>1, <3>1
    <3>4. x * w + n * w <= x2 * from + w2 * from
      BY <2>1, <2>2, <2>6, <3>2
    <3>5. c * w < (x2 + w2) * from /\ x2 + w2 \in Nat
      BY <2>1, <2>2, <2>6, <3>2, <3>3, <3>4
    <3>6. QED
      BY <1>1, <2>1, <3>5, QuotientIsLess
  <2> HIDE DEF w2, p
  <2>8. w2 # 0
    BY <2>2, <2>3, <2>4, <2>6, <2>7
  <2>9. rfbScaledCorrection(FullWidth, w, x, n) = <<x2, Min({w2, w - x2})>>
    BY <1>3, <2>8 DEF rfbScaledCorrection, Floor, w2, x2
  <2>10. Min({w2, w - x2}) = IF w2 <= w - x2 THEN w2 ELSE w - x2
    BY <1>1, <2>2, <2>6, MinOfTwo
  <2>11. p \in x2..(x2 + Min({w2, w - x2}) - 1)
    BY <1>1, <2>2, <2>3, <2>4, <2>6, <2>7, <2>10
  <2>12. Within(<<x2, Min({w2, w - x2})>>) = x2..(x2 + Min({w2, w - x2}) - 1)
    BY DEF Within
  <2>13. ScaleX(FullWidth, w, c) = p
    BY <1>3 DEF ScaleX, p
  <2>14. QED
    BY <2>9, <2>11, <2>12, <2>13
<1>4. QED
  BY <1>2, <1>3

(* All of a scaled screen is all of the screen. *)
LEMMA WholeScreen ==
  ASSUME NEW w \in ScaledWidths
  PROVE  Within(rfbScaledCorrection(w, FullWidth, 0, w)) = FullColumns
<1>1. FullWidth \in Nat \ {0} /\ w \in Nat \ {0}
  BY WidthsAreSmall
<1>2. rfbScaledCorrection(w, FullWidth, 0, w) = <<0, FullWidth>>
  <2>1. CASE w = FullWidth
    BY <2>1 DEF rfbScaledCorrection
  <2>2. CASE w # FullWidth
    <3>1. 0 * FullWidth = 0 /\ 0 * w = 0
      BY <1>1
    <3>2. Floor(0 * FullWidth, w) = 0
      <4>1. 0 \div w = 0
        BY <1>1
      <4>2. QED
        BY <3>1, <4>1 DEF Floor
    <3>3. w * FullWidth + (0 * FullWidth - 0 * w) = FullWidth * w
          /\ FullWidth * w \in Nat
      BY <1>1, <3>1
    <3>4. Ceil(FullWidth * w, w) = FullWidth
      <4> DEFINE k == Ceil(FullWidth * w, w)
      <4>1. k \in Nat /\ k * w >= FullWidth * w
        BY <1>1, <3>3, CeilIsEnough
      <4>2. k < FullWidth + 1
        <5>1. FullWidth * w + w - 1 < (FullWidth + 1) * w
          BY <1>1, <3>3
        <5>2. FullWidth * w + w - 1 \in Nat /\ FullWidth + 1 \in Nat
          BY <1>1, <3>3
        <5>3. QED
          BY <1>1, <5>1, <5>2, QuotientIsLess DEF Ceil
      <4> HIDE DEF k
      <4>3. ASSUME k < FullWidth PROVE FALSE
        <5>1. (k + 1) * w <= FullWidth * w /\ (k + 1) * w = k * w + w
              /\ k * w \in Nat
          BY <1>1, <4>1, <4>3, LargerProduct
        <5>2. QED
          BY <1>1, <3>3, <4>1, <5>1
      <4>4. QED
        BY <1>1, <4>1, <4>2, <4>3 DEF k
    <3>5. Min({FullWidth, FullWidth - 0}) = FullWidth
      BY <1>1, MinOfTwo
    <3>6. QED
      BY <1>1, <2>2, <3>2, <3>3, <3>4, <3>5 DEF rfbScaledCorrection
  <2>3. QED
    BY <2>1, <2>2
<1>3. QED
  BY <1>1, <1>2 DEF Within, FullColumns

(* Every column of a region is in one of its rectangles. *)
LEMMA InSomeRect ==
  ASSUME NEW columns \in SUBSET FullColumns, NEW c \in columns
  PROVE  \E r \in RectsOf(columns) : c \in Within(r)
<1>1. FullWidth \in Nat \ {0} /\ c \in Nat /\ c < FullWidth
  BY WidthsAreSmall DEF FullColumns
<1>2. PICK right \in Nat : c..(c + right) \subseteq columns /\ c + right + 1 \notin columns
  <2> DEFINE S == {n \in Nat : c..(c + n) \subseteq columns}
  <2> SUFFICES ASSUME \A n \in Nat : c..(c + n) \subseteq columns
                                       => c + n + 1 \in columns
               PROVE  FALSE
    OBVIOUS
  <2>1. 0 \in S
    BY <1>1
  <2>2. ASSUME NEW n \in Nat, n \in S PROVE n + 1 \in S
    <3>1. c + n + 1 \in columns
      BY <2>2
    <3>2. \A y \in c..(c + (n + 1)) : y \in c..(c + n) \/ y = c + n + 1
      BY <1>1
    <3>3. QED
      BY <2>2, <3>1, <3>2
  <2> HIDE DEF S
  <2>3. FullWidth \in S
    BY <1>1, <2>1, <2>2, SetInduction
  <2>4. c + FullWidth \in columns
    BY <1>1, <2>3 DEF S
  <2>5. QED
    BY <1>1, <2>4 DEF FullColumns
<1>3. PICK left \in Nat : (c - left)..c \subseteq columns /\ c - left - 1 \notin columns
  <2> DEFINE S == {n \in Nat : (c - n)..c \subseteq columns}
  <2> SUFFICES ASSUME \A n \in Nat : (c - n)..c \subseteq columns
                                       => c - n - 1 \in columns
               PROVE  FALSE
    OBVIOUS
  <2>1. 0 \in S
    BY <1>1
  <2>2. ASSUME NEW n \in Nat, n \in S PROVE n + 1 \in S
    <3>1. c - n - 1 \in columns
      BY <2>2
    <3>2. \A y \in (c - (n + 1))..c : y \in (c - n)..c \/ y = c - n - 1
      BY <1>1
    <3>3. QED
      BY <2>2, <3>1, <3>2
  <2> HIDE DEF S
  <2>3. FullWidth \in S
    BY <1>1, <2>1, <2>2, SetInduction
  <2>4. c - FullWidth \in columns
    BY <1>1, <2>3 DEF S
  <2>5. QED
    BY <1>1, <2>4 DEF FullColumns
<1> DEFINE a == c - left
           n == left + right + 1
           r == <<a, n>>
<1>4. a \in columns /\ c + right \in columns
  BY <1>1, <1>2, <1>3
<1>5. a \in Nat /\ c + right < FullWidth
  BY <1>1, <1>4 DEF FullColumns
<1>6. n \in 1..FullWidth
  BY <1>1, <1>5
<1>7. Within(r) = a..(c + right)
  <2>1. a + n - 1 = c + right
    BY <1>1
  <2>2. QED
    BY <2>1 DEF Within
<1>8. Within(r) \subseteq columns
  <2>1. \A y \in a..(c + right) : y \in a..c \/ y \in c..(c + right)
    BY <1>1, <1>5
  <2>2. QED
    BY <1>2, <1>3, <1>7, <2>1
<1>9. a - 1 \notin columns /\ a + n \notin columns
  <2>1. a + n = c + right + 1
    BY <1>1
  <2>2. QED
    BY <1>2, <1>3, <2>1
<1>10. r \in RectsOf(columns)
  <2>1. r \in columns \X (1..FullWidth) /\ r[1] = a /\ r[2] = n
    BY <1>4, <1>6
  <2> HIDE DEF r, a, n
  <2>2. QED
    BY <1>8, <1>9, <2>1 DEF RectsOf
<1>11. c \in Within(r)
  BY <1>1, <1>5, <1>7
<1>12. QED
  BY <1>10, <1>11

(* The columns that a pixel is blended from are columns of the screen.     *)
LEMMA BlockIsInScreen ==
  ASSUME NEW w \in ScaledWidths, NEW c \in 0..(w - 1), NEW p \in c..(w - 1)
  PROVE  /\ ScaleX(w, FullWidth, 1) \in Nat \ {0}
         /\ ScaleX(w, FullWidth, c) \in Nat
         /\ (p - c) * ScaleX(w, FullWidth, 1) \in Nat
         /\ ScaleX(w, FullWidth, c) + (p - c) * ScaleX(w, FullWidth, 1)
              + ScaleX(w, FullWidth, 1) <= FullWidth
<1>1. /\ FullWidth \in Nat \ {0} /\ w \in Nat \ {0} /\ w <= FullWidth
      /\ c \in Nat /\ p - c \in Nat
  BY WidthsAreSmall
<1>2. CASE w = FullWidth
  BY <1>1, <1>2 DEF ScaleX
<1>3. CASE w # FullWidth
  <2> DEFINE area == FullWidth \div w
             n == c * FullWidth
             x0 == n \div w
             k == p - c
  <2>1. area \in Nat /\ FullWidth % w \in 0..(w - 1)
        /\ FullWidth = area * w + (FullWidth % w)
    BY <1>1, Division
  <2>2. n \in Nat
    BY <1>1
  <2> HIDE DEF n
  <2>3. x0 \in Nat /\ n % w \in 0..(w - 1) /\ n = x0 * w + (n % w)
    BY <1>1, <2>2, Division
  <2> HIDE DEF area, x0
  <2>4. area # 0
    <3>1. area = 0 => area * w = 0
      BY <1>1
    <3>2. QED
      BY <1>1, <2>1, <3>1
  <2>5. area * w \in Nat /\ area * w <= FullWidth /\ x0 * w \in Nat /\ x0 * w <= n
    <3>1. area * w \in Nat /\ x0 * w \in Nat
      BY <1>1, <2>1, <2>3
    <3>2. QED
      BY <1>1, <2>1, <2>2, <2>3, <3>1
  <2>6. k \in Nat /\ k + 1 \in Nat /\ c + (k + 1) <= w
    BY <1>1
  <2> HIDE DEF k
  <2> DEFINE t == x0 + k * area + area
  <2>7. k * area \in Nat /\ t \in Nat
    BY <2>1, <2>3, <2>6
  <2>8. t * w = x0 * w + (k + 1) * (area * w)
    <3>1. t = x0 + (k + 1) * area
      BY <2>1, <2>3, <2>6
    <3>2. ASSUME NEW a \in Nat, NEW b \in Nat PROVE (x0 + b * a) * w = x0 * w + b * (a * w)
      BY <1>1, <2>3
    <3> HIDE DEF t
    <3>3. QED
      BY <2>1, <2>6, <3>1, <3>2
  <2>9. (area * w) * (k + 1) <= FullWidth * (k + 1)
    BY <1>1, <2>5, <2>6, LargerProduct
  <2>10. (c + (k + 1)) * FullWidth <= w * FullWidth
    BY <1>1, <2>6, LargerProduct
  <2>11. t * w <= FullWidth * w
    <3>1. (c + (k + 1)) * FullWidth = n + FullWidth * (k + 1)
      BY <1>1, <2>6 DEF n
    <3>2. (k + 1) * (area * w) = (area * w) * (k + 1)
          /\ w * FullWidth = FullWidth * w
      BY <1>1, <2>5, <2>6
    <3> DEFINE e1 == (area * w) * (k + 1)
               e2 == FullWidth * (k + 1)
               e3 == FullWidth * w
               e4 == (c + (k + 1)) * FullWidth
               e5 == x0 * w
    <3>3. e1 \in Nat /\ e2 \in Nat /\ e3 \in Nat /\ e4 \in Nat /\ e5 \in Nat
      BY <1>1, <2>5, <2>6
    <3>4. e1 <= e2 /\ e4 <= e3 /\ e4 = n + e2 /\ e5 <= n /\ t * w = e5 + e1
      BY <2>5, <2>8, <2>9, <2>10, <3>1, <3>2
    <3> HIDE DEF e1, e2, e3, e4, e5, t
    <3>5. t * w <= e3
      BY <2>2, <3>3, <3>4
    <3>6. QED
      BY <3>5 DEF e3
  <2> HIDE DEF t
  <2>12. t <= FullWidth
    <3>1. ASSUME FullWidth < t PROVE FALSE
      <4>1. (FullWidth + 1) * w <= t * w
        BY <1>1, <2>7, <3>1, LargerProduct
      <4>2. (FullWidth + 1) * w = FullWidth * w + w /\ FullWidth * w \in Nat
            /\ t * w \in Nat
        BY <1>1, <2>7
      <4>3. QED
        BY <1>1, <2>11, <4>1, <4>2
    <3>2. QED
      BY <1>1, <2>7, <3>1
  <2>13. ScaleX(w, FullWidth, 1) = area /\ ScaleX(w, FullWidth, c) = x0
    <3>1. 1 * FullWidth = FullWidth
      BY <1>1
    <3>2. QED
      BY <1>3, <3>1 DEF ScaleX, area, x0, n
  <2>14. QED
    BY <2>1, <2>3, <2>4, <2>7, <2>12, <2>13 DEF t, k
<1>4. QED
  BY <1>2, <1>3

(* Where a rectangle begins in the scaled screen.                          *)
LEMMA CorrectionStarts ==
  ASSUME NEW w \in ScaledWidths, NEW x \in Nat, NEW n \in Nat
  PROVE  rfbScaledCorrection(FullWidth, w, x, n)[1] \in Nat
<1>1. FullWidth \in Nat \ {0} /\ w \in Nat \ {0}
  BY WidthsAreSmall
<1>2. x * w \in Nat
  BY <1>1
<1>3. (x * w) \div FullWidth \in Nat
  BY <1>1, <1>2, Division
<1>4. QED
  BY <1>3 DEF rfbScaledCorrection, Floor

(* Pixels that were blended again are up to date, the others stay as they  *)
(* were.                                                                   *)
LEMMA RectIsUpdated ==
  ASSUME NEW w \in ScaledWidths, w # FullWidth, NEW pixels \in PixelsOf(w),
         NEW x \in Nat, NEW n \in Nat, x + n <= FullWidth,
         \A c \in FullColumns :
           c \in x..(x + n - 1) \/ Fresh(pixels[ScaleX(FullWidth, w, c)], c)
  PROVE  ScreenIsFresh(rfbScaledScreenUpdateRect(pixels, w, x, n), w)
<1> DEFINE new == rfbScaledScreenUpdateRect(pixels, w, x, n)
           r == rfbScaledCorrection(FullWidth, w, x, n)
<1>1. FullWidth \in Nat \ {0} /\ w \in Nat \ {0}
  BY WidthsAreSmall
<1>2. DOMAIN pixels = 0..(w - 1)
  BY DEF PixelsOf
<1>3. ASSUME NEW p \in 0..(w - 1), p \in Within(r)
      PROVE  new[p].of # {} /\ new[p].drawn = {}
  <2>1. r[1] \in Nat
    BY CorrectionStarts
  <2> DEFINE area == ScaleX(w, FullWidth, 1)
             x0 == ScaleX(w, FullWidth, r[1])
             Block(q) == IF trueColour THEN Within(<<x0 + (q - r[1]) * area, area>>)
                         ELSE {q * area}
  <2>2. new[p] = [of |-> Block(p), drawn |-> {}]
    BY <1>2, <1>3 DEF rfbScaledScreenUpdateRect
  <2>3. r[1] \in 0..(w - 1) /\ p \in r[1]..(w - 1)
    <3>1. r[1] <= p
      BY <1>3, <2>1 DEF Within
    <3>2. QED
      BY <1>1, <1>3, <2>1, <3>1
  <2>4. area \in Nat \ {0} /\ x0 \in Nat /\ (p - r[1]) * area \in Nat
    BY <2>3, BlockIsInScreen
  <2> HIDE DEF area, x0
  <2>5. Within(<<x0 + (p - r[1]) * area, area>>) # {}
    <3> DEFINE b == x0 + (p - r[1]) * area
    <3>1. b \in Nat
      BY <2>4
    <3> HIDE DEF b
    <3>2. b \in Within(<<b, area>>)
      BY <2>4, <3>1 DEF Within
    <3>3. QED
      BY <3>2 DEF b
  <2>6. Block(p) # {}
    BY <2>5
  <2>7. QED
    BY <2>2, <2>6
<1>4. ASSUME NEW p \in 0..(w - 1), p \notin Within(r)
      PROVE  new[p] = pixels[p]
  BY <1>2, <1>4 DEF rfbScaledScreenUpdateRect
<1>5. ASSUME NEW c \in FullColumns PROVE Fresh(new[ScaleX(FullWidth, w, c)], c)
  <2>1. ScaleX(FullWidth, w, c) \in 0..(w - 1)
    BY PixelIsInScreen
  <2>2. c \in x..(x + n - 1) => ScaleX(FullWidth, w, c) \in Within(r)
    BY CorrectionCovers
  <2> HIDE DEF new, r
  <2>3. QED
    BY <1>3, <1>4, <2>1, <2>2 DEF Fresh
<1>6. QED
  BY <1>5 DEF ScreenIsFresh

(* And they are pixels of the scaled screen, of columns of the screen.     *)
LEMMA UpdatedIsTyped ==
  ASSUME NEW w \in ScaledWidths, NEW pixels \in PixelsOf(w),
         NEW x \in Nat, NEW n \in Nat, trueColour \in BOOLEAN
  PROVE  rfbScaledScreenUpdateRect(pixels, w, x, n) \in PixelsOf(w)
<1> DEFINE new == rfbScaledScreenUpdateRect(pixels, w, x, n)
           r == rfbScaledCorrection(FullWidth, w, x, n)
           area == ScaleX(w, FullWidth, 1)
           x0 == ScaleX(w, FullWidth, r[1])
           Block(q) == IF trueColour THEN Within(<<x0 + (q - r[1]) * area, area>>)
                       ELSE {q * area}
<1>1. FullWidth \in Nat \ {0} /\ w \in Nat \ {0}
  BY WidthsAreSmall
<1>2. CASE w = FullWidth
  BY <1>2 DEF rfbScaledScreenUpdateRect
<1>3. CASE w # FullWidth
  <2>1. DOMAIN pixels = 0..(w - 1) /\ \A p \in 0..(w - 1) : pixels[p] \in ScaledPixel
    BY DEF PixelsOf
  <2>2. new = [p \in 0..(w - 1) |-> IF p \in Within(r)
                                    THEN [of |-> Block(p), drawn |-> {}]
                                    ELSE pixels[p]]
    BY <1>3, <2>1 DEF rfbScaledScreenUpdateRect
  <2>3. r[1] \in Nat
    BY CorrectionStarts
  <2>4. ASSUME NEW p \in 0..(w - 1), p \in Within(r)
        PROVE  Block(p) \subseteq FullColumns
    <3>1. r[1] <= p
      BY <2>3, <2>4 DEF Within
    <3>2. r[1] \in 0..(w - 1) /\ p \in r[1]..(w - 1)
      BY <1>1, <2>3, <2>4, <3>1
    <3>3. /\ area \in Nat \ {0} /\ x0 \in Nat /\ (p - r[1]) * area \in Nat
          /\ x0 + (p - r[1]) * area + area <= FullWidth
      BY <3>2, BlockIsInScreen
    <3>4. p * area \in Nat /\ p * area + area <= FullWidth
      <4>1. 0 \in 0..(w - 1) /\ p \in 0..(w - 1) /\ p - 0 = p
        BY <1>1
      <4>2. /\ ScaleX(w, FullWidth, 0) \in Nat /\ (p - 0) * area \in Nat
            /\ ScaleX(w, FullWidth, 0) + (p - 0) * area + area <= FullWidth
        BY <4>1, BlockIsInScreen
      <4> DEFINE z == ScaleX(w, FullWidth, 0)
                 m == p * area
      <4>3. z \in Nat /\ m \in Nat /\ z + m + area <= FullWidth
        BY <4>1, <4>2
      <4> HIDE DEF z, m, area
      <4>4. m + area <= FullWidth
        BY <1>1, <3>3, <4>3
      <4>5. QED
        BY <4>3, <4>4 DEF m
    <3> DEFINE b == x0 + (p - r[1]) * area
               m == p * area
    <3>5. b \in Nat /\ b + area <= FullWidth /\ m \in Nat /\ m + area <= FullWidth
      BY <3>3, <3>4
    <3> HIDE DEF b, m, area
    <3>6. Within(<<b, area>>) \subseteq FullColumns
      BY <1>1, <3>3, <3>5 DEF Within, FullColumns
    <3>7. {m} \subseteq FullColumns
      BY <1>1, <3>3, <3>5 DEF FullColumns
    <3>8. QED
      BY <3>6, <3>7 DEF b, m
  <2> HIDE DEF Block, r, new
  <2>5. ASSUME NEW p \in 0..(w - 1), p \in Within(r)
        PROVE  [of |-> Block(p), drawn |-> {}] \in ScaledPixel
    BY <2>4, <2>5 DEF ScaledPixel
  <2>6. new \in [0..(w - 1) -> ScaledPixel]
    BY <2>1, <2>2, <2>5
  <2>7. QED
    BY <2>6 DEF PixelsOf, new
<1>4. QED
  BY <1>2, <1>3

(* A pixel that was drawn on still stands for the columns that were not.   *)
LEMMA DrawnPixels ==
  ASSUME NEW w \in ScaledWidths \cup {NoScreen}, NEW pixels \in PixelsOf(w),
         NEW columns \in SUBSET FullColumns
  PROVE  /\ DrawnOn(pixels, columns) \in PixelsOf(w)
         /\ \A p \in 0..(w - 1), c \in FullColumns :
              c \notin columns /\ Fresh(pixels[p], c)
                => Fresh(DrawnOn(pixels, columns)[p], c)
<1>1. DOMAIN pixels = 0..(w - 1) /\ \A p \in 0..(w - 1) : pixels[p] \in ScaledPixel
  BY DEF PixelsOf
<1>2. ASSUME NEW p \in 0..(w - 1)
      PROVE  /\ DrawnOn(pixels, columns)[p] =
                  [of |-> pixels[p].of,
                   drawn |-> pixels[p].drawn \cup (pixels[p].of \cap columns)]
             /\ DrawnOn(pixels, columns)[p].of = pixels[p].of
             /\ DrawnOn(pixels, columns)[p].drawn =
                  pixels[p].drawn \cup (pixels[p].of \cap columns)
             /\ DrawnOn(pixels, columns)[p] \in ScaledPixel
  <2>1. pixels[p] \in ScaledPixel
    BY <1>1
  <2>2. DrawnOn(pixels, columns)[p] =
          [pixels[p] EXCEPT !.drawn = @ \cup (pixels[p].of \cap columns)]
    BY <1>1 DEF DrawnOn
  <2>3. DrawnOn(pixels, columns)[p] =
          [of |-> pixels[p].of,
           drawn |-> pixels[p].drawn \cup (pixels[p].of \cap columns)]
    BY <2>1, <2>2 DEF ScaledPixel
  <2>4. pixels[p].of \in SUBSET FullColumns /\ pixels[p].drawn \in SUBSET FullColumns
    BY <2>1 DEF ScaledPixel
  <2>5. QED
    BY <2>3, <2>4 DEF ScaledPixel
<1>3. DrawnOn(pixels, columns) = [p \in 0..(w - 1) |-> DrawnOn(pixels, columns)[p]]
  BY <1>1 DEF DrawnOn
<1>4. DrawnOn(pixels, columns) \in PixelsOf(w)
  BY <1>2, <1>3 DEF PixelsOf
<1>5. ASSUME NEW p \in 0..(w - 1), NEW c \in FullColumns,
             c \notin columns, Fresh(pixels[p], c)
      PROVE  Fresh(DrawnOn(pixels, columns)[p], c)
  <2>1. /\ DrawnOn(pixels, columns)[p].of = pixels[p].of
        /\ DrawnOn(pixels, columns)[p].drawn =
             pixels[p].drawn \cup (pixels[p].of \cap columns)
    BY <1>2
  <2>2. pixels[p].of # {} /\ c \notin pixels[p].drawn
    BY <1>5 DEF Fresh
  <2>3. QED
    BY <1>5, <2>1, <2>2 DEF Fresh
<1>6. QED
  BY <1>4, <1>5

(* What a client shows. *)
LEMMA ViewIs ==
  ASSUME NEW view \in Views
  PROVE  /\ view.w \in ScaledWidths \cup {NoScreen} /\ view.px \in PixelsOf(view.w)
         /\ view = [w |-> view.w, px |-> view.px]
<1>1. PICK w \in ScaledWidths \cup {NoScreen} : view \in [w : {w}, px : PixelsOf(w)]
  BY DEF Views
<1>2. QED
  BY <1>1

(* Any pixels of a screen are a view of it. *)
LEMMA ViewOf ==
  ASSUME NEW w \in ScaledWidths \cup {NoScreen}, NEW px \in PixelsOf(w)
  PROVE  [w |-> w, px |-> px] \in Views
<1>1. [w |-> w, px |-> px] \in [w : {w}, px : PixelsOf(w)]
  OBVIOUS
<1>2. QED
  BY <1>1 DEF Views

(* The views a client starts with. *)
LEMMA EmptyViews ==
  /\ \A w \in ScaledWidths : BlankPixels(w) \in PixelsOf(w)
  /\ \A w \in ScaledWidths : [w |-> w, px |-> BlankPixels(w)] \in Views
  /\ NoView \in Views
<1>1. Blank \in ScaledPixel
  BY DEF Blank, ScaledPixel
<1>2. ASSUME NEW w \in ScaledWidths PROVE BlankPixels(w) \in PixelsOf(w)
  BY <1>1 DEF BlankPixels, PixelsOf
<1>3. <<>> \in PixelsOf(NoScreen)
  <2>1. 0..(NoScreen - 1) = {}
    BY DEF NoScreen
  <2>2. <<>> \in [{} -> ScaledPixel]
    OBVIOUS
  <2>3. QED
    BY <2>1, <2>2 DEF PixelsOf
<1>4. QED
  BY <1>2, <1>3, ViewOf DEF NoView

(* Clients move between screens.                                           *)
LEMMA ClientMoves ==
  ASSUME NEW screens \in [ScaleClients -> ScaledWidths \cup {NoScreen}],
         NEW v \in ScaleClients, NEW to \in ScaledWidths \cup {NoScreen},
         NEW w \in ScaledWidths \cup {NoScreen}
  PROVE  /\ ClientsOn(screens, w) \in Nat
         /\ screens[v] = w => ClientsOn(screens, w) > 0
         /\ ClientsOn([screens EXCEPT ![v] = to], w) =
              ClientsOn(screens, w) - (IF w = screens[v] THEN 1 ELSE 0)
                                    + (IF w = to THEN 1 ELSE 0)
<1> DEFINE before == {u \in ScaleClients : screens[u] = w}
           others == before \ {v}
           after == {u \in ScaleClients : [screens EXCEPT ![v] = to][u] = w}
<1>1. IsFiniteSet(ScaleClients)
  BY ScaleAssumption
<1>2. IsFiniteSet(before) /\ IsFiniteSet(others)
  <2>1. before \subseteq ScaleClients /\ others \subseteq ScaleClients
    OBVIOUS
  <2>2. QED
    BY <1>1, <2>1, FS_Subset
<1>3. Cardinality(before) \in Nat /\ Cardinality(others) \in Nat
  BY <1>2, FS_CardinalityType
<1>4. Cardinality(before) = Cardinality(others) + (IF w = screens[v] THEN 1 ELSE 0)
  <2>1. CASE screens[v] = w
    <3>1. before = others \cup {v} /\ v \notin others
      BY <2>1
    <3> HIDE DEF before, others
    <3>2. Cardinality(others \cup {v}) = Cardinality(others) + 1
      BY <1>2, <3>1, FS_AddElement
    <3>3. QED
      BY <2>1, <3>1, <3>2
  <2>2. CASE screens[v] # w
    <3>1. before = others
      BY <2>2
    <3> HIDE DEF before, others
    <3>2. QED
      BY <1>3, <2>2, <3>1
  <2>3. QED
    BY <2>1, <2>2
<1>5. Cardinality(after) = Cardinality(others) + (IF w = to THEN 1 ELSE 0)
  <2>1. CASE to = w
    <3>1. after = others \cup {v} /\ v \notin others
      BY <2>1
    <3> HIDE DEF after, others
    <3>2. Cardinality(others \cup {v}) = Cardinality(others) + 1
      BY <1>2, <3>1, FS_AddElement
    <3>3. QED
      BY <2>1, <3>1, <3>2
  <2>2. CASE to # w
    <3>1. after = others
      BY <2>2
    <3> HIDE DEF after, others
    <3>2. QED
      BY <1>3, <2>2, <3>1
  <2>3. QED
    BY <2>1, <2>2
<1>6. ClientsOn(screens, w) = Cardinality(before)
      /\ ClientsOn([screens EXCEPT ![v] = to], w) = Cardinality(after)
  BY DEF ClientsOn
<1> HIDE DEF before, others, after
<1>7. QED
  BY <1>3, <1>4, <1>5, <1>6

(* The screen of a client has clients, is on the chain and is up to date.  *)
LEMMA ScreenOfClient ==
  ASSUME ScaleInv, NEW v \in ScaleClients, scaledScreen[v] # NoScreen
  PROVE  /\ scaledScreen[v] \in ScaledWidths
         /\ scaledScreenRefCount[scaledScreen[v]] > 0
         /\ ScreenIsFresh(scaledFrameBuffer[scaledScreen[v]], scaledScreen[v])
<1>1. scaledScreen \in [ScaleClients -> ScaledWidths \cup {NoScreen}]
  BY DEF ScaleInv, ScaleTyped
<1>2. scaledScreen[v] \in ScaledWidths
  BY <1>1
<1>3. ClientsOn(scaledScreen, scaledScreen[v]) > 0
  BY <1>1, <1>2, ClientMoves
<1>4. scaledScreenRefCount[scaledScreen[v]] > 0
  BY <1>2, <1>3 DEF ScaleInv, ScreensAreCounted
<1>5. QED
  BY <1>2, <1>4 DEF ScaleInv, ScreensAreFresh

(* The screen's own pixels show themselves. *)
LEMMA ScreenShowsItself ==
  /\ ScreenPixels \in PixelsOf(FullWidth)
  /\ ScreenIsFresh(ScreenPixels, FullWidth)
  /\ NoScreen \notin ScaledWidths
<1>1. ScreenPixels \in PixelsOf(FullWidth)
  <2>1. \A p \in FullColumns : [of |-> {p}, drawn |-> {}] \in ScaledPixel
    BY DEF ScaledPixel
  <2>2. QED
    BY <2>1 DEF ScreenPixels, PixelsOf, FullColumns
<1>2. ASSUME NEW c \in FullColumns
      PROVE  Fresh(ScreenPixels[ScaleX(FullWidth, FullWidth, c)], c)
  <2>1. ScaleX(FullWidth, FullWidth, c) = c
    BY DEF ScaleX
  <2>2. ScreenPixels[c] = [of |-> {c}, drawn |-> {}]
    BY DEF ScreenPixels
  <2>3. QED
    BY <2>1, <2>2 DEF Fresh
<1>3. NoScreen \notin ScaledWidths
  BY WidthsAreSmall DEF NoScreen
<1>4. QED
  BY <1>1, <1>2, <1>3 DEF ScreenIsFresh

-----------------------------------------------------------------------------
(* At first there are no clients and no scaled screens. *)
LEMMA ScaleInitInv ==
  ASSUME ScaleInit
  PROVE  ScaleInv
<1> USE DEF ScaleInit
<1>1. ScaleTyped
  <2>1. \A w \in ScaledWidths :
          (IF w = FullWidth THEN ScreenPixels ELSE BlankPixels(w)) \in PixelsOf(w)
    BY ScreenShowsItself, EmptyViews
  <2>2. \A w \in ScaledWidths : scaledFrameBuffer[w] \in PixelsOf(w)
    BY <2>1
  <2>3. scaledFrameBuffer \in [ScaledWidths -> ScaledPixels]
    BY <2>1 DEF ScaledPixels
  <2>4. scaledView \in [ScaleClients -> Views]
    BY EmptyViews
  <2>5. QED
    BY <2>2, <2>3, <2>4 DEF ScaleTyped
<1>2. ScreensAreCounted
  <2> SUFFICES ASSUME NEW w \in ScaledWidths PROVE ClientsOn(scaledScreen, w) = 0
    BY DEF ScreensAreCounted
  <2>1. {v \in ScaleClients : scaledScreen[v] = w} = {}
    BY ScreenShowsItself
  <2>2. QED
    BY <2>1, FS_EmptySet DEF ClientsOn
<1>3. ScreensAreFresh
  BY ScreenShowsItself DEF ScreensAreFresh
<1>4. ViewsAreFresh
  BY DEF ViewsAreFresh
<1>5. QED
  BY <1>1, <1>2, <1>3, <1>4 DEF ScaleInv

(* The application draws: a pixel that a drawn column is in was blended    *)
(* again on every screen that has clients, and the column is modified for  *)
(* every client.                                                           *)
LEMMA DrawingInv ==
  ASSUME ScaleInv, rfbMarkRectAsModified
  PROVE  ScaleInv'
<1>1. PICK r \in DrawnRects :
        LET columns == r[1]..(r[2] - 1)
            SourceOf(w) == IF w = FullWidth THEN ScreenPixels
                        ELSE DrawnOn(scaledFrameBuffer[w], columns)
        IN  /\ scaledFrameBuffer' =
                 [w \in ScaledWidths |-> rfbScaledScreenUpdate(w, SourceOf(w), r)]
            /\ scaledView' =
                 [v \in ScaleClients |->
                    [scaledView[v] EXCEPT !.px = DrawnOn(@, columns)]]
            /\ scaleModified' = [v \in ScaleClients |->
                                   IF scaledScreen[v] = NoScreen THEN {}
                                   ELSE scaleModified[v] \cup columns]
            /\ UNCHANGED <<trueColour, scaledScreenNext, scaledScreenRefCount,
                           scaledScreen, newScaleSizePending,
                           scaleRequested, resizeUnanswered>>
  BY DEF rfbMarkRectAsModified
<1> DEFINE columns == r[1]..(r[2] - 1)
           SourceOf(w) == IF w = FullWidth THEN ScreenPixels
                       ELSE DrawnOn(scaledFrameBuffer[w], columns)
<1>2. /\ scaledFrameBuffer' =
           [w \in ScaledWidths |-> rfbScaledScreenUpdate(w, SourceOf(w), r)]
      /\ scaledView' = [v \in ScaleClients |->
                          [scaledView[v] EXCEPT !.px = DrawnOn(@, columns)]]
      /\ scaleModified' = [v \in ScaleClients |->
                             IF scaledScreen[v] = NoScreen THEN {}
                             ELSE scaleModified[v] \cup columns]
      /\ UNCHANGED <<trueColour, scaledScreenNext, scaledScreenRefCount,
                     scaledScreen, newScaleSizePending,
                     scaleRequested, resizeUnanswered>>
  BY <1>1
<1>3. /\ FullWidth \in Nat \ {0} /\ r[1] \in Nat /\ r[2] \in Nat
      /\ r[2] - r[1] \in Nat /\ r[1] + (r[2] - r[1]) <= FullWidth
      /\ r[1]..(r[1] + (r[2] - r[1]) - 1) = columns
      /\ columns \in SUBSET FullColumns
  <2>1. FullWidth \in Nat \ {0} /\ r[1] \in Nat /\ r[2] \in Nat
        /\ r[1] < r[2] /\ r[2] <= FullWidth
    BY <1>1, ScaleAssumption
  <2>2. QED
    BY <2>1 DEF FullColumns
<1>4. /\ ScaleTyped /\ ScreensAreCounted /\ ScreensAreFresh /\ ViewsAreFresh
  BY DEF ScaleInv
<1> HIDE DEF columns
<1>5. ASSUME NEW w \in ScaledWidths
      PROVE  /\ SourceOf(w) \in PixelsOf(w)
             /\ scaledFrameBuffer[w] \in PixelsOf(w)
  BY <1>3, <1>4, DrawnPixels, ScreenShowsItself DEF ScaleTyped
<1>6. ASSUME NEW w \in ScaledWidths
      PROVE  scaledFrameBuffer'[w] = rfbScaledScreenUpdate(w, SourceOf(w), r)
  BY <1>2, <1>6
<1> HIDE DEF SourceOf
<1>7. ASSUME NEW w \in ScaledWidths
      PROVE  rfbScaledScreenUpdate(w, SourceOf(w), r) \in PixelsOf(w)
  <2>1. rfbScaledScreenUpdateRect(SourceOf(w), w, r[1], r[2] - r[1]) \in PixelsOf(w)
    BY <1>3, <1>4, <1>5, UpdatedIsTyped DEF ScaleTyped
  <2>2. QED
    BY <1>5, <2>1 DEF rfbScaledScreenUpdate
<1>8. ASSUME NEW v \in ScaleClients
      PROVE  /\ scaledView'[v] = [w |-> scaledView[v].w,
                                  px |-> DrawnOn(scaledView[v].px, columns)]
             /\ scaledView'[v] \in Views
             /\ scaledView[v].w \in ScaledWidths \cup {NoScreen}
             /\ scaledView[v].px \in PixelsOf(scaledView[v].w)
  <2>1. scaledView[v] \in Views
    BY <1>4 DEF ScaleTyped
  <2> DEFINE view == scaledView[v]
  <2>2. /\ view.w \in ScaledWidths \cup {NoScreen} /\ view.px \in PixelsOf(view.w)
        /\ view = [w |-> view.w, px |-> view.px]
    BY <2>1, ViewIs
  <2>3. scaledView'[v] = [view EXCEPT !.px = DrawnOn(@, columns)]
    BY <1>2
  <2>4. scaledView'[v] = [w |-> view.w, px |-> DrawnOn(view.px, columns)]
    <3> HIDE DEF view
    <3>1. QED
      BY <2>2, <2>3
  <2>5. DrawnOn(view.px, columns) \in PixelsOf(view.w)
    BY <1>3, <2>2, DrawnPixels
  <2>6. [w |-> view.w, px |-> DrawnOn(view.px, columns)] \in Views
    BY <2>2, <2>5, ViewOf
  <2>7. QED
    BY <2>2, <2>4, <2>6
<1>9. ScaleTyped'
  <2>1. scaledFrameBuffer' \in [ScaledWidths -> ScaledPixels]
        /\ \A w \in ScaledWidths : scaledFrameBuffer'[w] \in PixelsOf(w)
    BY <1>2, <1>7 DEF ScaledPixels
  <2>2. scaledView' \in [ScaleClients -> Views]
    <3>1. scaledView' = [v \in ScaleClients |-> scaledView'[v]]
      BY <1>2
    <3>2. QED
      BY <1>8, <3>1
  <2>3. scaleModified' \in [ScaleClients -> SUBSET FullColumns]
    BY <1>2, <1>3, <1>4 DEF ScaleTyped
  <2>4. QED
    BY <1>2, <1>4, <2>1, <2>2, <2>3 DEF ScaleTyped
<1>10. ScreensAreCounted'
  BY <1>2, <1>4 DEF ScreensAreCounted
<1>11. ScreensAreFresh'
  <2> SUFFICES ASSUME NEW w \in ScaledWidths,
                      w = FullWidth \/ scaledScreenRefCount[w] > 0
               PROVE  /\ w \in scaledScreenNext \cup {FullWidth}
                      /\ ScreenIsFresh(scaledFrameBuffer'[w], w)
    BY <1>2 DEF ScreensAreFresh
  <2>1. w \in scaledScreenNext \cup {FullWidth}
        /\ ScreenIsFresh(scaledFrameBuffer[w], w)
    BY <1>4 DEF ScreensAreFresh
  <2>2. CASE w = FullWidth
    <3>1. scaledFrameBuffer'[w] = SourceOf(w)
      BY <1>4, <1>6, <2>2 DEF rfbScaledScreenUpdate, ScaleTyped
    <3>2. SourceOf(w) = ScreenPixels
      BY <2>2 DEF SourceOf
    <3>3. QED
      BY <2>1, <2>2, <3>1, <3>2, ScreenShowsItself
  <2>3. CASE w # FullWidth
    <3>1. w \in scaledScreenNext /\ scaledScreenRefCount[w] > 0
      BY <2>1, <2>3
    <3>2. scaledFrameBuffer'[w] =
            rfbScaledScreenUpdateRect(SourceOf(w), w, r[1], r[2] - r[1])
      BY <1>6, <3>1 DEF rfbScaledScreenUpdate
    <3>3. SourceOf(w) = DrawnOn(scaledFrameBuffer[w], columns)
      BY <2>3 DEF SourceOf
    <3>4. ASSUME NEW c \in FullColumns
          PROVE  \/ c \in columns
                 \/ Fresh(SourceOf(w)[ScaleX(FullWidth, w, c)], c)
      <4>1. ScaleX(FullWidth, w, c) \in 0..(w - 1)
        BY PixelIsInScreen
      <4>2. Fresh(scaledFrameBuffer[w][ScaleX(FullWidth, w, c)], c)
        BY <2>1 DEF ScreenIsFresh
      <4>3. QED
        BY <1>3, <1>5, <3>3, <4>1, <4>2, DrawnPixels
    <3>5. ScreenIsFresh(rfbScaledScreenUpdateRect(SourceOf(w), w, r[1], r[2] - r[1]), w)
      BY <1>3, <1>5, <2>3, <3>4, RectIsUpdated
    <3>6. QED
      BY <2>1, <3>2, <3>5
  <2>4. QED
    BY <2>2, <2>3
<1>12. ViewsAreFresh'
  <2> SUFFICES ASSUME NEW v \in ScaleClients
               PROVE  /\ newScaleSizePending[v] => v \in NewFBSizeClients
                      /\ scaledScreen[v] = NoScreen => scaleModified'[v] = {}
                      /\ scaledScreen[v] # NoScreen /\ ~newScaleSizePending[v] =>
                           /\ scaledView'[v].w = scaledScreen[v]
                           /\ resizeUnanswered[v]
                              \/ ViewIsFresh(scaledView'[v], scaleModified'[v])
    BY <1>2 DEF ViewsAreFresh
  <2>1. /\ newScaleSizePending[v] => v \in NewFBSizeClients
        /\ scaledScreen[v] = NoScreen => scaleModified'[v] = {}
    BY <1>2, <1>4 DEF ViewsAreFresh
  <2>2. ASSUME scaledScreen[v] # NoScreen, ~newScaleSizePending[v]
        PROVE  /\ scaledView'[v].w = scaledScreen[v]
               /\ resizeUnanswered[v]
                  \/ ViewIsFresh(scaledView'[v], scaleModified'[v])
    <3>1. /\ scaledView[v].w = scaledScreen[v]
          /\ resizeUnanswered[v] \/ ViewIsFresh(scaledView[v], scaleModified[v])
      BY <1>4, <2>2 DEF ViewsAreFresh
    <3>2. scaledView'[v].w = scaledView[v].w
          /\ scaledView'[v].px = DrawnOn(scaledView[v].px, columns)
      <4> DEFINE new == scaledView'[v]
                 px == DrawnOn(scaledView[v].px, columns)
      <4>1. new = [w |-> scaledView[v].w, px |-> px]
        BY <1>8
      <4> HIDE DEF new, px
      <4>2. new.w = scaledView[v].w /\ new.px = px
        BY <4>1
      <4>3. QED
        BY <4>2 DEF new, px
    <3>3. scaledScreen[v] \in ScaledWidths
      BY <2>2, ScreenOfClient
    <3>4. scaleModified'[v] = scaleModified[v] \cup columns
      BY <1>2, <2>2
    <3>5. ASSUME ViewIsFresh(scaledView[v], scaleModified[v]), NEW c \in FullColumns
          PROVE  \/ c \in scaleModified'[v]
                 \/ Fresh(scaledView'[v].px[ScaleX(FullWidth, scaledView'[v].w, c)], c)
      <4> DEFINE p == ScaleX(FullWidth, scaledView[v].w, c)
      <4>1. p \in 0..(scaledView[v].w - 1)
        BY <3>1, <3>3, PixelIsInScreen
      <4>2. c \in scaleModified[v] \/ Fresh(scaledView[v].px[p], c)
        BY <3>5 DEF ViewIsFresh
      <4> HIDE DEF p
      <4>3. c \notin columns /\ Fresh(scaledView[v].px[p], c)
              => Fresh(DrawnOn(scaledView[v].px, columns)[p], c)
        BY <1>3, <1>8, <4>1, DrawnPixels
      <4>4. c \in scaleModified'[v] \/ Fresh(scaledView'[v].px[p], c)
        BY <3>2, <3>4, <4>2, <4>3
      <4>5. QED
        BY <3>2, <4>4 DEF p
    <3>6. QED
      BY <3>1, <3>2, <3>5 DEF ViewIsFresh
  <2>3. QED
    BY <2>1, <2>2
<1>13. QED
  BY <1>9, <1>10, <1>11, <1>12 DEF ScaleInv

(* A client connects to the screen itself. *)
LEMMA NewScaleClientInv ==
  ASSUME ScaleInv, NEW v \in ScaleClients, NewScaleClient(v)
  PROVE  ScaleInv'
<1>1. ScaleTyped /\ ScreensAreCounted /\ ScreensAreFresh /\ ViewsAreFresh
  BY DEF ScaleInv
<1>2. /\ scaledScreen[v] = NoScreen
      /\ scaledScreen' = [scaledScreen EXCEPT ![v] = FullWidth]
      /\ scaledScreenRefCount' =
           [scaledScreenRefCount EXCEPT ![FullWidth] = scaledScreenRefCount[FullWidth] + 1]
      /\ scaleModified' = [scaleModified EXCEPT ![v] = FullColumns]
      /\ scaledView' = [scaledView EXCEPT ![v] = [w |-> FullWidth,
                                                  px |-> BlankPixels(FullWidth)]]
      /\ resizeUnanswered' = [resizeUnanswered EXCEPT ![v] = TRUE]
      /\ UNCHANGED <<trueColour, scaledScreenNext, scaledFrameBuffer,
                     newScaleSizePending, scaleRequested>>
  BY DEF NewScaleClient, ShowNewSize
<1>3. FullWidth \in ScaledWidths /\ NoScreen \notin ScaledWidths
  BY WidthsAreSmall, ScreenShowsItself
<1>4. ScaleTyped'
  <2>1. [w |-> FullWidth, px |-> BlankPixels(FullWidth)] \in Views
    BY <1>3, EmptyViews
  <2>2. scaledScreenRefCount' \in [ScaledWidths -> Int]
    BY <1>1, <1>2, <1>3 DEF ScaleTyped
  <2>3. scaledView' \in [ScaleClients -> Views]
    BY <1>1, <1>2, <2>1 DEF ScaleTyped
  <2>4. scaledScreen' \in [ScaleClients -> ScaledWidths \cup {NoScreen}]
    BY <1>1, <1>2, <1>3 DEF ScaleTyped
  <2>5. scaleModified' \in [ScaleClients -> SUBSET FullColumns]
        /\ resizeUnanswered' \in [ScaleClients -> BOOLEAN]
    BY <1>1, <1>2 DEF ScaleTyped
  <2>6. QED
    BY <1>1, <1>2, <2>2, <2>3, <2>4, <2>5 DEF ScaleTyped
<1>5. ScreensAreCounted'
  <2> SUFFICES ASSUME NEW w \in ScaledWidths
               PROVE  scaledScreenRefCount'[w] = ClientsOn(scaledScreen', w)
    BY DEF ScreensAreCounted
  <2>1. scaledScreenRefCount[w] = ClientsOn(scaledScreen, w)
    BY <1>1 DEF ScreensAreCounted
  <2>2. /\ ClientsOn(scaledScreen, w) \in Nat
        /\ ClientsOn(scaledScreen', w) =
             ClientsOn(scaledScreen, w) - (IF w = NoScreen THEN 1 ELSE 0)
                                        + (IF w = FullWidth THEN 1 ELSE 0)
    <3>1. /\ scaledScreen \in [ScaleClients -> ScaledWidths \cup {NoScreen}]
          /\ FullWidth \in ScaledWidths \cup {NoScreen} /\ w \in ScaledWidths \cup {NoScreen}
      BY <1>1, <1>3 DEF ScaleTyped
    <3>2. /\ ClientsOn(scaledScreen, w) \in Nat
          /\ ClientsOn([scaledScreen EXCEPT ![v] = FullWidth], w) =
               ClientsOn(scaledScreen, w)
                 - (IF w = scaledScreen[v] THEN 1 ELSE 0)
                 + (IF w = FullWidth THEN 1 ELSE 0)
      BY <3>1, ClientMoves, ZenonT(30)
    <3>3. QED
      BY <1>2, <3>2
  <2>3. scaledScreenRefCount'[w] =
          IF w = FullWidth THEN scaledScreenRefCount[w] + 1 ELSE scaledScreenRefCount[w]
    BY <1>1, <1>2, <1>3 DEF ScaleTyped
  <2>4. QED
    BY <1>3, <2>1, <2>2, <2>3
<1>6. ScreensAreFresh'
  <2>1. \A w \in ScaledWidths \ {FullWidth} :
          scaledScreenRefCount'[w] = scaledScreenRefCount[w]
    BY <1>1, <1>2 DEF ScaleTyped
  <2>2. QED
    BY <1>1, <1>2, <2>1 DEF ScreensAreFresh
<1>7. ViewsAreFresh'
  <2>1. /\ scaledScreen'[v] = FullWidth /\ scaledView'[v].w = FullWidth
        /\ resizeUnanswered'[v] /\ FullWidth # NoScreen
    BY <1>1, <1>2, <1>3 DEF ScaleTyped
  <2>2. \A u \in ScaleClients \ {v} :
          /\ scaledScreen'[u] = scaledScreen[u] /\ scaledView'[u] = scaledView[u]
          /\ resizeUnanswered'[u] = resizeUnanswered[u]
          /\ scaleModified'[u] = scaleModified[u]
    BY <1>1, <1>2 DEF ScaleTyped
  <2>3. newScaleSizePending' = newScaleSizePending
    BY <1>2
  <2>4. QED
    BY <1>1, <2>1, <2>2, <2>3 DEF ViewsAreFresh
<1>8. QED
  BY <1>4, <1>5, <1>6, <1>7 DEF ScaleInv

(* A client leaves: its screen has one client less. *)
LEMMA ScaleClientGoneInv ==
  ASSUME ScaleInv, NEW v \in ScaleClients, ScaleClientGone(v)
  PROVE  ScaleInv'
<1>1. ScaleTyped /\ ScreensAreCounted /\ ScreensAreFresh /\ ViewsAreFresh
  BY DEF ScaleInv
<1>2. /\ scaledScreen[v] # NoScreen
      /\ scaledScreenRefCount' =
           [scaledScreenRefCount EXCEPT ![scaledScreen[v]] =
              scaledScreenRefCount[scaledScreen[v]] - 1]
      /\ scaledScreen' = [scaledScreen EXCEPT ![v] = NoScreen]
      /\ newScaleSizePending' = [newScaleSizePending EXCEPT ![v] = FALSE]
      /\ scaleModified' = [scaleModified EXCEPT ![v] = {}]
      /\ scaleRequested' = [scaleRequested EXCEPT ![v] = {}]
      /\ scaledView' = [scaledView EXCEPT ![v] = NoView]
      /\ resizeUnanswered' = [resizeUnanswered EXCEPT ![v] = FALSE]
      /\ UNCHANGED <<trueColour, scaledScreenNext, scaledFrameBuffer>>
  BY DEF ScaleClientGone
<1>3. NoScreen \notin ScaledWidths
  BY ScreenShowsItself
<1>4. scaledScreen[v] \in ScaledWidths
  BY <1>2, ScreenOfClient
<1>5. ScaleTyped'
  <2>1. scaledScreenRefCount' \in [ScaledWidths -> Int]
    BY <1>1, <1>2, <1>4 DEF ScaleTyped
  <2>2. scaledView' \in [ScaleClients -> Views]
    BY <1>1, <1>2, EmptyViews DEF ScaleTyped
  <2>3. /\ scaledScreen' \in [ScaleClients -> ScaledWidths \cup {NoScreen}]
        /\ newScaleSizePending' \in [ScaleClients -> BOOLEAN]
        /\ resizeUnanswered' \in [ScaleClients -> BOOLEAN]
    BY <1>1, <1>2 DEF ScaleTyped
  <2>4. /\ scaleModified' \in [ScaleClients -> SUBSET FullColumns]
        /\ scaleRequested' \in [ScaleClients -> SUBSET FullColumns]
    BY <1>1, <1>2 DEF ScaleTyped
  <2>5. QED
    BY <1>1, <1>2, <2>1, <2>2, <2>3, <2>4 DEF ScaleTyped
<1>6. \A w \in ScaledWidths :
        scaledScreenRefCount'[w] =
          IF w = scaledScreen[v] THEN scaledScreenRefCount[w] - 1
                                 ELSE scaledScreenRefCount[w]
  BY <1>1, <1>2, <1>4 DEF ScaleTyped
<1>7. ScreensAreCounted'
  <2> SUFFICES ASSUME NEW w \in ScaledWidths
               PROVE  scaledScreenRefCount'[w] = ClientsOn(scaledScreen', w)
    BY DEF ScreensAreCounted
  <2>1. scaledScreenRefCount[w] = ClientsOn(scaledScreen, w)
    BY <1>1 DEF ScreensAreCounted
  <2>2. /\ ClientsOn(scaledScreen, w) \in Nat
        /\ ClientsOn(scaledScreen', w) =
             ClientsOn(scaledScreen, w) - (IF w = scaledScreen[v] THEN 1 ELSE 0)
                                        + (IF w = NoScreen THEN 1 ELSE 0)
    <3>1. /\ scaledScreen \in [ScaleClients -> ScaledWidths \cup {NoScreen}]
          /\ NoScreen \in ScaledWidths \cup {NoScreen} /\ w \in ScaledWidths \cup {NoScreen}
      BY <1>1 DEF ScaleTyped
    <3>2. /\ ClientsOn(scaledScreen, w) \in Nat
          /\ ClientsOn([scaledScreen EXCEPT ![v] = NoScreen], w) =
               ClientsOn(scaledScreen, w)
                 - (IF w = scaledScreen[v] THEN 1 ELSE 0)
                 + (IF w = NoScreen THEN 1 ELSE 0)
      BY <3>1, ClientMoves, ZenonT(30)
    <3>3. QED
      BY <1>2, <3>2
  <2>3. QED
    BY <1>3, <1>6, <2>1, <2>2
<1>8. ScreensAreFresh'
  <2>1. \A w \in ScaledWidths :
          scaledScreenRefCount'[w] > 0 => scaledScreenRefCount[w] > 0
    BY <1>1, <1>6 DEF ScaleTyped
  <2>2. QED
    BY <1>1, <1>2, <2>1 DEF ScreensAreFresh
<1>9. ViewsAreFresh'
  <2>1. scaledScreen'[v] = NoScreen /\ ~newScaleSizePending'[v]
        /\ scaleModified'[v] = {}
    BY <1>1, <1>2 DEF ScaleTyped
  <2>2. \A u \in ScaleClients \ {v} :
          /\ scaledScreen'[u] = scaledScreen[u] /\ scaledView'[u] = scaledView[u]
          /\ resizeUnanswered'[u] = resizeUnanswered[u]
          /\ scaleModified'[u] = scaleModified[u]
          /\ newScaleSizePending'[u] = newScaleSizePending[u]
    BY <1>1, <1>2 DEF ScaleTyped
  <2>3. QED
    BY <1>1, <2>1, <2>2 DEF ViewsAreFresh
<1>10. QED
  BY <1>5, <1>7, <1>8, <1>9 DEF ScaleInv

(* The screen that a client is about to take is up to date: it has         *)
(* clients, or all of it is scaled again.                                  *)
LEMMA TakenScreenIsFresh ==
  ASSUME ScaleInv, NEW w \in ScaledWidths
  PROVE  ScreenToTake(w) \in PixelsOf(w) /\ ScreenIsFresh(ScreenToTake(w), w)
<1>1. ScaleTyped /\ ScreensAreFresh
  BY DEF ScaleInv
<1>2. /\ FullWidth \in Nat \ {0} /\ 0 \in Nat /\ FullWidth \in Nat
      /\ 0 + FullWidth <= FullWidth
      /\ \A c \in FullColumns : c \in 0..(0 + FullWidth - 1)
  BY WidthsAreSmall DEF FullColumns
<1> DEFINE pixels == IF rfbScalingFind(w) THEN scaledFrameBuffer[w]
                     ELSE rfbScaledScreenAllocate(w)
<1>3. pixels \in PixelsOf(w)
  <2>1. scaledFrameBuffer[w] \in PixelsOf(w) /\ trueColour \in BOOLEAN
    BY <1>1 DEF ScaleTyped
  <2>2. rfbScaledScreenAllocate(w) \in PixelsOf(w)
    BY <1>2, <2>1, EmptyViews, UpdatedIsTyped DEF rfbScaledScreenAllocate
  <2>3. QED
    BY <2>1, <2>2
<1> DEFINE again == rfbScaledScreenUpdateRect(pixels, w, 0, FullWidth)
<1>4. ScreenToTake(w) = IF scaledScreenRefCount[w] < 1 THEN again ELSE pixels
  BY DEF ScreenToTake
<1>5. again \in PixelsOf(w)
  BY <1>1, <1>2, <1>3, UpdatedIsTyped DEF ScaleTyped
<1>6. CASE w = FullWidth
  <2>1. pixels = scaledFrameBuffer[w]
    BY <1>6 DEF rfbScalingFind
  <2>2. again = pixels
    BY <1>6 DEF rfbScaledScreenUpdateRect
  <2>3. ScreenIsFresh(scaledFrameBuffer[w], w)
    BY <1>1, <1>6 DEF ScreensAreFresh
  <2>4. ScreenToTake(w) = scaledFrameBuffer[w]
    BY <1>4, <2>1, <2>2
  <2>5. QED
    BY <1>1, <2>3, <2>4 DEF ScaleTyped
<1>7. CASE w # FullWidth
  <2>1. CASE scaledScreenRefCount[w] < 1
    <3> HIDE DEF pixels
    <3>1. ScreenIsFresh(again, w)
      BY <1>2, <1>3, <1>7, RectIsUpdated
    <3>2. QED
      BY <1>4, <1>5, <2>1, <3>1
  <2>2. CASE ~(scaledScreenRefCount[w] < 1)
    <3>1. scaledScreenRefCount[w] > 0
      BY <1>1, <2>2 DEF ScaleTyped
    <3>2. w \in scaledScreenNext /\ ScreenIsFresh(scaledFrameBuffer[w], w)
      BY <1>1, <1>7, <3>1 DEF ScreensAreFresh
    <3>3. pixels = scaledFrameBuffer[w]
      BY <3>2 DEF rfbScalingFind
    <3>4. ScreenToTake(w) = scaledFrameBuffer[w]
      BY <1>4, <2>2, <3>3
    <3>5. QED
      BY <1>1, <3>2, <3>4 DEF ScaleTyped
  <2>3. QED
    BY <2>1, <2>2
<1>8. QED
  BY <1>6, <1>7

(* A client is told the size of its screen, or will be.                    *)
LEMMA SizeIsTold ==
  ASSUME ScaleTyped, ViewsAreFresh, NEW v \in ScaleClients,
         NEW w \in ScaledWidths, NEW pending \in BOOLEAN,
         rfbSendNewScaleSize(v, w, pending),
         NEW screens \in [ScaleClients -> ScaledWidths \cup {NoScreen}],
         scaledScreen' = screens, screens[v] = w,
         \A u \in ScaleClients \ {v} : screens[u] = scaledScreen[u],
         scaleModified' = scaleModified
  PROVE  /\ newScaleSizePending' \in [ScaleClients -> BOOLEAN]
         /\ scaledView' \in [ScaleClients -> Views]
         /\ resizeUnanswered' \in [ScaleClients -> BOOLEAN]
         /\ ViewsAreFresh'
<1>0. w # NoScreen
  BY ScreenShowsItself
<1>1. CASE v \in NewFBSizeClients /\ pending
  <2>1. /\ newScaleSizePending' = [newScaleSizePending EXCEPT ![v] = TRUE]
        /\ scaledView' = scaledView /\ resizeUnanswered' = resizeUnanswered
    BY <1>1 DEF rfbSendNewScaleSize
  <2>2. newScaleSizePending' \in [ScaleClients -> BOOLEAN]
        /\ newScaleSizePending'[v]
        /\ \A u \in ScaleClients \ {v} : newScaleSizePending'[u] = newScaleSizePending[u]
    BY <2>1 DEF ScaleTyped
  <2>3. ViewsAreFresh'
    BY <1>0, <1>1, <2>1, <2>2 DEF ViewsAreFresh
  <2>4. QED
    BY <2>1, <2>2, <2>3 DEF ScaleTyped
<1>2. CASE ~(v \in NewFBSizeClients /\ pending)
  <2>1. /\ newScaleSizePending' = [newScaleSizePending EXCEPT ![v] = FALSE]
        /\ scaledView' = [scaledView EXCEPT ![v] = [w |-> w, px |-> BlankPixels(w)]]
        /\ resizeUnanswered' = [resizeUnanswered EXCEPT ![v] = TRUE]
    BY <1>2 DEF rfbSendNewScaleSize, ShowNewSize
  <2>2. [w |-> w, px |-> BlankPixels(w)] \in Views
    BY EmptyViews
  <2>3. /\ newScaleSizePending' \in [ScaleClients -> BOOLEAN]
        /\ resizeUnanswered' \in [ScaleClients -> BOOLEAN]
    BY <2>1 DEF ScaleTyped
  <2>4. scaledView' \in [ScaleClients -> Views]
    BY <2>1, <2>2 DEF ScaleTyped
  <2>5. ~newScaleSizePending'[v] /\ resizeUnanswered'[v] /\ scaledView'[v].w = w
    BY <2>1 DEF ScaleTyped
  <2>6. \A u \in ScaleClients \ {v} :
          /\ newScaleSizePending'[u] = newScaleSizePending[u]
          /\ scaledView'[u] = scaledView[u]
          /\ resizeUnanswered'[u] = resizeUnanswered[u]
    BY <2>1 DEF ScaleTyped
  <2>7. ViewsAreFresh'
    BY <1>0, <2>5, <2>6 DEF ViewsAreFresh
  <2>8. QED
    BY <2>3, <2>4, <2>7
<1>3. QED
  BY <1>1, <1>2

(* A client takes a screen of another size. *)
LEMMA SetScaleInv ==
  ASSUME ScaleInv, NEW v \in ScaleClients, rfbSetScale(v)
  PROVE  ScaleInv'
<1>1. ScaleTyped /\ ScreensAreCounted /\ ScreensAreFresh /\ ViewsAreFresh
  BY DEF ScaleInv
<1>2. scaledScreen[v] # NoScreen
      /\ UNCHANGED <<trueColour, scaleModified, scaleRequested>>
  BY DEF rfbSetScale
<1>3. PICK f \in ScaleFactors :
        \/ /\ rfbScalingSetup(v, FullWidth \div f)
           /\ rfbSendNewScaleSize(v, FullWidth \div f, TRUE)
        \/ /\ rfbSendNewScaleSize(v, scaledScreen[v], newScaleSizePending[v])
           /\ UNCHANGED <<scaledScreenNext, scaledFrameBuffer,
                          scaledScreenRefCount, scaledScreen>>
  BY DEF rfbSetScale
<1> DEFINE w == FullWidth \div f
<1>4. w \in ScaledWidths
  BY <1>3 DEF ScaledWidths
<1>5. NoScreen \notin ScaledWidths /\ scaledScreen[v] \in ScaledWidths
  BY <1>2, ScreenShowsItself, ScreenOfClient
<1> HIDE DEF w
<1>6. ASSUME rfbScalingSetup(v, w), rfbSendNewScaleSize(v, w, TRUE)
      PROVE  ScaleInv'
  <2>1. /\ scaledScreenNext' = scaledScreenNext \cup ({w} \ {FullWidth})
        /\ scaledFrameBuffer' = [scaledFrameBuffer EXCEPT ![w] = ScreenToTake(w)]
        /\ scaledScreenRefCount' =
             [s \in ScaledWidths |->
                scaledScreenRefCount[s] - (IF s = scaledScreen[v] THEN 1 ELSE 0)
                                        + (IF s = w THEN 1 ELSE 0)]
        /\ scaledScreen' = [scaledScreen EXCEPT ![v] = w]
    BY <1>6 DEF rfbScalingSetup
  <2>2. ScreenToTake(w) \in PixelsOf(w) /\ ScreenIsFresh(ScreenToTake(w), w)
    BY <1>4, TakenScreenIsFresh
  <2>3. /\ scaledScreen' \in [ScaleClients -> ScaledWidths \cup {NoScreen}]
        /\ scaledScreen'[v] = w
        /\ \A u \in ScaleClients \ {v} : scaledScreen'[u] = scaledScreen[u]
    BY <1>1, <1>4, <2>1 DEF ScaleTyped
  <2>4. /\ newScaleSizePending' \in [ScaleClients -> BOOLEAN]
        /\ scaledView' \in [ScaleClients -> Views]
        /\ resizeUnanswered' \in [ScaleClients -> BOOLEAN]
        /\ ViewsAreFresh'
    BY <1>1, <1>2, <1>4, <1>6, <2>3, SizeIsTold
  <2>5. /\ scaledFrameBuffer' \in [ScaledWidths -> ScaledPixels]
        /\ scaledFrameBuffer'[w] = ScreenToTake(w)
        /\ \A s \in ScaledWidths \ {w} : scaledFrameBuffer'[s] = scaledFrameBuffer[s]
    <3>1. ScreenToTake(w) \in ScaledPixels
      BY <1>4, <2>2 DEF ScaledPixels
    <3>2. QED
      BY <1>1, <1>4, <2>1, <3>1 DEF ScaleTyped
  <2>6. \A s \in ScaledWidths : scaledFrameBuffer'[s] \in PixelsOf(s)
    BY <1>1, <2>2, <2>5 DEF ScaleTyped
  <2>7. scaledScreenRefCount' \in [ScaledWidths -> Int]
    BY <1>1, <2>1 DEF ScaleTyped
  <2>8. scaledScreenNext' \subseteq ScaledWidths \ {FullWidth}
    BY <1>1, <1>4, <2>1 DEF ScaleTyped
  <2>9. ScaleTyped'
    BY <1>1, <1>2, <2>3, <2>4, <2>5, <2>6, <2>7, <2>8 DEF ScaleTyped
  <2>10. ScreensAreCounted'
    <3> SUFFICES ASSUME NEW s \in ScaledWidths
                 PROVE  scaledScreenRefCount'[s] = ClientsOn(scaledScreen', s)
      BY DEF ScreensAreCounted
    <3>1. scaledScreenRefCount[s] = ClientsOn(scaledScreen, s)
      BY <1>1 DEF ScreensAreCounted
    <3>2. ClientsOn(scaledScreen', s) =
            ClientsOn(scaledScreen, s) - (IF s = scaledScreen[v] THEN 1 ELSE 0)
                                       + (IF s = w THEN 1 ELSE 0)
      <4>1. /\ scaledScreen \in [ScaleClients -> ScaledWidths \cup {NoScreen}]
            /\ w \in ScaledWidths \cup {NoScreen} /\ s \in ScaledWidths \cup {NoScreen}
        BY <1>1, <1>4 DEF ScaleTyped
      <4>2. /\ ClientsOn(scaledScreen, s) \in Nat
            /\ ClientsOn([scaledScreen EXCEPT ![v] = w], s) =
                 ClientsOn(scaledScreen, s)
                   - (IF s = scaledScreen[v] THEN 1 ELSE 0)
                   + (IF s = w THEN 1 ELSE 0)
        BY <4>1, ClientMoves, ZenonT(30)
      <4>3. QED
        BY <2>1, <4>2
    <3>3. QED
      BY <2>1, <3>1, <3>2
  <2>11. ScreensAreFresh'
    <3> SUFFICES ASSUME NEW s \in ScaledWidths,
                        s = FullWidth \/ scaledScreenRefCount'[s] > 0
                 PROVE  /\ s \in scaledScreenNext' \cup {FullWidth}
                        /\ ScreenIsFresh(scaledFrameBuffer'[s], s)
      BY DEF ScreensAreFresh
    <3>1. CASE s = w
      BY <2>1, <2>2, <2>5, <3>1
    <3>2. CASE s # w
      <4>1. s = FullWidth \/ scaledScreenRefCount[s] > 0
        BY <1>1, <2>1, <3>2 DEF ScaleTyped
      <4>2. s \in scaledScreenNext \cup {FullWidth}
            /\ ScreenIsFresh(scaledFrameBuffer[s], s)
        BY <1>1, <4>1 DEF ScreensAreFresh
      <4>3. QED
        BY <2>1, <2>5, <3>2, <4>2
    <3>3. QED
      BY <3>1, <3>2
  <2>12. QED
    BY <2>4, <2>9, <2>10, <2>11 DEF ScaleInv
<1>7. ASSUME rfbSendNewScaleSize(v, scaledScreen[v], newScaleSizePending[v]),
             UNCHANGED <<scaledScreenNext, scaledFrameBuffer,
                         scaledScreenRefCount, scaledScreen>>
      PROVE  ScaleInv'
  <2>1. scaledScreen \in [ScaleClients -> ScaledWidths \cup {NoScreen}]
        /\ newScaleSizePending[v] \in BOOLEAN
    BY <1>1 DEF ScaleTyped
  <2>2. /\ newScaleSizePending' \in [ScaleClients -> BOOLEAN]
        /\ scaledView' \in [ScaleClients -> Views]
        /\ resizeUnanswered' \in [ScaleClients -> BOOLEAN]
        /\ ViewsAreFresh'
    BY <1>1, <1>2, <1>5, <1>7, <2>1, SizeIsTold
  <2>3. ScaleTyped'
    BY <1>1, <1>2, <1>7, <2>2 DEF ScaleTyped
  <2>4. ScreensAreCounted' /\ ScreensAreFresh'
    BY <1>1, <1>7 DEF ScreensAreCounted, ScreensAreFresh
  <2>5. QED
    BY <2>2, <2>3, <2>4 DEF ScaleInv
<1>8. QED
  BY <1>3, <1>6, <1>7 DEF w

-----------------------------------------------------------------------------
(* A client asks: what it asks for all over again is modified.             *)
LEMMA RequestInv ==
  ASSUME ScaleInv, NEW v \in ScaleClients, NEW x \in Nat, NEW n \in Nat,
         NEW incremental \in BOOLEAN, FramebufferUpdateRequest(v, x, n, incremental)
  PROVE  /\ ScaleTyped /\ ViewsAreFresh /\ scaledScreen[v] # NoScreen
         /\ scaleRequested' \in [ScaleClients -> SUBSET FullColumns]
         /\ scaleModified' \in [ScaleClients -> SUBSET FullColumns]
         /\ \A u \in ScaleClients : scaleModified[u] \subseteq scaleModified'[u]
         /\ \A u \in ScaleClients :
              scaledScreen[u] = NoScreen => scaleModified'[u] = {}
         /\ ~incremental =>
              Within(rfbScaledCorrection(scaledScreen[v], FullWidth, x, n))
                \cap FullColumns \subseteq scaleModified'[v]
         /\ UNCHANGED <<trueColour, scaledScreenNext, scaledScreenRefCount,
                        scaledFrameBuffer, scaledScreen, newScaleSizePending,
                        scaledView>>
         /\ ScreensAreCounted' /\ ScreensAreFresh'
<1>1. ScaleTyped /\ ScreensAreCounted /\ ScreensAreFresh /\ ViewsAreFresh
  BY DEF ScaleInv
<1> DEFINE rect == Within(rfbScaledCorrection(scaledScreen[v], FullWidth, x, n))
                     \cap FullColumns
<1>2. /\ scaledScreen[v] # NoScreen
      /\ scaleRequested' = [scaleRequested EXCEPT ![v] = scaleRequested[v] \cup rect]
      /\ scaleModified' = [scaleModified EXCEPT
           ![v] = IF incremental THEN scaleModified[v] ELSE scaleModified[v] \cup rect]
      /\ UNCHANGED <<trueColour, scaledScreenNext, scaledScreenRefCount,
                     scaledFrameBuffer, scaledScreen, newScaleSizePending,
                     scaledView>>
  BY DEF FramebufferUpdateRequest
<1>3. rect \subseteq FullColumns
  OBVIOUS
<1> HIDE DEF rect
<1>4. scaleRequested' \in [ScaleClients -> SUBSET FullColumns]
  BY <1>1, <1>2, <1>3 DEF ScaleTyped
<1>5. scaleModified' \in [ScaleClients -> SUBSET FullColumns]
  BY <1>1, <1>2, <1>3 DEF ScaleTyped
<1>6. \A u \in ScaleClients : scaleModified[u] \subseteq scaleModified'[u]
  BY <1>1, <1>2 DEF ScaleTyped
<1>7. /\ ~incremental => rect \subseteq scaleModified'[v]
      /\ \A u \in ScaleClients :
           scaledScreen[u] = NoScreen => scaleModified'[u] = {}
  BY <1>1, <1>2 DEF ScaleTyped, ViewsAreFresh
<1>8. ScreensAreCounted' /\ ScreensAreFresh'
  BY <1>1, <1>2 DEF ScreensAreCounted, ScreensAreFresh
<1>9. QED
  BY <1>1, <1>2, <1>4, <1>5, <1>6, <1>7, <1>8 DEF rect

(* Of all of its new size, so that every column is modified.               *)
LEMMA AskForNewSizeInv ==
  ASSUME ScaleInv, NEW v \in ScaleClients, AskForNewSize(v)
  PROVE  ScaleInv'
<1>1. /\ resizeUnanswered' = [resizeUnanswered EXCEPT ![v] = FALSE]
      /\ FramebufferUpdateRequest(v, 0, scaledView[v].w, FALSE)
  BY DEF AskForNewSize
<1>2. scaledView[v].w \in ScaledWidths \cup {NoScreen}
  <2>1. scaledView[v] \in Views
    BY DEF ScaleInv, ScaleTyped
  <2>2. QED
    BY <2>1, ViewIs
<1>3. scaledView[v].w \in Nat
  <2>1. NoScreen \in Nat /\ \A w \in ScaledWidths : w \in Nat
    BY WidthsAreSmall DEF NoScreen
  <2>2. QED
    BY <1>2, <2>1
<1>4. /\ ScaleTyped /\ ViewsAreFresh /\ scaledScreen[v] # NoScreen
      /\ scaleRequested' \in [ScaleClients -> SUBSET FullColumns]
      /\ scaleModified' \in [ScaleClients -> SUBSET FullColumns]
      /\ \A u \in ScaleClients : scaleModified[u] \subseteq scaleModified'[u]
      /\ \A u \in ScaleClients :
           scaledScreen[u] = NoScreen => scaleModified'[u] = {}
      /\ Within(rfbScaledCorrection(scaledScreen[v], FullWidth, 0, scaledView[v].w))
           \cap FullColumns \subseteq scaleModified'[v]
      /\ UNCHANGED <<trueColour, scaledScreenNext, scaledScreenRefCount,
                     scaledFrameBuffer, scaledScreen, newScaleSizePending,
                     scaledView>>
      /\ ScreensAreCounted' /\ ScreensAreFresh'
  BY <1>1, <1>3, RequestInv
<1>5. ScaleTyped'
  <2>1. resizeUnanswered' \in [ScaleClients -> BOOLEAN]
    BY <1>1, <1>4 DEF ScaleTyped
  <2>2. QED
    BY <1>4, <2>1 DEF ScaleTyped
<1>6. ViewsAreFresh'
  <2> SUFFICES ASSUME NEW u \in ScaleClients
               PROVE  /\ newScaleSizePending[u] => u \in NewFBSizeClients
                      /\ scaledScreen[u] = NoScreen => scaleModified'[u] = {}
                      /\ scaledScreen[u] # NoScreen /\ ~newScaleSizePending[u] =>
                           /\ scaledView[u].w = scaledScreen[u]
                           /\ resizeUnanswered'[u]
                              \/ ViewIsFresh(scaledView[u], scaleModified'[u])
    BY <1>4 DEF ViewsAreFresh
  <2>1. CASE u = v
    <3>1. newScaleSizePending[v] => v \in NewFBSizeClients
      BY <1>4 DEF ViewsAreFresh
    <3>2. ASSUME ~newScaleSizePending[v]
          PROVE  /\ scaledView[v].w = scaledScreen[v]
                 /\ ViewIsFresh(scaledView[v], scaleModified'[v])
      <4>1. scaledView[v].w = scaledScreen[v] /\ scaledScreen[v] \in ScaledWidths
        BY <1>4, <3>2, ScreenOfClient DEF ViewsAreFresh
      <4>2. Within(rfbScaledCorrection(scaledScreen[v], FullWidth, 0, scaledView[v].w))
              = FullColumns
        BY <4>1, WholeScreen
      <4>3. FullColumns \subseteq scaleModified'[v]
        BY <1>4, <4>2
      <4>4. QED
        BY <4>1, <4>3 DEF ViewIsFresh
    <3>3. QED
      BY <1>4, <2>1, <3>1, <3>2
  <2>2. CASE u # v
    <3>1. resizeUnanswered'[u] = resizeUnanswered[u]
          /\ scaleModified[u] \subseteq scaleModified'[u]
      BY <1>1, <1>4, <2>2 DEF ScaleTyped
    <3>2. ViewIsFresh(scaledView[u], scaleModified[u])
            => ViewIsFresh(scaledView[u], scaleModified'[u])
      BY <3>1 DEF ViewIsFresh
    <3>3. QED
      BY <1>4, <3>1, <3>2 DEF ViewsAreFresh
  <2>3. QED
    BY <2>1, <2>2
<1>7. QED
  BY <1>4, <1>5, <1>6 DEF ScaleInv

(* A client that asks for changes gives nothing up.                        *)
LEMMA AskForChangesInv ==
  ASSUME ScaleInv, NEW v \in ScaleClients, AskForChanges(v)
  PROVE  ScaleInv'
<1>1. PICK r \in RequestedRects : FramebufferUpdateRequest(v, r[1], r[2], TRUE)
  BY DEF AskForChanges
<1>2. resizeUnanswered' = resizeUnanswered
  BY DEF AskForChanges
<1>3. r[1] \in Nat /\ r[2] \in Nat
  BY <1>1, ScaleAssumption
<1>4. /\ ScaleTyped /\ ViewsAreFresh
      /\ scaleRequested' \in [ScaleClients -> SUBSET FullColumns]
      /\ scaleModified' \in [ScaleClients -> SUBSET FullColumns]
      /\ \A u \in ScaleClients : scaleModified[u] \subseteq scaleModified'[u]
      /\ \A u \in ScaleClients :
           scaledScreen[u] = NoScreen => scaleModified'[u] = {}
      /\ UNCHANGED <<trueColour, scaledScreenNext, scaledScreenRefCount,
                     scaledFrameBuffer, scaledScreen, newScaleSizePending,
                     scaledView>>
      /\ ScreensAreCounted' /\ ScreensAreFresh'
  BY <1>1, <1>3, RequestInv
<1>5. ScaleTyped'
  BY <1>2, <1>4 DEF ScaleTyped
<1>6. ViewsAreFresh'
  <2>1. \A u \in ScaleClients :
          ViewIsFresh(scaledView[u], scaleModified[u])
            => ViewIsFresh(scaledView[u], scaleModified'[u])
    BY <1>4 DEF ViewIsFresh
  <2>2. QED
    BY <1>2, <1>4, <2>1 DEF ViewsAreFresh
<1>7. QED
  BY <1>4, <1>5, <1>6 DEF ScaleInv

(* The new size is told with the next update.                              *)
LEMMA SendNewSizeInv ==
  ASSUME ScaleInv, NEW v \in ScaleClients, SendNewSize(v)
  PROVE  ScaleInv'
<1>1. ScaleTyped /\ ScreensAreCounted /\ ScreensAreFresh /\ ViewsAreFresh
  BY DEF ScaleInv
<1> DEFINE screen == scaledScreen[v]
<1>2. /\ newScaleSizePending[v]
      /\ newScaleSizePending' = [newScaleSizePending EXCEPT ![v] = FALSE]
      /\ scaledView' = [scaledView EXCEPT ![v] = [w |-> screen, px |-> BlankPixels(screen)]]
      /\ resizeUnanswered' = [resizeUnanswered EXCEPT ![v] = TRUE]
      /\ UNCHANGED <<trueColour, scaledScreenNext, scaledScreenRefCount,
                     scaledFrameBuffer, scaledScreen,
                     scaleModified, scaleRequested>>
  BY DEF SendNewSize, ShowNewSize
<1>3. [w |-> screen, px |-> BlankPixels(screen)] \in Views
  <2>1. CASE screen = NoScreen
    <3>1. 0..(NoScreen - 1) = {}
      BY DEF NoScreen
    <3>2. BlankPixels(screen) \in PixelsOf(NoScreen)
      BY <2>1, <3>1 DEF BlankPixels, PixelsOf
    <3>3. [w |-> NoScreen, px |-> BlankPixels(screen)] \in Views
      BY <3>2, ViewOf
    <3>4. QED
      BY <2>1, <3>3
  <2>2. CASE screen # NoScreen
    <3>1. screen \in ScaledWidths
      BY <2>2, ScreenOfClient
    <3>2. QED
      BY <3>1, EmptyViews
  <2>3. QED
    BY <2>1, <2>2
<1> HIDE DEF screen
<1>4. ScaleTyped'
  <2>1. scaledView' \in [ScaleClients -> Views]
    BY <1>1, <1>2, <1>3 DEF ScaleTyped
  <2>2. newScaleSizePending' \in [ScaleClients -> BOOLEAN]
        /\ resizeUnanswered' \in [ScaleClients -> BOOLEAN]
    BY <1>1, <1>2 DEF ScaleTyped
  <2>3. QED
    BY <1>1, <1>2, <2>1, <2>2 DEF ScaleTyped
<1>5. ScreensAreCounted' /\ ScreensAreFresh'
  BY <1>1, <1>2 DEF ScreensAreCounted, ScreensAreFresh
<1>6. ViewsAreFresh'
  <2>1. /\ ~newScaleSizePending'[v] /\ resizeUnanswered'[v]
        /\ scaledView'[v].w = screen
    BY <1>1, <1>2 DEF ScaleTyped
  <2>2. \A u \in ScaleClients \ {v} :
          /\ newScaleSizePending'[u] = newScaleSizePending[u]
          /\ scaledView'[u] = scaledView[u]
          /\ resizeUnanswered'[u] = resizeUnanswered[u]
    BY <1>1, <1>2 DEF ScaleTyped
  <2>3. screen = scaledScreen'[v]
    BY <1>2 DEF screen
  <2>4. QED
    BY <1>1, <1>2, <2>1, <2>2, <2>3 DEF ViewsAreFresh
<1>7. QED
  BY <1>4, <1>5, <1>6 DEF ScaleInv

(* An update: the pixel that stands for a column that is no longer         *)
(* modified is among those sent, and it was up to date.                    *)
LEMMA SendScaledUpdateInv ==
  ASSUME ScaleInv, NEW v \in ScaleClients, SendScaledUpdate(v)
  PROVE  ScaleInv'
<1>1. ScaleTyped /\ ScreensAreCounted /\ ScreensAreFresh /\ ViewsAreFresh
  BY DEF ScaleInv
<1> DEFINE updateRegion == scaleModified[v] \cap scaleRequested[v]
           screen == scaledScreen[v]
           rects == {rfbScaledCorrection(FullWidth, screen, r[1], r[2]) :
                       r \in RectsOf(updateRegion)}
           sent == UNION {Within(r) : r \in rects}
           view == scaledView[v]
           px == [p \in DOMAIN view.px |->
                    IF p \in sent THEN scaledFrameBuffer[screen][p] ELSE view.px[p]]
<1>2. /\ updateRegion # {}
      /\ ~(v \in NewFBSizeClients /\ newScaleSizePending[v])
      /\ scaleModified' = [scaleModified EXCEPT ![v] = scaleModified[v] \ updateRegion]
      /\ scaleRequested' = [scaleRequested EXCEPT ![v] = {}]
      /\ scaledView' = [scaledView EXCEPT ![v].px = px]
      /\ UNCHANGED <<trueColour, scaledScreenNext, scaledScreenRefCount,
                     scaledFrameBuffer, scaledScreen,
                     newScaleSizePending, resizeUnanswered>>
  BY DEF SendScaledUpdate
<1>3. ~newScaleSizePending[v]
  BY <1>1, <1>2 DEF ViewsAreFresh
<1>4. updateRegion \in SUBSET FullColumns
  BY <1>1 DEF ScaleTyped
<1>5. view \in Views /\ scaledView \in [ScaleClients -> Views]
  BY <1>1 DEF ScaleTyped
<1>6. /\ view.w \in ScaledWidths \cup {NoScreen} /\ view.px \in PixelsOf(view.w)
      /\ view = [w |-> view.w, px |-> view.px]
  BY <1>5, ViewIs
<1>7. DOMAIN view.px = 0..(view.w - 1)
  BY <1>6 DEF PixelsOf
<1>8. screen # NoScreen => view.w = screen
  BY <1>1, <1>3 DEF ViewsAreFresh
<1>9. scaledView' = [scaledView EXCEPT ![v] = [w |-> view.w, px |-> px]]
  <2>1. scaledView' = [scaledView EXCEPT ![v] = [view EXCEPT !.px = px]]
    BY <1>2
  <2> HIDE DEF px, view
  <2>2. [view EXCEPT !.px = px] = [w |-> view.w, px |-> px]
    BY <1>6
  <2>3. QED
    BY <2>1, <2>2
<1>10. px \in PixelsOf(view.w)
  <2>1. CASE screen = NoScreen
    <3>1. updateRegion = {}
      BY <1>1, <2>1 DEF ViewsAreFresh
    <3>2. QED
      BY <1>2, <3>1
  <2>2. CASE screen # NoScreen
    <3>1. screen \in ScaledWidths /\ view.w = screen
      BY <1>8, <2>2, ScreenOfClient
    <3>2. scaledFrameBuffer[screen] \in PixelsOf(view.w)
      BY <1>1, <3>1 DEF ScaleTyped
    <3> HIDE DEF sent, screen, view
    <3>3. QED
      BY <1>6, <1>7, <3>2 DEF PixelsOf
  <2>3. QED
    BY <2>1, <2>2
<1>11. [w |-> view.w, px |-> px] \in Views
  BY <1>6, <1>10, ViewOf
<1> HIDE DEF px
<1>12. ScaleTyped'
  <2>1. scaledView' \in [ScaleClients -> Views]
    BY <1>5, <1>9, <1>11
  <2>2. /\ scaleModified' \in [ScaleClients -> SUBSET FullColumns]
        /\ scaleRequested' \in [ScaleClients -> SUBSET FullColumns]
    <3> HIDE DEF updateRegion
    <3>1. QED
      BY <1>1, <1>2 DEF ScaleTyped
  <2>3. QED
    BY <1>1, <1>2, <2>1, <2>2 DEF ScaleTyped
<1>13. ScreensAreCounted' /\ ScreensAreFresh'
  BY <1>1, <1>2 DEF ScreensAreCounted, ScreensAreFresh
<1>14. ASSUME screen # NoScreen
       PROVE  /\ scaledView'[v].w = screen
              /\ resizeUnanswered[v]
                 \/ ViewIsFresh(scaledView'[v], scaleModified'[v])
  <2>1. screen \in ScaledWidths /\ view.w = screen
        /\ ScreenIsFresh(scaledFrameBuffer[screen], screen)
    BY <1>8, <1>14, ScreenOfClient
  <2>2. scaledView'[v] = [w |-> screen, px |-> px]
    BY <1>5, <1>9, <2>1
  <2>3. scaleModified'[v] = scaleModified[v] \ updateRegion
    BY <1>1, <1>2 DEF ScaleTyped
  <2>4. ASSUME ~resizeUnanswered[v], NEW c \in FullColumns,
               c \notin scaleModified[v] \ updateRegion
        PROVE  Fresh(px[ScaleX(FullWidth, screen, c)], c)
    <3> DEFINE p == ScaleX(FullWidth, screen, c)
    <3>1. p \in 0..(screen - 1)
      BY <2>1, PixelIsInScreen
    <3>2. px[p] = IF p \in sent THEN scaledFrameBuffer[screen][p] ELSE view.px[p]
      BY <1>7, <2>1, <3>1 DEF px
    <3>3. Fresh(scaledFrameBuffer[screen][p], c)
      BY <2>1 DEF ScreenIsFresh
    <3>4. CASE c \in updateRegion
      <4>1. PICK r \in RectsOf(updateRegion) : c \in Within(r)
        BY <1>4, <3>4, InSomeRect
      <4>2. /\ r[1] \in updateRegion /\ r[2] \in 1..FullWidth
            /\ Within(r) \subseteq updateRegion
        <5> HIDE DEF updateRegion
        <5>1. QED
          BY <4>1 DEF RectsOf
      <4>3. /\ FullWidth \in Nat /\ r[1] \in Nat /\ r[2] \in Nat
            /\ r[1] + r[2] <= FullWidth /\ c \in r[1]..(r[1] + r[2] - 1)
        <5>1. FullWidth \in Nat /\ r[1] \in Nat /\ r[2] \in Nat /\ r[2] > 0
          BY <1>4, <4>2, WidthsAreSmall DEF FullColumns
        <5>2. r[1] + r[2] - 1 \in Within(r)
          BY <5>1 DEF Within
        <5>3. r[1] + r[2] - 1 \in FullColumns
          BY <1>4, <4>2, <5>2
        <5>4. QED
          BY <4>1, <5>1, <5>3 DEF FullColumns, Within
      <4>4. p \in Within(rfbScaledCorrection(FullWidth, screen, r[1], r[2]))
        BY <2>1, <4>3, CorrectionCovers
      <4>5. rfbScaledCorrection(FullWidth, screen, r[1], r[2]) \in rects
        BY <4>1
      <4> HIDE DEF p, rects
      <4>6. p \in sent
        BY <4>4, <4>5
      <4>7. QED
        BY <3>2, <3>3, <4>6 DEF p
    <3>5. CASE c \notin updateRegion
      <4>1. ViewIsFresh(view, scaleModified[v])
        BY <1>1, <1>3, <1>14, <2>4 DEF ViewsAreFresh
      <4>2. Fresh(view.px[p], c)
        BY <2>1, <2>4, <3>5, <4>1 DEF ViewIsFresh
      <4> HIDE DEF p
      <4>3. QED
        BY <3>2, <3>3, <4>2 DEF p
    <3>6. QED
      BY <3>4, <3>5
  <2>5. scaledView'[v].w = screen /\ scaledView'[v].px = px
    <3> DEFINE new == scaledView'[v]
    <3>1. new = [w |-> screen, px |-> px]
      BY <2>2
    <3> HIDE DEF new, screen
    <3>2. new.w = screen /\ new.px = px
      BY <3>1
    <3>3. QED
      BY <3>2 DEF new
  <2>6. QED
    BY <2>3, <2>4, <2>5 DEF ViewIsFresh
<1>15. ViewsAreFresh'
  <2>1. \A u \in ScaleClients \ {v} :
          scaledView'[u] = scaledView[u] /\ scaleModified'[u] = scaleModified[u]
    BY <1>1, <1>2, <1>5, <1>9 DEF ScaleTyped
  <2>2. scaledScreen[v] = NoScreen => scaleModified'[v] = {}
    BY <1>1, <1>2 DEF ScaleTyped, ViewsAreFresh
  <2>3. /\ scaledScreen' = scaledScreen /\ resizeUnanswered' = resizeUnanswered
        /\ newScaleSizePending' = newScaleSizePending
    BY <1>2
  <2>4. scaledScreen[v] # NoScreen =>
          /\ scaledView'[v].w = scaledScreen[v]
          /\ resizeUnanswered[v] \/ ViewIsFresh(scaledView'[v], scaleModified'[v])
    BY <1>14
  <2>5. QED
    BY <1>1, <1>3, <2>1, <2>2, <2>3, <2>4 DEF ViewsAreFresh
<1>16. QED
  BY <1>12, <1>13, <1>15 DEF ScaleInv

-----------------------------------------------------------------------------
(* The inductive invariant: screens with clients are counted, on the chain *)
(* and up to date, and what a client shows lags its screen only by what it *)
(* is still to be sent.  (scale.c, rfbserver.c rfbSendFramebufferUpdate)   *)
THEOREM ScaleInvariance == ScaleSpec => []ScaleInv
<1>1. ScaleInit => ScaleInv
  BY ScaleInitInv
<1>2. ScaleInv /\ [ScaleNext]_scaleVars => ScaleInv'
  <2> SUFFICES ASSUME ScaleInv, [ScaleNext]_scaleVars PROVE ScaleInv'
    OBVIOUS
  <2>1. CASE rfbMarkRectAsModified
    BY <2>1, DrawingInv
  <2>2. ASSUME NEW v \in ScaleClients, NewScaleClient(v) PROVE ScaleInv'
    BY <2>2, NewScaleClientInv
  <2>3. ASSUME NEW v \in ScaleClients, rfbSetScale(v) PROVE ScaleInv'
    BY <2>3, SetScaleInv
  <2>4. ASSUME NEW v \in ScaleClients, ScaleClientGone(v) PROVE ScaleInv'
    BY <2>4, ScaleClientGoneInv
  <2>5. ASSUME NEW v \in ScaleClients, AskForNewSize(v) PROVE ScaleInv'
    BY <2>5, AskForNewSizeInv
  <2>6. ASSUME NEW v \in ScaleClients, AskForChanges(v) PROVE ScaleInv'
    BY <2>6, AskForChangesInv
  <2>7. ASSUME NEW v \in ScaleClients, SendNewSize(v) PROVE ScaleInv'
    BY <2>7, SendNewSizeInv
  <2>8. ASSUME NEW v \in ScaleClients, SendScaledUpdate(v) PROVE ScaleInv'
    BY <2>8, SendScaledUpdateInv
  <2>9. CASE UNCHANGED scaleVars
    BY <2>9 DEF scaleVars, ScaleInv, ScaleTyped, ScreensAreCounted,
                ScreensAreFresh, ViewsAreFresh
  <2>10. QED
    BY <2>1, <2>2, <2>3, <2>4, <2>5, <2>6, <2>7, <2>8, <2>9 DEF ScaleNext
<1>3. QED
  BY <1>1, <1>2, PTL DEF ScaleSpec

(* Whatever a client shows of a column is what the column holds, or the    *)
(* server still has to send it the column, for every screen width, every   *)
(* scale and any number of clients.  (scale.c rfbScaledScreenUpdate,       *)
(* rfbScalingSetup, rfbScaledCorrection)                                   *)
THEOREM ScaledViewStaysFresh == ScaleSpec => []ScaledViewIsFresh
<1>1. ScaleInv => ScaledViewIsFresh
  <2> SUFFICES ASSUME ScaleInv, NEW v \in ScaleClients, scaledScreen[v] # NoScreen,
                      ~newScaleSizePending[v], ~resizeUnanswered[v],
                      NEW c \in FullColumns, c \notin scaleModified[v]
               PROVE  LET pixel == scaledView[v].px[ScaleX(FullWidth, scaledView[v].w, c)]
                      IN  pixel # Blank /\ c \notin pixel.drawn
    BY DEF ScaledViewIsFresh
  <2> DEFINE pixel == scaledView[v].px[ScaleX(FullWidth, scaledView[v].w, c)]
  <2>1. Fresh(pixel, c)
    BY DEF ScaleInv, ViewsAreFresh, ViewIsFresh
  <2> HIDE DEF pixel
  <2>2. pixel.of # {} /\ c \notin pixel.drawn
    BY <2>1 DEF Fresh
  <2>3. Blank.of = {}
    BY DEF Blank
  <2>4. QED
    BY <2>2, <2>3 DEF pixel
<1>2. QED
  BY <1>1, ScaleInvariance, PTL


-----------------------------------------------------------------------------
(***************************************************************************)
(* RfbTranslate.                                                           *)
(***************************************************************************)

(* A number that divides another one. *)
LEMMA Multiple ==
  ASSUME NEW d \in Nat \ {0}, NEW n \in Nat
  PROVE  /\ n % d = 0 => n \div d \in Nat /\ n = (n \div d) * d
         /\ \A k \in Nat : n = k * d => n % d = 0 /\ n \div d = k
<1>1. n % d = 0 => n \div d \in Nat /\ n = (n \div d) * d
  <2> DEFINE q == n \div d
             r == n % d
  <2>1. q \in Nat /\ r \in 0..(d - 1) /\ n = q * d + r
    BY Division
  <2> HIDE DEF q, r
  <2>2. q * d \in Nat
    BY <2>1
  <2>3. r = 0 => n = q * d
    BY <2>1, <2>2
  <2>4. QED
    BY <2>1, <2>3 DEF q, r
<1>2. ASSUME NEW k \in Nat, n = k * d
      PROVE  n % d = 0 /\ n \div d = k
  <2>1. 0 \in 0..(d - 1) /\ k * d \in Nat /\ k * d + 0 = k * d
    OBVIOUS
  <2>2. (k * d + 0) \div d = k /\ (k * d + 0) % d = 0
    BY <2>1, DivisionIsUnique
  <2>3. QED
    BY <1>2, <2>1, <2>2
<1>3. QED
  BY <1>1, <1>2

(* A positive multiple is not less. *)
LEMMA MultipleIsNotLess ==
  ASSUME NEW d \in Nat \ {0}, NEW n \in Nat \ {0}, n % d = 0
  PROVE  d <= n
<1> DEFINE k == n \div d
<1>1. k \in Nat /\ n = k * d
  BY Multiple
<1> HIDE DEF k
<1>2. k # 0
  BY <1>1
<1>3. 1 <= k /\ 1 \in Nat
  BY <1>1, <1>2
<1>4. 1 * d <= k * d
  BY <1>1, <1>3, LargerProduct
<1>5. QED
  BY <1>1, <1>4

(* The sums of multiples. *)
LEMMA SumOfMultiples ==
  ASSUME NEW d \in Nat \ {0}, NEW m \in Nat, NEW n \in Nat,
         m % d = 0, n % d = 0
  PROVE  (m + n) % d = 0
<1>1. /\ m \div d \in Nat /\ m = (m \div d) * d
      /\ n \div d \in Nat /\ n = (n \div d) * d
  BY Multiple
<1> DEFINE j == m \div d
           k == n \div d
<1> HIDE DEF j, k
<1>2. j \in Nat /\ k \in Nat /\ m = j * d /\ n = k * d
  BY <1>1 DEF j, k
<1>3. j + k \in Nat /\ m + n = (j + k) * d /\ m + n \in Nat
  BY <1>2
<1>4. QED
  BY <1>3, Multiple

Divides(d, n) == n % d = 0

(* A multiple of a multiple. *)
LEMMA MultipleOfMultiple ==
  ASSUME NEW d \in Nat \ {0}, NEW e \in Nat \ {0}, NEW n \in Nat,
         Divides(d, e), Divides(e, n)
  PROVE  Divides(d, n)
<1> DEFINE j == e \div d
           k == n \div e
<1>1. j \in Nat /\ e = j * d /\ k \in Nat /\ n = k * e
  <2>1. e % d = 0 /\ n % e = 0
    BY DEF Divides
  <2>2. QED
    BY <2>1, Multiple
<1> HIDE DEF j, k
<1>2. k * j \in Nat /\ n = (k * j) * d
  BY <1>1
<1>3. QED
  BY <1>2, Multiple DEF Divides

IsField(u, m, s, low, above) == ((low + s * u + above) \div u) % m = s

(* A field of m values that begins at u can be had back from the sum of    *)
(* the fields, those below it and those above.                             *)
LEMMA FieldOf ==
  ASSUME NEW u \in Nat \ {0}, NEW m \in Nat \ {0}, NEW s \in 0..(m - 1),
         NEW low \in 0..(u - 1), NEW above \in Nat, above % (u * m) = 0
  PROVE  IsField(u, m, s, low, above)
<1> DEFINE t == u * m
           k == above \div t
<1>1. t \in Nat \ {0}
  OBVIOUS
<1>2. k \in Nat /\ above = k * t
  <2>1. above % t = 0
    OBVIOUS
  <2> HIDE DEF t
  <2>2. QED
    BY <1>1, <2>1, Multiple
<1> HIDE DEF k
<1>3. above = (k * m) * u /\ k * m \in Nat
  BY <1>2
<1> DEFINE q == k * m + s
<1>4. q \in Nat /\ low + s * u + above = q * u + low
  BY <1>3
<1>5. (q * u + low) \div u = q
  <2> HIDE DEF q
  <2>1. QED
    BY <1>4, DivisionIsUnique
<1>6. (k * m + s) % m = s
  BY <1>2, DivisionIsUnique
<1>7. QED
  BY <1>4, <1>5, <1>6 DEF IsField

(* A field and those below it end before the fields above begin. *)
LEMMA FieldEnds ==
  ASSUME NEW u \in Nat \ {0}, NEW m \in Nat \ {0}, NEW s \in 0..(m - 1),
         NEW low \in 0..(u - 1), NEW above \in Nat \ {0}, above % (u * m) = 0
  PROVE  low + s * u \in 0..(above - 1)
<1>1. u * m \in Nat \ {0}
  OBVIOUS
<1>2. u * m <= above
  BY <1>1, MultipleIsNotLess
<1>3. (s + 1) * u <= m * u /\ (s + 1) * u \in Nat /\ m * u \in Nat
  BY LargerProduct
<1>4. (s + 1) * u = s * u + u /\ m * u = u * m /\ s * u \in Nat
  OBVIOUS
<1>5. QED
  BY <1>2, <1>3, <1>4

(* Samples that a format can hold. *)
SamplesOf(f) ==
  {s \in [Components -> Nat] : \A c \in Components : s[c] <= f.max[c]}

(* The part of a pixel that is a sample. *)
Field(f, s, c) == s[c] * Lowest(f, c)

(* The samples of a format are one above the other. *)
Ordered(f, a, b, c) ==
  /\ a \in Components /\ b \in Components /\ c \in Components
  /\ a # b /\ a # c /\ b # c
  /\ Lowest(f, b) % Beyond(f, a) = 0
  /\ Lowest(f, c) % Beyond(f, b) = 0
  /\ Lowest(f, c) % Beyond(f, a) = 0

(* The sizes of a format. *)
LEMMA FormatNumbers ==
  ASSUME NEW f, IsFormat(f), NEW c \in Components
  PROVE  /\ f.max[c] \in Nat \ {0} /\ Lowest(f, c) \in Nat \ {0}
         /\ Beyond(f, c) \in Nat \ {0}
         /\ Lowest(f, c) < Beyond(f, c)
         /\ PixelValues(f.bytes) \in Nat \ {0}
         /\ Beyond(f, c) % Lowest(f, c) = 0
<1> DEFINE m == f.max[c]
           u == Lowest(f, c)
<1>1. m \in Nat \ {0} /\ u \in Nat \ {0} /\ Beyond(f, c) = u * (m + 1)
  BY DEF IsFormat, Beyond
<1> HIDE DEF m, u
<1>2. u * (m + 1) = u * m + u /\ u * m \in Nat \ {0}
  BY <1>1
<1>3. m + 1 \in Nat /\ u * (m + 1) = (m + 1) * u /\ u * (m + 1) \in Nat \ {0}
  BY <1>1, <1>2
<1>4. (u * (m + 1)) % u = 0
  BY <1>1, <1>3, Multiple
<1>5. PixelValues(f.bytes) \in Nat \ {0}
  <2>1. ByteValues \in Nat \ {0} /\ f.bytes \in 1..4
    BY TranslateAssumption DEF IsFormat
  <2> DEFINE b1 == ByteValues
             b2 == b1 * b1
             b3 == b2 * b1
             b4 == b3 * b1
  <2>2. b2 \in Nat \ {0}
    BY <2>1
  <2> HIDE DEF b2
  <2>3. b3 \in Nat \ {0}
    BY <2>1, <2>2
  <2> HIDE DEF b3
  <2>4. b4 \in Nat \ {0}
    BY <2>1, <2>3
  <2> HIDE DEF b4
  <2>5. PixelValues(f.bytes) = IF f.bytes = 1 THEN b1 ELSE IF f.bytes = 2 THEN b2
                               ELSE IF f.bytes = 3 THEN b3 ELSE b4
    BY <2>1 DEF PixelValues, b2, b3, b4
  <2>6. QED
    BY <2>1, <2>2, <2>3, <2>4, <2>5
<1>6. QED
  BY <1>1, <1>2, <1>3, <1>4, <1>5 DEF m, u

(* A sample that is above one that is above a third is above the third.    *)
LEMMA AboveIsTransitive ==
  ASSUME NEW f, IsFormat(f),
         NEW a \in Components, NEW b \in Components, NEW c \in Components,
         Lowest(f, b) % Beyond(f, a) = 0, Lowest(f, c) % Beyond(f, b) = 0
  PROVE  Lowest(f, c) % Beyond(f, a) = 0 /\ Lowest(f, a) < Lowest(f, c)
<1> DEFINE la == Lowest(f, a)
           ea == Beyond(f, a)
           lb == Lowest(f, b)
           eb == Beyond(f, b)
           lc == Lowest(f, c)
<1>1. /\ la \in Nat \ {0} /\ ea \in Nat \ {0} /\ la < ea
      /\ lb \in Nat \ {0} /\ eb \in Nat \ {0} /\ lb < eb /\ eb % lb = 0
      /\ lc \in Nat \ {0}
  BY FormatNumbers
<1>2. lb % ea = 0 /\ lc % eb = 0
  OBVIOUS
<1> HIDE DEF la, ea, lb, eb, lc
<1>3. ea <= lb /\ eb <= lc
  BY <1>1, <1>2, MultipleIsNotLess
<1>4. Divides(ea, lc)
  <2>1. Divides(ea, lb) /\ Divides(lb, eb) /\ Divides(eb, lc)
    BY <1>1, <1>2 DEF Divides
  <2>2. Divides(ea, eb)
    BY <1>1, <2>1, MultipleOfMultiple
  <2>3. QED
    BY <1>1, <2>1, <2>2, MultipleOfMultiple
<1>5. lc % ea = 0
  BY <1>4 DEF Divides
<1>6. QED
  BY <1>1, <1>3, <1>5 DEF la, ea, lb, eb, lc

(* Every format has an order. *)
LEMMA FormatHasOrder ==
  ASSUME NEW f, IsFormat(f)
  PROVE  \E a, b, c \in Components : Ordered(f, a, b, c)
<1> DEFINE Above(d, e) == Lowest(f, e) % Beyond(f, d) = 0
           R == "red"
           G == "green"
           B == "blue"
<1>1. R \in Components /\ G \in Components /\ B \in Components
      /\ R # G /\ R # B /\ G # B
  BY DEF Components
<1>2. \A d, e \in Components : d # e => Above(d, e) \/ Above(e, d)
  BY Zenon DEF IsFormat
<1>3. ASSUME NEW a \in Components, NEW b \in Components, NEW c \in Components,
             Above(a, b), Above(b, c)
      PROVE  Above(a, c) /\ Lowest(f, a) < Lowest(f, c)
  BY <1>3, AboveIsTransitive
<1>4. ASSUME NEW a \in Components, NEW b \in Components, NEW c \in Components,
             a # b, a # c, b # c, Above(a, b), Above(b, c)
      PROVE  \E x, y, z \in Components : Ordered(f, x, y, z)
  <2>1. Above(a, c)
    BY <1>3, <1>4
  <2>2. Ordered(f, a, b, c)
    BY <1>4, <2>1 DEF Ordered
  <2>3. QED
    BY <2>2
<1>5. ASSUME NEW a \in Components, NEW b \in Components, NEW c \in Components,
             Above(a, b), Above(b, c), Above(c, a)
      PROVE  FALSE
  <2>1. Lowest(f, a) < Lowest(f, c)
    BY <1>3, <1>5
  <2>2. Lowest(f, c) < Lowest(f, b)
    BY <1>3, <1>5
  <2>3. Lowest(f, b) < Lowest(f, a)
    BY <1>3, <1>5
  <2>4. Lowest(f, a) \in Int /\ Lowest(f, b) \in Int /\ Lowest(f, c) \in Int
    BY FormatNumbers
  <2>5. QED
    BY <2>1, <2>2, <2>3, <2>4
<1> HIDE DEF Above, R, G, B
<1>6. /\ Above(R, G) \/ Above(G, R)
      /\ Above(R, B) \/ Above(B, R)
      /\ Above(G, B) \/ Above(B, G)
  BY <1>1, <1>2
<1>7. CASE Above(R, G) /\ Above(G, B)
  BY <1>1, <1>4, <1>7
<1>8. CASE Above(R, G) /\ Above(B, G)
  <2>1. CASE Above(R, B)
    BY <1>1, <1>4, <1>8, <2>1
  <2>2. CASE Above(B, R)
    BY <1>1, <1>4, <1>8, <2>2
  <2>3. QED
    BY <1>6, <2>1, <2>2
<1>9. CASE Above(G, R) /\ Above(B, G)
  BY <1>1, <1>4, <1>9
<1>10. CASE Above(G, R) /\ Above(G, B)
  <2>1. CASE Above(R, B)
    BY <1>1, <1>4, <1>10, <2>1
  <2>2. CASE Above(B, R)
    BY <1>1, <1>4, <1>10, <2>2
  <2>3. QED
    BY <1>6, <2>1, <2>2
<1>11. QED
  BY <1>6, <1>7, <1>8, <1>9, <1>10

(* What a pixel of samples is. *)
LEMMA PixelIsSum ==
  ASSUME NEW f, IsFormat(f), NEW s \in SamplesOf(f),
         NEW a, NEW b, NEW c, Ordered(f, a, b, c)
  PROVE  PixelOf(f, s) = Field(f, s, a) + Field(f, s, b) + Field(f, s, c)
<1> DEFINE r == Field(f, s, "red")
           g == Field(f, s, "green")
           l == Field(f, s, "blue")
<1>1. PixelOf(f, s) = r + g + l
  BY DEF PixelOf, Sum3, Field, Components
<1>2. \A d \in Components : Field(f, s, d) \in Nat
  <2>1. ASSUME NEW d \in Components PROVE Field(f, s, d) \in Nat
    <3>1. s[d] \in Nat /\ Lowest(f, d) \in Nat
      BY FormatNumbers DEF SamplesOf
    <3>2. QED
      BY <3>1 DEF Field
  <2>2. QED
    BY <2>1
<1>3. r \in Nat /\ g \in Nat /\ l \in Nat
  BY <1>2 DEF Components
<1> HIDE DEF r, g, l
<1>4. CASE a = "red" /\ b = "green" /\ c = "blue"
  BY <1>1, <1>3, <1>4 DEF r, g, l
<1>5. CASE a = "red" /\ c = "green" /\ b = "blue"
  BY <1>1, <1>3, <1>5 DEF r, g, l
<1>6. CASE b = "red" /\ a = "green" /\ c = "blue"
  BY <1>1, <1>3, <1>6 DEF r, g, l
<1>7. CASE b = "red" /\ c = "green" /\ a = "blue"
  BY <1>1, <1>3, <1>7 DEF r, g, l
<1>8. CASE c = "red" /\ a = "green" /\ b = "blue"
  BY <1>1, <1>3, <1>8 DEF r, g, l
<1>9. CASE c = "red" /\ b = "green" /\ a = "blue"
  BY <1>1, <1>3, <1>9 DEF r, g, l
<1>10. /\ a \in {"red", "green", "blue"} /\ b \in {"red", "green", "blue"}
       /\ c \in {"red", "green", "blue"} /\ a # b /\ a # c /\ b # c
  BY DEF Ordered, Components
<1>11. QED
  BY <1>4, <1>5, <1>6, <1>7, <1>8, <1>9, <1>10

(* What the fields of ordered samples are: their sums stay below what is   *)
(* above them, and each can be had back.                                   *)
FieldsApart(f, s, a, b, c) ==
  LET x == Field(f, s, a)  y == Field(f, s, b)  z == Field(f, s, c)
      p == x + y + z
  IN /\ x \in Nat /\ y \in Nat /\ z \in Nat
     /\ x < Lowest(f, b) /\ x + y < Lowest(f, c) /\ p < PixelValues(f.bytes)
     /\ y % Lowest(f, b) = 0 /\ z % Lowest(f, c) = 0
     /\ Sample(f, p, a) = s[a] /\ Sample(f, p, b) = s[b]
     /\ Sample(f, p, c) = s[c]

(* Products are multiples of their second factor. *)
LEMMA ProductIsMultiple ==
  ASSUME NEW k \in Nat, NEW d \in Nat \ {0}
  PROVE  k * d \in Nat /\ (k * d) % d = 0
<1>1. k * d \in Nat
  OBVIOUS
<1>2. QED
  BY <1>1, Multiple

(* It is so of every format. *)
LEMMA FieldsAreApart ==
  ASSUME NEW f, IsFormat(f), NEW s \in SamplesOf(f),
         NEW a, NEW b, NEW c, Ordered(f, a, b, c)
  PROVE  FieldsApart(f, s, a, b, c)
<1> DEFINE u1 == Lowest(f, a)
           m1 == f.max[a] + 1
           s1 == s[a]
           u2 == Lowest(f, b)
           m2 == f.max[b] + 1
           s2 == s[b]
           u3 == Lowest(f, c)
           m3 == f.max[c] + 1
           s3 == s[c]
           N == PixelValues(f.bytes)
<1>1. /\ a \in Components /\ b \in Components /\ c \in Components
      /\ u2 % (u1 * m1) = 0 /\ u3 % (u2 * m2) = 0 /\ u3 % (u1 * m1) = 0
  BY DEF Ordered, Beyond
<1>2. N % (u3 * m3) = 0
  BY <1>1 DEF IsFormat, Beyond
<1>3. /\ f.max[a] \in Nat \ {0} /\ f.max[b] \in Nat \ {0} /\ f.max[c] \in Nat \ {0}
      /\ u1 \in Nat \ {0} /\ u2 \in Nat \ {0} /\ u3 \in Nat \ {0}
      /\ N \in Nat \ {0}
      /\ Beyond(f, b) \in Nat \ {0} /\ Beyond(f, a) \in Nat \ {0}
      /\ Beyond(f, b) % u2 = 0
  BY <1>1, FormatNumbers
<1>4. /\ s1 \in Nat /\ s1 <= f.max[a] /\ s2 \in Nat /\ s2 <= f.max[b]
      /\ s3 \in Nat /\ s3 <= f.max[c]
  BY <1>1 DEF SamplesOf
<1>5. /\ m1 \in Nat \ {0} /\ m2 \in Nat \ {0} /\ m3 \in Nat \ {0}
      /\ s1 \in 0..(m1 - 1) /\ s2 \in 0..(m2 - 1) /\ s3 \in 0..(m3 - 1)
  BY <1>3, <1>4
<1>6. /\ u1 * m1 = Beyond(f, a) /\ u2 * m2 = Beyond(f, b)
  BY DEF Beyond
<1> DEFINE x == s1 * u1
           y == s2 * u2
           z == s3 * u3
<1>7. x = Field(f, s, a) /\ y = Field(f, s, b) /\ z = Field(f, s, c)
  BY DEF Field
<1>8. /\ Sample(f, x + y + z, a) = ((x + y + z) \div u1) % m1
      /\ Sample(f, x + y + z, b) = ((x + y + z) \div u2) % m2
      /\ Sample(f, x + y + z, c) = ((x + y + z) \div u3) % m3
  BY DEF Sample
<1> HIDE DEF u1, m1, s1, u2, m2, s2, u3, m3, s3, N
<1>9. /\ x \in Nat /\ y \in Nat /\ z \in Nat
      /\ x % u1 = 0 /\ y % u2 = 0 /\ z % u3 = 0
  <2>1. s1 \in Nat /\ s2 \in Nat /\ s3 \in Nat
    BY <1>5
  <2>2. s1 * u1 \in Nat /\ (s1 * u1) % u1 = 0
    BY <1>3, <2>1, ProductIsMultiple
  <2>3. s2 * u2 \in Nat /\ (s2 * u2) % u2 = 0
    BY <1>3, <2>1, ProductIsMultiple
  <2>4. s3 * u3 \in Nat /\ (s3 * u3) % u3 = 0
    BY <1>3, <2>1, ProductIsMultiple
  <2>5. QED
    BY <2>2, <2>3, <2>4
<1>10. (u1 * m1) \in Nat \ {0} /\ (u2 * m2) \in Nat \ {0}
  BY <1>3, <1>6
<1>11. /\ y % (u1 * m1) = 0 /\ z % (u2 * m2) = 0 /\ z % (u1 * m1) = 0
  <2> HIDE DEF x, y, z
  <2> DEFINE e1 == u1 * m1
             e2 == u2 * m2
  <2>1. /\ e1 \in Nat \ {0} /\ e2 \in Nat \ {0}
        /\ Divides(e1, u2) /\ Divides(e2, u3) /\ Divides(e1, u3)
        /\ Divides(u2, y) /\ Divides(u3, z)
    BY <1>1, <1>9, <1>10 DEF Divides
  <2> HIDE DEF e1, e2
  <2>2. Divides(e1, y)
    BY <1>3, <1>9, <2>1, MultipleOfMultiple
  <2>3. Divides(e2, z)
    BY <1>3, <1>9, <2>1, MultipleOfMultiple
  <2>4. Divides(e1, z)
    BY <1>3, <1>9, <2>1, MultipleOfMultiple
  <2>5. QED
    BY <2>2, <2>3, <2>4 DEF e1, e2, Divides
<1>12. x < u2
  <2>1. 0 \in 0..(u1 - 1)
    BY <1>3
  <2>2. 0 + s1 * u1 \in 0..(u2 - 1)
    BY <1>1, <1>3, <1>5, <2>1, FieldEnds
  <2>3. 0 + s1 * u1 = x
    BY <1>9
  <2>4. QED
    BY <1>3, <2>2, <2>3
<1>13. x + y < u3
  <2>1. x \in 0..(u2 - 1)
    BY <1>3, <1>9, <1>12
  <2> HIDE DEF x
  <2>2. x + s2 * u2 \in 0..(u3 - 1)
    BY <1>1, <1>3, <1>5, <2>1, FieldEnds
  <2>3. QED
    BY <1>3, <2>2
<1>14. x + y + z < N
  <2> DEFINE l == x + y
  <2>1. l \in 0..(u3 - 1)
    BY <1>3, <1>9, <1>13
  <2> HIDE DEF l
  <2>2. l + s3 * u3 \in 0..(N - 1)
    BY <1>2, <1>3, <1>5, <2>1, FieldEnds
  <2>3. QED
    BY <1>3, <2>2 DEF l
<1>15. ((x + y + z) \div u1) % m1 = s1
  <2> DEFINE h == y + z
  <2>1. 0 \in 0..(u1 - 1)
    BY <1>3
  <2>2. h % (u1 * m1) = 0 /\ h \in Nat
    <3> DEFINE e == u1 * m1
    <3>1. e \in Nat \ {0} /\ y % e = 0 /\ z % e = 0
      BY <1>10, <1>11
    <3> HIDE DEF e, y, z
    <3>2. (y + z) % e = 0
      BY <1>9, <3>1, SumOfMultiples
    <3>3. y + z \in Nat
      BY <1>9
    <3>4. QED
      BY <3>2, <3>3 DEF e
  <2> HIDE DEF h
  <2>3. IsField(u1, m1, s1, 0, h)
    BY <1>3, <1>5, <2>1, <2>2, FieldOf
  <2>4. 0 + s1 * u1 + h = x + y + z
    <3>1. 0 + x + h = x + y + z
      <4> HIDE DEF x, y, z
      <4>1. QED
        BY <1>9 DEF h
    <3>2. QED
      BY <3>1
  <2>5. QED
    BY <2>3, <2>4, Zenon DEF IsField
<1>16. ((x + y + z) \div u2) % m2 = s2
  <2>1. x \in 0..(u2 - 1)
    BY <1>3, <1>9, <1>12
  <2> HIDE DEF x, z
  <2>2. IsField(u2, m2, s2, x, z)
    BY <1>3, <1>5, <1>9, <1>11, <2>1, FieldOf
  <2>3. QED
    BY <2>2 DEF IsField
<1>17. ((x + y + z) \div u3) % m3 = s3
  <2> DEFINE l == x + y
  <2>1. l \in 0..(u3 - 1)
    BY <1>3, <1>9, <1>13
  <2>2. 0 \in Nat /\ 0 % (u3 * m3) = 0
    <3> DEFINE e == u3 * m3
    <3>1. e \in Nat \ {0}
      BY <1>3, <1>5
    <3> HIDE DEF e
    <3>2. 0 \in Nat /\ 0 = 0 * e
      BY <3>1
    <3>3. 0 % e = 0
      BY <3>1, <3>2, Multiple
    <3>4. QED
      BY <3>3 DEF e
  <2> HIDE DEF l
  <2>3. IsField(u3, m3, s3, l, 0)
    BY <1>3, <1>5, <2>1, <2>2, FieldOf
  <2>4. l + s3 * u3 + 0 = x + y + z
    <3>1. l + z + 0 = x + y + z
      <4> HIDE DEF x, y, z
      <4>1. QED
        BY <1>9 DEF l
    <3>2. QED
      BY <3>1
  <2>5. QED
    BY <2>3, <2>4, Zenon DEF IsField
<1> HIDE DEF x, y, z
<1>18. /\ Sample(f, x + y + z, a) = s1 /\ Sample(f, x + y + z, b) = s2
       /\ Sample(f, x + y + z, c) = s3
  BY <1>8, <1>15, <1>16, <1>17, Zenon
<1>19. QED
  BY <1>7, <1>9, <1>12, <1>13, <1>14, <1>18
     DEF FieldsApart, u1, s1, u2, s2, u3, s3, N

(* A pixel of samples has these samples. *)
LEMMA SamplesAreKept ==
  ASSUME NEW f, IsFormat(f), NEW s \in SamplesOf(f)
  PROVE  /\ PixelOf(f, s) \in 0..(PixelValues(f.bytes) - 1)
         /\ \A c \in Components : Sample(f, PixelOf(f, s), c) = s[c]
<1>1. PICK a, b, c \in Components : Ordered(f, a, b, c)
  BY FormatHasOrder
<1>2. PixelOf(f, s) = Field(f, s, a) + Field(f, s, b) + Field(f, s, c)
  BY <1>1, PixelIsSum
<1>3. FieldsApart(f, s, a, b, c)
  BY <1>1, FieldsAreApart
<1>4. PixelOf(f, s) \in Nat /\ PixelOf(f, s) < PixelValues(f.bytes)
  BY <1>2, <1>3 DEF FieldsApart
<1>5. PixelValues(f.bytes) \in Nat
  BY FormatNumbers, <1>1
<1>6. /\ Sample(f, PixelOf(f, s), a) = s[a]
      /\ Sample(f, PixelOf(f, s), b) = s[b]
      /\ Sample(f, PixelOf(f, s), c) = s[c]
  BY <1>2, <1>3, Zenon DEF FieldsApart
<1>7. \A d \in Components : d = a \/ d = b \/ d = c
  BY <1>1 DEF Ordered, Components
<1>8. PixelOf(f, s) \in 0..(PixelValues(f.bytes) - 1)
  BY <1>4, <1>5
<1>9. QED
  BY <1>6, <1>7, <1>8, Zenon

(* The low byte of a number and the rest. *)
LEMMA BytesOf ==
  ASSUME NEW v \in Nat
  PROVE  /\ LowByte(v) \in 0..(ByteValues - 1) /\ UpperBytes(v) \in Nat
         /\ v = UpperBytes(v) * ByteValues + LowByte(v)
BY TranslateAssumption, Division DEF LowByte, UpperBytes

(* A number of a low byte and a rest. *)
LEMMA FromBytes ==
  ASSUME NEW q \in Nat, NEW r \in 0..(ByteValues - 1)
  PROVE  /\ q * ByteValues + r \in Nat
         /\ LowByte(q * ByteValues + r) = r
         /\ UpperBytes(q * ByteValues + r) = q
BY TranslateAssumption, DivisionIsUnique DEF LowByte, UpperBytes

(* A byte has nothing but its low byte. *)
LEMMA OfOneByte ==
  ASSUME NEW r \in 0..(ByteValues - 1)
  PROVE  LowByte(r) = r /\ UpperBytes(r) = 0
<1>1. ByteValues \in Nat
  BY TranslateAssumption
<1>2. 0 \in Nat /\ 0 * ByteValues + r = r
  BY <1>1
<1>3. LowByte(0 * ByteValues + r) = r /\ UpperBytes(0 * ByteValues + r) = 0
  BY <1>2, FromBytes
<1>4. QED
  BY <1>2, <1>3

(* A number below k bytes has a rest below k. *)
LEMMA UpperIsLess ==
  ASSUME NEW k \in Nat, NEW v \in 0..(k * ByteValues - 1)
  PROVE  UpperBytes(v) \in 0..(k - 1)
<1>1. ByteValues \in Nat \ {0} /\ k * ByteValues \in Nat
  BY TranslateAssumption
<1>2. v \in Nat /\ v < k * ByteValues
  BY <1>1
<1>3. UpperBytes(v) < k
  BY <1>1, <1>2, QuotientIsLess DEF UpperBytes
<1>4. UpperBytes(v) \in Nat
  BY <1>2, BytesOf
<1>5. QED
  BY <1>3, <1>4

(* Bytes that are swapped twice are as they were. *)
LEMMA SwapIsUndone ==
  ASSUME NEW f, f.bytes \in 2..4, NEW v \in 0..(PixelValues(f.bytes) - 1)
  PROVE  SwapOut(f, v) \in Nat /\ SwapOut(f, SwapOut(f, v)) = v
<1> DEFINE B == ByteValues
           v1 == UpperBytes(v)
           v2 == UpperBytes(v1)
           v3 == UpperBytes(v2)
           b0 == LowByte(v)
           b1 == LowByte(v1)
           b2 == LowByte(v2)
           b3 == LowByte(v3)
           two == b0 * B + b1
           three == two * B + b2
           four == three * B + b3
<1>1. B \in Nat \ {0} /\ B * B \in Nat /\ B * B * B \in Nat /\ B * B * B * B \in Nat
  <2>1. B \in Nat \ {0}
    BY TranslateAssumption
  <2>2. B * B \in Nat
    BY <2>1
  <2>3. B * B * B \in Nat
    BY <2>1, <2>2
  <2>4. B * B * B * B \in Nat
    BY <2>1, <2>3
  <2>5. QED
    BY <2>1, <2>2, <2>3, <2>4
<1>2. v \in Nat
  <2>1. PixelValues(f.bytes) \in Nat
    BY <1>1 DEF PixelValues
  <2>2. QED
    BY <2>1
<1>3. /\ v1 \in Nat /\ v2 \in Nat /\ v3 \in Nat
      /\ b0 \in 0..(B - 1) /\ b1 \in 0..(B - 1) /\ b2 \in 0..(B - 1)
      /\ b3 \in 0..(B - 1)
      /\ v = v1 * B + b0 /\ v1 = v2 * B + b1 /\ v2 = v3 * B + b2
  <2>1. v1 \in Nat /\ b0 \in 0..(B - 1) /\ v = v1 * B + b0
    BY <1>2, BytesOf
  <2> HIDE DEF v1
  <2>2. v2 \in Nat /\ b1 \in 0..(B - 1) /\ v1 = v2 * B + b1
    BY <2>1, BytesOf
  <2> HIDE DEF v2
  <2>3. v3 \in Nat /\ b2 \in 0..(B - 1) /\ v2 = v3 * B + b2
    BY <2>2, BytesOf
  <2> HIDE DEF v3
  <2>4. b3 \in 0..(B - 1)
    BY <2>3, BytesOf
  <2>5. QED
    BY <2>1, <2>2, <2>3, <2>4
<1>4. SwapOut(f, v) = CASE f.bytes = 2 -> two [] f.bytes = 3 -> three
                        [] OTHER -> four
  BY Zenon DEF SwapOut
<1> HIDE DEF v1, v2, v3, b0, b1, b2, b3
<1>5. /\ b0 \in Nat
      /\ two \in Nat /\ LowByte(two) = b1 /\ UpperBytes(two) = b0
      /\ LowByte(b0) = b0
  <2>1. b0 \in Nat
    BY <1>3
  <2>2. QED
    BY <1>3, <2>1, FromBytes, OfOneByte
<1>6. /\ three \in Nat /\ LowByte(three) = b2 /\ UpperBytes(three) = two
  <2> HIDE DEF two
  <2>1. QED
    BY <1>3, <1>5, FromBytes
<1>7. /\ four \in Nat /\ LowByte(four) = b3 /\ UpperBytes(four) = three
  <2> HIDE DEF three
  <2>1. QED
    BY <1>3, <1>6, FromBytes
<1>8. CASE f.bytes = 2
  <2>1. v1 \in 0..(B - 1)
    <3>1. PixelValues(f.bytes) = B * B
      BY <1>8 DEF PixelValues
    <3>2. v \in 0..(B * B - 1) /\ B \in Nat
      BY <1>1, <3>1
    <3>3. QED
      BY <3>2, UpperIsLess DEF v1
  <2>2. b1 = v1
    BY <2>1, OfOneByte DEF b1
  <2>3. SwapOut(f, v) = two
    BY <1>4, <1>8
  <2> HIDE DEF two
  <2>4. SwapOut(f, two) = b1 * B + b0
    <3>1. SwapOut(f, two) = LowByte(two) * B + LowByte(UpperBytes(two))
      BY <1>8 DEF SwapOut
    <3>2. QED
      BY <1>5, <3>1
  <2>5. QED
    BY <1>3, <1>5, <2>2, <2>3, <2>4
<1>9. CASE f.bytes = 3
  <2>1. v2 \in 0..(B - 1)
    <3>1. PixelValues(f.bytes) = B * B * B
      BY <1>9 DEF PixelValues
    <3> DEFINE k == B * B
    <3>2. v \in 0..(k * B - 1) /\ k \in Nat
      BY <1>1, <3>1
    <3> HIDE DEF k
    <3>3. v1 \in 0..(k - 1)
      BY <3>2, UpperIsLess DEF v1
    <3>4. v1 \in 0..(B * B - 1) /\ B \in Nat
      BY <1>1, <3>3 DEF k
    <3>5. QED
      BY <3>4, UpperIsLess DEF v2
  <2>2. b2 = v2
    BY <2>1, OfOneByte DEF b2
  <2>3. SwapOut(f, v) = three
    BY <1>4, <1>9
  <2> HIDE DEF three
  <2>4. SwapOut(f, three) = (b2 * B + b1) * B + b0
    <3>1. SwapOut(f, three)
            = (LowByte(three) * B + LowByte(UpperBytes(three))) * B
                + LowByte(UpperBytes(UpperBytes(three)))
      <4>1. f.bytes # 2
        BY <1>9
      <4>2. QED
        BY <1>9, <4>1, Zenon DEF SwapOut
    <3> HIDE DEF two
    <3>2. QED
      BY <1>5, <1>6, <3>1
  <2>5. QED
    BY <1>3, <1>6, <2>2, <2>3, <2>4
<1>10. CASE f.bytes = 4
  <2>1. v3 \in 0..(B - 1)
    <3>1. PixelValues(f.bytes) = B * B * B * B
      BY <1>10 DEF PixelValues
    <3> DEFINE k == B * B
               l == k * B
    <3>2. v \in 0..(l * B - 1) /\ k \in Nat /\ l \in Nat
      BY <1>1, <3>1
    <3> HIDE DEF l
    <3>3. v1 \in 0..(l - 1)
      BY <3>2, UpperIsLess DEF v1
    <3>4. v1 \in 0..(k * B - 1)
      BY <3>3 DEF l
    <3> HIDE DEF k
    <3>5. v2 \in 0..(k - 1)
      BY <3>2, <3>4, UpperIsLess DEF v2
    <3>6. v2 \in 0..(B * B - 1) /\ B \in Nat
      BY <1>1, <3>5 DEF k
    <3>7. QED
      BY <3>6, UpperIsLess DEF v3
  <2>2. b3 = v3
    BY <2>1, OfOneByte DEF b3
  <2>3. SwapOut(f, v) = four
    BY <1>4, <1>10
  <2> HIDE DEF four
  <2>4. SwapOut(f, four) = ((b3 * B + b2) * B + b1) * B + b0
    <3>1. SwapOut(f, four)
            = ((LowByte(four) * B + LowByte(UpperBytes(four))) * B
                + LowByte(UpperBytes(UpperBytes(four)))) * B
                + LowByte(UpperBytes(UpperBytes(UpperBytes(four))))
      <4>1. f.bytes # 2 /\ f.bytes # 3
        BY <1>10
      <4>2. QED
        BY <4>1, Zenon DEF SwapOut
    <3> HIDE DEF two, three
    <3>2. QED
      BY <1>5, <1>6, <1>7, <3>1
  <2>5. QED
    BY <1>3, <1>7, <2>2, <2>3, <2>4
<1>11. QED
  BY <1>8, <1>9, <1>10

(* Numbers that begin where another ends: u is a power of two, and so are  *)
(* the sizes of the first n bytes.                                         *)
ByteWise(u, n) ==
  /\ u \in Nat \ {0}
  /\ \A k \in 1..n : PixelValues(k) % u = 0 \/ u % PixelValues(k) = 0

(* The sizes of bytes. *)
LEMMA SizesOfBytes ==
  /\ PixelValues(1) = ByteValues
  /\ \A k \in 1..3 : PixelValues(k + 1) = PixelValues(k) * ByteValues
  /\ \A k \in 1..4 : PixelValues(k) \in Nat \ {0}
<1> DEFINE B == ByteValues
<1>1. B \in Nat \ {0}
  BY TranslateAssumption
<1>2. /\ PixelValues(1) = B /\ PixelValues(2) = B * B
      /\ PixelValues(3) = B * B * B /\ PixelValues(4) = B * B * B * B
  BY DEF PixelValues
<1>3. \A k \in 1..3 : PixelValues(k + 1) = PixelValues(k) * B
  <2>1. 1 + 1 = 2 /\ 2 + 1 = 3 /\ 3 + 1 = 4 /\ 1..3 = {1, 2, 3}
    OBVIOUS
  <2>2. ASSUME NEW k \in 1..3 PROVE PixelValues(k + 1) = PixelValues(k) * B
    <3>1. CASE k = 1
      BY <1>2, <2>1, <3>1, Zenon
    <3>2. CASE k = 2
      BY <1>2, <2>1, <3>2, Zenon
    <3>3. CASE k = 3
      BY <1>2, <2>1, <3>3, Zenon
    <3>4. QED
      BY <3>1, <3>2, <3>3
  <2>3. QED
    BY <2>2
<1>4. B * B \in Nat \ {0}
  BY <1>1
<1>5. B * B * B \in Nat \ {0}
  BY <1>1, <1>4
<1>6. B * B * B * B \in Nat \ {0}
  BY <1>1, <1>5
<1>7. \A k \in 1..4 : k = 1 \/ k = 2 \/ k = 3 \/ k = 4
  OBVIOUS
<1>8. QED
  BY <1>1, <1>2, <1>3, <1>4, <1>5, <1>6, <1>7

(* A factor is in both or in none. *)
LEMMA Cancel ==
  ASSUME NEW d \in Nat \ {0}, NEW m \in Nat, NEW n \in Nat, m * d = n * d
  PROVE  m = n
<1>1. ASSUME m < n PROVE FALSE
  <2>1. m + 1 \in Nat /\ m + 1 <= n
    BY <1>1
  <2>2. (m + 1) * d <= n * d
    BY <2>1, LargerProduct
  <2>3. (m + 1) * d = m * d + d /\ m * d \in Nat
    OBVIOUS
  <2>4. QED
    BY <2>2, <2>3
<1>2. ASSUME n < m PROVE FALSE
  <2>1. n + 1 \in Nat /\ n + 1 <= m
    BY <1>2
  <2>2. (n + 1) * d <= m * d
    BY <2>1, LargerProduct
  <2>3. (n + 1) * d = n * d + d /\ n * d \in Nat
    OBVIOUS
  <2>4. QED
    BY <2>2, <2>3
<1>3. QED
  BY <1>1, <1>2

(* What is left of the boundaries above the first byte. *)
LEMMA ByteWiseRest ==
  ASSUME NEW n \in 0..3, NEW w \in Nat \ {0}, ByteWise(w * ByteValues, n + 1)
  PROVE  ByteWise(w, n)
<1> DEFINE B == ByteValues
<1>1. B \in Nat \ {0}
  BY TranslateAssumption
<1>2. ASSUME NEW k \in 1..n
      PROVE  PixelValues(k) % w = 0 \/ w % PixelValues(k) = 0
  <2> DEFINE v == PixelValues(k)
             vb == PixelValues(k + 1)
             wb == w * B
  <2>1. k \in 1..3 /\ k \in 1..4 /\ k + 1 \in 1..(n + 1) /\ k + 1 \in 1..4
    OBVIOUS
  <2>2. vb = v * B /\ v \in Nat \ {0} /\ vb \in Nat \ {0}
    BY <2>1, SizesOfBytes
  <2>3. wb \in Nat \ {0}
    BY <1>1
  <2>4. vb % wb = 0 \/ wb % vb = 0
    BY <2>1 DEF ByteWise
  <2> HIDE DEF v, vb, wb
  <2>5. CASE vb % wb = 0
    <3> DEFINE q == vb \div wb
    <3>1. q \in Nat /\ vb = q * wb
      BY <2>2, <2>3, <2>5, Multiple
    <3> HIDE DEF q
    <3>2. v * B = (q * w) * B /\ q * w \in Nat
      BY <1>1, <2>2, <3>1 DEF wb
    <3> HIDE DEF B
    <3>3. v = q * w
      <4> DEFINE m == q * w
      <4>1. m \in Nat /\ v * B = m * B
        BY <3>2
      <4> HIDE DEF m
      <4>2. v = m
        BY <1>1, <2>2, <4>1, Cancel
      <4>3. QED
        BY <4>2 DEF m
    <3>4. v % w = 0
      BY <2>2, <3>1, <3>3, Multiple
    <3>5. QED
      BY <3>4 DEF v
  <2>6. CASE wb % vb = 0
    <3> DEFINE q == wb \div vb
    <3>1. q \in Nat /\ wb = q * vb
      BY <2>2, <2>3, <2>6, Multiple
    <3> HIDE DEF q
    <3>2. w * B = (q * v) * B /\ q * v \in Nat
      BY <1>1, <2>2, <3>1 DEF wb
    <3> HIDE DEF B
    <3>3. w = q * v
      <4> DEFINE m == q * v
      <4>1. m \in Nat /\ w * B = m * B
        BY <3>2
      <4> HIDE DEF m
      <4>2. w = m
        BY <1>1, <4>1, Cancel
      <4>3. QED
        BY <4>2 DEF m
    <3>4. w % v = 0
      BY <2>2, <3>1, <3>3, Multiple
    <3>5. QED
      BY <3>4 DEF v
  <2>7. QED
    BY <2>4, <2>5, <2>6
<1>3. QED
  BY <1>2 DEF ByteWise

(* Two numbers, one below a boundary and one a multiple of it, have bytes  *)
(* that add up, and so do their rests.                                     *)
Adds(x, y, n) ==
  /\ LowByte(x + y) = LowByte(x) + LowByte(y)
  /\ UpperBytes(x + y) = UpperBytes(x) + UpperBytes(y)
  /\ \E w \in Nat \ {0} : /\ ByteWise(w, n) /\ UpperBytes(x) \in 0..(w - 1)
                          /\ UpperBytes(y) \in Nat /\ UpperBytes(y) % w = 0

(* A number that divides a byte divides what a multiple of it leaves.      *)
LEMMA LowOfMultiple ==
  ASSUME NEW u \in Nat \ {0}, ByteValues % u = 0, NEW y \in Nat, y % u = 0,
         NEW x \in 0..(u - 1)
  PROVE  x + LowByte(y) \in 0..(ByteValues - 1)
<1> DEFINE B == ByteValues
           j == B \div u
           m == y \div u
           q == UpperBytes(y)
           r == LowByte(y)
<1>1. B \in Nat \ {0}
  BY TranslateAssumption
<1>2. j \in Nat /\ B = j * u /\ m \in Nat /\ y = m * u
  BY <1>1, Multiple
<1>3. q \in Nat /\ r \in 0..(B - 1) /\ y = q * B + r
  BY BytesOf
<1> HIDE DEF j, m, q, r
<1> DEFINE i == q * j
<1>4. i \in Nat /\ q * B = i * u
  BY <1>2, <1>3
<1> HIDE DEF i
<1>5. m * u = i * u + r /\ m * u \in Nat /\ i * u \in Nat
  <2>1. m * u \in Nat /\ i * u \in Nat
    BY <1>2, <1>4
  <2>2. QED
    BY <1>2, <1>3, <1>4, <2>1
<1>6. i <= m
  <2>1. ASSUME m < i PROVE FALSE
    <3>1. m + 1 \in Nat /\ m + 1 <= i
      BY <1>2, <1>4, <2>1
    <3>2. (m + 1) * u <= i * u
      BY <1>4, <3>1, LargerProduct
    <3>3. (m + 1) * u = m * u + u
      BY <1>2
    <3>4. QED
      BY <1>3, <1>5, <3>2, <3>3
  <2>2. QED
    BY <1>2, <1>4, <2>1
<1> DEFINE s == m - i
<1>7. s \in Nat /\ r = s * u
  <2>1. (m - i) * u = m * u - i * u
    BY <1>2, <1>4
  <2>2. QED
    BY <1>2, <1>3, <1>4, <1>5, <1>6, <2>1
<1> HIDE DEF s
<1>8. s < j
  <2>1. ASSUME j <= s PROVE FALSE
    <3>1. j * u <= s * u
      BY <1>2, <1>7, <2>1, LargerProduct
    <3>2. QED
      BY <1>1, <1>2, <1>3, <1>7, <3>1
  <2>2. QED
    BY <1>2, <1>7, <2>1
<1>9. (s + 1) * u <= j * u
  <2>1. s + 1 \in Nat /\ s + 1 <= j
    BY <1>2, <1>7, <1>8
  <2>2. QED
    BY <1>2, <2>1, LargerProduct
<1>10. (s + 1) * u = s * u + u
  BY <1>7
<1>11. r + u <= B
  <2>1. s * u \in Nat
    BY <1>7
  <2>2. QED
    BY <1>2, <1>3, <1>7, <1>9, <1>10, <2>1
<1>12. QED
  BY <1>1, <1>3, <1>11 DEF r

(* It is so of any boundary of bytes and bits. *)
LEMMA BytesAdd ==
  ASSUME NEW n \in 0..3, NEW u, ByteWise(u, n + 1), NEW x \in 0..(u - 1),
         NEW y \in Nat, y % u = 0
  PROVE  Adds(x, y, n)
<1> DEFINE B == ByteValues
<1>1. B \in Nat \ {0} /\ u \in Nat \ {0}
  BY TranslateAssumption DEF ByteWise
<1>2. B % u = 0 \/ u % B = 0
  <2>1. 1 \in 1..(n + 1)
    OBVIOUS
  <2>2. QED
    BY <2>1, SizesOfBytes DEF ByteWise
<1>3. CASE u % B = 0
  <2> DEFINE w == u \div B
             m == y \div u
             k == m * w
             a == UpperBytes(x)
             r == LowByte(x)
  <2>1. w \in Nat /\ u = w * B /\ m \in Nat /\ y = m * u
    <3>1. w \in Nat /\ u = w * B
      BY <1>1, <1>3, Multiple
    <3>2. m \in Nat /\ y = m * u
      BY <1>1, Multiple
    <3>3. QED
      BY <3>1, <3>2
  <2>2. x \in Nat /\ a \in Nat /\ r \in 0..(B - 1) /\ x = a * B + r
    <3>1. x \in Nat
      BY <1>1
    <3>2. QED
      BY <3>1, BytesOf
  <2>3. a \in 0..(w - 1)
    <3> HIDE DEF w
    <3>1. x \in 0..(w * B - 1)
      BY <2>1
    <3>2. QED
      BY <2>1, <3>1, UpperIsLess
  <2> HIDE DEF w, m, a, r
  <2>4. k \in Nat /\ y = k * B /\ w # 0 /\ k % w = 0
    <3>1. w # 0
      BY <1>1, <2>1
    <3>2. k \in Nat /\ y = k * B
      BY <1>1, <2>1
    <3>3. k % w = 0
      BY <2>1, <3>1, ProductIsMultiple
    <3>4. QED
      BY <3>1, <3>2, <3>3
  <2> HIDE DEF k
  <2>5. LowByte(y) = 0 /\ UpperBytes(y) = k
    <3>1. 0 \in 0..(B - 1) /\ k * B + 0 = y
      BY <1>1, <2>4
    <3>2. LowByte(k * B + 0) = 0 /\ UpperBytes(k * B + 0) = k
      BY <2>4, <3>1, FromBytes
    <3>3. QED
      BY <3>1, <3>2
  <2>6. LowByte(x + y) = r /\ UpperBytes(x + y) = a + k
    <3>1. a + k \in Nat /\ x + y = (a + k) * B + r
      BY <1>1, <2>2, <2>4
    <3>2. LowByte((a + k) * B + r) = r /\ UpperBytes((a + k) * B + r) = a + k
      BY <2>2, <3>1, FromBytes
    <3>3. QED
      BY <3>1, <3>2
  <2>7. r + 0 = r
    BY <2>2
  <2>8. ByteWise(w, n)
    <3>1. w \in Nat \ {0} /\ ByteWise(w * B, n + 1)
      BY <2>1, <2>4
    <3>2. QED
      BY <3>1, ByteWiseRest
  <2>9. /\ LowByte(x + y) = LowByte(x) + LowByte(y)
        /\ UpperBytes(x + y) = UpperBytes(x) + UpperBytes(y)
    BY <2>5, <2>6, <2>7 DEF a, r
  <2>10. /\ w \in Nat \ {0} /\ UpperBytes(x) \in 0..(w - 1)
         /\ UpperBytes(y) \in Nat /\ UpperBytes(y) % w = 0
    BY <2>1, <2>3, <2>4, <2>5 DEF a
  <2>11. QED
    BY <2>8, <2>9, <2>10, Zenon DEF Adds
<1>4. CASE B % u = 0
  <2> DEFINE q == UpperBytes(y)
             r == LowByte(y)
  <2>1. q \in Nat /\ r \in 0..(B - 1) /\ y = q * B + r
    BY BytesOf
  <2>2. x + r \in 0..(B - 1)
    BY <1>1, <1>4, LowOfMultiple
  <2> HIDE DEF q, r
  <2>3. x \in 0..(B - 1)
    BY <1>1, <2>1, <2>2
  <2>4. LowByte(x) = x /\ UpperBytes(x) = 0
    BY <2>3, OfOneByte
  <2>5. LowByte(x + y) = x + r /\ UpperBytes(x + y) = q
    <3>1. x + y = q * B + (x + r)
      <4>1. q * B \in Nat
        BY <1>1, <2>1
      <4>2. QED
        BY <1>1, <2>1, <4>1
    <3> DEFINE t == x + r
    <3>2. t \in 0..(B - 1)
      BY <2>2
    <3> HIDE DEF t
    <3>3. LowByte(q * B + t) = t /\ UpperBytes(q * B + t) = q
      BY <2>1, <3>2, FromBytes
    <3>4. QED
      BY <3>1, <3>3 DEF t
  <2>6. 0 + q = q
    BY <2>1
  <2>7. /\ LowByte(x + y) = LowByte(x) + LowByte(y)
        /\ UpperBytes(x + y) = UpperBytes(x) + UpperBytes(y)
    BY <2>4, <2>5, <2>6 DEF q, r
  <2>8. /\ 1 \in Nat \ {0} /\ 0 \in 0..(1 - 1) /\ q % 1 = 0
    BY <2>1
  <2>9. ByteWise(1, n)
    <3>1. \A k \in 1..n : PixelValues(k) % 1 = 0
      <4>1. ASSUME NEW k \in 1..n PROVE PixelValues(k) % 1 = 0
        <5>1. k \in 1..4
          OBVIOUS
        <5>2. PixelValues(k) \in Nat
          BY <5>1, SizesOfBytes
        <5>3. QED
          BY <5>2
      <4>2. QED
        BY <4>1
    <3>2. QED
      BY <2>8, <3>1 DEF ByteWise
  <2>10. UpperBytes(x) \in 0..(1 - 1) /\ UpperBytes(y) \in Nat
         /\ UpperBytes(y) % 1 = 0
    BY <2>1, <2>4, <2>8 DEF q
  <2>11. QED
    BY <2>7, <2>8, <2>9, <2>10, Zenon DEF Adds
<1>5. QED
  BY <1>2, <1>3, <1>4

(* Swapping the bytes of the sum swaps those of both. *)
LEMMA SwapAdds ==
  ASSUME NEW f, f.bytes \in 2..4, NEW u, ByteWise(u, 4), NEW x \in 0..(u - 1),
         NEW y \in Nat, y % u = 0
  PROVE  SwapOut(f, x + y) = SwapOut(f, x) + SwapOut(f, y)
<1> DEFINE B == ByteValues
           x1 == UpperBytes(x)
           y1 == UpperBytes(y)
           x2 == UpperBytes(x1)
           y2 == UpperBytes(y1)
           x3 == UpperBytes(x2)
           y3 == UpperBytes(y2)
           z == x + y
           z1 == UpperBytes(z)
           z2 == UpperBytes(z1)
           z3 == UpperBytes(z2)
<1>1. B \in Nat \ {0} /\ u \in Nat \ {0} /\ x \in Nat
  BY TranslateAssumption DEF ByteWise
<1>2. Adds(x, y, 3)
  <2>1. 3 + 1 = 4 /\ 3 \in 0..3
    OBVIOUS
  <2>2. ByteWise(u, 3 + 1)
    BY <2>1
  <2>3. QED
    BY <2>1, <2>2, BytesAdd
<1>3. PICK u1 \in Nat \ {0} : ByteWise(u1, 3) /\ x1 \in 0..(u1 - 1)
                              /\ y1 \in Nat /\ y1 % u1 = 0
  BY <1>2, Zenon DEF Adds
<1>4. LowByte(z) = LowByte(x) + LowByte(y) /\ z1 = x1 + y1
  BY <1>2, Zenon DEF Adds
<1> HIDE DEF x1, y1, z1
<1>5. Adds(x1, y1, 2)
  <2>1. 2 + 1 = 3 /\ 2 \in 0..3
    OBVIOUS
  <2>2. ByteWise(u1, 2 + 1)
    BY <1>3, <2>1
  <2>3. QED
    BY <1>3, <2>1, <2>2, BytesAdd
<1>6. PICK u2 \in Nat \ {0} : ByteWise(u2, 2) /\ x2 \in 0..(u2 - 1)
                              /\ y2 \in Nat /\ y2 % u2 = 0
  BY <1>5, Zenon DEF Adds
<1>7. LowByte(z1) = LowByte(x1) + LowByte(y1) /\ z2 = x2 + y2
  BY <1>4, <1>5, Zenon DEF Adds
<1> HIDE DEF x2, y2, z2
<1>8. Adds(x2, y2, 1)
  <2>1. 1 + 1 = 2 /\ 1 \in 0..3
    OBVIOUS
  <2>2. ByteWise(u2, 1 + 1)
    BY <1>6, <2>1
  <2>3. QED
    BY <1>6, <2>1, <2>2, BytesAdd
<1>9. PICK u3 \in Nat \ {0} : ByteWise(u3, 1) /\ x3 \in 0..(u3 - 1)
                              /\ y3 \in Nat /\ y3 % u3 = 0
  BY <1>8, Zenon DEF Adds
<1>10. LowByte(z2) = LowByte(x2) + LowByte(y2) /\ z3 = x3 + y3
  BY <1>7, <1>8, Zenon DEF Adds
<1> HIDE DEF x3, y3, z3
<1>11. LowByte(z3) = LowByte(x3) + LowByte(y3)
  <2>1. Adds(x3, y3, 0)
    <3>1. 0 + 1 = 1 /\ 0 \in 0..3
      OBVIOUS
    <3>2. ByteWise(u3, 0 + 1)
      BY <1>9, <3>1
    <3>3. QED
      BY <1>9, <3>1, <3>2, BytesAdd
  <2>2. QED
    BY <1>10, <2>1, Zenon DEF Adds
<1> DEFINE a0 == LowByte(x)
           a1 == LowByte(x1)
           a2 == LowByte(x2)
           a3 == LowByte(x3)
           b0 == LowByte(y)
           b1 == LowByte(y1)
           b2 == LowByte(y2)
           b3 == LowByte(y3)
<1>12. /\ a0 \in Nat /\ a1 \in Nat /\ a2 \in Nat /\ a3 \in Nat
       /\ b0 \in Nat /\ b1 \in Nat /\ b2 \in Nat /\ b3 \in Nat
  <2>1. /\ x \in Nat /\ y \in Nat /\ x1 \in Nat /\ y1 \in Nat /\ x2 \in Nat
        /\ y2 \in Nat /\ x3 \in Nat /\ y3 \in Nat
    BY <1>1, <1>3, <1>6, <1>9
  <2>2. \A v \in Nat : LowByte(v) \in Nat
    BY BytesOf
  <2>3. QED
    BY <2>1, <2>2
<1>13. /\ SwapOut(f, x) = CASE f.bytes = 2 -> a0 * B + a1
                            [] f.bytes = 3 -> (a0 * B + a1) * B + a2
                            [] OTHER -> ((a0 * B + a1) * B + a2) * B + a3
       /\ SwapOut(f, y) = CASE f.bytes = 2 -> b0 * B + b1
                            [] f.bytes = 3 -> (b0 * B + b1) * B + b2
                            [] OTHER -> ((b0 * B + b1) * B + b2) * B + b3
  BY Zenon DEF SwapOut, x1, x2, x3, y1, y2, y3
<1>14. SwapOut(f, x + y)
         = CASE f.bytes = 2 -> (a0 + b0) * B + (a1 + b1)
             [] f.bytes = 3 -> ((a0 + b0) * B + (a1 + b1)) * B + (a2 + b2)
             [] OTHER -> (((a0 + b0) * B + (a1 + b1)) * B + (a2 + b2)) * B
                           + (a3 + b3)
  <2>1. SwapOut(f, z)
         = CASE f.bytes = 2 -> LowByte(z) * B + LowByte(z1)
             [] f.bytes = 3 -> (LowByte(z) * B + LowByte(z1)) * B + LowByte(z2)
             [] OTHER -> ((LowByte(z) * B + LowByte(z1)) * B + LowByte(z2)) * B
                           + LowByte(z3)
    BY Zenon DEF SwapOut, z1, z2, z3
  <2> HIDE DEF z
  <2>2. QED
    BY <1>4, <1>7, <1>10, <1>11, <2>1, Zenon DEF z
<1> HIDE DEF a0, a1, a2, a3, b0, b1, b2, b3, B
<1>15. CASE f.bytes = 2
  <2>0. f.bytes # 3
    BY <1>15
  <2>1. /\ SwapOut(f, x) = a0 * B + a1 /\ SwapOut(f, y) = b0 * B + b1
        /\ SwapOut(f, x + y) = (a0 + b0) * B + (a1 + b1)
    BY <1>13, <1>14, <1>15, <2>0, Zenon
  <2>2. (a0 + b0) * B + (a1 + b1) = (a0 * B + a1) + (b0 * B + b1)
    BY <1>1, <1>12
  <2>3. QED
    BY <2>1, <2>2, Zenon
<1>16. CASE f.bytes = 3
  <2>0. f.bytes # 2
    BY <1>16
  <2>1. /\ SwapOut(f, x) = (a0 * B + a1) * B + a2
        /\ SwapOut(f, y) = (b0 * B + b1) * B + b2
        /\ SwapOut(f, x + y) = ((a0 + b0) * B + (a1 + b1)) * B + (a2 + b2)
    BY <1>13, <1>14, <1>16, <2>0, Zenon
  <2>2. ((a0 + b0) * B + (a1 + b1)) * B + (a2 + b2)
          = ((a0 * B + a1) * B + a2) + ((b0 * B + b1) * B + b2)
    BY <1>1, <1>12
  <2>3. QED
    BY <2>1, <2>2, Zenon
<1>17. CASE f.bytes = 4
  <2>0. f.bytes # 2 /\ f.bytes # 3
    BY <1>17
  <2>1. /\ SwapOut(f, x) = ((a0 * B + a1) * B + a2) * B + a3
        /\ SwapOut(f, y) = ((b0 * B + b1) * B + b2) * B + b3
        /\ SwapOut(f, x + y)
             = (((a0 + b0) * B + (a1 + b1)) * B + (a2 + b2)) * B + (a3 + b3)
    BY <1>13, <1>14, <2>0, Zenon
  <2>2. (((a0 + b0) * B + (a1 + b1)) * B + (a2 + b2)) * B + (a3 + b3)
          = (((a0 * B + a1) * B + a2) * B + a3)
              + (((b0 * B + b1) * B + b2) * B + b3)
    BY <1>1, <1>12
  <2>3. QED
    BY <2>1, <2>2, Zenon
<1>18. QED
  BY <1>15, <1>16, <1>17

(* The samples of a format begin at bits. *)
LEMMA LowestIsByteWise ==
  ASSUME NEW f, IsFormat(f), NEW c \in Components
  PROVE  ByteWise(Lowest(f, c), 4)
<1>1. Lowest(f, c) \in Nat \ {0}
  BY FormatNumbers
<1>2. \A k \in 1..4 : \/ PixelValues(k) % Lowest(f, c) = 0
                      \/ Lowest(f, c) % PixelValues(k) = 0
  BY Zenon DEF IsFormat
<1>3. QED
  BY <1>1, <1>2, Zenon DEF ByteWise

(* What is swapped is a number. *)
LEMMA SwappedIsNat ==
  ASSUME NEW f, f.bytes \in 2..4, NEW v \in Nat
  PROVE  SwapOut(f, v) \in Nat
<1> DEFINE B == ByteValues
           v1 == UpperBytes(v)
           v2 == UpperBytes(v1)
           v3 == UpperBytes(v2)
           b0 == LowByte(v)
           b1 == LowByte(v1)
           b2 == LowByte(v2)
           b3 == LowByte(v3)
<1>1. B \in Nat
  BY TranslateAssumption
<1>2. \A w \in Nat : UpperBytes(w) \in Nat /\ LowByte(w) \in Nat
  BY BytesOf
<1>3. b0 \in Nat /\ b1 \in Nat /\ b2 \in Nat /\ b3 \in Nat
  BY <1>2
<1> DEFINE two == b0 * B + b1
           three == two * B + b2
           four == three * B + b3
<1>4. SwapOut(f, v) = CASE f.bytes = 2 -> two [] f.bytes = 3 -> three
                        [] OTHER -> four
  BY Zenon DEF SwapOut
<1> HIDE DEF b0, b1, b2, b3
<1>5. two \in Nat
  BY <1>1, <1>3
<1> HIDE DEF two
<1>6. three \in Nat
  BY <1>1, <1>3, <1>5
<1> HIDE DEF three
<1>7. four \in Nat
  BY <1>1, <1>3, <1>6
<1> HIDE DEF four
<1>8. QED
  BY <1>4, <1>5, <1>6, <1>7

(* What is added up in any order of the components. *)
LEMMA SumInOrder ==
  ASSUME NEW g \in [Components -> Nat],
         NEW f, NEW a, NEW b, NEW c, Ordered(f, a, b, c)
  PROVE  Sum3(g) = g[a] + g[b] + g[c]
<1> DEFINE r == g["red"]
           h == g["green"]
           l == g["blue"]
<1>1. Sum3(g) = r + h + l
  BY DEF Sum3
<1>2. r \in Nat /\ h \in Nat /\ l \in Nat
  BY DEF Components
<1> HIDE DEF r, h, l
<1>3. CASE a = "red" /\ b = "green" /\ c = "blue"
  BY <1>1, <1>2, <1>3 DEF r, h, l
<1>4. CASE a = "red" /\ c = "green" /\ b = "blue"
  BY <1>1, <1>2, <1>4 DEF r, h, l
<1>5. CASE b = "red" /\ a = "green" /\ c = "blue"
  BY <1>1, <1>2, <1>5 DEF r, h, l
<1>6. CASE b = "red" /\ c = "green" /\ a = "blue"
  BY <1>1, <1>2, <1>6 DEF r, h, l
<1>7. CASE c = "red" /\ a = "green" /\ b = "blue"
  BY <1>1, <1>2, <1>7 DEF r, h, l
<1>8. CASE c = "red" /\ b = "green" /\ a = "blue"
  BY <1>1, <1>2, <1>8 DEF r, h, l
<1>9. /\ a \in {"red", "green", "blue"} /\ b \in {"red", "green", "blue"}
      /\ c \in {"red", "green", "blue"} /\ a # b /\ a # c /\ b # c
  BY DEF Ordered, Components
<1>10. QED
  BY <1>3, <1>4, <1>5, <1>6, <1>7, <1>8, <1>9

(* Three tables add up to the bytes of the pixel in the client's order.    *)
LEMMA FieldsAreSwapped ==
  ASSUME NEW f, IsFormat(f), NEW s \in SamplesOf(f), NEW in
  PROVE  Sum3([c \in Components |-> ToOrder(in, f, Field(f, s, c))])
           = ToOrder(in, f, PixelOf(f, s))
<1> DEFINE g == [c \in Components |-> ToOrder(in, f, Field(f, s, c))]
<1>1. PICK a, b, c \in Components : Ordered(f, a, b, c)
  BY FormatHasOrder
<1> DEFINE x == Field(f, s, a)
           y == Field(f, s, b)
           z == Field(f, s, c)
<1>2. PixelOf(f, s) = x + y + z
  BY <1>1, PixelIsSum
<1>3. /\ x \in Nat /\ y \in Nat /\ z \in Nat
      /\ x < Lowest(f, b) /\ x + y < Lowest(f, c)
      /\ y % Lowest(f, b) = 0 /\ z % Lowest(f, c) = 0
  BY <1>1, FieldsAreApart DEF FieldsApart
<1>4. /\ g[a] = ToOrder(in, f, x) /\ g[b] = ToOrder(in, f, y)
      /\ g[c] = ToOrder(in, f, z)
  OBVIOUS
<1>5. CASE in.big # f.big /\ f.bytes # 1
  <2>1. f.bytes \in 2..4
    <3>1. f.bytes \in 1..4
      BY DEF IsFormat
    <3>2. QED
      BY <1>5, <3>1
  <2>2. \A v : ToOrder(in, f, v) = SwapOut(f, v)
    BY <1>5, Zenon DEF ToOrder
  <2>3. \A d \in Components : g[d] \in Nat
    <3>1. ASSUME NEW d \in Components PROVE g[d] \in Nat
      <4>1. s[d] \in Nat /\ Lowest(f, d) \in Nat
        BY FormatNumbers DEF SamplesOf
      <4>2. Field(f, s, d) \in Nat
        BY <4>1 DEF Field
      <4>3. SwapOut(f, Field(f, s, d)) \in Nat
        BY <2>1, <4>2, SwappedIsNat
      <4>4. QED
        BY <2>2, <4>3
    <3>2. QED
      BY <3>1
  <2>4. Sum3(g) = g[a] + g[b] + g[c]
    <3> HIDE DEF g
    <3>1. g \in [Components -> Nat]
      BY <2>3 DEF g
    <3>2. QED
      BY <1>1, <3>1, SumInOrder
  <2>5. ByteWise(Lowest(f, b), 4) /\ ByteWise(Lowest(f, c), 4)
    BY LowestIsByteWise
  <2>6. Lowest(f, b) \in Nat /\ Lowest(f, c) \in Nat
    BY FormatNumbers
  <2> HIDE DEF g, x, y, z
  <2>7. SwapOut(f, x + y) = SwapOut(f, x) + SwapOut(f, y)
    <3>1. x \in 0..(Lowest(f, b) - 1)
      BY <1>3, <2>6
    <3>2. QED
      BY <1>3, <2>1, <2>5, <3>1, SwapAdds
  <2>8. SwapOut(f, (x + y) + z) = SwapOut(f, x + y) + SwapOut(f, z)
    <3> DEFINE w == x + y
    <3>1. w \in 0..(Lowest(f, c) - 1)
      BY <1>3, <2>6
    <3> HIDE DEF w
    <3>2. SwapOut(f, w + z) = SwapOut(f, w) + SwapOut(f, z)
      BY <1>3, <2>1, <2>5, <3>1, SwapAdds
    <3>3. QED
      BY <3>2 DEF w
  <2>9. QED
    BY <1>2, <1>4, <2>2, <2>4, <2>7, <2>8, Zenon DEF g
<1>6. CASE ~(in.big # f.big /\ f.bytes # 1)
  <2>1. \A v : ToOrder(in, f, v) = v
    BY <1>6, Zenon DEF ToOrder
  <2>2. \A d \in Components : g[d] \in Nat
    <3>1. ASSUME NEW d \in Components PROVE g[d] \in Nat
      <4>1. s[d] \in Nat /\ Lowest(f, d) \in Nat
        BY FormatNumbers DEF SamplesOf
      <4>2. Field(f, s, d) \in Nat
        BY <4>1 DEF Field
      <4>3. QED
        BY <2>1, <4>2
    <3>2. QED
      BY <3>1
  <2>3. Sum3(g) = g[a] + g[b] + g[c]
    <3> HIDE DEF g
    <3>1. g \in [Components -> Nat]
      BY <2>2 DEF g
    <3>2. QED
      BY <1>1, <3>1, SumInOrder
  <2> HIDE DEF g, x, y, z
  <2>4. QED
    BY <1>2, <1>4, <2>1, <2>3, Zenon DEF g
<1>7. QED
  BY <1>5, <1>6

(* The client reads what the server has put into its order. *)
LEMMA OrderIsRead ==
  ASSUME NEW f, IsFormat(f), NEW s \in SamplesOf(f), NEW in,
         NEW c \in Components
  PROVE  /\ ToOrder(in, f, PixelOf(f, s)) \in Nat
         /\ Sample(f, ToOrder(in, f, ToOrder(in, f, PixelOf(f, s))), c) = s[c]
<1> DEFINE p == PixelOf(f, s)
<1>1. p \in 0..(PixelValues(f.bytes) - 1) /\ Sample(f, p, c) = s[c]
  BY SamplesAreKept
<1>2. PixelValues(f.bytes) \in Nat
  BY FormatNumbers
<1> HIDE DEF p
<1>3. p \in Nat
  BY <1>1, <1>2
<1>4. CASE in.big # f.big /\ f.bytes # 1
  <2>1. f.bytes \in 2..4
    <3>1. f.bytes \in 1..4
      BY DEF IsFormat
    <3>2. QED
      BY <1>4, <3>1
  <2>2. SwapOut(f, p) \in Nat /\ SwapOut(f, SwapOut(f, p)) = p
    BY <1>1, <2>1, SwapIsUndone
  <2>3. \A v : ToOrder(in, f, v) = SwapOut(f, v)
    BY <1>4, Zenon DEF ToOrder
  <2>4. QED
    BY <1>1, <2>2, <2>3, Zenon DEF p
<1>5. CASE ~(in.big # f.big /\ f.bytes # 1)
  <2>1. \A v : ToOrder(in, f, v) = v
    BY <1>5, Zenon DEF ToOrder
  <2>2. QED
    BY <1>1, <1>3, <2>1, Zenon DEF p
<1>6. QED
  BY <1>4, <1>5

(* How far what is shown may be from what was drawn. *)
ColourIsNear(shown, m, drawn, n, q) ==
  LET off == shown * n - drawn * m
  IN /\ off * q < m * n
     /\ -off * q < m * n
     /\ q = m /\ q = n => off = 0

(* It is no farther if the coarsest format is less coarse. *)
LEMMA NearBySize ==
  ASSUME NEW off \in Int, NEW q \in Nat \ {0}, NEW p \in Nat \ {0},
         NEW t \in Nat \ {0},
         q <= p, off * p < t
  PROVE  off * q < t
<1>1. CASE off <= 0
  <2>1. -off \in Nat
    BY <1>1
  <2>2. (-off) * q \in Nat
    BY <2>1
  <2>3. off * q = -((-off) * q)
    OBVIOUS
  <2>4. QED
    BY <2>2, <2>3
<1>2. CASE off > 0
  <2>1. off \in Nat
    BY <1>2
  <2>2. q * off <= p * off
    BY <2>1, LargerProduct
  <2>3. q * off = off * q /\ p * off = off * p /\ off * q \in Int
        /\ off * p \in Int
    OBVIOUS
  <2>4. QED
    BY <2>2, <2>3
<1>3. QED
  BY <1>1, <1>2

(* A bound of the distance, which is less than a step of p values. *)
OffBy(shown, m, drawn, n, h, p) ==
  /\ h \in Nat /\ h * p < m * n
  /\ shown * n <= drawn * m + h /\ drawn * m <= shown * n + h

(* What is not farther than a bound. *)
LEMMA NearByBound ==
  ASSUME NEW shown \in Nat, NEW m \in Nat \ {0}, NEW drawn \in Nat,
         NEW n \in Nat \ {0}, NEW p \in Nat \ {0}, NEW q \in Nat \ {0}, q <= p,
         NEW h, OffBy(shown, m, drawn, n, h, p),
         q = m /\ q = n => shown * n = drawn * m
  PROVE  ColourIsNear(shown, m, drawn, n, q)
<1> DEFINE a == shown * n
           b == drawn * m
           off == a - b
           t == m * n
<1>1. a \in Nat /\ b \in Nat /\ t \in Nat \ {0}
  OBVIOUS
<1>2. /\ h \in Nat /\ a <= b + h /\ b <= a + h /\ h * p < t
      /\ (q = m /\ q = n => a = b)
  BY DEF OffBy
<1> HIDE DEF a, b
<1>3. off \in Int /\ off <= h /\ -off <= h
  BY <1>1, <1>2
<1>4. (q = m /\ q = n) => off = 0
  BY <1>1, <1>2
<1> HIDE DEF off, t
<1>5. off * p < t /\ (-off) * p < t
  <2>1. \A o \in Int : o <= h => o * p <= h * p
    <3>1. ASSUME NEW o \in Int, o <= h PROVE o * p <= h * p
      <4>1. CASE o \in Nat
        BY <1>2, <3>1, <4>1, LargerProduct
      <4>2. CASE o < 0
        <5>1. (-o) * p \in Nat /\ h * p \in Nat
          BY <1>2, <4>2
        <5>2. o * p = -((-o) * p)
          BY <3>1
        <5>3. QED
          BY <5>1, <5>2
      <4>3. QED
        BY <3>1, <4>1, <4>2
    <3>2. QED
      BY <3>1
  <2>2. off * p <= h * p /\ (-off) * p <= h * p
    BY <1>3, <2>1
  <2>3. off * p \in Int /\ (-off) * p \in Int /\ h * p \in Int
    BY <1>2, <1>3
  <2>4. QED
    BY <1>1, <1>2, <2>2, <2>3
<1>6. off * q < t
  BY <1>1, <1>3, <1>5, NearBySize
<1>7. (-off) * q < t
  <2>1. -off \in Int
    BY <1>3
  <2>2. QED
    BY <1>1, <1>5, <2>1, NearBySize
<1>8. -off * q = (-off) * q
  BY <1>3
<1>9. QED
  BY <1>4, <1>6, <1>7, <1>8, Zenon DEF ColourIsNear, off, a, b, t

(* Halves. *)
LEMMA HalfOf ==
  ASSUME NEW n \in Nat \ {0}
  PROVE  /\ n \div 2 \in Nat /\ 2 * (n \div 2) <= n /\ n < 2 * (n \div 2) + 2
         /\ n \div 2 < n
OBVIOUS

(* A sample that is rescaled is not more than half a step away. *)
LEMMA RescaledIsClose ==
  ASSUME NEW n \in Nat \ {0}, NEW m \in Nat \ {0}, NEW s \in 0..n
  PROVE  /\ Rescaled(s, n, m) \in 0..m
         /\ Rescaled(s, n, m) * n <= s * m + n \div 2
         /\ s * m <= Rescaled(s, n, m) * n + n \div 2
         /\ m = n => Rescaled(s, n, m) = s
<1> DEFINE h == n \div 2
           v == s * m + h
           r == v \div n
           e == v % n
<1>1. /\ h \in Nat /\ 2 * h <= n /\ n < 2 * h + 2 /\ h < n
  BY HalfOf
<1>2. Rescaled(s, n, m) = r
  BY DEF Rescaled
<1>3. s * m \in Nat /\ s \in Nat
  OBVIOUS
<1> HIDE DEF h
<1>4. v \in Nat
  BY <1>1, <1>3
<1> HIDE DEF v
<1>5. r \in Nat /\ e \in 0..(n - 1) /\ v = r * n + e
  BY <1>4, Division
<1> HIDE DEF r, e
<1>6. s * m + h = r * n + e /\ r * n \in Nat
  <2>1. r * n \in Nat
    BY <1>5
  <2>2. QED
    BY <1>5, <2>1 DEF v
<1>7. r * n <= s * m + h
  BY <1>1, <1>3, <1>5, <1>6
<1>8. s * m <= r * n + h
  BY <1>1, <1>3, <1>5, <1>6
<1>9. r <= m
  <2>1. ASSUME m + 1 <= r PROVE FALSE
    <3>1. (m + 1) * n <= r * n
      BY <1>5, <2>1, LargerProduct
    <3>2. (m + 1) * n = m * n + n /\ m * n \in Nat
      OBVIOUS
    <3>3. s * m <= n * m /\ n * m = m * n
      <4>1. s <= n
        OBVIOUS
      <4>2. s * m <= n * m
        BY <1>3, <4>1, LargerProduct
      <4>3. QED
        BY <4>2
    <3>4. QED
      BY <1>1, <1>3, <1>6, <1>7, <3>1, <3>2, <3>3
  <2>2. QED
    BY <1>5, <2>1
<1>10. ASSUME m = n PROVE r = s
  <2>1. h \in 0..(n - 1)
    BY <1>1
  <2>2. (s * n + h) \div n = s
    BY <1>3, <2>1, DivisionIsUnique
  <2>3. QED
    BY <1>10, <2>2 DEF r, v
<1>11. QED
  BY <1>2, <1>5, <1>7, <1>8, <1>9, <1>10 DEF h

(* A rescaled sample is near the one drawn. *)
LEMMA RescaledIsNear ==
  ASSUME NEW n \in Nat \ {0}, NEW m \in Nat \ {0}, NEW s \in 0..n,
         NEW q \in Nat \ {0}, q <= m, q <= n
  PROVE  ColourIsNear(Rescaled(s, n, m), m, s, n, q)
<1> DEFINE r == Rescaled(s, n, m)
           h == n \div 2
<1>1. /\ r \in 0..m /\ r * n <= s * m + h /\ s * m <= r * n + h
      /\ m = n => r = s
  BY RescaledIsClose
<1>2. h \in Nat /\ h < n
  BY HalfOf
<1> HIDE DEF r, h
<1>3. h * m < m * n
  <2>1. h + 1 \in Nat /\ h + 1 <= n
    BY <1>2
  <2>2. (h + 1) * m <= n * m
    BY <2>1, LargerProduct
  <2>3. (h + 1) * m = h * m + m /\ h * m \in Nat /\ n * m = m * n
        /\ n * m \in Nat
    BY <1>2
  <2>4. QED
    BY <2>2, <2>3
<1>4. (q = m /\ q = n) => r * n = s * m
  BY <1>1
<1>5. r \in Nat /\ s \in Nat
  BY <1>1
<1>6. OffBy(r, m, s, n, h, m)
  BY <1>1, <1>2, <1>3 DEF OffBy
<1>7. ColourIsNear(r, m, s, n, q)
  BY <1>4, <1>5, <1>6, NearByBound
<1>8. QED
  BY <1>7 DEF r

(* The samples of a colour map, in a format of M + 1 values. *)
OfMap(d, M, K) == (d * (1 + M)) \div (K + 1)

(* What they are. *)
LEMMA MapSample ==
  ASSUME NEW K \in Nat \ {0}, NEW M \in Nat \ {0}, NEW d \in 0..K
  PROVE  /\ OfMap(d, M, K) \in 0..M
         /\ \E e \in 0..K : d * (1 + M) = OfMap(d, M, K) * (K + 1) + e
         /\ M = K => OfMap(d, M, K) = d
<1> DEFINE v == d * (1 + M)
           r == v \div (K + 1)
           e == v % (K + 1)
<1>1. v \in Nat /\ K + 1 \in Nat \ {0}
  OBVIOUS
<1>2. r \in Nat /\ e \in 0..((K + 1) - 1) /\ v = r * (K + 1) + e
  <2> HIDE DEF v
  <2>1. QED
    BY <1>1, Division
<1>3. ASSUME M = K PROVE r = d
  <2>1. 0 \in 0..((K + 1) - 1) /\ d \in Nat /\ v = d * (K + 1) + 0
    BY <1>3
  <2>2. (d * (K + 1) + 0) \div (K + 1) = d
    BY <1>1, <2>1, DivisionIsUnique
  <2>3. QED
    BY <2>1, <2>2
<1> HIDE DEF r, e
<1>4. e \in 0..K
  BY <1>2
<1>5. r <= M
  <2>1. ASSUME M + 1 <= r PROVE FALSE
    <3>1. (M + 1) * (K + 1) <= r * (K + 1)
      BY <1>1, <1>2, <2>1, LargerProduct
    <3>2. d * (M + 1) <= K * (M + 1)
      BY LargerProduct
    <3>3. (M + 1) * (K + 1) = K * (M + 1) + (M + 1)
      OBVIOUS
    <3>4. v = d * (M + 1) /\ v \in Nat /\ K * (M + 1) \in Nat
      OBVIOUS
    <3>5. r * (K + 1) \in Nat
      BY <1>2
    <3>6. QED
      BY <1>2, <1>4, <3>1, <3>2, <3>3, <3>4, <3>5
  <2>2. QED
    BY <1>2, <2>1
<1>6. OfMap(d, M, K) = r
  BY DEF OfMap, r
<1>7. QED
  BY <1>2, <1>3, <1>4, <1>5, <1>6

(* They are near those of the map. *)
LEMMA MapIsNear ==
  ASSUME NEW K \in Nat \ {0}, NEW M \in Nat \ {0}, NEW d \in 0..K,
         NEW q \in Nat \ {0}, q <= M, q <= K
  PROVE  ColourIsNear(OfMap(d, M, K), M, d, K, q)
<1> DEFINE r == OfMap(d, M, K)
<1>1. r \in 0..M /\ (M = K => r = d)
  BY MapSample
<1>2. PICK e \in 0..K : d * (1 + M) = r * (K + 1) + e
  BY MapSample
<1> HIDE DEF r
<1>3. r \in Nat /\ d \in Nat
  BY <1>1
<1>4. /\ d * (1 + M) = d + d * M /\ r * (K + 1) = r * K + r
      /\ d * M \in Nat /\ r * K \in Nat
  BY <1>3
<1>5. r * K + e + r = d + d * M
  BY <1>2, <1>3, <1>4
<1>6. (q = M /\ q = K) => r * K = d * M
  BY <1>1
<1>7. CASE K <= M
  <2>1. CASE M = K
    <3>1. r * K = d * M /\ 0 * K < M * K
      BY <1>1, <2>1
    <3>2. OffBy(r, M, d, K, 0, K)
      BY <1>4, <3>1 DEF OffBy
    <3>3. QED
      BY <1>3, <1>6, <3>2, NearByBound DEF r
  <2>2. CASE K < M
    <3>1. d <= r
      <4>1. ASSUME r + 1 <= d PROVE FALSE
        <5>1. (r + 1) * (K + 1) <= d * (K + 1)
          BY <1>3, <4>1, LargerProduct
        <5>2. d * (K + 1) <= d * (1 + M)
          <6>1. (K + 1) * d <= (1 + M) * d
            BY <1>3, <2>2, LargerProduct
          <6>2. QED
            BY <1>3, <6>1
        <5>3. (r + 1) * (K + 1) = r * (K + 1) + (K + 1)
          BY <1>3
        <5>4. r * (K + 1) \in Nat /\ d * (K + 1) \in Nat /\ d * (1 + M) \in Nat
          BY <1>3
        <5>5. QED
          BY <1>2, <5>1, <5>2, <5>3, <5>4
      <4>2. QED
        BY <1>3, <4>1
    <3>2. r < d + (M - K)
      <4>1. ASSUME d + (M - K) <= r PROVE FALSE
        <5> DEFINE j == M - K
        <5>1. j \in Nat \ {0} /\ M = K + j
          BY <2>2
        <5> HIDE DEF j
        <5>2. (d + j) * (K + 1) <= r * (K + 1)
          BY <1>3, <4>1, <5>1, LargerProduct DEF j
        <5>3. (d + j) * (K + 1) = d * K + d + j * K + j
          BY <1>3, <5>1
        <5>4. d * (1 + M) = d + d * K + d * j
          BY <1>3, <5>1
        <5>5. d * j <= K * j /\ K * j = j * K
          BY <1>3, <5>1, LargerProduct
        <5>6. d * K \in Nat /\ d * j \in Nat /\ j * K \in Nat
              /\ r * (K + 1) \in Nat
          BY <1>3, <5>1
        <5>7. QED
          BY <1>2, <1>3, <5>1, <5>2, <5>3, <5>4, <5>5, <5>6
      <4>2. QED
        BY <1>3, <2>2, <4>1
    <3>3. M - 1 \in Nat /\ r * K <= d * M + (M - 1) /\ d * M <= r * K + (M - 1)
      BY <1>3, <1>4, <1>5, <2>2, <3>1, <3>2
    <3>4. (M - 1) * K < M * K
      <4>1. (M - 1) * K = M * K - K /\ M * K \in Nat
        OBVIOUS
      <4>2. QED
        BY <4>1
    <3> DEFINE h == M - 1
    <3>5. h \in Nat /\ r * K <= d * M + h /\ d * M <= r * K + h /\ h * K < M * K
      BY <3>3, <3>4
    <3> HIDE DEF h
    <3>6. OffBy(r, M, d, K, h, K)
      BY <3>5 DEF OffBy
    <3>7. QED
      BY <1>3, <1>6, <3>6, NearByBound DEF r
  <2>3. QED
    BY <1>7, <2>1, <2>2
<1>8. CASE M < K
  <2>1. r <= d
    <3>1. ASSUME d + 1 <= r PROVE FALSE
      <4>1. (d + 1) * (K + 1) <= r * (K + 1)
        BY <1>3, <3>1, LargerProduct
      <4>2. d * (1 + M) <= d * (K + 1)
        <5>1. (1 + M) * d <= (K + 1) * d
          BY <1>3, <1>8, LargerProduct
        <5>2. QED
          BY <1>3, <5>1
      <4>3. (d + 1) * (K + 1) = d * (K + 1) + (K + 1)
        BY <1>3
      <4>4. r * (K + 1) \in Nat /\ d * (K + 1) \in Nat /\ d * (1 + M) \in Nat
        BY <1>3
      <4>5. QED
        BY <1>2, <4>1, <4>2, <4>3, <4>4
    <3>2. QED
      BY <1>3, <3>1
  <2>2. d < r + K
    <3>1. CASE d = K
      <4>1. ASSUME r = 0 PROVE FALSE
        <5>1. K + 1 <= K * (1 + M)
          <6>1. K * (1 + M) = K + K * M /\ K * M \in Nat \ {0}
            OBVIOUS
          <6>2. QED
            BY <6>1
        <5>2. r * (K + 1) = 0 /\ K * (1 + M) \in Nat
          BY <4>1
        <5>3. QED
          BY <1>2, <3>1, <5>1, <5>2
      <4>2. QED
        BY <1>3, <3>1, <4>1
    <3>2. QED
      BY <1>3, <3>1
  <2>3. d * M <= r * K + (K - 1)
    <3>1. CASE r = d
      <4>1. M * d <= K * d /\ M * d = d * M /\ K * d = r * K
        BY <1>3, <1>8, <3>1, LargerProduct
      <4>2. QED
        BY <1>4, <4>1
    <3>2. CASE r < d
      BY <1>3, <1>4, <1>5, <3>2
    <3>3. QED
      BY <1>3, <2>1, <3>1, <3>2
  <2>4. r * K <= d * M + (K - 1) /\ K - 1 \in Nat
    BY <1>3, <1>4, <1>5, <2>2
  <2>5. (K - 1) * M < M * K
    <3>1. (K - 1) * M = M * K - M /\ M * K \in Nat
      OBVIOUS
    <3>2. QED
      BY <3>1
  <2> DEFINE h == K - 1
  <2>6. h \in Nat /\ r * K <= d * M + h /\ d * M <= r * K + h /\ h * M < M * K
    BY <2>3, <2>4, <2>5
  <2> HIDE DEF h
  <2>7. OffBy(r, M, d, K, h, M)
    BY <2>6 DEF OffBy
  <2>8. QED
    BY <1>3, <1>6, <2>7, NearByBound DEF r
<1>9. QED
  BY <1>7, <1>8 DEF r

(* A sample of BGR233 in its map of K + 1 colours. *)
OfBGR233(r, b, K) == (r * K) \div b

(* A quotient's remainder. *)
LEMMA OfBGR233Rest ==
  ASSUME NEW K \in Nat, NEW b \in Nat \ {0}, NEW r \in Nat
  PROVE  /\ OfBGR233(r, b, K) \in Nat
         /\ \E e \in 0..(b - 1) : r * K = OfBGR233(r, b, K) * b + e
<1> DEFINE v == r * K
<1>1. v \in Nat
  OBVIOUS
<1> HIDE DEF v
<1>2. v \div b \in Nat /\ v % b \in 0..(b - 1) /\ v = (v \div b) * b + (v % b)
  BY <1>1, Division
<1>3. OfBGR233(r, b, K) = v \div b
  BY DEF OfBGR233, v
<1>4. QED
  BY <1>2, <1>3 DEF v

(* A client with colour map shows what is near a server's sample. *)
LEMMA BGR233IsNear ==
  ASSUME NEW K \in Nat \ {0}, NEW b \in Nat \ {0}, 2 * b <= K,
         NEW n \in Nat \ {0}, NEW s \in 0..n, NEW q \in Nat \ {0}, q <= b
  PROVE  ColourIsNear(OfBGR233(Rescaled(s, n, b), b, K), K, s, n, q)
<1> DEFINE r == Rescaled(s, n, b)
           h == n \div 2
           x == OfBGR233(r, b, K)
<1>1. r \in 0..b /\ r * n <= s * b + h /\ s * b <= r * n + h
  BY RescaledIsClose
<1>2. h \in Nat /\ 2 * h <= n /\ h < n
  BY HalfOf
<1>3. r \in Nat
  BY <1>1
<1> HIDE DEF r, h
<1>4. x \in Nat
  BY <1>3, OfBGR233Rest
<1>5. PICK e \in 0..(b - 1) : r * K = x * b + e
  BY <1>3, OfBGR233Rest
<1> HIDE DEF x
<1> DEFINE off == x * n - s * K
           t == K * n
           g == r * n - s * b
<1>6. /\ g \in Int /\ g <= h /\ -g <= h /\ off \in Int /\ t \in Nat \ {0}
  <2>1. r * n \in Nat /\ s * b \in Nat /\ x * n \in Nat /\ s * K \in Nat
    BY <1>3, <1>4
  <2>2. QED
    BY <1>1, <1>2, <2>1
<1>7. off * b = K * g - e * n
  <2>1. off * b = (x * b) * n - (s * b) * K
    BY <1>4
  <2>2. x * b = r * K - e /\ x * b \in Nat /\ r * K \in Nat
    BY <1>3, <1>4, <1>5
  <2>3. (r * K - e) * n = (r * K) * n - e * n
    BY <1>3
  <2>4. K * g = (r * K) * n - (s * b) * K
    BY <1>3
  <2>5. (r * K) * n \in Int /\ e * n \in Int /\ (s * b) * K \in Int
    BY <1>3
  <2>6. QED
    BY <2>1, <2>2, <2>3, <2>4, <2>5
<1> HIDE DEF off, g
<1>8. K * g <= K * h /\ -(K * g) <= K * h /\ K * g \in Int /\ K * h \in Nat
  <2>1. CASE g \in Nat
    <3>1. g * K <= h * K /\ g * K = K * g /\ h * K = K * h /\ K * g \in Nat
      BY <1>2, <1>6, <2>1, LargerProduct
    <3>2. QED
      BY <3>1, <1>2
  <2>2. CASE -g \in Nat
    <3>1. (-g) * K <= h * K /\ h * K = K * h /\ (-g) * K \in Nat
      BY <1>2, <1>6, <2>2, LargerProduct
    <3>2. (-g) * K = -(K * g) /\ K * g \in Int /\ K * h \in Nat
      BY <1>2, <1>6
    <3>3. QED
      BY <3>1, <3>2
  <2>3. QED
    BY <1>6, <2>1, <2>2
<1>9. 2 * (K * h) <= t
  <2>1. (2 * h) * K <= n * K
    BY <1>2, LargerProduct
  <2>2. (2 * h) * K = 2 * (K * h) /\ n * K = K * n
    BY <1>2
  <2>3. QED
    BY <2>1, <2>2
<1>10. 2 * (e * n) + 2 * n <= t /\ e * n \in Nat
  <2>1. 2 * e + 2 \in Nat /\ 2 * e + 2 <= K
    OBVIOUS
  <2>2. (2 * e + 2) * n <= K * n
    BY <2>1, LargerProduct
  <2>3. (2 * e + 2) * n = 2 * (e * n) + 2 * n /\ e * n \in Nat
    OBVIOUS
  <2>4. QED
    BY <2>2, <2>3
<1> HIDE DEF t
<1>11. off * b < t /\ (-off) * b < t
  <2>1. (-off) * b = -(off * b) /\ off * b \in Int
    BY <1>6
  <2>2. QED
    BY <1>6, <1>7, <1>8, <1>9, <1>10, <2>1
<1>12. off * q < t
  BY <1>6, <1>11, NearBySize
<1>13. (-off) * q < t
  <2>1. -off \in Int
    BY <1>6
  <2>2. QED
    BY <1>6, <1>11, <2>1, NearBySize
<1>14. -off * q = (-off) * q
  BY <1>6
<1>15. q # K
  OBVIOUS
<1>16. ColourIsNear(x, K, s, n, q)
  BY <1>12, <1>13, <1>14, <1>15, Zenon DEF ColourIsNear, off, t
<1>17. QED
  BY <1>16 DEF x, r

(* And so does it of a server with another map. *)
LEMMA BGR233OfMapIsNear ==
  ASSUME NEW K \in Nat \ {0}, NEW b \in Nat \ {0}, 2 * b <= K,
         (K + 1) % (b + 1) = 0,
         NEW d \in 0..K, NEW q \in Nat \ {0}, q <= b
  PROVE  ColourIsNear(OfBGR233(OfMap(d, b, K), b, K), K, d, K, q)
<1> DEFINE r == OfMap(d, b, K)
           x == OfBGR233(r, b, K)
           w == (K + 1) \div (b + 1)
<1>1. r \in 0..b
  BY MapSample
<1>2. PICK e \in 0..K : d * (1 + b) = r * (K + 1) + e
  BY MapSample
<1>3. w \in Nat /\ K + 1 = w * (b + 1)
  <2>1. b + 1 \in Nat \ {0} /\ K + 1 \in Nat
    OBVIOUS
  <2>2. QED
    BY <2>1, Multiple
<1>4. r \in Nat
  BY <1>1
<1> HIDE DEF r, w
<1>5. x \in Nat
  BY <1>4, OfBGR233Rest
<1>6. PICK g \in 0..(b - 1) : r * K = x * b + g
  BY <1>4, OfBGR233Rest
<1> HIDE DEF x
<1>7. w # 0 /\ K = b * w + w - 1 /\ b * w \in Nat
  <2>1. w * (b + 1) = b * w + w /\ b * w \in Nat
    BY <1>3
  <2>2. w # 0
    BY <1>3
  <2>3. QED
    BY <1>3, <2>1, <2>2
<1> DEFINE a == r * w
<1>8. a \in Nat
  BY <1>3, <1>4
<1>9. a <= d
  <2>1. ASSUME d + 1 <= a PROVE FALSE
    <3>1. (d + 1) * (b + 1) <= a * (b + 1)
      BY <1>8, <2>1, LargerProduct
    <3>2. (d + 1) * (b + 1) = d * (1 + b) + b + 1 /\ d * (1 + b) \in Nat
      OBVIOUS
    <3>3. a * (b + 1) = r * (K + 1)
      BY <1>3, <1>4
    <3>4. r * (K + 1) \in Nat
      BY <1>4
    <3>5. QED
      BY <1>2, <3>1, <3>2, <3>3, <3>4
  <2>2. QED
    BY <1>8, <2>1
<1>10. d < a + w
  <2>1. ASSUME a + w <= d PROVE FALSE
    <3>1. (a + w) * (b + 1) <= d * (b + 1)
      <4>1. a + w \in Nat /\ b + 1 \in Nat /\ d \in Nat
        BY <1>3, <1>8
      <4>2. QED
        BY <2>1, <4>1, LargerProduct
    <3>2. (a + w) * (b + 1) = a * (b + 1) + w * (b + 1)
      BY <1>3, <1>8
    <3>3. a * (b + 1) = r * (K + 1)
      BY <1>3, <1>4
    <3>4. r * (K + 1) \in Nat /\ d * (b + 1) = d * (1 + b)
          /\ d * (b + 1) \in Nat
      BY <1>4
    <3>5. QED
      BY <1>2, <1>3, <3>1, <3>2, <3>3, <3>4
  <2>2. QED
    BY <1>3, <1>8, <2>1
<1>11. r * K = a * b + r * (w - 1) /\ a * b \in Nat
  <2>1. r * (b * w + w - 1) = (r * w) * b + r * (w - 1)
    BY <1>3, <1>4
  <2>2. QED
    BY <1>7, <1>8, <2>1
<1>12. r * (w - 1) \in Nat /\ r * (w - 1) <= b * (w - 1)
  <2>1. w - 1 \in Nat
    BY <1>3, <1>7
  <2>2. r <= b
    BY <1>1
  <2>3. QED
    BY <1>4, <2>1, <2>2, LargerProduct
<1>13. a <= x
  <2>1. ASSUME x + 1 <= a PROVE FALSE
    <3>1. (x + 1) * b <= a * b
      BY <1>5, <1>8, <2>1, LargerProduct
    <3>2. (x + 1) * b = x * b + b /\ x * b \in Nat
      BY <1>5
    <3>3. r * K \in Nat
      BY <1>4
    <3> HIDE DEF a
    <3>4. QED
      BY <1>6, <1>11, <1>12, <3>1, <3>2, <3>3
  <2>2. QED
    BY <1>5, <1>8, <2>1
<1>14. x < a + w
  <2>1. ASSUME a + w <= x PROVE FALSE
    <3> HIDE DEF a
    <3>1. (a + w) * b <= x * b
      <4>1. a + w \in Nat /\ b \in Nat
        BY <1>3, <1>8
      <4>2. QED
        BY <1>5, <2>1, <4>1, LargerProduct
    <3>2. (a + w) * b = a * b + w * b /\ w * b = b * w /\ x * b \in Nat
      BY <1>3, <1>5, <1>8
    <3>3. b * (w - 1) = b * w - b
      BY <1>3
    <3>4. QED
      BY <1>6, <1>7, <1>11, <1>12, <3>1, <3>2, <3>3
  <2>2. QED
    BY <1>3, <1>5, <1>8, <2>1
<1> HIDE DEF a
<1> DEFINE h == (w - 1) * K
<1>15. w - 1 \in Nat
  BY <1>3, <1>7
<1>16. x * K <= d * K + h /\ d * K <= x * K + h /\ h \in Nat
  <2>1. x <= d + (w - 1) /\ d <= x + (w - 1) /\ d \in Nat
    BY <1>3, <1>5, <1>7, <1>8, <1>9, <1>10, <1>13, <1>14
  <2>2. d + (w - 1) \in Nat /\ x + (w - 1) \in Nat
    BY <1>5, <1>15, <2>1
  <2>3. x * K <= (d + (w - 1)) * K
    BY <1>5, <2>1, <2>2, LargerProduct
  <2>4. d * K <= (x + (w - 1)) * K
    BY <1>5, <2>1, <2>2, LargerProduct
  <2>5. (d + (w - 1)) * K = d * K + h /\ (x + (w - 1)) * K = x * K + h
    BY <1>5, <1>15
  <2>6. QED
    BY <1>15, <2>3, <2>4, <2>5
<1>17. h * b < K * K
  <2>1. b * (w - 1) + 1 <= K /\ b * (w - 1) \in Nat
    <3>1. b * (w - 1) = b * w - b
      BY <1>3
    <3>2. b * (w - 1) \in Nat
      BY <1>15
    <3>3. QED
      BY <1>3, <1>7, <3>1, <3>2
  <2>2. (b * (w - 1) + 1) * K <= K * K
    BY <2>1, LargerProduct
  <2>3. (b * (w - 1) + 1) * K = h * b + K
    BY <1>15
  <2>4. h * b \in Nat /\ K * K \in Nat
    BY <1>16
  <2>5. QED
    BY <2>2, <2>3, <2>4
<1>18. OffBy(x, K, d, K, h, b)
  BY <1>16, <1>17 DEF OffBy
<1> HIDE DEF h
<1>19. q # K
  OBVIOUS
<1>20. d \in Nat
  OBVIOUS
<1>21. ColourIsNear(x, K, d, K, q)
  BY <1>5, <1>18, <1>19, <1>20, NearByBound
<1>22. QED
  BY <1>21 DEF x, r

(* The same sample is near. *)
LEMMA SameIsNear ==
  ASSUME NEW n \in Nat \ {0}, NEW s \in Nat, NEW q \in Nat \ {0}
  PROVE  ColourIsNear(s, n, s, n, q)
<1> DEFINE a == s * n
           t == n * n
<1>1. a \in Nat /\ t \in Nat \ {0}
  OBVIOUS
<1> HIDE DEF a, t
<1> DEFINE off == a - a
<1>2. off = 0 /\ off * q < t /\ -off * q < t
  BY <1>1
<1>3. QED
  BY <1>2, Zenon DEF ColourIsNear, a, t, off

(* The coarsest of two or three. *)
LEMMA CoarsestIs ==
  ASSUME NEW S, S # {}, S \subseteq Nat,
         NEW a \in Nat, NEW b \in Nat, NEW c \in Nat, S \subseteq {a, b, c}
  PROVE  LET q == TranslateSets!Min(S) IN q \in S /\ \A y \in S : q <= y
<1>1. \E q \in S : \A y \in S : q <= y
  <2>1. PICK z \in S : TRUE
    OBVIOUS
  <2> DEFINE L(u) == u \in S /\ \A y \in S : u <= y
  <2>2. S # {} /\ \A y \in S : y = a \/ y = b \/ y = c
    OBVIOUS
  <2>3. CASE L(a)
    BY <2>3
  <2>4. CASE L(b)
    BY <2>4
  <2>5. CASE L(c)
    BY <2>5
  <2>6. CASE ~L(a) /\ ~L(b) /\ ~L(c)
    BY <2>1, <2>2, <2>6
  <2>7. QED
    BY <2>3, <2>4, <2>5, <2>6
<1>2. QED
  BY <1>1, Zenon DEF TranslateSets!Min

(* The samples of the client's format that a pixel is turned into. *)
ClientSamples(format, map, v, out) ==
  [c \in Components |->
     IF format.true
     THEN Rescaled(Sample(format.f, v, c), format.f.max[c], out.max[c])
     ELSE OfMap(map[v][c], out.max[c], ColourMapMax)]

(* A pixel that the application may have drawn. *)
IsDrawn(format, map, v) ==
  IF format.true
  THEN \E s \in SamplesOf(format.f) : v = PixelOf(format.f, s)
  ELSE v \in Indices /\ map \in ColourMaps

(* The pixel of the client's format in its order of bytes. *)
ClientPixelOf(format, map, v, out) ==
  ToOrder(format.f, out, PixelOf(out, ClientSamples(format, map, v, out)))

(* Formats are formats. *)
LEMMA FormatsAreFormats ==
  ASSUME NEW format \in Formats
  PROVE  /\ IsFormat(format.f) /\ format.true \in BOOLEAN
         /\ format = [true |-> format.true, f |-> format.f]
         /\ format.f \in TrueFormats
         /\ ~format.true => format.f = BGR233
<1>1. BGR233 \in TrueFormats /\ \A f \in TrueFormats : IsFormat(f)
  BY TranslateAssumption
<1>2. /\ format.true \in BOOLEAN /\ format.f \in TrueFormats
      /\ format = [true |-> format.true, f |-> format.f]
      /\ ~format.true => format.f = BGR233
  BY <1>1 DEF Formats
<1>3. QED
  BY <1>1, <1>2

(* What the samples of a drawn pixel are. *)
LEMMA DrawnSamples ==
  ASSUME NEW f, IsFormat(f), NEW s \in SamplesOf(f), NEW c \in Components
  PROVE  /\ Sample(f, PixelOf(f, s), c) = s[c]
         /\ s[c] \in 0..f.max[c]
         /\ PixelOf(f, s) \in 0..(PixelValues(f.bytes) - 1)
<1>1. s[c] \in Nat /\ s[c] <= f.max[c] /\ f.max[c] \in Nat
  BY FormatNumbers DEF SamplesOf
<1>2. s[c] \in 0..f.max[c]
  BY <1>1
<1>3. QED
  BY <1>2, SamplesAreKept

(* They are samples of that format. *)
LEMMA ClientSamplesFit ==
  ASSUME NEW format \in Formats, NEW map, NEW v, IsDrawn(format, map, v),
         NEW out, IsFormat(out)
  PROVE  ClientSamples(format, map, v, out) \in SamplesOf(out)
<1>1. IsFormat(format.f)
  BY FormatsAreFormats
<1>2. ASSUME NEW c \in Components
      PROVE  ClientSamples(format, map, v, out)[c] \in 0..out.max[c]
  <2>1. out.max[c] \in Nat \ {0} /\ format.f.max[c] \in Nat \ {0}
    BY <1>1, FormatNumbers
  <2>2. CASE format.true
    <3>1. PICK s \in SamplesOf(format.f) : v = PixelOf(format.f, s)
      BY <2>2 DEF IsDrawn
    <3>2. Sample(format.f, v, c) \in 0..format.f.max[c]
      BY <1>1, <3>1, DrawnSamples
    <3>3. Rescaled(Sample(format.f, v, c), format.f.max[c], out.max[c])
            \in 0..out.max[c]
      BY <2>1, <3>2, RescaledIsClose
    <3>4. QED
      BY <2>2, <3>3 DEF ClientSamples
  <2>3. CASE ~format.true
    <3>1. v \in Indices /\ map \in ColourMaps
      BY <2>3 DEF IsDrawn
    <3>2. map[v][c] \in 0..ColourMapMax /\ ColourMapMax \in Nat \ {0}
      BY <3>1, TranslateAssumption
    <3>3. OfMap(map[v][c], out.max[c], ColourMapMax) \in 0..out.max[c]
      BY <2>1, <3>2, MapSample
    <3>4. QED
      BY <2>3, <3>3 DEF ClientSamples
  <2>4. QED
    BY <2>2, <2>3
<1>3. \A c \in Components :
        /\ ClientSamples(format, map, v, out)[c] \in Nat
        /\ ClientSamples(format, map, v, out)[c] <= out.max[c]
  <2>1. ASSUME NEW c \in Components
        PROVE  /\ ClientSamples(format, map, v, out)[c] \in Nat
               /\ ClientSamples(format, map, v, out)[c] <= out.max[c]
    <3>1. ClientSamples(format, map, v, out)[c] \in 0..out.max[c]
      BY <1>2
    <3>2. out.max[c] \in Nat
      BY FormatNumbers
    <3>3. QED
      BY <3>1, <3>2
  <2>2. QED
    BY <2>1
<1>4. ClientSamples(format, map, v, out) \in [Components -> Nat]
  <2>1. ClientSamples(format, map, v, out)
          = [c \in Components |-> ClientSamples(format, map, v, out)[c]]
    BY DEF ClientSamples
  <2>2. QED
    BY <1>3, <2>1
<1>5. QED
  BY <1>3, <1>4 DEF SamplesOf

(* What each table makes of a pixel. *)
LEMMA TranslatedBy ==
  ASSUME NEW in, NEW v
  PROVE  /\ lookup.by = "none" => Translated(in, v) = v
         /\ lookup.by = "single" => Translated(in, v) = lookup.table[v]
         /\ lookup.by = "rgb" =>
              Translated(in, v)
                = Sum3([c \in Components |-> lookup.table[c][Sample(in.f, v, c)]])
BY DEF Translated

(* The table that is chosen. *)
LEMMA LookupIs ==
  ASSUME NEW in \in Formats, NEW map, NEW out \in Formats, NEW economic
  PROVE  LET t == LookupFor(in, map, out, economic)
         IN /\ in = out => t = [by |-> "none"]
            /\ in # out /\ ~in.true =>
                 t = [by |-> "single",
                      table |-> ColourMapSingleTable(map, in.f, out.f)]
            /\ in # out /\ in.true =>
                 \/ t = [by |-> "single",
                         table |-> TrueColourSingleTable(in.f, out.f)]
                 \/ t = [by |-> "rgb",
                         table |-> TrueColourRGBTables(in.f, out.f)]
                 \/ t = [by |-> "bytes",
                         table |-> TrueColourRGBTables(in.f, out.f)]
BY DEF LookupFor

(* A format's pixels in its own order. *)
LEMMA OwnOrder ==
  ASSUME NEW f, NEW v
  PROVE  ToOrder(f, f, v) = v
BY DEF ToOrder

(* A drawn pixel is translated to that of its samples, by whatever table.  *)
LEMMA TranslatedIsPixel ==
  ASSUME serverFormat \in Formats, clFormat \in Formats, clFormat.true,
         IsDrawn(serverFormat, colourMap, serverPixel),
         lookup = LookupFor(serverFormat, colourMap, clFormat, economicTranslate),
         lookup.by # "bytes"
  PROVE  Translated(serverFormat, serverPixel)
           = ClientPixelOf(serverFormat, colourMap, serverPixel, clFormat.f)
<1> DEFINE in == serverFormat
           out == clFormat
           v == serverPixel
           r == ClientSamples(in, colourMap, v, out.f)
<1>1. IsFormat(in.f) /\ IsFormat(out.f)
  BY FormatsAreFormats
<1>2. r \in SamplesOf(out.f)
  BY <1>1, ClientSamplesFit
<1>3. ClientPixelOf(in, colourMap, v, out.f)
        = ToOrder(in.f, out.f, PixelOf(out.f, r))
  BY DEF ClientPixelOf
<1>4. CASE ~in.true
  <2>1. in # out
    BY <1>4
  <2>2. lookup = [by |-> "single",
                  table |-> ColourMapSingleTable(colourMap, in.f, out.f)]
    BY <1>4, <2>1, LookupIs
  <2>3. Translated(in, v) = ColourMapSingleTable(colourMap, in.f, out.f)[v]
    <3>1. /\ lookup.by = "single"
          /\ lookup.table = ColourMapSingleTable(colourMap, in.f, out.f)
      BY <2>2
    <3>2. QED
      BY <3>1, TranslatedBy
  <2>4. v \in Indices
    BY <1>4 DEF IsDrawn
  <2>5. ColourMapSingleTable(colourMap, in.f, out.f)[v]
          = ToOrder(in.f, out.f,
                    PixelOf(out.f, [c \in Components |->
                                     (colourMap[v][c] * (1 + out.f.max[c]))
                                       \div (ColourMapMax + 1)]))
    BY <2>4, Zenon DEF ColourMapSingleTable
  <2>6. [c \in Components |-> (colourMap[v][c] * (1 + out.f.max[c]))
                                \div (ColourMapMax + 1)] = r
    BY <1>4 DEF ClientSamples, OfMap
  <2>7. QED
    BY <1>3, <2>3, <2>5, <2>6, Zenon
<1>5. CASE in.true
  <2>1. PICK s \in SamplesOf(in.f) : v = PixelOf(in.f, s)
    BY <1>5 DEF IsDrawn
  <2>2. \A c \in Components : /\ Sample(in.f, v, c) = s[c]
                              /\ s[c] \in 0..in.f.max[c]
                              /\ v \in 0..(PixelValues(in.f.bytes) - 1)
    BY <1>1, <2>1, DrawnSamples
  <2>3. r = [c \in Components |->
               Rescaled(Sample(in.f, v, c), in.f.max[c], out.f.max[c])]
    BY <1>5 DEF ClientSamples
  <2>4. CASE in = out
    <3>1. lookup = [by |-> "none"]
      BY <2>4, LookupIs
    <3>2. Translated(in, v) = v
      BY <3>1, TranslatedBy
    <3>3. r = s
      <4>1. ASSUME NEW c \in Components PROVE r[c] = s[c]
        <5>1. in.f.max[c] \in Nat \ {0}
          BY <1>1, FormatNumbers
        <5>2. r[c] = Rescaled(s[c], in.f.max[c], in.f.max[c])
          BY <2>2, <2>3, <2>4
        <5>3. s[c] \in 0..in.f.max[c]
          BY <2>2
        <5>4. Rescaled(s[c], in.f.max[c], in.f.max[c]) = s[c]
          BY <5>1, <5>3, RescaledIsClose
        <5>5. QED
          BY <5>2, <5>4
      <4>2. r = [c \in Components |-> r[c]] /\ s = [c \in Components |-> s[c]]
        BY <2>3 DEF SamplesOf
      <4> HIDE DEF r
      <4>3. QED
        BY <4>1, <4>2
    <3> HIDE DEF r
    <3>4. ToOrder(in.f, out.f, PixelOf(out.f, r)) = v
      BY <2>1, <2>4, <3>3, OwnOrder
    <3>5. QED
      BY <1>3, <3>2, <3>4 DEF r
  <2>5. CASE lookup = [by |-> "single",
                       table |-> TrueColourSingleTable(in.f, out.f)]
    <3>1. Translated(in, v) = TrueColourSingleTable(in.f, out.f)[v]
      <4>1. /\ lookup.by = "single"
            /\ lookup.table = TrueColourSingleTable(in.f, out.f)
        BY <2>5
      <4>2. QED
        BY <4>1, TranslatedBy
    <3>2. v \in 0..(PixelValues(in.f.bytes) - 1)
      BY <2>2 DEF Components
    <3>3. TrueColourSingleTable(in.f, out.f)[v]
            = ToOrder(in.f, out.f,
                PixelOf(out.f, [c \in Components |->
                                 Rescaled(Sample(in.f, v, c), in.f.max[c],
                                          out.f.max[c])]))
      BY <3>2, Zenon DEF TrueColourSingleTable
    <3>4. QED
      BY <1>3, <2>3, <3>1, <3>3, Zenon
  <2>6. CASE lookup = [by |-> "rgb",
                       table |-> TrueColourRGBTables(in.f, out.f)]
    <3> DEFINE t == TrueColourRGBTables(in.f, out.f)
    <3>1. Translated(in, v) = Sum3([c \in Components |-> t[c][Sample(in.f, v, c)]])
      <4>1. lookup.by = "rgb" /\ lookup.table = t
        BY <2>6
      <4> HIDE DEF t
      <4>2. QED
        BY <4>1, TranslatedBy
    <3>2. ASSUME NEW c \in Components
          PROVE  t[c][Sample(in.f, v, c)] = ToOrder(in.f, out.f, Field(out.f, r, c))
      <4>1. Sample(in.f, v, c) \in 0..in.f.max[c]
        BY <2>2
      <4>2. t[c] = [x \in 0..in.f.max[c] |->
                      ToOrder(in.f, out.f, Rescaled(x, in.f.max[c], out.f.max[c])
                                             * Lowest(out.f, c))]
        BY Zenon DEF TrueColourRGBTables
      <4>3. t[c][Sample(in.f, v, c)]
              = ToOrder(in.f, out.f,
                        Rescaled(Sample(in.f, v, c), in.f.max[c], out.f.max[c])
                          * Lowest(out.f, c))
        BY <4>1, <4>2, Zenon
      <4>4. r[c] = Rescaled(Sample(in.f, v, c), in.f.max[c], out.f.max[c])
        BY <2>3
      <4>5. QED
        BY <4>3, <4>4, Zenon DEF Field
    <3>3. [c \in Components |-> t[c][Sample(in.f, v, c)]]
            = [c \in Components |-> ToOrder(in.f, out.f, Field(out.f, r, c))]
      BY <3>2
    <3>4. Sum3([c \in Components |-> ToOrder(in.f, out.f, Field(out.f, r, c))])
            = ToOrder(in.f, out.f, PixelOf(out.f, r))
      BY <1>1, <1>2, FieldsAreSwapped
    <3>5. QED
      BY <1>3, <3>1, <3>3, <3>4, Zenon
  <2>7. QED
    <3>1. in # out =>
                 \/ lookup = [by |-> "single",
                              table |-> TrueColourSingleTable(in.f, out.f)]
                 \/ lookup = [by |-> "rgb",
                              table |-> TrueColourRGBTables(in.f, out.f)]
                 \/ lookup = [by |-> "bytes",
                              table |-> TrueColourRGBTables(in.f, out.f)]
      BY <1>5, LookupIs
    <3>2. lookup # [by |-> "bytes", table |-> TrueColourRGBTables(in.f, out.f)]
      OBVIOUS
    <3>3. QED
      BY <2>4, <2>5, <2>6, <3>1, <3>2
<1>6. QED
  BY <1>4, <1>5

(* The formats of the screen, of the client's table and of the client.     *)
FormatsFit ==
  /\ serverFormat \in Formats /\ clFormat \in Formats /\ siFormat \in Formats
  /\ ~serverFormat.true /\ clFormat.true => readyForSetColourMapEntries
  /\ ~clFormat.true => ~serverFormat.true /\ ~siFormat.true
  /\ readyForSetColourMapEntries => clState = "normal"

(* What was requested and sent. *)
SentIsReady ==
  /\ isRequested \in BOOLEAN /\ isModified \in BOOLEAN
  /\ isRequested => readyForSetColourMapEntries
  /\ clientPixel # -1 => readyForSetColourMapEntries

(* The client's colour map. *)
MapsFit ==
  /\ ~clFormat.true /\ readyForSetColourMapEntries => clientMap = colourMap
  /\ clFormat.true /\ ~siFormat.true /\ clState = "normal" =>
       clientMap = BGR233Map

TableFits ==
  lookup = LookupFor(serverFormat, colourMap, clFormat, economicTranslate)

(* A pixel that is not due is the one of the table. *)
PixelFits ==
  ~isModified /\ clientPixel # -1 =>
    clientPixel = Translated(serverFormat, serverPixel)

(* TranslateInv: the table is always the one that would be chosen now, the *)
(* client's map is that of its format, and what is not due is up to date.  *)
TranslateInv ==
  /\ FormatsFit /\ SentIsReady /\ MapsFit /\ TableFits /\ PixelFits
  /\ IsDrawn(serverFormat, colourMap, serverPixel)

(* What a client of true colour is sent, it reads back. *)
LEMMA ShownOfTrue ==
  ASSUME TranslateInv, FormatIsAgreed, clientPixel # -1, ~isModified,
         siFormat.true, NEW c \in Components
  PROVE  /\ IsFormat(siFormat.f) /\ clFormat = siFormat
         /\ ShownSample(c)
              = <<ClientSamples(serverFormat, colourMap, serverPixel,
                                siFormat.f)[c],
                  siFormat.f.max[c]>>
<1>1. /\ serverFormat \in Formats /\ clFormat \in Formats
      /\ siFormat \in Formats
      /\ clFormat.true /\ IsDrawn(serverFormat, colourMap, serverPixel)
  BY DEF TranslateInv, FormatsFit
<1>2. clFormat = siFormat /\ clFormat.f = siFormat.f /\ lookup.by # "bytes"
  <2>1. clFormat = [true |-> clFormat.true, f |-> siFormat.f]
        /\ lookup.by # "bytes"
    BY DEF FormatIsAgreed
  <2>2. /\ siFormat = [true |-> siFormat.true, f |-> siFormat.f]
        /\ siFormat.true \in BOOLEAN /\ clFormat.true \in BOOLEAN
    BY <1>1, FormatsAreFormats
  <2>3. clFormat.true = siFormat.true
    BY <1>1, <2>2
  <2>4. QED
    BY <2>1, <2>2, <2>3
<1>3. IsFormat(siFormat.f)
  BY <1>1, FormatsAreFormats
<1> DEFINE r == ClientSamples(serverFormat, colourMap, serverPixel, siFormat.f)
<1>4. r \in SamplesOf(siFormat.f)
  BY <1>1, <1>3, ClientSamplesFit
<1>5. clientPixel = ToOrder(serverFormat.f, siFormat.f, PixelOf(siFormat.f, r))
  <2>1. lookup = LookupFor(serverFormat, colourMap, clFormat, economicTranslate)
    BY DEF TranslateInv, TableFits
  <2>2. Translated(serverFormat, serverPixel)
          = ClientPixelOf(serverFormat, colourMap, serverPixel, clFormat.f)
    BY <1>1, <1>2, <2>1, TranslatedIsPixel
  <2>3. clientPixel = Translated(serverFormat, serverPixel)
    BY DEF TranslateInv, PixelFits
  <2>4. QED
    BY <1>2, <2>2, <2>3, Zenon DEF ClientPixelOf
<1>6. Sample(siFormat.f, ToOrder(serverFormat.f, siFormat.f, clientPixel), c)
        = r[c]
  <2> HIDE DEF r
  <2>1. Sample(siFormat.f,
               ToOrder(serverFormat.f, siFormat.f,
                       ToOrder(serverFormat.f, siFormat.f, PixelOf(siFormat.f, r))),
               c) = r[c]
    BY <1>3, <1>4, OrderIsRead
  <2>2. QED
    BY <1>5, <2>1, Zenon
<1>7. QED
  BY <1>2, <1>3, <1>6, Zenon DEF ShownSample

(* What a client with the map of BGR233 is sent, it looks up. *)
LEMMA ShownOfMap ==
  ASSUME TranslateInv, FormatIsAgreed, clientPixel # -1, ~isModified,
         ~siFormat.true, clFormat.true, NEW c \in Components
  PROVE  /\ clFormat.f = BGR233
         /\ ShownSample(c)
              = <<OfBGR233(ClientSamples(serverFormat, colourMap, serverPixel,
                                         BGR233)[c],
                           BGR233.max[c], ColourMapMax),
                  ColourMapMax>>
<1>1. /\ serverFormat \in Formats /\ clFormat \in Formats
      /\ siFormat \in Formats
      /\ IsDrawn(serverFormat, colourMap, serverPixel)
  BY DEF TranslateInv, FormatsFit
<1>2. siFormat.f = BGR233 /\ IsFormat(BGR233)
  BY <1>1, FormatsAreFormats
<1>3. clFormat.f = BGR233 /\ lookup.by # "bytes" /\ clState = "normal"
  <2>1. /\ clFormat = [true |-> clFormat.true, f |-> siFormat.f]
        /\ lookup.by # "bytes" /\ clState = "normal"
    BY DEF FormatIsAgreed
  <2>2. clFormat.f = siFormat.f
    BY <2>1
  <2>3. QED
    BY <1>2, <2>1, <2>2
<1>4. clientMap = BGR233Map
  BY <1>3 DEF TranslateInv, MapsFit
<1> DEFINE r == ClientSamples(serverFormat, colourMap, serverPixel, BGR233)
           p == PixelOf(BGR233, r)
<1>5. r \in SamplesOf(BGR233)
  BY <1>1, <1>2, ClientSamplesFit
<1>6. clientPixel = p
  <2>1. lookup = LookupFor(serverFormat, colourMap, clFormat, economicTranslate)
    BY DEF TranslateInv, TableFits
  <2>2. Translated(serverFormat, serverPixel)
          = ClientPixelOf(serverFormat, colourMap, serverPixel, clFormat.f)
    BY <1>1, <1>3, <2>1, TranslatedIsPixel
  <2>3. clientPixel = Translated(serverFormat, serverPixel)
    BY DEF TranslateInv, PixelFits
  <2>4. BGR233.bytes = 1
    BY TranslateAssumption
  <2>5. ToOrder(serverFormat.f, BGR233, p) = p
    BY <2>4, Zenon DEF ToOrder
  <2>6. QED
    BY <1>3, <2>2, <2>3, <2>5, Zenon DEF ClientPixelOf
<1> HIDE DEF r, p
<1>7. p \in Indices /\ Sample(BGR233, p, c) = r[c]
  <2>1. /\ p \in 0..(PixelValues(BGR233.bytes) - 1)
        /\ Sample(BGR233, p, c) = r[c]
    BY <1>2, <1>5, SamplesAreKept DEF p
  <2>2. PixelValues(BGR233.bytes) = ByteValues
    <3>1. BGR233.bytes = 1
      BY TranslateAssumption
    <3>2. QED
      BY <3>1 DEF PixelValues
  <2>3. QED
    BY <2>1, <2>2 DEF Indices
<1>8. clientMap[clientPixel][c] = (r[c] * ColourMapMax) \div BGR233.max[c]
  <2>1. BGR233Map[p][c]
          = (Sample(BGR233, p, c) * ColourMapMax) \div BGR233.max[c]
    BY <1>7, Zenon DEF BGR233Map
  <2>2. QED
    BY <1>4, <1>6, <1>7, <2>1, Zenon
<1>9. ShownSample(c) = <<clientMap[clientPixel][c], ColourMapMax>>
  BY DEF ShownSample
<1>10. QED
  BY <1>3, <1>8, <1>9, Zenon DEF OfBGR233, r

(* What was drawn. *)
LEMMA DrawnIs ==
  ASSUME TranslateInv, NEW c \in Components
  PROVE  /\ serverFormat.true =>
              \E s \in 0..serverFormat.f.max[c] :
                /\ DrawnSample(c) = <<s, serverFormat.f.max[c]>>
                /\ \A out : ClientSamples(serverFormat, colourMap, serverPixel,
                                          out)[c]
                              = Rescaled(s, serverFormat.f.max[c], out.max[c])
         /\ ~serverFormat.true =>
              \E d \in 0..ColourMapMax :
                /\ DrawnSample(c) = <<d, ColourMapMax>>
                /\ \A out : ClientSamples(serverFormat, colourMap, serverPixel,
                                          out)[c]
                              = OfMap(d, out.max[c], ColourMapMax)
<1>1. serverFormat \in Formats /\ IsDrawn(serverFormat, colourMap, serverPixel)
  BY DEF TranslateInv, FormatsFit
<1>2. IsFormat(serverFormat.f)
  BY <1>1, FormatsAreFormats
<1>3. CASE serverFormat.true
  <2>1. PICK s \in SamplesOf(serverFormat.f) :
          serverPixel = PixelOf(serverFormat.f, s)
    BY <1>1, <1>3 DEF IsDrawn
  <2>2. /\ Sample(serverFormat.f, serverPixel, c) = s[c]
        /\ s[c] \in 0..serverFormat.f.max[c]
    BY <1>2, <2>1, DrawnSamples
  <2>3. DrawnSample(c) = <<s[c], serverFormat.f.max[c]>>
    BY <1>3, <2>2 DEF DrawnSample
  <2>4. ASSUME NEW out
        PROVE  ClientSamples(serverFormat, colourMap, serverPixel, out)[c]
                 = Rescaled(s[c], serverFormat.f.max[c], out.max[c])
    BY <1>3, <2>2 DEF ClientSamples
  <2>5. QED
    BY <1>3, <2>2, <2>3, <2>4
<1>4. CASE ~serverFormat.true
  <2>1. serverPixel \in Indices /\ colourMap \in ColourMaps
    BY <1>1, <1>4 DEF IsDrawn
  <2>2. colourMap[serverPixel][c] \in 0..ColourMapMax
    BY <2>1, TranslateAssumption
  <2>3. DrawnSample(c) = <<colourMap[serverPixel][c], ColourMapMax>>
    BY <1>4 DEF DrawnSample
  <2>4. ASSUME NEW out
        PROVE  ClientSamples(serverFormat, colourMap, serverPixel, out)[c]
                 = OfMap(colourMap[serverPixel][c], out.max[c], ColourMapMax)
    BY <1>4 DEF ClientSamples
  <2>5. QED
    BY <1>4, <2>2, <2>3, <2>4
<1>5. QED
  BY <1>3, <1>4

ShowsNear(c) ==
  LET shown == ShownSample(c)  drawn == DrawnSample(c)
      coarsest == TranslateSets!Min(
                    {shown[2], drawn[2]}
                      \cup {f.f.max[c] : f \in {g \in {clFormat} : g.true}})
  IN ColourIsNear(shown[1], shown[2], drawn[1], drawn[2], coarsest)

(* The coarsest of the formats, if the client's table is of a format f.    *)
LEMMA CoarsestOf ==
  ASSUME clFormat.true, NEW c \in Components, NEW m \in Nat \ {0},
         NEW n \in Nat \ {0},
         clFormat.f.max[c] \in Nat \ {0}
  PROVE  LET q == TranslateSets!Min(
                    {m, n} \cup {f.f.max[c] : f \in {g \in {clFormat} : g.true}})
         IN q \in Nat \ {0} /\ q <= m /\ q <= n /\ q <= clFormat.f.max[c]
<1> DEFINE p == clFormat.f.max[c]
           S == {m, n} \cup {f.f.max[c] : f \in {g \in {clFormat} : g.true}}
           q == TranslateSets!Min(S)
<1>1. {f.f.max[c] : f \in {g \in {clFormat} : g.true}} = {p}
  OBVIOUS
<1> HIDE DEF p
<1>2. S = {m, n, p} /\ p \in Nat \ {0}
  BY <1>1 DEF p
<1> HIDE DEF S
<1>3. q \in S /\ \A y \in S : q <= y
  <2>1. S # {} /\ S \subseteq Nat /\ S \subseteq {m, n, p}
    BY <1>2
  <2>2. m \in Nat /\ n \in Nat /\ p \in Nat
    BY <1>2
  <2>3. QED
    BY <2>1, <2>2, CoarsestIs
<1> HIDE DEF q
<1>4. q \in Nat \ {0} /\ q <= m /\ q <= n /\ q <= p
  BY <1>2, <1>3
<1>5. QED
  BY <1>4 DEF q, S, p

(* Whatever the formats, the client shows what is near. *)
LEMMA SampleIsNear ==
  ASSUME TranslateInv, FormatIsAgreed, clientPixel # -1, ~isModified,
         NEW c \in Components
  PROVE  ShowsNear(c)
<1> DEFINE shown == ShownSample(c)
           drawn == DrawnSample(c)
           in == serverFormat
           S == {shown[2], drawn[2]}
                  \cup {f.f.max[c] : f \in {g \in {clFormat} : g.true}}
           q == TranslateSets!Min(S)
           K == ColourMapMax
           r(f) == ClientSamples(in, colourMap, serverPixel, f)[c]
<1>1. K \in Nat \ {0}
  BY TranslateAssumption
<1>2. /\ in \in Formats /\ clFormat \in Formats /\ siFormat \in Formats
      /\ ~clFormat.true => ~in.true /\ ~siFormat.true
  BY DEF TranslateInv, FormatsFit
<1>3. IsFormat(in.f) /\ IsFormat(clFormat.f)
  BY <1>2, FormatsAreFormats
<1>4. in.f.max[c] \in Nat \ {0} /\ clFormat.f.max[c] \in Nat \ {0}
  BY <1>3, FormatNumbers
<1>5. /\ in.true => \E s \in 0..in.f.max[c] :
                      /\ drawn = <<s, in.f.max[c]>>
                      /\ \A f : r(f) = Rescaled(s, in.f.max[c], f.max[c])
      /\ ~in.true => \E d \in 0..K :
                      /\ drawn = <<d, K>>
                      /\ \A f : r(f) = OfMap(d, f.max[c], K)
  BY DrawnIs
<1> HIDE DEF drawn, shown, r
<1>6. CASE siFormat.true
  <2> DEFINE m == siFormat.f.max[c]
  <2>1. clFormat = siFormat /\ shown = <<r(siFormat.f), m>> /\ clFormat.true
    BY <1>2, <1>6, ShownOfTrue DEF shown, r
  <2>2. m \in Nat \ {0} /\ clFormat.f.max[c] = m
    BY <1>4, <2>1
  <2> HIDE DEF m
  <2>3. CASE in.true
    <3> DEFINE n == in.f.max[c]
    <3>1. PICK s \in 0..n : drawn = <<s, n>>
                            /\ r(siFormat.f) = Rescaled(s, n, siFormat.f.max[c])
      BY <1>5, <2>3
    <3>2. n \in Nat \ {0}
      BY <1>4
    <3> HIDE DEF n
    <3>3. shown[1] = Rescaled(s, n, m) /\ shown[2] = m /\ drawn[1] = s
          /\ drawn[2] = n
      BY <2>1, <3>1 DEF m
    <3>4. q \in Nat \ {0} /\ q <= m /\ q <= n
      BY <1>4, <2>1, <2>2, <3>2, <3>3, CoarsestOf
    <3> HIDE DEF q
    <3>5. ColourIsNear(Rescaled(s, n, m), m, s, n, q)
      BY <2>2, <3>2, <3>4, RescaledIsNear
    <3>6. QED
      BY <3>3, <3>5, Zenon DEF ShowsNear, q, shown, drawn
  <2>4. CASE ~in.true
    <3>1. PICK d \in 0..K : drawn = <<d, K>>
                            /\ r(siFormat.f) = OfMap(d, siFormat.f.max[c], K)
      BY <1>5, <2>4
    <3>2. shown[1] = OfMap(d, m, K) /\ shown[2] = m /\ drawn[1] = d
          /\ drawn[2] = K
      BY <2>1, <3>1 DEF m
    <3>3. q \in Nat \ {0} /\ q <= m /\ q <= K
      BY <1>1, <1>4, <2>1, <2>2, <3>2, CoarsestOf
    <3> HIDE DEF q
    <3>4. ColourIsNear(OfMap(d, m, K), m, d, K, q)
      BY <1>1, <2>2, <3>3, MapIsNear
    <3>5. QED
      BY <3>2, <3>4, Zenon DEF ShowsNear, q, shown, drawn
  <2>5. QED
    BY <2>3, <2>4
<1>7. CASE ~siFormat.true /\ clFormat.true
  <2> DEFINE b == BGR233.max[c]
  <2>1. clFormat.f = BGR233 /\ shown = <<OfBGR233(r(BGR233), b, K), K>>
    BY <1>7, ShownOfMap DEF shown, r
  <2>2. b \in Nat \ {0} /\ clFormat.f.max[c] = b
    BY <1>4, <2>1
  <2>3. (K + 1) % (b + 1) = 0 /\ 2 * b <= K
    BY TranslateAssumption
  <2> HIDE DEF b
  <2>4. CASE in.true
    <3> DEFINE n == in.f.max[c]
    <3>1. PICK s \in 0..n :
            drawn = <<s, n>> /\ r(BGR233) = Rescaled(s, n, BGR233.max[c])
      BY <1>5, <2>4
    <3>2. n \in Nat \ {0}
      BY <1>4
    <3> HIDE DEF n
    <3>3. /\ shown[1] = OfBGR233(Rescaled(s, n, b), b, K) /\ shown[2] = K
          /\ drawn[1] = s /\ drawn[2] = n
      BY <2>1, <3>1 DEF b
    <3>4. q \in Nat \ {0} /\ q <= b
      BY <1>1, <1>4, <1>7, <2>2, <3>2, <3>3, CoarsestOf
    <3> HIDE DEF q
    <3>5. ColourIsNear(OfBGR233(Rescaled(s, n, b), b, K), K, s, n, q)
      BY <1>1, <2>2, <2>3, <3>2, <3>4, BGR233IsNear
    <3>6. QED
      BY <3>3, <3>5, Zenon DEF ShowsNear, q, shown, drawn
  <2>5. CASE ~in.true
    <3>1. PICK d \in 0..K :
            drawn = <<d, K>> /\ r(BGR233) = OfMap(d, BGR233.max[c], K)
      BY <1>5, <2>5
    <3>2. /\ shown[1] = OfBGR233(OfMap(d, b, K), b, K) /\ shown[2] = K
          /\ drawn[1] = d /\ drawn[2] = K
      BY <2>1, <3>1 DEF b
    <3>3. q \in Nat \ {0} /\ q <= b
      BY <1>1, <1>4, <1>7, <2>2, <3>2, CoarsestOf
    <3> HIDE DEF q
    <3>4. ColourIsNear(OfBGR233(OfMap(d, b, K), b, K), K, d, K, q)
      BY <1>1, <2>2, <2>3, <3>3, BGR233OfMapIsNear
    <3>5. QED
      BY <3>2, <3>4, Zenon DEF ShowsNear, q, shown, drawn
  <2>6. QED
    BY <2>4, <2>5
<1>8. CASE ~clFormat.true
  <2>1. ~in.true /\ ~siFormat.true
    BY <1>2, <1>8
  <2>2. PICK d \in 0..K : drawn = <<d, K>>
    BY <1>5, <2>1
  <2>3. in = clFormat
    BY <1>2, <1>8, <2>1, FormatsAreFormats
  <2>4. clientPixel = serverPixel
    <3>1. lookup = [by |-> "none"]
      BY <1>2, <2>3, LookupIs DEF TranslateInv, TableFits
    <3>2. Translated(in, serverPixel) = serverPixel
      BY <3>1, TranslatedBy
    <3>3. QED
      BY <3>2 DEF TranslateInv, PixelFits
  <2>5. clientMap = colourMap
    BY <1>8 DEF TranslateInv, MapsFit, SentIsReady
  <2>6. shown = drawn
    BY <2>1, <2>4, <2>5 DEF ShownSample, DrawnSample, shown, drawn
  <2>7. shown[1] = d /\ shown[2] = K /\ drawn[1] = d /\ drawn[2] = K
    BY <2>2, <2>6
  <2>8. q = K
    <3>1. S = {K}
      BY <1>8, <2>7
    <3> HIDE DEF S
    <3>2. S # {} /\ S \subseteq Nat /\ S \subseteq {K, K, K} /\ K \in Nat
      BY <1>1, <3>1
    <3>3. q \in S
      BY <3>2, CoarsestIs
    <3>4. QED
      BY <3>1, <3>3
  <2> HIDE DEF q
  <2>9. ColourIsNear(d, K, d, K, q)
    <3>1. d \in Nat
      OBVIOUS
    <3>2. QED
      BY <1>1, <2>8, <3>1, SameIsNear
  <2>10. QED
    BY <2>7, <2>9, Zenon DEF ShowsNear, q, shown, drawn
<1>9. QED
  BY <1>6, <1>7, <1>8

(* So the property is one of the invariant. *)
LEMMA ColoursAreShown ==
  TranslateInv => ClientShowsColours
<1> SUFFICES ASSUME TranslateInv, FormatIsAgreed, clientPixel # -1, ~isModified,
                    NEW c \in Components
             PROVE  LET shown == ShownSample(c)  drawn == DrawnSample(c)
                        off == shown[1] * drawn[2] - drawn[1] * shown[2]
                        coarsest == TranslateSets!Min(
                          {shown[2], drawn[2]}
                            \cup {f.f.max[c] : f \in {g \in {clFormat} : g.true}})
                    IN /\ off * coarsest < shown[2] * drawn[2]
                       /\ -off * coarsest < shown[2] * drawn[2]
                       /\ coarsest = shown[2] /\ coarsest = drawn[2] => off = 0
  BY DEF ClientShowsColours
<1>1. ShowsNear(c)
  BY SampleIsNear
<1>2. QED
  BY <1>1, Zenon DEF ShowsNear, ColourIsNear

(* Black is a pixel of every format. *)
LEMMA BlackIsDrawn ==
  ASSUME NEW format \in Formats, NEW map, format.true \/ map \in ColourMaps
  PROVE  IsDrawn(format, map, 0)
<1>1. IsFormat(format.f)
  BY FormatsAreFormats
<1>2. CASE format.true
  <2> DEFINE s == [c \in Components |-> 0]
  <2>1. s \in SamplesOf(format.f)
    <3>1. \A c \in Components : format.f.max[c] \in Nat
      BY <1>1, FormatNumbers
    <3>2. QED
      BY <3>1 DEF SamplesOf
  <2>2. \A c \in Components : s[c] * Lowest(format.f, c) = 0
    <3>1. ASSUME NEW c \in Components PROVE s[c] * Lowest(format.f, c) = 0
      <4>1. Lowest(format.f, c) \in Nat /\ s[c] = 0
        BY <1>1, FormatNumbers
      <4>2. QED
        BY <4>1
    <3>2. QED
      BY <3>1
  <2> HIDE DEF s
  <2>3. PixelOf(format.f, s) = 0
    BY <2>2 DEF PixelOf, Sum3, Components
  <2>4. QED
    BY <1>2, <2>1, <2>3 DEF IsDrawn
<1>3. CASE ~format.true
  <2>1. 0 \in Indices
    BY TranslateAssumption DEF Indices
  <2>2. QED
    BY <1>3, <2>1 DEF IsDrawn
<1>4. QED
  BY <1>2, <1>3

(* The pixels that the application draws are pixels of the format. *)
LEMMA PixelsAreDrawn ==
  ASSUME NEW format \in Formats, NEW map, format.true \/ map \in ColourMaps,
         NEW v \in Pixels(format)
  PROVE  IsDrawn(format, map, v)
<1>1. IsFormat(format.f)
  BY FormatsAreFormats
<1>2. CASE format.true
  <2>1. PICK s \in [Components -> PixelSamples] :
          v = PixelOf(format.f, [c \in Components |->
                                  IF s[c] <= format.f.max[c] THEN s[c]
                                  ELSE format.f.max[c]])
    BY <1>2 DEF Pixels
  <2> DEFINE e == [c \in Components |-> IF s[c] <= format.f.max[c] THEN s[c]
                                        ELSE format.f.max[c]]
  <2>2. \A c \in Components : format.f.max[c] \in Nat /\ s[c] \in Nat
    BY <1>1, FormatNumbers, TranslateAssumption
  <2>3. e \in SamplesOf(format.f)
    BY <2>2 DEF SamplesOf
  <2>4. QED
    BY <1>2, <2>1, <2>3 DEF IsDrawn
<1>3. CASE ~format.true
  BY <1>3 DEF IsDrawn, Pixels
<1>4. QED
  BY <1>2, <1>3

(* A client's table is of one of the formats. *)
LEMMA TableFormat ==
  ASSUME NEW format \in Formats
  PROVE  [true |-> TRUE, f |-> IF format.true THEN format.f ELSE BGR233]
           \in Formats
<1>1. format.f \in TrueFormats /\ BGR233 \in TrueFormats
  BY FormatsAreFormats, TranslateAssumption
<1>2. QED
  BY <1>1 DEF Formats

(* The first state. *)
LEMMA TranslateInitInv ==
  TranslateInit => TranslateInv
<1> SUFFICES ASSUME TranslateInit PROVE TranslateInv
  OBVIOUS
<1>1. PICK f \in Formats : /\ serverFormat = f /\ clFormat = f /\ siFormat = f
                           /\ colourMap \in IF f.true THEN {NoMap} ELSE ColourMaps
                           /\ serverPixel = 0
  BY DEF TranslateInit
<1>2. /\ clState = "handshake" /\ readyForSetColourMapEntries = FALSE
      /\ lookup = [by |-> "none"]
      /\ isModified = TRUE /\ isRequested = FALSE /\ clientPixel = -1
  BY DEF TranslateInit
<1>3. FormatsFit
  BY <1>1, <1>2 DEF FormatsFit
<1>4. SentIsReady
  BY <1>2 DEF SentIsReady
<1>5. MapsFit
  BY <1>2 DEF MapsFit
<1>6. TableFits
  BY <1>1, <1>2, LookupIs DEF TableFits
<1>7. PixelFits
  BY <1>2 DEF PixelFits
<1>8. IsDrawn(serverFormat, colourMap, serverPixel)
  <2>1. f.true \/ colourMap \in ColourMaps
    BY <1>1
  <2>2. QED
    BY <1>1, <2>1, BlackIsDrawn
<1>9. QED
  BY <1>3, <1>4, <1>5, <1>6, <1>7, <1>8 DEF TranslateInv

(* What is sent is what is not due, until something else changes. *)
LEMMA PixelStays ==
  ASSUME PixelFits,
         UNCHANGED <<serverFormat, serverPixel, lookup, clientPixel>>,
         isModified => isModified'
  PROVE  PixelFits'
<1>1. Translated(serverFormat, serverPixel)'
        = Translated(serverFormat, serverPixel)
  BY DEF Translated
<1>2. QED
  BY <1>1 DEF PixelFits

(* Every step keeps it. *)
LEMMA TranslateNextInv ==
  TranslateInv /\ [TranslateNext]_translateVars => TranslateInv'
<1> SUFFICES ASSUME TranslateInv, [TranslateNext]_translateVars
             PROVE  TranslateInv'
  OBVIOUS
<1>1. /\ serverFormat \in Formats /\ clFormat \in Formats
      /\ siFormat \in Formats
      /\ (~serverFormat.true /\ clFormat.true => readyForSetColourMapEntries)
      /\ (~clFormat.true => ~serverFormat.true /\ ~siFormat.true)
      /\ (readyForSetColourMapEntries => clState = "normal")
      /\ isRequested \in BOOLEAN /\ isModified \in BOOLEAN
      /\ (isRequested => readyForSetColourMapEntries)
      /\ (clientPixel # -1 => readyForSetColourMapEntries)
      /\ (~clFormat.true /\ readyForSetColourMapEntries => clientMap = colourMap)
      /\ (clFormat.true /\ ~siFormat.true /\ clState = "normal" =>
            clientMap = BGR233Map)
      /\ TableFits /\ PixelFits /\ IsDrawn(serverFormat, colourMap, serverPixel)
  BY DEF TranslateInv, FormatsFit, SentIsReady, MapsFit
<1>2. BGR233Map' = BGR233Map
  BY DEF BGR233Map, Indices, Components, Sample, Lowest
<1>3. CASE UNCHANGED translateVars
  <2> USE <1>3 DEF translateVars
  <2>1. FormatsFit'
    BY <1>1 DEF FormatsFit
  <2>2. SentIsReady'
    BY <1>1 DEF SentIsReady
  <2>3. MapsFit'
    BY <1>1, <1>2 DEF MapsFit
  <2>4. TableFits'
    BY <1>1 DEF TableFits
  <2>5. PixelFits'
    BY <1>1, PixelStays
  <2>6. IsDrawn(serverFormat, colourMap, serverPixel)'
    BY <1>1
  <2>7. QED
    BY <2>1, <2>2, <2>3, <2>4, <2>5, <2>6 DEF TranslateInv
<1>4. CASE ServerInitSent
  <2> USE <1>4 DEF ServerInitSent
  <2>1. FormatsFit'
    BY <1>1 DEF FormatsFit
  <2>2. SentIsReady'
    BY <1>1 DEF SentIsReady
  <2>3. MapsFit'
    BY <1>1, <1>2 DEF MapsFit
  <2>4. TableFits'
    BY <1>1 DEF TableFits
  <2>5. PixelFits'
    BY <1>1, PixelStays
  <2>6. IsDrawn(serverFormat, colourMap, serverPixel)'
    BY <1>1
  <2>7. QED
    BY <2>1, <2>2, <2>3, <2>4, <2>5, <2>6 DEF TranslateInv
<1>5. ASSUME NEW format \in Formats, SetPixelFormat(format)
      PROVE  TranslateInv'
  <2> USE <1>5 DEF SetPixelFormat
  <2> DEFINE g == [true |-> TRUE, f |-> IF format.true THEN format.f ELSE BGR233]
  <2>1. /\ g \in Formats /\ g.true
        /\ clFormat' = g
        /\ lookup' = LookupFor(serverFormat, colourMap, g, economicTranslate)
        /\ clientMap' = IF format.true THEN clientMap ELSE BGR233Map
    BY TableFormat DEF SetTranslateFunction
  <2> HIDE DEF g
  <2>2. FormatsFit'
    BY <1>1, <2>1 DEF FormatsFit
  <2>3. SentIsReady'
    BY <1>1 DEF SentIsReady
  <2>4. MapsFit'
    BY <1>1, <1>2, <2>1 DEF MapsFit
  <2>5. TableFits'
    BY <2>1 DEF TableFits
  <2>6. PixelFits'
    BY <1>1 DEF PixelFits
  <2>7. IsDrawn(serverFormat, colourMap, serverPixel)'
    BY <1>1
  <2>8. QED
    BY <2>2, <2>3, <2>4, <2>5, <2>6, <2>7 DEF TranslateInv
<1>6. CASE TranslateRequest
  <2> USE <1>6 DEF TranslateRequest
  <2>1. FormatsFit'
    BY <1>1 DEF FormatsFit
  <2>2. SentIsReady'
    BY <1>1 DEF SentIsReady
  <2>3. MapsFit'
    BY <1>1, <1>2 DEF MapsFit
  <2>4. TableFits'
    BY <1>1 DEF TableFits
  <2>5. PixelFits'
    BY <1>1, PixelStays
  <2>6. IsDrawn(serverFormat, colourMap, serverPixel)'
    BY <1>1
  <2>7. QED
    BY <2>1, <2>2, <2>3, <2>4, <2>5, <2>6 DEF TranslateInv
<1>7. CASE SendTranslated
  <2> USE <1>7 DEF SendTranslated
  <2>1. FormatsFit'
    BY <1>1 DEF FormatsFit
  <2>2. SentIsReady'
    BY <1>1 DEF SentIsReady
  <2>3. MapsFit'
    BY <1>1, <1>2 DEF MapsFit
  <2>4. TableFits'
    BY <1>1 DEF TableFits
  <2>5. PixelFits'
    <3>1. Translated(serverFormat, serverPixel)'
            = Translated(serverFormat, serverPixel)
      BY DEF Translated
    <3>2. QED
      BY <3>1 DEF PixelFits
  <2>6. IsDrawn(serverFormat, colourMap, serverPixel)'
    BY <1>1
  <2>7. QED
    BY <2>1, <2>2, <2>3, <2>4, <2>5, <2>6 DEF TranslateInv
<1>8. ASSUME NEW v \in Pixels(serverFormat), DrawPixel(v)
      PROVE  TranslateInv'
  <2> USE <1>8 DEF DrawPixel
  <2>1. FormatsFit'
    BY <1>1 DEF FormatsFit
  <2>2. SentIsReady'
    BY <1>1 DEF SentIsReady
  <2>3. MapsFit'
    BY <1>1, <1>2 DEF MapsFit
  <2>4. TableFits'
    BY <1>1 DEF TableFits
  <2>5. PixelFits'
    BY DEF PixelFits
  <2>6. IsDrawn(serverFormat, colourMap, serverPixel)'
    <3>1. serverFormat.true \/ colourMap \in ColourMaps
      BY <1>1 DEF IsDrawn
    <3>2. IsDrawn(serverFormat, colourMap, v)
      BY <1>1, <3>1, PixelsAreDrawn
    <3>3. QED
      BY <3>2
  <2>7. QED
    BY <2>1, <2>2, <2>3, <2>4, <2>5, <2>6 DEF TranslateInv
<1>9. ASSUME NEW map \in ColourMaps, InstallColours(map)
      PROVE  TranslateInv'
  <2> USE <1>9 DEF InstallColours
  <2>1. FormatsFit'
    BY <1>1 DEF FormatsFit
  <2>2. SentIsReady'
    BY <1>1 DEF SentIsReady
  <2>3. MapsFit'
    BY <1>1, <1>2 DEF MapsFit
  <2>4. TableFits'
    <3>1. lookup' = LookupOfMap(map)
      OBVIOUS
    <3>2. CASE readyForSetColourMapEntries /\ clFormat.true
      <4>1. lookup' = [by |-> "single",
                       table |-> ColourMapSingleTable(map, serverFormat.f,
                                                      clFormat.f)]
        BY <3>1, <3>2, Zenon DEF LookupOfMap
      <4>2. serverFormat # clFormat
        BY <3>2
      <4>3. LookupFor(serverFormat, map, clFormat, economicTranslate) = lookup'
        BY <1>1, <4>1, <4>2, LookupIs
      <4>4. QED
        BY <4>3 DEF TableFits
    <3>3. CASE ~(readyForSetColourMapEntries /\ clFormat.true)
      <4>1. lookup' = lookup
        BY <3>1, <3>3, Zenon DEF LookupOfMap
      <4>2. ~clFormat.true
        BY <1>1, <3>3
      <4>3. serverFormat = clFormat
        BY <1>1, <4>2, FormatsAreFormats
      <4>4. lookup = [by |-> "none"]
        BY <1>1, <4>3, LookupIs DEF TableFits
      <4>5. LookupFor(serverFormat, map, clFormat, economicTranslate)
              = [by |-> "none"]
        BY <1>1, <4>3, LookupIs
      <4>6. QED
        BY <4>1, <4>4, <4>5 DEF TableFits
    <3>4. QED
      BY <3>2, <3>3
  <2>5. PixelFits'
    <3>1. CASE readyForSetColourMapEntries /\ clFormat.true
      BY <3>1 DEF PixelFits
    <3>2. CASE ~(readyForSetColourMapEntries /\ clFormat.true)
      <4>1. lookup' = lookup
        BY <3>2, Zenon DEF LookupOfMap
      <4>2. isModified => isModified'
        OBVIOUS
      <4>3. QED
        BY <1>1, <4>1, <4>2, PixelStays
    <3>3. QED
      BY <3>1, <3>2
  <2>6. IsDrawn(serverFormat, colourMap, serverPixel)'
    <3>1. IsDrawn(serverFormat, map, serverPixel)
      BY <1>1 DEF IsDrawn
    <3>2. QED
      BY <3>1
  <2>7. QED
    BY <2>1, <2>2, <2>3, <2>4, <2>5, <2>6 DEF TranslateInv
<1>10. ASSUME NEW f \in ServerFormats, ReplaceFramebuffer(f)
       PROVE  TranslateInv'
  <2> USE <1>10 DEF ReplaceFramebuffer
  <2> DEFINE g == [true |-> TRUE,
                   f |-> IF clFormat.true THEN clFormat.f ELSE BGR233]
  <2>1. /\ g \in Formats /\ g.true
        /\ clFormat' = g
        /\ lookup' = LookupFor(serverFormat', NoMap, g, economicTranslate)
        /\ clientMap' = IF clFormat.true THEN clientMap ELSE BGR233Map
    BY <1>1, TableFormat DEF SetTranslateFunction
  <2>2. serverFormat' \in Formats /\ serverFormat'.true
    BY TranslateAssumption DEF Formats
  <2> HIDE DEF g
  <2>3. FormatsFit'
    <3>1. readyForSetColourMapEntries' => clState' = "normal"
      BY <1>1
    <3>2. siFormat' \in Formats /\ clFormat' \in Formats /\ clFormat'.true
      BY <1>1, <2>1
    <3>3. QED
      BY <2>2, <3>1, <3>2 DEF FormatsFit
  <2>4. SentIsReady'
    BY <1>1 DEF SentIsReady
  <2>5. MapsFit'
    BY <1>1, <1>2, <2>1 DEF MapsFit
  <2>6. TableFits'
    BY <2>1 DEF TableFits
  <2>7. PixelFits'
    BY DEF PixelFits
  <2>8. IsDrawn(serverFormat, colourMap, serverPixel)'
    <3>1. IsDrawn(serverFormat', NoMap, 0)
      BY <2>2, BlackIsDrawn
    <3>2. QED
      BY <3>1
  <2>9. QED
    BY <2>3, <2>4, <2>5, <2>6, <2>7, <2>8 DEF TranslateInv
<1>11. QED
  BY <1>3, <1>4, <1>5, <1>6, <1>7, <1>8, <1>9, <1>10 DEF TranslateNext

(* The table of a client is always the one that would be chosen for the    *)
(* formats and the colour map of now, the colour map that a client has is  *)
(* the one that it looks its pixels up in, and what is not due is what the *)
(* table makes of the server's pixel.                                      *)
THEOREM TranslateInvariance ==
  TranslateSpec => []TranslateInv
<1>1. QED
  BY TranslateInitInv, TranslateNextInv, PTL DEF TranslateSpec

(* For all formats and colour maps: a pixel that is not due shows a colour *)
(* less than a step of the coarser format away from the one drawn.         *)
THEOREM ColoursAreAlwaysShown ==
  TranslateSpec => []ClientShowsColours
<1>1. QED
  BY TranslateInvariance, ColoursAreShown, PTL
=============================================================================
