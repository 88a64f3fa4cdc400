--------------------------- MODULE Numbers_proofs ----------------------------
(***************************************************************************)
(* Facts about numbers that the proofs of several modules need.            *)
(***************************************************************************)
EXTENDS Integers, NaturalsInduction, FiniteSetTheorems, TLAPS

(* A set that holds 0 and what follows each of its numbers. *)
LEMMA SetInduction ==
  ASSUME NEW S, 0 \in S, \A n \in Nat : n \in S => n + 1 \in S
  PROVE  Nat \subseteq S
<1> SUFFICES ASSUME NEW k \in Nat, k \notin S PROVE FALSE
  OBVIOUS
<1> DEFINE less == {p \in Nat \X Nat : p[1] < p[2]}
           rest == Nat \ S
<1>1. IsWellFoundedOn(less, Nat)
  BY NatLessThanWellFounded DEF OpToRel
<1>2. rest \subseteq Nat /\ rest # {}
  OBVIOUS
<1> HIDE DEF less, rest
<1>3. PICK m \in rest : \A y \in rest : <<y, m>> \notin less
  BY <1>1, <1>2, WFMin
<1>4. m \in Nat /\ m \notin S /\ m # 0
  BY <1>3 DEF rest
<1>5. m - 1 \in Nat /\ m - 1 < m
  BY <1>4
<1>6. m - 1 \in S
  <2>1. <<m - 1, m>> \in less
    BY <1>4, <1>5 DEF less
  <2>2. m - 1 \notin rest
    BY <1>3, <2>1
  <2>3. QED
    BY <1>5, <2>2 DEF rest
<1>7. (m - 1) + 1 \in S
  BY <1>5, <1>6
<1>8. QED
  BY <1>4, <1>7

(* A set of numbers has a least. *)
LEMMA SomeIsLeast ==
  ASSUME NEW S \in SUBSET Nat, S # {}
  PROVE  \E m \in S : \A y \in S : m =< y
<1> DEFINE less == {p \in Nat \X Nat : p[1] < p[2]}
<1>1. IsWellFoundedOn(less, Nat)
  BY NatLessThanWellFounded DEF OpToRel
<1> HIDE DEF less
<1>2. PICK m \in S : \A y \in S : <<y, m>> \notin less
  BY <1>1, WFMin
<1>3. ASSUME NEW y \in S PROVE m =< y
  <2>1. <<y, m>> \in Nat \X Nat /\ <<y, m>>[1] = y /\ <<y, m>>[2] = m
    OBVIOUS
  <2>2. ~(y < m)
    BY <1>2, <2>1 DEF less
  <2>3. y \in Nat /\ m \in Nat
    OBVIOUS
  <2>4. QED
    BY <2>2, <2>3
<1>4. QED
  BY <1>3

(* A set of numbers below a bound has a greatest. *)
LEMMA SomeIsGreatest ==
  ASSUME NEW S \in SUBSET Nat, S # {}, NEW b \in Nat, \A y \in S : y <= b
  PROVE  \E m \in S : \A y \in S : m >= y
<1> SUFFICES ASSUME \A m \in S : \E y \in S : ~(m >= y) PROVE FALSE
  OBVIOUS
<1> DEFINE U == {n \in Nat : \E y \in S : y >= n}
<1>1. 0 \in U
  <2>1. PICK y \in S : TRUE
    OBVIOUS
  <2>2. y \in Nat /\ y >= 0
    OBVIOUS
  <2>3. QED
    BY <2>2
<1>2. ASSUME NEW n \in Nat, n \in U PROVE n + 1 \in U
  <2>1. PICK y \in S : y >= n
    BY <1>2
  <2>2. PICK z \in S : ~(y >= z)
    OBVIOUS
  <2>3. z \in Nat /\ y \in Nat /\ z >= n + 1
    BY <2>1, <2>2
  <2>4. QED
    BY <2>3
<1>3. b + 1 \in U
  <2> HIDE DEF U
  <2>1. QED
    BY <1>1, <1>2, SetInduction
<1>4. QED
  BY <1>3

(* The quotient and the remainder of a division. *)
LEMMA Division ==
  ASSUME NEW n \in Nat, NEW d \in Nat \ {0}
  PROVE  /\ n \div d \in Nat /\ n % d \in 0..(d - 1)
         /\ n = (n \div d) * d + (n % d)
OBVIOUS

(* Products of larger numbers are larger. *)
LEMMA LargerProduct ==
  ASSUME NEW a \in Nat, NEW b \in Nat, NEW d \in Nat, a <= b
  PROVE  a * d <= b * d /\ a * d \in Nat /\ b * d \in Nat
<1>1. PICK e \in Nat : b = a + e
  <2>1. b - a \in Nat /\ b = a + (b - a)
    OBVIOUS
  <2>2. QED
    BY <2>1
<1>2. b * d = a * d + e * d /\ e * d \in Nat /\ a * d \in Nat
  BY <1>1
<1>3. QED
  BY <1>2

(* A quotient is the greatest number that goes into the dividend. *)
LEMMA QuotientIsLess ==
  ASSUME NEW n \in Nat, NEW d \in Nat \ {0}, NEW q \in Nat, n < q * d
  PROVE  n \div d < q
<1> DEFINE k == n \div d
<1>1. k \in Nat /\ n % d \in Nat /\ n = k * d + (n % d)
  BY Division
<1> HIDE DEF k
<1>2. k * d <= n /\ k * d \in Nat /\ q * d \in Nat
  BY <1>1
<1>3. ASSUME q <= k PROVE FALSE
  <2>1. q * d <= k * d
    BY <1>1, <1>3, LargerProduct
  <2>2. QED
    BY <1>2, <2>1
<1>4. QED
  BY <1>1, <1>3 DEF k

(* A quotient grows with the dividend. *)
LEMMA QuotientGrows ==
  ASSUME NEW m \in Nat, NEW n \in Nat, m <= n, NEW d \in Nat \ {0}
  PROVE  m \div d <= n \div d
<1> DEFINE k == n \div d
<1>1. k \in Nat /\ n % d \in 0..(d - 1) /\ n = k * d + (n % d)
  BY Division
<1> HIDE DEF k
<1>2. (k + 1) * d = k * d + d /\ k * d \in Nat
  BY <1>1
<1>3. m < (k + 1) * d /\ k + 1 \in Nat
  BY <1>1, <1>2
<1>4. m \div d < k + 1
  BY <1>3, QuotientIsLess
<1>5. m \div d \in Nat
  BY Division
<1>6. QED
  BY <1>1, <1>4, <1>5 DEF k

(* There is one such quotient. *)
LEMMA DivisionIsUnique ==
  ASSUME NEW d \in Nat \ {0}, NEW q \in Nat, NEW r \in 0..(d - 1)
  PROVE  /\ q * d + r \in Nat
         /\ (q * d + r) \div d = q /\ (q * d + r) % d = r
<1> DEFINE n == q * d + r
           k == n \div d
           m == n % d
<1>1. n \in Nat
  <2>1. q * d \in Nat
    OBVIOUS
  <2>2. QED
    BY <2>1
<1>2. k \in Nat /\ m \in 0..(d - 1) /\ n = k * d + m
  BY <1>1, Division
<1>3. k * d + m = q * d + r
  BY <1>2
<1> HIDE DEF k, m
<1>4. ASSUME NEW a \in Nat, NEW b \in Nat, a < b
      PROVE  a * d + d <= b * d
  <2>1. PICK e \in Nat : b = a + 1 + e
    <3>1. b - a - 1 \in Nat /\ b = a + 1 + (b - a - 1)
      BY <1>4
    <3>2. QED
      BY <3>1
  <2>2. b * d = a * d + d + e * d /\ e * d \in Nat
    BY <2>1
  <2>3. a * d \in Nat /\ b * d \in Nat
    OBVIOUS
  <2>4. QED
    BY <2>2, <2>3
<1>5. q * d \in Nat /\ k * d \in Nat
  BY <1>2
<1>6. k = q
  <2>1. ~(k < q)
    BY <1>2, <1>3, <1>4, <1>5
  <2>2. ~(q < k)
    BY <1>2, <1>3, <1>4, <1>5
  <2>3. QED
    BY <1>2, <2>1, <2>2
<1>7. m = r
  BY <1>2, <1>3, <1>5, <1>6
<1>8. QED
  BY <1>1, <1>6, <1>7 DEF k, m

-----------------------------------------------------------------------------
(* Cells of a table of w columns and h rows, counted row by row: the place *)
(* of the cell of column x and row y, ...                                  *)
LEMMA PlaceOfCell ==
  ASSUME NEW w \in Nat \ {0}, NEW h \in Nat \ {0},
         NEW x \in 0..(w - 1), NEW y \in 0..(h - 1)
  PROVE  /\ y * w + x + 1 \in 1..(w * h)
         /\ ((y * w + x + 1) - 1) % w = x /\ ((y * w + x + 1) - 1) \div w = y
<1>1. y * w + x \in Nat /\ (y * w + x) \div w = y /\ (y * w + x) % w = x
  BY DivisionIsUnique
<1>2. (y * w + x + 1) - 1 = y * w + x
  BY <1>1
<1>3. y * w + x < w * h
  <2>1. PICK e \in Nat : h = y + 1 + e
    <3>1. h - y - 1 \in Nat /\ h = y + 1 + (h - y - 1)
      OBVIOUS
    <3>2. QED
      BY <3>1
  <2>2. w * h = y * w + w + e * w /\ e * w \in Nat /\ y * w \in Nat
    BY <2>1
  <2>3. QED
    BY <2>2
<1>4. w * h \in Nat
  OBVIOUS
<1>5. y * w + x + 1 \in 1..(w * h)
  BY <1>1, <1>3, <1>4
<1>6. QED
  BY <1>1, <1>2, <1>5, Zenon

(* ... and the cell of a place. *)
LEMMA CellOfPlace ==
  ASSUME NEW w \in Nat \ {0}, NEW h \in Nat \ {0}, NEW i \in 1..(w * h)
  PROVE  /\ (i - 1) % w \in 0..(w - 1) /\ (i - 1) \div w \in 0..(h - 1)
         /\ i = ((i - 1) \div w) * w + ((i - 1) % w) + 1
<1> DEFINE q == (i - 1) \div w
           r == (i - 1) % w
<1>1. i - 1 \in Nat /\ i - 1 < h * w /\ i \in Nat
  BY LargerProduct
<1>2. q \in Nat /\ r \in 0..(w - 1) /\ i - 1 = q * w + r
  BY <1>1, Division
<1>3. q < h
  BY <1>1, QuotientIsLess
<1>4. q * w \in Nat
  BY <1>2
<1> HIDE DEF q, r
<1>5. i = q * w + r + 1 /\ q \in 0..(h - 1)
  BY <1>1, <1>2, <1>3, <1>4
<1>6. QED
  BY <1>2, <1>5 DEF q, r
=============================================================================
