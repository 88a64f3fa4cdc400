----------------------------- MODULE RfbWavelet -----------------------------
(***************************************************************************)
(* The wavelets of ZYWRLE (zywrletemplate.c): the server turns the part of *)
(* a raw tile that its level divides into coefficients, filters the fine   *)
(* ones, and sends them from fine to coarse followed by the pixels of the  *)
(* rest; the client puts them back in place and undoes the transform.  The *)
(* transform is made of steps on pairs of values that are their own        *)
(* inverse, and stays in an odd range of signed bytes.                     *)
(*                                                                         *)
(* A pixel is its brightness Y, one of the three components into which a   *)
(* pixel is converted.                                                     *)
(***************************************************************************)
EXTENDS Integers, Sequences

CONSTANTS
  WaveletMax,       \* 127: values are -WaveletMax..WaveletMax
  WaveletTiles,     \* tiles: w, h and px, from points <<x, y>> to bytes
  WaveletLevels,    \* subset of 1..3
  WaveletFilters    \* tables of zywrleConv[], functions on the values

Values == (-WaveletMax)..WaveletMax
Brightness == 0..(2 * WaveletMax + 1)

Grid(w, h) == (0..(w - 1)) \X (0..(h - 1))

ASSUME WaveletAssumption ==
  /\ WaveletMax \in Nat
  /\ \A t \in WaveletTiles : /\ t.w \in Nat \ {0} /\ t.h \in Nat \ {0}
                            /\ t.px \in [Grid(t.w, t.h) -> Brightness]
  /\ \A f \in WaveletFilters : f \in [Values -> Values]
  /\ WaveletLevels \subseteq 1..3

VARIABLES
  waveletTile,    \* the server's tile
  waveletLevel,   \* zywrle_level of both ends
  waveletFilter,
  waveletWire,    \* the coefficients and pixels sent
  waveletDrawn,   \* the client's tile
  waveletStep

waveletVars == <<waveletTile, waveletLevel, waveletFilter, waveletWire,
                 waveletDrawn, waveletStep>>

WaveletTypeOK ==
  /\ waveletTile.px \in [Grid(waveletTile.w, waveletTile.h) -> Brightness]
  /\ waveletLevel \in WaveletLevels /\ waveletFilter \in WaveletFilters
  /\ waveletWire \in Seq(Values \cup Brightness)
  /\ waveletDrawn \in [Grid(waveletTile.w, waveletTile.h) -> Brightness]
  /\ waveletStep \in {"tile", "sent", "drawn"}

WaveletInit ==
  /\ waveletTile \in WaveletTiles /\ waveletLevel \in WaveletLevels
  /\ waveletFilter \in WaveletFilters
  /\ waveletWire = <<>>
  /\ waveletDrawn = [p \in Grid(waveletTile.w, waveletTile.h) |-> 0]
  /\ waveletStep = "tile"

-----------------------------------------------------------------------------
(* ZYWRLE_RGBYUV1 and ZYWRLE_YUVRGB1: around zero, the least value moved   *)
(* into the range; and back.                                               *)
Centred(y) ==
  IF y = 0 THEN -WaveletMax ELSE y - (WaveletMax + 1)

Uncentred(v) == v + WaveletMax + 1

(* A plausible mistake: the high value keeps its sign. *)
HarrUnsigned(x0, x1) ==
  IF (x0 < 0) # (x1 < 0)
  THEN IF (x0 + x1 < 0) = (x1 < 0) THEN <<x0 + x1, x1>> ELSE <<x0 + x1, x0>>
  ELSE IF (x0 - x1 < 0) = (x0 < 0) THEN <<x0, x0 - x1>> ELSE <<x1, x0 - x1>>

(* Harr(): the low and the high value of two. *)
Harr(x0, x1) ==
  IF (x0 < 0) # (x1 < 0)
  THEN IF (x0 + x1 < 0) = (x1 < 0) THEN <<x0 + x1, -x1>> ELSE <<x0 + x1, x0>>
  ELSE IF (x0 - x1 < 0) = (x0 < 0) THEN <<x0, x0 - x1>> ELSE <<x1, x0 - x1>>

(* The pair of a value at distance d: the value and the one before or      *)
(* after it.                                                               *)
HarrAt(at, i, d) ==
  IF i % (2 * d) = 0 THEN Harr(at[i], at[i + d])[1]
  ELSE Harr(at[i - d], at[i])[2]

(* WaveletLevel() of all rows, and of all columns, of the points that      *)
(* level l is about.                                                       *)
Coarse(p, l) == p[1] % 2^l = 0 /\ p[2] % 2^l = 0

AcrossRows(c, w, l) ==
  [p \in DOMAIN c |->
     LET row == [x \in 0..(w - 1) |-> c[<<x, p[2]>>]]
     IN IF Coarse(p, l) THEN HarrAt(row, p[1], 2^l) ELSE c[p]]

AlongColumns(c, h, l) ==
  [p \in DOMAIN c |->
     LET column == [y \in 0..(h - 1) |-> c[<<p[1], y>>]]
     IN IF Coarse(p, l) THEN HarrAt(column, p[2], 2^l) ELSE c[p]]

(* FilterWaveletSquare(): all but the low values of the level. *)
FilterWaveletSquare(conv, c, l) ==
  [p \in DOMAIN c |->
     IF Coarse(p, l) /\ ~Coarse(p, l + 1) THEN conv[c[p]] ELSE c[p]]

(* A level of Wavelet(), and of InvWavelet(). *)
Analysed(conv, c, w, h, l) ==
  FilterWaveletSquare(conv, AlongColumns(AcrossRows(c, w, l), h, l), l)

Synthesized(c, w, h, l) == AcrossRows(AlongColumns(c, h, l), w, l)

Wavelet(conv, c, w, h, level) ==
  LET after[l \in 0..level] ==
        IF l = 0 THEN c ELSE Analysed(conv, after[l - 1], w, h, l - 1)
  IN after[level]

InvWavelet(c, w, h, level) ==
  LET after[l \in 0..level] ==
        IF l = 0 THEN c ELSE Synthesized(after[l - 1], w, h, level - l)
  IN after[level]

(* zywrleCalcSize(). *)
Aligned(n, level) == n - (n % 2^level)

(* ZYWRLE_TRANSFER_COEFF: the points of one of the four sub-images, 0 for  *)
(* the low values, of a level.                                             *)
SubImage(w, h, r, l) ==
  LET s == 2^(l + 1)
      x0 == IF r \in {1, 3} THEN 2^l ELSE 0
      y0 == IF r \in {2, 3} THEN 2^l ELSE 0
  IN [k \in 1..((w \div s) * (h \div s)) |->
        <<x0 + s * ((k - 1) % (w \div s)), y0 + s * ((k - 1) \div (w \div s))>>]

FineValues(w, h, l) ==
  SubImage(w, h, 3, l) \o SubImage(w, h, 2, l) \o SubImage(w, h, 1, l)

CoefficientOrder(w, h, level) ==
  LET upTo[l \in 0..level] ==
        IF l = 0 THEN <<>> ELSE upTo[l - 1] \o FineValues(w, h, l - 1)
  IN upTo[level] \o SubImage(w, h, 0, level - 1)

(* The points of a w by h rectangle at <<x, y>>, row by row. *)
RowByRow(x, y, w, h) ==
  [k \in 1..(w * h) |-> <<x + ((k - 1) % w), y + (k - 1) \div w>>]

(* ZYWRLE_LOAD_UNALIGN and ZYWRLE_SAVE_UNALIGN: right, below and corner. *)
UnalignedOrder(w, h, level) ==
  LET aw == Aligned(w, level)
      ah == Aligned(h, level)
  IN RowByRow(aw, 0, w - aw, ah) \o RowByRow(0, ah, aw, h - ah)
       \o RowByRow(aw, ah, w - aw, h - ah)

(* A tile that is smaller than a block stays as it is. *)
Untouched(w, h, level) == Aligned(w, level) = 0 \/ Aligned(h, level) = 0

WireOrder(w, h, level) ==
  IF Untouched(w, h, level) THEN RowByRow(0, 0, w, h)
  ELSE CoefficientOrder(Aligned(w, level), Aligned(h, level), level)
         \o UnalignedOrder(w, h, level)

-----------------------------------------------------------------------------
(* ZYWRLE_ANALYZE. *)
ZywrleAnalyze ==
  LET w == waveletTile.w  h == waveletTile.h  level == waveletLevel
      aw == Aligned(w, level)  ah == Aligned(h, level)
      fine  == [p \in Grid(aw, ah) |-> Centred(waveletTile.px[p])]
      coefs == Wavelet(waveletFilter, fine, aw, ah, level)
      order == WireOrder(w, h, level)
  IN /\ waveletStep = "tile" /\ waveletStep' = "sent"
     /\ waveletWire' = [k \in DOMAIN order |->
                          IF order[k] \in DOMAIN coefs THEN coefs[order[k]]
                          ELSE waveletTile.px[order[k]]]
     /\ UNCHANGED <<waveletTile, waveletLevel, waveletFilter, waveletDrawn>>

(* ZYWRLE_SYNTHESIZE. *)
ZywrleSynthesize ==
  LET w == waveletTile.w  h == waveletTile.h  level == waveletLevel
      aw == Aligned(w, level)  ah == Aligned(h, level)
      order == WireOrder(w, h, level)
      put   == [p \in Grid(w, h) |->
                  waveletWire[CHOOSE k \in DOMAIN order : order[k] = p]]
      fine  == InvWavelet([p \in Grid(aw, ah) |-> put[p]], aw, ah, level)
  IN /\ waveletStep = "sent" /\ waveletStep' = "drawn"
     /\ waveletDrawn' = [p \in Grid(w, h) |->
                           IF p \in DOMAIN fine THEN Uncentred(fine[p])
                           ELSE put[p]]
     /\ UNCHANGED <<waveletTile, waveletLevel, waveletFilter, waveletWire>>

WaveletNext == ZywrleAnalyze \/ ZywrleSynthesize

WaveletSpec == WaveletInit /\ [][WaveletNext]_waveletVars

-----------------------------------------------------------------------------
(* WaveletIsUndone: whatever the filter makes of the fine coefficients, no *)
(* value leaves the range of its byte on either end, the pixels that the   *)
(* level does not cover come out as they were, and if the filter keeps the *)
(* coefficients so does every other pixel, except that the darkest becomes *)
(* the next.                                                               *)
WaveletIsUndone ==
  LET tile == waveletTile
      covered == Grid(Aligned(tile.w, waveletLevel),
                      Aligned(tile.h, waveletLevel))
      keeps == \A v \in Values : waveletFilter[v] = v
  IN waveletStep = "drawn" =>
       \A p \in Grid(tile.w, tile.h) :
         /\ waveletDrawn[p] \in Brightness
         /\ p \notin covered => waveletDrawn[p] = tile.px[p]
         /\ p \in covered /\ keeps
              => waveletDrawn[p] = IF tile.px[p] = 0 THEN 1 ELSE tile.px[p]
=============================================================================
