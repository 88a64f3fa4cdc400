--------------------------- MODULE RfbRectangles ----------------------------
(***************************************************************************)
(* How libvncserver announces and splits the rectangles of an update.      *)
(*                                                                         *)
(* rfbSendFramebufferUpdate() (rfbserver.c) writes the number of           *)
(* rectangles before the encoders of corre.c, zlib.c, ultra.c and tight.c  *)
(* split them, so every encoder has its own counting formula; the client   *)
(* reads exactly that many headers.  The contents of the rectangles and    *)
(* the rectangles that are not pixels (cursor, copies) are left out.       *)
(***************************************************************************)
EXTENDS Integers, Sequences

PieceSeqs == INSTANCE SequencesExt
PieceSets == INSTANCE FiniteSetsExt

CONSTANTS
  Images,                  \* frame buffers: functions from points to colours
  UpdateRegions,           \* sequences of disjoint boxes
  correMaxWidth, correMaxHeight,
  LINES_MAX_RECT_SIZE,     \* ZLIB_MAX_RECT_SIZE and ULTRA_MAX_RECT_SIZE
  maxRectSize, maxRectWidth,            \* a line of tightConf
  MIN_SPLIT_RECT_SIZE, MIN_SOLID_SUBRECT_SIZE, MAX_SPLIT_TILE_SIZE,
  maxRectsPerUpdate

ASSUME RectanglesAssumption ==
  /\ {correMaxWidth, correMaxHeight, LINES_MAX_RECT_SIZE, maxRectWidth,
      MAX_SPLIT_TILE_SIZE} \subseteq Nat \ {0}
  /\ maxRectSize \in Nat /\ maxRectSize >= maxRectWidth

VARIABLES
  image,
  encoding, lastRect,     \* preferredEncoding, enableLastRectEncoding
  covered,                \* the boxes of the region that were sent
  nRects,                 \* the number written before the rectangles
  sent                    \* the rectangles written
rectanglesVars == <<image, encoding, lastRect, covered, nRects, sent>>

LastRectFollows == 65535          \* 0xFFFF

Box(x, y, w, h) == [x |-> x, y |-> y, w |-> w, h |-> h, solid |-> FALSE]
Size(b) == b.w * b.h
PointsOf(b) == (b.x .. b.x + b.w - 1) \X (b.y .. b.y + b.h - 1)
Smaller(a, b) == IF a < b THEN a ELSE b

(* The values of d in "for (d = 0; d < n; d += step)". *)
Offsets(n, step) == [i \in 1..((n + step - 1) \div step) |-> (i - 1) * step]

(* Rows of pieces of at most the given size. *)
Pieces(b, width, height) ==
  PieceSeqs!FlattenSeq(
    [j \in DOMAIN Offsets(b.h, height) |->
       [i \in DOMAIN Offsets(b.w, width) |->
          LET dx == (i - 1) * width
              dy == (j - 1) * height
          IN Box(b.x + dx, b.y + dy, Smaller(width, b.w - dx),
                 Smaller(height, b.h - dy))]])

-----------------------------------------------------------------------------
(* Plausible mistake: whole rows of pieces only, and one more. *)
StepCountRoundsDown(n, step) == n \div step + 1

-----------------------------------------------------------------------------
(* The formula of the counting loops of rfbSendFramebufferUpdate(). *)
StepCount(n, step) == (n - 1) \div step + 1

(* ZLIB_MAX_SIZE(w) / w lines go into one rectangle: at least two. *)
LinesPerRect(w) ==
  (IF w * 2 > LINES_MAX_RECT_SIZE THEN w * 2 ELSE LINES_MAX_RECT_SIZE) \div w

SubrectMaxHeight(w) == maxRectSize \div Smaller(w, maxRectWidth)
IsTooBig(b) == b.w > maxRectWidth \/ Size(b) > maxRectSize

(* rfbNumCodedRectsTight(): 0 if the number is not known in advance. *)
SearchesSolid(b) == lastRect /\ Size(b) >= MIN_SPLIT_RECT_SIZE
NumCodedRectsTight(b) ==
  IF SearchesSolid(b) THEN 0
  ELSE IF ~IsTooBig(b) THEN 1
  ELSE StepCount(b.w, maxRectWidth) * StepCount(b.h, SubrectMaxHeight(b.w))

CodedRects(enc, b) ==
  CASE enc = "CoRRE" ->
         StepCount(b.w, correMaxWidth) * StepCount(b.h, correMaxHeight)
    [] enc = "Zlib" -> StepCount(b.h, LinesPerRect(b.w))
    [] enc = "Tight" -> NumCodedRectsTight(b)
    [] OTHER -> 1

SumOver(boxes, count(_)) ==
  PieceSeqs!FoldLeft(LAMBDA n, b : n + count(b), 0, boxes)

(* One rectangle whose size is not known makes the whole count unknown. *)
Announced(enc, boxes) ==
  IF enc = "Tight" /\ \E i \in DOMAIN boxes : SearchesSolid(boxes[i])
    THEN LastRectFollows
    ELSE SumOver(boxes, LAMBDA b : CodedRects(enc, b))

(* sraRgnBBox(), for encodings that are not split, when too many. *)
Bounding(boxes) ==
  LET all == {boxes[i] : i \in DOMAIN boxes}
      left == PieceSets!Min({b.x : b \in all})
      top == PieceSets!Min({b.y : b \in all})
  IN Box(left, top, PieceSets!Max({b.x + b.w : b \in all}) - left,
         PieceSets!Max({b.y + b.h : b \in all}) - top)
Joined(enc, boxes) ==
  IF enc = "Raw" /\ maxRectsPerUpdate > 0 /\ Len(boxes) > maxRectsPerUpdate
    THEN <<Bounding(boxes)>>
    ELSE boxes

-----------------------------------------------------------------------------
(* corre.c: cut below, then to the right. *)
RECURSIVE CoRREPieces(_)
CoRREPieces(b) ==
  IF b.h > correMaxHeight
    THEN CoRREPieces([b EXCEPT !.h = correMaxHeight]) \o
         CoRREPieces([b EXCEPT !.y = @ + correMaxHeight,
                               !.h = @ - correMaxHeight])
  ELSE IF b.w > correMaxWidth
    THEN CoRREPieces([b EXCEPT !.w = correMaxWidth]) \o
         CoRREPieces([b EXCEPT !.x = @ + correMaxWidth,
                               !.w = @ - correMaxWidth])
  ELSE <<b>>

(* The loops of zlib.c and ultra.c, over the lines that remain. *)
LinePieces(b) == Pieces(b, b.w, LinesPerRect(b.w))

(* SendRectSimple() of tight.c. *)
SimplePieces(b) ==
  IF IsTooBig(b) THEN Pieces(b, maxRectWidth, SubrectMaxHeight(b.w))
  ELSE <<b>>

(* CheckSolidTile(). *)
IsSolid(b, colour) == \A p \in PointsOf(b) : image[p] = colour

(* FindBestSolidArea(): rows of solid tiles, none wider than the one above.*)
RowExtent(b, dy, dh, width, colour) ==
  LET xs == Offsets(width, MAX_SPLIT_TILE_SIZE)
      tile(i) == Box(b.x + xs[i], dy,
                     Smaller(MAX_SPLIT_TILE_SIZE, width - xs[i]), dh)
      mixed == {i \in DOMAIN xs : ~IsSolid(tile(i), colour)}
  IN IF mixed = {} THEN width ELSE xs[PieceSets!Min(mixed)]

RECURSIVE FindBestSolidArea(_, _, _, _, _)
FindBestSolidArea(b, dy, width, colour, best) ==
  LET dh == Smaller(MAX_SPLIT_TILE_SIZE, b.y + b.h - dy)
      extent == RowExtent(b, dy, dh, width, colour)
      area == Box(b.x, b.y, extent, dy + dh - b.y)
  IN IF dy >= b.y + b.h \/ extent = 0 THEN best
     ELSE FindBestSolidArea(b, dy + MAX_SPLIT_TILE_SIZE, extent, colour,
                            IF Size(area) > Size(best) THEN area ELSE best)

(* ExtendSolidArea(): line by line upwards, downwards, left, right. *)
RECURSIVE Extended(_, _, _)
Extended(s, b, colour) ==
  LET up == Box(s.x, s.y - 1, s.w, 1)
      down == Box(s.x, s.y + s.h, s.w, 1)
      left == Box(s.x - 1, s.y, 1, s.h)
      right == Box(s.x + s.w, s.y, 1, s.h)
  IN IF up.y >= b.y /\ IsSolid(up, colour)
       THEN Extended([s EXCEPT !.y = @ - 1, !.h = @ + 1], b, colour)
     ELSE IF down.y < b.y + b.h /\ IsSolid(down, colour)
       THEN Extended([s EXCEPT !.h = @ + 1], b, colour)
     ELSE IF left.x >= b.x /\ IsSolid(left, colour)
       THEN Extended([s EXCEPT !.x = @ - 1, !.w = @ + 1], b, colour)
     ELSE IF right.x < b.x + b.w /\ IsSolid(right, colour)
       THEN Extended([s EXCEPT !.w = @ + 1], b, colour)
     ELSE s

(* The solid area that the tile at <<dx, dy>> of b starts, if it is large. *)
SolidAt(b, dx, dy) ==
  LET colour == image[<<dx, dy>>]
      tile == Box(dx, dy, Smaller(MAX_SPLIT_TILE_SIZE, b.x + b.w - dx),
                  Smaller(MAX_SPLIT_TILE_SIZE, b.y + b.h - dy))
      rest == Box(dx, dy, b.x + b.w - dx, b.y + b.h - dy)
      best == FindBestSolidArea(rest, dy, rest.w, colour, Box(dx, dy, 0, 0))
  IN IF IsSolid(tile, colour)
        /\ (Size(best) = Size(b) \/ Size(best) >= MIN_SOLID_SUBRECT_SIZE)
       THEN <<Extended(best, b, colour)>>
       ELSE <<>>

(* rfbSendRectEncodingTight(): tile by tile, until a large solid area is   *)
(* found; what lies around it is split again, except above it.             *)
RECURSIVE TightPieces(_), TightRow(_, _)
TightRow(whole, dy) ==
  LET rows == SubrectMaxHeight(whole.w)
      tooHigh == dy - whole.y >= rows
      b == IF tooHigh THEN [whole EXCEPT !.y = @ + rows, !.h = @ - rows]
           ELSE whole
      solids == [i \in DOMAIN Offsets(b.w, MAX_SPLIT_TILE_SIZE) |->
                   SolidAt(b, b.x + (i - 1) * MAX_SPLIT_TILE_SIZE, dy)]
      s == PieceSeqs!FlattenSeq(solids)[1]
      around(x, y, w, h) ==
        IF w = 0 \/ h = 0 THEN <<>> ELSE TightPieces(Box(x, y, w, h))
  IN IF dy >= whole.y + whole.h THEN SimplePieces(whole)
     ELSE (IF tooHigh THEN SimplePieces([whole EXCEPT !.h = rows])
           ELSE <<>>) \o
       (IF \A i \in DOMAIN solids : solids[i] = <<>>
          THEN TightRow(b, dy + MAX_SPLIT_TILE_SIZE)
          ELSE (IF s.y = b.y THEN <<>>
                ELSE SimplePieces([b EXCEPT !.h = s.y - b.y])) \o
               around(b.x, s.y, s.x - b.x, s.h) \o
               <<[s EXCEPT !.solid = TRUE]>> \o
               around(s.x + s.w, s.y, b.x + b.w - s.x - s.w, s.h) \o
               around(b.x, s.y + s.h, b.w, b.y + b.h - s.y - s.h))
TightPieces(b) == IF SearchesSolid(b) THEN TightRow(b, b.y) ELSE SimplePieces(b)

CodedPieces(enc, b) ==
  CASE enc = "CoRRE" -> CoRREPieces(b)
    [] enc = "Zlib" -> LinePieces(b)
    [] enc = "Tight" -> TightPieces(b)
    [] OTHER -> <<b>>

-----------------------------------------------------------------------------
Splitters == {"Raw", "CoRRE", "Zlib", "Tight"}

RectanglesInit ==
  /\ image \in Images
  /\ encoding \in Splitters
  /\ lastRect \in BOOLEAN
  /\ covered = <<>> /\ nRects = 0 /\ sent = <<>>

(* One update with the region boxes. *)
SendRectangles(boxes) ==
  /\ covered' = Joined(encoding, boxes)
  /\ nRects' = Announced(encoding, covered')
  /\ sent' = PieceSeqs!FlattenSeq(
               [i \in DOMAIN covered' |-> CodedPieces(encoding, covered'[i])])
  /\ UNCHANGED <<image, encoding, lastRect>>

RectanglesNext == \E boxes \in UpdateRegions : SendRectangles(boxes)

-----------------------------------------------------------------------------
(* The client reads exactly as many rectangles as were announced, unless a *)
(* LastRect marker ends them; they cover the region, each pixel once; a    *)
(* rectangle sent as one colour has one colour; and the others fit the     *)
(* buffers that SendRectSimple() and CoRRE's one byte coordinates allow.   *)
UpdateIsTiled ==
  /\ nRects \in {Len(sent), LastRectFollows}
  /\ nRects = LastRectFollows => lastRect
  /\ UNION {PointsOf(sent[i]) : i \in DOMAIN sent}
       = UNION {PointsOf(covered[i]) : i \in DOMAIN covered}
  /\ \A i, j \in DOMAIN sent :
       i # j => PointsOf(sent[i]) \cap PointsOf(sent[j]) = {}
  /\ \A i \in DOMAIN sent :
       CASE sent[i].solid ->
              \E colour \in {image[p] : p \in DOMAIN image} :
                IsSolid(sent[i], colour)
         [] encoding = "Tight" /\ ~sent[i].solid -> ~IsTooBig(sent[i])
         [] encoding = "CoRRE" ->
              sent[i].w <= correMaxWidth /\ sent[i].h <= correMaxHeight
         [] OTHER -> TRUE
=============================================================================
