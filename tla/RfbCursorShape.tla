--------------------------- MODULE RfbCursorShape ---------------------------
(***************************************************************************)
(* The shape of the server's cursor, from what the application painted to  *)
(* what a client shows.  A cursor is made in one form, a bitmap in two     *)
(* colours or pixels, with a mask; the form a client does not understand   *)
(* is converted when the first such client is sent the shape, and kept.    *)
(*                                                                         *)
(* A bitmap is its bytes, row by row, and a byte is the set of its bits    *)
(* that are on, 0 for the leftmost.  Colours are greys.  The screen's      *)
(* format is of true colour, with one, two or four bytes to a pixel, and   *)
(* stays the same, and so does the cursor (RfbCursor replaces it); the     *)
(* translation of pixels to a client's format is RfbTranslate's.           *)
(***************************************************************************)
EXTENDS Integers

CONSTANTS
  ShapeClients,
  ShapeSizes,           \* <<width, height>> of cursors painted in characters
  RichSizes,            \* and of those made of pixels
  ShapeInks,            \* colours of their pixels
  ShapeByteBits,        \* 8
  ShapeBufSize          \* UPDATE_BUF_SIZE, in bytes of bitmap or pixels

Black == 0
White == 255
NoBitmap == <<>>
NoString == <<>>         \* else <<the points painted>>

ASSUME ShapeAssumption ==
  /\ ShapeSizes \cup RichSizes \subseteq (Nat \ {0}) \X (Nat \ {0})
  /\ ShapeInks \subseteq Black..White
  /\ ShapeByteBits \in Nat \ {0, 1}

VARIABLES
  shapeCursor,          \* the screen's: its forms, mask and colours
  painted,              \* history: what the application painted in which form
  useRichCursorEncoding,
  rcShape               \* what a client shows: rcSource and rcMask

shapeVars == <<shapeCursor, painted, useRichCursorEncoding, rcShape>>

ShapePoints(size) == (0..(size[1] - 1)) \X (0..(size[2] - 1))
RowBytes(width) == (width + ShapeByteBits - 1) \div ShapeByteBits
BitmapBytes(size) == 0..(RowBytes(size[1]) * size[2] - 1)

ShapeTypeOK ==
  /\ shapeCursor.size \in ShapeSizes \cup RichSizes
  /\ \A b \in {"source", "mask"} :
       shapeCursor[b] = NoBitmap
       \/ shapeCursor[b] \in [BitmapBytes(shapeCursor.size) ->
                                SUBSET (0..(ShapeByteBits - 1))]
  /\ shapeCursor.richSource = NoBitmap
     \/ shapeCursor.richSource
          \in [ShapePoints(shapeCursor.size) -> Black..White]
  /\ shapeCursor.fore \in Black..White /\ shapeCursor.back \in Black..White
  /\ useRichCursorEncoding \in [ShapeClients -> BOOLEAN]

-----------------------------------------------------------------------------
(* A bitmap with the bits of some points on, and the points of a bitmap.   *)
BitmapOf(size, points) ==
  LET w == RowBytes(size[1])
  IN  [k \in BitmapBytes(size) |->
         {b \in 0..(ShapeByteBits - 1) :
            <<(k % w) * ShapeByteBits + b, k \div w>> \in points}]
IsOn(size, bitmap, p) ==
  (p[1] % ShapeByteBits)
    \in bitmap[p[2] * RowBytes(size[1]) + p[1] \div ShapeByteBits]

(* The mask of a cursor that has none: every point of the source with its  *)
(* eight neighbours, byte by byte: the bytes above and below, shifted both *)
(* ways, and the bits that cross to the next byte.                         *)
NoCarry(size, source) ==
  LET w == RowBytes(size[1])
      c(i, j) == UNION {source[r * w + i] :
                          r \in {j - 1, j, j + 1} \cap 0..(size[2] - 1)}
  IN  [k \in BitmapBytes(size) |->
         LET byte == c(k % w, k \div w)
         IN  (byte \cup {b - 1 : b \in byte} \cup {b + 1 : b \in byte})
               \cap 0..(ShapeByteBits - 1)]
rfbMakeMaskForXCursor(size, source) ==
  LET w == RowBytes(size[1])
      last == ShapeByteBits - 1
      c(i, j) == UNION {source[r * w + i] :
                          r \in {j - 1, j, j + 1} \cap 0..(size[2] - 1)}
  IN  [k \in BitmapBytes(size) |->
         LET i == k % w
             j == k \div w
             byte == c(i, j)
         IN  ((byte \cup {b - 1 : b \in byte} \cup {b + 1 : b \in byte})
                \cap 0..last)
             \cup {b \in {last} : i < w - 1 /\ 0 \in c(i + 1, j)}
             \cup {b \in {0} : i > 0 /\ last \in c(i - 1, j)}]

(* A cursor painted in characters: white ink on black, and the mask        *)
(* painted too or made up.                                                 *)
rfbMakeXCursor(size, ink, maskString) ==
  LET source == BitmapOf(size, ink)
  IN  [size |-> size, source |-> source, richSource |-> NoBitmap,
       mask |-> IF maskString = NoString
                THEN rfbMakeMaskForXCursor(size, source)
                ELSE BitmapOf(size, maskString[1]),
       fore |-> White, back |-> Black]

(* The two-colour form: without colours of its own the cursor becomes      *)
(* white where it is rather light; else what is not background is          *)
(* foreground.                                                             *)
rfbMakeXCursorFromRichCursor(c) ==
  LET interp == c.fore = Black /\ c.back = Black
      On(p) == IF interp THEN c.richSource[p] >= 128
                         ELSE c.richSource[p] # c.back
      on == {p \in ShapePoints(c.size) : On(p)}
  IN  [c EXCEPT !.source = BitmapOf(c.size, on),
                !.fore = IF interp THEN White ELSE @]

(* The form in pixels.  The colours are shifted into place with all their  *)
(* 16 bits, which is right for black and white.                            *)
rfbMakeRichCursorFromXCursor(c) ==
  [c EXCEPT !.richSource =
     [p \in ShapePoints(c.size) |-> IF IsOn(c.size, c.source, p) THEN c.fore
                                                            ELSE c.back]]

-----------------------------------------------------------------------------
NoCursorYet == [rcSource |-> NoBitmap, rcMask |-> {}]

(* The application's cursor: painted, or pixels of its own with a mask and *)
(* perhaps colours for the clients that want two.                          *)
GreyOf(points, ink) == [p \in points |-> IF p \in ink THEN White ELSE Black]
Around(size, ink) ==
  {p \in ShapePoints(size) : \E q \in ink : q[1] - p[1] \in -1..1
                                       /\ q[2] - p[2] \in -1..1}

Painted(c, ink, mask) ==
  /\ shapeCursor = c
  /\ painted = [ink |-> ink, mask |-> mask, fore |-> c.fore, back |-> c.back]

PaintedXCursor ==
  \E size \in ShapeSizes : \E ink \in SUBSET ShapePoints(size) :
    LET grey == GreyOf(ShapePoints(size), ink)
    IN  \/ Painted(rfbMakeXCursor(size, ink, NoString), grey,
                   Around(size, ink))
        \/ Painted(rfbMakeXCursor(size, ink, <<ink>>), grey, ink)

PaintedRichCursor ==
  \E size \in RichSizes : \E rich \in [ShapePoints(size) -> ShapeInks] :
    \E colours \in {<<Black, Black>>} \cup
                     {c \in ShapeInks \X ShapeInks : c[1] > c[2]} :
      LET mask == {p \in ShapePoints(size) : rich[p] # Black}
      IN  Painted([size |-> size, source |-> NoBitmap, richSource |-> rich,
                   mask |-> BitmapOf(size, mask),
                   fore |-> colours[1], back |-> colours[2]], rich, mask)

ShapeInit ==
  /\ useRichCursorEncoding \in [ShapeClients -> BOOLEAN]
  /\ PaintedXCursor \/ PaintedRichCursor
  /\ rcShape = [v \in ShapeClients |-> NoCursorYet]

(* The bytes of a shape in an encoding. *)
ShapeBytes(c, rich) ==
  RowBytes(c.size[1]) * c.size[2]
  + (IF rich THEN c.size[1] * c.size[2] ELSE RowBytes(c.size[1]) * c.size[2])

IsEmptyCursor(c) == c.size = <<1, 1>> /\ c.mask[0] = {}

(* rfbSendCursorShape, with HandleCursorShape at the client: an empty      *)
(* cursor and one too large for the buffer leave the client as it is.      *)
Converted(c, rich) ==
  IF rich
  THEN IF c.richSource = NoBitmap THEN rfbMakeRichCursorFromXCursor(c) ELSE c
  ELSE IF c.source = NoBitmap THEN rfbMakeXCursorFromRichCursor(c) ELSE c

HandleCursorShape(c, rich) ==
  [rcSource |-> [p \in ShapePoints(c.size) |->
                   IF rich THEN c.richSource[p]
                   ELSE IF IsOn(c.size, c.source, p) THEN c.fore ELSE c.back],
   rcMask |-> {p \in ShapePoints(c.size) : IsOn(c.size, c.mask, p)}]

rfbSendCursorShape(v) ==
  LET rich == useRichCursorEncoding[v]
      c    == Converted(shapeCursor, rich)
      sent == ~IsEmptyCursor(c) /\ ShapeBytes(c, rich) <= ShapeBufSize
  IN  /\ shapeCursor' = c
      /\ rcShape' = [rcShape EXCEPT
                       ![v] = IF sent THEN HandleCursorShape(c, rich) ELSE @]
      /\ UNCHANGED <<painted, useRichCursorEncoding>>

ShapeNext == \E v \in ShapeClients : rfbSendCursorShape(v)

ShapeSpec == ShapeInit /\ [][ShapeNext]_shapeVars

-----------------------------------------------------------------------------
(* A client that was sent the cursor shows what the application painted,   *)
(* in the colours its encoding has, and shows it where it was painted or,  *)
(* when no mask was, around it: whichever form the cursor was made in,     *)
(* whichever clients it was converted for before, and also when a row does *)
(* not fill its last byte.  (cursor.c rfbSendCursorShape, rfbMakeXCursor,  *)
(* rfbMakeMaskForXCursor, rfbMakeXCursorFromRichCursor,                    *)
(* rfbMakeRichCursorFromXCursor; libvncclient cursor.c HandleCursorShape)  *)
InTwoColours(grey) ==
  IF painted.fore = Black /\ painted.back = Black
  THEN IF grey >= 128 THEN White ELSE Black
  ELSE IF grey = painted.back THEN painted.back ELSE painted.fore

ClientShowsTheCursor ==
  \A v \in ShapeClients :
    rcShape[v] # NoCursorYet =>
      /\ rcShape[v].rcMask = painted.mask
      /\ \A p \in DOMAIN painted.ink :
           rcShape[v].rcSource[p] =
             IF useRichCursorEncoding[v] THEN painted.ink[p]
                                         ELSE InTwoColours(painted.ink[p])
=============================================================================
