---------------------------- MODULE RfbEncodings ----------------------------
(***************************************************************************)
(* RRE, CoRRE and hextile: what libvncserver writes for a rectangle (rre.c,*)
(* corre.c, hextile.c) and what libvncclient draws when it reads it.       *)
(*                                                                         *)
(* Both sides of hextile keep a background and a foreground colour from    *)
(* one tile to the next; the client's are uninitialised before the first   *)
(* one is sent, which NoColour stands for.  The encoders find rectangles   *)
(* of one colour greedily, and give up for raw pixels when the result      *)
(* would be longer.  Coordinates keep their width: tiles are small.        *)
(***************************************************************************)
EXTENDS Integers, Sequences

EncodingSeqs == INSTANCE SequencesExt
EncodingSets == INSTANCE FiniteSetsExt

CONSTANTS
  Tiles,             \* tiles: width, height and the colours in them
  PixelColours,
  BytesPerPixel,
  NoColour

ASSUME EncodingAssumption ==
  /\ Tiles \subseteq (Nat \ {0}) \X (Nat \ {0}) \X SUBSET PixelColours
  /\ BytesPerPixel \in {1, 2, 4}
  /\ NoColour \notin PixelColours

VARIABLES
  bg, fg, validBg, validFg,      \* sendHextiles()
  clientBg, clientFg,            \* HandleHextile()
  drawnAsSent                    \* the client drew the last tile correctly

encoderVars == <<bg, fg, validBg, validFg>>
encodingState == <<encoderVars, clientBg, clientFg, drawnAsSent>>

Points(w, h) == (0..w - 1) \X (0..h - 1)

Pictures == UNION {[Points(s[1], s[2]) -> s[3]] : s \in Tiles}

WidthIn(data) == EncodingSets!Max({p[1] : p \in DOMAIN data}) + 1
HeightIn(data) == EncodingSets!Max({p[2] : p \in DOMAIN data}) + 1

Area(x, y, w, h) == (x .. x + w - 1) \X (y .. y + h - 1)
Subrect(colour, x, y, w, h) ==
  [colour |-> colour, x |-> x, y |-> y, w |-> w, h |-> h]

(* FillRectangle(). *)
FillRectangle(data, s) ==
  [p \in DOMAIN data |->
     IF p \in Area(s.x, s.y, s.w, s.h) THEN s.colour ELSE data[p]]

-----------------------------------------------------------------------------
(* Plausible mistakes in the definitions below. *)

(* The foreground is believed to survive a coloured tile. *)
ColouredKeepsForeground(valid) == valid

-----------------------------------------------------------------------------
(* The width of the vertical rectangle: that of its shortest row. *)
VerticalWidth(vx, hx) == vx

(* The biggest horizontal or vertical rectangle of one colour whose top    *)
(* left corner is <<x, y>>.                                                *)
BiggestSubrect(data, x, y) ==
  LET colour == data[<<x, y>>]
      runEnd(j) ==
        EncodingSets!Max({i \in x .. WidthIn(data) - 1 :
                            \A k \in x..i : data[<<k, j>>] = colour})
      vy == EncodingSets!Max({j \in y .. HeightIn(data) - 1 :
                                \A k \in y..j : data[<<x, k>>] = colour})
      hx == runEnd(y)
      vx == VerticalWidth(EncodingSets!Min({runEnd(j) : j \in y..vy}), hx)
      hy == EncodingSets!Max({j \in y..vy : \A k \in y..j : runEnd(k) >= hx})
      hw == hx - x + 1
      hh == hy - y + 1
      vw == vx - x + 1
      vh == vy - y + 1
  IN IF hw * hh > vw * vh THEN Subrect(colour, x, y, hw, hh)
     ELSE Subrect(colour, x, y, vw, vh)

(* The pixels in the order of the two loops of subrectEncode(). *)
RowOrder(data) ==
  [i \in 1..(WidthIn(data) * HeightIn(data)) |->
     <<(i - 1) % WidthIn(data), (i - 1) \div WidthIn(data)>>]

(* subrectEncode(): a pixel that is not background starts a rectangle,     *)
(* which is then marked as done; acc has the rectangles found so far and   *)
(* what is left of the picture.                                            *)
SubrectAt(acc, p, back) ==
  LET s == BiggestSubrect(acc.left, p[1], p[2])
  IN IF acc.left[p] = back THEN acc
     ELSE [subrects |-> Append(acc.subrects, s),
           left |-> FillRectangle(acc.left, [s EXCEPT !.colour = back])]

Subrects(data, back) ==
  LET order == RowOrder(data)
      after[n \in 0..Len(order)] ==
        IF n = 0 THEN [subrects |-> <<>>, left |-> data]
        ELSE SubrectAt(after[n - 1], order[n], back)
  IN after[Len(order)].subrects

(* Too long: a header and some bytes for each rectangle against raw pixels.*)
TooLong(data, subrects, header, bytesEach) ==
  subrects # <<>> /\
    header + Len(subrects) * bytesEach
      > WidthIn(data) * HeightIn(data) * BytesPerPixel

Filled(data, colour) == [p \in DOMAIN data |-> colour]

(* The rectangles in their order: a pixel has the colour of the last one   *)
(* that it is in.                                                          *)
Drawn(data, subrects) ==
  [p \in DOMAIN data |->
     LET filled == {i \in DOMAIN subrects :
                      LET s == subrects[i] IN p \in Area(s.x, s.y, s.w, s.h)}
     IN IF filled = {} THEN data[p]
        ELSE subrects[EncodingSets!Max(filled)].colour]

-----------------------------------------------------------------------------
(* RRE and CoRRE differ in the bytes of a rectangle's coordinates.         *)
(* getBgColour() takes the most frequent of 8 bit pixels, or else the      *)
(* first pixel.                                                            *)
BgColours(data) ==
  LET count(c) == EncodingSets!Quantify(DOMAIN data, LAMBDA p : data[p] = c)
  IN IF BytesPerPixel = 1
       THEN {c \in PixelColours : \A d \in PixelColours : count(d) <= count(c)}
       ELSE {data[<<0, 0>>]}

(* What a client that reads the encoding draws, or raw pixels. *)
DrawsAll(coordinates) ==
  /\ clientBg = NoColour            \* between rectangles
  /\ \E data \in Pictures :
       \E back \in BgColours(data) :
         LET subrects == Subrects(data, back)
         IN drawnAsSent' =
              (\/ TooLong(data, subrects, BytesPerPixel,
                          BytesPerPixel + coordinates)
               \/ Drawn(Filled(data, back), subrects) = data)
  /\ UNCHANGED <<encoderVars, clientBg, clientFg>>

SendRRE == DrawsAll(8)
SendCoRRE == DrawsAll(4)

-----------------------------------------------------------------------------
(* testColours(): looks until it meets a third colour. *)
TestColours(data) ==
  LET order == RowOrder(data)
      c1 == data[order[1]]
      others == {i \in DOMAIN order : data[order[i]] # c1}
      c2 == IF others = {} THEN NoColour
            ELSE data[order[EncodingSets!Min(others)]]
      third == {i \in DOMAIN order : data[order[i]] \notin {c1, c2}}
      seen == IF third = {} THEN DOMAIN order
              ELSE 1 .. (EncodingSets!Min(third) - 1)
      count(c) == EncodingSets!Quantify(seen, LAMBDA i : data[order[i]] = c)
  IN [solid |-> others = {}, mono |-> third = {},
      bg |-> IF count(c1) > count(c2) THEN c1 ELSE c2,
      fg |-> IF count(c1) > count(c2) THEN c2 ELSE c1]

(* A new rectangle: neither side knows a colour. *)
HextileInit ==
  /\ bg = NoColour /\ fg = NoColour
  /\ validBg = FALSE /\ validFg = FALSE
  /\ clientBg = NoColour /\ clientFg = NoColour
EncodingInit ==
  HextileInit /\ drawnAsSent = TRUE

NextRectangle ==
  /\ bg' = NoColour /\ fg' = NoColour
  /\ validBg' = FALSE /\ validFg' = FALSE
  /\ clientBg' = NoColour /\ clientFg' = NoColour
  /\ UNCHANGED drawnAsSent

(* Whether the foreground is still known after a coloured tile. *)
AfterColoured(valid) == FALSE

(* sendHextiles(): what one tile says, apart from the colours that the     *)
(* client knows already.                                                   *)
Hextiles ==
  {LET t        == TestColours(data)
       subrects == IF t.solid THEN <<>> ELSE Subrects(data, t.bg)
       bytes    == IF t.mono THEN 2 ELSE 2 + BytesPerPixel
   IN [raw |-> TooLong(data, subrects, 1, bytes),
       mono |-> ~t.solid /\ t.mono, coloured |-> ~t.mono,
       bg |-> t.bg, fg |-> t.fg, subrects |-> subrects, pixels |-> data] :
   data \in Pictures}

SendsBackground(m) == ~validBg \/ m.bg # bg
SendsForeground(m) == m.mono /\ (~validFg \/ m.fg # fg)

(* The colours that the server remembers. *)
Remember(m) ==
  /\ bg' = m.bg
  /\ fg' = IF SendsForeground(m) THEN m.fg ELSE fg
  /\ validBg' = ~m.raw
  /\ validFg' = CASE m.raw -> FALSE
                  [] m.coloured -> AfterColoured(validFg)
                  [] OTHER -> validFg \/ SendsForeground(m)

(* HandleHextile(): the rectangles of a coloured tile leave their colour   *)
(* in fg.                                                                  *)
HandleHextile(m) ==
  LET back == IF SendsBackground(m) THEN m.bg ELSE clientBg
      fore == IF SendsForeground(m) THEN m.fg ELSE clientFg
      list == [i \in DOMAIN m.subrects |->
                 IF m.coloured THEN m.subrects[i]
                 ELSE [m.subrects[i] EXCEPT !.colour = fore]]
  IN IF m.raw
       THEN drawnAsSent' = TRUE /\ UNCHANGED <<clientBg, clientFg>>
       ELSE /\ drawnAsSent' = (Drawn(Filled(m.pixels, back), list) = m.pixels)
            /\ clientBg' = back
            /\ clientFg' = IF list = <<>> THEN fore
                           ELSE EncodingSeqs!Last(list).colour

SendHextile ==
  \E m \in Hextiles : Remember(m) /\ HandleHextile(m)

EncodingNext == SendRRE \/ SendCoRRE \/ SendHextile \/ NextRectangle

EncodingSpec == EncodingInit /\ [][EncodingNext]_encodingState

-----------------------------------------------------------------------------
(* Whatever tiles came before, the client draws the tile that was sent: a  *)
(* colour that the server leaves out is the one that the client remembers. *)
DecodedIsEncoded == drawnAsSent
=============================================================================
