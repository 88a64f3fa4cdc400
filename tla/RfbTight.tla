------------------------------ MODULE RfbTight ------------------------------
(***************************************************************************)
(* The Tight encoding of one rectangle: the choice of a subencoding, the   *)
(* filters and the four compression streams of libvncserver (tight.c), and *)
(* their counterparts in libvncclient (tight.c).  How an update is cut     *)
(* into rectangles is in RfbRectangles.                                    *)
(*                                                                         *)
(* A pixel is one colour sample: the three of a pixel are filtered alike.  *)
(* zlib is external: both ends of a stream count the blocks that went      *)
(* through it, and a block can only be read by the end that has read the   *)
(* ones before.  JPEG is external, and not exact.                          *)
(***************************************************************************)
EXTENDS Integers, Sequences

TightSets == INSTANCE FiniteSetsExt

CONSTANTS
  MaxSample,         \* redMax, greenMax and blueMax: 2^n - 1
  Samples,           \* the samples of the images
  TightSizes,        \* sizes of rectangles: pairs of width and height
  TightFormats,      \* the client's: bytes of a pixel, 3 if usePixelFormat24
  TightConfs,        \* rows of tightConf[]: monoMinRectSize,
                     \* gradientMinRectSize, idxMaxColorsDivisor
  QualityLevels,     \* of the client; -1 if it wants no JPEG
  ByteBits,          \* 8 in the code, as are the constants below 128, 256,
  Half,              \* 96, 12, 8 and 8, 7, and 4096
  MaxPalette,
  ManyColours,
  TIGHT_MIN_TO_COMPRESS,
  DETECT_MIN_WIDTH, DETECT_MIN_HEIGHT, DETECT_SUBROW_WIDTH,
  JPEG_MIN_RECT_SIZE,
  MaxChunks          \* bound: compressed blocks of a stream

ASSUME TightAssumption ==
  /\ MaxSample \in Nat /\ Samples \subseteq 0..MaxSample
  /\ TightSizes \subseteq (Nat \ {0}) \X (Nat \ {0})
  /\ TightFormats \subseteq 1..4
  /\ \A c \in TightConfs : c.idxMaxColorsDivisor \in Nat \ {0}
  /\ ByteBits \in Nat \ {0, 1} /\ MaxPalette \in Nat \ {0, 1}
  /\ Half \in Nat \ {0}
  /\ DETECT_SUBROW_WIDTH \in Nat \ {0} /\ DETECT_MIN_HEIGHT \in Nat \ {0}
  /\ DETECT_MIN_WIDTH = DETECT_SUBROW_WIDTH + 1
  /\ TIGHT_MIN_TO_COMPRESS \in Nat /\ MaxChunks \in Nat

VARIABLES
  tightFormat, tightConf, qualityLevel,
  zsChunks,          \* server: -1 if a stream is not active
  zlibStreamChunks,  \* client: likewise
  tightResult        \* of the last rectangle

tightVars == <<tightFormat, tightConf, qualityLevel, zsChunks,
               zlibStreamChunks, tightResult>>

Streams == 0..3

TightTypeOK ==
  /\ tightFormat \in TightFormats /\ tightConf \in TightConfs
  /\ qualityLevel \in QualityLevels
  /\ zsChunks \in [Streams -> -1..MaxChunks]
  /\ zlibStreamChunks \in [Streams -> -1..MaxChunks]
  /\ tightResult \in {"exact", "lossy", "wrong", "rejected", "divided by zero",
                      "failed"}

TightInit ==
  /\ tightFormat \in TightFormats /\ tightConf \in TightConfs
  /\ qualityLevel \in QualityLevels
  /\ zsChunks = [s \in Streams |-> -1]
  /\ zlibStreamChunks = [s \in Streams |-> -1]
  /\ tightResult = "exact"

TightImages ==
  UNION {[w : {s[1]}, h : {s[2]}, px : [1..(s[1] * s[2]) -> Samples]] :
           s \in TightSizes}

(* The place in px of a point, and the points in the order of px. *)
At(image, x, y) == image.px[y * image.w + x + 1]
XOf(i, w) == (i - 1) % w
YOf(i, w) == (i - 1) \div w

-----------------------------------------------------------------------------
(* Plausible mistakes in the definitions below. *)

(* Two colours are taken for eight bits a pixel. *)
BitsOfPaletteWide(palette) == ByteBits

-----------------------------------------------------------------------------
(* The palette. *)

(* PaletteInsert(): the colour's entry, or a new one at the end, moves up  *)
(* past the entries just before it that have lower counts.                 *)
PaletteInsert(palette, rgb, n) ==
  LET old   == {i \in DOMAIN palette : palette[i].rgb = rgb}
      place == IF old = {} THEN Len(palette) + 1 ELSE TightSets!Min(old)
      count == n + (IF old = {} THEN 0 ELSE palette[place].n)
      top   == TightSets!Min({i \in 1..place :
                                \A k \in i..(place - 1) :
                                  palette[k].n < count})
      size  == IF old = {} THEN Len(palette) + 1 ELSE Len(palette)
  IN [i \in 1..size |->
        IF i = top THEN [rgb |-> rgb, n |-> count]
        ELSE IF i \in (top + 1)..place THEN palette[i - 1]
        ELSE palette[i]]

PaletteFull(palette, rgb, max) ==
  /\ Len(palette) \in {MaxPalette, max}
  /\ \A i \in DOMAIN palette : palette[i].rgb # rgb

PaletteMaxColours(image) ==
  LET most == (image.w * image.h) \div tightConf.idxMaxColorsDivisor
  IN IF most < 2 /\ image.w * image.h >= tightConf.monoMinRectSize
     THEN 2 ELSE most

(* FillPalette##bpp() from the third colour on, run by run: none if the    *)
(* palette overflows.                                                      *)
RunEnds(px, i) == i = Len(px) \/ px[i + 1] # px[i]

LengthOfRun(px, third, i) ==
  TightSets!Max({n \in 1..(i - third + 1) :
                   \A k \in (i - n + 1)..i : px[k] = px[i]})

FillWith(acc, px, third, max, i) ==
  IF acc.full \/ ~RunEnds(px, i) THEN acc
  ELSE IF PaletteFull(acc.palette, px[i], max)
  THEN [acc EXCEPT !.full = TRUE]
  ELSE [acc EXCEPT !.palette =
                     PaletteInsert(@, px[i], LengthOfRun(px, third, i))]

FillFromThird(px, third, start, max) ==
  LET after[i \in 0..Len(px)] ==
        IF i < third THEN [palette |-> start, full |-> FALSE]
        ELSE FillWith(after[i - 1], px, third, max, i)
      filled == after[Len(px)]
  IN IF filled.full THEN <<>>
     ELSE [i \in DOMAIN filled.palette |-> filled.palette[i].rgb]

(* FillPalette8() and FillPalette##bpp(): <<>> for true colour.  The       *)
(* second colour's first pixel is not counted.                             *)
FillPalette(image) ==
  LET px     == image.px
      max    == PaletteMaxColours(image)
      c0     == px[1]
      others == {i \in DOMAIN px : px[i] # c0}
      c1     == px[TightSets!Min(others)]
      thirds == {i \in others : px[i] # c1}
      third  == TightSets!Min(thirds)
      count(c) == TightSets!Quantify(
                    IF thirds = {} THEN DOMAIN px ELSE 1..(third - 1),
                    LAMBDA i : px[i] = c)
      n0 == count(c0)
      n1 == count(c1) - 1
  IN IF others = {} THEN <<c0>>
     ELSE IF max < 2 THEN <<>>
     ELSE IF thirds = {} THEN IF n0 > n1 THEN <<c0, c1>> ELSE <<c1, c0>>
     ELSE IF tightFormat = 1 THEN <<>>
     ELSE FillFromThird(px, third,
                        PaletteInsert(PaletteInsert(<<>>, c0, n0), c1, n1),
                        max)

-----------------------------------------------------------------------------
(* DetectSmoothImage(). *)

(* What it asks of the rectangle before it looks at pixels. *)
MayBeSmooth(image) ==
  /\ tightFormat # 1
  /\ image.w >= DETECT_MIN_WIDTH /\ image.h >= DETECT_MIN_HEIGHT
  /\ image.w * image.h >= IF qualityLevel # -1 THEN JPEG_MIN_RECT_SIZE
                          ELSE tightConf.gradientMinRectSize

(* The pixels it looks at, a few to the right of each point of the         *)
(* diagonals of the squares along the longer side: pixelCount of them.     *)
SampledPixels(w, h) ==
  LET corners == IF w > h THEN {<<k * h, 0>> : k \in 0..((w - 1) \div h)}
                 ELSE {<<0, k * w>> : k \in 0..((h - 1) \div w)}
      diagonal(c) == {d \in 0..(h - 1) :
                        d < h - c[2] /\ d < w - c[1] - DETECT_SUBROW_WIDTH}
  IN UNION {{<<c[1] + d + dx, c[2] + d>> :
               d \in diagonal(c), dx \in 1..DETECT_SUBROW_WIDTH} :
              c \in corners}

-----------------------------------------------------------------------------
(* Filters of the server. *)

(* EncodeMonoRect##bpp(): each byte is the set of its foreground bits. *)
EncodeMonoRect(image, background) ==
  LET row == (image.w + ByteBits - 1) \div ByteBits
  IN [k \in 1..(row * image.h) |->
        {b \in 0..(ByteBits - 1) :
           LET x == XOf(k, row) * ByteBits + b
           IN x < image.w /\ At(image, x, YOf(k, row)) # background}]

(* EncodeIndexedRect##bpp(). *)
EncodeIndexedRect(image, palette) ==
  [i \in DOMAIN image.px |->
     (CHOOSE k \in DOMAIN palette : palette[k] = image.px[i]) - 1]

(* FilterGradient24() and FilterGradient##bpp(). *)
FilterGradient(image) ==
  LET sample(x, y) == IF x < 0 \/ y < 0 THEN 0 ELSE At(image, x, y)
      prediction(x, y) ==
        LET p == sample(x - 1, y) + sample(x, y - 1) - sample(x - 1, y - 1)
        IN IF p < 0 THEN 0 ELSE IF p > MaxSample THEN MaxSample ELSE p
  IN [i \in DOMAIN image.px |->
        (image.px[i] - prediction(XOf(i, image.w), YOf(i, image.w)))
          % (MaxSample + 1)]

-----------------------------------------------------------------------------
(* SendSubrect(): the message of a rectangle.  bytes is the length of its  *)
(* data before compression.                                                *)
SolidRect(image) ==
  [kind |-> "fill", stream |-> 0, palette |-> <<image.px[1]>>, data |-> <<>>,
   bytes |-> 0]

MonoRect(image, palette) ==
  LET data == EncodeMonoRect(image, palette[1])
  IN [kind |-> "palette", stream |-> 1, palette |-> palette, data |-> data,
      bytes |-> Len(data)]

IndexedRect(image, palette) ==
  [kind |-> "palette", stream |-> 2, palette |-> palette,
   data |-> EncodeIndexedRect(image, palette), bytes |-> image.w * image.h]

FullColourRect(image) ==
  [kind |-> "copy", stream |-> 0, palette |-> <<>>, data |-> image.px,
   bytes |-> image.w * image.h * tightFormat]

GradientRect(image) ==
  IF tightFormat = 1 THEN FullColourRect(image)
  ELSE [kind |-> "gradient", stream |-> 3, palette |-> <<>>,
        data |-> FilterGradient(image),
        bytes |-> image.w * image.h * tightFormat]

(* A server of 8 bits a pixel, or a JPEG image that is longer than the     *)
(* buffer, falls back to full colour.                                      *)
JpegRects(image) ==
  {FullColourRect(image),
   [kind |-> "jpeg", stream |-> 0, palette |-> <<>>, data |-> <<>>,
    bytes |-> 0]}

TightSubrects(image, smooth) ==
  LET palette == FillPalette(image)
      jpeg    == smooth /\ qualityLevel # -1
  IN CASE Len(palette) = 0 ->
            IF jpeg THEN JpegRects(image)
            ELSE {IF smooth THEN GradientRect(image) ELSE FullColourRect(image)}
       [] Len(palette) = 1 -> {SolidRect(image)}
       [] Len(palette) = 2 -> {MonoRect(image, palette)}
       [] OTHER ->
            IF Len(palette) > ManyColours /\ qualityLevel <= 3 /\ jpeg
            THEN JpegRects(image) ELSE {IndexedRect(image, palette)}

(* Whether DetectSmoothImage() is called, and has no pixels to divide by. *)
DividesByZero(image) ==
  LET colours == Len(FillPalette(image))
  IN /\ \/ colours = 0
        \/ colours > ManyColours /\ qualityLevel \in 0..3
     /\ MayBeSmooth(image)
     /\ SampledPixels(image.w, image.h) = {}

(* The first block makes a stream active. *)
NextChunk(chunks) == IF chunks = -1 THEN 1 ELSE chunks + 1

(* CompressData(): the block's number in its stream, 0 if it is too short  *)
(* to be compressed.                                                       *)
Chunk(msg) ==
  IF msg.kind \in {"fill", "jpeg"} \/ msg.bytes < TIGHT_MIN_TO_COMPRESS THEN 0
  ELSE NextChunk(zsChunks[msg.stream])

-----------------------------------------------------------------------------
(* SendCompressedData() and ReadCompactLen(): a length in up to three      *)
(* bytes, of which the first two keep a bit to say that there are more.    *)
CompactLen(n) ==
  IF n < Half THEN <<n>>
  ELSE IF n < Half * Half THEN <<(n % Half) + Half, n \div Half>>
  ELSE <<(n % Half) + Half, ((n \div Half) % Half) + Half,
         (n \div (Half * Half)) % (2 * Half)>>

ReadCompactLen(b) ==
  (b[1] % Half)
  + (IF b[1] < Half THEN 0
     ELSE (b[2] % Half) * Half
          + (IF b[2] < Half THEN 0 ELSE b[3] * Half * Half))

CompactLengths == 1..(2 * Half * Half * Half - 1)

-----------------------------------------------------------------------------
(* HandleTightBPP(). *)

(* InitFilterPaletteBPP(): bits of a pixel of a palette. *)
BitsOfPalette(palette) == IF Len(palette) = 2 THEN 1 ELSE ByteBits

BitsPixel(msg) ==
  IF msg.kind = "palette" THEN BitsOfPalette(msg.palette)
  ELSE tightFormat * ByteBits

(* Whether the client expects compressed data. *)
ExpectsChunk(msg, w, h) ==
  LET rowSize == (w * BitsPixel(msg) + ByteBits - 1) \div ByteBits
  IN h * rowSize >= TIGHT_MIN_TO_COMPRESS

(* FilterPaletteBPP(). *)
FilterPalette(msg, w, h) ==
  LET row == (w + ByteBits - 1) \div ByteBits
  IN [i \in 1..(w * h) |->
        IF Len(msg.palette) = 2
        THEN LET x == XOf(i, w)
                 byte == msg.data[YOf(i, w) * row + x \div ByteBits + 1]
             IN msg.palette[IF x % ByteBits \in byte THEN 2 ELSE 1]
        ELSE msg.palette[msg.data[i] + 1]]

(* FilterGradient24() and FilterGradientBPP(): from the pixels before. *)
Estimate(px, w, i) ==
  LET up == IF i > w THEN px[i - w] ELSE 0
      e  == px[i - 1] + up - (IF i > w THEN px[i - w - 1] ELSE 0)
  IN IF XOf(i, w) = 0 THEN up
     ELSE IF e > MaxSample THEN MaxSample ELSE IF e < 0 THEN 0 ELSE e

NextPixel(px, data, w, i) ==
  Append(px, (data[i] + Estimate(px, w, i)) % (MaxSample + 1))

GradientPixels(data, w, h) ==
  LET after[n \in 0..(w * h)] ==
        IF n = 0 THEN <<>> ELSE NextPixel(after[n - 1], data, w, n)
  IN after[w * h]

Decoded(msg, w, h) ==
  CASE msg.kind = "fill"     -> [i \in 1..(w * h) |-> msg.palette[1]]
    [] msg.kind = "copy"     -> msg.data
    [] msg.kind = "palette"  -> FilterPalette(msg, w, h)
    [] msg.kind = "gradient" -> GradientPixels(msg.data, w, h)

(* The client gives up. *)
Rejects(msg, chunk, w, h) ==
  \/ msg.kind = "jpeg" /\ tightFormat = 1
  \/ msg.kind = "palette" /\ Len(msg.palette) < 2
  \/ msg.kind \notin {"fill", "jpeg"} /\ ExpectsChunk(msg, w, h) # (chunk # 0)
  \/ chunk # 0 /\
       chunk # NextChunk(zlibStreamChunks[msg.stream])

HandleTight(msg, chunk, image) ==
  /\ tightResult' =
       CASE DividesByZero(image) -> "divided by zero"
         [] Rejects(msg, chunk, image.w, image.h) -> "rejected"
         [] msg.kind = "jpeg" -> "lossy"
         [] OTHER -> IF Decoded(msg, image.w, image.h) = image.px
                     THEN "exact" ELSE "wrong"
  /\ zlibStreamChunks' =
       IF chunk = 0 THEN zlibStreamChunks
       ELSE [zlibStreamChunks EXCEPT ![msg.stream] = chunk]

-----------------------------------------------------------------------------
(* rfbSetEncodings: the levels may change between updates. *)
TightEncodings ==
  /\ tightResult # "failed"
  /\ tightConf' \in TightConfs /\ qualityLevel' \in QualityLevels
  /\ UNCHANGED <<tightFormat, zsChunks, zlibStreamChunks, tightResult>>

SendTight ==
  /\ tightResult # "failed"
  /\ \E image \in TightImages, smooth \in BOOLEAN :
       /\ smooth => MayBeSmooth(image)
       /\ \E msg \in TightSubrects(image, smooth) :
            /\ Chunk(msg) <= MaxChunks
            /\ zsChunks' = IF Chunk(msg) = 0 THEN zsChunks
                           ELSE [zsChunks EXCEPT ![msg.stream] = Chunk(msg)]
            /\ HandleTight(msg, Chunk(msg), image)
  /\ UNCHANGED <<tightFormat, tightConf, qualityLevel>>

(* zlib or the connection fails: the client is dropped. *)
SendTightFails ==
  /\ tightResult # "failed" /\ tightResult' = "failed"
  /\ UNCHANGED <<tightFormat, tightConf, qualityLevel, zsChunks,
                 zlibStreamChunks>>

TightNext == TightEncodings \/ SendTight \/ SendTightFails

TightSpec == TightInit /\ [][TightNext]_tightVars

-----------------------------------------------------------------------------
LengthsAreRead ==
  \A n \in CompactLengths : ReadCompactLen(CompactLen(n)) = n

(* TightIsDecoded: whatever levels the client changes between rectangles,  *)
(* both ends agree on whether a rectangle is compressed and in which       *)
(* stream, so that the client rejects none, it draws the pixels that were  *)
(* sent unless they went as JPEG, which only a client with a quality level *)
(* gets, and the streams stay in step.  Every length of compressed data is *)
(* read as it was written.                                                 *)
TightIsDecoded ==
  /\ tightResult \in {"exact", "lossy", "failed"}
  /\ zlibStreamChunks = zsChunks
  /\ LengthsAreRead
=============================================================================
