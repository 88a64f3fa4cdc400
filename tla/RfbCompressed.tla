--------------------------- MODULE RfbCompressed ---------------------------
(***************************************************************************)
(* The encodings zlib, ultra and ZRLE (with its wavelet form ZYWRLE), from *)
(* the server's rectangle to the client's pixels: how a ZRLE tile chooses  *)
(* between raw pixels, run lengths, a palette and both, how the client     *)
(* reads it back, and which stream of zlib each end is in.  The server has *)
(* a stream for zlib (compStream) and one for ZRLE (zrleData->zs); the     *)
(* client reads both with the one decompStream.                            *)
(*                                                                         *)
(* A tile's data is a sequence of tokens: a pixel, of ZrleFormat bytes, or *)
(* a byte.  zlib is a stream of numbered blocks that is read only in order *)
(* by an end that has read all of it; LZO is exact.  The wavelet transform *)
(* is external: the coefficients of a tile are some other tile, and give a *)
(* picture back, not quite the same, at the level they were made with.     *)
(***************************************************************************)
EXTENDS Integers, Sequences, FiniteSets

ZrleSeqs == INSTANCE SequencesExt
ZrleSets == INSTANCE FiniteSetsExt

CONSTANTS
  ZrleImages,           \* images: w, h and px, the pixels row by row
  ZlibServerBytes,      \* bytes of a pixel of the server's frame buffer
  ZrleFormats,          \* of the client's: 1, 2, 3 (of 32 bits) and 4
  ZrleQualityLevels,    \* of the client, of those that ask for wavelets
  ZrleTileWidth, ZrleTileHeight,                       \* 64 and 64
  ZRLE_PALETTE_MAX_SIZE,                               \* 127
  MaxPackedPalette,                                    \* 16
  MaxRunByte,                                          \* 255
  VNC_ENCODE_ZLIB_MIN_COMP_SIZE,                       \* 17
  MaxBlocks             \* bound: blocks of a zlib stream

ASSUME CompressedAssumption ==
  /\ \A i \in ZrleImages : /\ i.w \in Nat \ {0} /\ i.h \in Nat \ {0}
                           /\ i.px \in Seq(Nat) /\ Len(i.px) = i.w * i.h
  /\ ZlibServerBytes \in {1, 2, 4}
  /\ ZrleFormats \subseteq 1..4 /\ ZrleQualityLevels \subseteq 0..8
  /\ ZrleTileWidth \in Nat \ {0} /\ ZrleTileHeight \in Nat \ {0}
  /\ ZRLE_PALETTE_MAX_SIZE \in 2..127
  /\ MaxPackedPalette \in 2..16 /\ MaxPackedPalette <= ZRLE_PALETTE_MAX_SIZE
  /\ MaxRunByte \in Nat \ {0, 1} /\ MaxBlocks \in Nat

VARIABLES
  zrleFormat,
  zrleEncoding,         \* preferredEncoding
  zrleQuality,          \* tightQualityLevel and appData.qualityLevel
  serverBlocks,         \* blocks sent in the streams "zlib" and "zrle"
  decompStream,         \* the client's: the stream it reads, blocks read
  zrleResult            \* of the last rectangle

compressedVars == <<zrleFormat, zrleEncoding, zrleQuality, serverBlocks,
                    decompStream, zrleResult>>

ZlibStreams == {"zlib", "zrle"}

CompressedTypeOK ==
  /\ zrleFormat \in ZrleFormats
  /\ zrleEncoding \in {"zlib", "ultra", "zrle", "zywrle"}
  /\ zrleQuality \in ZrleQualityLevels \cup {9}
  /\ serverBlocks \in [ZlibStreams -> 0..MaxBlocks]
  /\ decompStream \in [of : ZlibStreams \cup {"none"}, read : 0..MaxBlocks]
  /\ zrleResult \in {"exact", "lossy", "wrong", "no space", "closed"}

CompressedInit ==
  /\ zrleFormat \in ZrleFormats
  /\ zrleEncoding \in {"zlib", "ultra", "zrle", "zywrle"}
  /\ zrleQuality \in ZrleQualityLevels
  /\ serverBlocks = [s \in ZlibStreams |-> 0]
  /\ decompStream = [of |-> "none", read |-> 0]
  /\ zrleResult = "exact"

Pixel(c) == [is |-> "pixel", v |-> c]
Byte(n)  == [is |-> "byte", v |-> n]

(* The length of tokens in bytes. *)
Bytes(tokens) ==
  Len(tokens) + (zrleFormat - 1)
                  * Cardinality({i \in DOMAIN tokens : tokens[i].is = "pixel"})

-----------------------------------------------------------------------------
(* ZRLE_ENCODE_TILE. *)

(* Whether a run of equal pixels starts at a place, and how long it is.    *)
Starts(px, i) == i = 1 \/ px[i] # px[i - 1]

RunFrom(px, i) ==
  ZrleSets!Max({n \in 1..(Len(px) - i + 1) :
                  \A k \in i..(i + n - 1) : px[k] = px[i]})

(* zrlePaletteHelperInsert(): colours beyond the largest palette, and then *)
(* any run, only count.                                                    *)
HelperInsert(ph, c) ==
  IF ph.size >= ZRLE_PALETTE_MAX_SIZE THEN [ph EXCEPT !.size = @ + 1]
  ELSE IF ZrleSeqs!Contains(ph.palette, c) THEN ph
  ELSE [size |-> ph.size + 1, palette |-> Append(ph.palette, c)]

(* The palette that is filled run by run. *)
ZrlePalette(px) ==
  LET after[i \in 0..Len(px)] ==
        IF i = 0 THEN [size |-> 0, palette |-> <<>>]
        ELSE IF Starts(px, i) THEN HelperInsert(after[i - 1], px[i])
        ELSE after[i - 1]
  IN after[Len(px)]

(* zrlePaletteHelperLookup(). *)
ZrleIndex(palette, c) ==
  (CHOOSE i \in DOMAIN palette : palette[i] = c) - 1

BitsPerPackedPixel(size) ==
  CASE size = 1 -> 0 [] size = 2 -> 1 [] size \in 3..4 -> 2 [] OTHER -> 4

(* The four ways a tile can go, with the bytes they are taken to need, in  *)
(* the order in which they are tried: a later one must be shorter.         *)
Estimates(px, ph, level) ==
  LET runs  == {i \in DOMAIN px : Starts(px, i)}
      multi == Cardinality({i \in runs : RunFrom(px, i) > 1})
      raw   == (Len(px) * zrleFormat)
                 \div (IF zrleFormat = 1 THEN 1 ELSE 2^level)
  IN <<[how |-> "raw", bytes |-> raw],
       [how |-> "rle", bytes |-> (zrleFormat + 1) * Cardinality(runs)]>>
     \o (IF ph.size > ZRLE_PALETTE_MAX_SIZE THEN <<>>
         ELSE <<[how |-> "palette rle",
                 bytes |-> zrleFormat * ph.size + multi + Cardinality(runs)]>>)
     \o (IF ph.size > MaxPackedPalette THEN <<>>
         ELSE <<[how |-> "packed",
                 bytes |-> zrleFormat * ph.size
                   + (Len(px) * BitsPerPackedPixel(ph.size)) \div 8]>>)

Shortest(estimates) ==
  estimates[ZrleSets!Min({i \in DOMAIN estimates :
                            \A j \in DOMAIN estimates :
                              estimates[i].bytes <= estimates[j].bytes})].how

(* The length of a run, less one, in bytes of which only the last is not   *)
(* the largest.                                                            *)
RunLength(len) ==
  [i \in 1..((len - 1) \div MaxRunByte) |-> Byte(MaxRunByte)]
    \o <<Byte((len - 1) % MaxRunByte)>>

(* A plausible mistake: a run of two takes one index. *)
RunTokensShort(c, len, palette) ==
  LET index == ZrleIndex(palette, c)
  IN IF palette = <<>> THEN <<Pixel(c)>> \o RunLength(len)
     ELSE IF len <= 2 THEN <<Byte(index)>>
     ELSE <<Byte(index + 128)>> \o RunLength(len)

(* A run without a palette, and with one: runs of one and two are repeated *)
(* indices.                                                                *)
RunTokens(c, len, palette) ==
  LET index == ZrleIndex(palette, c)
  IN IF palette = <<>> THEN <<Pixel(c)>> \o RunLength(len)
     ELSE IF len <= 2 THEN [k \in 1..len |-> Byte(index)]
     ELSE <<Byte(index + 128)>> \o RunLength(len)

RleTokens(px, palette) ==
  ZrleSeqs!FlattenSeq(
    [i \in DOMAIN px |->
       IF Starts(px, i) THEN RunTokens(px[i], RunFrom(px, i), palette)
       ELSE <<>>])

(* A byte of indices of bppp bits, the first in the highest bits.          *)
PackedByte(index, bppp) ==
  LET shifted[b \in 0..(8 \div bppp)] ==
        IF b = 0 THEN 0 ELSE shifted[b - 1] * 2^bppp + index[b]
  IN shifted[8 \div bppp]

(* Each row in whole bytes. *)
PackedTokens(px, w, palette) ==
  LET bppp    == BitsPerPackedPixel(Len(palette))
      perByte == 8 \div bppp
      rowLen  == (w + perByte - 1) \div perByte
      index(k, b) ==
        LET x == ((k - 1) % rowLen) * perByte + b - 1
        IN IF x >= w THEN 0
           ELSE ZrleIndex(palette, px[((k - 1) \div rowLen) * w + x + 1])
  IN [k \in 1..(rowLen * (Len(px) \div w)) |->
        Byte(PackedByte([b \in 1..perByte |-> index(k, b)], bppp))]

PlainTile(px, w, level) ==
  LET ph  == ZrlePalette(px)
      how == Shortest(Estimates(px, ph, level))
      pixels(colours) == [i \in DOMAIN colours |-> Pixel(colours[i])]
  IN CASE ph.size = 1 -> <<Byte(1), Pixel(px[1])>>
       [] OTHER -> CASE
            how = "raw" -> <<Byte(0)>> \o pixels(px)
         [] how = "rle" -> <<Byte(128)>> \o RleTokens(px, <<>>)
         [] how = "palette rle" ->
              <<Byte(128 + ph.size)>> \o pixels(ph.palette)
                \o RleTokens(px, ph.palette)
         [] how = "packed" ->
              <<Byte(ph.size)>> \o pixels(ph.palette)
                \o PackedTokens(px, w, ph.palette)

(* A raw tile of ZYWRLE: the type, and the coefficients as a tile without  *)
(* wavelets.                                                               *)
ZrleTile(px, w, level, coefficients) ==
  LET tile == PlainTile(px, w, level)
  IN IF level > 0 /\ zrleFormat # 1 /\ tile[1] = Byte(0)
     THEN <<Byte(0)>> \o PlainTile(coefficients, w, 0) ELSE tile

-----------------------------------------------------------------------------
(* rfbSendRectEncodingZRLE() and ZRLE_ENCODE. *)
ZywrleLevel ==
  IF zrleEncoding = "zrle" THEN 0
  ELSE CASE zrleQuality \in 0..2 -> 3
         [] zrleQuality \in 3..5 -> 2
         [] OTHER                -> 1

(* The tiles of an image, row by row: their widths and pixels. *)
ZrleTiles(image) ==
  LET across == (image.w + ZrleTileWidth - 1) \div ZrleTileWidth
      down   == (image.h + ZrleTileHeight - 1) \div ZrleTileHeight
      tile(tx, ty) ==
        LET w == ZrleSets!Min({ZrleTileWidth, image.w - tx})
            h == ZrleSets!Min({ZrleTileHeight, image.h - ty})
        IN [w |-> w,
            px |-> [i \in 1..(w * h) |->
                      image.px[(ty + (i - 1) \div w) * image.w
                               + tx + ((i - 1) % w) + 1]]]
  IN [k \in 1..(across * down) |->
        tile(((k - 1) % across) * ZrleTileWidth,
             ((k - 1) \div across) * ZrleTileHeight)]

-----------------------------------------------------------------------------
(* HandleZRLETile(): a sequence of pixels, the tokens that are left, and   *)
(* the level at which the pixels are made of coefficients.                 *)
ClientZywrleLevel == IF zrleQuality < 0 THEN 0 ELSE 3 - zrleQuality \div 3

TileFailed == [ok |-> FALSE, px |-> <<>>, rest |-> <<>>, level |-> 0]

TileDone(px, rest) == [ok |-> TRUE, px |-> px, rest |-> rest, level |-> 0]

(* The colours that n tokens from the start of s are, <<>> if they are not *)
(* n pixels.                                                               *)
ReadPixels(s, n) ==
  IF Len(s) >= n /\ \A i \in 1..n : s[i].is = "pixel"
  THEN [i \in 1..n |-> s[i].v] ELSE <<>>

ReadRaw(s, n) ==
  LET px == ReadPixels(s, n)
  IN IF px = <<>> THEN TileFailed ELSE TileDone(px, SubSeq(s, n + 1, Len(s)))

ReadPacked(type, s, w, h) ==
  LET bpp     == IF type > 4 THEN 4 ELSE IF type > 2 THEN 2 ELSE 1
      divider == 8 \div bpp
      rowLen  == (w + divider - 1) \div divider
      palette == ReadPixels(s, type)
      at(x, y) == type + y * rowLen + x \div divider + 1
      index(x, y) == (s[at(x, y)].v \div 2^(8 - bpp * ((x % divider) + 1)))
                       % 2^bpp
      pixel(i) == index((i - 1) % w, (i - 1) \div w)
  IN IF palette = <<>> \/ Len(s) < type + rowLen * h
        \/ \E k \in (type + 1)..(type + rowLen * h) : s[k].is # "byte"
        \/ \E i \in 1..(w * h) : pixel(i) >= type
     THEN TileFailed
     ELSE TileDone([i \in 1..(w * h) |-> palette[pixel(i) + 1]],
                   SubSeq(s, type + rowLen * h + 1, Len(s)))

(* The run at the head of s: an index into the palette if there is one, or *)
(* a pixel, and the length unless it is an index alone.                    *)
ReadRun(s, palette) ==
  LET head == s[1]
      ends == {i \in 2..Len(s) : s[i] # Byte(MaxRunByte)}
      last == ZrleSets!Min(ends)
      colour == IF palette = <<>> THEN head.v ELSE palette[(head.v % 128) + 1]
  IN IF s = <<>> \/ head.is # (IF palette = <<>> THEN "pixel" ELSE "byte")
     THEN [ok |-> FALSE]
     ELSE IF palette # <<>> /\ head.v % 128 >= Len(palette) THEN [ok |-> FALSE]
     ELSE IF palette # <<>> /\ head.v < 128
     THEN [ok |-> TRUE, c |-> colour, len |-> 1, rest |-> Tail(s)]
     ELSE IF ends = {} \/ s[last].is # "byte" THEN [ok |-> FALSE]
     ELSE [ok |-> TRUE, c |-> colour,
           len |-> 1 + (last - 2) * MaxRunByte + s[last].v,
           rest |-> SubSeq(s, last + 1, Len(s))]

(* Runs, until there are n pixels: a run of more is cut.  Each has a pixel *)
(* at least.                                                               *)
AddRun(tile, i, palette, n) ==
  LET run   == ReadRun(tile.rest, palette)
      drawn == ZrleSets!Min({run.len, n - Len(tile.px)})
  IN IF ~tile.ok \/ Len(tile.px) >= i THEN tile
     ELSE IF ~run.ok THEN TileFailed
     ELSE TileDone(tile.px \o [k \in 1..drawn |-> run.c], run.rest)

ReadRuns(s, palette, n) ==
  LET after[i \in 0..n] ==
        IF i = 0 THEN TileDone(<<>>, s) ELSE AddRun(after[i - 1], i, palette, n)
  IN after[n]

ReadPlainTile(s, w, h) ==
  LET type == s[1].v
      rest == Tail(s)
  IN IF s = <<>> \/ s[1].is # "byte" THEN TileFailed
     ELSE CASE type = 0 -> ReadRaw(rest, w * h)
            [] type = 1 ->
                 IF ReadPixels(rest, 1) = <<>> THEN TileFailed
                 ELSE TileDone([i \in 1..(w * h) |-> rest[1].v], Tail(rest))
            [] type \in 2..127 -> ReadPacked(type, rest, w, h)
            [] type = 128 -> ReadRuns(rest, <<>>, w * h)
            [] type = 129 -> TileFailed
            [] OTHER ->
                 LET palette == ReadPixels(rest, type - 128)
                 IN IF palette = <<>> THEN TileFailed
                    ELSE ReadRuns(SubSeq(rest, type - 127, Len(rest)), palette,
                                  w * h)

HandleZRLETile(s, w, h) ==
  IF s # <<>> /\ s[1] = Byte(0) /\ zrleFormat # 1 /\ zrleEncoding = "zywrle"
       /\ ClientZywrleLevel > 0
  THEN [ReadPlainTile(Tail(s), w, h) EXCEPT !.level = ClientZywrleLevel]
  ELSE ReadPlainTile(s, w, h)

(* What became of a tile px that was sent as coefficients at a level. *)
TileResult(tile, px, coefficients, level) ==
  IF ~tile.ok THEN "wrong"
  ELSE IF tile.level = 0 THEN IF tile.px = px THEN "exact" ELSE "wrong"
  ELSE IF tile.px = coefficients /\ tile.level = level THEN "lossy"
  ELSE "wrong"

(* HandleZRLE(): the tiles in order, from one buffer that holds twice the  *)
(* pixels.  Wavelets turn a tile into another, which has the same colours  *)
(* in reverse or only one of them.                                         *)
Coefficients(px, reversed) ==
  IF reversed THEN ZrleSeqs!Reverse(px) ELSE [k \in DOMAIN px |-> px[1]]

SentTile(tile, reversed) ==
  ZrleTile(tile.px, tile.w, ZywrleLevel, Coefficients(tile.px, reversed))

NextTile(acc, tile, reversed) ==
  LET read == HandleZRLETile(acc.rest, tile.w, Len(tile.px) \div tile.w)
      result == TileResult(read, tile.px, Coefficients(tile.px, reversed),
                           ZywrleLevel)
  IN [rest |-> read.rest, results |-> acc.results \cup {result}]

ZrleResult(image, reversed) ==
  LET tiles == ZrleTiles(image)
      sent  == ZrleSeqs!FlattenSeq(
                 [i \in DOMAIN tiles |-> SentTile(tiles[i], reversed)])
      after[i \in 0..Len(tiles)] ==
        IF i = 0 THEN [rest |-> sent, results |-> {}]
        ELSE NextTile(after[i - 1], tiles[i], reversed)
      results == after[Len(tiles)].results
  IN IF Bytes(sent) > 2 * image.w * image.h * zrleFormat THEN "no space"
     ELSE IF "wrong" \in results THEN "wrong"
     ELSE IF "lossy" \in results THEN "lossy" ELSE "exact"

-----------------------------------------------------------------------------
(* The next block of a stream of zlib, and inflate() of it by the client:  *)
(* it gives up if the block does not follow those it has read.             *)
SendBlock(stream, result) ==
  LET block == serverBlocks[stream] + 1
      fits  == decompStream.of \in {stream, "none"} /\ decompStream.read = block - 1
  IN /\ block <= MaxBlocks
     /\ serverBlocks' = [serverBlocks EXCEPT ![stream] = block]
     /\ decompStream' = IF fits THEN [of |-> stream, read |-> block]
                        ELSE decompStream
     /\ zrleResult' = IF fits THEN result ELSE "closed"

(* rfbSetEncodings: the client asks for another encoding. *)
CompressedEncodings ==
  /\ zrleResult # "closed"
  /\ zrleEncoding' \in {"zlib", "ultra", "zrle", "zywrle"}
  /\ zrleQuality' \in ZrleQualityLevels
  /\ UNCHANGED <<zrleFormat, serverBlocks, decompStream, zrleResult>>

(* rfbSendRectEncodingZRLE() and HandleZRLE(): a plain ZRLE rectangle makes *)
(* the client ask for the highest quality from then on.                    *)
SendZrle(image) ==
  /\ zrleResult # "closed" /\ zrleEncoding \in {"zrle", "zywrle"}
  /\ \E reversed \in BOOLEAN : SendBlock("zrle", ZrleResult(image, reversed))
  /\ zrleQuality' = IF zrleEncoding = "zrle" THEN 9 ELSE zrleQuality
  /\ UNCHANGED <<zrleFormat, zrleEncoding>>

(* rfbSendOneRectEncodingZlib() and HandleZlibBPP(): a rectangle of few    *)
(* bytes, before the translation to the client's format, goes raw.         *)
SendZlib(image) ==
  /\ zrleResult # "closed" /\ zrleEncoding = "zlib"
  /\ IF image.w * image.h * ZlibServerBytes < VNC_ENCODE_ZLIB_MIN_COMP_SIZE
     THEN zrleResult' = "exact" /\ UNCHANGED <<serverBlocks, decompStream>>
     ELSE SendBlock("zlib", "exact")
  /\ UNCHANGED <<zrleFormat, zrleEncoding, zrleQuality>>

(* rfbSendOneRectEncodingUltra() and HandleUltraBPP(): no state. *)
SendUltra ==
  /\ zrleResult # "closed" /\ zrleEncoding = "ultra"
  /\ zrleResult' = "exact"
  /\ UNCHANGED <<zrleFormat, zrleEncoding, zrleQuality, serverBlocks,
                 decompStream>>

CompressedNext ==
  \/ CompressedEncodings
  \/ \E image \in ZrleImages : SendZrle(image)
  \/ \E image \in ZrleImages : SendZlib(image)
  \/ SendUltra

CompressedSpec == CompressedInit /\ [][CompressedNext]_compressedVars

-----------------------------------------------------------------------------
(* CompressedIsDecoded: while the client has used only one of zlib and     *)
(* ZRLE, every rectangle is drawn as it was sent (with the wavelets, as    *)
(* the level of both ends lets it), fits the client's buffer, and leaves   *)
(* the streams of both ends at the same block.  Once both are used, the    *)
(* client's single stream fails.  The levels -1 and 9 are left out of      *)
(* those at which ZYWRLE is asked for: the server then uses wavelets of    *)
(* level 1, and the client undoes none.                                    *)
CompressedIsDecoded ==
  LET used == {s \in ZlibStreams : serverBlocks[s] > 0}
  IN IF used = ZlibStreams THEN zrleResult = "closed"
     ELSE /\ zrleResult \in {"exact", "lossy"}
          /\ \A s \in used : decompStream = [of |-> s, read |-> serverBlocks[s]]
=============================================================================
