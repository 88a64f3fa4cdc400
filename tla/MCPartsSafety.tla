--------------------------- MODULE MCPartsSafety ---------------------------
(***************************************************************************)
(* The parts of the viewer and of the RFB library whose properties are all *)
(* of safety, checked in one run: the initial state chooses a part, and    *)
(* only that part takes steps.  They share no state.                       *)
(***************************************************************************)
EXTENDS HostHistory, Configuration, RfbHandshake, RfbRegion, RfbEncodings,
        RfbRectangles, RfbCursor, TightFileTransfer, RfbTight, RfbCompressed,
        RfbWavelet, RfbTranslate, UltraFileTransfer, RfbScale, RfbCursorShape

LOCAL Lists == INSTANCE SequencesExt
LOCAL Sets == INSTANCE FiniteSets

-----------------------------------------------------------------------------
MCTiles == {<<3, 2, {1, 2}>>, <<2, 2, {1, 2, 3}>>, <<1, 3, {1, 3}>>}

(* Images of 5 by 5 points: a solid rectangle on a solid or checked ground.*)
MCImages ==
  {[p \in (0..4) \X (0..4) |->
      IF p \in (a..b) \X (c..d) THEN 1 ELSE (p[1] + p[2]) % e] :
     a \in {0, 1}, b \in {3, 4}, c \in {0, 2}, d \in {2, 4}, e \in {1, 2}}
MCUpdateRegions ==
  {<<Box(0, 0, 5, 5)>>, <<Box(1, 0, 4, 5)>>,
   <<Box(0, 0, 2, 1), Box(3, 1, 2, 4)>>,
   <<Box(0, 0, 1, 1), Box(2, 0, 1, 1), Box(1, 1, 4, 3)>>}

(* A cursor of three points with two in its mask, and an empty one. *)
MCCursorShapes ==
  {[width |-> 3, xhot |-> 1, mask |-> {0, 1}, ink |-> 5],
   [width |-> 1, xhot |-> 0, mask |-> {}, ink |-> 4]}
MCCopyShifts == {1}
MCRequestedParts == {{1, 2}}

MCUltraDirectory == [p \in {"a", "b"} |-> IF p = "a" THEN 1 ELSE NoFile]
MCUltraContents == [i \in {1, 2} |-> IF i = 1 THEN <<"x", "y">> ELSE <<>>]

MCStoredFiles == [f \in {"two", "none"} |-> IF f = "two" THEN 2 ELSE 0]

MCTightSizes == {<<3, 2>>, <<1, 3>>}
MCTightConfs ==
  {[monoMinRectSize |-> 6, gradientMinRectSize |-> 6,
    idxMaxColorsDivisor |-> 2],
   [monoMinRectSize |-> 4, gradientMinRectSize |-> 7,
    idxMaxColorsDivisor |-> 4]}
MCQualityLevels == {-1, 2}

(* Tiles of one or two rows: all pictures in two colours, four pixels in   *)
(* four colours, and runs of one to thirteen pixels in up to five colours, *)
(* which for palettes of five and for packed ones of three go all ways.    *)
Picture(w, h, px) == [w |-> w, h |-> h, px |-> px]
Line(colours, lengths) ==
  Lists!FlattenSeq([i \in DOMAIN colours |->
                      [k \in 1..lengths[i] |-> colours[i]]])
MCZrleImages ==
  {Picture(1, 3, px) : px \in [1..3 -> {1, 2}]}
  \cup {Picture(2, 3, px) : px \in [1..6 -> {1, 2}]}
  \cup {Picture(8, 1, px) : px \in {p \in [1..8 -> {1, 2}] : p[1] = 1}}
  \cup {Picture(4, 1, px) : px \in {p \in [1..4 -> 1..4] : p[1] = 1}}
  \cup {Picture(8, 1, px) :
          px \in {p \in [1..8 -> 1..3] :
                   p[1] = 1 /\ \A i \in 1..7 : p[i] # p[i + 1]}}
  \cup {Picture(8, 1, Line(<<1, 2, 3, 4>>, l)) :
          l \in {<<1, 1, 1, 5>>, <<5, 1, 1, 1>>, <<2, 2, 2, 2>>}}
  \cup {Picture(8, 1, Line(<<1, 2, 3, 4, 1, 2, 3>>, l)) :
          l \in {<<1, 1, 1, 1, 1, 1, 2>>, <<2, 1, 1, 1, 1, 1, 1>>}}
  \cup {Picture(10, 1, Line(<<1, 2, 3, 4, 5, 1>>, l)) :
          l \in {<<1, 1, 1, 5, 1, 1>>, <<2, 2, 2, 2, 1, 1>>}}
  \cup {Picture(16, 1, Line(<<1, 2, 3, 4, 1, 2>>, l)) :
          l \in {<<3, 1, 1, 1, 9, 1>>, <<3, 3, 3, 3, 2, 2>>}}
  \cup {Picture(16, 1, Line(<<1, 2, 1>>, l)) :
          l \in {<<2, 1, 13>>, <<2, 12, 2>>, <<4, 11, 1>>}}
MCZrleQualityLevels == {2, 5, 7}

MCWaveletTiles ==
  {Picture(3, 2, px) : px \in [Grid(3, 2) -> {1, 6}]}
  \cup {Picture(2, 2, px) : px \in [Grid(2, 2) -> {0, 1, 6}]}
  \cup {Picture(5, 5, [p \in Grid(5, 5) |->
                         (a * p[1] + b * p[2] + e * p[1] * p[2]) % 8]) :
          a \in {0, 5}, b \in {1, 3}, e \in 0..2}
MCWaveletFilters ==
  {[v \in -3..3 |-> v], [v \in -3..3 |-> 0],
   [v \in -3..3 |-> IF v > 1 THEN 3 ELSE IF v < -1 THEN -3 ELSE 0]}

Samples3(r, g, b) ==
  [c \in Components |-> CASE c = "red" -> r [] c = "green" -> g [] OTHER -> b]
PixelFormat(bytes, max, shift, big) ==
  [bytes |-> bytes, max |-> max, shift |-> shift, big |-> big]
MCBGR233 == PixelFormat(1, Samples3(1, 1, 1), Samples3(0, 1, 2), FALSE)
MCServerFormats ==
  {MCBGR233,
   PixelFormat(2, Samples3(3, 3, 3), Samples3(0, 2, 4), FALSE),
   PixelFormat(4, Samples3(7, 7, 7), Samples3(0, 3, 6), FALSE)}
MCTrueFormats ==
  MCServerFormats \cup
  {PixelFormat(2, Samples3(1, 3, 1), Samples3(4, 2, 0), TRUE),
   PixelFormat(3, Samples3(7, 7, 7), Samples3(0, 3, 6), FALSE),
   PixelFormat(4, Samples3(7, 7, 7), Samples3(6, 3, 0), TRUE)}
MCColourMaps ==
  {[i \in Indices |-> [c \in Components |-> (i * k) % (ColourMapMax + 1)]] :
     k \in {1, 5}}

MCShapeSizes == {<<1, 1>>, <<3, 2>>, <<5, 1>>}
MCRichSizes == {<<1, 1>>, <<3, 1>>}

MCDrawnRects == {<<2, 4>>, <<4, 5>>}
MCScaleRequests == {<<1, 2>>}

-----------------------------------------------------------------------------
VARIABLE part
partsVars == <<part, historyVars, configVars,
               handshakeVars, regionState, encodingState, rectanglesVars,
               cursorVars, transferVars, tightVars, compressedVars,
               waveletVars, translateVars, ultraVars, scaleVars, shapeVars>>

(* The values of a part that is not chosen. *)
AnImage == [p \in (0..4) \X (0..4) |-> 1]
ACursor == CHOOSE s \in CursorShapes : s.mask = {}
ATightConf == CHOOSE c \in TightConfs : TRUE
ATile == CHOOSE t \in WaveletTiles : t.w = 2
AFilter == CHOOSE f \in WaveletFilters : TRUE

(* Only the chosen part starts in each of its initial states; the screen   *)
(* under the cursor has the first of the inks, which are alike.            *)
SafetyInit ==
  /\ part \in {"history", "config", "handshake", "region", "encodings",
               "rectangles", "cursor", "transfer", "tight", "compressed",
               "wavelet", "translate", "ultra", "scale", "shape"}
  /\ ShapeInit
  /\ part # "shape" => /\ shapeCursor.size = <<1, 1>>
                       /\ painted.mask = {}
                       /\ shapeCursor.richSource = NoBitmap
                       /\ \A v \in ShapeClients : useRichCursorEncoding[v]
  /\ RegionInit /\ EncodingInit
  /\ HistoryInit /\ (part # "history" => Listed = {})
  /\ ConfigInit
  /\ part # "config" => disk.version = 3 /\ disk.left_zoom = 0
                        /\ ~disk.last_hostname
  /\ HandshakeInit
  /\ part # "handshake" =>
       /\ screenMinor = 3 /\ ~authPasswdData
       /\ ~neverShared /\ ~alwaysShared /\ ~dontDisconnect
  /\ RectanglesInit
  /\ part # "rectangles" =>
       encoding = "Raw" /\ ~lastRect /\ image = AnImage
  /\ CursorInit /\ drawn[0] = 1 /\ (part # "cursor" => cursor = ACursor)
  /\ TransferInit
  /\ part # "transfer" =>
       tightServer \in [{"enabled", "viewOnly", "password", "reverse"} -> {FALSE}]
  /\ TightInit
  /\ part # "tight" => /\ tightFormat = 1
                       /\ tightConf = ATightConf
                       /\ qualityLevel = -1
  /\ CompressedInit
  /\ part # "compressed" => /\ zrleFormat = 1
                            /\ zrleEncoding = "zlib"
                            /\ zrleQuality = 2
  /\ WaveletInit
  /\ part # "wavelet" => /\ waveletTile = ATile
                         /\ waveletLevel = 1
                         /\ waveletFilter = AFilter
  /\ UltraInit /\ TranslateInit
  /\ part # "translate" =>
       ~economicTranslate /\ serverFormat = [true |-> TRUE, f |-> BGR233]
  /\ ScaleInit /\ (part # "scale" => trueColour)

Only(name) == part = name /\ UNCHANGED part

filePartVars == <<transferVars, ultraVars>>
serverPixelVars == <<scaleVars, shapeVars>>
serverPartVars ==
  <<historyVars, configVars, handshakeVars, cursorVars, filePartVars>>
rectanglePartVars == <<regionState, encodingState, rectanglesVars>>
pixelPartVars ==
  <<tightVars, compressedVars, waveletVars, translateVars, serverPixelVars>>

SafetyNext ==
  \/ /\ Only("history") /\ HistoryNext
     /\ UNCHANGED <<configVars, handshakeVars, cursorVars, filePartVars,
                    rectanglePartVars, pixelPartVars>>
  \/ /\ Only("config") /\ ConfigNext
     /\ UNCHANGED <<historyVars, handshakeVars, cursorVars, filePartVars,
                    rectanglePartVars, pixelPartVars>>
  \/ /\ Only("handshake") /\ HandshakeNext
     /\ UNCHANGED <<historyVars, configVars, cursorVars, filePartVars,
                    rectanglePartVars, pixelPartVars>>
  \/ /\ Only("region") /\ RegionNext
     /\ UNCHANGED <<serverPartVars, encodingState, rectanglesVars,
                    pixelPartVars>>
  \/ /\ Only("encodings") /\ EncodingNext
     /\ UNCHANGED <<serverPartVars, regionState, rectanglesVars,
                    pixelPartVars>>
  \/ /\ Only("rectangles") /\ RectanglesNext
     /\ UNCHANGED <<serverPartVars, regionState, encodingState, pixelPartVars>>
  \/ /\ Only("cursor") /\ CursorNext
     /\ UNCHANGED <<historyVars, configVars, handshakeVars, filePartVars,
                    rectanglePartVars, pixelPartVars>>
  \/ /\ Only("transfer") /\ TransferNext
     /\ UNCHANGED <<historyVars, configVars, handshakeVars, cursorVars,
                    ultraVars, rectanglePartVars, pixelPartVars>>
  \/ /\ Only("ultra") /\ UltraNext
     /\ UNCHANGED <<historyVars, configVars, handshakeVars, cursorVars,
                    transferVars, rectanglePartVars, pixelPartVars>>
  \/ /\ Only("tight") /\ TightNext
     /\ UNCHANGED <<serverPartVars, rectanglePartVars, compressedVars,
                    waveletVars, translateVars, serverPixelVars>>
  \/ /\ Only("compressed") /\ CompressedNext
     /\ UNCHANGED <<serverPartVars, rectanglePartVars, tightVars, waveletVars,
                    translateVars, serverPixelVars>>
  \/ /\ Only("wavelet") /\ WaveletNext
     /\ UNCHANGED <<serverPartVars, rectanglePartVars, tightVars,
                    compressedVars, translateVars, serverPixelVars>>
  \/ /\ Only("translate") /\ TranslateNext
     /\ UNCHANGED <<serverPartVars, rectanglePartVars, tightVars,
                    compressedVars, waveletVars, serverPixelVars>>
  \/ /\ Only("scale") /\ ScaleNext
     /\ UNCHANGED <<serverPartVars, rectanglePartVars, tightVars,
                    compressedVars, waveletVars, translateVars, shapeVars>>
  \/ /\ Only("shape") /\ ShapeNext
     /\ UNCHANGED <<serverPartVars, rectanglePartVars, tightVars,
                    compressedVars, waveletVars, translateVars, scaleVars>>

SafetySpec == SafetyInit /\ [][SafetyNext]_partsVars
=============================================================================
