---------------------------- MODULE RfbTranslate ----------------------------
(***************************************************************************)
(* The colours of a client (libvncserver's translate.c and its table       *)
(* templates): the table that turns the server's pixels into the client's  *)
(* format, and the colour maps of either side.  The application draws,     *)
(* changes its colour map and replaces the framebuffer by one of another   *)
(* format; the client may ask for a format of its own, once, before its    *)
(* first request.  The picture is one pixel.                               *)
(*                                                                         *)
(* A pixel is a number; the bits of its three samples do not overlap, so   *)
(* that they are added where the code joins them with "or".                *)
(***************************************************************************)
EXTENDS Integers

TranslateSets == INSTANCE FiniteSetsExt

CONSTANTS
  ByteValues,         \* 256
  TrueFormats,        \* formats without colour map: bytes, max, shift, big
  ServerFormats,      \* of those, the formats of the server's framebuffer
  ColourMaps,         \* colour maps: from pixels of one byte to colours
  ColourMapMax,       \* 255: of the samples in a colour map
  PixelSamples,       \* samples that are drawn, cut to what a format holds
  BGR233              \* the format of a client with colour map, one byte

Components == {"red", "green", "blue"}

(* A format with a colour map has the samples of BGR233, which it does not *)
(* use.                                                                    *)
Formats == [true : {TRUE}, f : TrueFormats] \cup [true : {FALSE}, f : {BGR233}]

Indices == 0..(ByteValues - 1)

(* The pixels of so many bytes are the numbers below this one. *)
PixelValues(bytes) ==
  CASE bytes = 1 -> ByteValues
    [] bytes = 2 -> ByteValues * ByteValues
    [] bytes = 3 -> ByteValues * ByteValues * ByteValues
    [] OTHER     -> ByteValues * ByteValues * ByteValues * ByteValues

(* The lowest bit of a sample in a pixel, and the one after its highest.   *)
Lowest(f, c) == 2^f.shift[c]
Beyond(f, c) == Lowest(f, c) * (f.max[c] + 1)

(* A format as the protocol describes them: the greatest values are all    *)
(* bits set, so that samples and bytes begin at powers of two, and each    *)
(* sample has bits of its own in the pixel.                                *)
IsFormat(f) ==
  /\ f.bytes \in 1..4
  /\ \A c \in Components : f.max[c] \in Nat \ {0} /\ Lowest(f, c) \in Nat \ {0}
  /\ \A c \in Components : PixelValues(f.bytes) % Beyond(f, c) = 0
  /\ \A c, d \in Components :
       c # d => \/ Lowest(f, d) % Beyond(f, c) = 0
                \/ Lowest(f, c) % Beyond(f, d) = 0
  /\ \A c \in Components : \A n \in 1..4 :
       \/ PixelValues(n) % Lowest(f, c) = 0
       \/ Lowest(f, c) % PixelValues(n) = 0

(* The maps of BGR233 have far more colours than its samples.              *)
ASSUME TranslateAssumption ==
  /\ ByteValues \in Nat \ {0} /\ ColourMapMax \in Nat \ {0}
  /\ PixelSamples \subseteq Nat
  /\ \A f \in TrueFormats : IsFormat(f)
  /\ BGR233 \in TrueFormats /\ BGR233.bytes = 1
  /\ \A c \in Components : /\ (ColourMapMax + 1) % (BGR233.max[c] + 1) = 0
                           /\ 2 * BGR233.max[c] <= ColourMapMax
  /\ ServerFormats \subseteq TrueFormats
  /\ ColourMaps \subseteq [Indices -> [Components -> 0..ColourMapMax]]

NoMap == [i \in Indices |-> [c \in Components |-> 0]]

VARIABLES
  serverFormat, colourMap, economicTranslate,
  serverPixel,       \* the framebuffer
  clState,           \* "handshake" or "normal"; "confused" after a message
                     \* that the handshake does not have
  clFormat,          \* cl->format
  siFormat,          \* the client's idea of it
  readyForSetColourMapEntries,
  lookup,            \* translateFn and translateLookupTable
  clientMap,         \* the client's colour map
  isModified, isRequested,
  clientPixel        \* what the client was sent: -1 at first

translateVars == <<serverFormat, colourMap, economicTranslate, serverPixel,
                   clState, clFormat, siFormat, readyForSetColourMapEntries,
                   lookup, clientMap, isModified, isRequested, clientPixel>>

(* Shift and mask. *)
Sample(f, v, c) == (v \div Lowest(f, c)) % (f.max[c] + 1)

Sum3(value) == value["red"] + value["green"] + value["blue"]

PixelOf(f, sample) == Sum3([c \in Components |-> sample[c] * Lowest(f, c)])

(* Pixels that are drawn in a format. *)
Pixels(format) ==
  IF ~format.true THEN Indices
  ELSE {PixelOf(format.f, [c \in Components |->
                            IF s[c] <= format.f.max[c] THEN s[c]
                            ELSE format.f.max[c]]) :
          s \in [Components -> PixelSamples]}

TranslateTypeOK ==
  /\ serverFormat \in Formats /\ clFormat \in Formats /\ siFormat \in Formats
  /\ colourMap \in ColourMaps \cup {NoMap}
  /\ economicTranslate \in BOOLEAN /\ readyForSetColourMapEntries \in BOOLEAN
  /\ isModified \in BOOLEAN /\ isRequested \in BOOLEAN
  /\ serverPixel \in Nat /\ clientPixel \in Nat \cup {-1}
  /\ clState \in {"handshake", "normal", "confused"}
  /\ lookup.by \in {"none", "single", "rgb", "bytes"}
  /\ DOMAIN clientMap = Indices

-----------------------------------------------------------------------------
(* The tables. *)

(* rfbInitOneRGBTable, rfbInitTrueColourSingleTable: to the nearest. *)
Rescaled(sample, inMax, outMax) == (sample * outMax + inMax \div 2) \div inMax

(* SwapOUT(): the bytes from the lowest on. *)
LowByte(v) == v % ByteValues
UpperBytes(v) == v \div ByteValues

SwapOut(f, v) ==
  LET v1 == UpperBytes(v)  v2 == UpperBytes(v1)  v3 == UpperBytes(v2)
      two == LowByte(v) * ByteValues + LowByte(v1)
      three == two * ByteValues + LowByte(v2)
  IN CASE f.bytes = 2 -> two
       [] f.bytes = 3 -> three
       [] OTHER       -> three * ByteValues + LowByte(v3)

ToOrder(in, out, v) ==
  IF in.big # out.big /\ out.bytes # 1 THEN SwapOut(out, v) ELSE v

(* rfbInitTrueColourSingleTable. *)
TrueColourSingleTable(in, out) ==
  [v \in 0..(PixelValues(in.bytes) - 1) |->
     ToOrder(in, out,
             PixelOf(out, [c \in Components |->
                            Rescaled(Sample(in, v, c), in.max[c], out.max[c])]))]

(* rfbInitColourMapSingleTable. *)
ColourMapSingleTable(map, in, out) ==
  [v \in Indices |->
     ToOrder(in, out,
             PixelOf(out, [c \in Components |->
                            (map[v][c] * (1 + out.max[c]))
                              \div (ColourMapMax + 1)]))]

(* rfbInitTrueColourRGBTables. *)
TrueColourRGBTables(in, out) ==
  [c \in Components |->
     [s \in 0..in.max[c] |->
        ToOrder(in, out, Rescaled(s, in.max[c], out.max[c]) * Lowest(out, c))]]

(* The choice of rfbSetTranslateFunction(), for a client without colour    *)
(* map.  The tables for pixels of three bytes are indexed by their bytes.  *)
LookupFor(in, map, out, economic) ==
  CASE in = out -> [by |-> "none"]
    [] in # out /\ ~in.true ->
         [by |-> "single", table |-> ColourMapSingleTable(map, in.f, out.f)]
    [] in # out /\ in.true /\ (in.f.bytes = 1 \/ (in.f.bytes = 2 /\ ~economic)) ->
         [by |-> "single", table |-> TrueColourSingleTable(in.f, out.f)]
    [] OTHER ->
         [by |-> IF out.f.bytes = 3 THEN "bytes" ELSE "rgb",
          table |-> TrueColourRGBTables(in.f, out.f)]

(* cl->translateFn.  Single bytes of a table of three-byte pixels are no   *)
(* pixels of any colour: what they add up to is not looked at.             *)
Translated(in, v) ==
  CASE lookup.by = "none"   -> v
    [] lookup.by = "single" -> lookup.table[v]
    [] lookup.by = "rgb"    ->
         Sum3([c \in Components |-> lookup.table[c][Sample(in.f, v, c)]])
    [] lookup.by = "bytes"  -> 0

(* rfbSetClientColourMapBGR233(). *)
BGR233Map ==
  [i \in Indices |->
     [c \in Components |->
        (Sample(BGR233, i, c) * ColourMapMax) \div BGR233.max[c]]]

(* rfbSetTranslateFunction(): a client with colour map gets BGR233. *)
SetTranslateFunction(in, map, format) ==
  LET f == [true |-> TRUE, f |-> IF format.true THEN format.f ELSE BGR233]
  IN /\ clFormat' = f
     /\ lookup' = LookupFor(in, map, f, economicTranslate)
     /\ clientMap' = IF format.true THEN clientMap ELSE BGR233Map

-----------------------------------------------------------------------------
(* rfbNewClient(): the server's format, and no translation. *)
TranslateInit ==
  /\ \E f \in {g \in Formats : g.true => g.f \in ServerFormats} :
       /\ serverFormat = f /\ clFormat = f /\ siFormat = f
       /\ colourMap \in IF f.true THEN {NoMap} ELSE ColourMaps
       /\ serverPixel = 0
  /\ economicTranslate \in BOOLEAN
  /\ clState = "handshake"
  /\ readyForSetColourMapEntries = FALSE
  /\ lookup = [by |-> "none"] /\ clientMap = NoMap
  /\ isModified = TRUE /\ isRequested = FALSE /\ clientPixel = -1

(* rfbProcessClientInitMessage(): the format that the screen has now. *)
ServerInitSent ==
  /\ clState = "handshake" /\ clState' = "normal"
  /\ siFormat' = serverFormat
  /\ UNCHANGED <<serverFormat, colourMap, economicTranslate, serverPixel,
                 clFormat, readyForSetColourMapEntries, lookup, clientMap,
                 isModified, isRequested, clientPixel>>

(* rfbSetPixelFormat: before the first request. *)
SetPixelFormat(format) ==
  /\ clState = "normal" /\ ~readyForSetColourMapEntries
  /\ readyForSetColourMapEntries' = TRUE
  /\ siFormat' = format
  /\ SetTranslateFunction(serverFormat, colourMap, format)
  /\ UNCHANGED <<serverFormat, colourMap, economicTranslate, serverPixel,
                 clState, isModified, isRequested, clientPixel>>

(* rfbFramebufferUpdateRequest: the first one of a client that has not set *)
(* a format makes the server send its colour map.                          *)
TranslateRequest ==
  /\ clState = "normal" /\ isRequested' = TRUE
  /\ readyForSetColourMapEntries' = TRUE
  /\ clientMap' = IF readyForSetColourMapEntries \/ clFormat.true
                       \/ serverFormat.true
                  THEN clientMap ELSE colourMap
  /\ UNCHANGED <<serverFormat, colourMap, economicTranslate, serverPixel,
                 clState, clFormat, siFormat, lookup, isModified, clientPixel>>

(* rfbSendFramebufferUpdate(). *)
SendTranslated ==
  /\ isModified /\ isRequested
  /\ isModified' = FALSE /\ isRequested' = FALSE
  /\ clientPixel' = Translated(serverFormat, serverPixel)
  /\ UNCHANGED <<serverFormat, colourMap, economicTranslate, serverPixel,
                 clState, clFormat, siFormat, readyForSetColourMapEntries,
                 lookup, clientMap>>

(* The application draws and marks it as modified. *)
DrawPixel(v) ==
  /\ serverPixel' = v /\ isModified' = TRUE
  /\ UNCHANGED <<serverFormat, colourMap, economicTranslate, clState, clFormat,
                 siFormat, readyForSetColourMapEntries, lookup, clientMap,
                 isRequested, clientPixel>>

(* A plausible mistake in the next definition: the old table is kept. *)
LookupKept(map) == lookup

(* rfbSetClientColourMap(): a new table for a client without colour map. *)
LookupOfMap(map) ==
  IF readyForSetColourMapEntries /\ clFormat.true
  THEN [by |-> "single",
        table |-> ColourMapSingleTable(map, serverFormat.f, clFormat.f)]
  ELSE lookup

(* The application changes its colour map, from its first colour on, and   *)
(* calls rfbSetClientColourMaps().                                         *)
InstallColours(map) ==
  /\ ~serverFormat.true /\ colourMap' = map
  /\ lookup' = LookupOfMap(map)
  /\ isModified' = 
       (isModified \/ (readyForSetColourMapEntries /\ clFormat.true))
  /\ clientMap' = IF readyForSetColourMapEntries /\ ~clFormat.true
                  THEN map ELSE clientMap
  /\ UNCHANGED <<serverFormat, economicTranslate, serverPixel, clState,
                 clFormat, siFormat, readyForSetColourMapEntries, isRequested,
                 clientPixel>>

(* rfbNewFramebuffer() with another format, never one with a colour map.   *)
(* A client with colour map is sent that of BGR233, at once.               *)
ReplaceFramebuffer(f) ==
  /\ serverFormat # [true |-> TRUE, f |-> f]
  /\ serverFormat' = [true |-> TRUE, f |-> f]
  /\ colourMap' = NoMap /\ serverPixel' = 0
  /\ SetTranslateFunction(serverFormat', NoMap, clFormat)
  /\ isModified' = TRUE
  /\ clState' = IF clState = "handshake" /\ ~clFormat.true THEN "confused"
                ELSE clState
  /\ UNCHANGED <<economicTranslate, siFormat, readyForSetColourMapEntries,
                 isRequested, clientPixel>>

TranslateNext ==
  \/ ServerInitSent
  \/ \E f \in Formats : SetPixelFormat(f)
  \/ TranslateRequest
  \/ SendTranslated
  \/ \E v \in Pixels(serverFormat) : DrawPixel(v)
  \/ \E map \in ColourMaps : InstallColours(map)
  \/ \E f \in ServerFormats : ReplaceFramebuffer(f)

TranslateSpec == TranslateInit /\ [][TranslateNext]_translateVars

-----------------------------------------------------------------------------
(* What the client shows for a sample of its pixel, and the most that can  *)
(* be; it reads the bytes in the order that it asked for.                  *)
ShownSample(c) ==
  IF siFormat.true
  THEN <<Sample(siFormat.f, ToOrder(serverFormat.f, siFormat.f, clientPixel), c),
         siFormat.f.max[c]>>
  ELSE <<clientMap[clientPixel][c], ColourMapMax>>

(* The same of the server's. *)
DrawnSample(c) ==
  IF serverFormat.true
  THEN <<Sample(serverFormat.f, serverPixel, c), serverFormat.f.max[c]>>
  ELSE <<colourMap[serverPixel][c], ColourMapMax>>

(* The client's format is the one that the server translates to: it set    *)
(* it, or no framebuffer came during its handshake.                        *)
FormatIsAgreed ==
  /\ clState = "normal"
  /\ clFormat = [true |-> clFormat.true, f |-> siFormat.f]
  /\ lookup.by # "bytes"

(* ClientShowsColours: however formats, colour maps and framebuffers       *)
(* change, a pixel that is not due shows a colour less than a step of the  *)
(* coarser format away from the one drawn, and the same one if the server  *)
(* and the client differ only in the order of bits and bytes.  A client    *)
(* whose format changed under its handshake, and one of three-byte pixels  *)
(* for which three tables are used, are left out: they show other colours. *)
ClientShowsColours ==
  FormatIsAgreed /\ clientPixel # -1 /\ ~isModified =>
    \A c \in Components :
      LET shown == ShownSample(c)  drawn == DrawnSample(c)
          off == shown[1] * drawn[2] - drawn[1] * shown[2]
          coarsest == TranslateSets!Min(
                        {shown[2], drawn[2]}
                          \cup {f.f.max[c] : f \in {g \in {clFormat} : g.true}})
      IN /\ off * coarsest < shown[2] * drawn[2]
         /\ -off * coarsest < shown[2] * drawn[2]
         /\ coarsest = shown[2] /\ coarsest = drawn[2] => off = 0
=============================================================================
