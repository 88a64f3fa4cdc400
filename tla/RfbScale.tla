------------------------------ MODULE RfbScale ------------------------------
(***************************************************************************)
(* Server-side scaling: a viewer asks for the screen at a fraction of its  *)
(* size, and viewers that ask for the same size share one scaled copy.     *)
(* The server keeps the copies that have a viewer up to date rectangle by  *)
(* rectangle, and a viewer is sent the scaled form of the regions it asked *)
(* for, which are kept in the screen's own coordinates.                    *)
(*                                                                         *)
(* One row of pixels: columns and rows are scaled alike, by ScaleX and     *)
(* ScaleY.  A pixel is not a colour but the columns it was blended from,   *)
(* with those of them that were drawn on since.  The server runs its       *)
(* event loop in one thread, and no viewer is sent copied rectangles.      *)
(***************************************************************************)
EXTENDS Integers, FiniteSetsExt

CONSTANTS
  ScaleClients,
  FullWidth,            \* screen->width
  ScaleFactors,         \* ssc.scale of SetScale messages
  DrawnRects,           \* <<x1, x2>> the application draws and marks
  RequestedRects,       \* <<x, w>> viewers ask for, in what they see
  NewFBSizeClients,     \* clients that announced NewFBSize
  MaxScaleSteps         \* bound: drawings, connections, changes of scale

ASSUME ScaleAssumption ==
  /\ IsFiniteSet(ScaleClients)
  /\ FullWidth \in Nat \ {0}
  /\ ScaleFactors \subseteq 1..FullWidth
  /\ DrawnRects \subseteq Nat \X Nat
  /\ \A r \in DrawnRects : r[1] < r[2] /\ r[2] <= FullWidth
  /\ RequestedRects \subseteq Nat \X (Nat \ {0})

VARIABLES
  trueColour,           \* of the screen's format: else it cannot blend
  scaledScreenNext,     \* widths of the scaled screens on the chain
  scaledScreenRefCount, \* of each width; FullWidth is the screen itself
  scaledFrameBuffer,    \* pixels of each scaled screen
  scaledScreen,         \* of each client; NoScreen when not connected
  newScaleSizePending,  \* newFBSizePending
  scaleModified,        \* modifiedRegion, in the screen's columns
  scaleRequested,       \* requestedRegion
  scaledView,           \* what the client shows: width and pixels
  scaleSteps,           \* taken so far
  resizeUnanswered      \* the client has a new size it has not yet asked
                        \* the contents of

scaleVars == <<trueColour, scaledScreenNext, scaledScreenRefCount,
               scaledFrameBuffer, scaledScreen,
               newScaleSizePending, scaleModified, scaleRequested,
               scaledView, resizeUnanswered, scaleSteps>>

NoScreen == 0
FullColumns == 0..(FullWidth - 1)
ScaledWidths == {FullWidth \div f : f \in ScaleFactors} \cup {FullWidth}

ScaledPixel == [of : SUBSET FullColumns, drawn : SUBSET FullColumns]
Blank == [of |-> {}, drawn |-> {}]
BlankPixels(w) == [p \in 0..(w - 1) |-> Blank]
NoView == [w |-> NoScreen, px |-> <<>>]
ScreenPixels == [p \in FullColumns |-> [of |-> {p}, drawn |-> {}]]

ScaleTypeOK ==
  /\ trueColour \in BOOLEAN
  /\ scaledScreenNext \subseteq ScaledWidths \ {FullWidth}
  /\ scaledScreenRefCount \in [ScaledWidths -> Nat]
  /\ \A w \in ScaledWidths :
       scaledFrameBuffer[w] \in [0..(w - 1) -> ScaledPixel]
  /\ scaledScreen \in [ScaleClients -> ScaledWidths \cup {NoScreen}]
  /\ newScaleSizePending \in [ScaleClients -> BOOLEAN]
  /\ scaleModified \in [ScaleClients -> SUBSET FullColumns]
  /\ scaleRequested \in [ScaleClients -> SUBSET FullColumns]
  /\ \A v \in ScaleClients :
       /\ scaledView[v].w \in ScaledWidths \cup {NoScreen}
       /\ scaledView[v].px \in [0..(scaledView[v].w - 1) -> ScaledPixel]
  /\ resizeUnanswered \in [ScaleClients -> BOOLEAN]
  /\ scaleSteps \in 0..MaxScaleSteps

ScaleInit ==
  /\ trueColour \in BOOLEAN /\ scaleSteps = 0
  /\ scaledScreenNext = {}
  /\ scaledScreenRefCount = [w \in ScaledWidths |-> 0]
  /\ scaledFrameBuffer = [w \in ScaledWidths |->
                            IF w = FullWidth THEN ScreenPixels
                                             ELSE BlankPixels(w)]
  /\ scaledScreen = [v \in ScaleClients |-> NoScreen]
  /\ newScaleSizePending = [v \in ScaleClients |-> FALSE]
  /\ scaleModified = [v \in ScaleClients |-> {}]
  /\ scaleRequested = [v \in ScaleClients |-> {}]
  /\ scaledView = [v \in ScaleClients |-> NoView]
  /\ resizeUnanswered = [v \in ScaleClients |-> FALSE]

-----------------------------------------------------------------------------
(* A coordinate on a screen of one width, on a screen of another.          *)
ScaleX(from, to, x) == IF from = to THEN x ELSE (x * to) \div from

(* FLOOR and CEIL of a quotient. *)
Floor(a, b) == a \div b
Ceil(a, b)  == (a + b - 1) \div b

(* A rectangle on a screen of one width, on a screen of another: from the  *)
(* pixel its left edge is in, as wide as it is and what that edge lost,    *)
(* at least a pixel and no further than the edge of the screen.            *)
rfbScaledCorrection(from, to, x, w) ==
  IF from = to THEN <<x, w>>
  ELSE LET x2 == Floor(x * to, from)
           w2 == Ceil(w * to + (x * to - x2 * from), from)
           w3 == IF w2 = 0 THEN 1 ELSE w2
       IN  <<x2, Min({w3, to - x2})>>

Within(r) == r[1]..(r[1] + r[2] - 1)

(* Blends the pixels of the scaled screen that columns x..x+w-1 are in.    *)
(* Without true colour a pixel is the one at the left of its block, and    *)
(* the blocks are counted from the left of the screen.                     *)
rfbScaledScreenUpdateRect(pixels, screen, x, w) ==
  LET c     == rfbScaledCorrection(FullWidth, screen, x, w)
      x0    == ScaleX(screen, FullWidth, c[1])
      areaX == ScaleX(screen, FullWidth, 1)
      Block(p) == IF trueColour
                  THEN Within(<<x0 + (p - c[1]) * areaX, areaX>>)
                  ELSE {p * areaX}
  IN  IF screen = FullWidth THEN pixels
      ELSE [p \in DOMAIN pixels |->
              IF p \in Within(c) THEN [of |-> Block(p), drawn |-> {}]
                               ELSE pixels[p]]

(* Columns are drawn on: pixels blended from them show what was there.     *)
DrawnOn(pixels, columns) ==
  [p \in DOMAIN pixels |->
     [pixels[p] EXCEPT !.drawn = @ \cup (pixels[p].of \cap columns)]]

-----------------------------------------------------------------------------
(* The application draws and marks what it drew: every scaled screen with  *)
(* clients is updated, then every client's modifiedRegion.                 *)
rfbScaledScreenUpdate(w, pixels, r) ==
  IF w \in scaledScreenNext /\ scaledScreenRefCount[w] > 0
  THEN rfbScaledScreenUpdateRect(pixels, w, r[1], r[2] - r[1])
  ELSE pixels

rfbMarkRectAsModified ==
  \E r \in DrawnRects :
    LET columns == r[1]..(r[2] - 1)
        Drawn(w) == IF w = FullWidth THEN ScreenPixels
                    ELSE DrawnOn(scaledFrameBuffer[w], columns)
    IN  /\ scaledFrameBuffer' =
             [w \in ScaledWidths |-> rfbScaledScreenUpdate(w, Drawn(w), r)]
        /\ scaledView' =
             [v \in ScaleClients |->
                [scaledView[v] EXCEPT !.px = DrawnOn(@, columns)]]
        /\ scaleModified' = [v \in ScaleClients |->
                               IF scaledScreen[v] = NoScreen THEN {}
                               ELSE scaleModified[v] \cup columns]
        /\ UNCHANGED <<trueColour, scaledScreenNext, scaledScreenRefCount,
                       scaledScreen, newScaleSizePending,
                       scaleRequested, resizeUnanswered>>

(* A client is told a new size: it starts with an empty framebuffer.       *)
ShowNewSize(v, w) ==
  /\ scaledView' = [scaledView EXCEPT ![v] = [w |-> w, px |-> BlankPixels(w)]]
  /\ resizeUnanswered' = [resizeUnanswered EXCEPT ![v] = TRUE]

(* A client connects to the screen itself; it will ask for all of it.      *)
NewScaleClient(v) ==
  /\ scaledScreen[v] = NoScreen
  /\ scaledScreen' = [scaledScreen EXCEPT ![v] = FullWidth]
  /\ scaledScreenRefCount' = [scaledScreenRefCount EXCEPT ![FullWidth] = @ + 1]
  /\ scaleModified' = [scaleModified EXCEPT ![v] = FullColumns]
  /\ ShowNewSize(v, FullWidth)
  /\ UNCHANGED <<trueColour, scaledScreenNext, scaledFrameBuffer,
                 newScaleSizePending, scaleRequested>>

(* It leaves: the scaled screen stays on the chain. *)
ScaleClientGone(v) ==
  /\ scaledScreen[v] # NoScreen
  /\ scaledScreenRefCount' =
       [scaledScreenRefCount EXCEPT ![scaledScreen[v]] = @ - 1]
  /\ scaledScreen' = [scaledScreen EXCEPT ![v] = NoScreen]
  /\ newScaleSizePending' = [newScaleSizePending EXCEPT ![v] = FALSE]
  /\ scaleModified' = [scaleModified EXCEPT ![v] = {}]
  /\ scaleRequested' = [scaleRequested EXCEPT ![v] = {}]
  /\ scaledView' = [scaledView EXCEPT ![v] = NoView]
  /\ resizeUnanswered' = [resizeUnanswered EXCEPT ![v] = FALSE]
  /\ UNCHANGED <<trueColour, scaledScreenNext, scaledFrameBuffer>>

-----------------------------------------------------------------------------
(* rfbScalingFind: the screen itself, or one on the chain. *)
rfbScalingFind(w) == w \in scaledScreenNext \cup {FullWidth}

(* rfbScaledScreenAllocate scales all of the framebuffer. *)
rfbScaledScreenAllocate(w) ==
  rfbScaledScreenUpdateRect(BlankPixels(w), w, 0, FullWidth)

(* The pixels of the screen a client is about to take: one nobody used has *)
(* missed what was drawn since.                                            *)
TakenAsFound(w) ==
  IF rfbScalingFind(w) THEN scaledFrameBuffer[w]
                       ELSE rfbScaledScreenAllocate(w)
ScreenToTake(w) ==
  LET pixels == IF rfbScalingFind(w) THEN scaledFrameBuffer[w]
                                     ELSE rfbScaledScreenAllocate(w)
  IN  IF scaledScreenRefCount[w] < 1
      THEN rfbScaledScreenUpdateRect(pixels, w, 0, FullWidth)
      ELSE pixels

(* rfbSetScale: rfbScalingSetup, then rfbSendNewScaleSize, which leaves    *)
(* the news to a NewFBSize rectangle when the client knows these.          *)
rfbScalingSetup(v, w) ==
  /\ scaledScreenNext' = scaledScreenNext \cup ({w} \ {FullWidth})
  /\ scaledFrameBuffer' = [scaledFrameBuffer EXCEPT ![w] = ScreenToTake(w)]
  /\ scaledScreenRefCount' =
       [s \in ScaledWidths |->
          scaledScreenRefCount[s] - (IF s = scaledScreen[v] THEN 1 ELSE 0)
                                  + (IF s = w THEN 1 ELSE 0)]
  /\ scaledScreen' = [scaledScreen EXCEPT ![v] = w]

rfbSendNewScaleSize(v, w, pending) ==
  IF v \in NewFBSizeClients /\ pending
  THEN /\ newScaleSizePending' = [newScaleSizePending EXCEPT ![v] = TRUE]
       /\ UNCHANGED <<scaledView, resizeUnanswered>>
  ELSE /\ newScaleSizePending' = [newScaleSizePending EXCEPT ![v] = FALSE]
       /\ ShowNewSize(v, w)

rfbSetScale(v) ==
  /\ scaledScreen[v] # NoScreen
  /\ \E f \in ScaleFactors :
       LET w == FullWidth \div f
       IN  \/ /\ rfbScalingSetup(v, w)
              /\ rfbSendNewScaleSize(v, w, TRUE)
           \/ (* no memory for the screen: it leaves things alone *)
              /\ ~rfbScalingFind(w)
              /\ rfbSendNewScaleSize(v, scaledScreen[v],
                                     newScaleSizePending[v])
              /\ UNCHANGED <<scaledScreenNext, scaledFrameBuffer,
                             scaledScreenRefCount, scaledScreen>>
  /\ UNCHANGED <<trueColour, scaleModified, scaleRequested>>

-----------------------------------------------------------------------------
(* FramebufferUpdateRequest: the rectangle is in the client's coordinates, *)
(* rectSwapIfLEAndClip turns it into the screen's; nothing is left of one  *)
(* that starts right of the screen.                                        *)
FramebufferUpdateRequest(v, x, w, incremental) ==
  LET c    == rfbScaledCorrection(scaledScreen[v], FullWidth, x, w)
      rect == Within(c) \cap FullColumns
  IN  /\ scaledScreen[v] # NoScreen
      /\ scaleRequested' = [scaleRequested EXCEPT ![v] = @ \cup rect]
      /\ scaleModified' = [scaleModified EXCEPT
                             ![v] = IF incremental THEN @ ELSE @ \cup rect]
      /\ UNCHANGED <<trueColour, scaledScreenNext, scaledScreenRefCount,
                     scaledFrameBuffer, scaledScreen,
                     newScaleSizePending, scaledView>>

(* The client asks for all it has room for, when it learned a new size.    *)
AskForNewSize(v) ==
  /\ resizeUnanswered[v]
  /\ resizeUnanswered' = [resizeUnanswered EXCEPT ![v] = FALSE]
  /\ FramebufferUpdateRequest(v, 0, scaledView[v].w, FALSE)

(* It asks for changes; the request may have crossed a change of size.     *)
AskForChanges(v) ==
  /\ \E r \in RequestedRects :
       FramebufferUpdateRequest(v, r[1], r[2], TRUE)
  /\ UNCHANGED resizeUnanswered

(* The rectangles of a region. *)
RectsOf(columns) ==
  {r \in columns \X (1..FullWidth) :
     /\ Within(r) \subseteq columns
     /\ r[1] - 1 \notin columns
     /\ r[1] + r[2] \notin columns}

(* rfbSendFramebufferUpdate: the new size alone, or the modified part of   *)
(* what was asked for, each rectangle in the scaled screen's coordinates.  *)
SendNewSize(v) ==
  /\ scaleRequested[v] # {}
  /\ v \in NewFBSizeClients /\ newScaleSizePending[v]
  /\ newScaleSizePending' = [newScaleSizePending EXCEPT ![v] = FALSE]
  /\ ShowNewSize(v, scaledScreen[v])
  /\ UNCHANGED <<trueColour, scaledScreenNext, scaledScreenRefCount,
                 scaledFrameBuffer, scaledScreen,
                 scaleModified, scaleRequested>>

SendScaledUpdate(v) ==
  LET updateRegion == scaleModified[v] \cap scaleRequested[v]
      screen == scaledScreen[v]
      rects == {rfbScaledCorrection(FullWidth, screen, r[1], r[2]) :
                  r \in RectsOf(updateRegion)}
      sent == UNION {Within(r) : r \in rects}
  IN  /\ updateRegion # {}
      /\ ~(v \in NewFBSizeClients /\ newScaleSizePending[v])
      /\ scaleModified' = [scaleModified EXCEPT ![v] = @ \ updateRegion]
      /\ scaleRequested' = [scaleRequested EXCEPT ![v] = {}]
      /\ scaledView' = [scaledView EXCEPT ![v].px =
                          [p \in DOMAIN @ |->
                             IF p \in sent THEN scaledFrameBuffer[screen][p]
                                           ELSE @[p]]]
      /\ UNCHANGED <<trueColour, scaledScreenNext, scaledScreenRefCount,
                     scaledFrameBuffer, scaledScreen,
                     newScaleSizePending, resizeUnanswered>>

ScaleNext ==
  \/ /\ scaleSteps < MaxScaleSteps
     /\ scaleSteps' = scaleSteps + 1
     /\ \/ rfbMarkRectAsModified
        \/ \E v \in ScaleClients : NewScaleClient(v) \/ rfbSetScale(v)
  \/ /\ \E v \in ScaleClients :
          \/ ScaleClientGone(v) \/ AskForNewSize(v) \/ AskForChanges(v)
          \/ SendNewSize(v) \/ SendScaledUpdate(v)
     /\ UNCHANGED scaleSteps

ScaleSpec == ScaleInit /\ [][ScaleNext]_scaleVars

-----------------------------------------------------------------------------
(* Whatever a client shows of a column in the pixel that stands for it is  *)
(* what the column holds, or the column is among those the server still    *)
(* has to send it, or it has yet to answer a new size: no change is lost   *)
(* between the screen, a scaled copy that several clients share and that   *)
(* is left alone while it has none, the regions and the rounding of their  *)
(* rectangles to scaled pixels.  (scale.c rfbScaledScreenUpdate,           *)
(* rfbScalingSetup, rfbScaledCorrection; rfbserver.c                       *)
(* rfbSendFramebufferUpdate)                                               *)
ScaledViewIsFresh ==
  \A v \in ScaleClients :
    scaledScreen[v] = NoScreen
    \/ newScaleSizePending[v] \/ resizeUnanswered[v]
    \/ \A c \in FullColumns :
         LET pixel == scaledView[v].px[ScaleX(FullWidth, scaledView[v].w, c)]
         IN  c \in scaleModified[v]
             \/ (pixel # Blank /\ c \notin pixel.drawn)
=============================================================================
