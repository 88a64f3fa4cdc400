------------------------------ MODULE RfbCursor ------------------------------
(***************************************************************************)
(* The cursor of libvncserver (cursor.c): drawn into the frame buffer      *)
(* while an update is sent to a client that does not draw it, and sent as  *)
(* a shape and a position to one that does; with the regions it disturbs   *)
(* (main.c, rfbserver.c).                                                  *)
(*                                                                         *)
(* The screen is one row of pixels.  One client is modelled; what the      *)
(* others do to the pointer is PointerMoved(FALSE).  The server runs in    *)
(* rfbProcessEvents(), so that draws, messages and updates do not overlap. *)
(* There is always a cursor: rfbScheduleCopyRegion() reads it untested.    *)
(***************************************************************************)
EXTENDS Integers

CONSTANTS
  ScreenWidth,
  Inks,               \* colours of the application
  CursorShapes,       \* cursors: records of width, xhot, mask (the opaque
                      \* columns) and ink (the colour they are drawn in)
  CopyShifts,         \* distances of copies
  RequestedParts,     \* the parts of the screen a client asks for
  MaxCursorSteps      \* bound: draws, copies, moves, changes of the cursor
                      \* and of the client's encodings

ASSUME CursorAssumption ==
  /\ ScreenWidth \in Nat \ {0}
  /\ Inks \subseteq Nat \ {0} /\ Inks # {}
  /\ CursorShapes # {}
  /\ \A c \in CursorShapes :
       /\ c.width \in Nat \ {0} /\ c.xhot \in Nat
       /\ c.mask \subseteq 0..(c.width - 1)
       /\ c.ink \in Nat \ (Inks \cup {0})
  /\ CopyShifts \subseteq Int \ {0}
  /\ RequestedParts \subseteq SUBSET (0..(ScreenWidth - 1))
  /\ MaxCursorSteps \in Nat

VARIABLES
  frameBuffer,     \* the server's
  drawn,           \* history: what the application has drawn
  cursor, cursorX, \* of the screen
  cl,              \* the client's record, see ClientRecords
  picture,         \* the pixels the client has
  shownCursor,     \* the shape and the position it was told
  cursorSteps      \* bound

cursorVars == <<frameBuffer, drawn, cursor, cursorX, cl, picture, shownCursor,
                cursorSteps>>

Row == 0..(ScreenWidth - 1)
MovedBy(region, dx) == {p + dx : p \in region}

(* A cursor of one transparent pixel is sent as an empty rectangle. *)
EmptyCursor(c) == c.width = 1 /\ c.mask = {}
NoShape == [width |-> 0, xhot |-> 0, mask |-> {}, ink |-> 0]

ClientRecords ==
  [open : BOOLEAN, useCopyRect : BOOLEAN,
   enableCursorShapeUpdates : BOOLEAN, enableCursorPosUpdates : BOOLEAN,
   cursorWasChanged : BOOLEAN, cursorWasMoved : BOOLEAN,
   cursorX : Row, copyDX : CopyShifts \cup {0},
   modifiedRegion : SUBSET Row, copyRegion : SUBSET Row,
   requestedRegion : SUBSET Row]

CursorTypeOK ==
  /\ frameBuffer \in [Row -> Inks] /\ drawn \in [Row -> Inks]
  /\ cursor \in CursorShapes /\ cursorX \in Row
  /\ cl \in ClientRecords
  /\ picture \in [Row -> Inks \cup {0} \cup {c.ink : c \in CursorShapes}]
  /\ shownCursor.shape \in CursorShapes \cup {NoShape}
  /\ shownCursor.x \in Row \cup {-1}
  /\ cursorSteps \in 0..MaxCursorSteps

(* rfbNewClient() for a client that has finished the handshake. *)
CursorInit ==
  /\ \E i \in Inks : frameBuffer = [p \in Row |-> i]
  /\ drawn = frameBuffer
  /\ cursor \in CursorShapes /\ cursorX = 0
  /\ cl = [open |-> TRUE, useCopyRect |-> FALSE,
           enableCursorShapeUpdates |-> FALSE,
           enableCursorPosUpdates |-> FALSE,
           cursorWasChanged |-> FALSE, cursorWasMoved |-> FALSE,
           cursorX |-> cursorX, copyDX |-> 0,
           modifiedRegion |-> Row, copyRegion |-> {},
           requestedRegion |-> {}]
  /\ picture = [p \in Row |-> 0]
  /\ shownCursor = [shape |-> NoShape, x |-> -1]
  /\ cursorSteps = 0

-----------------------------------------------------------------------------
(* Plausible mistakes in the definitions below. *)

(* A copy moves the pixels under the cursor like any others.               *)
UnderCursorForgotten(area, dx, copy) == {}

-----------------------------------------------------------------------------
(* Drawing the cursor. *)

(* rfbRedrawAfterHideCursor(): the part of the screen a cursor covers. *)
RedrawAfterHideCursor(c, x) ==
  Row \cap ((x - c.xhot)..(x - c.xhot + c.width - 1))

(* The part that is saved and restored: one that reaches the right edge    *)
(* loses its last column.                                                  *)
SavedUnder(c, x) ==
  LET end == x - c.xhot + c.width
  IN RedrawAfterHideCursor(c, x) \
       (IF end >= ScreenWidth THEN {ScreenWidth - 1} ELSE {})

ShowCursor(buffer, c, x) ==
  [p \in Row |-> IF p \in SavedUnder(c, x) /\ p - (x - c.xhot) \in c.mask
                 THEN c.ink ELSE buffer[p]]

UnderCursorBuffer(buffer, c, x) ==
  [p \in SavedUnder(c, x) |-> buffer[p]]

HideCursor(buffer, under, c, x) ==
  [p \in Row |-> IF p \in SavedUnder(c, x) THEN under[p] ELSE buffer[p]]

-----------------------------------------------------------------------------
(* The server's application. *)

CursorStep == cl.open /\ cursorSteps < MaxCursorSteps
              /\ cursorSteps' = cursorSteps + 1

DrawUnderCursor ==
  /\ CursorStep
  /\ \E p \in Row, i \in Inks :
       /\ frameBuffer' = [frameBuffer EXCEPT ![p] = i]
       /\ drawn' = frameBuffer'
       /\ cl' = [cl EXCEPT !.modifiedRegion = @ \cup {p}]
  /\ UNCHANGED <<cursor, cursorX, picture, shownCursor>>

(* What the cursor in the client's picture spoils of a copy: where it is,  *)
(* and where it would be copied to.                                        *)
UnderCursor(area, dx, copy) ==
  (area \cap copy) \cup (MovedBy(area, dx) \cap copy)

(* rfbScheduleCopyRegion(). *)
ScheduleCopy(dest, dx) ==
  LET again    == cl.copyRegion # {} /\ cl.copyDX # dx
      spoilt   == IF again THEN cl.copyRegion
                  ELSE MovedBy(dest, -dx) \cap cl.copyRegion
      modified == cl.modifiedRegion \cup spoilt
      copy     == (IF again THEN {} ELSE cl.copyRegion) \cup dest
      area     == (cl.cursorX - cursor.xhot)..
                  (cl.cursorX - cursor.xhot + cursor.width - 1)
  IN [cl EXCEPT
        !.copyRegion = copy, !.copyDX = dx,
        !.modifiedRegion =
           modified \cup (MovedBy(modified, dx) \cap copy)
             \cup (IF cl.enableCursorShapeUpdates THEN {}
                   ELSE UnderCursor(area, dx, copy))]

(* rfbDoCopyRegion(). *)
CopyUnderCursor ==
  /\ CursorStep
  /\ \E dx \in CopyShifts, a, b \in Row :
       LET dest == a..b
       IN /\ dest # {} /\ MovedBy(dest, -dx) \subseteq Row
          /\ frameBuffer' = [p \in Row |-> IF p \in dest
                                           THEN frameBuffer[p - dx]
                                           ELSE frameBuffer[p]]
          /\ cl' = IF cl.useCopyRect THEN ScheduleCopy(dest, dx)
                   ELSE [cl EXCEPT !.modifiedRegion = @ \cup dest]
  /\ drawn' = frameBuffer'
  /\ UNCHANGED <<cursor, cursorX, picture, shownCursor>>

(* rfbSetCursor(): the old cursor's pixels are sent again, and the new's. *)
SetCursor ==
  /\ CursorStep
  /\ \E c \in CursorShapes :
       /\ cursor' = c
       /\ cl' = [cl EXCEPT
                   !.cursorWasChanged = TRUE,
                   !.modifiedRegion =
                      IF cl.enableCursorShapeUpdates THEN @
                      ELSE @ \cup RedrawAfterHideCursor(cursor, cl.cursorX)
                             \cup RedrawAfterHideCursor(c, cl.cursorX)]
  /\ UNCHANGED <<frameBuffer, drawn, cursorX, picture, shownCursor>>

(* rfbDefaultPtrAddEvent(): a pointer event of this client or another. *)
PointerMoved(byClient) ==
  /\ CursorStep
  /\ \E x \in Row \ {cursorX} : cursorX' = x
  /\ cl' = IF cl.enableCursorPosUpdates
           THEN [cl EXCEPT !.cursorWasMoved = ~byClient] ELSE cl
  /\ shownCursor' = IF byClient THEN [shownCursor EXCEPT !.x = cursorX']
                    ELSE shownCursor
  /\ UNCHANGED <<frameBuffer, drawn, cursor, picture>>

-----------------------------------------------------------------------------
(* Messages of the client. *)

(* rfbSetEncodings.  A client that gave up the shape updates would be      *)
(* drawn no cursor before the pointer moves: here none does.  The position *)
(* is sent only to a client that gets the shape.                           *)
CursorEncodings ==
  /\ CursorStep
  /\ \E shape, pos, copyRect \in BOOLEAN :
     /\ cl.enableCursorShapeUpdates => shape
     /\ cl' = [cl EXCEPT
                !.useCopyRect = copyRect,
                !.enableCursorShapeUpdates = shape,
                !.cursorWasChanged = shape,
                !.modifiedRegion =
                   IF shape THEN @ \cup RedrawAfterHideCursor(cursor, cl.cursorX)
                   ELSE @,
                !.enableCursorPosUpdates = pos /\ shape,
                !.cursorWasMoved = IF pos THEN TRUE ELSE @]
  /\ UNCHANGED <<frameBuffer, drawn, cursor, cursorX, picture, shownCursor>>

(* rfbFramebufferUpdateRequest. *)
CursorRequest ==
  /\ cl.open
  /\ \E incremental \in BOOLEAN, asked \in RequestedParts :
       cl' = IF incremental
             THEN [cl EXCEPT !.requestedRegion = @ \cup asked]
             ELSE [cl EXCEPT !.requestedRegion = @ \cup asked,
                             !.modifiedRegion = @ \cup asked,
                             !.copyRegion = @ \ asked]
  /\ UNCHANGED <<frameBuffer, drawn, cursor, cursorX, picture, shownCursor,
                 cursorSteps>>

-----------------------------------------------------------------------------
(* Updates. *)

ShapeDue == cl.enableCursorShapeUpdates /\ cl.cursorWasChanged
PosDue == cl.enableCursorPosUpdates /\ cl.cursorWasMoved
DrawnCursorMoved == ~cl.enableCursorShapeUpdates /\ cl.cursorX # cursorX

(* FB_UPDATE_PENDING(). *)
UpdatePending ==
  ShapeDue \/ PosDue \/ DrawnCursorMoved
  \/ cl.copyRegion # {} \/ cl.modifiedRegion # {}

(* The copies still to be made, and what of them this update makes. *)
CopyLeft == cl.copyRegion \ cl.modifiedRegion
UpdateCopy == CopyLeft \cap cl.requestedRegion
                \cap MovedBy(cl.requestedRegion, cl.copyDX)
UpdatePixels ==
  ((cl.modifiedRegion \cup CopyLeft) \cap cl.requestedRegion) \ UpdateCopy

(* The client after copies, then pixels. *)
PictureAfter(pixels, buffer) ==
  [p \in Row |->
     IF p \in pixels THEN buffer[p]
     ELSE IF p \in UpdateCopy THEN picture[p - cl.copyDX] ELSE picture[p]]

(* HandleCursorShape() and HandleCursorPos() of libvncclient: an empty     *)
(* shape is ignored.                                                       *)
ShownAfter ==
  [shape |-> IF ShapeDue /\ ~EmptyCursor(cursor) THEN cursor
             ELSE shownCursor.shape,
   x     |-> IF PosDue THEN cursorX ELSE shownCursor.x]

(* rfbSendFramebufferUpdate().  Sending may fail; the cursor is hidden     *)
(* again either way.                                                       *)
SendUpdateWithCursor ==
  LET x      == IF cl.enableCursorShapeUpdates THEN cl.cursorX ELSE cursorX
      pixels == UpdatePixels \cup
                  (IF DrawnCursorMoved
                   THEN RedrawAfterHideCursor(cursor, cl.cursorX)
                          \cup RedrawAfterHideCursor(cursor, x)
                   ELSE {})
      buffer == IF cl.enableCursorShapeUpdates THEN frameBuffer
                ELSE ShowCursor(frameBuffer, cursor, x)
      sent   == [cl EXCEPT
                   !.modifiedRegion =
                      ((@ \cup CopyLeft) \ UpdatePixels) \ UpdateCopy,
                   !.copyRegion = {}, !.copyDX = 0, !.requestedRegion = {},
                   !.cursorX = x,
                   !.cursorWasChanged = @ /\ ~ShapeDue,
                   !.cursorWasMoved = @ /\ ~PosDue]
  IN /\ frameBuffer' =
          IF cl.enableCursorShapeUpdates THEN frameBuffer
          ELSE HideCursor(buffer, UnderCursorBuffer(frameBuffer, cursor, x),
                          cursor, x)
     /\ \/ /\ cl' = sent
           /\ picture' = PictureAfter(pixels, buffer)
           /\ shownCursor' = ShownAfter
        \/ /\ cl' = [sent EXCEPT !.open = FALSE]
           /\ UNCHANGED <<picture, shownCursor>>

NothingToSend ==
  UpdatePixels \cup UpdateCopy = {} /\ ~ShapeDue /\ ~PosDue
  /\ ~DrawnCursorMoved

CursorUpdate ==
  /\ cl.open /\ UpdatePending /\ cl.requestedRegion # {}
  /\ IF NothingToSend
     THEN /\ cl' = [cl EXCEPT !.copyRegion = CopyLeft]
          /\ UNCHANGED <<frameBuffer, picture, shownCursor>>
     ELSE SendUpdateWithCursor
  /\ UNCHANGED <<drawn, cursor, cursorX, cursorSteps>>

CursorNext ==
  \/ DrawUnderCursor
  \/ CopyUnderCursor
  \/ SetCursor
  \/ \E byClient \in BOOLEAN : PointerMoved(byClient)
  \/ CursorEncodings
  \/ CursorRequest
  \/ CursorUpdate

CursorSpec == CursorInit /\ [][CursorNext]_cursorVars

-----------------------------------------------------------------------------
(* CursorLeavesNoTrace: however copies, changes of the cursor and moves    *)
(* interleave with updates, the frame buffer holds what the application    *)
(* drew, and every pixel the server takes the client to have is right: it  *)
(* shows the buffer, with the cursor where the client was last drawn it,   *)
(* or is the source of a copy still to be made.  A client that draws the   *)
(* cursor itself has the newest shape and position that are not still due. *)
CursorLeavesNoTrace ==
  /\ frameBuffer = drawn
  /\ cl.open =>
       /\ \A p \in Row \ cl.modifiedRegion :
            IF p \in cl.copyRegion
            THEN picture[p - cl.copyDX] = frameBuffer[p]
            ELSE picture[p] = IF cl.enableCursorShapeUpdates
                              THEN frameBuffer[p]
                              ELSE ShowCursor(frameBuffer, cursor,
                                              cl.cursorX)[p]
       /\ cl.enableCursorShapeUpdates /\ ~cl.cursorWasChanged =>
            shownCursor.shape = cursor \/ EmptyCursor(cursor)
       /\ cl.enableCursorPosUpdates /\ ~cl.cursorWasMoved =>
            shownCursor.x = cursorX
=============================================================================
