----------------------------- MODULE RfbUpdates -----------------------------
(***************************************************************************)
(* How the pixels of the server's screen reach the client's frame buffer:  *)
(* modifiedRegion, copyRegion and requestedRegion of libvncserver          *)
(* (main.c, rfbserver.c) against the requests of libvncclient (rfbproto.c, *)
(* vncviewer.c).                                                           *)
(*                                                                         *)
(* A region is a set of pixels, the screen is one row of them, and a pixel *)
(* has one of a few colours, for a copied rectangle is only right if its   *)
(* source was.  The server runs in rfbProcessEvents(): draws, messages and *)
(* updates do not overlap.  (With clientOutput() a thread can send between *)
(* the copy in the frame buffer and rfbScheduleCopyRegion(), and the copy  *)
(* is then made from the wrong pixels.)  Both directions are reliable and  *)
(* ordered.  The cursor is left out: cursorRegion only adds to             *)
(* modifiedRegion.                                                         *)
(***************************************************************************)
EXTENDS Integers, Sequences

CONSTANTS
  MaxWidth,      \* the largest screen
  Colours,       \* colours, other than 0
  Shifts,        \* distances of copies
  MaxDraws,      \* bound: draws and copies
  MaxResizes     \* bound: changes of the size

ASSUME UpdatesAssumption ==
  /\ MaxWidth \in Nat \ {0}
  /\ Colours \subseteq Nat \ {0} /\ Colours # {}
  /\ Shifts \subseteq Int \ {0}
  /\ MaxDraws \in Nat /\ MaxResizes \in Nat

VARIABLES
  screen,              \* the server's frame buffer: its pixels' colours
  modifiedRegion, copyRegion, copyDX, requestedRegion,
  useCopyRect, useNewFBSize, newFBSizePending,
  toServer, toClient,  \* messages in flight
  frame,               \* the client's frame buffer
  updateRect,          \* width of client->updateRect
  refused,             \* the client read a rectangle it has no room for
  draws, resizes       \* bounds

regionVars == <<modifiedRegion, copyRegion, copyDX, requestedRegion>>
encodingVars == <<useCopyRect, useNewFBSize, newFBSizePending>>
serverVars == <<screen, regionVars, encodingVars>>
clientVars == <<frame, updateRect, refused>>
updateVars == <<serverVars, toServer, toClient, clientVars, draws, resizes>>

Pixels(width) == 0..(width - 1)
Shift(region, d) == {p + d : p \in region}

(* The pixels of a buffer, and a new buffer of a width. *)
Extent(buffer) == DOMAIN buffer
Blank(width) == [p \in Pixels(width) |-> 0]

WidthOf(buffer) == CHOOSE w \in 1..MaxWidth : Extent(buffer) = Pixels(w)

BoundingBox(region) ==
  {p \in Pixels(MaxWidth) : \E a, b \in region : a <= p /\ p <= b}

Request(width, incremental) ==
  [type |-> "request", width |-> width, incremental |-> incremental]
SetEncodings == [type |-> "encodings", width |-> 0, incremental |-> FALSE]

Messages == [type : {"request", "encodings"}, width : 0..MaxWidth,
             incremental : BOOLEAN]

NewFBSizeMarker(width) == [type |-> "size", width |-> width]
Update(pixels, copied, dx) ==
  [type |-> "rects", pixels |-> pixels, copied |-> copied, dx |-> dx]

UpdatesTypeOK ==
  /\ \E w \in 1..MaxWidth : screen \in [Pixels(w) -> Colours]
  /\ modifiedRegion \subseteq Extent(screen)
  /\ copyRegion \subseteq Extent(screen)
  /\ copyDX \in Shifts \cup {0}
  /\ requestedRegion \subseteq Pixels(MaxWidth)
  /\ useCopyRect \in BOOLEAN /\ useNewFBSize \in BOOLEAN
  /\ newFBSizePending \in BOOLEAN
  /\ toServer \in Seq(Messages)
  /\ \A i \in DOMAIN toClient : toClient[i].type \in {"size", "rects"}
  /\ \E w \in 1..MaxWidth : frame \in [Pixels(w) -> Colours \cup {0}]
  /\ updateRect \in 1..MaxWidth
  /\ refused \in BOOLEAN
  /\ draws \in 0..MaxDraws /\ resizes \in 0..MaxResizes

(* rfbInitConnection() has returned: the server's size is known, encodings *)
(* and a request for everything are on their way.                          *)
UpdatesInit ==
  /\ \E w \in 1..MaxWidth :
       /\ screen \in {[p \in Pixels(w) |-> c] : c \in Colours}
       /\ frame = Blank(w)
       /\ modifiedRegion = Pixels(w)
       /\ updateRect = w
       /\ toServer = <<SetEncodings, Request(w, FALSE)>>
  /\ copyRegion = {} /\ copyDX = 0
  /\ requestedRegion = {}
  /\ useCopyRect = FALSE /\ useNewFBSize = FALSE
  /\ newFBSizePending = FALSE
  /\ toClient = <<>>
  /\ refused = FALSE
  /\ draws = 0 /\ resizes = 0

-----------------------------------------------------------------------------
(* Plausible mistakes in the definitions below. *)

(* A copy region that forgets what the pending modifications would spoil. *)
ScheduledModifiedForgotten(dest, dx) ==
  LET again == copyRegion # {} /\ copyDX # dx
  IN [modified |-> modifiedRegion \cup (IF again THEN copyRegion ELSE {}),
      copy     |-> (IF again THEN {} ELSE copyRegion) \cup dest]

(* A request that is not answered by a new one. *)
NextRequestsNone == <<>>

-----------------------------------------------------------------------------
(* The server's application. *)

DrawPixel ==
  /\ draws < MaxDraws /\ draws' = draws + 1
  /\ \E p \in Extent(screen), c \in Colours :
       /\ screen' = [screen EXCEPT ![p] = c]
       /\ modifiedRegion' = modifiedRegion \cup {p}
  /\ UNCHANGED <<copyRegion, copyDX, requestedRegion, encodingVars, toServer,
                 toClient, clientVars, resizes>>

(* rfbScheduleCopyRegion() for a client that understands CopyRect: pixels  *)
(* of an earlier copy, and modified ones, that are the source of this one  *)
(* make its destination modified.                                          *)
Scheduled(dest, dx) ==
  LET again    == copyRegion # {} /\ copyDX # dx
      spoilt   == IF again THEN copyRegion
                  ELSE Shift(dest, -dx) \cap copyRegion
      modified == modifiedRegion \cup spoilt
      copy     == (IF again THEN {} ELSE copyRegion) \cup dest
  IN [modified |-> modified \cup (Shift(modified, dx) \cap copy),
      copy     |-> copy]

(* rfbDoCopyRect(). *)
CopyPixels ==
  /\ draws < MaxDraws /\ draws' = draws + 1
  /\ \E dx \in Shifts, x1, x2 \in 0..MaxWidth :
       LET dest == x1..(x2 - 1)
       IN /\ dest # {}
          /\ dest \subseteq Extent(screen)
          /\ Shift(dest, -dx) \subseteq Extent(screen)
          /\ screen' = [p \in Extent(screen) |->
                          IF p \in dest THEN screen[p - dx] ELSE screen[p]]
          /\ IF useCopyRect
               THEN /\ modifiedRegion' = Scheduled(dest, dx).modified
                    /\ copyRegion' = Scheduled(dest, dx).copy
                    /\ copyDX' = dx
               ELSE /\ modifiedRegion' = modifiedRegion \cup dest
                    /\ UNCHANGED <<copyRegion, copyDX>>
  /\ UNCHANGED <<requestedRegion, encodingVars, toServer, toClient,
                 clientVars, resizes>>

(* rfbNewFramebuffer(), for this client. *)
NewFramebuffer(w) ==
  /\ modifiedRegion' = Pixels(w)
  /\ copyRegion' = {} /\ copyDX' = 0
  /\ newFBSizePending' = (newFBSizePending \/ useNewFBSize)

Resize ==
  /\ resizes < MaxResizes /\ resizes' = resizes + 1
  /\ \E w \in 1..MaxWidth, c \in Colours :
       /\ screen' = [p \in Pixels(w) |-> c]
       /\ NewFramebuffer(w)
  /\ UNCHANGED <<requestedRegion, useCopyRect, useNewFBSize, toServer,
                 toClient, clientVars, draws>>

-----------------------------------------------------------------------------
(* The server: rfbProcessClientNormalMessage(). *)

ProcessSetEncodings ==
  /\ toServer # <<>> /\ Head(toServer).type = "encodings"
  /\ toServer' = Tail(toServer)
  /\ useCopyRect' = TRUE
  /\ useNewFBSize' = TRUE
  /\ UNCHANGED <<screen, regionVars, newFBSizePending, toClient, clientVars,
                 draws, resizes>>

(* A request is clipped to the screen. *)
ProcessUpdateRequest ==
  /\ toServer # <<>> /\ Head(toServer).type = "request"
  /\ LET wanted == Pixels(Head(toServer).width) \cap Extent(screen)
         all    == ~Head(toServer).incremental
     IN /\ requestedRegion' = requestedRegion \cup wanted
        /\ modifiedRegion' = IF all THEN modifiedRegion \cup wanted
                             ELSE modifiedRegion
        /\ copyRegion' = IF all THEN copyRegion \ wanted ELSE copyRegion
  /\ toServer' = Tail(toServer)
  /\ UNCHANGED <<screen, copyDX, encodingVars, toClient, clientVars, draws,
                 resizes>>

(* rfbProcessEvents() sends when something is pending and requested. *)
UpdateIsDue ==
  /\ requestedRegion # {}
  /\ \/ useNewFBSize /\ newFBSizePending
     \/ copyRegion # {}
     \/ modifiedRegion # {}

SendNewFBSize ==
  /\ UpdateIsDue
  /\ newFBSizePending /\ useNewFBSize
  /\ newFBSizePending' = FALSE
  /\ toClient' = Append(toClient, NewFBSizeMarker(WidthOf(screen)))
  /\ UNCHANGED <<screen, regionVars, useCopyRect, useNewFBSize, toServer,
                 clientVars, draws, resizes>>

(* rfbSendFramebufferUpdate(): what is requested of the modified and the   *)
(* copied region, the latter as a copy if its source was requested too.    *)
(* More rectangles than maxRectsPerUpdate are sent as their bounding box.  *)
SendUpdate ==
  LET copy    == copyRegion \ modifiedRegion
      due     == (modifiedRegion \cup copy) \cap requestedRegion
      copied  == copy \cap requestedRegion \cap Shift(requestedRegion, copyDX)
      drawn   == due \ copied
  IN /\ UpdateIsDue
     /\ ~(newFBSizePending /\ useNewFBSize)
     /\ due # {}
     /\ \E sent \in {drawn, BoundingBox(drawn)} :
          toClient' = Append(toClient,
                        Update([p \in sent |-> screen[p]], copied, copyDX))
     /\ modifiedRegion' = (modifiedRegion \cup copy) \ due
     /\ requestedRegion' = {}
     /\ copyRegion' = {} /\ copyDX' = 0
     /\ UNCHANGED <<screen, encodingVars, toServer, clientVars, draws, resizes>>

(* Nothing of it is requested. *)
SendNothing ==
  LET copy == copyRegion \ modifiedRegion
  IN /\ UpdateIsDue
     /\ ~(newFBSizePending /\ useNewFBSize)
     /\ (modifiedRegion \cup copy) \cap requestedRegion = {}
     /\ copyRegion' = copy
     /\ UNCHANGED <<screen, modifiedRegion, copyDX, requestedRegion,
                    encodingVars, toServer, toClient, clientVars, draws, resizes>>

-----------------------------------------------------------------------------
(* The client: HandleRFBServerMessage(). *)

(* The frame buffer after a message. *)
Applied(buffer, m) ==
  IF m.type = "size" THEN Blank(m.width)
  ELSE LET moved == [p \in Extent(buffer) |->
                       IF p \in m.copied THEN buffer[p - m.dx] ELSE buffer[p]]
       IN [p \in Extent(buffer) |->
             IF p \in DOMAIN m.pixels THEN m.pixels[p] ELSE moved[p]]

Fits(buffer, m) ==
  m.type = "rects" => (m.copied \cup DOMAIN m.pixels) \subseteq Extent(buffer)

(* Every update is answered by the next request. *)
NextRequests == <<Request(updateRect, TRUE)>>

(* A new size: newclient() allocates the buffer and sets the encodings     *)
(* again, then everything is requested.                                    *)
HandleNewFBSize ==
  /\ ~refused
  /\ toClient # <<>> /\ Head(toClient).type = "size"
  /\ frame' = Applied(frame, Head(toClient))
  /\ toServer' = toServer
       \o <<SetEncodings, Request(Head(toClient).width, FALSE)>>
       \o NextRequests
  /\ toClient' = Tail(toClient)
  /\ UNCHANGED <<serverVars, updateRect, refused, draws, resizes>>

HandleUpdate ==
  /\ ~refused
  /\ toClient # <<>> /\ Head(toClient).type = "rects"
  /\ Fits(frame, Head(toClient))
  /\ frame' = Applied(frame, Head(toClient))
  /\ toServer' = toServer \o NextRequests
  /\ toClient' = Tail(toClient)
  /\ UNCHANGED <<serverVars, updateRect, refused, draws, resizes>>

(* "Rect too large": the connection ends. *)
RefuseUpdate ==
  /\ ~refused
  /\ toClient # <<>>
  /\ ~Fits(frame, Head(toClient))
  /\ refused' = TRUE
  /\ UNCHANGED <<serverVars, toServer, toClient, frame, updateRect, draws,
                 resizes>>

ClientStep == HandleNewFBSize \/ HandleUpdate
ServerStep ==
  \/ ProcessSetEncodings \/ ProcessUpdateRequest
  \/ SendNewFBSize \/ SendUpdate \/ SendNothing

UpdatesNext ==
  \/ DrawPixel \/ CopyPixels \/ Resize
  \/ ServerStep
  \/ ClientStep
  \/ RefuseUpdate

UpdatesSpec == UpdatesInit /\ [][UpdatesNext]_updateVars

-----------------------------------------------------------------------------
(* A frame buffer after each of some messages, and when all that is in     *)
(* flight has been read.                                                   *)
Reading(buffer, messages) ==
  LET after[i \in 0..Len(messages)] ==
        IF i = 0 THEN buffer ELSE Applied(after[i - 1], messages[i])
  IN after

Expected == Reading(frame, toClient)[Len(toClient)]

(* A pixel that the client will have wrong when it has read everything in  *)
(* flight is still to be sent, or to be copied from a pixel that it will   *)
(* have right.  No draw, copy, request or change of the size, in whatever  *)
(* order they meet, makes the server forget one; and the client is never   *)
(* sent a rectangle larger than its frame buffer, which would end the      *)
(* connection.                                                             *)
NoPixelForgotten ==
  /\ ~refused
  /\ \A p \in Extent(screen) :
       IF newFBSizePending THEN p \in modifiedRegion
       ELSE p \in Extent(Expected) =>
              \/ Expected[p] = screen[p]
              \/ p \in modifiedRegion
              \/ /\ p \in copyRegion
                 /\ p - copyDX \in Extent(Expected)
                 /\ Expected[p - copyDX] = screen[p]

(* Once the server's application stops drawing, the client shows what the  *)
(* server does, in the rectangle it asked for when it connected: requests  *)
(* and updates keep each other going.  (updateRect is never changed, so a  *)
(* screen that has grown is only shown in part.)                           *)
ScreenConverges ==
  <>[](\A p \in Pixels(updateRect) \cap Extent(screen) \cap Extent(frame) :
         frame[p] = screen[p])
=============================================================================
