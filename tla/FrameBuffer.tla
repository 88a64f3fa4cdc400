----------------------------- MODULE FrameBuffer -----------------------------
(***************************************************************************)
(* The pixels of the remote desktop on their way from libvncclient to the  *)
(* screen: VncClientThread::newclient(), updatefb() and setImage() in the  *)
(* worker, VncView::updateImage() and paintEvent() in the GUI thread.      *)
(*                                                                         *)
(* The QImage that updatefb() makes does not own its pixels: it, m_image   *)
(* and the view's m_frame all point into m_frameBuffer, which newclient()  *)
(* deletes when the server changes the size of its desktop.  What an image *)
(* points to is the number of the buffer; only the buffer with the highest *)
(* number is alive.  Sizes are values; the zoom factor is left out.        *)
(***************************************************************************)
EXTENDS Integers

CONSTANTS
  Sizes,       \* sizes of the remote desktop
  MaxBuffers   \* bound: buffers allocated in all connections

ASSUME SizesAssumption == Sizes # {} /\ "none" \notin Sizes
ASSUME MaxBuffersAssumption == MaxBuffers \in Nat \ {0}

VARIABLES
  wfb,              \* what the worker does: "unconnected", "receive" (between
                    \* two rectangles), "emit" (waiting in emitUpdated())
  cl,               \* cl->frameBuffer and its size
  m_image,          \* the thread's image
  m_frame,          \* the view's image
  rectOrigin,       \* the rectangle being reported begins at (0, 0)
  delivered,        \* history: a rectangle of this buffer reached the view
  old_frame_size,   \* static in updateImage()
  frameInitDone,    \* m_initDone
  widgetSize,       \* size the view was last resized to
  painting          \* the image that paintEvent() is reading

threadVars == <<wfb, cl, m_image, rectOrigin>>
frameVars == <<threadVars, m_frame, delivered, old_frame_size, frameInitDone,
               widgetSize, painting>>

NoImage == [buffer |-> 0, size |-> "none"]
Images == [buffer : 0..MaxBuffers, size : Sizes \cup {"none"}]

FrameTypeOK ==
  /\ wfb \in {"unconnected", "receive", "emit"}
  /\ cl \in Images
  /\ m_image \in Images
  /\ m_frame \in Images
  /\ rectOrigin \in BOOLEAN
  /\ delivered \in BOOLEAN
  /\ old_frame_size \in Sizes \cup {"none"}
  /\ frameInitDone \in BOOLEAN
  /\ widgetSize \in Sizes \cup {"none"}
  /\ painting \in Images

FrameInit ==
  /\ wfb = "unconnected"
  /\ cl = NoImage
  /\ m_image = NoImage /\ m_frame = NoImage
  /\ rectOrigin = FALSE
  /\ delivered = FALSE
  /\ old_frame_size = "none"
  /\ frameInitDone = FALSE
  /\ widgetSize = "none"
  /\ painting = NoImage

-----------------------------------------------------------------------------
(* Plausible mistakes in the actions below. *)

(* UpdateFb that leaves m_image alone once there is one. *)
UpdateFbOnce(origin) ==
  /\ wfb = "receive"
  /\ ~delivered => origin
  /\ m_image' = IF m_image = NoImage THEN cl ELSE m_image
  /\ rectOrigin' = origin
  /\ wfb' = "emit"
  /\ UNCHANGED <<cl, m_frame, delivered, old_frame_size, frameInitDone,
                 widgetSize, painting>>

-----------------------------------------------------------------------------
(* The worker. *)

(* newclient(): the old buffer is freed, a new one allocated.  Called when *)
(* the connection is made and when the server reports another size.        *)
AllocateBuffer(size) ==
  /\ cl.buffer < MaxBuffers
  /\ cl' = [buffer |-> cl.buffer + 1, size |-> size]
  /\ delivered' = FALSE
  /\ UNCHANGED <<m_image, m_frame, rectOrigin, old_frame_size, frameInitDone,
                 widgetSize, painting>>

ConnectClient ==
  /\ wfb = "unconnected"
  /\ \E s \in Sizes : AllocateBuffer(s)
  /\ wfb' = "receive"

NewFBSize ==
  /\ wfb = "receive"
  /\ \E s \in Sizes : AllocateBuffer(s)
  /\ UNCHANGED wfb

(* A rectangle has been decoded: updatefb() hands an image of the whole    *)
(* buffer to setImage() and emits imageUpdated().  A new buffer is filled  *)
(* by the answer to a request for all of it, which begins at the origin.   *)
UpdateFb(origin) ==
  /\ wfb = "receive"
  /\ ~delivered => origin
  /\ m_image' = cl
  /\ rectOrigin' = origin
  /\ wfb' = "emit"
  /\ UNCHANGED <<cl, m_frame, delivered, old_frame_size, frameInitDone,
                 widgetSize, painting>>

-----------------------------------------------------------------------------
(* The GUI thread. *)

(* The first update makes the window set the zoom; later ones do it when   *)
(* a rectangle at the origin comes with another size than the static one.  *)
FollowSize ==
  LET changed == rectOrigin /\ m_image.size # old_frame_size
      connect == ~frameInitDone
  IN /\ widgetSize' = IF connect \/ changed THEN m_image.size ELSE widgetSize
     /\ old_frame_size' = IF changed THEN m_image.size ELSE old_frame_size

ShowImage ==
  /\ wfb = "emit"
  /\ painting = NoImage
  /\ m_frame' = m_image
  /\ FollowSize
  /\ frameInitDone' = TRUE
  /\ delivered' = TRUE
  /\ wfb' = "receive"
  /\ UNCHANGED <<cl, m_image, rectOrigin, painting>>

(* paintEvent() reads the pixels of m_frame, at any time and for a while;  *)
(* the worker need not be waiting for it.                                  *)
PaintBegin ==
  /\ painting = NoImage
  /\ m_frame # NoImage
  /\ painting' = m_frame
  /\ UNCHANGED <<threadVars, m_frame, delivered, old_frame_size,
                 frameInitDone, widgetSize>>

PaintEnd ==
  /\ painting # NoImage
  /\ painting' = NoImage
  /\ UNCHANGED <<threadVars, m_frame, delivered, old_frame_size,
                 frameInitDone, widgetSize>>

(* The view and its thread are deleted, and a new pair is made. *)
NextConnection ==
  /\ painting = NoImage
  /\ wfb' = "unconnected"
  /\ cl' = [cl EXCEPT !.size = "none"]    \* numbers go on
  /\ m_image' = NoImage /\ m_frame' = NoImage
  /\ rectOrigin' = FALSE
  /\ delivered' = FALSE
  /\ frameInitDone' = FALSE
  /\ widgetSize' = "none"
  /\ UNCHANGED <<old_frame_size, painting>>

FrameNext ==
  \/ ConnectClient
  \/ NewFBSize
  \/ \E origin \in BOOLEAN : UpdateFb(origin)
  \/ ShowImage
  \/ PaintBegin
  \/ PaintEnd
  \/ NextConnection

FrameSpec == FrameInit /\ [][FrameNext]_frameVars

-----------------------------------------------------------------------------
(* Once the view has been given a rectangle of the current buffer, its     *)
(* frame, and whatever is being painted, is that buffer; the window in     *)
(* which the GUI thread can read freed memory is exactly the one between   *)
(* newclient() and the first update after it.  No paint that begins later  *)
(* can see the old buffer, and the reported image is always a live one.    *)
(* The widget has the size of the frame it shows, although the size is     *)
(* followed by means of a static that is shared by all connections.        *)
FrameIsLiveAfterUpdate ==
  /\ delivered => m_frame = cl /\ painting \in {NoImage, cl}
  /\ wfb = "emit" => m_image = cl
  /\ delivered => widgetSize = m_frame.size
=============================================================================
