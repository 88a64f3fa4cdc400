---------------------------- MODULE PointerInput ----------------------------
(***************************************************************************)
(* How a view turns touches, mouse buttons, the wheel and the two zoom     *)
(* keys into pointer events (VncView::mouseEventHandler(),                 *)
(* wheelEventHandler() and the zoom keys of keyEventHandler()).            *)
(*                                                                         *)
(* The left button is a touchpad: a tap is held back for                   *)
(* DOUBLE_TAP_UP_TIME, a second press in that time is either a double      *)
(* click or, when it lasts longer than TAP_PRESS_TIME, a drag.  What the   *)
(* handler remembers between events is static, and the timers that call it *)
(* with e == 0 cannot be cancelled: they end only with their view.         *)
(*                                                                         *)
(* Time passes in ticks; press_time and up_time are what QTime::elapsed()  *)
(* returns, up to the largest value that makes a difference.  A timer is   *)
(* never early but may be late; timers due at the same tick are delivered  *)
(* together.                                                               *)
(***************************************************************************)
EXTENDS Integers, Sequences

CONSTANTS
  TAP_PRESS_TIME, DOUBLE_TAP_UP_TIME,  \* in ticks
  Buttons,                             \* mouse buttons considered
  ZoomActions                          \* values of left_zoom and right_zoom

ASSUME TapTimesAssumption ==
  /\ TAP_PRESS_TIME \in Nat
  /\ DOUBLE_TAP_UP_TIME \in Nat
ASSUME ButtonsAssumption == Buttons \subseteq {"left", "middle", "right"}
ASSUME ZoomAssumption == ZoomActions \subseteq 0..6 /\ {0, 1} \subseteq ZoomActions

VARIABLES
  m_buttonMask,         \* set of pressed rfbButtons
  tap_detected, double_tap_detected, tap_drag_detected,  \* static
  press_time, up_time,                                   \* static
  timers,               \* ticks until the single shots fire
  fingers,              \* buttons the user holds
  zoomHeld,             \* zoom keys the user holds
  zoom,                 \* setting of each zoom key
  m_disable_tapping,
  ownTap,               \* history: the detected tap was made on this view
  serverMask            \* buttons that the server has been told are down

tapVars == <<tap_detected, double_tap_detected, tap_drag_detected, press_time,
             up_time, ownTap>>
settingVars == <<zoom, m_disable_tapping>>
pointerVars == <<m_buttonMask, tapVars, timers, fingers, zoomHeld, settingVars,
                 serverMask>>

ZoomKeys == {"F7", "F8"}

(* rfbButton1Mask to rfbButton3Mask, rfbWheelUpMask, rfbWheelDownMask. *)
Masks == 1..5

(* The button that a mouse button, and that a zoom setting, stands for. *)
ButtonOf == [left |-> 1, middle |-> 2, right |-> 3]
ZoomButton == <<1, 3, 2>>             \* settings 0, 1, 2
WheelOf(setting) == IF setting = 3 THEN 4 ELSE 5

PointerTypeOK ==
  /\ m_buttonMask \subseteq 1..3
  /\ tap_detected \in BOOLEAN
  /\ double_tap_detected \in BOOLEAN
  /\ tap_drag_detected \in BOOLEAN
  /\ press_time \in 0..(TAP_PRESS_TIME + 1)
  /\ up_time \in 0..DOUBLE_TAP_UP_TIME
  /\ timers \subseteq Nat
  /\ fingers \subseteq Buttons
  /\ zoomHeld \subseteq ZoomKeys
  /\ zoom \in [ZoomKeys -> ZoomActions]
  /\ m_disable_tapping \in BOOLEAN
  /\ ownTap \in BOOLEAN
  /\ serverMask \subseteq Masks

(* The first view of the program, with the default settings. *)
PointerInit ==
  /\ m_buttonMask = {}
  /\ tap_detected = FALSE /\ double_tap_detected = FALSE
  /\ tap_drag_detected = FALSE
  /\ press_time = 0 /\ up_time = 0
  /\ timers = {}
  /\ fingers = {} /\ zoomHeld = {}
  /\ zoom = [k \in ZoomKeys |-> IF k = "F8" THEN 0 ELSE 1]
  /\ m_disable_tapping = FALSE
  /\ ownTap = FALSE
  /\ serverMask = {}

-----------------------------------------------------------------------------
(* m_vncThread->mouseEvent() for each mask in turn. *)
Send(masks) == serverMask' = masks[Len(masks)]

(* Plausible mistakes in the actions below. *)

(* FlushDrag that does not remember the drag. *)
FlushDragForgotten ==
  /\ ~tap_detected
  /\ double_tap_detected
  /\ press_time > TAP_PRESS_TIME
  /\ m_buttonMask' = m_buttonMask \cup {1}
  /\ Send(<<m_buttonMask'>>)
  /\ double_tap_detected' = FALSE
  /\ UNCHANGED <<tap_detected, tap_drag_detected, press_time, up_time, ownTap>>

(* FirstTap that does not start the timer. *)
FirstTapUntimed ==
  /\ ~tap_drag_detected /\ ~double_tap_detected
  /\ press_time < TAP_PRESS_TIME
  /\ up_time' = 0
  /\ tap_detected' = TRUE /\ ownTap' = TRUE
  /\ Send(<<m_buttonMask>>)
  /\ UNCHANGED <<m_buttonMask, double_tap_detected, tap_drag_detected,
                 press_time, timers>>

-----------------------------------------------------------------------------
(* Timers: mouseEventHandler(0). *)

FlushTap ==
  /\ tap_detected
  /\ Send(<<m_buttonMask \cup {1}, m_buttonMask \ {1}>>)
  /\ m_buttonMask' = m_buttonMask \ {1}
  /\ tap_detected' = FALSE
  /\ UNCHANGED <<double_tap_detected, tap_drag_detected, press_time, up_time,
                 ownTap>>

FlushDrag ==
  /\ ~tap_detected
  /\ double_tap_detected
  /\ press_time > TAP_PRESS_TIME
  /\ m_buttonMask' = m_buttonMask \cup {1}
  /\ Send(<<m_buttonMask'>>)
  /\ double_tap_detected' = FALSE
  /\ tap_drag_detected' = TRUE
  /\ UNCHANGED <<tap_detected, press_time, up_time, ownTap>>

FlushNothing ==
  /\ ~tap_detected
  /\ ~(double_tap_detected /\ press_time > TAP_PRESS_TIME)
  /\ UNCHANGED <<m_buttonMask, serverMask, tapVars>>

TimerFires ==
  /\ 0 \in timers
  /\ timers' = timers \ {0}
  /\ FlushTap \/ FlushDrag \/ FlushNothing
  /\ UNCHANGED <<fingers, zoomHeld, settingVars>>

Tick ==
  /\ press_time' = IF press_time <= TAP_PRESS_TIME THEN press_time + 1
                                                   ELSE press_time
  /\ up_time' = IF up_time < DOUBLE_TAP_UP_TIME THEN up_time + 1 ELSE up_time
  /\ timers' = {IF t = 0 THEN 0 ELSE t - 1 : t \in timers}
  /\ UNCHANGED <<m_buttonMask, tap_detected, double_tap_detected,
                 tap_drag_detected, fingers, zoomHeld, settingVars, ownTap,
                 serverMask>>

-----------------------------------------------------------------------------
(* The left button, when tapping is enabled. *)

Press ==
  LET second == tap_detected /\ up_time < DOUBLE_TAP_UP_TIME
  IN /\ press_time' = 0
     /\ tap_detected' = (tap_detected /\ ~second)
     /\ double_tap_detected' = (double_tap_detected \/ second)
     /\ timers' = IF second THEN timers \cup {TAP_PRESS_TIME} ELSE timers
     /\ Send(<<m_buttonMask>>)
     /\ UNCHANGED <<m_buttonMask, tap_drag_detected, up_time, ownTap>>

EndDrag ==
  /\ tap_drag_detected
  /\ m_buttonMask' = m_buttonMask \ {1}
  /\ Send(<<m_buttonMask, m_buttonMask'>>)
  /\ tap_drag_detected' = FALSE
  /\ UNCHANGED <<tap_detected, double_tap_detected, press_time, up_time,
                 ownTap, timers>>

DoubleClick ==
  LET down == m_buttonMask \cup {1}
      up   == m_buttonMask \ {1}
  IN /\ ~tap_drag_detected
     /\ double_tap_detected
     /\ double_tap_detected' = FALSE
     /\ m_buttonMask' = up
     /\ Send(<<m_buttonMask, down, up, down, up>>)
     /\ UNCHANGED <<tap_detected, tap_drag_detected, press_time, up_time,
                    ownTap, timers>>

FirstTap ==
  /\ ~tap_drag_detected /\ ~double_tap_detected
  /\ press_time < TAP_PRESS_TIME
  /\ up_time' = 0
  /\ tap_detected' = TRUE /\ ownTap' = TRUE
  /\ timers' = timers \cup {DOUBLE_TAP_UP_TIME}
  /\ Send(<<m_buttonMask>>)
  /\ UNCHANGED <<m_buttonMask, double_tap_detected, tap_drag_detected,
                 press_time>>

LongPress ==
  /\ ~tap_drag_detected /\ ~double_tap_detected
  /\ press_time >= TAP_PRESS_TIME
  /\ Send(<<m_buttonMask>>)
  /\ UNCHANGED <<m_buttonMask, tapVars, timers>>

Release == EndDrag \/ DoubleClick \/ FirstTap \/ LongPress

(* The other buttons, and the left one when tapping is disabled.  The      *)
(* press that Qt reports as a double click is not one for this code.       *)
DirectPress(b, doubleClick) ==
  /\ m_buttonMask' = IF b = "left" \/ doubleClick THEN m_buttonMask
                     ELSE m_buttonMask \cup {ButtonOf[b]}
  /\ Send(<<m_buttonMask, m_buttonMask'>>)
  /\ UNCHANGED <<tapVars, timers>>

DirectRelease(b) ==
  /\ m_buttonMask' = IF b = "left" THEN m_buttonMask
                     ELSE m_buttonMask \ {ButtonOf[b]}
  /\ Send(<<m_buttonMask, m_buttonMask'>>)
  /\ UNCHANGED <<tapVars, timers>>

(* An event with a negative position, as a release left of or above the    *)
(* view has one, is ignored.                                               *)
IgnoredEvent ==
  /\ UNCHANGED <<m_buttonMask, serverMask, tapVars, timers>>

Tapping(b) == b = "left" /\ ~m_disable_tapping

MousePress(b) ==
  /\ b \notin fingers
  /\ fingers' = fingers \cup {b}
  /\ \/ Tapping(b) /\ Press
     \/ ~Tapping(b) /\ \E dbl \in BOOLEAN : DirectPress(b, dbl)
     \/ IgnoredEvent
  /\ UNCHANGED <<zoomHeld, settingVars>>

MouseRelease(b) ==
  /\ b \in fingers
  /\ fingers' = fingers \ {b}
  /\ \/ Tapping(b) /\ Release
     \/ ~Tapping(b) /\ DirectRelease(b)
     \/ IgnoredEvent
  /\ UNCHANGED <<zoomHeld, settingVars>>

MouseMove ==
  /\ Send(<<m_buttonMask, m_buttonMask>>)
  /\ UNCHANGED <<m_buttonMask, tapVars, timers, fingers, zoomHeld, settingVars>>

Wheel ==
  /\ \E w \in {4, 5} : Send(<<m_buttonMask \cup {w}, m_buttonMask>>)
  /\ UNCHANGED <<m_buttonMask, tapVars, timers, fingers, zoomHeld, settingVars>>

-----------------------------------------------------------------------------
(* The zoom keys: a click, the wheel, or (5 and 6) a key of the keyboard.  *)
(* Key repeat makes presses only.                                          *)

ZoomPress(k) ==
  /\ zoomHeld' = zoomHeld \cup {k}
  /\ CASE zoom[k] \in 0..2 ->
            /\ m_buttonMask' = m_buttonMask \cup {ZoomButton[zoom[k] + 1]}
            /\ Send(<<m_buttonMask'>>)
       [] zoom[k] \in {3, 4} ->
            /\ Send(<<m_buttonMask \cup {WheelOf(zoom[k])}, m_buttonMask>>)
            /\ UNCHANGED m_buttonMask
       [] OTHER -> UNCHANGED <<m_buttonMask, serverMask>>
  /\ UNCHANGED <<tapVars, timers, fingers, settingVars>>

ZoomRelease(k) ==
  /\ k \in zoomHeld
  /\ zoomHeld' = zoomHeld \ {k}
  /\ IF zoom[k] \in 0..2
       THEN /\ m_buttonMask' = m_buttonMask \ {ZoomButton[zoom[k] + 1]}
            /\ Send(<<m_buttonMask'>>)
       ELSE UNCHANGED <<m_buttonMask, serverMask>>
  /\ UNCHANGED <<tapVars, timers, fingers, settingVars>>

-----------------------------------------------------------------------------
(* The preferences are a modal dialog: nothing is held while it is used. *)
ReloadSettings ==
  /\ fingers = {} /\ zoomHeld = {}
  /\ zoom' \in [ZoomKeys -> ZoomActions]
  /\ m_disable_tapping' \in BOOLEAN
  /\ UNCHANGED <<m_buttonMask, tapVars, timers, fingers, zoomHeld,
                 serverMask>>

(* The view is deleted, with its timers, and another one is made.  Buttons *)
(* that are held go on being held, but it is not this view that sees their *)
(* release.                                                                *)
NewView ==
  /\ m_buttonMask' = {}
  /\ timers' = {}
  /\ fingers' = {} /\ zoomHeld' = {}
  /\ ownTap' = FALSE
  /\ serverMask' = {}               \* a new connection
  /\ UNCHANGED <<tap_detected, double_tap_detected, tap_drag_detected,
                 press_time, up_time, settingVars>>

PointerNext ==
  \/ TimerFires
  \/ Tick
  \/ \E b \in Buttons : MousePress(b) \/ MouseRelease(b)
  \/ MouseMove
  \/ Wheel
  \/ \E k \in ZoomKeys : ZoomPress(k) \/ ZoomRelease(k)
  \/ ReloadSettings
  \/ NewView

PointerSpec == PointerInit /\ [][PointerNext]_pointerVars

-----------------------------------------------------------------------------
(* The server has button 1 down only for a drag, which the next release of *)
(* the left button that the view sees will end (tap_drag_detected is       *)
(* static: neither another gesture nor a lost release may forget it), or   *)
(* for a zoom key that is held; and the view knows of every button that is *)
(* down.  Otherwise the remote button would stay pressed for ever.         *)
Button1HasOwner ==
  /\ serverMask = m_buttonMask
  /\ 1 \in serverMask =>
       tap_drag_detected \/ \E k \in zoomHeld : zoom[k] = 0

(* A tap that is held back is sent in the end, as a click or as a part of  *)
(* a double click or drag, as long as its view lives.                      *)
HeldTapIsSent == (tap_detected /\ ownTap) ~> ~(tap_detected /\ ownTap)
=============================================================================
