----------------------------- MODULE MainWindow -----------------------------
(***************************************************************************)
(* The main window through any number of connections: mainwindow.cpp, the  *)
(* scroll area that owns the view it shows, and the button that leaves     *)
(* full-screen mode.                                                       *)
(*                                                                         *)
(* QScrollArea::setWidget(0) does nothing, so a view that lost its         *)
(* connection stays in the scroll area until the next one replaces it: two *)
(* views can exist, and statusChanged() hears both and keeps its last      *)
(* status in a static.  startQuitting() runs a nested event loop between   *)
(* its two statuses.  What the user starts there is modelled; connecting   *)
(* there re-enters connectToHost() with a view being deleted further up    *)
(* the stack, and nothing is claimed after it ("reentered").  The view's   *)
(* own part, with its late callbacks, is in VncSession.                    *)
(***************************************************************************)
EXTENDS Integers, Sequences

CONSTANT ViewIds       \* identities of views, reused after deletion

ASSUME ViewIdsAssumption == ViewIds \subseteq Nat \ {0}

VARIABLES
  phase,               \* "running", "reentered", "crashed", "closed"
  mw,                  \* MainWindow: see MainTypeOK
  shown,               \* scroll_area->widget()
  alive,               \* views that exist
  status, quitFlag, viewOnly,  \* their m_status, m_quitFlag, m_viewOnly
  quitting,            \* the view whose startQuitting() is on the stack
  quitReason,          \* who called it, and what follows
  nextViewOnly,        \* argument of connectToHost()
  sliderDown,          \* the user holds the zoom slider
  button               \* FullScreenExitButton and its two timers

viewTable == <<alive, status, quitFlag, viewOnly>>
callStack == <<quitting, quitReason, nextViewOnly>>
mainVars == <<phase, mw, shown, viewTable, callStack, sliderDown, button>>

RV == INSTANCE RemoteView

Optional == ViewIds \cup {0}

MainTypeOK ==
  /\ phase \in {"running", "reentered", "crashed", "closed"}
  /\ mw \in [vnc_view : Optional, toolbar : BOOLEAN, inputButtons : BOOLEAN,
             disconnect : BOOLEAN, fullscreen : BOOLEAN,
             message : {"none", "error", "lost"}, crashed : BOOLEAN,
             old_status : RV!RemoteStatus]
  /\ shown \in Optional
  /\ alive \subseteq ViewIds
  /\ status \in [ViewIds -> RV!RemoteStatus]
  /\ quitFlag \in [ViewIds -> BOOLEAN]
  /\ viewOnly \in [ViewIds -> BOOLEAN]
  /\ quitting \in Optional
  /\ quitReason \in {"none", "slot", "disconnect", "connect", "close"}
  /\ nextViewOnly \in BOOLEAN
  /\ sliderDown \in BOOLEAN
  /\ button \in [visible : BOOLEAN, enabled : BOOLEAN, hideTimer : BOOLEAN,
                 reenableTimer : BOOLEAN]

(* No URL on the command line: the connect dialog is shown. *)
MainInit ==
  /\ phase = "running"
  /\ mw = [vnc_view |-> 0, toolbar |-> FALSE, inputButtons |-> TRUE,
           disconnect |-> FALSE, fullscreen |-> FALSE, message |-> "none",
           crashed |-> FALSE, old_status |-> RV!Disconnected]
  /\ shown = 0
  /\ alive = {}
  /\ status = [v \in ViewIds |-> RV!Disconnected]
  /\ quitFlag = [v \in ViewIds |-> FALSE]
  /\ viewOnly = [v \in ViewIds |-> FALSE]
  /\ quitting = 0 /\ quitReason = "none" /\ nextViewOnly = FALSE
  /\ sliderDown = FALSE
  /\ button = [visible |-> FALSE, enabled |-> TRUE, hideTimer |-> FALSE,
               reenableTimer |-> FALSE]

-----------------------------------------------------------------------------
(* Plausible mistakes in the definitions below. *)

(* ConnectionLost that clears vnc_view but stays in full-screen mode. *)
ConnectionLostFullscreen(w) ==
  [w EXCEPT !.message = IF w.disconnect THEN "lost" ELSE @,
            !.vnc_view = 0,
            !.disconnect = FALSE,
            !.toolbar = FALSE,
            !.crashed = @ \/ (w.toolbar /\ sliderDown)]

-----------------------------------------------------------------------------
(* The button that leaves full-screen mode. *)

(* Its event filter: an event of the main window. *)
ButtonSees(b, fullscreen) ==
  IF b.enabled
    THEN [b EXCEPT !.visible = fullscreen, !.hideTimer = @ \/ fullscreen]
    ELSE b

(* The window state may have changed from w to w2. *)
ButtonFollows(w, w2) ==
  button' = IF w.fullscreen # w2.fullscreen
              THEN ButtonSees(button, w2.fullscreen) ELSE button

-----------------------------------------------------------------------------
(* statusChanged().  Disabling the toolbar makes QAbstractSlider release a *)
(* slider that is held, and zoomSliderReleased() dereferences vnc_view.    *)
ConnectionLost(w) ==
  [w EXCEPT !.message = IF w.disconnect THEN "lost" ELSE @,
            !.vnc_view = 0,
            !.disconnect = FALSE,
            !.toolbar = FALSE,
            !.crashed = @ \/ (w.toolbar /\ sliderDown),
            !.fullscreen = FALSE]

HandleStatus(w, s) ==
  CASE s = RV!Connected ->
         [w EXCEPT !.toolbar = TRUE,
                   !.inputButtons = (w.vnc_view # 0 /\ ~viewOnly[w.vnc_view]),
                   !.crashed = @ \/ w.vnc_view = 0]
    [] s = RV!Disconnecting /\ w.old_status # RV!Disconnected ->
         ConnectionLost(w)
    [] OTHER -> w

StatusSlot(w, s) == [HandleStatus(w, s) EXCEPT !.old_status = s]

(* The i-th signal, if there are so many. *)
Signal(w, signals, i) ==
  IF i \in DOMAIN signals THEN StatusSlot(w, signals[i]) ELSE w

(* The main window after the signals of setStatus(s): from none to four. *)
Heard(w, from, s) ==
  LET e == RV!Emitted(from, s)
  IN Signal(Signal(Signal(Signal(w, e, 1), e, 2), e, 3), e, 4)

(* The first lines of disconnectFromHost(); releasing the slider is        *)
(* harmless here, as vnc_view is still set.                                *)
DisableActions(reason, w) ==
  IF reason = "slot" THEN w
  ELSE [w EXCEPT !.disconnect = FALSE, !.toolbar = FALSE]

(* The window goes on with w, unless that was a crash. *)
Continue(w) ==
  /\ mw' = w
  /\ phase' = IF w.crashed THEN "crashed" ELSE phase
  /\ ButtonFollows(mw, w)
  /\ sliderDown' = (sliderDown /\ w.toolbar)

-----------------------------------------------------------------------------
(* A view comes and goes. *)

(* startQuitting() of v up to its waits: called by a slot of the view or   *)
(* by its destructor.                                                      *)
BeginQuit(v, reason, w) ==
  /\ Continue(Heard(DisableActions(reason, w), status[v], RV!Disconnecting))
  /\ status' = [status EXCEPT ![v] = RV!Disconnecting]
  /\ quitFlag' = [quitFlag EXCEPT ![v] = TRUE]
  /\ quitting' = v
  /\ quitReason' = reason
  /\ UNCHANGED <<shown, alive, viewOnly>>

(* connectToHost(): the new view replaces the widget of the scroll area,   *)
(* which is deleted; a view that has not quit would do so now.             *)
MakeView(n, w, remaining) ==
  LET old  == IF shown \in remaining THEN shown ELSE 0
      made == [w EXCEPT !.vnc_view = n]
      gone == IF old = 0 \/ quitFlag[old] THEN made
              ELSE Heard(made, status[old], RV!Disconnecting)
      up   == Heard(gone, RV!Disconnected, RV!Connecting)
  IN /\ n \notin remaining
     /\ shown' = n
     /\ alive' = (remaining \ {old}) \cup {n}
     /\ status' = [status EXCEPT ![n] = RV!Connecting]
     /\ quitFlag' = [quitFlag EXCEPT ![n] = FALSE]
     /\ viewOnly' = [viewOnly EXCEPT ![n] = nextViewOnly']
     /\ Continue([up EXCEPT !.disconnect = TRUE])

(* The rest of startQuitting(), and what follows it. *)
EndQuit ==
  LET v == quitting
      w == Heard(mw, RV!Disconnecting, RV!Disconnected)
      deleted == [w EXCEPT !.vnc_view = 0]
  IN /\ phase = "running"
     /\ v # 0
     /\ quitting' = 0 /\ quitReason' = "none"
     /\ UNCHANGED nextViewOnly
     /\ CASE quitReason = "slot" ->
               /\ Continue(w)
               /\ status' = [status EXCEPT ![v] = RV!Disconnected]
               /\ UNCHANGED <<shown, alive, quitFlag, viewOnly>>
          [] quitReason = "disconnect" ->
               /\ Continue(deleted)
               /\ shown' = IF shown = v THEN 0 ELSE shown
               /\ alive' = alive \ {v}
               /\ status' = [status EXCEPT ![v] = RV!Disconnected]
               /\ UNCHANGED <<quitFlag, viewOnly>>
          [] quitReason = "connect" ->
               \E n \in ViewIds : MakeView(n, deleted, alive \ {v})
          [] quitReason = "close" ->
               /\ phase' = "closed"
               /\ UNCHANGED <<mw, shown, viewTable, sliderDown, button>>

(* The view's status rises, until it quits. *)
Rises(v) ==
  /\ phase = "running" /\ quitting = 0
  /\ v \in alive
  /\ ~quitFlag[v]
  /\ \E s \in {RV!Authenticating, RV!Connected} :
       /\ status[v] < RV!Connected
       /\ s >= status[v]
       /\ Continue(Heard(mw, status[v], s))
       /\ status' = [status EXCEPT ![v] = s]
  /\ UNCHANGED <<shown, alive, quitFlag, viewOnly, callStack>>

(* The view's thread ended, or reported an error. *)
Lost(v) ==
  /\ phase = "running" /\ quitting = 0
  /\ v \in alive
  /\ ~quitFlag[v]
  /\ \E m \in {mw.message, "error"} :
       BeginQuit(v, "slot", [mw EXCEPT !.message = m])
  /\ UNCHANGED nextViewOnly

-----------------------------------------------------------------------------
(* What the user starts.  The menu bar is hidden in full-screen mode.      *)

Connect ==
  /\ phase = "running" /\ quitting = 0
  /\ ~mw.fullscreen
  /\ nextViewOnly' \in BOOLEAN
  /\ IF mw.vnc_view = 0
       THEN /\ \E n \in ViewIds : MakeView(n, mw, alive)
            /\ UNCHANGED <<quitting, quitReason>>
       ELSE BeginQuit(mw.vnc_view, "connect", mw)

Reenter ==
  /\ phase = "running" /\ quitting # 0
  /\ ~mw.fullscreen
  /\ phase' = "reentered"
  /\ UNCHANGED <<mw, shown, viewTable, callStack, sliderDown, button>>

Disconnect ==
  /\ phase = "running"
  /\ quitting = 0
  /\ mw.disconnect /\ ~mw.fullscreen
  /\ mw.vnc_view # 0
  /\ BeginQuit(mw.vnc_view, "disconnect", mw)
  /\ UNCHANGED nextViewOnly

Close ==
  /\ phase = "running"
  /\ IF mw.vnc_view = 0
       THEN /\ phase' = "closed"
            /\ UNCHANGED <<mw, shown, viewTable, callStack, sliderDown, button>>
       ELSE /\ quitting = 0
            /\ BeginQuit(mw.vnc_view, "close", mw)
            /\ UNCHANGED nextViewOnly

(* toggleFullscreen(), from the toolbar or from the button. *)
ToggleFullscreen ==
  /\ phase = "running"
  /\ \/ mw.toolbar /\ ~mw.fullscreen
     \/ button.visible /\ button.enabled
  /\ Continue([mw EXCEPT !.fullscreen = ~@])
  /\ UNCHANGED <<shown, viewTable, callStack>>

(* A key button of the toolbar, and moving and releasing the slider, use   *)
(* vnc_view without a test.                                                *)
ToolbarButton ==
  /\ phase = "running"
  /\ mw.toolbar
  /\ ~mw.fullscreen
  /\ sliderDown' \in BOOLEAN
  /\ mw' = [mw EXCEPT !.crashed = @ \/ mw.vnc_view = 0]
  /\ phase' = IF mw'.crashed THEN "crashed" ELSE phase
  /\ UNCHANGED <<shown, viewTable, callStack, button>>

MessageTimer ==
  /\ phase = "running"
  /\ mw' = [mw EXCEPT !.message = "none"]
  /\ UNCHANGED <<phase, shown, viewTable, callStack, sliderDown, button>>

(* A touch, pointer move or change of size. *)
ButtonEvent ==
  /\ phase = "running"
  /\ button' = ButtonSees(button, mw.fullscreen)
  /\ UNCHANGED <<phase, mw, shown, viewTable, callStack, sliderDown>>

ButtonHides ==
  /\ phase = "running"
  /\ button.hideTimer
  /\ button' = [button EXCEPT !.visible = FALSE, !.hideTimer = FALSE]
  /\ UNCHANGED <<phase, mw, shown, viewTable, callStack, sliderDown>>

(* scrollContentsBy(): overlays slow scrolling down. *)
Scroll ==
  /\ phase = "running"
  /\ shown # 0
  /\ mw' = [mw EXCEPT !.message = "none"]
  /\ button' = [button EXCEPT !.visible = FALSE, !.enabled = FALSE,
                              !.reenableTimer = TRUE]
  /\ UNCHANGED <<phase, shown, viewTable, callStack, sliderDown>>

Reenable ==
  /\ phase = "running"
  /\ button.reenableTimer
  /\ button' = [visible |-> mw.fullscreen, enabled |-> TRUE,
                hideTimer |-> TRUE, reenableTimer |-> FALSE]
  /\ UNCHANGED <<phase, mw, shown, viewTable, callStack, sliderDown>>

MainNext ==
  \/ \E v \in ViewIds : Rises(v) \/ Lost(v)
  \/ EndQuit
  \/ Connect
  \/ Reenter
  \/ Disconnect
  \/ Close
  \/ ToggleFullscreen
  \/ ToolbarButton
  \/ MessageTimer
  \/ ButtonEvent
  \/ ButtonHides
  \/ Scroll
  \/ Reenable

MainSpec == MainInit /\ [][MainNext]_mainVars

-----------------------------------------------------------------------------
(* The status signals of all views, heard through one static, keep the     *)
(* window and its view together: vnc_view is the view in the scroll area   *)
(* and has not quit, and no other view is left connected; an enabled       *)
(* toolbar belongs to a connected view, and its key buttons are enabled    *)
(* just when that view may send input.                                     *)
WindowHasItsView ==
  phase = "running" =>
    /\ mw.vnc_view # 0 =>
         /\ mw.vnc_view = shown
         /\ ~quitFlag[shown]
         /\ mw.disconnect
    /\ \A v \in alive : v = shown /\ (v # mw.vnc_view => quitFlag[v])
    /\ shown # 0 => shown \in alive
    /\ mw.toolbar =>
         /\ mw.vnc_view # 0
         /\ status[mw.vnc_view] = RV!Connected
         /\ mw.inputButtons = ~viewOnly[mw.vnc_view]

(* Full-screen mode is left when the connection ends, for the menu and the *)
(* toolbar would be out of reach; as long as it lasts, the button that     *)
(* leaves it can be brought back, and it is never shown outside it, where  *)
(* a click would enter the mode without a view.                            *)
FullscreenCanBeLeft ==
  phase = "running" =>
    /\ mw.fullscreen => mw.vnc_view # 0
    /\ button.visible => mw.fullscreen /\ button.enabled /\ button.hideTimer
    /\ ~button.enabled => button.reenableTimer

(* Through connections that follow, overlap and get lost, the user is left *)
(* with a window that controls the view it shows.                          *)
WindowIsUsable == WindowHasItsView /\ FullscreenCanBeLeft
=============================================================================
