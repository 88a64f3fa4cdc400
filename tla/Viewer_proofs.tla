--------------------------- MODULE Viewer_proofs ----------------------------
(***************************************************************************)
(* Proofs about six parts of the viewer program, each with its own         *)
(* specification:                                                          *)
(*   PointerInput    the left button at the server has an owner;           *)
(*   KeyboardInput   the remembered modifiers are those down at the server,*)
(*                   and a combination leaves them as they were;           *)
(*   FrameBuffer     what is shown is the live buffer;                     *)
(*   Configuration   no start, save or kill loses a setting;               *)
(*   MainWindow      the window and the view it shows stay together;       *)
(*   HostHistory     the list of hosts keeps its hosts and their order.    *)
(***************************************************************************)
EXTENDS PointerInput, KeyboardInput, FrameBuffer, Configuration, MainWindow,
        HostHistory, FiniteSetTheorems,
        SequenceTheorems, TLAPS

-----------------------------------------------------------------------------
(***************************************************************************)
(* Proofs about PointerInput: whatever the user, the timers and the        *)
(* settings do, in any order and for all times and buttons, the left       *)
(* button is down at the server only for a drag or a zoom key.             *)
(***************************************************************************)

PointerInv == PointerTypeOK /\ Button1HasOwner

(* The parts of the type invariant. *)
GesturesOK ==
  /\ tap_detected \in BOOLEAN /\ double_tap_detected \in BOOLEAN
  /\ tap_drag_detected \in BOOLEAN
  /\ m_disable_tapping \in BOOLEAN /\ ownTap \in BOOLEAN
TimesOK ==
  /\ press_time \in 0..(TAP_PRESS_TIME + 1)
  /\ up_time \in 0..DOUBLE_TAP_UP_TIME
  /\ timers \subseteq Nat
HeldOK ==
  /\ m_buttonMask \subseteq 1..3 /\ serverMask \subseteq Masks
  /\ fingers \subseteq Buttons /\ zoomHeld \subseteq ZoomKeys
  /\ zoom \in [ZoomKeys -> ZoomActions]

(* The parts of the invariant, as the lemmas use them ... *)
LEMMA PointerParts ==
  PointerInv <=> GesturesOK /\ TimesOK /\ HeldOK /\ Button1HasOwner
BY DEF PointerInv, PointerTypeOK, GesturesOK, TimesOK, HeldOK

(* ... and as they establish them. *)
LEMMA PointerPartsNext ==
  PointerInv' <=> GesturesOK' /\ TimesOK' /\ HeldOK' /\ Button1HasOwner'
BY DEF PointerInv, PointerTypeOK, GesturesOK, TimesOK, HeldOK

(* Nothing is pressed at first. *)
LEMMA PointerInitInv == PointerInit => PointerInv
<1> SUFFICES ASSUME PointerInit PROVE PointerInv
  OBVIOUS
<1>1. GesturesOK
  BY DEF PointerInit, GesturesOK
<1>2. TimesOK
  BY TapTimesAssumption DEF PointerInit, TimesOK
<1>3. HeldOK
  BY ZoomAssumption DEF PointerInit, HeldOK, ZoomKeys
<1>4. Button1HasOwner
  BY DEF PointerInit, Button1HasOwner
<1>5. QED
  BY <1>1, <1>2, <1>3, <1>4, PointerParts

-----------------------------------------------------------------------------
(* The last of the masks is what the server has. *)
LEMMA SentLast ==
  /\ \A a : Send(<<a>>) => serverMask' = a
  /\ \A a, b : Send(<<a, b>>) => serverMask' = b
  /\ \A a, b, c, d, e : Send(<<a, b, c, d, e>>) => serverMask' = e
BY DEF Send

(* The timers that call the handler. *)
LEMMA TimerInv == PointerInv /\ TimerFires => PointerInv'
<1> SUFFICES ASSUME PointerInv, TimerFires PROVE PointerInv'
  OBVIOUS
<1> USE PointerParts, PointerPartsNext DEF TimerFires, settingVars
<1>1. TimesOK'
  BY DEF TimesOK, FlushTap, FlushDrag, FlushNothing, tapVars
<1>2. CASE FlushTap
  BY <1>1, <1>2, SentLast
     DEF FlushTap, GesturesOK, HeldOK, Button1HasOwner, Masks
<1>3. CASE FlushDrag
  <2>1. GesturesOK'
    BY <1>3 DEF FlushDrag, GesturesOK
  <2>2. HeldOK' /\ Button1HasOwner'
    BY <1>3, SentLast DEF FlushDrag, HeldOK, Button1HasOwner, Masks
  <2>3. QED
    BY <1>1, <2>1, <2>2
<1>4. CASE FlushNothing
  BY <1>1, <1>4 DEF FlushNothing, tapVars, GesturesOK, HeldOK, Button1HasOwner
<1>5. QED
  BY <1>2, <1>3, <1>4

(* Time passes. *)
LEMMA TickInv == PointerInv /\ Tick => PointerInv'
<1> SUFFICES ASSUME PointerInv, Tick PROVE PointerInv'
  OBVIOUS
<1> USE PointerParts, PointerPartsNext DEF Tick, settingVars
<1>1. TimesOK'
  <2>1. \A t \in Nat : (IF t = 0 THEN 0 ELSE t - 1) \in Nat
    OBVIOUS
  <2>2. timers' \subseteq Nat
    BY <2>1 DEF TimesOK
  <2>3. QED
    BY <2>2, TapTimesAssumption DEF TimesOK
<1>2. GesturesOK' /\ HeldOK' /\ Button1HasOwner'
  BY DEF GesturesOK, HeldOK, Button1HasOwner
<1>3. QED
  BY <1>1, <1>2

(* Pressing and releasing mouse buttons. *)
LEMMA MousePressInv ==
  ASSUME PointerInv, NEW b \in Buttons, MousePress(b)
  PROVE  PointerInv'
<1> USE PointerParts, PointerPartsNext DEF MousePress, settingVars
<1>1. CASE Tapping(b) /\ Press
  <2>1. GesturesOK'
    BY <1>1 DEF Press, GesturesOK
  <2>2. TimesOK'
    BY <1>1, TapTimesAssumption DEF Press, TimesOK
  <2>3. HeldOK' /\ Button1HasOwner'
    BY <1>1, SentLast DEF Press, HeldOK, Button1HasOwner
  <2>4. QED
    BY <2>1, <2>2, <2>3
<1>2. CASE ~Tapping(b) /\ \E dbl \in BOOLEAN : DirectPress(b, dbl)
  <2>1. b # "left" => ButtonOf[b] \in {2, 3}
    BY ButtonsAssumption DEF ButtonOf
  <2>2. GesturesOK' /\ TimesOK'
    BY <1>2 DEF DirectPress, GesturesOK, TimesOK, tapVars
  <2>3. HeldOK' /\ Button1HasOwner'
    <3>1. PICK dbl \in BOOLEAN : DirectPress(b, dbl)
      BY <1>2
    <3>2. serverMask' = m_buttonMask'
      BY <3>1, SentLast DEF DirectPress
    <3>3. \/ m_buttonMask' = m_buttonMask
          \/ b # "left" /\ m_buttonMask' = m_buttonMask \cup {ButtonOf[b]}
      BY <3>1 DEF DirectPress
    <3>4. tap_drag_detected' = tap_drag_detected
      BY <3>1 DEF DirectPress, tapVars
    <3>5. QED
      BY <2>1, <3>2, <3>3, <3>4 DEF HeldOK, Button1HasOwner, Masks
  <2>4. QED
    BY <2>2, <2>3
<1>3. CASE IgnoredEvent
  BY <1>3 DEF IgnoredEvent, tapVars, GesturesOK, TimesOK, HeldOK,
     Button1HasOwner
<1>4. QED
  BY <1>1, <1>2, <1>3

(* mouseReleaseEvent(): the handler for each button and setting. *)
LEMMA MouseReleaseInv ==
  ASSUME PointerInv, NEW b \in Buttons, MouseRelease(b)
  PROVE  PointerInv'
<1> USE PointerParts, PointerPartsNext DEF MouseRelease, settingVars
<1>1. CASE Release
  <2>1. GesturesOK'
    BY <1>1 DEF Release, EndDrag, DoubleClick, FirstTap, LongPress, tapVars,
       GesturesOK
  <2>2. TimesOK'
    BY <1>1, TapTimesAssumption
       DEF Release, EndDrag, DoubleClick, FirstTap, LongPress, tapVars, TimesOK
  <2>3. HeldOK' /\ Button1HasOwner'
    <3> USE SentLast DEF HeldOK, Button1HasOwner, Masks
    <3>1. CASE EndDrag
      BY <3>1 DEF EndDrag
    <3>2. CASE DoubleClick
      BY <3>2 DEF DoubleClick
    <3>3. CASE FirstTap \/ LongPress
      BY <3>3 DEF FirstTap, LongPress, tapVars
    <3>4. QED
      BY <1>1, <3>1, <3>2, <3>3 DEF Release
  <2>4. QED
    BY <2>1, <2>2, <2>3
<1>2. CASE DirectRelease(b)
  <2>1. b # "left" => ButtonOf[b] \in {2, 3}
    BY ButtonsAssumption DEF ButtonOf
  <2>2. GesturesOK' /\ TimesOK'
    BY <1>2 DEF DirectRelease, GesturesOK, TimesOK, tapVars
  <2>3. HeldOK' /\ Button1HasOwner'
    BY <1>2, <2>1, SentLast
       DEF DirectRelease, HeldOK, Button1HasOwner, Masks, tapVars
  <2>4. QED
    BY <2>2, <2>3
<1>3. CASE IgnoredEvent
  BY <1>3 DEF IgnoredEvent, tapVars, GesturesOK, TimesOK, HeldOK,
     Button1HasOwner
<1>4. QED
  BY <1>1, <1>2, <1>3

(* Moves and the wheel leave the buttons alone. *)
LEMMA MoveInv == PointerInv /\ (MouseMove \/ Wheel) => PointerInv'
BY SentLast DEF PointerInv, PointerTypeOK, Button1HasOwner, MouseMove, Wheel,
   tapVars, settingVars, Masks

(* The zoom keys: each button has one setting. *)
LEMMA ZoomButtons ==
  ASSUME NEW z \in ZoomActions
  PROVE  z \in 0..2 => /\ ZoomButton[z + 1] \in 1..3
                       /\ ZoomButton[z + 1] = 1 <=> z = 0
BY ZoomAssumption DEF ZoomButton

(* A zoom key is pressed ... *)
LEMMA ZoomPressInv ==
  ASSUME PointerInv, NEW k \in ZoomKeys, ZoomPress(k)
  PROVE  PointerInv'
<1> USE PointerParts, PointerPartsNext DEF ZoomPress, settingVars, tapVars
<1>1. GesturesOK' /\ TimesOK'
  BY DEF GesturesOK, TimesOK
<1>2. CASE zoom[k] \in 0..2
  <2>1. /\ m_buttonMask' = m_buttonMask \cup {ZoomButton[zoom[k] + 1]}
        /\ Send(<<m_buttonMask'>>)
    BY <1>2
  <2>2. zoom[k] \in ZoomActions
    BY DEF HeldOK
  <2>3. QED
    BY <1>1, <1>2, <2>1, <2>2, SentLast, ZoomButtons
       DEF HeldOK, Button1HasOwner, Masks
<1>3. CASE zoom[k] \in {3, 4}
  BY <1>1, <1>3, SentLast DEF HeldOK, Button1HasOwner
<1>4. CASE zoom[k] \notin 0..4
  BY <1>1, <1>4 DEF HeldOK, Button1HasOwner
<1>5. QED
  BY <1>2, <1>3, <1>4

(* ... and released. *)
LEMMA ZoomReleaseInv ==
  ASSUME PointerInv, NEW k \in ZoomKeys, ZoomRelease(k)
  PROVE  PointerInv'
<1> USE PointerParts, PointerPartsNext DEF ZoomRelease, settingVars, tapVars
<1>1. GesturesOK' /\ TimesOK'
  BY DEF GesturesOK, TimesOK
<1>2. zoom[k] \in ZoomActions
  BY DEF HeldOK
<1>3. CASE zoom[k] \in 0..2
  <2>1. /\ m_buttonMask' = m_buttonMask \ {ZoomButton[zoom[k] + 1]}
        /\ Send(<<m_buttonMask'>>)
    BY <1>3
  <2>2. serverMask' = m_buttonMask'
    BY <2>1, SentLast
  <2>3. 1 \in serverMask' => zoom[k] # 0
    BY <1>2, <1>3, <2>1, <2>2, ZoomButtons
  <2>4. QED
    BY <1>1, <2>1, <2>2, <2>3 DEF HeldOK, Button1HasOwner, Masks
<1>4. CASE zoom[k] \notin 0..2
  <2>1. zoom[k] # 0 /\ UNCHANGED <<m_buttonMask, serverMask>>
    BY <1>4
  <2>2. QED
    BY <1>1, <2>1 DEF HeldOK, Button1HasOwner
<1>5. QED
  BY <1>3, <1>4

(* New settings, and a new view, which begins with no button pressed. *)
LEMMA ViewInv == PointerInv /\ (ReloadSettings \/ NewView) => PointerInv'
BY DEF PointerInv, PointerTypeOK, Button1HasOwner, ReloadSettings, NewView,
   tapVars, settingVars

-----------------------------------------------------------------------------
(* The gestures keep their types, and the left button has an owner: no     *)
(* order of presses, releases, timers, late timers, lost events, zoom keys *)
(* and changes of the settings or the view leaves it pressed at the server *)
(* with nobody to release it.                                              *)
THEOREM PointerInvariance == PointerSpec => []PointerInv
<1>1. PointerInv /\ [PointerNext]_pointerVars => PointerInv'
  <2> SUFFICES ASSUME PointerInv, [PointerNext]_pointerVars
               PROVE  PointerInv'
    OBVIOUS
  <2>1. CASE TimerFires \/ Tick
    BY <2>1, TimerInv, TickInv
  <2>2. CASE \E b \in Buttons : MousePress(b) \/ MouseRelease(b)
    BY <2>2, MousePressInv, MouseReleaseInv
  <2>3. CASE MouseMove \/ Wheel
    BY <2>3, MoveInv
  <2>4. CASE \E k \in ZoomKeys : ZoomPress(k) \/ ZoomRelease(k)
    BY <2>4, ZoomPressInv, ZoomReleaseInv
  <2>5. CASE ReloadSettings \/ NewView
    BY <2>5, ViewInv
  <2>6. CASE UNCHANGED pointerVars
    BY <2>6 DEF PointerInv, PointerTypeOK, Button1HasOwner, pointerVars,
       tapVars, settingVars
  <2>7. QED
    BY <2>1, <2>2, <2>3, <2>4, <2>5, <2>6 DEF PointerNext
<1>2. QED
  BY <1>1, PointerInitInv, PTL DEF PointerSpec

(* Button1HasOwner, for all times and buttons. *)
THEOREM ButtonIsReleased == PointerSpec => []Button1HasOwner
BY PointerInvariance, PTL DEF PointerInv

-----------------------------------------------------------------------------
(***************************************************************************)
(* Whatever keys, buttons and combinations there are, the modifiers that   *)
(* the view remembers are those that are down at the server.               *)
(***************************************************************************)

(* A sequence is sent by one handler, and ~VncView() does not run inside   *)
(* it: a window without a view has nothing left to send.                   *)
NoViewNothingToSend == ~viewAlive => keys = <<>>

ModifiersInv ==
  /\ m_mods \cap KeyboardMods = serverKeys \cap KeyboardMods
  /\ ~viewAlive => serverKeys \cap KeyboardMods = {}
  /\ NoViewNothingToSend

(* Pressing a key adds it on both sides or, if it is no modifier of the    *)
(* keyboard, on neither side of the comparison.                            *)
LEMMA KeyPressInv ==
  ASSUME ModifiersInv, NEW k \in Keys, KeyPress(k)
  PROVE  ModifiersInv'
<1>1. viewAlive /\ viewAlive' = viewAlive
  BY DEF KeyPress, Ready
<1>2. m_mods' \cap KeyboardMods = serverKeys' \cap KeyboardMods
  BY DEF ModifiersInv, KeyPress
<1>3. QED
  BY <1>1, <1>2 DEF ModifiersInv, NoViewNothingToSend

(* Releasing a modifier that m_mods does not hold releases all that it     *)
(* holds; the others release the one key.                                  *)
LEMMA KeyReleaseInv ==
  ASSUME ModifiersInv, NEW k \in Keys, KeyRelease(k)
  PROVE  ModifiersInv'
<1>1. viewAlive /\ viewAlive' = viewAlive
  BY DEF KeyRelease, Ready
<1>2. m_mods' \cap KeyboardMods = serverKeys' \cap KeyboardMods
  <2>1. CASE ModifierReleased(k)
    BY <2>1 DEF ModifiersInv, ModifierReleased
  <2>2. CASE UnknownModifierReleased(k)
    BY <2>2 DEF ModifiersInv, UnknownModifierReleased
  <2>3. CASE OtherReleased(k)
    BY <2>3 DEF ModifiersInv, OtherReleased
  <2>4. QED
    BY <2>1, <2>2, <2>3 DEF KeyRelease
<1>3. QED
  BY <1>1, <1>2 DEF ModifiersInv, NoViewNothingToSend

(* sendKey(): the key toggles on both sides, or is no modifier. *)
LEMMA SendKeyKeepsMatch ==
  ASSUME NEW k, SendKey(k),
         m_mods \cap KeyboardMods = serverKeys \cap KeyboardMods
  PROVE  m_mods' \cap KeyboardMods = serverKeys' \cap KeyboardMods
<1>1. CASE k \in ToggledMods
  <2>1. CASE k \in m_mods
    BY <1>1, <2>1 DEF SendKey, Toggle
  <2>2. CASE k \notin m_mods
    BY <1>1, <2>2 DEF SendKey, Toggle
  <2>3. QED
    BY <2>1, <2>2
<1>2. CASE k \notin ToggledMods
  BY <1>2 DEF SendKey, SendNormal, ToggledMods
<1>3. QED
  BY <1>1, <1>2

(* Every handler keeps both sides equal. *)
LEMMA KeyboardNextInv ==
  ASSUME ModifiersInv, [KeyboardNext]_keyboardVars
  PROVE  ModifiersInv'
<1>1. CASE \E k \in Keys : KeyPress(k) \/ KeyRelease(k) \/ ReleasedElsewhere(k)
  <2>1. PICK k \in Keys : KeyPress(k) \/ KeyRelease(k) \/ ReleasedElsewhere(k)
    BY <1>1
  <2>2. CASE KeyPress(k)
    BY <2>2, KeyPressInv
  <2>3. CASE KeyRelease(k)
    BY <2>3, KeyReleaseInv
  <2>4. CASE ReleasedElsewhere(k)
    BY <2>4 DEF ReleasedElsewhere, ModifiersInv, NoViewNothingToSend,
                menuVars, sequenceVars
  <2>5. QED
    BY <2>1, <2>2, <2>3, <2>4
<1>2. CASE \E k \in Letters : ToolbarKey(k)
  <2>1. PICK k \in Letters : ToolbarKey(k)
    BY <1>2
  <2>2. viewAlive /\ viewAlive' = viewAlive
    BY <2>1 DEF ToolbarKey, Ready, menuVars
  <2>3. m_mods' \cap KeyboardMods = serverKeys' \cap KeyboardMods
    BY <2>1, SendKeyKeepsMatch DEF ToolbarKey, ModifiersInv
  <2>4. QED
    BY <2>2, <2>3 DEF ModifiersInv, NoViewNothingToSend
<1>3. CASE \E s \in Combinations : KeyMenuEntry(s)
  <2>1. PICK s \in Combinations : KeyMenuEntry(s)
    BY <1>3
  <2>2. QED
    BY <2>1 DEF KeyMenuEntry, Ready, ModifiersInv, NoViewNothingToSend
<1>4. CASE SendNext
  <2>1. viewAlive /\ viewAlive' = viewAlive
    BY <1>4 DEF SendNext, Idle, ModifiersInv, NoViewNothingToSend, menuVars
  <2>2. m_mods' \cap KeyboardMods = serverKeys' \cap KeyboardMods
    BY <1>4, SendKeyKeepsMatch DEF SendNext, ModifiersInv
  <2>3. QED
    BY <2>1, <2>2 DEF ModifiersInv, NoViewNothingToSend
<1>5. CASE DestroyView
  <2>1. keys' = <<>>
    BY <1>5 DEF DestroyView, Ready, Idle, sequenceVars
  <2>2. m_mods' = {} /\ serverKeys' = serverKeys \ m_mods
    BY <1>5 DEF DestroyView, UnpressModifiers
  <2>3. serverKeys' \cap KeyboardMods = {}
    BY <2>2 DEF ModifiersInv
  <2>4. QED
    BY <2>1, <2>2, <2>3 DEF ModifiersInv, NoViewNothingToSend
<1>6. CASE ConnectView
  BY <1>6 DEF ConnectView, ModifiersInv, NoViewNothingToSend
<1>7. CASE UNCHANGED keyboardVars
  BY <1>7 DEF keyboardVars, sequenceVars, menuVars, ModifiersInv,
              NoViewNothingToSend
<1>8. QED
  BY <1>1, <1>2, <1>3, <1>4, <1>5, <1>6, <1>7 DEF KeyboardNext

(* For every set of letters and combinations: a modifier that the view     *)
(* tracks is down at the server if and only if m_mods holds it, and none   *)
(* is left down when the view is gone.                                     *)
THEOREM ModifiersAlwaysMatch == KeyboardSpec => []ModifiersMatchServer
<1>1. KeyboardInit => ModifiersInv
  BY DEF KeyboardInit, ModifiersInv, NoViewNothingToSend
<1>2. ModifiersInv /\ [KeyboardNext]_keyboardVars => ModifiersInv'
  BY KeyboardNextInv
<1>3. ModifiersInv => ModifiersMatchServer
  BY DEF ModifiersInv, ModifiersMatchServer
<1>4. QED
  BY <1>1, <1>2, <1>3, PTL DEF KeyboardSpec

-----------------------------------------------------------------------------
(***************************************************************************)
(* For every set of combinations, of any length, each of them leaves the   *)
(* modifiers as it found them.                                             *)
(***************************************************************************)

(* What one call of sendKey() makes of the modifiers. *)
Toggled(mods, k) ==
  IF k \in ToggledMods
  THEN IF k \in mods THEN mods \ {k} ELSE mods \cup {k}
  ELSE mods

(* The last j keys of rest undo, in reverse order, what was sent before:   *)
(* A[i] is what the modifiers were when i of those were sent.              *)
Undone(A, j, rest) ==
  \A i \in 1..j : A[i] = Toggled(A[i - 1], rest[Len(rest) + 1 - i])

UndoneFrom(before, now, j, rest) ==
  \E A \in [0..j -> SUBSET ToggledMods] :
    A[0] = before /\ A[j] = now /\ Undone(A, j, rest)

(* The keys before them read the same from both ends, around one that is   *)
(* not a modifier, or there are none.                                      *)
Mirrored(p, rest) ==
  \/ p = 0
  \/ \E q \in 0..p :
       /\ p = 2 * q + 1
       /\ rest[q + 1] \in Letters
       /\ \A i \in 1..q : rest[i] = rest[p + 1 - i]

KeysTyped ==
  /\ m_mods \subseteq ToggledMods
  /\ modsBefore \subseteq ToggledMods
  /\ keys \in Seq(Keys)

CombinationInv ==
  /\ KeysTyped
  /\ combination /\ keys # <<>> =>
       \E j \in 0..Len(keys) :
         /\ Mirrored(Len(keys) - j, keys)
         /\ UndoneFrom(modsBefore, m_mods, j, keys)

(* sendKey() twice is nothing. *)
LEMMA ToggledTwice ==
  ASSUME NEW mods, NEW k
  PROVE  Toggled(Toggled(mods, k), k) = mods
<1>1. CASE k \in ToggledMods /\ k \in mods
  BY <1>1 DEF Toggled
<1>2. CASE k \in ToggledMods /\ k \notin mods
  BY <1>2 DEF Toggled
<1>3. CASE k \notin ToggledMods
  BY <1>3 DEF Toggled
<1>4. QED
  BY <1>1, <1>2, <1>3

(* ... and once leaves a set of modifiers. *)
LEMMA ToggledTyped ==
  ASSUME NEW mods \in SUBSET ToggledMods, NEW k
  PROVE  Toggled(mods, k) \in SUBSET ToggledMods
BY DEF Toggled

(* sendKey() does so to m_mods. *)
LEMMA SendKeyToggles ==
  ASSUME NEW k, SendKey(k)
  PROVE  m_mods' = Toggled(m_mods, k)
BY DEF SendKey, Toggle, SendNormal, Toggled

(* The sequence that is sent for an entry of the menu. *)
LEMMA BothWays ==
  ASSUME NEW s \in Seq(Keys), s # <<>>
  PROVE  /\ Releases(s) \in Seq(Keys)
         /\ s \o Releases(s) \in Seq(Keys)
         /\ Len(s \o Releases(s)) = 2 * Len(s) - 1
         /\ \A i \in 1..Len(s) : (s \o Releases(s))[i] = s[i]
         /\ \A i \in 1..(Len(s) - 1) : (s \o Releases(s))[2 * Len(s) - i] = s[i]
<1> DEFINE n == Len(s)
           r == Releases(s)
<1>1. n \in Nat /\ n > 0 /\ \A i \in 1..n : s[i] \in Keys
  BY EmptySeq
<1>2. r = [i \in 1..(n - 1) |-> s[n - i]]
  BY DEF Releases
<1> HIDE DEF n, r
<1>3. \A i \in 1..(n - 1) : n - i \in 1..n
  BY <1>1
<1>4. r \in [1..(n - 1) -> Keys]
  BY <1>1, <1>2, <1>3
<1>5. n - 1 \in Nat
  BY <1>1
<1>6. r \in Seq(Keys) /\ Len(r) = n - 1
  BY <1>4, <1>5, SeqDef, LenProperties
<1>7. s \o r \in Seq(Keys) /\ Len(s \o r) = n + (n - 1)
  BY <1>6, ConcatProperties DEF n
<1>8. \A i \in 1..n : (s \o r)[i] = s[i]
  BY <1>6, <1>7, ConcatProperties DEF n
<1>9. ASSUME NEW i \in 1..(n - 1)
      PROVE  (s \o r)[2 * n - i] = s[i]
  <2>1. 2 * n - i \in 1..(n + (n - 1)) /\ 2 * n - i > n /\ (2 * n - i) - n = n - i
    BY <1>1
  <2>2. (s \o r)[2 * n - i] = r[(2 * n - i) - n]
    BY <1>1, <1>6, <2>1, ConcatProperties DEF n
  <2>3. n - i \in 1..(n - 1) /\ n - (n - i) = i
    BY <1>1
  <2>4. r[n - i] = s[i]
    BY <1>2, <2>3
  <2>5. QED
    BY <2>1, <2>2, <2>4
<1>10. Len(s \o r) = 2 * n - 1
  BY <1>1, <1>7
<1>11. QED
  BY <1>6, <1>7, <1>8, <1>9, <1>10 DEF n, r

(* An entry of the menu is chosen. *)
LEMMA MenuEntryInv ==
  ASSUME CombinationInv, NEW s \in Combinations, KeyMenuEntry(s)
  PROVE  CombinationInv'
<1> DEFINE n == Len(s)
<1>1. s \in Seq(Keys) /\ s # <<>> /\ (n > 1 => s[n] \in Letters)
  BY CombinationsAssumption
<1>2. /\ keys' \in Seq(Keys) /\ Len(keys') = 2 * n - 1
      /\ \A i \in 1..n : keys'[i] = s[i]
      /\ \A i \in 1..(n - 1) : keys'[2 * n - i] = s[i]
  BY <1>1, BothWays DEF KeyMenuEntry
<1>3. m_mods' = m_mods /\ modsBefore' = m_mods /\ combination' = (n > 1)
  BY DEF KeyMenuEntry
<1>4. KeysTyped'
  BY <1>2, <1>3 DEF CombinationInv, KeysTyped
<1>5. n \in Nat /\ n > 0
  BY <1>1, EmptySeq
<1>6. ASSUME combination'
      PROVE  /\ 0 \in 0..Len(keys')
             /\ Mirrored(Len(keys') - 0, keys')
             /\ UndoneFrom(modsBefore', m_mods', 0, keys')
  <2> DEFINE q == n - 1
  <2>0. n > 1 /\ s[n] \in Letters
    BY <1>1, <1>3, <1>6
  <2> HIDE DEF n
  <2>1. /\ q \in 0..Len(keys') /\ Len(keys') = 2 * q + 1 /\ 0 \in 0..Len(keys')
        /\ Len(keys') - 0 = Len(keys')
    BY <1>2, <1>5
  <2>2. keys'[q + 1] \in Letters
    BY <1>2, <1>5, <2>0
  <2>3. ASSUME NEW i \in 1..q
        PROVE  keys'[i] = keys'[Len(keys') + 1 - i]
    <3>1. i \in 1..n /\ i \in 1..(n - 1) /\ Len(keys') + 1 - i = 2 * n - i
      BY <1>2, <1>5
    <3>2. QED
      BY <1>2, <3>1
  <2>4. Mirrored(Len(keys'), keys')
    BY <2>1, <2>2, <2>3 DEF Mirrored
  <2>5. UndoneFrom(modsBefore', m_mods', 0, keys')
    <3> DEFINE A == [i \in 0..0 |-> m_mods]
    <3>1. A \in [0..0 -> SUBSET ToggledMods] /\ A[0] = m_mods
      BY DEF CombinationInv, KeysTyped
    <3>2. Undone(A, 0, keys')
      BY DEF Undone
    <3>3. QED
      BY <1>3, <3>1, <3>2 DEF UndoneFrom
  <2>6. QED
    BY <2>1, <2>4, <2>5
<1>7. QED
  BY <1>4, <1>6 DEF CombinationInv

(* The next key is sent: what that leaves of keys. *)
LEMMA OneKeyLess ==
  ASSUME keys \in Seq(Keys), keys # <<>>, keys' = Tail(keys)
  PROVE  /\ keys' \in Seq(Keys)
         /\ Len(keys) \in Nat \ {0}
         /\ Len(keys') = Len(keys) - 1
         /\ \A i \in 1..Len(keys') : keys'[i] = keys[i + 1]
         /\ Head(keys) = keys[1]
         /\ keys[1] \in Keys
BY HeadTailProperties, EmptySeq

(* One of the keys that undo: it makes the modifiers what they were. *)
LEMMA ReleaseSent ==
  ASSUME CombinationInv, SendNext,
         UndoneFrom(modsBefore, m_mods, Len(keys), keys)
  PROVE  /\ UndoneFrom(modsBefore', m_mods', Len(keys'), keys')
         /\ keys' = <<>> => m_mods' = modsBefore
<1> DEFINE n == Len(keys)
<1>0. PICK A \in [0..n -> SUBSET ToggledMods] :
        A[0] = modsBefore /\ A[n] = m_mods /\ Undone(A, n, keys)
  BY DEF UndoneFrom
<1> DEFINE B == [i \in 0..(n - 1) |-> A[i]]
<1>1. /\ n \in Nat \ {0} /\ Len(keys') = n - 1 /\ Head(keys) = keys[1]
      /\ keys' \in Seq(Keys)
      /\ \A i \in 1..(n - 1) : keys'[i] = keys[i + 1]
  BY OneKeyLess DEF CombinationInv, KeysTyped, SendNext, Idle
<1>2. A[n] = Toggled(A[n - 1], keys[n + 1 - n]) /\ n + 1 - n = 1
  BY <1>0, <1>1 DEF Undone
<1>3. m_mods' = Toggled(m_mods, keys[1]) /\ modsBefore' = modsBefore
  BY <1>1, SendKeyToggles DEF SendNext
<1>4. m_mods' = A[n - 1]
  BY <1>0, <1>2, <1>3, ToggledTwice
<1>5. \A i \in 1..n : A[i] = Toggled(A[i - 1], keys[n + 1 - i])
  BY <1>0 DEF Undone
<1> HIDE DEF n
<1>6. B \in [0..(n - 1) -> SUBSET ToggledMods]
  BY <1>0, <1>1
<1>7. B[0] = modsBefore' /\ B[n - 1] = m_mods'
  BY <1>0, <1>1, <1>3, <1>4
<1>8. ASSUME NEW i \in 1..(n - 1)
      PROVE  B[i] = Toggled(B[i - 1], keys'[(n - 1) + 1 - i])
  <2>1. i \in 1..n /\ i - 1 \in 0..(n - 1) /\ i \in 0..(n - 1)
    BY <1>1
  <2>2. A[i] = Toggled(A[i - 1], keys[n + 1 - i])
    BY <2>1, <1>5
  <2>3. (n - 1) + 1 - i \in 1..(n - 1) /\ (n - 1) + 1 - i + 1 = n + 1 - i
    BY <1>1
  <2>4. keys'[(n - 1) + 1 - i] = keys[n + 1 - i]
    BY <1>1, <2>3
  <2>5. QED
    BY <2>1, <2>2, <2>4
<1> HIDE DEF B
<1>9. Undone(B, n - 1, keys')
  BY <1>1, <1>8 DEF Undone
<1>10. UndoneFrom(modsBefore', m_mods', Len(keys'), keys')
  BY <1>1, <1>6, <1>7, <1>9 DEF UndoneFrom
<1>11. ASSUME keys' = <<>> PROVE m_mods' = modsBefore
  <2>1. n - 1 = 0
    BY <1>1, <1>11, EmptySeq
  <2>2. QED
    BY <1>0, <1>4, <2>1
<1>12. QED
  BY <1>10, <1>11

(* The key in the middle: it is not a modifier. *)
LEMMA MiddleSent ==
  ASSUME CombinationInv, SendNext, keys[1] \in Letters,
         UndoneFrom(modsBefore, m_mods, Len(keys) - 1, keys)
  PROVE  /\ UndoneFrom(modsBefore', m_mods', Len(keys'), keys')
         /\ keys' = <<>> => m_mods' = modsBefore
<1> DEFINE n == Len(keys)
<1>0. PICK A \in [0..(n - 1) -> SUBSET ToggledMods] :
        A[0] = modsBefore /\ A[n - 1] = m_mods /\ Undone(A, n - 1, keys)
  BY DEF UndoneFrom
<1>1. /\ n \in Nat \ {0} /\ Len(keys') = n - 1 /\ Head(keys) = keys[1]
      /\ keys' \in Seq(Keys)
      /\ \A i \in 1..(n - 1) : keys'[i] = keys[i + 1]
  BY OneKeyLess DEF CombinationInv, KeysTyped, SendNext, Idle
<1>2. keys[1] \notin ToggledMods
  BY LettersAssumption
<1>3. m_mods' = m_mods /\ modsBefore' = modsBefore
  BY <1>1, <1>2, SendKeyToggles DEF SendNext, Toggled
<1>4. \A i \in 1..(n - 1) : A[i] = Toggled(A[i - 1], keys[n + 1 - i])
  BY <1>0 DEF Undone
<1> HIDE DEF n
<1>5. ASSUME NEW i \in 1..(n - 1)
      PROVE  A[i] = Toggled(A[i - 1], keys'[(n - 1) + 1 - i])
  <2>1. (n - 1) + 1 - i \in 1..(n - 1) /\ (n - 1) + 1 - i + 1 = n + 1 - i
    BY <1>1
  <2>2. keys'[(n - 1) + 1 - i] = keys[n + 1 - i]
    BY <1>1, <2>1
  <2>3. QED
    BY <1>4, <2>2
<1>6. Undone(A, n - 1, keys')
  BY <1>1, <1>5 DEF Undone
<1>7. UndoneFrom(modsBefore', m_mods', Len(keys'), keys')
  BY <1>0, <1>1, <1>3, <1>6 DEF UndoneFrom
<1>8. ASSUME keys' = <<>> PROVE m_mods' = modsBefore
  <2>1. n - 1 = 0
    BY <1>1, <1>8, EmptySeq
  <2>2. QED
    BY <1>0, <1>3, <2>1
<1>9. QED
  BY <1>7, <1>8

(* One of the keys before the middle: there is one more to undo. *)
LEMMA PressSent ==
  ASSUME CombinationInv, SendNext,
         NEW j \in 0..Len(keys), UndoneFrom(modsBefore, m_mods, j, keys),
         NEW q \in Nat \ {0}, Len(keys) - j = 2 * q + 1,
         keys[q + 1] \in Letters,
         \A i \in 1..q : keys[i] = keys[2 * q + 2 - i]
  PROVE  /\ keys' # <<>>
         /\ j + 1 \in 0..Len(keys')
         /\ Mirrored(Len(keys') - (j + 1), keys')
         /\ UndoneFrom(modsBefore', m_mods', j + 1, keys')
<1> DEFINE n == Len(keys)
<1>0. PICK A \in [0..j -> SUBSET ToggledMods] :
        A[0] = modsBefore /\ A[j] = m_mods /\ Undone(A, j, keys)
  BY DEF UndoneFrom
<1>1. /\ n \in Nat \ {0} /\ Len(keys') = n - 1 /\ Head(keys) = keys[1]
      /\ keys' \in Seq(Keys)
      /\ \A i \in 1..(n - 1) : keys'[i] = keys[i + 1]
  BY OneKeyLess DEF CombinationInv, KeysTyped, SendNext, Idle
<1>2. m_mods' = Toggled(m_mods, keys[1]) /\ modsBefore' = modsBefore
  BY <1>1, SendKeyToggles DEF SendNext
<1>3. \A i \in 1..j : A[i] = Toggled(A[i - 1], keys[n + 1 - i])
  BY <1>0 DEF Undone
<1>4. m_mods' \in SUBSET ToggledMods
  BY <1>2, ToggledTyped DEF CombinationInv, KeysTyped
<1>5. n = j + 2 * q + 1 /\ j \in Nat
  BY <1>1
<1> HIDE DEF n
<1>6. keys' # <<>> /\ j + 1 \in 0..(n - 1)
  BY <1>1, <1>5, EmptySeq
<1>7. Mirrored((n - 1) - (j + 1), keys')
  <2> DEFINE p == q - 1
  <2>1. p \in Nat /\ (n - 1) - (j + 1) = 2 * p + 1 /\ p \in 0..((n - 1) - (j + 1))
    BY <1>5
  <2>2. keys'[p + 1] = keys[q + 1]
    BY <1>1, <1>5, <2>1
  <2>3. ASSUME NEW i \in 1..p
        PROVE  keys'[i] = keys'[(n - 1) - (j + 1) + 1 - i]
    <3>1. i + 1 \in 1..q /\ 2 * q + 2 - (i + 1) = 2 * p + 3 - i
      BY <2>1
    <3>2. keys[i + 1] = keys[2 * p + 3 - i]
      BY <3>1
    <3>3. /\ i \in 1..(n - 1) /\ 2 * p + 2 - i \in 1..(n - 1)
          /\ (2 * p + 2 - i) + 1 = 2 * p + 3 - i
          /\ (n - 1) - (j + 1) + 1 - i = 2 * p + 2 - i
      BY <1>5, <2>1
    <3>4. QED
      BY <1>1, <3>2, <3>3
  <2>4. QED
    BY <2>1, <2>2, <2>3 DEF Mirrored
<1>8. UndoneFrom(modsBefore', m_mods', j + 1, keys')
  <2> DEFINE B == [i \in 0..(j + 1) |-> IF i = j + 1 THEN m_mods' ELSE A[i]]
  <2>1. B \in [0..(j + 1) -> SUBSET ToggledMods]
    BY <1>0, <1>4, <1>5
  <2>2. B[0] = modsBefore' /\ B[j + 1] = m_mods' /\ B[j] = m_mods
    BY <1>0, <1>2, <1>5
  <2>3. ASSUME NEW i \in 1..(j + 1)
        PROVE  B[i] = Toggled(B[i - 1], keys'[(n - 1) + 1 - i])
    <3>1. CASE i = j + 1
      <4>1. 1 \in 1..q /\ 2 * q + 2 - 1 = n - j
        BY <1>5
      <4>2. keys[1] = keys[n - j]
        BY <4>1
      <4>3. (n - 1) + 1 - i \in 1..(n - 1) /\ (n - 1) + 1 - i + 1 = n - j
        BY <1>5, <3>1
      <4>4. keys'[(n - 1) + 1 - i] = keys[1]
        BY <1>1, <4>2, <4>3
      <4>5. i - 1 = j
        BY <3>1, <1>5
      <4>6. QED
        BY <1>2, <2>2, <3>1, <4>4, <4>5
    <3>2. CASE i # j + 1
      <4>1. /\ i \in 1..j /\ i \in 0..(j + 1) /\ i - 1 \in 0..(j + 1) /\ i - 1 # j + 1
            /\ (n - 1) + 1 - i \in 1..(n - 1) /\ (n - 1) + 1 - i + 1 = n + 1 - i
        BY <1>5, <3>2
      <4>2. B[i] = A[i] /\ B[i - 1] = A[i - 1]
        BY <4>1
      <4>3. keys'[(n - 1) + 1 - i] = keys[n + 1 - i]
        BY <1>1, <4>1
      <4>4. QED
        BY <1>3, <4>1, <4>2, <4>3
    <3>3. QED
      BY <3>1, <3>2
  <2> HIDE DEF B
  <2>4. Undone(B, j + 1, keys')
    BY <1>1, <2>3 DEF Undone
  <2>5. QED
    BY <2>1, <2>2, <2>4 DEF UndoneFrom
<1>9. QED
  BY <1>1, <1>6, <1>7, <1>8

(* The next key of a combination. *)
LEMMA CombinationStep ==
  ASSUME CombinationInv, SendNext, combination
  PROVE  /\ keys' = <<>> => m_mods' = modsBefore
         /\ keys' # <<>> =>
              \E j \in 0..Len(keys') :
                /\ Mirrored(Len(keys') - j, keys')
                /\ UndoneFrom(modsBefore', m_mods', j, keys')
<1>1. /\ Len(keys) \in Nat \ {0} /\ Len(keys') = Len(keys) - 1
      /\ keys # <<>>
  BY OneKeyLess DEF CombinationInv, KeysTyped, SendNext, Idle
<1>2. PICK j \in 0..Len(keys) :
        /\ Mirrored(Len(keys) - j, keys)
        /\ UndoneFrom(modsBefore, m_mods, j, keys)
  BY <1>1 DEF CombinationInv
<1>3. ASSUME UndoneFrom(modsBefore', m_mods', Len(keys'), keys'),
             keys' = <<>> => m_mods' = modsBefore
      PROVE  /\ keys' = <<>> => m_mods' = modsBefore
             /\ \E i \in 0..Len(keys') :
                  /\ Mirrored(Len(keys') - i, keys')
                  /\ UndoneFrom(modsBefore', m_mods', i, keys')
  <2>1. Len(keys') \in 0..Len(keys') /\ Len(keys') - Len(keys') = 0
    BY <1>1
  <2>2. Mirrored(Len(keys') - Len(keys'), keys')
    BY <2>1 DEF Mirrored
  <2>3. QED
    BY <1>3, <2>1, <2>2
<1>4. CASE Len(keys) - j = 0
  <2>1. j = Len(keys)
    BY <1>1, <1>2, <1>4
  <2>2. QED
    BY <1>2, <1>3, <2>1, ReleaseSent
<1>5. ASSUME NEW q \in 0..(Len(keys) - j),
             Len(keys) - j = 2 * q + 1,
             keys[q + 1] \in Letters,
             \A i \in 1..q : keys[i] = keys[Len(keys) - j + 1 - i]
      PROVE  /\ keys' = <<>> => m_mods' = modsBefore
             /\ keys' # <<>> =>
                  \E i \in 0..Len(keys') :
                    /\ Mirrored(Len(keys') - i, keys')
                    /\ UndoneFrom(modsBefore', m_mods', i, keys')
  <2>0. q \in Nat
    BY <1>5, <1>1, <1>2
  <2>1. CASE q = 0
    <3>1. j = Len(keys) - 1 /\ q + 1 = 1
      BY <1>1, <1>2, <1>5, <2>1
    <3>2. keys[1] \in Letters
      BY <1>5, <3>1
    <3>3. QED
      BY <1>2, <1>3, <3>1, <3>2, MiddleSent
  <2>2. CASE q # 0
    <3>1. q \in Nat \ {0}
      BY <2>0, <2>2
    <3>2. \A i \in 1..q : keys[i] = keys[2 * q + 2 - i]
      <4>1. \A i \in 1..q : Len(keys) - j + 1 - i = 2 * q + 2 - i
        BY <1>1, <1>2, <1>5, <2>0
      <4>2. QED
        BY <1>5, <4>1
    <3>3. QED
      BY <1>2, <1>5, <3>1, <3>2, PressSent
  <2>3. QED
    BY <2>1, <2>2
<1>6. QED
  BY <1>2, <1>4, <1>5 DEF Mirrored

(* Whatever else happens between two combinations. *)
LEMMA CombinationNextInv ==
  ASSUME CombinationInv, NoViewNothingToSend, [KeyboardNext]_keyboardVars
  PROVE  CombinationInv'
<1>1. ASSUME keys = <<>>, UNCHANGED sequenceVars, m_mods' \subseteq ToggledMods
      PROVE  CombinationInv'
  BY <1>1 DEF CombinationInv, KeysTyped, sequenceVars
<1>2. ASSUME UNCHANGED sequenceVars, UNCHANGED m_mods
      PROVE  CombinationInv'
  BY <1>2 DEF CombinationInv, KeysTyped, sequenceVars
<1>3. ASSUME NEW k \in Keys, KeyPress(k) PROVE CombinationInv'
  BY <1>1, <1>3 DEF KeyPress, Ready, Idle, CombinationInv, KeysTyped, ToggledMods
<1>4. ASSUME NEW k \in Keys, KeyRelease(k) PROVE CombinationInv'
  BY <1>1, <1>4 DEF KeyRelease, ModifierReleased, UnknownModifierReleased,
     OtherReleased, Ready, Idle, CombinationInv, KeysTyped
<1>5. ASSUME NEW k \in Keys, ReleasedElsewhere(k) PROVE CombinationInv'
  BY <1>2, <1>5 DEF ReleasedElsewhere
<1>6. ASSUME NEW k \in Letters, ToolbarKey(k) PROVE CombinationInv'
  <2>1. m_mods' = Toggled(m_mods, k)
    BY <1>6, SendKeyToggles DEF ToolbarKey
  <2>2. QED
    BY <1>1, <1>6, <2>1, ToggledTyped
       DEF ToolbarKey, Ready, Idle, CombinationInv, KeysTyped
<1>7. ASSUME NEW s \in Combinations, KeyMenuEntry(s) PROVE CombinationInv'
  BY <1>7, MenuEntryInv
<1>8. CASE SendNext
  <2>1. keys' \in Seq(Keys) /\ Head(keys) = keys[1]
    BY <1>8, OneKeyLess DEF SendNext, Idle, CombinationInv, KeysTyped
  <2>2. m_mods' = Toggled(m_mods, Head(keys))
    BY <1>8, SendKeyToggles DEF SendNext
  <2>3. KeysTyped'
    BY <1>8, <2>1, <2>2, ToggledTyped DEF SendNext, CombinationInv, KeysTyped
  <2>4. combination' = combination
    BY <1>8 DEF SendNext
  <2>5. QED
    BY <1>8, <2>3, <2>4, CombinationStep DEF CombinationInv
<1>9. CASE DestroyView
  BY <1>1, <1>9 DEF DestroyView, UnpressModifiers, Ready, Idle
<1>10. CASE ConnectView
  BY <1>1, <1>10 DEF ConnectView, NoViewNothingToSend
<1>11. CASE UNCHANGED keyboardVars
  BY <1>2, <1>11 DEF keyboardVars
<1>12. QED
  BY <1>3, <1>4, <1>5, <1>6, <1>7, <1>8, <1>9, <1>10, <1>11 DEF KeyboardNext

(* A combination of the key menu, whatever modifiers were down before it,  *)
(* leaves every modifier as it found it: sendKeySequence() sends the keys  *)
(* before the last one a second time, in reverse order, and sendKey()      *)
(* toggles.                                                                *)
THEOREM CombinationsLetGo == KeyboardSpec => CombinationRestoresModifiers
<1> DEFINE Restores == (Idle' /\ ~Idle /\ combination) => m_mods' = modsBefore
<1>1. KeyboardInit => CombinationInv /\ ModifiersInv
  BY DEF KeyboardInit, CombinationInv, KeysTyped, ModifiersInv,
     NoViewNothingToSend
<1>2. CombinationInv /\ ModifiersInv /\ [KeyboardNext]_keyboardVars =>
        (CombinationInv /\ ModifiersInv)'
  BY CombinationNextInv, KeyboardNextInv DEF ModifiersInv
<1>3. CombinationInv /\ ModifiersInv /\ [KeyboardNext]_keyboardVars =>
        [Restores]_keyboardVars
  <2> SUFFICES ASSUME CombinationInv, KeyboardNext, Idle', ~Idle, combination
               PROVE  m_mods' = modsBefore
    OBVIOUS
  <2>1. SendNext
    BY DEF KeyboardNext, KeyPress, KeyRelease, ReleasedElsewhere, ToolbarKey,
       KeyMenuEntry, DestroyView, ConnectView, Ready, Idle, sequenceVars
  <2>2. QED
    BY <2>1, CombinationStep DEF Idle
<1>4. QED
  BY <1>1, <1>2, <1>3, PTL DEF KeyboardSpec, CombinationRestoresModifiers

-----------------------------------------------------------------------------
(***************************************************************************)
(* For all sizes and any number of buffers, the image of the view is the   *)
(* live buffer as soon as one rectangle of that buffer has been delivered. *)
(***************************************************************************)

(* The static size and the widget agree once a view has shown something,   *)
(* although earlier connections have left a size behind: the first         *)
(* rectangle a buffer reports begins at the origin, and only such a        *)
(* rectangle is compared with the static.                                  *)
FirstAtOrigin == wfb = "emit" /\ ~delivered => rectOrigin
SizeIsFollowed == frameInitDone => widgetSize = old_frame_size
DeliveredIsShown == delivered => frameInitDone

FrameInv ==
  /\ delivered => m_frame = cl /\ painting \in {NoImage, cl}
  /\ wfb = "emit" => m_image = cl
  /\ delivered => widgetSize = m_frame.size
  /\ FirstAtOrigin
  /\ SizeIsFollowed
  /\ DeliveredIsShown

(* A new buffer has not been delivered. *)
LEMMA AllocateInv ==
  ASSUME FrameInv, NEW s \in Sizes, AllocateBuffer(s), wfb' # "emit"
  PROVE  FrameInv'
BY DEF FrameInv, AllocateBuffer, FirstAtOrigin, SizeIsFollowed,
       DeliveredIsShown

(* The size that the widget takes is that of the image, and both it and    *)
(* the static end up equal.                                                *)
LEMMA FollowsTheImage ==
  ASSUME FrameInv, ShowImage
  PROVE  widgetSize' = m_image.size /\ old_frame_size' = widgetSize'
<1>1. m_image = cl
  BY DEF FrameInv, ShowImage
<1>2. CASE rectOrigin /\ m_image.size # old_frame_size
  BY <1>2 DEF ShowImage, FollowSize
<1>3. CASE ~(rectOrigin /\ m_image.size # old_frame_size)
  <2>1. old_frame_size' = old_frame_size
    BY <1>3 DEF ShowImage, FollowSize
  <2>2. CASE delivered
    <3>1. widgetSize = m_image.size /\ frameInitDone
      BY <1>1, <2>2 DEF FrameInv, DeliveredIsShown
    <3>2. widgetSize' = widgetSize
      BY <1>3, <3>1 DEF ShowImage, FollowSize
    <3>3. QED
      BY <2>1, <3>1, <3>2 DEF FrameInv, SizeIsFollowed
  <2>3. CASE ~delivered
    <3>1. m_image.size = old_frame_size
      BY <1>3, <2>3 DEF FrameInv, FirstAtOrigin, ShowImage
    <3>2. CASE frameInitDone
      BY <1>3, <2>1, <3>1, <3>2
         DEF ShowImage, FollowSize, FrameInv, SizeIsFollowed
    <3>3. CASE ~frameInitDone
      BY <1>3, <2>1, <3>1, <3>3 DEF ShowImage, FollowSize
    <3>4. QED
      BY <3>2, <3>3
  <2>4. QED
    BY <2>2, <2>3
<1>4. QED
  BY <1>2, <1>3

(* What is shown is the live buffer. *)
LEMMA ShowImageInv ==
  ASSUME FrameInv, ShowImage
  PROVE  FrameInv'
<1>1. m_frame' = cl /\ cl' = cl /\ painting' = NoImage
  BY DEF FrameInv, ShowImage
<1>2. widgetSize' = m_frame'.size /\ old_frame_size' = widgetSize'
  BY FollowsTheImage DEF ShowImage
<1>3. wfb' = "receive" /\ frameInitDone'
  BY DEF ShowImage
<1>4. QED
  BY <1>1, <1>2, <1>3 DEF FrameInv, FirstAtOrigin, SizeIsFollowed,
                          DeliveredIsShown

(* Every step keeps the invariant. *)
LEMMA FrameNextInv ==
  ASSUME FrameInv, [FrameNext]_frameVars
  PROVE  FrameInv'
<1>1. CASE ConnectClient
  <2>1. PICK s \in Sizes : AllocateBuffer(s)
    BY <1>1 DEF ConnectClient
  <2>2. QED
    BY <1>1, <2>1, AllocateInv DEF ConnectClient
<1>2. CASE NewFBSize
  <2>1. PICK s \in Sizes : AllocateBuffer(s)
    BY <1>2 DEF NewFBSize
  <2>2. QED
    BY <1>2, <2>1, AllocateInv DEF NewFBSize
<1>3. CASE \E origin \in BOOLEAN : UpdateFb(origin)
  BY <1>3 DEF UpdateFb, FrameInv, FirstAtOrigin, SizeIsFollowed,
              DeliveredIsShown
<1>4. CASE ShowImage
  BY <1>4, ShowImageInv
<1>5. CASE PaintBegin
  BY <1>5 DEF PaintBegin, threadVars, FrameInv, FirstAtOrigin,
              SizeIsFollowed, DeliveredIsShown
<1>6. CASE PaintEnd
  BY <1>6 DEF PaintEnd, threadVars, FrameInv, FirstAtOrigin,
              SizeIsFollowed, DeliveredIsShown
<1>7. CASE NextConnection
  BY <1>7 DEF NextConnection, FrameInv, FirstAtOrigin, SizeIsFollowed,
              DeliveredIsShown
<1>8. CASE UNCHANGED frameVars
  BY <1>8 DEF frameVars, threadVars, FrameInv, FirstAtOrigin,
              SizeIsFollowed, DeliveredIsShown
<1>9. QED
  BY <1>1, <1>2, <1>3, <1>4, <1>5, <1>6, <1>7, <1>8 DEF FrameNext

(* After the first update of a buffer the view shows and paints nothing    *)
(* but that buffer, and the widget has its size.                           *)
THEOREM FrameIsLive == FrameSpec => []FrameIsLiveAfterUpdate
<1>1. FrameInit => FrameInv
  BY DEF FrameInit, FrameInv, FirstAtOrigin, SizeIsFollowed,
         DeliveredIsShown
<1>2. FrameInv /\ [FrameNext]_frameVars => FrameInv'
  BY FrameNextInv
<1>3. FrameInv => FrameIsLiveAfterUpdate
  BY DEF FrameInv, FrameIsLiveAfterUpdate
<1>4. QED
  BY <1>1, <1>2, <1>3, PTL DEF FrameSpec

-----------------------------------------------------------------------------
(***************************************************************************)
(* Whatever versions the configuration files have at first, no order of    *)
(* starts, saves and kills loses a setting or migrates it twice.           *)
(***************************************************************************)

(* Settings whose numbers can be read. *)
Readable == [version : Nat, left_zoom : Nat, right_zoom : Nat,
             last_hostname : BOOLEAN, position : BOOLEAN]

(* What a copy of the settings has to say. *)
KeepsZoom(c) == Choice(c.version, c.left_zoom) = chosen
KeepsHost(c) == lastHost => c.last_hostname \/ c.position

(* While the program runs its copy is migrated, and says the same as the   *)
(* file: this is why it may be written at any time, or be lost.            *)
ConfigInv ==
  /\ disk \in Readable /\ KeepsZoom(disk) /\ KeepsHost(disk)
  /\ memory \in Readable
  /\ running # "no" => /\ memory.version >= current_ver
                       /\ KeepsZoom(memory) /\ KeepsHost(memory)

(* One migration keeps the meaning of the numbers, and takes the last host *)
(* into the list.                                                          *)
LEMMA StepsKeep ==
  ASSUME disk \in Readable, KeepsZoom(disk), KeepsHost(disk)
  PROVE  /\ Steps(disk) \in Readable
         /\ Steps(disk).version = current_ver
         /\ KeepsZoom(Steps(disk)) /\ KeepsHost(Steps(disk))
<1>1. disk.version \in Nat /\ disk.left_zoom \in Nat
  BY DEF Readable
<1>2. Steps(disk) \in Readable
  BY <1>1 DEF Steps, Readable, current_ver
<1>3. Steps(disk).version = current_ver
  BY DEF Steps
<1>4. Steps(disk).left_zoom = Choice(disk.version, disk.left_zoom)
  BY <1>1 DEF Steps, Choice
<1>5. KeepsZoom(Steps(disk))
  BY <1>3, <1>4 DEF KeepsZoom, Choice, current_ver
<1>6. KeepsHost(Steps(disk))
  <2>1. CASE disk.position
    BY <2>1 DEF Steps, KeepsHost
  <2>2. CASE ~disk.position
    <3>1. disk.version <= 1 \/ disk.version > 1
      BY <1>1
    <3>2. Steps(disk).position = (disk.position
              \/ (disk.last_hostname /\ disk.version <= 1))
      BY DEF Steps
    <3>3. Steps(disk).last_hostname = (disk.last_hostname /\ disk.version > 1)
      BY DEF Steps
    <3>4. QED
      BY <2>2, <3>1, <3>2, <3>3, Zenon DEF KeepsHost
  <2>3. QED
    BY <2>1, <2>2
<1>7. QED
  BY <1>2, <1>3, <1>5, <1>6

(* A new choice is written with the numbers of this program. *)
LEMMA SaveZoomInv ==
  ASSUME ConfigInv, SaveZoom
  PROVE  ConfigInv'
<1>1. memory' \in Readable /\ memory'.left_zoom = chosen'
  BY DEF ConfigInv, SaveZoom, Readable
<1>2. /\ memory'.version = memory.version
      /\ memory'.last_hostname = memory.last_hostname
      /\ memory'.position = memory.position
  BY DEF ConfigInv, SaveZoom, Readable
<1>3. running # "no" /\ running' = running /\ disk' = memory'
  BY DEF SaveZoom
<1>4. Choice(memory'.version, memory'.left_zoom) = chosen'
  BY <1>1, <1>2, <1>3 DEF ConfigInv, Choice, current_ver, Readable
<1>5. lastHost' => memory'.last_hostname \/ memory'.position
  BY <1>2, <1>3 DEF ConfigInv, KeepsHost, SaveZoom
<1>6. QED
  BY <1>1, <1>2, <1>3, <1>4, <1>5 DEF ConfigInv, KeepsZoom, KeepsHost

(* Every start, save and kill. *)
LEMMA ConfigNextInv ==
  ASSUME ConfigInv, [ConfigNext]_configVars
  PROVE  ConfigInv'
<1>1. CASE Start
  <2>1. CASE disk.version < current_ver
    <3>1. memory' = Steps(disk)
      BY <1>1, <2>1 DEF Start
    <3>2. UNCHANGED <<disk, chosen, lastHost>>
      BY <1>1 DEF Start
    <3>3. /\ memory' \in Readable /\ memory'.version >= current_ver
          /\ KeepsZoom(memory') /\ KeepsHost(memory')
      BY <3>1, StepsKeep DEF ConfigInv, current_ver
    <3>4. QED
      BY <3>2, <3>3 DEF ConfigInv, KeepsZoom, KeepsHost
  <2>2. CASE ~(disk.version < current_ver)
    <3>1. memory' = disk /\ UNCHANGED <<disk, chosen, lastHost>>
      BY <1>1, <2>2 DEF Start
    <3>2. disk.version >= current_ver
      BY <2>2 DEF ConfigInv, Readable, current_ver
    <3>3. QED
      BY <3>1, <3>2 DEF ConfigInv, KeepsZoom, KeepsHost
  <2>3. QED
    BY <2>1, <2>2
<1>2. CASE Sync
  <2>1. running # "no" /\ disk' = memory /\ UNCHANGED <<memory, chosen, lastHost>>
    BY <1>2 DEF Sync
  <2>2. QED
    BY <2>1 DEF ConfigInv, KeepsZoom, KeepsHost
<1>3. CASE SaveZoom
  BY <1>3, SaveZoomInv
<1>4. CASE Quit
  <2>1. running # "no" /\ disk' = memory /\ UNCHANGED <<memory, chosen, lastHost>>
    BY <1>4 DEF Quit
  <2>2. QED
    BY <2>1 DEF ConfigInv, KeepsZoom, KeepsHost
<1>5. CASE Kill
  <2>1. running' = "no" /\ memory' = disk /\ UNCHANGED <<disk, chosen, lastHost>>
    BY <1>5 DEF Kill
  <2>2. QED
    BY <2>1 DEF ConfigInv, KeepsZoom, KeepsHost
<1>6. CASE UNCHANGED configVars
  BY <1>6 DEF configVars, ConfigInv, KeepsZoom, KeepsHost
<1>7. QED
  BY <1>1, <1>2, <1>3, <1>4, <1>5, <1>6 DEF ConfigNext

(* The files that are found at first say what the user chose. *)
LEMMA ConfigInitInv ==
  ASSUME ConfigInit
  PROVE  ConfigInv
<1>1. disk \in Readable /\ memory = disk /\ running = "no"
  <2>1. memory = disk /\ running = "no"
    BY DEF ConfigInit
  <2>2. /\ disk = [version |-> disk.version, left_zoom |-> disk.left_zoom,
                   right_zoom |-> disk.right_zoom,
                   last_hostname |-> disk.last_hostname,
                   position |-> disk.position]
        /\ disk.version \in Versions /\ disk.left_zoom \in 0..5
        /\ disk.right_zoom = 1
        /\ disk.last_hostname \in BOOLEAN /\ disk.position \in BOOLEAN
    BY DEF ConfigInit
  <2>3. disk.version \in Nat /\ disk.left_zoom \in Nat
    BY <2>2, VersionsAssumption
  <2>4. disk \in Readable
    BY <2>2, <2>3 DEF Readable
  <2>5. QED
    BY <2>1, <2>4
<1>2. KeepsZoom(disk) /\ KeepsHost(disk)
  BY DEF ConfigInit, KeepsZoom, KeepsHost
<1>3. QED
  BY <1>1, <1>2 DEF ConfigInv

(* However often the program is started and killed: the file keeps the     *)
(* user's zoom key and the last host.                                      *)
THEOREM SettingsSurvive == ConfigSpec => []MigrationKeepsSettings
<1>1. ConfigInit => ConfigInv
  BY ConfigInitInv
<1>2. ConfigInv /\ [ConfigNext]_configVars => ConfigInv'
  BY ConfigNextInv
<1>3. ConfigInv => MigrationKeepsSettings
  BY DEF ConfigInv, KeepsZoom, KeepsHost, MigrationKeepsSettings
<1>4. QED
  BY <1>1, <1>2, <1>3, PTL DEF ConfigSpec


-----------------------------------------------------------------------------
(***************************************************************************)
(* Proofs about MainWindow: through any number of connections, however     *)
(* many views there are, the main window and the view it shows stay        *)
(* together.                                                               *)
(***************************************************************************)

Windows ==
  [vnc_view : Optional, toolbar : BOOLEAN, inputButtons : BOOLEAN,
   disconnect : BOOLEAN, fullscreen : BOOLEAN,
   message : {"none", "error", "lost"}, crashed : BOOLEAN,
   old_status : RV!RemoteStatus]

(* What the window heard last is the status of its view, unless that quits.*)
(* The test of the old status in statusChanged() then tells the end of the *)
(* view's connection from the statuses a new view passes through.          *)
StatusIsHeard ==
  /\ ~mw.crashed
  /\ mw.vnc_view # 0 =>
       /\ quitting = 0
       /\ status[mw.vnc_view] \in {RV!Connecting, RV!Authenticating, RV!Connected}
       /\ mw.old_status = status[mw.vnc_view]
  /\ quitting # 0 => quitting = shown /\ shown \in alive /\ quitReason # "none"

WindowInv ==
  MainTypeOK /\ WindowIsUsable /\ (phase = "running" => StatusIsHeard)

-----------------------------------------------------------------------------
(* Short sequences with one more element. *)
LEMMA ThirdElement ==
  ASSUME NEW a \in Int, NEW b \in Int, NEW c \in Int
  PROVE  <<a, b>> \o <<c>> = <<a, b, c>>
<1> DEFINE joined == <<a, b>> \o <<c>>
<1>1. /\ Len(<<a, b>>) = 2 /\ Len(<<c>>) = 1 /\ <<a, b>> \in Seq(Int)
      /\ <<c>> \in Seq(Int) /\ <<a, b, c>> \in Seq(Int)
  OBVIOUS
<1>2. joined \in Seq(Int) /\ Len(joined) = 3
  BY <1>1, ConcatProperties
<1>3. joined[1] = a /\ joined[2] = b /\ joined[3] = c
  BY <1>1, ConcatProperties
<1> HIDE DEF joined
<1>4. \A i \in 1..3 : joined[i] = <<a, b, c>>[i]
  BY <1>3
<1>5. joined = <<a, b, c>>
  BY <1>1, <1>2, <1>4, SeqEqual
<1>6. QED
  BY <1>5 DEF joined

(* ... and one more again. *)
LEMMA FourthElement ==
  ASSUME NEW a \in Int, NEW b \in Int, NEW c \in Int, NEW d \in Int
  PROVE  <<a, b, c>> \o <<d>> = <<a, b, c, d>>
<1> DEFINE joined == <<a, b, c>> \o <<d>>
<1>1. /\ Len(<<a, b, c>>) = 3 /\ Len(<<d>>) = 1 /\ <<a, b, c>> \in Seq(Int)
      /\ <<d>> \in Seq(Int) /\ <<a, b, c, d>> \in Seq(Int)
  OBVIOUS
<1>2. joined \in Seq(Int) /\ Len(joined) = 4
  BY <1>1, ConcatProperties
<1>3. joined[1] = a /\ joined[2] = b /\ joined[3] = c /\ joined[4] = d
  BY <1>1, ConcatProperties
<1> HIDE DEF joined
<1>4. \A i \in 1..4 : joined[i] = <<a, b, c, d>>[i]
  BY <1>3
<1>5. joined = <<a, b, c, d>>
  BY <1>1, <1>2, <1>4, SeqEqual
<1>6. QED
  BY <1>5 DEF joined

(* The signals of the changes of status that views make. *)
LEMMA Signals ==
  /\ \A s \in RV!RemoteStatus : RV!Emitted(s, s) = <<>>
  /\ \A s \in {0, 1, 3} : RV!Emitted(s, -1) = <<-1>>
  /\ RV!Emitted(-1, -2) = <<-2>>
  /\ RV!Emitted(0, 1) = <<1>>
  /\ RV!Emitted(-2, 0) = <<-2, -1, 0>>
  /\ RV!Emitted(0, 3) = <<0, 1, 2, 3>>
  /\ RV!Emitted(1, 3) = <<1, 2, 3>>
<1> USE DEF RV!Emitted, RV!Disconnected, RV!Disconnecting
<1>1. \A s \in RV!RemoteStatus : RV!Emitted(s, s) = <<>>
  OBVIOUS
<1>2. /\ \A s \in {0, 1, 3} : RV!Emitted(s, -1) = <<-1>>
      /\ RV!Emitted(-1, -2) = <<-2>>
      /\ RV!Emitted(0, 1) = <<1>>
  OBVIOUS
<1>3. RV!Emitted(-2, 0) = <<-2, -1, 0>>
  <2>1. RV!Emitted(-2, 0) = (<<>> \o [i \in 1..2 |-> -2 + i - 1]) \o <<0>>
    OBVIOUS
  <2>2. [i \in 1..2 |-> -2 + i - 1] = <<-2, -1>>
    OBVIOUS
  <2>3. <<>> \o <<-2, -1>> = <<-2, -1>>
    OBVIOUS
  <2>4. <<-2, -1>> \o <<0>> = <<-2, -1, 0>>
    BY ThirdElement
  <2>5. QED
    BY <2>1, <2>2, <2>3, <2>4
<1>4. RV!Emitted(0, 3) = <<0, 1, 2, 3>>
  <2>1. RV!Emitted(0, 3) = (<<>> \o [i \in 1..3 |-> 0 + i - 1]) \o <<3>>
    OBVIOUS
  <2>2. [i \in 1..3 |-> 0 + i - 1] = <<0, 1, 2>>
    OBVIOUS
  <2>3. <<>> \o <<0, 1, 2>> = <<0, 1, 2>>
    OBVIOUS
  <2>4. <<0, 1, 2>> \o <<3>> = <<0, 1, 2, 3>>
    BY FourthElement
  <2>5. QED
    BY <2>1, <2>2, <2>3, <2>4
<1>5. RV!Emitted(1, 3) = <<1, 2, 3>>
  <2>1. RV!Emitted(1, 3) = (<<>> \o [i \in 1..2 |-> 1 + i - 1]) \o <<3>>
    OBVIOUS
  <2>2. [i \in 1..2 |-> 1 + i - 1] = <<1, 2>>
    OBVIOUS
  <2>3. <<>> \o <<1, 2>> = <<1, 2>>
    OBVIOUS
  <2>4. <<1, 2>> \o <<3>> = <<1, 2, 3>>
    BY ThirdElement
  <2>5. QED
    BY <2>1, <2>2, <2>3, <2>4
<1>6. QED
  BY <1>1, <1>2, <1>3, <1>4, <1>5

-----------------------------------------------------------------------------
(* What the window does with them.  The record of the window is opaque to  *)
(* the steps that use these lemmas.                                        *)
LEMMA HearsNothing ==
  ASSUME NEW w, NEW s \in RV!RemoteStatus
  PROVE  Heard(w, s, s) = w
BY Signals DEF Heard, Signal

(* One signal. *)
LEMMA HearsOne ==
  ASSUME NEW w, NEW from, NEW s, RV!Emitted(from, s) = <<s>>
  PROVE  Heard(w, from, s) = StatusSlot(w, s)
BY DEF Heard, Signal

(* Three signals ... *)
LEMMA HearsThree ==
  ASSUME NEW w, NEW from, NEW s, NEW a, NEW b,
         RV!Emitted(from, s) = <<a, b, s>>
  PROVE  Heard(w, from, s) = StatusSlot(StatusSlot(StatusSlot(w, a), b), s)
BY DEF Heard, Signal

(* ... and four. *)
LEMMA HearsFour ==
  ASSUME NEW w, NEW from, NEW s, NEW a, NEW b, NEW c,
         RV!Emitted(from, s) = <<a, b, c, s>>
  PROVE  Heard(w, from, s)
         = StatusSlot(StatusSlot(StatusSlot(StatusSlot(w, a), b), c), s)
BY DEF Heard, Signal

(* A status that the window only remembers. *)
LEMMA Unnoticed ==
  ASSUME NEW w \in Windows, NEW s \in RV!RemoteStatus, s # RV!Connected,
         s = RV!Disconnecting => w.old_status = RV!Disconnected
  PROVE  /\ StatusSlot(w, s) = [w EXCEPT !.old_status = s]
         /\ StatusSlot(w, s) \in Windows
         /\ StatusSlot(w, s).old_status = s
<1>1. HandleStatus(w, s) = w
  BY DEF HandleStatus
<1>2. StatusSlot(w, s) = [w EXCEPT !.old_status = s]
  BY <1>1 DEF StatusSlot
<1>3. QED
  BY <1>2 DEF Windows

(* A view that starts, is asked for a password or has quit. *)
LEMMA HearsStart ==
  ASSUME NEW w \in Windows
  PROVE  Heard(w, RV!Disconnected, RV!Connecting)
         = [w EXCEPT !.old_status = RV!Connecting]
<1> USE DEF RV!Connecting, RV!Disconnected, RV!Disconnecting, RV!RemoteStatus,
            RV!Connected
<1> DEFINE w1 == StatusSlot(w, -2)
           w2 == StatusSlot(w1, -1)
           w3 == StatusSlot(w2, 0)
<1>1. w1 \in Windows /\ w1.old_status = -2
  BY Unnoticed
<1>2. w1 = [w EXCEPT !.old_status = -2]
  BY Unnoticed
<1> HIDE DEF w1
<1>3. w2 \in Windows
  BY <1>1, Unnoticed
<1>4. w2 = [w1 EXCEPT !.old_status = -1]
  BY <1>1, Unnoticed
<1> HIDE DEF w2
<1>5. w3 = [w2 EXCEPT !.old_status = 0]
  BY <1>3, Unnoticed
<1>6. Heard(w, -2, 0) = w3
  BY Signals, HearsThree DEF w1, w2
<1> HIDE DEF w3
<1>7. w3 = [w EXCEPT !.old_status = 0]
  BY <1>1, <1>2, <1>3, <1>4, <1>5 DEF Windows
<1>8. QED
  BY <1>6, <1>7

(* A view asks for a password. *)
LEMMA HearsPassword ==
  ASSUME NEW w \in Windows
  PROVE  Heard(w, RV!Connecting, RV!Authenticating)
         = [w EXCEPT !.old_status = RV!Authenticating]
<1> USE DEF RV!Connecting, RV!Authenticating, RV!Disconnecting, RV!Disconnected,
            RV!RemoteStatus, RV!Connected
<1>1. Heard(w, 0, 1) = StatusSlot(w, 1)
  BY Signals, HearsOne
<1>2. StatusSlot(w, 1) = [w EXCEPT !.old_status = 1]
  BY Unnoticed
<1>3. QED
  BY <1>1, <1>2

(* A view has quit. *)
LEMMA HearsEnd ==
  ASSUME NEW w \in Windows
  PROVE  Heard(w, RV!Disconnecting, RV!Disconnected)
         = [w EXCEPT !.old_status = RV!Disconnected]
<1> USE DEF RV!Disconnecting, RV!Disconnected, RV!RemoteStatus, RV!Connected
<1>1. Heard(w, -1, -2) = StatusSlot(w, -2)
  BY Signals, HearsOne
<1>2. StatusSlot(w, -2) = [w EXCEPT !.old_status = -2]
  BY Unnoticed
<1>3. QED
  BY <1>1, <1>2

(* A view whose connection ends. *)
LEMMA HearsLost ==
  ASSUME NEW w \in Windows,
         NEW from \in {RV!Connecting, RV!Authenticating, RV!Connected},
         w.old_status = from
  PROVE  Heard(w, from, RV!Disconnecting)
         = [ConnectionLost(w) EXCEPT !.old_status = RV!Disconnecting]
<1> USE DEF RV!Connecting, RV!Authenticating, RV!Disconnecting,
            RV!Disconnected, RV!RemoteStatus, RV!Connected
<1>1. Heard(w, from, -1) = StatusSlot(w, -1)
  BY Signals, HearsOne
<1>2. HandleStatus(w, -1) = ConnectionLost(w)
  BY DEF HandleStatus
<1>3. QED
  BY <1>1, <1>2 DEF StatusSlot

(* A view that has connected. *)
LEMMA HearsConnected ==
  ASSUME NEW w \in Windows, NEW from \in {RV!Connecting, RV!Authenticating},
         w.vnc_view # 0
  PROVE  Heard(w, from, RV!Connected)
         = [w EXCEPT !.toolbar = TRUE,
                     !.inputButtons = (w.vnc_view # 0 /\ ~viewOnly[w.vnc_view]),
                     !.crashed = w.crashed \/ w.vnc_view = 0,
                     !.old_status = RV!Connected]
<1> USE DEF RV!Connecting, RV!Authenticating, RV!Disconnecting,
            RV!Disconnected, RV!RemoteStatus, RV!Connected
<1>1. PICK x \in RV!RemoteStatus : Heard(w, from, 3)
        = StatusSlot([w EXCEPT !.old_status = x], 3)
  <2> DEFINE w0 == StatusSlot(w, 0)
             w1 == StatusSlot(w, 1)
             w01 == StatusSlot(w0, 1)
  <2>0. w0 \in Windows /\ w1 \in Windows
    BY Unnoticed
  <2>1. /\ w0 = [w EXCEPT !.old_status = 0]
        /\ w1 = [w EXCEPT !.old_status = 1]
    BY Unnoticed
  <2> HIDE DEF w0, w1
  <2>2. w01 \in Windows /\ w01 = [w EXCEPT !.old_status = 1]
    <3>1. w01 \in Windows
      BY <2>0, Unnoticed
    <3>2. w01 = [w0 EXCEPT !.old_status = 1]
      BY <2>0, Unnoticed
    <3> HIDE DEF w01
    <3>3. QED
      BY <2>1, <3>1, <3>2 DEF Windows
  <2> HIDE DEF w01
  <2>3. /\ StatusSlot(w1, 2) = [w EXCEPT !.old_status = 2]
        /\ StatusSlot(w01, 2) = [w EXCEPT !.old_status = 2]
    <3>1. w01 \in Windows
      BY <2>2
    <3>2. /\ StatusSlot(w1, 2) = [w1 EXCEPT !.old_status = 2]
          /\ StatusSlot(w01, 2) = [w01 EXCEPT !.old_status = 2]
      BY <2>0, <3>1, Unnoticed
    <3>3. QED
      BY <2>1, <2>2, <3>2 DEF Windows
  <2>4. CASE from = 0
    <3>1. Heard(w, 0, 3) = StatusSlot(StatusSlot(w01, 2), 3)
      BY Signals, HearsFour DEF w0, w01
    <3>2. QED
      BY <2>3, <2>4, <3>1
  <2>5. CASE from = 1
    <3>1. Heard(w, 1, 3) = StatusSlot(StatusSlot(w1, 2), 3)
      BY Signals, HearsThree DEF w1
    <3>2. QED
      BY <2>3, <2>5, <3>1
  <2>6. QED
    BY <2>4, <2>5
<1> DEFINE w2 == [w EXCEPT !.old_status = x]
<1>2. w2 \in Windows /\ w2.vnc_view = w.vnc_view /\ w2.crashed = w.crashed
  BY DEF Windows
<1>3. StatusSlot(w2, 3)
      = [w2 EXCEPT !.toolbar = TRUE,
                   !.inputButtons = (w2.vnc_view # 0 /\ ~viewOnly[w2.vnc_view]),
                   !.crashed = w2.crashed \/ w2.vnc_view = 0,
                   !.old_status = 3]
  BY <1>2 DEF StatusSlot, HandleStatus
<1>4. QED
  BY <1>1, <1>2, <1>3 DEF Windows

-----------------------------------------------------------------------------
(* The button follows the window out of full-screen mode. *)
ExitButtons == [visible : BOOLEAN, enabled : BOOLEAN, hideTimer : BOOLEAN,
            reenableTimer : BOOLEAN]

ButtonCanCome ==
  /\ button.visible => mw.fullscreen /\ button.enabled /\ button.hideTimer
  /\ ~button.enabled => button.reenableTimer

(* The type of what the full-screen button follows. *)
LEMMA ButtonSeesTyped ==
  ASSUME NEW b \in ExitButtons, NEW f \in BOOLEAN
  PROVE  /\ ButtonSees(b, f) \in ExitButtons
         /\ b.enabled => /\ ButtonSees(b, f).visible = f
                         /\ ButtonSees(b, f).hideTimer = (b.hideTimer \/ f)
                         /\ ButtonSees(b, f).enabled
         /\ ~b.enabled => ButtonSees(b, f) = b
BY DEF ButtonSees, ExitButtons

(* A step after which the window is still usable. *)
LEMMA WindowGoesOn ==
  ASSUME MainTypeOK, phase = "running", ButtonCanCome,
         NEW w \in Windows, Continue(w)
  PROVE  /\ mw' = w
         /\ phase' \in {"running", "crashed"}
         /\ phase' = "running" => ~mw'.crashed
         /\ sliderDown' \in BOOLEAN
         /\ button' \in ExitButtons
         /\ ButtonCanCome'
<1>1. /\ mw' = w /\ phase' = IF w.crashed THEN "crashed" ELSE phase
      /\ sliderDown' = (sliderDown /\ w.toolbar)
      /\ ButtonFollows(mw, w)
  BY DEF Continue
<1>2. button \in ExitButtons /\ mw.fullscreen \in BOOLEAN /\ w.fullscreen \in BOOLEAN
  BY DEF MainTypeOK, ExitButtons, Windows
<1>3. CASE mw.fullscreen = w.fullscreen
  <2>1. button' = button
    BY <1>1, <1>3 DEF ButtonFollows
  <2>2. ButtonCanCome'
    BY <1>1, <1>3, <2>1 DEF ButtonCanCome
  <2>3. QED
    BY <1>1, <1>2, <2>1, <2>2
<1>4. CASE mw.fullscreen # w.fullscreen
  <2>1. button' = ButtonSees(button, w.fullscreen)
    BY <1>1, <1>4 DEF ButtonFollows
  <2>2. button' \in ExitButtons
    BY <1>2, <2>1, ButtonSeesTyped
  <2>3. CASE button.enabled
    <3>1. /\ button'.visible = w.fullscreen /\ button'.enabled
          /\ button'.hideTimer = (button.hideTimer \/ w.fullscreen)
      BY <1>2, <2>1, <2>3, ButtonSeesTyped
    <3>2. ButtonCanCome'
      BY <1>1, <3>1 DEF ButtonCanCome
    <3>3. QED
      BY <1>1, <2>2, <3>2
  <2>4. CASE ~button.enabled
    <3>1. button' = button
      BY <1>2, <2>1, <2>4, ButtonSeesTyped
    <3>2. ButtonCanCome'
      BY <2>4, <3>1 DEF ButtonCanCome
    <3>3. QED
      BY <1>1, <2>2, <3>2
  <2>5. QED
    BY <2>3, <2>4
<1>5. QED
  BY <1>3, <1>4

(* The parts of the invariant, as the lemmas use them ... *)
LEMMA WindowParts ==
  WindowInv <=>
    /\ MainTypeOK
    /\ phase = "running" => StatusIsHeard
    /\ WindowHasItsView
    /\ phase = "running" => (mw.fullscreen => mw.vnc_view # 0)
    /\ phase = "running" => ButtonCanCome
BY Zenon DEF WindowInv, WindowIsUsable, FullscreenCanBeLeft, ButtonCanCome

(* ... and as they establish them. *)
LEMMA WindowPartsNext ==
  ASSUME MainTypeOK',
         phase' = "running" =>
           /\ StatusIsHeard'
           /\ (mw.fullscreen => mw.vnc_view # 0)'
           /\ ButtonCanCome',
         WindowHasItsView'
  PROVE  WindowInv'
BY Zenon DEF WindowInv, WindowIsUsable, FullscreenCanBeLeft, ButtonCanCome

(* The window after the loss of a connection. *)
LEMMA LostWindow ==
  ASSUME NEW w \in Windows, sliderDown \in BOOLEAN
  PROVE  /\ ConnectionLost(w) \in Windows
         /\ ConnectionLost(w).vnc_view = 0
         /\ ~ConnectionLost(w).toolbar
         /\ ~ConnectionLost(w).fullscreen
<1> DEFINE crashed == w.crashed \/ (w.toolbar /\ sliderDown)
           message == IF w.disconnect THEN "lost" ELSE w.message
<1>1. crashed \in BOOLEAN
  BY DEF Windows
<1>2. message \in {"none", "error", "lost"}
  BY DEF Windows
<1>3. ConnectionLost(w) = [w EXCEPT !.message = message, !.vnc_view = 0,
                                    !.disconnect = FALSE, !.toolbar = FALSE,
                                    !.crashed = crashed, !.fullscreen = FALSE]
  BY DEF ConnectionLost
<1> HIDE DEF crashed, message
<1>4. QED
  BY <1>1, <1>2, <1>3 DEF Windows, Optional

-----------------------------------------------------------------------------
(* startQuitting() begins: whatever called it, the window lets its view go.*)
LEMMA QuitInv ==
  ASSUME WindowInv, phase = "running", quitting = 0,
         mw.vnc_view # 0,
         NEW m \in {"none", "error", "lost"},
         NEW reason \in {"slot", "disconnect", "connect", "close"},
         BeginQuit(mw.vnc_view, reason, [mw EXCEPT !.message = m]),
         nextViewOnly' \in BOOLEAN
  PROVE  WindowInv'
<1> DEFINE v == mw.vnc_view
           w0 == [mw EXCEPT !.message = m]
           w1 == DisableActions(reason, w0)
           w2 == Heard(w1, status[v], RV!Disconnecting)
<1>1. /\ mw \in Windows
      /\ MainTypeOK /\ StatusIsHeard /\ WindowHasItsView /\ ButtonCanCome
  BY WindowParts DEF MainTypeOK, Windows
<1>2. /\ Continue(w2)
      /\ status' = [status EXCEPT ![v] = RV!Disconnecting]
      /\ quitFlag' = [quitFlag EXCEPT ![v] = TRUE]
      /\ quitting' = v /\ quitReason' = reason
      /\ UNCHANGED <<shown, alive, viewOnly>>
  BY DEF BeginQuit
<1>3. /\ v \in ViewIds /\ v = shown /\ shown \in alive
      /\ \A x \in alive : x = shown
      /\ status[v] \in {RV!Connecting, RV!Authenticating, RV!Connected}
      /\ mw.old_status = status[v]
  BY <1>1 DEF StatusIsHeard, WindowHasItsView, MainTypeOK
<1>4. w1 \in Windows /\ w1.old_status = status[v]
  BY <1>1, <1>3 DEF Windows, DisableActions
<1> HIDE DEF w1
<1>5. w2 = [ConnectionLost(w1) EXCEPT !.old_status = RV!Disconnecting]
  BY <1>3, <1>4, HearsLost
<1> HIDE DEF w2
<1>6. /\ w2 \in Windows /\ w2.vnc_view = 0 /\ ~w2.toolbar /\ ~w2.fullscreen
  <2>1. sliderDown \in BOOLEAN
    BY <1>1 DEF MainTypeOK
  <2>2. /\ ConnectionLost(w1) \in Windows /\ ConnectionLost(w1).vnc_view = 0
        /\ ~ConnectionLost(w1).toolbar /\ ~ConnectionLost(w1).fullscreen
    BY <1>4, <2>1, LostWindow
  <2>3. RV!Disconnecting \in RV!RemoteStatus
    BY DEF RV!Disconnecting, RV!RemoteStatus, RV!Disconnected, RV!Connected
  <2>4. QED
    BY <1>5, <2>2, <2>3 DEF Windows
<1>7. /\ mw' = w2 /\ phase' \in {"running", "crashed"}
      /\ phase' = "running" => ~mw'.crashed
      /\ sliderDown' \in BOOLEAN /\ button' \in ExitButtons /\ ButtonCanCome'
  BY <1>1, <1>2, <1>6, WindowGoesOn
<1>8. MainTypeOK'
  <2>1. /\ status' \in [ViewIds -> RV!RemoteStatus]
        /\ quitFlag' \in [ViewIds -> BOOLEAN]
    BY <1>1, <1>2, <1>3 DEF MainTypeOK, RV!RemoteStatus, RV!Disconnecting,
       RV!Disconnected, RV!Connected
  <2>2. mw' \in Windows
    BY <1>6, <1>7
  <2>3. QED
    BY <1>1, <1>2, <1>3, <1>7, <2>1, <2>2
    DEF MainTypeOK, Windows, ExitButtons, Optional
<1>9. quitFlag'[v]
  BY <1>1, <1>2, <1>3 DEF MainTypeOK
<1>10. WindowHasItsView'
  BY <1>2, <1>3, <1>6, <1>7, <1>9 DEF WindowHasItsView
<1>11. phase' = "running" => StatusIsHeard'
  BY <1>2, <1>3, <1>6, <1>7 DEF StatusIsHeard
<1>12. QED
  BY <1>6, <1>7, <1>8, <1>10, <1>11, WindowPartsNext

(* connectToHost() with no view left, or only one that has quit. *)
LEMMA NewViewInv ==
  ASSUME WindowInv, phase = "running",
         NEW n \in ViewIds, NEW w \in Windows, NEW remaining,
         ~w.crashed, ~w.toolbar, ~w.fullscreen,
         remaining \subseteq alive, \A v \in remaining : quitFlag[v],
         MakeView(n, w, remaining),
         quitting' = 0, nextViewOnly' \in BOOLEAN,
         quitReason' \in {"none", quitReason}
  PROVE  WindowInv'
<1> DEFINE made == [w EXCEPT !.vnc_view = n]
           up == Heard(made, RV!Disconnected, RV!Connecting)
           window == [up EXCEPT !.disconnect = TRUE]
<1>1. /\ MainTypeOK /\ WindowHasItsView /\ ButtonCanCome
      /\ \A v \in alive : v = shown
  BY WindowParts DEF WindowHasItsView
<1>2. /\ n \notin remaining /\ shown' = n
      /\ alive' = (remaining \ {IF shown \in remaining THEN shown ELSE 0}) \cup {n}
      /\ status' = [status EXCEPT ![n] = RV!Connecting]
      /\ quitFlag' = [quitFlag EXCEPT ![n] = FALSE]
      /\ viewOnly' = [viewOnly EXCEPT ![n] = nextViewOnly']
  BY DEF MakeView
<1>3. Continue(window)
  <2>1. IF shown \in remaining THEN quitFlag[shown] ELSE TRUE
    OBVIOUS
  <2>2. QED
    BY <2>1, ViewIdsAssumption DEF MakeView
<1>4. alive' = {n} /\ n # 0
  BY <1>1, <1>2, ViewIdsAssumption
<1>5. /\ made \in Windows /\ made.vnc_view = n /\ ~made.crashed
      /\ ~made.toolbar /\ ~made.fullscreen
  BY DEF Windows, Optional
<1> HIDE DEF made
<1>6. up = [made EXCEPT !.old_status = RV!Connecting]
  BY <1>5, HearsStart
<1> HIDE DEF up
<1>7. /\ window \in Windows /\ window.vnc_view = n /\ ~window.crashed
      /\ ~window.toolbar /\ window.disconnect
      /\ window.old_status = RV!Connecting
  <2>1. RV!Connecting \in RV!RemoteStatus
    BY DEF RV!Connecting, RV!RemoteStatus, RV!Disconnected, RV!Connected
  <2>2. QED
    BY <1>5, <1>6, <2>1 DEF Windows
<1> HIDE DEF window
<1>8. /\ mw' = window /\ phase' \in {"running", "crashed"}
      /\ sliderDown' \in BOOLEAN /\ button' \in ExitButtons /\ ButtonCanCome'
  BY <1>1, <1>3, <1>7, WindowGoesOn
<1>9. /\ status' \in [ViewIds -> RV!RemoteStatus] /\ status'[n] = RV!Connecting
      /\ quitFlag' \in [ViewIds -> BOOLEAN] /\ ~quitFlag'[n]
      /\ viewOnly' \in [ViewIds -> BOOLEAN]
  BY <1>1, <1>2 DEF MainTypeOK, RV!Connecting, RV!RemoteStatus, RV!Disconnected,
     RV!Connected
<1>10. MainTypeOK'
  <2>1. mw' \in Windows
    BY <1>7, <1>8
  <2>2. shown' \in Optional /\ alive' \subseteq ViewIds
    BY <1>2, <1>4 DEF Optional
  <2>3. quitReason' \in {"none", "slot", "disconnect", "connect", "close"}
    BY <1>1 DEF MainTypeOK
  <2>4. QED
    BY <1>8, <1>9, <2>1, <2>2, <2>3 DEF MainTypeOK, Windows, ExitButtons, Optional
<1>11. WindowHasItsView'
  BY <1>2, <1>4, <1>7, <1>8, <1>9 DEF WindowHasItsView
<1>12. StatusIsHeard'
  BY <1>7, <1>8, <1>9 DEF StatusIsHeard
<1>13. mw'.vnc_view # 0
  BY <1>4, <1>7, <1>8
<1>14. QED
  BY <1>8, <1>10, <1>11, <1>12, <1>13, WindowPartsNext

(* The rest of startQuitting(), and what its caller does then. *)
LEMMA EndQuitInv ==
  ASSUME WindowInv, EndQuit
  PROVE  WindowInv'
<1> DEFINE w == Heard(mw, RV!Disconnecting, RV!Disconnected)
           deleted == [w EXCEPT !.vnc_view = 0]
<1>1. /\ phase = "running" /\ quitting # 0
      /\ quitting' = 0 /\ quitReason' = "none" /\ nextViewOnly' = nextViewOnly
  BY DEF EndQuit
<1>2. /\ MainTypeOK /\ StatusIsHeard /\ WindowHasItsView /\ ButtonCanCome
      /\ mw.fullscreen => mw.vnc_view # 0
      /\ mw \in Windows
  BY <1>1, WindowParts DEF MainTypeOK, Windows
<1>3. /\ quitting = shown /\ shown \in alive /\ shown \in ViewIds
      /\ mw.vnc_view = 0 /\ ~mw.crashed /\ ~mw.toolbar /\ ~mw.fullscreen
      /\ quitReason \in {"slot", "disconnect", "connect", "close"}
      /\ \A x \in alive : x = shown /\ quitFlag[x]
  <2>1. quitting = shown /\ shown \in alive /\ quitReason # "none" /\ ~mw.crashed
    BY <1>1, <1>2 DEF StatusIsHeard
  <2>2. mw.vnc_view = 0
    BY <1>1, <1>2 DEF StatusIsHeard
  <2>3. ~mw.toolbar /\ \A x \in alive : x = shown /\ (x # 0 => quitFlag[x])
    BY <1>1, <1>2, <2>2 DEF WindowHasItsView
  <2>4. shown \in ViewIds /\ 0 \notin ViewIds /\ alive \subseteq ViewIds
    BY <1>2, <2>1, ViewIdsAssumption DEF MainTypeOK
  <2>5. QED
    BY <1>2, <2>1, <2>2, <2>3, <2>4 DEF MainTypeOK
<1>4. w = [mw EXCEPT !.old_status = RV!Disconnected]
  BY <1>2, HearsEnd
<1> HIDE DEF w
<1>5. /\ w \in Windows /\ w.vnc_view = 0 /\ ~w.crashed /\ ~w.toolbar
      /\ ~w.fullscreen
  <2>1. RV!Disconnected \in RV!RemoteStatus
    BY DEF RV!RemoteStatus, RV!Disconnected, RV!Connected
  <2>2. QED
    BY <1>2, <1>3, <1>4, <2>1 DEF Windows
<1>6. /\ deleted \in Windows /\ deleted.vnc_view = 0 /\ ~deleted.crashed
      /\ ~deleted.toolbar /\ ~deleted.fullscreen
  BY <1>5 DEF Windows, Optional
<1> HIDE DEF deleted
<1>7. CASE quitReason = "slot"
  <2>1. /\ Continue(w)
        /\ status' = [status EXCEPT ![quitting] = RV!Disconnected]
        /\ UNCHANGED <<shown, alive, quitFlag, viewOnly>>
    BY <1>1, <1>7 DEF EndQuit, w
  <2>2. /\ mw' = w /\ phase' \in {"running", "crashed"}
        /\ phase' = "running" => ~mw'.crashed
        /\ sliderDown' \in BOOLEAN /\ button' \in ExitButtons /\ ButtonCanCome'
    BY <1>1, <1>2, <1>5, <2>1, WindowGoesOn
  <2>3. status' \in [ViewIds -> RV!RemoteStatus]
    BY <1>2, <1>3, <2>1 DEF MainTypeOK, RV!RemoteStatus, RV!Disconnected,
       RV!Connected
  <2>4. mw' \in Windows
    BY <1>5, <2>2
  <2>5. MainTypeOK'
    BY <1>1, <1>2, <2>1, <2>2, <2>3, <2>4
    DEF MainTypeOK, Windows, ExitButtons, Optional
  <2>6. WindowHasItsView'
    BY <1>3, <1>5, <2>1, <2>2 DEF WindowHasItsView
  <2>7. phase' = "running" => StatusIsHeard'
    BY <1>1, <1>5, <2>2 DEF StatusIsHeard
  <2>8. QED
    BY <1>5, <2>2, <2>5, <2>6, <2>7, WindowPartsNext
<1>8. CASE quitReason = "disconnect"
  <2>1. /\ Continue(deleted) /\ shown' = 0 /\ alive' = alive \ {quitting}
        /\ status' = [status EXCEPT ![quitting] = RV!Disconnected]
        /\ UNCHANGED <<quitFlag, viewOnly>>
    BY <1>1, <1>3, <1>8 DEF EndQuit, w, deleted
  <2>2. /\ mw' = deleted /\ phase' \in {"running", "crashed"}
        /\ phase' = "running" => ~mw'.crashed
        /\ sliderDown' \in BOOLEAN /\ button' \in ExitButtons /\ ButtonCanCome'
    BY <1>1, <1>2, <1>6, <2>1, WindowGoesOn
  <2>3. status' \in [ViewIds -> RV!RemoteStatus]
    BY <1>2, <1>3, <2>1 DEF MainTypeOK, RV!RemoteStatus, RV!Disconnected,
       RV!Connected
  <2>4. mw' \in Windows /\ alive' = {}
    BY <1>3, <1>6, <2>1, <2>2
  <2>5. MainTypeOK'
    BY <1>1, <1>2, <2>1, <2>2, <2>3, <2>4
    DEF MainTypeOK, Windows, ExitButtons, Optional
  <2>6. WindowHasItsView'
    BY <1>6, <2>1, <2>2, <2>4 DEF WindowHasItsView
  <2>7. phase' = "running" => StatusIsHeard'
    BY <1>1, <1>6, <2>2 DEF StatusIsHeard
  <2>8. QED
    BY <1>6, <2>2, <2>5, <2>6, <2>7, WindowPartsNext
<1>9. CASE quitReason = "connect"
  <2>1. PICK n \in ViewIds : MakeView(n, deleted, alive \ {quitting})
    BY <1>1, <1>9 DEF EndQuit, w, deleted
  <2>2. alive \ {quitting} \subseteq alive
    OBVIOUS
  <2>3. \A v \in alive \ {quitting} : quitFlag[v]
    BY <1>3
  <2>4. nextViewOnly' \in BOOLEAN
    BY <1>1, <1>2 DEF MainTypeOK
  <2>5. QED
    BY <1>1, <1>6, <2>1, <2>2, <2>3, <2>4, NewViewInv
<1>10. CASE quitReason = "close"
  <2>1. /\ phase' = "closed"
        /\ UNCHANGED <<mw, shown, viewTable, sliderDown, button>>
    BY <1>1, <1>10 DEF EndQuit
  <2>2. MainTypeOK'
    BY <1>1, <1>2, <2>1 DEF MainTypeOK, viewTable, Optional
  <2>3. WindowHasItsView'
    BY <2>1 DEF WindowHasItsView
  <2>4. QED
    BY <2>1, <2>2, <2>3, WindowPartsNext
<1>11. QED
  BY <1>3, <1>7, <1>8, <1>9, <1>10

-----------------------------------------------------------------------------
(* A view asks for a password or has connected. *)
LEMMA RisesInv ==
  ASSUME WindowInv, NEW v \in ViewIds, Rises(v)
  PROVE  WindowInv'
<1>1. /\ phase = "running" /\ quitting = 0 /\ v \in alive /\ ~quitFlag[v]
      /\ UNCHANGED <<shown, alive, quitFlag, viewOnly, callStack>>
  BY DEF Rises
<1>2. PICK s \in {RV!Authenticating, RV!Connected} :
        /\ status[v] < RV!Connected /\ s >= status[v]
        /\ Continue(Heard(mw, status[v], s))
        /\ status' = [status EXCEPT ![v] = s]
  BY DEF Rises
<1> DEFINE w == Heard(mw, status[v], s)
<1>3. /\ MainTypeOK /\ StatusIsHeard /\ WindowHasItsView /\ ButtonCanCome
      /\ mw.fullscreen => mw.vnc_view # 0
      /\ mw \in Windows
  BY <1>1, WindowParts DEF MainTypeOK, Windows
<1>4. /\ v = shown /\ v = mw.vnc_view /\ v # 0 /\ mw.disconnect /\ ~mw.crashed
      /\ \A x \in alive : x = v
      /\ mw.old_status = status[v]
  <2>1. v = shown /\ v = mw.vnc_view /\ \A x \in alive : x = shown
    BY <1>1, <1>3 DEF WindowHasItsView
  <2>2. v # 0
    BY ViewIdsAssumption
  <2>3. QED
    BY <1>1, <1>3, <2>1, <2>2 DEF WindowHasItsView, StatusIsHeard
<1>5. status[v] \in {RV!Connecting, RV!Authenticating}
  <2>1. status[v] \in {RV!Connecting, RV!Authenticating, RV!Connected}
    BY <1>3, <1>4 DEF StatusIsHeard
  <2>2. QED
    BY <1>2, <2>1 DEF RV!Connected
<1>6. /\ status' \in [ViewIds -> RV!RemoteStatus] /\ status'[v] = s
  BY <1>2, <1>3 DEF MainTypeOK, RV!RemoteStatus, RV!Disconnected, RV!Connected,
     RV!Authenticating
<1>7. /\ w \in Windows /\ w.vnc_view = v /\ w.old_status = s
      /\ w.disconnect /\ ~w.crashed
      /\ w.toolbar => s = RV!Connected /\ w.inputButtons = ~viewOnly[v]
  <2>1. ~mw.toolbar
    BY <1>1, <1>3, <1>4, <1>5
    DEF WindowHasItsView, RV!Connecting, RV!Authenticating, RV!Connected
  <2>2. CASE s = RV!Authenticating
    <3>1. s \in RV!RemoteStatus
      BY <2>2 DEF RV!RemoteStatus, RV!Disconnected, RV!Connected, RV!Authenticating
    <3>2. w = [mw EXCEPT !.old_status = s] \/ (w = mw /\ status[v] = s)
      <4>1. CASE status[v] = RV!Connecting
        BY <1>3, <2>2, <4>1, HearsPassword
      <4>2. CASE status[v] = RV!Authenticating
        BY <2>2, <3>1, <4>2, HearsNothing
      <4>3. QED
        BY <1>5, <4>1, <4>2
    <3> HIDE DEF w
    <3>3. QED
      BY <1>3, <1>4, <2>1, <3>1, <3>2 DEF Windows
  <2>3. CASE s = RV!Connected
    <3>1. mw.vnc_view # 0 /\ s \in RV!RemoteStatus
      BY <1>4, <2>3 DEF RV!RemoteStatus, RV!Disconnected, RV!Connected
    <3>2. viewOnly[v] \in BOOLEAN
      BY <1>3 DEF MainTypeOK
    <3>3. w = [mw EXCEPT !.toolbar = TRUE,
                 !.inputButtons = (mw.vnc_view # 0 /\ ~viewOnly[mw.vnc_view]),
                 !.crashed = mw.crashed \/ mw.vnc_view = 0,
                 !.old_status = RV!Connected]
      BY <1>3, <1>5, <2>3, <3>1, HearsConnected
    <3>4. /\ (mw.vnc_view # 0 /\ ~viewOnly[mw.vnc_view]) = ~viewOnly[v]
          /\ (mw.crashed \/ mw.vnc_view = 0) = FALSE
      BY <1>4, <3>1
    <3>5. w = [mw EXCEPT !.toolbar = TRUE, !.inputButtons = ~viewOnly[v],
                         !.crashed = FALSE, !.old_status = s]
      BY <2>3, <3>3, <3>4
    <3> HIDE DEF w
    <3>6. QED
      BY <1>3, <1>4, <2>3, <3>1, <3>2, <3>5 DEF Windows
  <2>4. QED
    BY <1>2, <2>2, <2>3
<1> HIDE DEF w
<1>8. /\ mw' = w /\ phase' \in {"running", "crashed"}
      /\ sliderDown' \in BOOLEAN /\ button' \in ExitButtons /\ ButtonCanCome'
  BY <1>1, <1>2, <1>3, <1>7, WindowGoesOn DEF w
<1>9. mw' \in Windows
  BY <1>7, <1>8
<1>10. MainTypeOK'
  BY <1>1, <1>3, <1>6, <1>8, <1>9
  DEF MainTypeOK, Windows, ExitButtons, Optional, callStack
<1>11. WindowHasItsView'
  BY <1>1, <1>3, <1>4, <1>6, <1>7, <1>8 DEF WindowHasItsView
<1>12. StatusIsHeard'
  BY <1>1, <1>2, <1>4, <1>5, <1>6, <1>7, <1>8 DEF StatusIsHeard, callStack
<1>13. QED
  BY <1>4, <1>7, <1>8, <1>10, <1>11, <1>12, WindowPartsNext

(* The view loses its connection. *)
LEMMA LostInv ==
  ASSUME WindowInv, NEW v \in ViewIds, Lost(v)
  PROVE  WindowInv'
<1>1. /\ phase = "running" /\ quitting = 0 /\ v \in alive /\ ~quitFlag[v]
      /\ nextViewOnly' = nextViewOnly
  BY DEF Lost
<1>2. MainTypeOK /\ WindowHasItsView
  BY WindowParts
<1>3. v = mw.vnc_view /\ v # 0 /\ nextViewOnly' \in BOOLEAN
  BY <1>1, <1>2, ViewIdsAssumption DEF WindowHasItsView, MainTypeOK
<1>4. PICK m \in {mw.message, "error"} :
        BeginQuit(v, "slot", [mw EXCEPT !.message = m])
  BY DEF Lost
<1>5. m \in {"none", "error", "lost"}
  BY <1>2, <1>4 DEF MainTypeOK
<1>6. QED
  BY <1>1, <1>3, <1>4, <1>5, QuitInv

(* The same record of the window, for QuitInv. *)
LEMMA SameMessage ==
  MainTypeOK => mw = [mw EXCEPT !.message = mw.message]
BY DEF MainTypeOK

(* The user disconnects. *)
LEMMA DisconnectInv == WindowInv /\ Disconnect => WindowInv'
<1> SUFFICES ASSUME WindowInv, Disconnect PROVE WindowInv'
  OBVIOUS
<1>1. /\ phase = "running" /\ quitting = 0 /\ mw.vnc_view # 0
      /\ BeginQuit(mw.vnc_view, "disconnect", mw)
      /\ nextViewOnly' = nextViewOnly
  BY DEF Disconnect
<1>2. /\ MainTypeOK /\ mw.message \in {"none", "error", "lost"}
      /\ nextViewOnly' \in BOOLEAN
  BY <1>1, WindowParts DEF MainTypeOK
<1>3. BeginQuit(mw.vnc_view, "disconnect", [mw EXCEPT !.message = mw.message])
  BY <1>1, <1>2, SameMessage
<1>4. QED
  BY <1>1, <1>2, <1>3, QuitInv

(* The connect dialog. *)
LEMMA ConnectInv == WindowInv /\ Connect => WindowInv'
<1> SUFFICES ASSUME WindowInv, Connect PROVE WindowInv'
  OBVIOUS
<1>1. /\ phase = "running" /\ quitting = 0 /\ ~mw.fullscreen
      /\ nextViewOnly' \in BOOLEAN
  BY DEF Connect
<1>2. /\ MainTypeOK /\ WindowHasItsView /\ StatusIsHeard
      /\ mw.message \in {"none", "error", "lost"} /\ mw \in Windows
  BY <1>1, WindowParts DEF MainTypeOK, Windows
<1>3. CASE mw.vnc_view = 0
  <2>1. PICK n \in ViewIds : MakeView(n, mw, alive)
    BY <1>3 DEF Connect
  <2>2. quitting' = 0 /\ quitReason' = quitReason
    BY <1>1, <1>3 DEF Connect
  <2>3. ~mw.toolbar /\ ~mw.crashed /\ \A v \in alive : quitFlag[v]
    <3>1. 0 \notin alive
      BY <1>2, ViewIdsAssumption DEF MainTypeOK
    <3>2. QED
      BY <1>1, <1>2, <1>3, <3>1 DEF WindowHasItsView, StatusIsHeard
  <2>4. alive \subseteq alive
    OBVIOUS
  <2>5. QED
    BY <1>1, <1>2, <2>1, <2>2, <2>3, <2>4, NewViewInv
<1>4. CASE mw.vnc_view # 0
  <2>1. BeginQuit(mw.vnc_view, "connect", mw)
    BY <1>4 DEF Connect
  <2>2. BeginQuit(mw.vnc_view, "connect", [mw EXCEPT !.message = mw.message])
    BY <1>2, <2>1, SameMessage
  <2>3. QED
    BY <1>1, <1>2, <1>4, <2>2, QuitInv
<1>5. QED
  BY <1>3, <1>4

(* The window is closed. *)
LEMMA CloseInv == WindowInv /\ Close => WindowInv'
<1> SUFFICES ASSUME WindowInv, Close PROVE WindowInv'
  OBVIOUS
<1>1. phase = "running" /\ MainTypeOK
  BY WindowParts DEF Close
<1>2. CASE mw.vnc_view = 0
  <2>1. /\ phase' = "closed"
        /\ UNCHANGED <<mw, shown, viewTable, callStack, sliderDown, button>>
    BY <1>2 DEF Close
  <2>2. MainTypeOK'
    BY <1>1, <2>1 DEF MainTypeOK, viewTable, callStack, Optional
  <2>3. WindowHasItsView'
    BY <2>1 DEF WindowHasItsView
  <2>4. QED
    BY <2>1, <2>2, <2>3, WindowPartsNext
<1>3. CASE mw.vnc_view # 0
  <2>1. /\ quitting = 0 /\ BeginQuit(mw.vnc_view, "close", mw)
        /\ nextViewOnly' = nextViewOnly
    BY <1>3 DEF Close
  <2>2. /\ mw.message \in {"none", "error", "lost"} /\ nextViewOnly' \in BOOLEAN
    BY <1>1, <2>1 DEF MainTypeOK
  <2>3. BeginQuit(mw.vnc_view, "close", [mw EXCEPT !.message = mw.message])
    BY <1>1, <2>1, SameMessage
  <2>4. QED
    BY <1>1, <1>3, <2>1, <2>2, <2>3, QuitInv
<1>4. QED
  BY <1>2, <1>3

(* connectToHost() below startQuitting(): nothing is claimed after it. *)
LEMMA ReenterInv == WindowInv /\ Reenter => WindowInv'
<1> SUFFICES ASSUME WindowInv, Reenter PROVE WindowInv'
  OBVIOUS
<1>1. /\ phase' = "reentered"
      /\ UNCHANGED <<mw, shown, viewTable, callStack, sliderDown, button>>
  BY DEF Reenter
<1>2. MainTypeOK'
  BY <1>1, WindowParts DEF MainTypeOK, viewTable, callStack, Optional
<1>3. WindowHasItsView'
  BY <1>1 DEF WindowHasItsView
<1>4. QED
  BY <1>1, <1>2, <1>3, WindowPartsNext

-----------------------------------------------------------------------------
(* The views stay, and of the window only what has nothing to do with them *)
(* changes.                                                                *)
LEMMA ViewsStay ==
  ASSUME WindowInv, phase = "running", NEW w \in Windows, mw' = w,
         w.vnc_view = mw.vnc_view, w.toolbar = mw.toolbar,
         w.inputButtons = mw.inputButtons, w.disconnect = mw.disconnect,
         w.old_status = mw.old_status, ~w.crashed,
         w.fullscreen => w.vnc_view # 0,
         phase' = "running", sliderDown' \in BOOLEAN, button' \in ExitButtons,
         ButtonCanCome', UNCHANGED <<shown, viewTable, callStack>>
  PROVE  WindowInv'
<1>1. MainTypeOK /\ WindowHasItsView /\ StatusIsHeard
  BY WindowParts
<1>2. mw' \in Windows
  OBVIOUS
<1>3. MainTypeOK'
  BY <1>1, <1>2 DEF MainTypeOK, Windows, ExitButtons, Optional, viewTable, callStack
<1>4. WindowHasItsView'
  BY <1>1 DEF WindowHasItsView, viewTable
<1>5. StatusIsHeard'
  BY <1>1 DEF StatusIsHeard, viewTable, callStack
<1>6. QED
  BY <1>3, <1>4, <1>5, WindowPartsNext

(* Full screen, on and off. *)
LEMMA ToggleFullscreenInv == WindowInv /\ ToggleFullscreen => WindowInv'
<1> SUFFICES ASSUME WindowInv, ToggleFullscreen PROVE WindowInv'
  OBVIOUS
<1> DEFINE w == [mw EXCEPT !.fullscreen = ~@]
<1>1. /\ phase = "running" /\ Continue(w)
      /\ (mw.toolbar /\ ~mw.fullscreen) \/ (button.visible /\ button.enabled)
      /\ UNCHANGED <<shown, viewTable, callStack>>
  BY DEF ToggleFullscreen
<1>2. /\ MainTypeOK /\ WindowHasItsView /\ StatusIsHeard /\ ButtonCanCome
      /\ mw.fullscreen => mw.vnc_view # 0
      /\ mw \in Windows
  BY <1>1, WindowParts DEF MainTypeOK, Windows
<1>3. mw.vnc_view # 0 /\ ~mw.crashed
  BY <1>1, <1>2 DEF WindowHasItsView, ButtonCanCome, StatusIsHeard
<1>4. /\ w \in Windows /\ w.vnc_view = mw.vnc_view /\ w.toolbar = mw.toolbar
      /\ w.inputButtons = mw.inputButtons /\ w.disconnect = mw.disconnect
      /\ w.old_status = mw.old_status /\ w.crashed = mw.crashed
  BY <1>2 DEF Windows
<1> HIDE DEF w
<1>5. /\ mw' = w /\ phase' \in {"running", "crashed"}
      /\ sliderDown' \in BOOLEAN /\ button' \in ExitButtons /\ ButtonCanCome'
  BY <1>1, <1>2, <1>4, WindowGoesOn
<1>6. phase' = "running"
  BY <1>1, <1>3, <1>4 DEF Continue
<1>7. QED
  BY <1>1, <1>3, <1>4, <1>5, <1>6, ViewsStay

(* The toolbar uses vnc_view, which is there as long as it is enabled. *)
LEMMA ToolbarInv == WindowInv /\ ToolbarButton => WindowInv'
<1> SUFFICES ASSUME WindowInv, ToolbarButton PROVE WindowInv'
  OBVIOUS
<1>1. /\ phase = "running" /\ mw.toolbar /\ sliderDown' \in BOOLEAN
      /\ mw' = [mw EXCEPT !.crashed = @ \/ mw.vnc_view = 0]
      /\ phase' = IF mw'.crashed THEN "crashed" ELSE phase
      /\ UNCHANGED <<shown, viewTable, callStack, button>>
  BY DEF ToolbarButton
<1>2. /\ MainTypeOK /\ WindowHasItsView /\ StatusIsHeard /\ ButtonCanCome
      /\ mw.fullscreen => mw.vnc_view # 0
      /\ mw \in Windows /\ button \in ExitButtons
  BY <1>1, WindowParts DEF MainTypeOK, Windows, ExitButtons
<1>3. mw.vnc_view # 0 /\ ~mw.crashed /\ mw.crashed = FALSE
  BY <1>1, <1>2 DEF WindowHasItsView, StatusIsHeard, Windows
<1>4. mw' = mw
  <2>1. (mw.crashed \/ mw.vnc_view = 0) = FALSE
    BY <1>3
  <2>2. mw' = [mw EXCEPT !.crashed = FALSE]
    BY <1>1, <2>1
  <2>3. QED
    BY <1>2, <1>3, <2>2 DEF Windows
<1>5. phase' = "running" /\ ButtonCanCome' /\ button' \in ExitButtons
  BY <1>1, <1>2, <1>3, <1>4 DEF ButtonCanCome
<1>6. QED
  BY <1>1, <1>2, <1>3, <1>4, <1>5, ViewsStay

(* The timers and events of the button and of the message. *)
LEMMA OverlaysInv ==
  WindowInv /\ (MessageTimer \/ ButtonEvent \/ ButtonHides \/ Scroll \/ Reenable)
    => WindowInv'
<1> SUFFICES ASSUME WindowInv,
                    MessageTimer \/ ButtonEvent \/ ButtonHides \/ Scroll \/ Reenable
             PROVE  WindowInv'
  OBVIOUS
<1> DEFINE w == [mw EXCEPT !.message = "none"]
<1>1. /\ phase = "running" /\ phase' = phase
      /\ UNCHANGED <<shown, viewTable, callStack, sliderDown>>
      /\ mw' \in {mw, w}
  BY DEF MessageTimer, ButtonEvent, ButtonHides, Scroll, Reenable
<1>2. /\ MainTypeOK /\ StatusIsHeard /\ ButtonCanCome
      /\ mw.fullscreen => mw.vnc_view # 0
      /\ mw \in Windows /\ button \in ExitButtons /\ ~mw.crashed
      /\ sliderDown \in BOOLEAN
  BY <1>1, WindowParts DEF MainTypeOK, Windows, ExitButtons, StatusIsHeard
<1>3. /\ mw' \in Windows /\ mw'.vnc_view = mw.vnc_view
      /\ mw'.toolbar = mw.toolbar /\ mw'.inputButtons = mw.inputButtons
      /\ mw'.disconnect = mw.disconnect /\ mw'.old_status = mw.old_status
      /\ ~mw'.crashed /\ mw'.fullscreen = mw.fullscreen
  BY <1>1, <1>2 DEF Windows
<1>4. button' \in ExitButtons /\ ButtonCanCome'
  <2>1. CASE MessageTimer
    BY <1>2, <1>3, <2>1 DEF MessageTimer, ButtonCanCome
  <2>2. CASE ButtonEvent
    <3>1. button' = ButtonSees(button, mw.fullscreen) /\ mw.fullscreen \in BOOLEAN
      BY <1>2, <2>2 DEF ButtonEvent, Windows
    <3>2. button' \in ExitButtons
      BY <1>2, <3>1, ButtonSeesTyped
    <3>3. CASE button.enabled
      <4>1. /\ button'.visible = mw.fullscreen /\ button'.enabled
            /\ button'.hideTimer = (button.hideTimer \/ mw.fullscreen)
        BY <1>2, <3>1, <3>3, ButtonSeesTyped
      <4>2. QED
        BY <1>3, <3>2, <4>1 DEF ButtonCanCome
    <3>4. CASE ~button.enabled
      <4>1. button' = button
        BY <1>2, <3>1, <3>4, ButtonSeesTyped
      <4>2. QED
        BY <1>2, <1>3, <4>1 DEF ButtonCanCome
    <3>5. QED
      BY <3>3, <3>4
  <2>3. CASE ButtonHides
    BY <1>2, <1>3, <2>3 DEF ButtonHides, ButtonCanCome, ExitButtons
  <2>4. CASE Scroll
    BY <1>2, <1>3, <2>4 DEF Scroll, ButtonCanCome, ExitButtons
  <2>5. CASE Reenable
    BY <1>2, <1>3, <2>5 DEF Reenable, ButtonCanCome, ExitButtons, Windows
  <2>6. QED
    BY <2>1, <2>2, <2>3, <2>4, <2>5
<1>5. QED
  BY <1>1, <1>2, <1>3, <1>4, ViewsStay

-----------------------------------------------------------------------------
(* The window without a view. *)
LEMMA WindowInitInv == MainInit => WindowInv
<1> SUFFICES ASSUME MainInit PROVE WindowInv
  OBVIOUS
<1> USE DEF MainInit
<1>1. RV!Disconnected \in RV!RemoteStatus
  BY DEF RV!RemoteStatus, RV!Disconnected, RV!Connected
<1>2. MainTypeOK
  BY <1>1 DEF MainTypeOK, Optional
<1>3. WindowHasItsView /\ FullscreenCanBeLeft /\ StatusIsHeard
  BY DEF WindowHasItsView, FullscreenCanBeLeft, StatusIsHeard
<1>4. QED
  BY <1>2, <1>3 DEF WindowInv, WindowIsUsable

(* Whatever the user, the views and the timers do: when the status signals *)
(* of the views have been heard, the window shows the view it controls.    *)
(* The induction needs that the static with the last status holds the      *)
(* status of the view (StatusIsHeard): it decides whether "Disconnecting"  *)
(* is the end of a connection.                                             *)
THEOREM WindowInvariance == MainSpec => []WindowInv
<1>1. WindowInv /\ [MainNext]_mainVars => WindowInv'
  <2> SUFFICES ASSUME WindowInv, [MainNext]_mainVars PROVE WindowInv'
    OBVIOUS
  <2>1. ASSUME NEW v \in ViewIds, Rises(v) \/ Lost(v) PROVE WindowInv'
    BY <2>1, RisesInv, LostInv
  <2>2. CASE EndQuit
    BY <2>2, EndQuitInv
  <2>3. CASE Connect
    BY <2>3, ConnectInv
  <2>4. CASE Reenter
    BY <2>4, ReenterInv
  <2>5. CASE Disconnect
    BY <2>5, DisconnectInv
  <2>6. CASE Close
    BY <2>6, CloseInv
  <2>7. CASE ToggleFullscreen
    BY <2>7, ToggleFullscreenInv
  <2>8. CASE ToolbarButton
    BY <2>8, ToolbarInv
  <2>9. CASE MessageTimer \/ ButtonEvent \/ ButtonHides \/ Scroll \/ Reenable
    BY <2>9, OverlaysInv
  <2>10. CASE UNCHANGED mainVars
    BY <2>10 DEF mainVars, viewTable, callStack, WindowInv, MainTypeOK, Optional,
       WindowIsUsable, WindowHasItsView, FullscreenCanBeLeft, StatusIsHeard
  <2>11. QED
    BY <2>1, <2>2, <2>3, <2>4, <2>5, <2>6, <2>7, <2>8, <2>9, <2>10 DEF MainNext
<1>2. QED
  BY <1>1, WindowInitInv, PTL DEF MainSpec

(* WindowIsUsable, for any number of views. *)
THEOREM WindowStaysUsable == MainSpec => []WindowIsUsable
BY WindowInvariance, PTL DEF WindowInv

-----------------------------------------------------------------------------
(* The list of hosts.                                                      *)

(* The hosts that have a position number the list from 0 on.               *)
Placed(pos) == {h \in Hosts : pos[h] # Unset}
Numbers(pos, n) ==
  /\ {pos[h] : h \in Placed(pos)} = 0..(n - 1)
  /\ \A a, b \in Placed(pos) : pos[a] = pos[b] => a = b

(* A list has each of them at its place. *)
Lists(list, pos, n) ==
  /\ list \in Seq(Hosts) /\ Len(list) = n
  /\ \A i \in 1..n : list[i] \in Placed(pos) /\ pos[list[i]] = i - 1

(* The list a dialog shows is still that of the settings, and a quality it *)
(* offers that the user did not choose is that of the host.                *)
ListIsCurrent ==
  \E n \in Nat : /\ Numbers(position, n)
                 /\ dialogOpen => Lists(hostnames_sorted, position, n)
QualityIsOffered ==
  dialogOpen /\ ~touched /\ text \in Hosts => quality_combobox = quality[text]

HistoryTyped ==
  /\ position \in [Hosts -> Int]
  /\ quality \in [Hosts -> 1..3]
  /\ dialogOpen \in BOOLEAN
  /\ text \in Hosts \cup {"", "listen"}
  /\ quality_combobox \in 1..3
  /\ touched \in BOOLEAN

HistoryInv == HistoryTyped /\ ListIsCurrent /\ QualityIsOffered

SortedOf(pos) ==
  LET places == {pos[h] : h \in Placed(pos)}
      Before(h) == {p \in places : p < pos[h]}
  IN [i \in 1..Cardinality(places) |->
        CHOOSE h \in Placed(pos) : Cardinality(Before(h)) = i - 1]

(* Sorting by position gives such a list. *)
LEMMA SortedIsList ==
  ASSUME NEW pos \in [Hosts -> Int], NEW n \in Nat, Numbers(pos, n)
  PROVE  Lists(SortedOf(pos), pos, n)
<1> DEFINE places == {pos[h] : h \in Placed(pos)}
           Before(h) == {p \in places : p < pos[h]}
           At(i) == CHOOSE h \in Placed(pos) : Cardinality(Before(h)) = i - 1
<1>1. places = 0..(n - 1) /\ Cardinality(places) = n
  <2>1. places = 0..(n - 1)
    BY DEF Numbers
  <2>2. Cardinality(0..(n - 1)) = n
    BY FS_Interval
  <2>3. QED
    BY <2>1, <2>2
<1>2. ASSUME NEW h \in Placed(pos)
      PROVE  pos[h] \in 0..(n - 1) /\ Cardinality(Before(h)) = pos[h]
  <2>1. pos[h] \in 0..(n - 1)
    BY <1>1
  <2>2. Before(h) = 0..(pos[h] - 1)
    <3> HIDE DEF places
    <3>1. QED
      BY <1>1, <2>1
  <2>3. Cardinality(0..(pos[h] - 1)) = pos[h]
    <3>1. \A k \in Nat : k - 1 \in Int /\ Cardinality(0..(k - 1)) = k
      BY FS_Interval
    <3>2. QED
      BY <2>1, <3>1
  <2>4. QED
    BY <2>1, <2>2, <2>3
<1> HIDE DEF Before
<1>3. ASSUME NEW i \in 1..n
      PROVE  At(i) \in Placed(pos) /\ pos[At(i)] = i - 1
  <2>1. i - 1 \in places
    BY <1>1
  <2>2. PICK h \in Placed(pos) : pos[h] = i - 1
    BY <2>1
  <2>3. Cardinality(Before(h)) = i - 1
    BY <1>2, <2>2
  <2>4. At(i) \in Placed(pos) /\ Cardinality(Before(At(i))) = i - 1
    BY <2>3
  <2> HIDE DEF At
  <2>5. QED
    BY <1>2, <2>4
<1>4. SortedOf(pos) = [i \in 1..n |-> At(i)]
  <2>1. SortedOf(pos) = [i \in 1..Cardinality(places) |-> At(i)]
    BY DEF SortedOf, Before
  <2>2. QED
    BY <1>1, <2>1
<1> HIDE DEF At
<1>5. \A i \in 1..n : At(i) \in Hosts
  BY <1>3 DEF Placed
<1>6. SortedOf(pos) \in Seq(Hosts) /\ Len(SortedOf(pos)) = n
  BY <1>4, <1>5
<1>7. \A i \in 1..n : SortedOf(pos)[i] = At(i)
  BY <1>4
<1>8. QED
  BY <1>3, <1>6, <1>7 DEF Lists

(* A list is numbered in one way only. *)
LEMMA PlacesOfList ==
  ASSUME NEW pos \in [Hosts -> Int], NEW n \in Nat, Numbers(pos, n),
         NEW list, Lists(list, pos, n), NEW h \in Hosts
  PROVE  /\ InList(list, h) <=> h \in Placed(pos)
         /\ h \in Placed(pos) => /\ pos[h] \in 0..(n - 1)
                                 /\ PlaceOf(list, h) = pos[h] + 1
<1>1. /\ list \in Seq(Hosts) /\ Len(list) = n
      /\ \A i \in 1..n : list[i] \in Placed(pos) /\ pos[list[i]] = i - 1
  BY DEF Lists
<1>2. /\ {pos[x] : x \in Placed(pos)} = 0..(n - 1)
      /\ \A a, b \in Placed(pos) : pos[a] = pos[b] => a = b
  BY DEF Numbers
<1>3. InList(list, h) => h \in Placed(pos)
  BY <1>1 DEF InList
<1>4. ASSUME h \in Placed(pos)
      PROVE  /\ pos[h] \in 0..(n - 1) /\ InList(list, h)
             /\ PlaceOf(list, h) = pos[h] + 1
  <2>1. pos[h] \in 0..(n - 1)
    BY <1>2, <1>4
  <2>2. pos[h] + 1 \in 1..n /\ (pos[h] + 1) - 1 = pos[h]
    BY <2>1
  <2>3. list[pos[h] + 1] = h
    <3> DEFINE i == pos[h] + 1
    <3>1. i \in 1..n /\ i - 1 = pos[h]
      BY <2>2
    <3> HIDE DEF i
    <3>2. list[i] \in Placed(pos) /\ pos[list[i]] = pos[h]
      BY <1>1, <3>1
    <3>3. list[i] = h
      BY <1>2, <1>4, <3>2
    <3>4. QED
      BY <3>3 DEF i
  <2>4. \A i \in 1..n : list[i] = h => i = pos[h] + 1
    BY <1>1, <2>1
  <2>5. QED
    BY <1>1, <2>1, <2>2, <2>3, <2>4 DEF InList, PlaceOf
<1>5. QED
  BY <1>3, <1>4

-----------------------------------------------------------------------------
(* A quality that is offered is one. *)
LEMMA QualitiesAreTyped ==
  ASSUME HistoryTyped
  PROVE  \A t : QualityOf(t) \in 1..3 /\ ShownQuality(t) \in 1..3
<1>1. quality \in [Hosts -> 1..3] /\ quality_combobox \in 1..3
  BY DEF HistoryTyped
<1>2. 2 \in 1..3
  OBVIOUS
<1>3. ASSUME NEW t PROVE QualityOf(t) \in 1..3
  <2>1. CASE t \in Hosts
    BY <1>1, <2>1 DEF QualityOf
  <2>2. CASE t \notin Hosts
    BY <1>2, <2>2 DEF QualityOf, Default
  <2>3. QED
    BY <2>1, <2>2
<1>4. QED
  BY <1>1, <1>3 DEF ShownQuality

(* New settings list no host, migrated ones the last. *)
LEMMA HistoryInitInv ==
  ASSUME HistoryInit
  PROVE  HistoryInv
<1>1. PICK migrated \in SUBSET Hosts :
        /\ \A a, b \in migrated : a = b
        /\ position = [h \in Hosts |-> IF h \in migrated THEN 0 ELSE Unset]
  BY DEF HistoryInit
<1>2. HistoryTyped
  <2>1. position \in [Hosts -> Int]
    BY <1>1 DEF Unset
  <2>2. quality \in [Hosts -> 1..3] /\ quality_combobox \in 1..3
    <3>1. Default \in 1..3
      BY DEF Default
    <3>2. QED
      BY <3>1 DEF HistoryInit
  <2>3. QED
    BY <2>1, <2>2 DEF HistoryInit, HistoryTyped
<1>3. Placed(position) = migrated
  BY <1>1 DEF Placed, Unset
<1>4. \E n \in Nat : Numbers(position, n)
  <2>1. CASE migrated = {}
    <3>1. Numbers(position, 0)
      BY <1>3, <2>1 DEF Numbers
    <3>2. QED
      BY <3>1
  <2>2. CASE migrated # {}
    <3>1. PICK m \in migrated : TRUE
      BY <2>2
    <3>2. migrated = {m} /\ position[m] = 0
      BY <1>1, <3>1
    <3>3. {position[h] : h \in Placed(position)} = {0}
      BY <1>3, <3>2
    <3>4. 0..(1 - 1) = {0}
      OBVIOUS
    <3>5. \A a, b \in Placed(position) : position[a] = position[b] => a = b
      BY <1>3, <3>2
    <3>6. Numbers(position, 1)
      BY <3>3, <3>4, <3>5 DEF Numbers
    <3>7. QED
      BY <3>6
  <2>3. QED
    BY <2>1, <2>2
<1>5. ~dialogOpen
  BY DEF HistoryInit
<1>6. QED
  BY <1>2, <1>4, <1>5 DEF HistoryInv, ListIsCurrent, QualityIsOffered

(* The dialog opens with the list of the settings. *)
LEMMA OpenInv ==
  ASSUME HistoryInv, Open
  PROVE  HistoryInv'
<1>1. HistoryTyped /\ ListIsCurrent /\ QualityIsOffered
  BY DEF HistoryInv
<1>2. PICK n \in Nat : Numbers(position, n)
  BY <1>1 DEF ListIsCurrent
<1>3. Lists(SortedOf(position), position, n)
  BY <1>1, <1>2, SortedIsList DEF HistoryTyped
<1>4. SortedHosts = SortedOf(position)
  BY DEF SortedHosts, SortedOf, Listed, Placed
<1>5. /\ hostnames_sorted' = SortedOf(position)
      /\ position' = position /\ quality' = quality /\ dialogOpen'
      /\ quality_combobox' = QualityOf(text') /\ ~touched'
      /\ text' = IF hostnames_sorted' = <<>> THEN "" ELSE hostnames_sorted'[1]
      /\ dialogOpen' \in BOOLEAN /\ touched' \in BOOLEAN
  BY <1>4 DEF Open, settingsVars
<1>6. text' \in Hosts \cup {""}
  <2>1. hostnames_sorted' \in Seq(Hosts)
    BY <1>3, <1>5 DEF Lists
  <2>2. hostnames_sorted' # <<>> => hostnames_sorted'[1] \in Hosts
    <3> DEFINE list == hostnames_sorted'
    <3>1. list \in Seq(Hosts)
      BY <2>1
    <3> HIDE DEF list
    <3>2. list # <<>> => list[1] \in Hosts
      BY <3>1
    <3>3. QED
      BY <3>2 DEF list
  <2>3. QED
    BY <1>5, <2>2
<1>7. QualityOf(text') \in 1..3
  BY <1>1, QualitiesAreTyped
<1>8. HistoryTyped'
  BY <1>1, <1>5, <1>6, <1>7 DEF HistoryTyped
<1>9. ListIsCurrent'
  BY <1>2, <1>3, <1>5 DEF ListIsCurrent
<1>10. QualityIsOffered'
  BY <1>5 DEF QualityIsOffered, QualityOf
<1>11. QED
  BY <1>8, <1>9, <1>10 DEF HistoryInv

(* The user chooses an item, types or chooses a quality, or gives up.      *)
LEMMA DialogInv ==
  ASSUME HistoryInv, Choose \/ Type \/ ChooseQuality \/ Cancel
  PROVE  HistoryInv'
<1>1. HistoryTyped /\ ListIsCurrent /\ QualityIsOffered
  BY DEF HistoryInv
<1>2. /\ position' = position /\ quality' = quality
      /\ hostnames_sorted' = hostnames_sorted /\ dialogOpen
      /\ dialogOpen' \in BOOLEAN
  BY <1>1 DEF Choose, Type, ChooseQuality, Cancel, settingsVars, HistoryTyped
<1>3. ListIsCurrent'
  BY <1>1, <1>2 DEF ListIsCurrent
<1>4. PICK n \in Nat : Lists(hostnames_sorted, position, n)
  BY <1>1, <1>2 DEF ListIsCurrent
<1>5. \A t : QualityOf(t) \in 1..3 /\ ShownQuality(t) \in 1..3
  BY <1>1, QualitiesAreTyped
<1>6. text' \in Hosts \cup {"", "listen"}
  <2>1. CASE Choose
    <3>1. PICK i \in 0..Len(hostnames_sorted) :
            text' = IF i = Len(hostnames_sorted) THEN "listen"
                    ELSE hostnames_sorted[i + 1]
      BY <2>1 DEF Choose
    <3>2. hostnames_sorted \in Seq(Hosts)
      BY <1>4 DEF Lists
    <3>3. i # Len(hostnames_sorted) => hostnames_sorted[i + 1] \in Hosts
      BY <3>1, <3>2
    <3>4. QED
      BY <3>1, <3>3
  <2>2. CASE ~Choose
    BY <1>1, <2>2 DEF Type, ChooseQuality, Cancel, HistoryTyped
  <2>3. QED
    BY <2>1, <2>2
<1>7. quality_combobox' \in 1..3
  BY <1>1, <1>5 DEF Choose, Type, ChooseQuality, Cancel, HistoryTyped
<1>8. touched' \in BOOLEAN
  BY <1>1 DEF Choose, Type, ChooseQuality, Cancel, HistoryTyped
<1>9. HistoryTyped'
  BY <1>1, <1>2, <1>6, <1>7, <1>8 DEF HistoryTyped
<1>10. QualityIsOffered'
  <2>1. CASE Choose \/ Type
    <3>1. quality_combobox' = ShownQuality(text')
      BY <2>1 DEF Choose, Type
    <3>2. text' \in Hosts => quality_combobox' = quality[text']
      BY <3>1, HostsAssumption DEF ShownQuality, QualityOf
    <3>3. QED
      BY <1>2, <3>2 DEF QualityIsOffered
  <2>2. CASE ChooseQuality
    BY <2>2 DEF ChooseQuality, QualityIsOffered
  <2>3. CASE Cancel
    BY <2>3 DEF Cancel, QualityIsOffered
  <2>4. QED
    BY <2>1, <2>2, <2>3
<1>11. QED
  BY <1>3, <1>9, <1>10 DEF HistoryInv

-----------------------------------------------------------------------------
(* What becomes of a list of n hosts: m hosts, with the one connected to   *)
(* first or where it was, and the others in their order.                   *)
Kept(before, after, n, m, h) ==
  /\ after \in [Hosts -> Int]
  /\ Numbers(after, m)
  /\ Placed(before) \subseteq Placed(after)
  /\ Placed(after) \subseteq Placed(before) \cup {h}
  /\ \A a, b \in Placed(before) \ {h} : before[a] < before[b] => after[a] < after[b]

(* A new host comes first and the others move down. *)
LEMMA HostIsAdded ==
  ASSUME NEW pos \in [Hosts -> Int], NEW n \in Nat, Numbers(pos, n),
         NEW h \in Hosts, h \notin Placed(pos), NEW new,
         new = [x \in Hosts |-> IF x \in Placed(pos) THEN pos[x] + 1
                                ELSE IF x = h THEN 0 ELSE pos[x]]
  PROVE  Kept(pos, new, n, n + 1, h)
<1>1. /\ {pos[x] : x \in Placed(pos)} = 0..(n - 1)
      /\ \A a, b \in Placed(pos) : pos[a] = pos[b] => a = b
  BY DEF Numbers
<1>2. \A x \in Placed(pos) : pos[x] \in 0..(n - 1) /\ x \in Hosts /\ new[x] = pos[x] + 1
  BY <1>1 DEF Placed
<1>3. new \in [Hosts -> Int] /\ new[h] = 0
  OBVIOUS
<1>4. Placed(new) = Placed(pos) \cup {h}
  <2>1. \A x \in Hosts : x \notin Placed(pos) /\ x # h => new[x] = Unset
    BY DEF Placed
  <2>2. ASSUME NEW x \in Placed(pos) PROVE new[x] # Unset
    <3>1. new[x] = pos[x] + 1 /\ pos[x] \in Nat
      BY <1>2
    <3>2. QED
      BY <3>1 DEF Unset
  <2>3. QED
    BY <1>2, <1>3, <2>1, <2>2 DEF Placed, Unset
<1>5. {new[x] : x \in Placed(new)} = 0..((n + 1) - 1)
  <2>1. ASSUME NEW x \in Placed(new) PROVE new[x] \in 0..((n + 1) - 1)
    <3>1. CASE x = h
      BY <1>3, <3>1
    <3>2. CASE x # h
      <4>1. x \in Placed(pos)
        BY <1>4, <3>2
      <4>2. QED
        BY <1>2, <4>1
    <3>3. QED
      BY <3>1, <3>2
  <2>2. ASSUME NEW k \in 0..((n + 1) - 1)
        PROVE  \E x \in Placed(new) : new[x] = k
    <3>1. CASE k = 0
      BY <1>3, <1>4, <3>1
    <3>2. CASE k # 0
      <4>1. k - 1 \in 0..(n - 1)
        BY <3>2
      <4>2. PICK x \in Placed(pos) : pos[x] = k - 1
        BY <1>1, <4>1
      <4>3. new[x] = k
        BY <1>2, <4>2
      <4>4. QED
        BY <1>4, <4>3
    <3>3. QED
      BY <3>1, <3>2
  <2>3. QED
    BY <2>1, <2>2
<1>6. ASSUME NEW a \in Placed(new), NEW b \in Placed(new), new[a] = new[b] PROVE a = b
  BY <1>1, <1>2, <1>3, <1>4, <1>6
<1>7. ASSUME NEW a \in Placed(pos), NEW b \in Placed(pos), pos[a] < pos[b]
      PROVE  new[a] < new[b]
  BY <1>2, <1>7
<1>8. Numbers(new, n + 1)
  BY <1>5, <1>6 DEF Numbers
<1>9. QED
  BY <1>3, <1>4, <1>7, <1>8 DEF Kept

(* A host of the list comes first and those before it move down.           *)
LEMMA HostIsMoved ==
  ASSUME NEW pos \in [Hosts -> Int], NEW n \in Nat, Numbers(pos, n),
         NEW h \in Placed(pos), NEW new,
         new = [x \in Hosts |-> IF x \in Placed(pos) /\ x # h
                                THEN IF pos[x] < pos[h] THEN pos[x] + 1 ELSE pos[x]
                                ELSE IF x = h THEN 0 ELSE pos[x]]
  PROVE  Kept(pos, new, n, n, h)
<1>1. /\ {pos[x] : x \in Placed(pos)} = 0..(n - 1)
      /\ \A a, b \in Placed(pos) : pos[a] = pos[b] => a = b
  BY DEF Numbers
<1>2. /\ h \in Hosts /\ new[h] = 0 /\ pos[h] \in 0..(n - 1)
      /\ \A x \in Placed(pos) \ {h} :
           /\ pos[x] \in 0..(n - 1) /\ x \in Hosts /\ pos[x] # pos[h]
           /\ new[x] = IF pos[x] < pos[h] THEN pos[x] + 1 ELSE pos[x]
  BY <1>1 DEF Placed
<1>3. new \in [Hosts -> Int]
  OBVIOUS
<1>4. Placed(new) = Placed(pos)
  <2>1. \A x \in Hosts : x \notin Placed(pos) => new[x] = Unset
    BY DEF Placed
  <2>2. \A x \in Placed(pos) : new[x] # Unset /\ x \in Hosts
    BY <1>2 DEF Unset
  <2>3. QED
    BY <2>1, <2>2 DEF Placed
<1>5. {new[x] : x \in Placed(new)} = 0..(n - 1)
  <2>1. ASSUME NEW x \in Placed(pos) PROVE new[x] \in 0..(n - 1)
    <3>1. CASE x = h
      BY <1>2, <3>1
    <3>2. CASE x # h
      BY <1>2, <3>2
    <3>3. QED
      BY <3>1, <3>2
  <2>2. ASSUME NEW k \in 0..(n - 1)
        PROVE  \E x \in Placed(pos) : new[x] = k
    <3>1. CASE k = 0
      BY <1>2, <3>1
    <3>2. CASE k # 0 /\ k <= pos[h]
      <4>1. k - 1 \in 0..(n - 1) /\ k - 1 < pos[h]
        BY <1>2, <3>2
      <4>2. PICK x \in Placed(pos) : pos[x] = k - 1
        BY <1>1, <4>1
      <4>3. x # h
        BY <1>2, <4>1, <4>2
      <4>4. new[x] = k
        BY <1>2, <4>1, <4>2, <4>3
      <4>5. QED
        BY <4>4
    <3>3. CASE k # 0 /\ k > pos[h]
      <4>1. PICK x \in Placed(pos) : pos[x] = k
        BY <1>1
      <4>2. x # h
        BY <1>2, <3>3, <4>1
      <4>3. new[x] = k
        BY <1>2, <3>3, <4>1, <4>2
      <4>4. QED
        BY <4>3
    <3>4. QED
      BY <1>2, <3>1, <3>2, <3>3
  <2>3. QED
    BY <1>4, <2>1, <2>2
<1>6. ASSUME NEW a \in Placed(pos), NEW b \in Placed(pos), new[a] = new[b] PROVE a = b
  <2>1. CASE a = h \/ b = h
    <3>1. ASSUME NEW x \in Placed(pos), x # h PROVE new[x] # 0
      <4>1. /\ pos[x] \in Nat /\ pos[h] \in Nat /\ pos[x] # pos[h]
            /\ new[x] = IF pos[x] < pos[h] THEN pos[x] + 1 ELSE pos[x]
        BY <1>2, <3>1
      <4>2. QED
        BY <4>1
    <3>2. QED
      BY <1>2, <1>6, <2>1, <3>1
  <2>2. CASE a # h /\ b # h
    <3>1. pos[a] = pos[b]
      BY <1>2, <1>6, <2>2
    <3>2. QED
      BY <1>1, <3>1
  <2>3. QED
    BY <2>1, <2>2
<1>7. ASSUME NEW a \in Placed(pos) \ {h}, NEW b \in Placed(pos) \ {h}, pos[a] < pos[b]
      PROVE  new[a] < new[b]
  <2>1. /\ pos[a] \in Nat /\ pos[b] \in Nat /\ pos[h] \in Nat
        /\ pos[a] # pos[h] /\ pos[b] # pos[h]
        /\ new[a] = IF pos[a] < pos[h] THEN pos[a] + 1 ELSE pos[a]
        /\ new[b] = IF pos[b] < pos[h] THEN pos[b] + 1 ELSE pos[b]
    BY <1>2
  <2>2. QED
    BY <1>7, <2>1
<1>8. Numbers(new, n)
  BY <1>4, <1>5, <1>6 DEF Numbers
<1>9. QED
  BY <1>3, <1>4, <1>7, <1>8 DEF Kept

(* accept(): the new positions are those of the list with the host first.  *)
LEMMA AcceptIsOrderly ==
  ASSUME HistoryInv, Accept, text \in Hosts
  PROVE  /\ \E n, m \in Nat : Kept(position, position', n, m, text)
         /\ position' = position \/ position'[text] = 0
         /\ quality' = [quality EXCEPT ![text] = quality_combobox]
         /\ ~dialogOpen' /\ dialogOpen /\ UNCHANGED <<text, quality_combobox, touched>>
<1> DEFINE h == text
           newItem == ~InList(hostnames_sorted, h)
           usedOld == ~newItem /\ currentIndex > 0
           rest == Rebuilt(h, usedOld)
           Moved == [x \in Hosts |-> IF InList(rest, x) THEN PlaceOf(rest, x)
                                     ELSE IF x = h THEN 0 ELSE position[x]]
<1>1. /\ dialogOpen /\ ~dialogOpen'
      /\ position' = IF newItem \/ usedOld THEN Moved ELSE position
      /\ quality' = [quality EXCEPT ![text] = quality_combobox]
      /\ UNCHANGED <<text, quality_combobox, touched>>
  BY DEF Accept
<1>2. position \in [Hosts -> Int]
  BY DEF HistoryInv, HistoryTyped
<1> DEFINE pos == position
           list == hostnames_sorted
<1>3. PICK n \in Nat : Numbers(pos, n) /\ Lists(list, pos, n)
  BY <1>1 DEF HistoryInv, ListIsCurrent
<1>4. ASSUME NEW x \in Hosts
      PROVE  /\ InList(list, x) <=> x \in Placed(pos)
             /\ x \in Placed(pos) => /\ pos[x] \in 0..(n - 1)
                                     /\ PlaceOf(list, x) = pos[x] + 1
  BY <1>2, <1>3, PlacesOfList
<1>5. CASE newItem
  <2>1. rest = list
    BY <1>5 DEF Rebuilt
  <2>2. h \notin Placed(pos)
    BY <1>4, <1>5
  <2> HIDE DEF rest, list, h
  <2>3. Moved = [x \in Hosts |-> IF x \in Placed(pos) THEN pos[x] + 1
                                 ELSE IF x = h THEN 0 ELSE pos[x]]
    BY <1>4, <2>1
  <2>4. h \in Hosts
    BY DEF h
  <2>5. Kept(pos, Moved, n, n + 1, h)
    BY <1>2, <1>3, <2>2, <2>3, <2>4, HostIsAdded
  <2>6. Moved[h] = 0
    BY <2>2, <2>3, <2>4
  <2>7. position' = Moved
    BY <1>1, <1>5
  <2>8. QED
    BY <1>1, <2>5, <2>6, <2>7 DEF h
<1>6. CASE usedOld
  <2> DEFINE k == PlaceOf(list, h)
             Here(i) == IF i < k THEN i ELSE i + 1
  <2>1. h \in Hosts /\ h \in Placed(pos)
    BY <1>4, <1>6
  <2>2. pos[h] \in 0..(n - 1) /\ k = pos[h] + 1 /\ n - 1 \in Nat
    BY <1>3, <1>4, <2>1
  <2>3. /\ list \in Seq(Hosts) /\ Len(list) = n
        /\ \A i \in 1..n : list[i] \in Placed(pos) /\ pos[list[i]] = i - 1
    BY <1>3 DEF Lists
  <2>4. rest = [i \in 1..(n - 1) |-> list[Here(i)]]
    BY <1>6, <2>3 DEF Rebuilt
  <2> HIDE DEF rest, list, h, k
  <2>5. \A i \in 1..(n - 1) : Here(i) \in 1..n /\ list[Here(i)] \in Hosts
    BY <2>2, <2>3
  <2>6. rest \in Seq(Hosts) /\ Len(rest) = n - 1
    BY <2>2, <2>4, <2>5
  <2>7. ASSUME NEW i \in 1..(n - 1)
        PROVE  /\ rest[i] \in Placed(pos) /\ rest[i] # h
               /\ i = IF pos[rest[i]] < pos[h] THEN pos[rest[i]] + 1 ELSE pos[rest[i]]
    <3>1. rest[i] = list[Here(i)] /\ Here(i) \in 1..n
      BY <2>4, <2>5
    <3> HIDE DEF Here
    <3>2. rest[i] \in Placed(pos) /\ pos[rest[i]] = Here(i) - 1
      BY <2>3, <3>1
    <3>3. Here(i) - 1 # pos[h]
      BY <2>2 DEF Here
    <3>4. i = IF Here(i) - 1 < pos[h] THEN Here(i) ELSE Here(i) - 1
      BY <2>2 DEF Here
    <3>5. Here(i) \in Int /\ (Here(i) - 1) + 1 = Here(i)
      BY <3>1
    <3>6. QED
      BY <3>2, <3>3, <3>4, <3>5
  <2>8. ASSUME NEW x \in Hosts, x \in Placed(pos), x # h
        PROVE  /\ InList(rest, x)
               /\ PlaceOf(rest, x) = IF pos[x] < pos[h] THEN pos[x] + 1 ELSE pos[x]
    <3> DEFINE i == IF pos[x] < pos[h] THEN pos[x] + 1 ELSE pos[x]
    <3>1. pos[x] \in 0..(n - 1) /\ pos[x] # pos[h]
      BY <1>3, <1>4, <2>1, <2>8 DEF Numbers
    <3>2. i \in 1..(n - 1) /\ Here(i) = pos[x] + 1
      BY <2>2, <3>1
    <3> HIDE DEF i
    <3>3. rest[i] = list[pos[x] + 1]
      BY <2>4, <3>2
    <3>4. pos[x] + 1 \in 1..n /\ (pos[x] + 1) - 1 = pos[x]
      BY <3>1
    <3>5. rest[i] \in Placed(pos) /\ pos[rest[i]] = pos[x]
      BY <2>3, <3>3, <3>4
    <3>6. rest[i] = x
      BY <1>3, <2>8, <3>5 DEF Numbers
    <3>7. \A j \in 1..(n - 1) : rest[j] = x => j = i
      BY <2>7 DEF i
    <3>8. QED
      BY <2>6, <3>2, <3>6, <3>7 DEF InList, PlaceOf, i
  <2>9. ASSUME NEW x \in Hosts, x \notin Placed(pos) \/ x = h
        PROVE  ~InList(rest, x)
    BY <2>6, <2>7, <2>9 DEF InList
  <2>10. Moved = [x \in Hosts |-> IF x \in Placed(pos) /\ x # h
                                  THEN IF pos[x] < pos[h] THEN pos[x] + 1 ELSE pos[x]
                                  ELSE IF x = h THEN 0 ELSE pos[x]]
    BY <2>8, <2>9
  <2>11. Kept(pos, Moved, n, n, h)
    BY <1>2, <1>3, <2>1, <2>10, HostIsMoved
  <2>12. Moved[h] = 0
    BY <2>1, <2>10
  <2>13. position' = Moved
    BY <1>1, <1>6
  <2>14. QED
    BY <1>1, <2>11, <2>12, <2>13 DEF h
<1>7. CASE ~newItem /\ ~usedOld
  <2>1. position' = position
    BY <1>1, <1>7
  <2>2. Kept(position, position, n, n, text)
    BY <1>2, <1>3 DEF Kept
  <2>3. QED
    BY <1>1, <2>1, <2>2
<1>8. QED
  BY <1>5, <1>6, <1>7

(* accept() closes the dialog; listening leaves the list alone. *)
LEMMA AcceptInv ==
  ASSUME HistoryInv, Accept
  PROVE  HistoryInv'
<1>1. HistoryTyped /\ ListIsCurrent /\ QualityIsOffered
  BY DEF HistoryInv
<1>2. /\ dialogOpen /\ ~dialogOpen' /\ dialogOpen' \in BOOLEAN
      /\ UNCHANGED <<text, quality_combobox, touched>>
  BY DEF Accept
<1>3. CASE text \in Hosts
  <2>1. /\ \E n, m \in Nat : Kept(position, position', n, m, text)
        /\ quality' = [quality EXCEPT ![text] = quality_combobox]
    BY <1>3, AcceptIsOrderly
  <2>2. position' \in [Hosts -> Int] /\ \E m \in Nat : Numbers(position', m)
    BY <2>1 DEF Kept
  <2>3. quality' \in [Hosts -> 1..3]
    BY <1>1, <1>3, <2>1 DEF HistoryTyped
  <2>4. QED
    BY <1>1, <1>2, <2>2, <2>3
       DEF HistoryInv, HistoryTyped, ListIsCurrent, QualityIsOffered
<1>4. CASE text \notin Hosts
  <2>1. position' = position /\ quality' = quality
    BY <1>4 DEF Accept, settingsVars
  <2>2. QED
    BY <1>1, <1>2, <2>1
       DEF HistoryInv, HistoryTyped, ListIsCurrent, QualityIsOffered
<1>5. QED
  BY <1>3, <1>4

-----------------------------------------------------------------------------
(* The inductive invariant: the positions number the list, an open dialog  *)
(* shows that list, and offers the quality of the host it names.           *)
(* (connectdialog.cpp ConnectDialog, accept)                               *)
THEOREM HistoryInvariance == HistorySpec => []HistoryInv
<1>1. HistoryInit => HistoryInv
  BY HistoryInitInv
<1>2. HistoryInv /\ [HistoryNext]_historyVars => HistoryInv'
  <2> SUFFICES ASSUME HistoryInv, [HistoryNext]_historyVars PROVE HistoryInv'
    OBVIOUS
  <2>1. CASE UNCHANGED historyVars
    BY <2>1 DEF historyVars, settingsVars, dialogVars, HistoryInv, HistoryTyped,
                ListIsCurrent, QualityIsOffered
  <2>2. QED
    BY <2>1, OpenInv, DialogInv, AcceptInv DEF HistoryNext
<1>3. QED
  BY <1>1, <1>2, PTL DEF HistorySpec

(* No host is dropped from the list or overtaken but by the one connected  *)
(* to, and no quality changes that the user did not choose, for any number *)
(* of hosts.  (connectdialog.cpp accept)                                   *)
THEOREM HostsAreKept == HistorySpec => HistoryIsKept
<1> DEFINE Orderly ==
             \/ UNCHANGED settingsVars
             \/ /\ Listed \subseteq Listed'
                /\ Listed' \ Listed \subseteq {text}
                /\ {position'[h] : h \in Listed'} = 0..(Len(SortedHosts') - 1)
                /\ \A a, b \in Listed' : position'[a] = position'[b] => a = b
                /\ \A a, b \in Listed \ {text} :
                     position[a] < position[b] => position'[a] < position'[b]
                /\ \/ position' = position
                   \/ position'[text] = 0
                /\ \A h \in Hosts : quality'[h] # quality[h] => h = text /\ touched
<1>1. HistoryInv /\ [HistoryNext]_historyVars => [Orderly]_historyVars
  <2> SUFFICES ASSUME HistoryInv, HistoryNext PROVE Orderly
    OBVIOUS
  <2>1. CASE ~(Accept /\ text \in Hosts)
    BY <2>1 DEF HistoryNext, Open, Choose, Type, ChooseQuality, Cancel, Accept
  <2>2. CASE Accept /\ text \in Hosts
    <3>1. /\ position' = position \/ position'[text] = 0
          /\ quality' = [quality EXCEPT ![text] = quality_combobox] /\ dialogOpen
      BY <2>2, AcceptIsOrderly
    <3>2. PICK n \in Nat, m \in Nat : Kept(position, position', n, m, text)
      BY <2>2, AcceptIsOrderly
    <3>3. /\ position' \in [Hosts -> Int] /\ Numbers(position', m)
          /\ Placed(position) \subseteq Placed(position')
          /\ Placed(position') \subseteq Placed(position) \cup {text}
          /\ \A a, b \in Placed(position) \ {text} :
               position[a] < position[b] => position'[a] < position'[b]
      BY <3>2 DEF Kept
    <3>4. Listed = Placed(position) /\ Listed' = Placed(position')
      BY DEF Listed, Placed
    <3>5. SortedHosts' = SortedOf(position')
      BY DEF SortedHosts, SortedOf, Listed, Placed
    <3>6. Len(SortedHosts') = m
      BY <3>3, <3>5, SortedIsList DEF Lists
    <3>7. /\ {position'[h] : h \in Listed'} = 0..(Len(SortedHosts') - 1)
          /\ \A a, b \in Listed' : position'[a] = position'[b] => a = b
      BY <3>3, <3>4, <3>6 DEF Numbers
    <3>8. ASSUME NEW h \in Hosts, quality'[h] # quality[h]
          PROVE  h = text /\ touched
      <4>1. quality \in [Hosts -> 1..3]
        BY DEF HistoryInv, HistoryTyped
      <4>2. h = text /\ quality[text] # quality_combobox
        BY <3>1, <3>8, <4>1
      <4>3. QED
        BY <2>2, <3>1, <4>2 DEF HistoryInv, QualityIsOffered
    <3>9. QED
      BY <3>1, <3>3, <3>4, <3>7, <3>8
  <2>3. QED
    BY <2>1, <2>2
<1>2. QED
  BY <1>1, HistoryInvariance, PTL DEF HistorySpec, HistoryIsKept
=============================================================================
