---------------------------- MODULE KeyboardInput ----------------------------
(***************************************************************************)
(* Key events of a view and the modifiers it remembers (m_mods), from      *)
(* three sources: the physical keyboard (VncView::keyEventHandler()), the  *)
(* toolbar (sendKey()) and the key menu (KeyMenu, sendKeySequence(),       *)
(* MainWindow::showKeyMenu()).  sendKey() toggles a modifier: on a touch   *)
(* screen it stays down until it is sent again.                            *)
(*                                                                         *)
(* A sequence is sent by one call of sendKey() per step; the rest of it is *)
(* in keys, and nothing else happens on the GUI thread in the meantime.    *)
(***************************************************************************)
EXTENDS Integers, Sequences

CONSTANTS
  Letters,        \* other keys, of the keyboard and of the buttons
  Combinations    \* the sequences behind the entries of the key menu

(* Keysyms that the view treats as modifiers.  Super_L is toggled by       *)
(* sendKey() but not remembered for the keyboard.                          *)
KeyboardMods == {"Control_L", "Alt_L"}
ToggledMods == KeyboardMods \cup {"Super_L"}
MenuMods == {"Alt_L", "Super_L"}        \* entries that can be checked
Keys == ToggledMods \cup Letters

ASSUME LettersAssumption == Letters \cap ToggledMods = {}
(* A modifier is an entry of its own, never the last key of a combination. *)
ASSUME CombinationsAssumption ==
  /\ Combinations \subseteq {s \in Seq(Keys) : s # <<>>}
  /\ \A s \in Combinations : Len(s) > 1 => s[Len(s)] \in Letters

VARIABLES
  m_mods,
  serverKeys,     \* keys that are down at the server
  held,           \* keys that are down on the keyboard
  keys,           \* what sendKeySequence() has still to send
  modsBefore,     \* history: m_mods when the last sequence began
  combination,    \* history: it has more than one key
  checked,        \* checked entries of the key menu
  viewAlive       \* there is a view; without one the window ignores all this

menuVars == <<checked, viewAlive>>
sequenceVars == <<keys, modsBefore, combination>>
keyboardVars == <<m_mods, serverKeys, held, sequenceVars, menuVars>>

KeyboardTypeOK ==
  /\ m_mods \subseteq ToggledMods
  /\ serverKeys \subseteq Keys
  /\ held \subseteq Keys
  /\ keys \in Seq(Keys)
  /\ modsBefore \subseteq ToggledMods
  /\ combination \in BOOLEAN
  /\ checked \subseteq MenuMods
  /\ viewAlive \in BOOLEAN

KeyboardInit ==
  /\ m_mods = {} /\ serverKeys = {} /\ held = {}
  /\ keys = <<>> /\ modsBefore = {} /\ combination = FALSE
  /\ checked = {} /\ viewAlive = TRUE

(* The GUI thread can begin another handler of the view. *)
Idle == keys = <<>>
Ready == Idle /\ viewAlive

-----------------------------------------------------------------------------
(* Plausible mistakes in the actions below. *)

(* ModifierReleased that forgets to remove the key from m_mods. *)
ModifierReleasedKept(k) ==
  /\ k \in KeyboardMods
  /\ k \in m_mods
  /\ serverKeys' = serverKeys \ {k}
  /\ UNCHANGED m_mods

(* Releases that begin one key too early. *)
ReleasesOffByOne(s) == [i \in 1..(Len(s) - 2) |-> s[Len(s) - 1 - i]]

-----------------------------------------------------------------------------
(* The keyboard. *)

KeyPress(k) ==
  /\ Ready
  /\ held' = held \cup {k}             \* key repeat is a press, too
  /\ serverKeys' = serverKeys \cup {k}
  /\ m_mods' = IF k \in KeyboardMods THEN m_mods \cup {k} ELSE m_mods
  /\ UNCHANGED <<sequenceVars, checked, viewAlive>>

(* unpressModifiers(): what m_mods holds is released at the server. *)
UnpressModifiers ==
  /\ serverKeys' = serverKeys \ m_mods
  /\ m_mods' = {}

ModifierReleased(k) ==
  /\ k \in KeyboardMods
  /\ k \in m_mods
  /\ serverKeys' = serverKeys \ {k}
  /\ m_mods' = m_mods \ {k}

(* The release of a modifier that the view does not know to be down lets   *)
(* go of all of them.                                                      *)
UnknownModifierReleased(k) ==
  /\ k \in KeyboardMods
  /\ k \notin m_mods
  /\ serverKeys' = (serverKeys \ m_mods) \ {k}
  /\ m_mods' = {}

OtherReleased(k) ==
  /\ k \notin KeyboardMods
  /\ serverKeys' = serverKeys \ {k}
  /\ UNCHANGED m_mods

(* Also without a press before: it may have gone to another window. *)
KeyRelease(k) ==
  /\ Ready
  /\ held' = held \ {k}
  /\ ModifierReleased(k) \/ UnknownModifierReleased(k) \/ OtherReleased(k)
  /\ UNCHANGED <<sequenceVars, checked, viewAlive>>

(* A dialog or another window has the focus when the key goes up. *)
ReleasedElsewhere(k) ==
  /\ k \in held
  /\ held' = held \ {k}
  /\ UNCHANGED <<m_mods, serverKeys, sequenceVars, menuVars>>

-----------------------------------------------------------------------------
(* sendKey() and sendKeySequence(). *)

Toggle(k) ==
  /\ m_mods' = IF k \in m_mods THEN m_mods \ {k} ELSE m_mods \cup {k}
  /\ serverKeys' = IF k \in m_mods THEN serverKeys \ {k}
                                   ELSE serverKeys \cup {k}

(* Press and release of another key, also the letters of an input method. *)
SendNormal(k) == serverKeys' = serverKeys \ {k} /\ UNCHANGED m_mods

SendKey(k) == IF k \in ToggledMods THEN Toggle(k) ELSE SendNormal(k)

(* Releasing "everything before final key", in reverse order. *)
Releases(s) == [i \in 1..(Len(s) - 1) |-> s[Len(s) - i]]

(* The buttons of the toolbar, and inputMethodEvent(). *)
ToolbarKey(k) ==
  /\ Ready
  /\ SendKey(k)
  /\ UNCHANGED <<held, sequenceVars, menuVars>>

(* showKeyMenu(): an entry is selected.  That of a modifier is checkable   *)
(* and changes its check mark when it is triggered.                        *)
KeyMenuEntry(s) ==
  /\ Ready
  /\ keys' = s \o Releases(s)
  /\ modsBefore' = m_mods
  /\ combination' = (Len(s) > 1)
  /\ checked' = IF Len(s) = 1 /\ s[1] \in MenuMods
                  THEN (checked \ {s[1]}) \cup ({s[1]} \ checked)
                  ELSE checked
  /\ UNCHANGED <<m_mods, serverKeys, held, viewAlive>>

SendNext ==
  /\ ~Idle
  /\ SendKey(Head(keys))
  /\ keys' = Tail(keys)
  /\ UNCHANGED <<held, modsBefore, combination, menuVars>>

(* ~VncView() lets go of everything it knows of. *)
DestroyView ==
  /\ Ready
  /\ UnpressModifiers
  /\ viewAlive' = FALSE
  /\ UNCHANGED <<held, sequenceVars, checked>>

(* MainWindow::connectToHost(): a new view, connection and key menu. *)
ConnectView ==
  /\ ~viewAlive
  /\ m_mods' = {} /\ serverKeys' = {}
  /\ checked' = {}
  /\ viewAlive' = TRUE
  /\ UNCHANGED <<held, sequenceVars>>

KeyboardNext ==
  \/ \E k \in Keys : KeyPress(k) \/ KeyRelease(k) \/ ReleasedElsewhere(k)
  \/ \E k \in Letters : ToolbarKey(k)
  \/ \E s \in Combinations : KeyMenuEntry(s)
  \/ SendNext
  \/ DestroyView
  \/ ConnectView

KeyboardSpec == KeyboardInit /\ [][KeyboardNext]_keyboardVars

-----------------------------------------------------------------------------
(* What the view believes of the modifiers it tracks is what the server    *)
(* sees: a modifier that is down is in m_mods, so that the destructor      *)
(* releases it and none is left behind, and one in m_mods is down, so that *)
(* toggling it releases it.  Three sources change both in different ways.  *)
ModifiersMatchServer ==
  /\ m_mods \cap KeyboardMods = serverKeys \cap KeyboardMods
  /\ ~viewAlive => serverKeys \cap KeyboardMods = {}

(* A combination of the key menu leaves every modifier as it found it,     *)
(* although each of them is toggled twice.                                 *)
CombinationRestoresModifiers ==
  [][(Idle' /\ ~Idle /\ combination) => m_mods' = modsBefore]_keyboardVars
=============================================================================
