----------------------------- MODULE VncSession -----------------------------
(***************************************************************************)
(* One VncView (vncview.cpp) with its connection thread, and what          *)
(* MainWindow makes of its status.  The worker is that of VncClientThread; *)
(* here the GUI thread is the real one: it runs one slot or event handler  *)
(* at a time, and while a handler waits for the mutex, for the thread to   *)
(* end, or for the user to answer the password dialog, nothing else on the *)
(* GUI thread runs except what a nested event loop delivers.               *)
(***************************************************************************)
EXTENDS VncClientThread

CONSTANT ViewOnlyModes  \* values of m_viewOnly (--viewonly) to consider

ASSUME ViewOnlyAssumption == ViewOnlyModes \subseteq BOOLEAN

VARIABLES
  gpc,                \* where the GUI thread is
  input,              \* the event a handler is about to enqueue
  quitFrom,           \* who called startQuitting()
  m_viewOnly,
  m_quitFlag,
  m_initDone,
  m_mods,             \* m_mods is not empty (one modifier key is modelled)
  m_dontSendClipboard,
  m_status,           \* RemoteView::m_status
  mw                  \* MainWindow: vnc_view # 0, toolbar enabled,
                      \* old_status, and whether it dereferenced a null view

viewVars == <<m_viewOnly, m_quitFlag, m_initDone, m_mods, m_dontSendClipboard>>
statusVars == <<m_status, mw>>
sessionVars == <<gpc, input, quitFrom, viewVars, statusVars>>
allVars == <<vars, sessionVars>>

Remote == INSTANCE RemoteView
Fold == INSTANCE SequencesExt

-----------------------------------------------------------------------------
(* The events a user can cause in a view: "pointer" stands for everything  *)
(* VncView::event() handles that is no modifier key, "cut" for a change of *)
(* the local clipboard.                                                    *)
UserEvents == {"pointer", "modPress", "modRelease", "cut"}

ASSUME EventsAssumption ==
  /\ Events \subseteq UserEvents
  /\ "modPress" \in Events => "modRelease" \in Events

GuiPoints ==
  {"eventLoop", "takeInput", "dialog", "unpressModifiers", "disconnectSignals",
   "startQuitting", "stop", "wait1", "processEvents", "wait2", "joinThread",
   "destroyed", "aborted", "crashed"}

SessionTypeOK ==
  /\ TypeOK
  /\ gpc \in GuiPoints
  /\ input \in Events \cup {"none"}
  /\ quitFrom \in {"none", "slot", "destructor"}
  /\ m_viewOnly \in BOOLEAN
  /\ m_quitFlag \in BOOLEAN
  /\ m_initDone \in BOOLEAN
  /\ m_mods \in BOOLEAN
  /\ m_dontSendClipboard \in BOOLEAN
  /\ m_status \in Remote!RemoteStatus
  /\ mw \in [view : BOOLEAN, toolbar : BOOLEAN, crashed : BOOLEAN,
             old_status : Remote!RemoteStatus]

(* MainWindow::connectToHost() has created the view, connected its signals *)
(* and called start().  It is the first view of the program: the static    *)
(* error message is not that of an older one.                              *)
SessionInit ==
  /\ Init
  /\ outputErrorMessageString = "none"
  /\ gpc = "eventLoop"
  /\ input = "none"
  /\ quitFrom = "none"
  /\ m_viewOnly \in ViewOnlyModes
  /\ m_quitFlag = FALSE
  /\ m_initDone = FALSE
  /\ m_mods = FALSE
  /\ m_dontSendClipboard = m_viewOnly
  /\ m_status = Remote!Connecting
  /\ mw = [view |-> TRUE, toolbar |-> FALSE, crashed |-> FALSE,
           old_status |-> Remote!Connecting]

-----------------------------------------------------------------------------
(* Plausible mistakes in the definitions below, as in VncClientThread. *)

(* ThreadFinished connected to the signal only after connecting. *)
ThreadFinishedWhenConnected ==
  /\ gpc = "eventLoop"
  /\ wpc = "finished"
  /\ ~m_quitFlag
  /\ m_status = Remote!Connected
  /\ gpc' = "startQuitting"
  /\ quitFrom' = "slot"
  /\ UNCHANGED <<vars, input, viewVars, statusVars>>

(* StopThread setting m_stopped without the mutex. *)
StopThreadUnlocked ==
  /\ gpc = "stop"
  /\ stopCall = "lock"
  /\ stopCall' = "idle"
  /\ m_stopped' = TRUE
  /\ gpc' = "wait1"
  /\ UNCHANGED <<m_listen_port, listenSpecified, emission, signalsConnected,
                 outputErrorMessageString, passwordVars, workerVars, inputVars,
                 input, quitFrom, viewVars, statusVars>>

(* QuitDone without the final setStatus(). *)
QuitDoneSilently ==
  /\ UNCHANGED statusVars
  /\ gpc' = IF quitFrom = "destructor" THEN "joinThread" ELSE "eventLoop"

(* EventsProcessed without running the event loop. *)
EventsSkipped ==
  /\ gpc = "processEvents"
  /\ gpc' = "wait2"
  /\ UNCHANGED <<vars, input, quitFrom, viewVars, statusVars>>

-----------------------------------------------------------------------------
(* Status. *)

(* MainWindow::statusChanged(). *)
StatusChanged(w, s) ==
  LET lost == s = Remote!Disconnecting /\ w.old_status # Remote!Disconnected
      up   == s = Remote!Connected
  IN [view       |-> w.view /\ ~lost,
      toolbar    |-> (w.toolbar /\ ~lost) \/ up,
      crashed    |-> w.crashed \/ (up /\ ~w.view),
      old_status |-> s]

(* RemoteView::setStatus(), with the slot that every signal runs. *)
SetStatus(s) ==
  /\ m_status' = s
  /\ mw' = Fold!FoldLeft(StatusChanged, mw, Remote!Emitted(m_status, s))

-----------------------------------------------------------------------------
(* Input. *)

(* VncView::event() and the handlers behind it, up to the call into the    *)
(* thread.  The first updateImage() gives the view its focus policy, so    *)
(* that keys reach it, and the event filter, which drops the event in      *)
(* view-only mode.  The bound keeps a place for the release in ~VncView(). *)
UserInput(e) ==
  /\ gpc = "eventLoop"
  /\ e # "cut"
  /\ e \in {"modPress", "modRelease"} => m_initDone
  /\ Len(Accepted) + 1 < MaxAccepted
  /\ ~(m_viewOnly /\ m_initDone)
  /\ m_mods' = ((m_mods \/ e = "modPress") /\ e # "modRelease")
  /\ input' = e
  /\ gpc' = "takeInput"
  /\ UNCHANGED <<m_viewOnly, vars, quitFrom, m_quitFlag, m_initDone,
                 m_dontSendClipboard, statusVars>>

(* clipboardSelectionChanged(), clipboardDataChanged(). *)
ClipboardChanged ==
  /\ gpc = "eventLoop"
  /\ "cut" \in Events
  /\ Len(Accepted) + 1 < MaxAccepted
  /\ m_status = Remote!Connected
  /\ ~m_dontSendClipboard
  /\ input' = "cut"
  /\ gpc' = "takeInput"
  /\ UNCHANGED <<vars, quitFrom, viewVars, statusVars>>

(* The handler gets the mutex: mouseEvent(), keyEvent(), clientCut(). *)
TakeInput ==
  /\ gpc = "takeInput"
  /\ \/ Enqueue(input)
     \/ m_stopped /\ mutex = "free" /\ UNCHANGED vars
  /\ input' = "none"
  /\ gpc' = "eventLoop"
  /\ UNCHANGED <<quitFrom, viewVars, statusVars>>

-----------------------------------------------------------------------------
(* Slots called by the worker, run by the main event loop or by the nested *)
(* one of startQuitting().                                                 *)

InEventLoop == gpc \in {"eventLoop", "processEvents"}

(* updateImage(): takes the mutex in image(); the first one completes the  *)
(* connection.                                                             *)
UpdateImage ==
  /\ InEventLoop
  /\ emission = "imageUpdated"
  /\ mutex = "free"
  /\ HandleSignal
  /\ IF m_initDone THEN UNCHANGED statusVars ELSE SetStatus(Remote!Connected)
  /\ m_initDone' = TRUE
  /\ gpc' = IF mw'.crashed THEN "crashed" ELSE gpc
  /\ UNCHANGED <<m_viewOnly, input, quitFrom, m_quitFlag, m_mods,
                 m_dontSendClipboard>>

(* setCut(): sets the local clipboard, with m_dontSendClipboard as a guard *)
(* against its own change.                                                 *)
SetCut ==
  /\ InEventLoop
  /\ emission = "gotCut"
  /\ HandleSignal
  /\ m_dontSendClipboard' = FALSE
  /\ UNCHANGED <<m_viewOnly, gpc, input, quitFrom, m_quitFlag, m_initDone,
                 m_mods, statusVars>>

(* requestPassword(): the password of the URL or the saved one is used at  *)
(* once ...  (Once stop() has had the mutex no request is left to deliver, *)
(* so these two do not occur in the nested loop.)                          *)
KnownPassword ==
  /\ gpc = "eventLoop"
  /\ \E p \in Passwords \ {"null"} : SetPassword(p)
  /\ SetStatus(Remote!Authenticating)
  /\ UNCHANGED <<gpc, input, quitFrom, viewVars>>

(* ... otherwise the user is asked. *)
AskPassword ==
  /\ gpc = "eventLoop"
  /\ emission = "passwordRequest"
  /\ SetStatus(Remote!Authenticating)
  /\ gpc' = "dialog"
  /\ UNCHANGED <<vars, input, quitFrom, viewVars>>

DialogClosed ==
  /\ gpc = "dialog"
  /\ \E p \in Passwords : SetPassword(p)
  /\ gpc' = "eventLoop"
  /\ UNCHANGED <<input, quitFrom, viewVars, statusVars>>

-----------------------------------------------------------------------------
(* Quitting. *)

(* startQuitting(), unless it has been called before, up to the lock in    *)
(* stop().                                                                 *)
StartQuitting ==
  /\ gpc = "startQuitting"
  /\ ~m_quitFlag
  /\ SetStatus(Remote!Disconnecting)
  /\ m_quitFlag' = TRUE
  /\ \/ StopTest /\ gpc' = "stop"
     \/ m_stopped /\ gpc' = "wait1" /\ UNCHANGED vars
  /\ UNCHANGED <<m_viewOnly, input, quitFrom, m_initDone, m_mods,
                 m_dontSendClipboard>>

IsQuitting ==
  /\ gpc = "startQuitting"
  /\ m_quitFlag
  /\ gpc' = IF quitFrom = "destructor" THEN "joinThread" ELSE "eventLoop"
  /\ UNCHANGED <<vars, input, quitFrom, viewVars, statusVars>>

(* The timer of the thread object.  outputErrorMessage() shows the message *)
(* and quits, except for an "internal" one, which changes the cursor.      *)
(* What is reported after disconnect() reaches nobody.  A message that     *)
(* arrives in the nested loop finds the view quitting.                     *)
ErrorTimer ==
  /\ gpc \in {"eventLoop", "processEvents"}
  /\ CheckOutputErrorMessage
  /\ IF /\ gpc = "eventLoop"
        /\ signalsConnected
        /\ ErrorIsReported
        /\ outputErrorMessageString # "internal"
       THEN gpc' = "startQuitting" /\ quitFrom' = "slot"
       ELSE UNCHANGED <<gpc, quitFrom>>
  /\ UNCHANGED <<input, viewVars, statusVars>>

(* The same under the password dialog, where only an "internal" message of *)
(* this connection can be waiting.                                         *)
ErrorTimerInDialog ==
  /\ gpc = "dialog"
  /\ outputErrorMessageString = "internal"
  /\ CheckOutputErrorMessage
  /\ UNCHANGED sessionVars

(* finished() is a queued signal: it arrives some time after the end. *)
ThreadFinished ==
  /\ gpc = "eventLoop"
  /\ wpc = "finished"
  /\ ~m_quitFlag
  /\ gpc' = "startQuitting"
  /\ quitFrom' = "slot"
  /\ UNCHANGED <<vars, input, viewVars, statusVars>>

(* MainWindow::disconnectFromHost(), and the parent's destructor: delete   *)
(* the view.  ~VncView() first releases the modifiers that are held ...    *)
Destroy ==
  /\ gpc = "eventLoop"
  /\ mw' = [mw EXCEPT !.toolbar = FALSE]
  /\ gpc' = IF m_mods THEN "unpressModifiers" ELSE "disconnectSignals"
  /\ UNCHANGED <<vars, input, quitFrom, viewVars, m_status>>

UnpressModifiers ==
  /\ gpc = "unpressModifiers"
  /\ \/ Enqueue("modRelease")
     \/ m_stopped /\ mutex = "free" /\ UNCHANGED vars
  /\ m_mods' = FALSE
  /\ gpc' = "disconnectSignals"
  /\ UNCHANGED <<m_viewOnly, input, quitFrom, m_quitFlag, m_initDone,
                 m_dontSendClipboard, statusVars>>

(* ... then disconnects the signals and quits, if the view has not quit    *)
(* before.                                                                 *)
DisconnectThread ==
  /\ gpc = "disconnectSignals"
  /\ DisconnectSignals
  /\ gpc' = "startQuitting"
  /\ quitFrom' = "destructor"
  /\ UNCHANGED <<input, viewVars, statusVars>>

AbortListen ==
  /\ gpc = "stop"
  /\ StopAbortListen
  /\ UNCHANGED sessionVars

StopThread ==
  /\ gpc = "stop"
  /\ StopLock
  /\ gpc' = "wait1"
  /\ UNCHANGED <<input, quitFrom, viewVars, statusVars>>

(* startQuitting() returns to the event loop or to the destructor. *)
QuitDone ==
  /\ SetStatus(Remote!Disconnected)
  /\ gpc' = IF quitFrom = "destructor" THEN "joinThread" ELSE "eventLoop"

(* wait(700): the thread ended in time, or the time is over. *)
FirstWait ==
  /\ gpc = "wait1"
  /\ \/ wpc = "finished" /\ QuitDone
     \/ wpc # "finished" /\ gpc' = "processEvents" /\ UNCHANGED statusVars
  /\ UNCHANGED <<vars, input, quitFrom, viewVars>>

(* processEvents() returns when no posted call is left to deliver. *)
EventsProcessed ==
  /\ gpc = "processEvents"
  /\ emission = "none"
  /\ gpc' = "wait2"
  /\ UNCHANGED <<vars, input, quitFrom, viewVars, statusVars>>

SecondWait ==
  /\ gpc = "wait2"
  /\ QuitDone
  /\ UNCHANGED <<vars, input, quitFrom, viewVars>>

(* ~VncClientThread(): stop() has been called; wait(4000).  Destroying the *)
(* object of a running QThread ends the program.                           *)
JoinThread ==
  /\ gpc = "joinThread"
  /\ gpc' = IF wpc = "finished" THEN "destroyed" ELSE "aborted"
  /\ mw' = [mw EXCEPT !.view = FALSE]
  /\ UNCHANGED <<vars, input, quitFrom, viewVars, m_status>>

-----------------------------------------------------------------------------
(* What the user starts, and what the GUI thread does by itself. *)
UserStep ==
  \/ \E e \in Events : UserInput(e)
  \/ ClipboardChanged
  \/ DialogClosed
  \/ Destroy

SlotStep == UpdateImage \/ SetCut \/ KnownPassword \/ AskPassword

LockStep == TakeInput \/ UnpressModifiers \/ StopThread

GuiStep ==
  \/ SlotStep
  \/ LockStep
  \/ ErrorTimer \/ ErrorTimerInDialog \/ ThreadFinished
  \/ DisconnectThread \/ StartQuitting \/ IsQuitting \/ AbortListen
  \/ FirstWait \/ EventsProcessed \/ SecondWait \/ JoinThread

(* The worker runs as long as the program does. *)
ProgramEnded == gpc \in {"aborted", "crashed"}

InProgram(A) == ~ProgramEnded /\ A /\ UNCHANGED sessionVars

WorkerStep == InProgram(Worker)

(* The program has ended, or the view is gone and its thread with it. *)
SessionEnded ==
  /\ ProgramEnded \/ (gpc = "destroyed" /\ wpc = "finished")
  /\ UNCHANGED allVars

SessionNext == UserStep \/ GuiStep \/ WorkerStep \/ SessionEnded

SessionSpec == SessionInit /\ [][SessionNext]_allVars

(***************************************************************************)
(* Fairness.  For the worker as in VncClientThread: the server owes        *)
(* nothing.  The GUI thread does what is pending; the event loop serves    *)
(* posted calls and queued signals also while the user keeps it busy; and  *)
(* a thread waiting in QMutex::lock() gets a mutex that is free again and  *)
(* again.  The user owes nothing.                                          *)
(***************************************************************************)
SessionFairness ==
  /\ WF_allVars(InProgram(~WaitsForServer /\ (Connecting \/ MessageLoop)))
  /\ []<><<InProgram(UpdateRectangle)>>_allVars
       => []<><<InProgram(EndOfMessage)>>_allVars
  /\ WF_allVars(GuiStep)
  /\ SF_allVars(SlotStep)
  /\ SF_allVars(LockStep)
  /\ SF_allVars(ThreadFinished)

FairSession == SessionSpec /\ SessionFairness

-----------------------------------------------------------------------------
(* Safety. *)

(* When the destructor's own startQuitting() returns, no call of the       *)
(* worker is posted: it then waits for the worker without serving events,  *)
(* so disconnecting the signals first and running the event loop once must *)
(* be enough, whatever was on its way.                                     *)
JoinNeverStarves ==
  [][(gpc \in {"wait1", "wait2"} /\ gpc' = "joinThread")
       => emission' = "none"]_allVars

(* A password dialog belongs to a live attempt: the worker waits for this  *)
(* answer, and neither the view nor its signals are being taken down.      *)
DialogHasRequest ==
  gpc = "dialog" =>
    /\ wpc = "emitPassword"
    /\ emission = "passwordRequest"
    /\ ~m_quitFlag
    /\ signalsConnected

(* Once the event filter is installed a view-only connection takes no key  *)
(* or pointer input any more: neither input that was waiting for the mutex *)
(* then, nor the release of a modifier.                                    *)
ViewOnlyAfterInit ==
  [][(m_viewOnly /\ m_initDone /\ Len(Accepted') > Len(Accepted))
       => Accepted'[Len(Accepted')] = "cut"]_allVars

-----------------------------------------------------------------------------
(* The inductive strengthening of these properties. *)

(* A handler that waits for the mutex has an event to enqueue, and the     *)
(* destructor a modifier to release.  In view-only mode only the clipboard *)
(* gets past the event filter once that is installed.                      *)
InputOK ==
  /\ gpc = "takeInput" => input \in Events
  /\ gpc = "takeInput" /\ m_viewOnly /\ m_initDone => input = "cut"
  /\ m_mods => "modPress" \in Events /\ ~m_viewOnly
  /\ gpc = "unpressModifiers" => m_mods

(* The GUI thread is inside stop() exactly between its two steps there.    *)
StopCallOK == stopCall # "idle" <=> gpc = "stop"

(* A quitting view has stopped its thread, or is about to. *)
QuitOK ==
  /\ m_quitFlag /\ gpc # "stop" => m_stopped
  /\ gpc \in {"stop", "wait1", "processEvents", "wait2"} => m_quitFlag

(* The signals are disconnected by the destructor, which never returns to  *)
(* the event loop.                                                         *)
DestructorPoints ==
  {"startQuitting", "stop", "wait1", "processEvents", "wait2", "joinThread",
   "destroyed", "aborted", "crashed"}

DestructorOK ==
  /\ ~signalsConnected <=> quitFrom = "destructor"
  /\ quitFrom = "destructor" => gpc \in DestructorPoints
  /\ quitFrom = "destructor" /\ gpc = "wait2" => emission = "none"

SessionIInv ==
  /\ IInv
  /\ InputOK
  /\ StopCallOK
  /\ QuitOK
  /\ DestructorOK
  /\ DialogHasRequest

-----------------------------------------------------------------------------
(* Liveness. *)

(* The handlers of VncView and its destructor: the GUI thread comes back   *)
(* to its event loop from all it does.  It can be held up for ever only    *)
(* under the password dialog, and where it needs the mutex (a handler that *)
(* enqueues input, the release of the modifiers, stop()) while the worker  *)
(* keeps that and waits.  The waits for the thread itself, in              *)
(* startQuitting() and in the destructor, always end.                      *)
GuiHeldUp ==
  \/ gpc = "dialog"
  \/ gpc \in {"takeInput", "unpressModifiers", "stop"} /\ MutexIsKept

GuiReturns ==
  [](gpc # "eventLoop" =>
       <>(gpc \in {"eventLoop", "destroyed"} \/ ProgramEnded \/ []GuiHeldUp))

(* startQuitting(): quitting ends in Disconnected, also when the server    *)
(* has stalled in mid-message, unless stop() waits for a worker that keeps *)
(* the mutex for ever.                                                     *)
QuitCompletes ==
  m_quitFlag ~> \/ m_status = Remote!Disconnected
                \/ ProgramEnded
                \/ [](gpc = "stop" /\ MutexIsKept)

(* A connection that is lost is noticed: the view quits by itself. *)
LostConnectionNoticed ==
  (wpc = "finished") ~> (m_quitFlag \/ ProgramEnded)

-----------------------------------------------------------------------------
(* What comments of the code claim and the code does not keep. *)

(* vncview.cpp:70, "BlockingQueuedConnection can cause deadlocks when      *)
(* exiting, handled in startQuitting()": while startQuitting() is inside   *)
(* stop(), the worker does not hold the mutex and wait for a slot.         *)
ExitDeadlockHandled ==
  gpc = "stop" => ~(mutex = "worker" /\ emission # "none")

(* vncview.cpp:90, "Disconnect all signals so that we don't get any more   *)
(* callbacks from the client thread".                                      *)
NoCallbackAfterDisconnect ==
  [][(emission # "none" /\ emission' = "none") => signalsConnected]_allVars

(* vncclientthread.cpp:214, "show authentication failure error only after  *)
(* the 3rd unsuccessful try": run() counts a refused password after its    *)
(* message was posted, so the last one makes three.                        *)
ReportsAuthError ==
  /\ ErrorTimer
  /\ outputErrorMessageString = "auth"
  /\ ErrorIsReported
  /\ signalsConnected

AuthErrorAfterThirdTry ==
  [][ReportsAuthError
       => passwd_failures + (IF wpc \in {"initFailed", "failCheck"} THEN 1 ELSE 0)
            >= MaxPasswordTries]_allVars

(* main.cpp:37, --viewonly: "Don't send mouse/keyboard input to remote     *)
(* desktop".                                                               *)
ViewOnlySendsNoInput ==
  m_viewOnly => \A i \in DOMAIN sent : sent[i] = "cut"
=============================================================================
