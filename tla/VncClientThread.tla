-------------------------- MODULE VncClientThread --------------------------
(***************************************************************************)
(* The connection thread (vncclientthread.cpp) and the calls the GUI       *)
(* thread makes into it.                                                   *)
(*                                                                         *)
(* The worker runs VncClientThread::run().  It holds m_mutex through the   *)
(* whole connection phase (rfbGetClient, listening, the RFB handshake and  *)
(* the password callback), then alternates, without the mutex, between     *)
(* waiting for and handling a server message and, with it, writing the     *)
(* queued input events.  Signals to the view are BlockingQueuedConnection: *)
(* the worker posts the call and sleeps until the GUI thread has run it.   *)
(*                                                                         *)
(* The GUI side is the most general client: any legal sequence of calls by *)
(* one thread.  Critical sections of the GUI thread contain no blocking    *)
(* operation, so each of them is one step that needs the mutex to be free. *)
(***************************************************************************)
EXTENDS Integers, Sequences

CONSTANTS
  Events,           \* input events (pointer, key and clipboard events)
  MaxAccepted,      \* bound: events accepted in one connection
  ListenModes,      \* values of m_listen_port > 0 to consider
  AuthSchemes       \* security types the server may choose, a subset of
                    \* {"none", "vnc"}

ASSUME MaxAcceptedAssumption == MaxAccepted \in Nat
ASSUME ListenAssumption == ListenModes \subseteq BOOLEAN
ASSUME AuthAssumption == AuthSchemes \subseteq {"none", "vnc"}

VARIABLES
  m_listen_port,            \* m_listen_port > 0: wait for the server to
                            \* connect to us (URL vnc://listen:port)
  wpc,                      \* where run() is
  mutex,                    \* m_mutex: "free" or held by the "worker"
  m_stopped,
  m_passwordError,
  passwd_failures,          \* local of run()
  m_password,               \* "null", "empty" or "given"
  m_cl,                     \* the rfbClient: "unset", "live" or "freed"
  listenSpecified,          \* m_cl->listenSpecified
  m_eventQueue,
  outputErrorMessageString, \* "none" when empty, else the class of message
  emission,                 \* signal posted to the GUI thread and not yet
                            \* handled there, "none" if there is none
  signalsConnected,         \* false after m_vncThread->disconnect()
  stopCall,                 \* progress of the GUI thread inside stop()
  sent                      \* history: the events written to the server

workerVars == <<wpc, mutex, passwd_failures, m_cl>>
inputVars == <<m_eventQueue, sent>>
guiVars == <<signalsConnected, stopCall>>
passwordVars == <<m_passwordError, m_password>>

(* What a step of run() that only moves on, locks or unlocks leaves alone. *)
connVars == <<m_listen_port, m_stopped, passwd_failures, m_cl, listenSpecified,
              passwordVars, inputVars, guiVars>>
dataVars == <<connVars, emission, outputErrorMessageString>>

vars == <<m_listen_port, wpc, mutex, m_stopped, m_passwordError,
          passwd_failures, m_password, m_cl, listenSpecified, m_eventQueue,
          outputErrorMessageString, emission, signalsConnected, stopCall,
          sent>>

-----------------------------------------------------------------------------
(* The value 3 of passwd_failures at which run() gives up. *)
MaxPasswordTries == 3

(* run() owns m_mutex at these points ... *)
ConnectPoints ==
  {"retry", "configure", "listen", "accepting", "connect", "handshake",
   "password", "emitPassword", "usePassword", "newclient", "initFailed",
   "failCheck", "unlock"}
LockedPoints == ConnectPoints \cup {"drain", "cleanup"}

(* ... and not at these. *)
LoopPoints == {"loop", "wait", "handle", "setImage", "emitImage", "emitCut",
               "relock"}
WorkerPoints ==
  {"lock", "relockExit", "finished"} \cup LockedPoints \cup LoopPoints

Messages == {"none", "internal", "auth", "other"}
Emissions == {"none", "imageUpdated", "gotCut", "passwordRequest"}
Passwords == {"null", "empty", "given"}

(* Every event the queue has taken, sent or not. *)
Accepted == sent \o m_eventQueue

TypeOK ==
  /\ m_listen_port \in BOOLEAN
  /\ wpc \in WorkerPoints
  /\ mutex \in {"free", "worker"}
  /\ m_stopped \in BOOLEAN
  /\ m_passwordError \in BOOLEAN
  /\ passwd_failures \in 0..MaxPasswordTries
  /\ m_password \in Passwords
  /\ m_cl \in {"unset", "live", "freed"}
  /\ listenSpecified \in BOOLEAN
  /\ m_eventQueue \in Seq(Events)
  /\ outputErrorMessageString \in Messages
  /\ emission \in Emissions
  /\ signalsConnected \in BOOLEAN
  /\ stopCall \in {"idle", "abortListen", "lock"}
  /\ sent \in Seq(Events)

(* The state after VncView::start(): the thread object exists, its timer   *)
(* runs, m_stopped is false and QThread::start() was called.  m_cl is not  *)
(* initialised by the constructor.                                         *)
Init ==
  /\ m_listen_port \in ListenModes
  /\ wpc = "lock"
  /\ mutex = "free"
  /\ m_stopped = FALSE
  /\ m_passwordError \in BOOLEAN      \* not initialised by the constructor
  /\ passwd_failures = 0
  /\ m_password = "null"
  /\ m_cl = "unset"
  /\ listenSpecified = FALSE
  /\ m_eventQueue = <<>>
  /\ outputErrorMessageString \in Messages  \* static: an older instance's
  /\ emission = "none"
  /\ signalsConnected = TRUE
  /\ stopCall = "idle"
  /\ sent = <<>>

Goto(from, to) ==
  /\ wpc = from
  /\ wpc' = to

(* outputHandler(): the library's log lines run through it and some of     *)
(* them are kept as the message to show; later ones overwrite it.          *)
Output(classes) ==
  outputErrorMessageString' \in classes \cup {outputErrorMessageString}

-----------------------------------------------------------------------------
(* Plausible mistakes in the actions below.  None of them is part of Next; *)
(* put in place of the action it is named after, each one breaks a         *)
(* property.                                                               *)

(* GiveUp leaving the loop with break instead of return. *)
GiveUpByBreak ==
  /\ Goto("failCheck", "unlock")
  /\ passwd_failures' = passwd_failures + (IF m_passwordError THEN 1 ELSE 0)
  /\ m_passwordError => passwd_failures' >= MaxPasswordTries
  /\ m_stopped' = TRUE
  /\ UNCHANGED <<m_listen_port, mutex, m_cl, listenSpecified, emission,
                 outputErrorMessageString, passwordVars, inputVars, guiVars>>

(* UnlockMutex and QueueDrained without locker.unlock(). *)
UnlockForgotten ==
  /\ Goto("unlock", "loop")
  /\ UNCHANGED <<mutex, dataVars>>

QueueDrainedLocked ==
  /\ Goto("drain", "loop")
  /\ m_eventQueue = <<>>
  /\ UNCHANGED <<mutex, dataVars>>

(* QueueDrained before the queue is empty. *)
QueueDrainedEarly ==
  /\ Goto("drain", "loop")
  /\ mutex' = "free"
  /\ UNCHANGED dataVars

(* SetPassword without the test for a cancelled dialog. *)
SetPasswordAlways(p) ==
  /\ stopCall = "idle"
  /\ emission = "passwordRequest"
  /\ m_password' = p
  /\ emission' = "none"
  /\ UNCHANGED <<m_listen_port, m_stopped, listenSpecified, m_passwordError,
                 outputErrorMessageString, workerVars, inputVars, guiVars>>

(* Enqueue without the test of m_stopped. *)
EnqueueStopped(e) ==
  /\ stopCall = "idle"
  /\ mutex = "free"
  /\ Len(Accepted) < MaxAccepted
  /\ m_eventQueue' = Append(m_eventQueue, e)
  /\ UNCHANGED <<m_listen_port, m_stopped, listenSpecified, emission,
                 outputErrorMessageString, sent, passwordVars, workerVars,
                 guiVars>>

-----------------------------------------------------------------------------
(* The connection phase of run(). *)

LockMutex ==
  /\ Goto("lock", "retry")
  /\ mutex = "free"
  /\ mutex' = "worker"
  /\ UNCHANGED dataVars

(* The loop condition is already false: stop() was faster than the thread. *)
SkipConnect ==
  /\ Goto("retry", "unlock")
  /\ m_stopped
  /\ UNCHANGED <<mutex, dataVars>>

(* A fresh attempt: flags and message are reset, rfbGetClient() allocates. *)
GetClient ==
  /\ Goto("retry", "configure")
  /\ ~m_stopped
  /\ m_passwordError' = FALSE
  /\ outputErrorMessageString' = "none"
  /\ m_cl' = "live"
  /\ listenSpecified' = FALSE         \* calloc
  /\ UNCHANGED <<m_listen_port, mutex, m_stopped, passwd_failures, m_password,
                 emission, inputVars, guiVars>>

Configure ==
  /\ Goto("configure", IF m_listen_port THEN "listen" ELSE "connect")
  /\ listenSpecified' = m_listen_port
  /\ UNCHANGED <<m_listen_port, mutex, m_stopped, passwd_failures, m_cl,
                 emission, outputErrorMessageString, passwordVars, inputVars,
                 guiVars>>

(* listenForIncomingConnections() sets the flag itself, and returns at     *)
(* once when the port cannot be opened.                                    *)
OpenListenSocket ==
  /\ wpc = "listen"
  /\ listenSpecified' = TRUE
  /\ wpc' \in {"accepting", "connect"}
  /\ UNCHANGED <<m_listen_port, mutex, m_stopped, passwd_failures, m_cl,
                 emission, outputErrorMessageString, passwordVars, inputVars,
                 guiVars>>

(* A server connects, or accept() or SetNonBlocking() fails: the loop ends *)
(* with listenSpecified still set.                                         *)
AcceptServer ==
  /\ Goto("accepting", "connect")
  /\ UNCHANGED <<mutex, dataVars>>

(* The loop condition is read every 100 ms. *)
AbortListening ==
  /\ Goto("accepting", "connect")
  /\ ~listenSpecified
  /\ UNCHANGED <<mutex, dataVars>>

(* rfbInitConnection(): with listenSpecified the socket is taken as it is; *)
(* otherwise the host is resolved and connected to.  The host name is      *)
(* empty when a listen was aborted, and an empty name does not resolve.    *)
ConnectToRFBServer ==
  /\ wpc = "connect"
  /\ \/ /\ listenSpecified \/ ~m_listen_port
        /\ wpc' = "handshake"
        /\ UNCHANGED outputErrorMessageString
     \/ /\ ~listenSpecified
        /\ wpc' = "initFailed"
        /\ Output({"other"})
  /\ UNCHANGED <<mutex, connVars, emission>>

(* InitialiseRFBConnection() up to the choice of the security type. *)
Handshake ==
  /\ wpc = "handshake"
  /\ \/ /\ "none" \in AuthSchemes
        /\ wpc' = "newclient"
        /\ Output({"internal"})
     \/ /\ "vnc" \in AuthSchemes
        /\ wpc' = "password"
        /\ Output({"internal"})
     \/ /\ wpc' = "initFailed"
        /\ Output({"internal", "auth", "other"})
  /\ UNCHANGED <<mutex, connVars, emission>>

(* passwdHandler(): emit passwordRequest() and wait for the GUI thread.    *)
(* When nothing is connected to the signal the emission returns at once.   *)
RequestPassword ==
  /\ wpc = "password"
  /\ m_passwordError' = TRUE
  /\ IF signalsConnected
       THEN emission' = "passwordRequest" /\ wpc' = "emitPassword"
       ELSE emission' = emission /\ wpc' = "usePassword"
  /\ UNCHANGED <<m_listen_port, mutex, m_stopped, passwd_failures, m_password,
                 m_cl, listenSpecified, outputErrorMessageString, inputVars,
                 guiVars>>

PasswordAnswered ==
  /\ Goto("emitPassword", "usePassword")
  /\ emission = "none"
  /\ UNCHANGED <<mutex, dataVars>>

(* An empty password ends the attempt; any other one is sent and accepted  *)
(* or refused by the server (rfbHandleAuthResult).                         *)
Authenticate ==
  /\ wpc = "usePassword"
  /\ \/ /\ m_password = "given"
        /\ wpc' = "newclient"
        /\ UNCHANGED outputErrorMessageString
     \/ /\ m_password = "given"
        /\ wpc' = "initFailed"
        /\ Output({"auth", "other"})
     \/ /\ m_password # "given"
        /\ wpc' = "initFailed"
        /\ UNCHANGED outputErrorMessageString
  /\ UNCHANGED <<mutex, connVars, emission>>

(* The rest of the initialisation: ServerInit, pixel format and encodings, *)
(* newclient() and the first update request.                               *)
NewClient ==
  /\ wpc = "newclient"
  /\ \/ wpc' = "unlock" /\ UNCHANGED outputErrorMessageString
     \/ wpc' = "initFailed" /\ Output({"other"})
  /\ UNCHANGED <<mutex, connVars, emission>>

(* rfbInitClient() frees the client it could not connect. *)
InitFailed ==
  /\ Goto("initFailed", "failCheck")
  /\ m_cl' = "freed"
  /\ UNCHANGED <<m_listen_port, mutex, m_stopped, passwd_failures,
                 listenSpecified, emission, outputErrorMessageString,
                 passwordVars, inputVars, guiVars>>

(* A refused password is tried again, up to three times; any other failure *)
(* ends the thread.                                                        *)
RetryPassword ==
  /\ Goto("failCheck", "retry")
  /\ m_passwordError
  /\ passwd_failures' = passwd_failures + 1
  /\ passwd_failures' < MaxPasswordTries
  /\ UNCHANGED <<m_listen_port, mutex, m_stopped, m_cl, listenSpecified,
                 emission, outputErrorMessageString, passwordVars, inputVars,
                 guiVars>>

GiveUp ==
  /\ Goto("failCheck", "finished")
  /\ passwd_failures' = passwd_failures + (IF m_passwordError THEN 1 ELSE 0)
  /\ m_passwordError => passwd_failures' >= MaxPasswordTries
  /\ m_stopped' = TRUE
  /\ mutex' = "free"                  \* ~QMutexLocker
  /\ UNCHANGED <<m_listen_port, m_cl, listenSpecified, emission,
                 outputErrorMessageString, passwordVars, inputVars, guiVars>>

UnlockMutex ==
  /\ Goto("unlock", "loop")
  /\ mutex' = "free"
  /\ UNCHANGED dataVars

-----------------------------------------------------------------------------
(* The message loop of run(). *)

EnterLoop ==
  /\ wpc = "loop"
  /\ wpc' = IF m_stopped THEN "relockExit" ELSE "wait"
  /\ UNCHANGED <<mutex, dataVars>>

(* WaitForMessage() failed, or m_stopped was set in the meantime: leave    *)
(* the loop.  Otherwise handle the message, if there is one.               *)
WaitForMessage ==
  /\ wpc = "wait"
  /\ \/ wpc' = "relockExit"
     \/ ~m_stopped /\ wpc' \in {"handle", "relock"}
  /\ UNCHANGED <<mutex, dataVars>>

(* HandleRFBServerMessage() decoded one more rectangle: updatefb(). *)
UpdateRectangle ==
  /\ Goto("handle", "setImage")
  /\ UNCHANGED <<mutex, dataVars>>

SetImage ==
  /\ wpc = "setImage"
  /\ mutex = "free"
  /\ IF signalsConnected
       THEN emission' = "imageUpdated" /\ wpc' = "emitImage"
       ELSE emission' = emission /\ wpc' = "handle"
  /\ UNCHANGED <<mutex, connVars, outputErrorMessageString>>

ImageDelivered ==
  /\ Goto("emitImage", "handle")
  /\ emission = "none"
  /\ UNCHANGED <<mutex, dataVars>>

(* ServerCutText: cuttext(). *)
CutText ==
  /\ wpc = "handle"
  /\ IF signalsConnected
       THEN emission' = "gotCut" /\ wpc' = "emitCut"
       ELSE emission' = emission /\ wpc' = "relock"
  /\ UNCHANGED <<mutex, connVars, outputErrorMessageString>>

CutDelivered ==
  /\ Goto("emitCut", "relock")
  /\ emission = "none"
  /\ UNCHANGED <<mutex, dataVars>>

MessageHandled ==
  /\ Goto("handle", "relock")
  /\ UNCHANGED <<mutex, dataVars>>

(* HandleRFBServerMessage() returned false: the connection is lost. *)
MessageFailed ==
  /\ Goto("handle", "relockExit")
  /\ Output({"other"})
  /\ UNCHANGED <<mutex, connVars, emission>>

Relock ==
  /\ Goto("relock", "drain")
  /\ mutex = "free"
  /\ mutex' = "worker"
  /\ UNCHANGED dataVars

(* Dequeue one event and fire() it. *)
FireEvent ==
  /\ wpc = "drain"
  /\ m_eventQueue # <<>>
  /\ sent' = Append(sent, Head(m_eventQueue))
  /\ m_eventQueue' = Tail(m_eventQueue)
  /\ UNCHANGED <<m_listen_port, m_stopped, listenSpecified, emission,
                 outputErrorMessageString, passwordVars, workerVars, guiVars>>

QueueDrained ==
  /\ Goto("drain", "loop")
  /\ m_eventQueue = <<>>
  /\ mutex' = "free"
  /\ UNCHANGED dataVars

RelockExit ==
  /\ Goto("relockExit", "cleanup")
  /\ mutex = "free"
  /\ mutex' = "worker"
  /\ UNCHANGED dataVars

(* rfbClientCleanup(), also of a client that was never allocated. *)
Cleanup ==
  /\ Goto("cleanup", "finished")
  /\ m_cl' = "freed"
  /\ m_stopped' = TRUE
  /\ mutex' = "free"
  /\ UNCHANGED <<m_listen_port, passwd_failures, listenSpecified, emission,
                 outputErrorMessageString, passwordVars, inputVars, guiVars>>

-----------------------------------------------------------------------------
(* Calls of the GUI thread.  It makes one at a time: none of them starts   *)
(* while it is inside stop().                                              *)

(* mouseEvent(), keyEvent() and clientCut(); a stopped thread ignores them.*)
Enqueue(e) ==
  /\ stopCall = "idle"
  /\ mutex = "free"
  /\ ~m_stopped
  /\ Len(Accepted) < MaxAccepted
  /\ m_eventQueue' = Append(m_eventQueue, e)
  /\ UNCHANGED <<m_listen_port, m_stopped, listenSpecified, emission,
                 outputErrorMessageString, sent, passwordVars, workerVars,
                 guiVars>>

(* stop(): the test of m_stopped and the abort of the listen loop happen   *)
(* before the mutex is taken.                                              *)
StopTest ==
  /\ stopCall = "idle"
  /\ ~m_stopped
  /\ stopCall' = IF m_listen_port THEN "abortListen" ELSE "lock"
  /\ UNCHANGED <<m_listen_port, m_stopped, listenSpecified, emission,
                 signalsConnected, outputErrorMessageString, passwordVars,
                 workerVars, inputVars>>

(* The write goes through m_cl, whatever m_cl points to by now. *)
StopAbortListen ==
  /\ stopCall = "abortListen"
  /\ stopCall' = "lock"
  /\ listenSpecified' = (m_cl # "live" /\ listenSpecified)
  /\ UNCHANGED <<m_listen_port, m_stopped, emission, signalsConnected,
                 outputErrorMessageString, passwordVars, workerVars,
                 inputVars>>

StopLock ==
  /\ stopCall = "lock"
  /\ mutex = "free"
  /\ stopCall' = "idle"
  /\ m_stopped' = TRUE
  /\ UNCHANGED <<m_listen_port, listenSpecified, emission, signalsConnected,
                 outputErrorMessageString, passwordVars, workerVars,
                 inputVars>>

(* setPassword(), called from the slot of passwordRequest(); a null string *)
(* means that the user cancelled.                                          *)
SetPassword(p) ==
  /\ stopCall = "idle"
  /\ emission = "passwordRequest"
  /\ m_password' = p
  /\ m_passwordError' = (m_passwordError /\ p # "null")
  /\ emission' = "none"
  /\ UNCHANGED <<m_listen_port, m_stopped, listenSpecified,
                 outputErrorMessageString, workerVars, inputVars, guiVars>>

(* The slots of imageUpdated() and gotCut() ran. *)
HandleSignal ==
  /\ stopCall = "idle"
  /\ emission \in {"imageUpdated", "gotCut"}
  /\ emission' = "none"
  /\ UNCHANGED <<wpc, mutex, connVars, outputErrorMessageString>>

(* m_vncThread->disconnect(): a call that is posted already stays posted. *)
DisconnectSignals ==
  /\ stopCall = "idle"
  /\ signalsConnected
  /\ signalsConnected' = FALSE
  /\ UNCHANGED <<m_listen_port, m_stopped, listenSpecified, emission, stopCall,
                 outputErrorMessageString, passwordVars, workerVars,
                 inputVars>>

(* The 500 ms timer consumes the message; it is reported unless it is an   *)
(* authentication failure without m_passwordError.                         *)
CheckOutputErrorMessage ==
  /\ stopCall = "idle"
  /\ outputErrorMessageString # "none"
  /\ outputErrorMessageString' = "none"
  /\ UNCHANGED <<wpc, mutex, connVars, emission>>

ErrorIsReported ==
  outputErrorMessageString = "auth" => m_passwordError

-----------------------------------------------------------------------------
Connecting ==
  \/ LockMutex \/ SkipConnect \/ GetClient \/ Configure \/ OpenListenSocket
  \/ AbortListening \/ ConnectToRFBServer \/ Handshake \/ RequestPassword
  \/ PasswordAnswered \/ Authenticate \/ NewClient \/ InitFailed
  \/ RetryPassword \/ GiveUp \/ UnlockMutex

MessageLoop ==
  \/ EnterLoop \/ WaitForMessage \/ UpdateRectangle \/ SetImage
  \/ ImageDelivered \/ CutText \/ CutDelivered \/ MessageHandled
  \/ MessageFailed \/ Relock \/ FireEvent \/ QueueDrained \/ RelockExit
  \/ Cleanup

Worker == Connecting \/ AcceptServer \/ MessageLoop

Answer == HandleSignal \/ \E p \in Passwords : SetPassword(p)

Gui ==
  \/ \E e \in Events : Enqueue(e)
  \/ StopTest \/ StopAbortListen \/ StopLock
  \/ Answer
  \/ DisconnectSignals
  \/ CheckOutputErrorMessage

(* The thread has ended and the GUI thread is not inside a call. *)
Ended ==
  /\ wpc = "finished"
  /\ stopCall = "idle"
  /\ UNCHANGED vars

Next == Worker \/ Gui \/ Ended

Spec == Init /\ [][Next]_vars

(***************************************************************************)
(* Where the worker may stay for ever.  A read or a write of the library   *)
(* tries again as long as the socket would block, without a timeout, so    *)
(* that a server that says nothing, or takes nothing, holds the worker     *)
(* where it is; so does a user who does not close the password dialog, and *)
(* a listening viewer to which nobody connects and that nobody aborts.     *)
(***************************************************************************)
WaitsForServer ==
  \/ wpc \in {"handshake", "newclient", "handle"}
  \/ wpc = "usePassword" /\ m_password = "given"
  \/ wpc = "drain" /\ m_eventQueue # <<>>

WaitsForUser == wpc = "emitPassword" /\ emission = "passwordRequest"

WaitsForCaller == wpc = "accepting" /\ listenSpecified

WorkerWaits == WaitsForServer \/ WaitsForUser \/ WaitsForCaller

(* The worker waits and GUI calls that need the mutex wait with it. *)
MutexIsKept == mutex = "worker" /\ WorkerWaits

EndOfMessage == MessageHandled \/ MessageFailed \/ CutText

(***************************************************************************)
(* Fairness.  The worker is scheduled, and does what needs nobody else:    *)
(* the server, the user and whoever connects to a listening viewer owe     *)
(* nothing.  (connect() is ended by the operating system, and              *)
(* WaitForMessage() has a timeout.)  A message has at most 65535           *)
(* rectangles, so the worker does not decode rectangles for ever without   *)
(* coming to the end of one.  The GUI thread serves posted calls while it  *)
(* is not itself inside stop(), and gets the mutex if it is free again and *)
(* again.                                                                  *)
(***************************************************************************)
WorkerFairness ==
  /\ WF_vars(~WaitsForServer /\ (Connecting \/ MessageLoop))
  /\ []<><<UpdateRectangle>>_vars => []<><<EndOfMessage>>_vars

GuiFairness ==
  /\ WF_vars(HandleSignal)
  /\ WF_vars(StopAbortListen)
  /\ SF_vars(StopLock)

FairSpec == Spec /\ WorkerFairness /\ GuiFairness

-----------------------------------------------------------------------------
(* Safety. *)

(* The points at which run(), or a callback under it, dereferences m_cl. *)
UsesClient ==
  {"configure", "listen", "accepting", "connect", "handshake", "password",
   "emitPassword", "usePassword", "newclient", "initFailed", "wait", "handle",
   "setImage", "emitImage", "emitCut", "relock", "drain"}

(* The client is used only between rfbGetClient() and its deallocation,    *)
(* and never freed twice: rfbInitClient() frees it when the connection     *)
(* fails, run() frees it when the loop ends, and no path does both.        *)
ClientAlive ==
  /\ wpc \in UsesClient => m_cl = "live"
  /\ wpc = "cleanup" => m_cl # "freed"

(* However run() ends, it leaves the thread stopped, the mutex released,   *)
(* the client freed and no call of its own waiting for the GUI thread.     *)
CleanFinish ==
  wpc = "finished" =>
    /\ m_stopped
    /\ mutex = "free"
    /\ m_cl = "freed"
    /\ emission = "none"

(* While the worker waits for the GUI thread inside the message loop it    *)
(* does not hold the mutex: the slot, which takes it in image(), can run.  *)
(* (The password request is the exception: see VncSession.)                *)
LoopSignalsWithoutMutex ==
  emission \in {"imageUpdated", "gotCut"} => mutex = "free"

(* setPassword(): "cancelled, don't retry".  Once the user has cancelled   *)
(* the password dialog the server's next refusal is not followed by        *)
(* another dialog.                                                         *)
CancelIsFinal ==
  [][(emission = "none" /\ emission' = "passwordRequest")
       => (passwd_failures = 0 \/ m_password # "null")]_vars

(* run(): the user is asked at most three times, and every further dialog  *)
(* is the consequence of one more refused password.                        *)
ThreePasswordTries ==
  [][(emission = "none" /\ emission' = "passwordRequest")
       => passwd_failures < MaxPasswordTries]_vars

-----------------------------------------------------------------------------
(* The inductive strengthening of these properties. *)

(* run() holds the mutex from its first line to the end of the connection  *)
(* phase, while it drains the queue and while it cleans up.                *)
MutexOK == mutex = "worker" <=> wpc \in LockedPoints

(* A posted call is that of the callback in which the worker sleeps. *)
EmissionOK ==
  /\ emission = "passwordRequest" => wpc = "emitPassword"
  /\ emission = "imageUpdated" => wpc = "emitImage"
  /\ emission = "gotCut" => wpc = "emitCut"

(* stop() needs the mutex, so it takes effect before the first attempt to  *)
(* connect or after the last one.                                          *)
NoStopWhileConnecting ==
  wpc \in ConnectPoints \ {"retry", "unlock"} => ~m_stopped

(* What m_cl points to at the points where it is not used: a client that   *)
(* was never allocated reaches the clean-up only of a stopped thread.      *)
ClientOK ==
  /\ ClientAlive
  /\ wpc = "lock" => m_cl = "unset"
  /\ wpc = "retry" /\ m_stopped => m_cl = "unset"
  /\ wpc = "failCheck" => m_cl = "freed"
  /\ wpc \in {"unlock", "loop", "relockExit", "cleanup"} =>
       m_cl = "live" \/ (m_cl = "unset" /\ m_stopped)
  /\ wpc = "finished" => m_cl = "freed" /\ m_stopped

(* Before the server's first request in an attempt, and after it: a        *)
(* cancelled dialog leaves m_passwordError false until the attempt fails.  *)
BeforeRequest ==
  {"configure", "listen", "accepting", "connect", "handshake", "password"}
AfterRequest == {"usePassword", "newclient", "initFailed", "failCheck"}

PasswordOK ==
  /\ wpc = "lock" => passwd_failures = 0
  /\ wpc \in BeforeRequest => ~m_passwordError
  /\ (wpc \in BeforeRequest \cup {"retry"} /\ signalsConnected
       /\ passwd_failures > 0) => m_password # "null"
  /\ (wpc \in AfterRequest \/ (wpc = "emitPassword" /\ emission = "none"))
       /\ m_passwordError /\ signalsConnected => m_password # "null"
  /\ wpc # "finished" => passwd_failures < MaxPasswordTries

IInv ==
  /\ TypeOK
  /\ MutexOK
  /\ EmissionOK
  /\ NoStopWhileConnecting
  /\ ClientOK
  /\ PasswordOK

-----------------------------------------------------------------------------
(* The input path implements the abstract channel: events reach the server *)
(* in order and once, none is taken after stop() and none is written after *)
(* the client is gone.                                                     *)
ChannelPhase ==
  CASE wpc = "finished"              -> "closed"
    [] wpc # "finished" /\ m_stopped -> "closing"
    [] OTHER                         -> "open"

Channel == INSTANCE InputChannel WITH
  accepted <- Accepted, sent <- sent, phase <- ChannelPhase

ChannelSpec == Channel!Spec

(* Liveness.  Whether the worker waits, and what for, is not in the        *)
(* program's hands: each property names the waits it cannot exclude.       *)

(* run(), the message loop: an accepted event is written to the server     *)
(* even while that floods the viewer with messages, unless the thread is   *)
(* stopped first or waits for ever: a server that is silent in the middle  *)
(* of a message, or does not take the events, gets no later one.           *)
AcceptedIsSent ==
  \A n \in 1..MaxAccepted :
    (Len(Accepted) >= n) ~> (Len(sent) >= n \/ m_stopped \/ []WorkerWaits)

(* run(): a stopped worker leaves both loops and ends.  The one thing that *)
(* can keep it is a server in whose message, or in a write to whom, it is. *)
StoppedThreadEnds == m_stopped ~> (wpc = "finished" \/ []WaitsForServer)

(* stop() returns to the GUI thread, with passwords and listening too,     *)
(* unless the worker waits for ever with the mutex: for the server during  *)
(* the connection phase or a write, for a password, or for a caller when   *)
(* the abort came before listenSpecified was set.  A message in which the  *)
(* server stalls does not hold stop() up, nor does a slot that is posted.  *)
StopReturns == (stopCall # "idle") ~> (stopCall = "idle" \/ []MutexIsKept)

-----------------------------------------------------------------------------
(* What comments of the code claim and the code does not keep. *)

(* vncclientthread.cpp:273, "also abort listening for connections, should  *)
(* be safe without locking": m_cl points to a client when stop() writes.   *)
AbortWritesLiveClient == stopCall = "abortListen" => m_cl = "live"

(* vncclientthread.cpp:206, "m_cl is free()d when event loop exits": the   *)
(* pointer that is freed there is a client.                                *)
CleanupFreesClient == wpc = "cleanup" => m_cl = "live"
=============================================================================
