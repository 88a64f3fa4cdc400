-------------------------- MODULE VncSession_proofs --------------------------
(***************************************************************************)
(* Proofs about VncClientThread, for every set of events, every bound on   *)
(* them, every way to connect and every set of security types, and about   *)
(* VncSession.                                                             *)
(*                                                                         *)
(* The safety properties of the thread follow from the inductive invariant *)
(* IInv; the refinement of InputChannel needs it too, for the steps that   *)
(* end run().  The session implements the thread with its most general     *)
(* client, so that the theorems about VncClientThread hold of it; about it *)
(* are the orderings of the GUI thread that the destructor, the password   *)
(* dialog and view-only mode depend on.  Nothing here depends on what      *)
(* MainWindow makes of the status.                                         *)
(***************************************************************************)
EXTENDS VncSession, TLAPS

-----------------------------------------------------------------------------
(***************************************************************************)
(* VncClientThread.                                                        *)
(***************************************************************************)


-----------------------------------------------------------------------------
(* IInv is inductive.  There is one lemma for each part of Next, with one  *)
(* step for each action.                                                   *)

(* The constructor and QThread::start() establish it. *)
LEMMA InitInv == Init => IInv
<1> SUFFICES ASSUME Init PROVE IInv
  OBVIOUS
<1>1. TypeOK
  <2>1. /\ m_listen_port \in BOOLEAN
        /\ m_stopped \in BOOLEAN
        /\ m_passwordError \in BOOLEAN
        /\ listenSpecified \in BOOLEAN
        /\ signalsConnected \in BOOLEAN
    BY ListenAssumption, Zenon DEF Init
  <2>2. /\ wpc \in WorkerPoints
        /\ mutex \in {"free", "worker"}
        /\ passwd_failures \in 0..MaxPasswordTries
        /\ m_password \in Passwords
        /\ m_cl \in {"unset", "live", "freed"}
        /\ outputErrorMessageString \in Messages
        /\ emission \in Emissions
        /\ stopCall \in {"idle", "abortListen", "lock"}
    BY DEF Init, WorkerPoints, Messages, Emissions, Passwords,
           MaxPasswordTries
  <2>3. m_eventQueue \in Seq(Events) /\ sent \in Seq(Events)
    BY DEF Init
  <2>4. QED
    BY <2>1, <2>2, <2>3 DEF TypeOK
<1>2. MutexOK /\ EmissionOK /\ NoStopWhileConnecting
  BY DEF Init, MutexOK, EmissionOK, NoStopWhileConnecting, LockedPoints,
         ConnectPoints
<1>3. ClientOK /\ PasswordOK
  BY DEF Init, ClientOK, ClientAlive, PasswordOK, UsesClient, BeforeRequest,
         AfterRequest, MaxPasswordTries
<1>4. QED
  BY <1>1, <1>2, <1>3 DEF IInv

(* The connection phase of run(): it holds the mutex from LockMutex on, so *)
(* that nobody stops the thread under an attempt.                          *)
LEMMA ConnectingInv ==
  ASSUME IInv, Connecting \/ AcceptServer
  PROVE  IInv'
<1> USE DEF IInv, TypeOK, MutexOK, EmissionOK, NoStopWhileConnecting, ClientOK,
            ClientAlive, PasswordOK
<1> USE DEF WorkerPoints, LockedPoints, ConnectPoints, LoopPoints, UsesClient,
            BeforeRequest, AfterRequest, Messages, Emissions, Passwords,
            MaxPasswordTries
<1> USE DEF connVars, dataVars, inputVars, guiVars, passwordVars, Goto, Output
<1>1. CASE LockMutex
  BY <1>1 DEF LockMutex
<1>2. CASE SkipConnect
  BY <1>2 DEF SkipConnect
<1>3. CASE GetClient
  BY <1>3 DEF GetClient
<1>4. CASE Configure
  BY <1>4 DEF Configure
<1>5. CASE OpenListenSocket
  BY <1>5 DEF OpenListenSocket
<1>6. CASE AbortListening
  BY <1>6 DEF AbortListening
<1>7. CASE ConnectToRFBServer
  BY <1>7 DEF ConnectToRFBServer
<1>8. CASE Handshake
  BY <1>8 DEF Handshake
<1>9. CASE RequestPassword
  BY <1>9 DEF RequestPassword
<1>10. CASE PasswordAnswered
  BY <1>10 DEF PasswordAnswered
<1>11. CASE Authenticate
  BY <1>11 DEF Authenticate
<1>12. CASE NewClient
  BY <1>12 DEF NewClient
<1>13. CASE InitFailed
  BY <1>13 DEF InitFailed
<1>14. CASE RetryPassword
  BY <1>14 DEF RetryPassword
<1>15. CASE GiveUp
  BY <1>15 DEF GiveUp
<1>16. CASE UnlockMutex
  BY <1>16 DEF UnlockMutex
<1>17. CASE AcceptServer
  BY <1>17 DEF AcceptServer
<1>18. QED
  BY <1>1, <1>2, <1>3, <1>4, <1>5, <1>6, <1>7, <1>8, <1>9, <1>10, <1>11,
     <1>12, <1>13, <1>14, <1>15, <1>16, <1>17 DEF Connecting

(* The message loop of run(), and the clean-up after it. *)
LEMMA MessageLoopInv ==
  ASSUME IInv, MessageLoop
  PROVE  IInv'
<1> USE DEF IInv, TypeOK, MutexOK, EmissionOK, NoStopWhileConnecting, ClientOK,
            ClientAlive, PasswordOK
<1> USE DEF WorkerPoints, LockedPoints, ConnectPoints, LoopPoints, UsesClient,
            BeforeRequest, AfterRequest, Messages, Emissions, Passwords,
            MaxPasswordTries
<1> USE DEF connVars, dataVars, workerVars, inputVars, guiVars, passwordVars,
            Goto, Output
<1>1. CASE EnterLoop
  BY <1>1 DEF EnterLoop
<1>2. CASE WaitForMessage
  BY <1>2 DEF WaitForMessage
<1>3. CASE UpdateRectangle
  BY <1>3 DEF UpdateRectangle
<1>4. CASE SetImage
  BY <1>4 DEF SetImage
<1>5. CASE ImageDelivered
  BY <1>5 DEF ImageDelivered
<1>6. CASE CutText
  BY <1>6 DEF CutText
<1>7. CASE CutDelivered
  BY <1>7 DEF CutDelivered
<1>8. CASE MessageHandled
  BY <1>8 DEF MessageHandled
<1>9. CASE MessageFailed
  BY <1>9 DEF MessageFailed
<1>10. CASE Relock
  BY <1>10 DEF Relock
<1>11. CASE FireEvent
  BY <1>11 DEF FireEvent
<1>12. CASE QueueDrained
  BY <1>12 DEF QueueDrained
<1>13. CASE RelockExit
  BY <1>13 DEF RelockExit
<1>14. CASE Cleanup
  BY <1>14 DEF Cleanup
<1>15. QED
  BY <1>1, <1>2, <1>3, <1>4, <1>5, <1>6, <1>7, <1>8, <1>9, <1>10, <1>11,
     <1>12, <1>13, <1>14 DEF MessageLoop

(* The calls of the GUI thread. *)
LEMMA GuiInv ==
  ASSUME IInv, Gui
  PROVE  IInv'
<1> USE DEF IInv, TypeOK, MutexOK, EmissionOK, NoStopWhileConnecting, ClientOK,
            ClientAlive, PasswordOK
<1> USE DEF WorkerPoints, LockedPoints, ConnectPoints, LoopPoints, UsesClient,
            BeforeRequest, AfterRequest, Messages, Emissions, Passwords,
            MaxPasswordTries
<1> USE DEF connVars, workerVars, inputVars, guiVars, passwordVars
<1>1. CASE StopTest
  BY <1>1 DEF StopTest
<1>2. CASE StopAbortListen
  BY <1>2 DEF StopAbortListen
<1>3. CASE StopLock
  BY <1>3 DEF StopLock
<1>4. CASE HandleSignal
  BY <1>4 DEF HandleSignal
<1>5. CASE DisconnectSignals
  <2>1. signalsConnected' \in BOOLEAN
    BY <1>5, Zenon DEF DisconnectSignals
  <2>2. ~signalsConnected'
    BY <1>5 DEF DisconnectSignals
  <2>3. UNCHANGED <<m_listen_port, m_stopped, listenSpecified, emission,
                    stopCall, outputErrorMessageString, passwordVars,
                    workerVars, inputVars>>
    BY <1>5 DEF DisconnectSignals
  <2>4. QED
    BY <2>1, <2>2, <2>3
<1>6. CASE CheckOutputErrorMessage
  BY <1>6 DEF CheckOutputErrorMessage
<1>7. CASE \E e \in Events : Enqueue(e)
  BY <1>7 DEF Enqueue
<1>8. CASE \E p \in Passwords : SetPassword(p)
  BY <1>8 DEF SetPassword
<1>9. QED
  BY <1>1, <1>2, <1>3, <1>4, <1>5, <1>6, <1>7, <1>8 DEF Gui, Answer

(* Together: no step of either thread breaks it ... *)
LEMMA NextInv == IInv /\ [Next]_vars => IInv'
<1> SUFFICES ASSUME IInv, [Next]_vars PROVE IInv'
  OBVIOUS
<1>1. CASE UNCHANGED vars
  BY <1>1 DEF vars, IInv, TypeOK, MutexOK, EmissionOK, NoStopWhileConnecting,
              ClientOK, ClientAlive, PasswordOK
<1>2. CASE Worker
  BY <1>2, ConnectingInv, MessageLoopInv DEF Worker
<1>3. CASE Gui
  BY <1>3, GuiInv
<1>4. QED
  BY <1>1, <1>2, <1>3 DEF Next, Ended

(* ... so it holds throughout run() and every call made into the thread.   *)
THEOREM Invariance == Spec => []IInv
  BY InitInv, NextInv, PTL DEF Spec

-----------------------------------------------------------------------------
(* The safety properties. *)

(* Every variable keeps its type; in particular passwd_failures never      *)
(* passes the limit of run().                                              *)
THEOREM TypeCorrectness == Spec => []TypeOK
<1>1. IInv => TypeOK
  BY DEF IInv
<1>2. QED
  BY Invariance, <1>1, PTL

(* run() and the callbacks under it use m_cl only between rfbGetClient()   *)
(* and its deallocation, and no path of run() frees it twice.              *)
THEOREM ClientIsAlive == Spec => []ClientAlive
<1>1. IInv => ClientAlive
  BY DEF IInv, ClientOK
<1>2. QED
  BY Invariance, <1>1, PTL

(* However run() returns, the thread is stopped, the mutex released, the   *)
(* client freed and nothing posted to the GUI thread.                      *)
THEOREM FinishIsClean == Spec => []CleanFinish
<1>1. IInv => CleanFinish
  BY DEF IInv, TypeOK, MutexOK, ClientOK, EmissionOK, CleanFinish, Emissions,
         LockedPoints, ConnectPoints
<1>2. QED
  BY Invariance, <1>1, PTL

(* imageUpdated() and gotCut() are emitted without m_mutex: their slots,   *)
(* of which updateImage() takes it, cannot deadlock with the worker.       *)
THEOREM LoopSignalsAreSafe == Spec => []LoopSignalsWithoutMutex
<1>1. IInv => LoopSignalsWithoutMutex
  BY DEF IInv, TypeOK, MutexOK, EmissionOK, LoopSignalsWithoutMutex,
         LockedPoints, ConnectPoints
<1>2. QED
  BY Invariance, <1>1, PTL

(* The only step that posts a password request is that of passwdHandler(). *)
LEMMA RequestStep ==
  ASSUME IInv, [Next]_vars, emission = "none", emission' = "passwordRequest"
  PROVE  RequestPassword /\ signalsConnected
<1>1. ASSUME Connecting \/ AcceptServer, ~RequestPassword
      PROVE  emission' = emission
  BY <1>1 DEF Connecting, AcceptServer, LockMutex, SkipConnect, GetClient,
      Configure, OpenListenSocket, AbortListening, ConnectToRFBServer,
      Handshake, PasswordAnswered, Authenticate, NewClient, InitFailed,
      RetryPassword, GiveUp, UnlockMutex, dataVars
<1>2. ASSUME MessageLoop
      PROVE  emission' \in {emission, "imageUpdated", "gotCut"}
  BY <1>2 DEF MessageLoop, EnterLoop, WaitForMessage, UpdateRectangle,
      SetImage, ImageDelivered, CutText, CutDelivered, MessageHandled,
      MessageFailed, Relock, FireEvent, QueueDrained, RelockExit, Cleanup,
      dataVars
<1>3. ASSUME Gui
      PROVE  emission' \in {emission, "none"}
  BY <1>3 DEF Gui, Answer, Enqueue, StopTest, StopAbortListen, StopLock,
      SetPassword, HandleSignal, DisconnectSignals, CheckOutputErrorMessage
<1>4. ASSUME UNCHANGED vars
      PROVE  emission' = emission
  BY <1>4 DEF vars
<1>5. RequestPassword
  BY <1>1, <1>2, <1>3, <1>4 DEF Next, Worker, Ended
<1>6. QED
  BY <1>5 DEF RequestPassword

(* A cancelled password dialog is not followed by another one. *)
THEOREM CancellingIsFinal == Spec => CancelIsFinal
<1>1. ASSUME IInv, [Next]_vars,
             emission = "none", emission' = "passwordRequest"
      PROVE  passwd_failures = 0 \/ m_password # "null"
  <2>1. RequestPassword /\ signalsConnected
    BY <1>1, RequestStep
  <2>2. wpc = "password" /\ passwd_failures \in 0..MaxPasswordTries
    BY <1>1, <2>1 DEF RequestPassword, IInv, TypeOK
  <2>3. passwd_failures > 0 => m_password # "null"
    BY <1>1, <2>1, <2>2 DEF IInv, PasswordOK, BeforeRequest
  <2>4. QED
    BY <2>2, <2>3 DEF MaxPasswordTries
<1>2. QED
  BY <1>1, Invariance, PTL DEF Spec, CancelIsFinal

(* The user is asked for a password at most three times. *)
THEOREM AtMostThreeTries == Spec => ThreePasswordTries
<1>1. ASSUME IInv, [Next]_vars,
             emission = "none", emission' = "passwordRequest"
      PROVE  passwd_failures < MaxPasswordTries
  <2>1. wpc = "password"
    BY <1>1, RequestStep DEF RequestPassword
  <2>2. QED
    BY <1>1, <2>1 DEF IInv, PasswordOK
<1>2. QED
  BY <1>1, Invariance, PTL DEF Spec, ThreePasswordTries

-----------------------------------------------------------------------------
(* The input path implements InputChannel. *)

(* The two facts about sequences the refinement rests on: writing the head *)
(* of the queue moves it over the boundary between what is sent and what   *)
(* waits, and a new event goes behind both.                                *)
LEMMA MoveHead ==
  ASSUME NEW S, NEW s \in Seq(S), NEW q \in Seq(S), q # <<>>
  PROVE  /\ Append(s, Head(q)) \o Tail(q) = s \o q
         /\ Len(s) < Len(s \o q)
         /\ (s \o q)[Len(s) + 1] = Head(q)
  OBVIOUS

(* ... a new event stays behind all others. *)
LEMMA AppendBehind ==
  ASSUME NEW S, NEW s \in Seq(S), NEW q \in Seq(S), NEW e \in S
  PROVE  s \o Append(q, e) = Append(s \o q, e)
  OBVIOUS

(* Nothing is accepted or sent before run() starts. *)
LEMMA ChannelInit == Init => Channel!Init
  BY DEF Init, Channel!Init, Accepted, ChannelPhase

(* Every step maps to a step of the channel or to a stutter. *)
LEMMA ChannelStep ==
  ASSUME IInv, [Next]_vars
  PROVE  [Channel!Next]_(Channel!vars)
<1> USE DEF IInv, TypeOK, ClientOK, NoStopWhileConnecting, ConnectPoints
<1>1. ASSUME FireEvent PROVE Channel!Send
  <2>1. /\ wpc = "drain"
        /\ m_eventQueue # <<>>
        /\ sent' = Append(sent, Head(m_eventQueue))
        /\ m_eventQueue' = Tail(m_eventQueue)
        /\ UNCHANGED <<wpc, m_stopped>>
    BY <1>1 DEF FireEvent, workerVars
  <2>2. /\ Accepted' = Accepted
        /\ Len(sent) < Len(Accepted)
        /\ Accepted[Len(sent) + 1] = Head(m_eventQueue)
    BY <2>1, MoveHead DEF Accepted
  <2>3. ChannelPhase' = ChannelPhase /\ ChannelPhase # "closed"
    BY <2>1 DEF ChannelPhase
  <2>4. QED
    BY <2>1, <2>2, <2>3 DEF Channel!Send
<1>2. ASSUME GiveUp \/ Cleanup PROVE Channel!Close
  BY <1>2 DEF GiveUp, Cleanup, Goto, inputVars, Accepted, ChannelPhase,
              Channel!Close
<1>3. ASSUME StopLock PROVE [Channel!StopInput]_(Channel!vars)
  BY <1>3 DEF StopLock, workerVars, inputVars, Accepted, ChannelPhase,
              Channel!StopInput, Channel!vars
<1>4. ASSUME NEW e \in Events, Enqueue(e) PROVE Channel!Accept(e)
  <2>1. /\ ~m_stopped
        /\ m_eventQueue' = Append(m_eventQueue, e)
        /\ UNCHANGED <<wpc, m_stopped, sent>>
    BY <1>4 DEF Enqueue, workerVars
  <2>2. Accepted' = Append(Accepted, e)
    BY <2>1, AppendBehind DEF Accepted
  <2>3. ChannelPhase = "open" /\ ChannelPhase' = "open"
    BY <2>1 DEF ChannelPhase
  <2>4. QED
    BY <2>1, <2>2, <2>3 DEF Channel!Accept
<1> DEFINE Quiet == UNCHANGED <<m_eventQueue, sent, m_stopped>>
                    /\ (wpc' = "finished" <=> wpc = "finished")
<1>5. ASSUME Quiet PROVE UNCHANGED Channel!vars
  BY <1>5 DEF Accepted, ChannelPhase, Channel!vars
<1>6. ASSUME Connecting \/ AcceptServer, ~GiveUp PROVE Quiet
  BY <1>6 DEF Connecting, AcceptServer, LockMutex, SkipConnect, GetClient,
      Configure, OpenListenSocket, AbortListening, ConnectToRFBServer,
      Handshake, RequestPassword, PasswordAnswered, Authenticate, NewClient,
      InitFailed, RetryPassword, UnlockMutex, Goto, inputVars,
      connVars, dataVars
<1>7. ASSUME MessageLoop, ~FireEvent, ~Cleanup PROVE Quiet
  BY <1>7 DEF MessageLoop, EnterLoop, WaitForMessage, UpdateRectangle,
      SetImage, ImageDelivered, CutText, CutDelivered, MessageHandled,
      MessageFailed, Relock, QueueDrained, RelockExit, Goto, inputVars,
      connVars, dataVars
<1>8. ASSUME Gui, ~StopLock, ~\E e \in Events : Enqueue(e) PROVE Quiet
  BY <1>8 DEF Gui, Answer, StopTest, StopAbortListen, SetPassword,
      HandleSignal, DisconnectSignals, CheckOutputErrorMessage, workerVars,
      inputVars, connVars
<1>9. ASSUME UNCHANGED vars PROVE Quiet
  BY <1>9 DEF vars
<1>10. QED
  BY <1>1, <1>2, <1>3, <1>4, <1>5, <1>6, <1>7, <1>8, <1>9
     DEF Next, Worker, Ended, Connecting, MessageLoop, Channel!Next

(* Input events reach the server in order and once, none is accepted after *)
(* stop() and none is written after the client is gone.                    *)
THEOREM ImplementsChannel == Spec => ChannelSpec
<1>1. IInv /\ [Next]_vars => [Channel!Next]_(Channel!vars)
  BY ChannelStep
<1>2. QED
  BY ChannelInit, Invariance, <1>1, PTL DEF Spec, ChannelSpec, Channel!Spec

-----------------------------------------------------------------------------
(***************************************************************************)
(* VncSession.                                                             *)
(***************************************************************************)


-----------------------------------------------------------------------------
(* Every step of the session is a step of the thread or leaves it alone. *)

(* Handlers and the destructor enqueue only what the thread knows. *)
LEMMA InputStep ==
  ASSUME SessionIInv, TakeInput \/ UnpressModifiers
  PROVE  [Next]_vars
<1>1. ASSUME NEW e \in Events, Enqueue(e) PROVE Next
  BY <1>1 DEF Next, Gui
<1>2. CASE TakeInput
  BY <1>1, <1>2 DEF TakeInput, SessionIInv, InputOK
<1>3. CASE UnpressModifiers
  <2>1. "modRelease" \in Events
    BY <1>3, EventsAssumption DEF UnpressModifiers, SessionIInv, InputOK
  <2>2. QED
    BY <1>1, <1>3, <2>1 DEF UnpressModifiers
<1>4. QED
  BY <1>2, <1>3

(* All steps: each calls the thread as its most general client could. *)
LEMMA ContractStep ==
  ASSUME SessionIInv, [SessionNext]_allVars
  PROVE  [Next]_vars
<1>1. CASE UserStep
  <2>1. ASSUME NEW p \in Passwords, SetPassword(p) PROVE Next
    BY <2>1 DEF Next, Gui, Answer
  <2>2. QED
    BY <1>1, <2>1 DEF UserStep, UserInput, ClipboardChanged, DialogClosed,
       Destroy
<1>2. CASE SlotStep
  <2>1. ASSUME NEW p \in Passwords, SetPassword(p) PROVE Next
    BY <2>1 DEF Next, Gui, Answer
  <2>2. HandleSignal => Next
    BY DEF Next, Gui, Answer
  <2>3. QED
    BY <1>2, <2>1, <2>2 DEF SlotStep, UpdateImage, SetCut, KnownPassword,
       AskPassword
<1>3. CASE LockStep
  BY <1>3, InputStep DEF LockStep, StopThread, Next, Gui
<1>4. CASE ErrorTimer \/ ErrorTimerInDialog \/ ThreadFinished
  BY <1>4 DEF ErrorTimer, ErrorTimerInDialog, ThreadFinished, Next, Gui
<1>5. CASE DisconnectThread \/ StartQuitting \/ IsQuitting \/ AbortListen
  BY <1>5 DEF DisconnectThread, StartQuitting, IsQuitting, AbortListen, Next,
     Gui
<1>6. CASE FirstWait \/ EventsProcessed \/ SecondWait \/ JoinThread
  BY <1>6 DEF FirstWait, EventsProcessed, SecondWait, JoinThread
<1>7. CASE WorkerStep
  BY <1>7 DEF WorkerStep, InProgram, Next
<1>8. CASE SessionEnded \/ UNCHANGED allVars
  BY <1>8 DEF SessionEnded, allVars
<1>9. QED
  BY <1>1, <1>2, <1>3, <1>4, <1>5, <1>6, <1>7, <1>8 DEF SessionNext, GuiStep

-----------------------------------------------------------------------------
(* SessionIInv is inductive. *)

(* connectToHost() establishes it. *)
LEMMA SessionInitInv == SessionInit => SessionIInv
<1> SUFFICES ASSUME SessionInit PROVE SessionIInv
  OBVIOUS
<1>1. IInv
  BY InitInv DEF SessionInit
<1>2. stopCall = "idle" /\ signalsConnected
  BY DEF SessionInit, Init
<1>3. QED
  BY <1>1, <1>2 DEF SessionInit, SessionIInv, InputOK, StopCallOK, QuitOK,
     DestructorOK, DestructorPoints, DialogHasRequest

(* What the steps of the worker leave alone, and how they use the signals. *)
LEMMA WorkerFrame ==
  ASSUME IInv, Worker
  PROVE  /\ UNCHANGED <<stopCall, signalsConnected>>
         /\ m_stopped => m_stopped'
         /\ wpc = "emitPassword" /\ emission = "passwordRequest" =>
              wpc' = "emitPassword" /\ emission' = "passwordRequest"
         /\ ~signalsConnected /\ emission = "none" => emission' = "none"
<1> USE DEF connVars, dataVars, guiVars, Goto, IInv, TypeOK
<1>1. CASE Connecting \/ AcceptServer
  BY <1>1 DEF Connecting, AcceptServer, LockMutex, SkipConnect, GetClient,
     Configure, OpenListenSocket, AbortListening, ConnectToRFBServer,
     Handshake, RequestPassword, PasswordAnswered, Authenticate, NewClient,
     InitFailed, RetryPassword, GiveUp, UnlockMutex
<1>2. CASE MessageLoop
  BY <1>2 DEF MessageLoop, EnterLoop, WaitForMessage, UpdateRectangle,
     SetImage, ImageDelivered, CutText, CutDelivered, MessageHandled,
     MessageFailed, Relock, FireEvent, QueueDrained, RelockExit, Cleanup,
     workerVars
<1>3. QED
  BY <1>1, <1>2 DEF Worker

(* One step for each action of the GUI thread, one for the worker. *)
LEMMA SessionNextInv ==
  SessionIInv /\ [SessionNext]_allVars => SessionIInv'
<1> SUFFICES ASSUME SessionIInv, [SessionNext]_allVars PROVE SessionIInv'
  OBVIOUS
<1>0. IInv'
  BY ContractStep, NextInv DEF SessionIInv
<1> DEFINE Orders == InputOK /\ StopCallOK /\ QuitOK /\ DestructorOK
                     /\ DialogHasRequest
<1> SUFFICES Orders'
  BY <1>0 DEF SessionIInv
<1> USE DEF SessionIInv, InputOK, StopCallOK, QuitOK, DestructorOK,
            DestructorPoints, DialogHasRequest, viewVars, guiVars, workerVars,
            connVars
<1>1. CASE \E e \in Events : UserInput(e)
  <2>1. PICK e \in Events : UserInput(e)
    BY <1>1
  <2>2. m_mods' => m_mods \/ (e = "modPress" /\ m_initDone)
    BY <2>1, Zenon DEF UserInput
  <2>3. /\ gpc = "eventLoop" /\ gpc' = "takeInput" /\ input' = e
        /\ ~(m_viewOnly /\ m_initDone)
        /\ UNCHANGED <<vars, quitFrom, m_viewOnly, m_quitFlag, m_initDone>>
    BY <2>1 DEF UserInput
  <2>4. QED
    BY <2>2, <2>3 DEF vars
<1>2. CASE ClipboardChanged
  BY <1>2 DEF ClipboardChanged, vars
<1>3. CASE DialogClosed
  BY <1>3 DEF DialogClosed, SetPassword
<1>4. CASE Destroy
  BY <1>4 DEF Destroy, vars
<1>5. CASE UpdateImage
  BY <1>5 DEF UpdateImage, HandleSignal, InEventLoop
<1>6. CASE SetCut
  BY <1>6 DEF SetCut, HandleSignal, InEventLoop
<1>7. CASE KnownPassword
  BY <1>7 DEF KnownPassword, SetPassword
<1>8. CASE AskPassword
  BY <1>8 DEF AskPassword, vars, IInv, EmissionOK, NoStopWhileConnecting,
     ConnectPoints
<1>9. CASE TakeInput
  BY <1>9 DEF TakeInput, Enqueue, vars
<1>10. CASE UnpressModifiers
  BY <1>10 DEF UnpressModifiers, Enqueue, vars
<1>11. CASE StopThread
  BY <1>11 DEF StopThread, StopLock
<1>12. CASE ErrorTimer
  BY <1>12 DEF ErrorTimer, CheckOutputErrorMessage
<1>13. CASE ErrorTimerInDialog
  BY <1>13 DEF ErrorTimerInDialog, CheckOutputErrorMessage, sessionVars
<1>14. CASE ThreadFinished
  BY <1>14 DEF ThreadFinished, vars
<1>15. CASE DisconnectThread
  BY <1>15 DEF DisconnectThread, DisconnectSignals
<1>16. CASE StartQuitting
  BY <1>16 DEF StartQuitting, StopTest, vars
<1>17. CASE IsQuitting
  BY <1>17 DEF IsQuitting, vars
<1>18. CASE AbortListen
  BY <1>18 DEF AbortListen, StopAbortListen, sessionVars
<1>19. CASE FirstWait
  BY <1>19 DEF FirstWait, QuitDone, vars
<1>20. CASE EventsProcessed
  BY <1>20 DEF EventsProcessed, vars
<1>21. CASE SecondWait
  BY <1>21 DEF SecondWait, QuitDone, vars
<1>22. CASE JoinThread
  BY <1>22 DEF JoinThread, vars
<1>23. CASE WorkerStep
  BY <1>23, WorkerFrame DEF WorkerStep, InProgram, sessionVars
<1>24. CASE SessionEnded \/ UNCHANGED allVars
  BY <1>24 DEF SessionEnded, allVars, vars, sessionVars
<1>25. QED
  BY <1>1, <1>2, <1>3, <1>4, <1>5, <1>6, <1>7, <1>8, <1>9, <1>10, <1>11,
     <1>12, <1>13, <1>14, <1>15, <1>16, <1>17, <1>18, <1>19, <1>20, <1>21,
     <1>22, <1>23, <1>24
     DEF SessionNext, UserStep, GuiStep, SlotStep, LockStep

(* The GUI thread and the worker keep it in every interleaving: what holds *)
(* while startQuitting(), stop() and the destructor are under way.         *)
THEOREM SessionInvariance == SessionSpec => []SessionIInv
  BY SessionInitInv, SessionNextInv, PTL DEF SessionSpec

-----------------------------------------------------------------------------
(* What follows from it. *)

(* The steps of a session are steps of VncClientThread or leave it alone,  *)
(* which lifts the results about the thread to the session.                *)
LEMMA SessionIsThread == SessionSpec => Spec
<1>1. SessionInit => Init
  BY DEF SessionInit
<1>2. SessionIInv /\ [SessionNext]_allVars => [Next]_vars
  BY ContractStep
<1>3. QED
  BY SessionInvariance, <1>1, <1>2, PTL DEF SessionSpec, Spec

(* Hence, in a session too, input reaches the server in order and once.    *)
COROLLARY SessionImplementsChannel == SessionSpec => ChannelSpec
  BY SessionIsThread, ImplementsChannel, PTL

(* An open password dialog has a worker waiting for its answer, and the    *)
(* view is not being taken down around it.                                 *)
THEOREM DialogIsAnswered == SessionSpec => []DialogHasRequest
<1>1. SessionIInv => DialogHasRequest
  BY DEF SessionIInv
<1>2. QED
  BY SessionInvariance, <1>1, PTL

(* The destructor's startQuitting() leaves no call of the worker posted.   *)
THEOREM JoinIsServed == SessionSpec => JoinNeverStarves
<1>1. ASSUME SessionIInv, [SessionNext]_allVars,
             gpc \in {"wait1", "wait2"}, gpc' = "joinThread"
      PROVE  emission' = "none"
  <2>1. FirstWait \/ SecondWait
    BY <1>1 DEF SessionNext, UserStep, UserInput, ClipboardChanged,
       DialogClosed, Destroy, GuiStep, SlotStep, UpdateImage, SetCut,
       KnownPassword, AskPassword, InEventLoop, LockStep, TakeInput,
       UnpressModifiers, StopThread, ErrorTimer, ErrorTimerInDialog,
       ThreadFinished, DisconnectThread, StartQuitting, IsQuitting,
       AbortListen, EventsProcessed, JoinThread, WorkerStep, InProgram,
       SessionEnded, sessionVars, allVars
  <2>2. CASE FirstWait
    <3>1. wpc = "finished" /\ UNCHANGED vars
      BY <1>1, <2>2 DEF FirstWait
    <3>2. emission = "none"
      BY <1>1, <3>1 DEF SessionIInv, IInv, TypeOK, EmissionOK, Emissions
    <3>3. QED
      BY <3>1, <3>2 DEF vars
  <2>3. CASE SecondWait
    <3>1. gpc = "wait2" /\ quitFrom = "destructor" /\ UNCHANGED vars
      BY <1>1, <2>3 DEF SecondWait, QuitDone
    <3>2. QED
      BY <1>1, <3>1 DEF SessionIInv, DestructorOK, vars
  <2>4. QED
    BY <2>1, <2>2, <2>3
<1>2. QED
  BY <1>1, SessionInvariance, PTL DEF SessionSpec, JoinNeverStarves

(* The only steps that let the queue take an event, and the event. *)
LEMMA AcceptingStep ==
  ASSUME SessionIInv, [SessionNext]_allVars
  PROVE  \/ Accepted' = Accepted
         \/ TakeInput /\ Accepted' = Append(Accepted, input)
         \/ UnpressModifiers /\ Accepted' = Append(Accepted, "modRelease")
<1> USE DEF SessionIInv, IInv, TypeOK
<1>1. ASSUME NEW e \in Events, Enqueue(e)
      PROVE  Accepted' = Append(Accepted, e)
  BY <1>1, AppendBehind DEF Enqueue, Accepted
<1>2. ASSUME UNCHANGED <<m_eventQueue, sent>>
      PROVE  Accepted' = Accepted
  BY <1>2 DEF Accepted
<1>3. CASE TakeInput
  BY <1>1, <1>2, <1>3 DEF TakeInput, InputOK, vars
<1>4. CASE UnpressModifiers
  <2>1. "modRelease" \in Events
    BY <1>4, EventsAssumption DEF UnpressModifiers, InputOK
  <2>2. QED
    BY <1>1, <1>2, <1>4, <2>1 DEF UnpressModifiers, vars
<1>5. CASE WorkerStep
  <2>1. CASE FireEvent
    BY <2>1, MoveHead DEF FireEvent, Accepted
  <2>2. ASSUME Worker, ~FireEvent PROVE UNCHANGED <<m_eventQueue, sent>>
    BY <2>2 DEF Worker, Connecting, AcceptServer, LockMutex, SkipConnect,
       GetClient, Configure, OpenListenSocket, AbortListening,
       ConnectToRFBServer, Handshake, RequestPassword, PasswordAnswered,
       Authenticate, NewClient, InitFailed, RetryPassword, GiveUp,
       UnlockMutex, MessageLoop, EnterLoop, WaitForMessage, UpdateRectangle,
       SetImage, ImageDelivered, CutText, CutDelivered, MessageHandled,
       MessageFailed, Relock, QueueDrained, RelockExit, Cleanup, inputVars,
       connVars, dataVars
  <2>3. QED
    BY <1>2, <1>5, <2>1, <2>2 DEF WorkerStep, InProgram
<1>6. CASE UserStep \/ SlotStep
  BY <1>2, <1>6 DEF UserStep, UserInput, ClipboardChanged, DialogClosed,
     Destroy, SlotStep, UpdateImage, SetCut, KnownPassword, AskPassword,
     HandleSignal, SetPassword, inputVars, connVars, vars
<1>7. CASE StopThread \/ ErrorTimer \/ ErrorTimerInDialog \/ ThreadFinished
           \/ DisconnectThread \/ StartQuitting \/ IsQuitting \/ AbortListen
  BY <1>2, <1>7 DEF StopThread, StopLock, ErrorTimer, ErrorTimerInDialog,
     CheckOutputErrorMessage, ThreadFinished, DisconnectThread,
     DisconnectSignals, StartQuitting, StopTest, IsQuitting, AbortListen,
     StopAbortListen, inputVars, connVars, vars
<1>8. CASE FirstWait \/ EventsProcessed \/ SecondWait \/ JoinThread
           \/ SessionEnded \/ UNCHANGED allVars
  BY <1>2, <1>8 DEF FirstWait, EventsProcessed, SecondWait, JoinThread,
     SessionEnded, allVars, vars
<1>9. QED
  BY <1>3, <1>4, <1>5, <1>6, <1>7, <1>8 DEF SessionNext, GuiStep, LockStep

(* Behind the event filter a view-only connection takes no key or pointer  *)
(* input, not even input that was waiting for the mutex.                   *)
THEOREM ViewOnlyIsKept == SessionSpec => ViewOnlyAfterInit
<1>1. ASSUME SessionIInv, [SessionNext]_allVars,
             m_viewOnly, m_initDone, Len(Accepted') > Len(Accepted)
      PROVE  Accepted'[Len(Accepted')] = "cut"
  <2>1. Accepted \in Seq(Events)
    BY <1>1 DEF SessionIInv, IInv, TypeOK, Accepted
  <2>2. Len(Accepted) \in Nat
    BY <2>1
  <2>3. CASE TakeInput /\ Accepted' = Append(Accepted, input)
    <3>1. input = "cut" /\ input \in Events
      BY <1>1, <2>3 DEF TakeInput, SessionIInv, InputOK
    <3>2. QED
      BY <2>1, <2>3, <3>1
  <2>4. ~UnpressModifiers
    BY <1>1 DEF UnpressModifiers, SessionIInv, InputOK
  <2>5. QED
    BY <1>1, <2>2, <2>3, <2>4, AcceptingStep
<1>2. QED
  BY <1>1, SessionInvariance, PTL DEF SessionSpec, ViewOnlyAfterInit
=============================================================================
