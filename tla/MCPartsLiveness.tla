-------------------------- MODULE MCPartsLiveness --------------------------
(***************************************************************************)
(* The parts that the user, timers and threads drive, checked in one run:  *)
(* the initial state chooses a part, and only that part takes steps.  They *)
(* share no state.                                                         *)
(***************************************************************************)
EXTENDS PointerInput, KeyboardInput, FrameBuffer, MainWindow, RfbUpdates,
        ServerClients, RfbSockets

MCCombinations == {<<"Alt_L">>, <<"Super_L">>, <<"x">>,
                   <<"Control_L", "Alt_L", "x">>}
MCShifts == {-1, 1}

VARIABLE part
processVars == <<part, pointerVars, keyboardVars, frameVars, mainVars,
                 updateVars, clientsVars, socketVars>>

(* Only the chosen part starts in each of its initial states; the first   *)
(* screen has the first of the colours, which are alike.                   *)
LivenessInit ==
  /\ part \in {"pointer", "keyboard", "frame", "main", "updates", "clients",
               "sockets"}
  /\ PointerInit /\ KeyboardInit /\ FrameInit /\ MainInit
  /\ UpdatesInit /\ ClientsInit /\ SocketsInit
  /\ screen[0] = 1
  /\ part # "updates" => screen = [p \in Pixels(1) |-> 1]

Only(name) == part = name /\ UNCHANGED part

inputVars == <<pointerVars, keyboardVars>>
windowVars == <<frameVars, mainVars>>
networkVars == <<updateVars, clientsVars, socketVars>>

LivenessNext ==
  \/ /\ Only("pointer") /\ PointerNext
     /\ UNCHANGED <<keyboardVars, windowVars, networkVars>>
  \/ /\ Only("keyboard") /\ KeyboardNext
     /\ UNCHANGED <<pointerVars, windowVars, networkVars>>
  \/ /\ Only("frame") /\ FrameNext
     /\ UNCHANGED <<inputVars, mainVars, networkVars>>
  \/ /\ Only("main") /\ MainNext
     /\ UNCHANGED <<inputVars, frameVars, networkVars>>
  \/ /\ Only("updates") /\ UpdatesNext
     /\ UNCHANGED <<inputVars, windowVars, clientsVars, socketVars>>
  \/ /\ Only("clients") /\ ClientsNext
     /\ UNCHANGED <<inputVars, windowVars, updateVars, socketVars>>
  \/ /\ Only("sockets") /\ SocketsNext
     /\ UNCHANGED <<inputVars, windowVars, updateVars, clientsVars>>

(* The fairness of the parts: time passes and the event loop runs the      *)
(* timers that are due; every process that can go on does.                 *)
LivenessFairness ==
  /\ WF_pointerVars(Only("pointer") /\ Tick)
  /\ WF_pointerVars(Only("pointer") /\ TimerFires)
  /\ WF_updateVars(Only("updates") /\ ServerStep)
  /\ WF_updateVars(Only("updates") /\ ClientStep)
  /\ \A c \in Clients :
       /\ SF_clientsVars(Only("clients") /\ InputThread(c))
       /\ WF_clientsVars(Only("clients") /\ OutputThread(c))
  /\ \A w \in Walkers : WF_clientsVars(Only("clients") /\ WalkOn(w))
  /\ \A w \in Writers : WF_socketVars(Only("sockets") /\ WriterStep(w))
  /\ WF_socketVars(Only("sockets") /\ InputReads)
  /\ WF_socketVars(Only("sockets") /\ ViewerGoesOn)

LivenessSpec == LivenessInit /\ [][LivenessNext]_processVars /\ LivenessFairness

(* ScreenConverges: when the application stops drawing, the client comes   *)
(* to show what the server does.                                           *)
UpdatesConverge == part = "updates" => ScreenConverges
=============================================================================
