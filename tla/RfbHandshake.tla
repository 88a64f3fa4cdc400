---------------------------- MODULE RfbHandshake ----------------------------
(***************************************************************************)
(* The start of an RFB connection: InitialiseRFBConnection() of            *)
(* libvncclient against the states of a client in libvncserver (auth.c,    *)
(* rfbserver.c), and the rule for sharing the desktop that                 *)
(* rfbProcessClientInitMessage() applies while other clients connect.      *)
(*                                                                         *)
(* The server runs a thread for each client (rfbRunEventLoop() with        *)
(* runInBackground).  A message is a record; the bytes that the reader     *)
(* does not expect make it misread the connection.                         *)
(***************************************************************************)
EXTENDS Integers, Sequences

CONSTANTS
  Viewers,       \* connections
  Minors         \* protocolMinorVersion of the server

rfbProtocolMinorVersion == 8

ASSUME HandshakeAssumption == Minors \subseteq Nat

VARIABLES
  screenMinor, authPasswdData,       \* the server's settings
  neverShared, alwaysShared, dontDisconnect,
  state,         \* cl->state; "none" before the server accepts
  open,          \* cl->sock # -1
  agreed,        \* cl->protocolMinorVersion
  others,        \* clients that a thread has still to compare itself with
  settled,       \* clients whose thread has finished that
  viewer,        \* where InitialiseRFBConnection() is
  minor,         \* client->minor
  given,         \* the password that the viewer encrypted the challenge with
  up, down       \* messages in flight

sharingVars == <<screenMinor, authPasswdData, neverShared, alwaysShared,
                 dontDisconnect>>
clVars == <<state, open, agreed, others, settled>>
viewerVars == <<viewer, minor, given>>
handshakeVars == <<sharingVars, clVars, viewerVars, up, down>>

Passwords == {"none", "wrong", "right"}
States == {"none", "RFB_PROTOCOL_VERSION", "RFB_SECURITY_TYPE",
           "RFB_AUTHENTICATION", "RFB_INITIALISATION", "RFB_NORMAL"}
Reading == {"version", "security", "challenge", "result", "reason",
            "serverInit"}
Message(kind, value) == [kind |-> kind, value |-> value]

HandshakeTypeOK ==
  /\ screenMinor \in Minors
  /\ authPasswdData \in BOOLEAN
  /\ neverShared \in BOOLEAN /\ alwaysShared \in BOOLEAN
  /\ dontDisconnect \in BOOLEAN
  /\ state \in [Viewers -> States]
  /\ open \in [Viewers -> BOOLEAN]
  /\ agreed \in [Viewers -> Minors \cup {rfbProtocolMinorVersion}]
  /\ others \in [Viewers -> SUBSET Viewers]
  /\ settled \subseteq Viewers
  /\ viewer \in [Viewers -> Reading \cup {"start", "connected", "failed",
                                          "misread"}]
  /\ minor \in [Viewers -> Minors \cup {rfbProtocolMinorVersion}]
  /\ given \in [Viewers -> Passwords]
  /\ \A v \in Viewers : \A i \in DOMAIN up[v] :
       up[v][i].kind \in {"version", "type", "response", "clientInit"}
  /\ \A v \in Viewers : \A i \in DOMAIN down[v] :
       down[v][i].kind \in {"version", "types", "type32", "challenge",
                            "result", "reason", "serverInit"}

HandshakeInit ==
  /\ screenMinor \in Minors
  /\ authPasswdData \in BOOLEAN
  /\ neverShared \in BOOLEAN /\ dontDisconnect \in BOOLEAN
  /\ alwaysShared \in BOOLEAN /\ (neverShared => ~alwaysShared)
  /\ state = [v \in Viewers |-> "none"]
  /\ open = [v \in Viewers |-> FALSE]
  /\ agreed = [v \in Viewers |-> screenMinor]
  /\ others = [v \in Viewers |-> {}]
  /\ settled = {}
  /\ viewer = [v \in Viewers |-> "start"]
  /\ minor = [v \in Viewers |-> screenMinor]
  /\ given = [v \in Viewers |-> "none"]
  /\ up = [v \in Viewers |-> <<>>] /\ down = [v \in Viewers |-> <<>>]

-----------------------------------------------------------------------------
(* Plausible mistakes in the definitions below. *)

(* The result of a connection without a password, one version too early. *)
NoneResultTooEarly(m) == IF m >= 7 THEN <<Message("result", "ok")>> ELSE <<>>

(* Sharing that only the client decides. *)
ExclusiveOnRequest(shared) == ~alwaysShared /\ ~shared

-----------------------------------------------------------------------------
(* The viewer: InitialiseRFBConnection(). *)

(* The next message, if the viewer expects it. *)
Reads(v, phase, kind) ==
  /\ viewer[v] = phase
  /\ down[v] # <<>> /\ Head(down[v]).kind = kind
  /\ down' = [down EXCEPT ![v] = Tail(@)]

Writes(v, messages) == up' = [up EXCEPT ![v] = @ \o messages]

Becomes(v, phase) == viewer' = [viewer EXCEPT ![v] = phase]

Dial(v) ==
  /\ viewer[v] = "start"
  /\ Becomes(v, "version")
  /\ UNCHANGED <<sharingVars, clVars, minor, given, up, down>>

ReadVersion(v) ==
  /\ Reads(v, "version", "version")
  /\ minor' = [minor EXCEPT ![v] =
       IF Head(down[v]).value > rfbProtocolMinorVersion
         THEN rfbProtocolMinorVersion ELSE Head(down[v]).value]
  /\ Writes(v, <<Message("version", minor'[v])>>)
  /\ Becomes(v, "security")
  /\ UNCHANGED <<sharingVars, clVars, given>>

(* After the security type is known. *)
AfterSecurity(v, secType) ==
  IF secType = "VncAuth" THEN "challenge"
  ELSE IF minor[v] > 7 THEN "result" ELSE "serverInit"

(* What the viewer writes before it waits for the server's parameters;     *)
(* shareDesktop is up to the application.                                  *)
ClientInit(phase) ==
  IF phase = "serverInit" THEN {<<Message("clientInit", s)>> : s \in BOOLEAN}
  ELSE {<<>>}

ChooseSecurityType(v) ==
  /\ minor[v] > 6
  /\ Reads(v, "security", "types")
  /\ LET secType == Head(down[v]).value
         phase   == AfterSecurity(v, secType)
     IN /\ Becomes(v, phase)
        /\ \E init \in ClientInit(phase) :
             Writes(v, <<Message("type", secType)>> \o init)
  /\ UNCHANGED <<sharingVars, clVars, minor, given>>

ReadSecurityType(v) ==
  /\ minor[v] <= 6
  /\ Reads(v, "security", "type32")
  /\ LET phase == AfterSecurity(v, Head(down[v]).value)
     IN /\ Becomes(v, phase)
        /\ \E init \in ClientInit(phase) : Writes(v, init)
  /\ UNCHANGED <<sharingVars, clVars, minor, given>>

(* Without a password the viewer gives up. *)
AnswerChallenge(v) ==
  /\ Reads(v, "challenge", "challenge")
  /\ \E p \in Passwords :
       /\ given' = [given EXCEPT ![v] = p]
       /\ IF p = "none"
            THEN Becomes(v, "failed") /\ UNCHANGED up
            ELSE Becomes(v, "result") /\ Writes(v, <<Message("response", p)>>)
  /\ UNCHANGED <<sharingVars, clVars, minor>>

(* rfbHandleAuthResult(). *)
ReadResult(v) ==
  /\ Reads(v, "result", "result")
  /\ IF Head(down[v]).value = "ok"
       THEN /\ Becomes(v, "serverInit")
            /\ \E init \in ClientInit("serverInit") : Writes(v, init)
       ELSE /\ Becomes(v, IF minor[v] > 7 THEN "reason" ELSE "failed")
            /\ UNCHANGED up
  /\ UNCHANGED <<sharingVars, clVars, minor, given>>

ReadReason(v) ==
  /\ Reads(v, "reason", "reason")
  /\ Becomes(v, "failed")
  /\ UNCHANGED <<sharingVars, clVars, minor, given, up>>

ReadServerInit(v) ==
  /\ Reads(v, "serverInit", "serverInit")
  /\ Becomes(v, "connected")
  /\ UNCHANGED <<sharingVars, clVars, minor, given, up>>

(* Any other message is taken for what the viewer expects. *)
Expects(v) ==
  CASE viewer[v] = "security" -> IF minor[v] > 6 THEN "types" ELSE "type32"
    [] OTHER -> viewer[v]

Misread(v) ==
  /\ viewer[v] \in Reading
  /\ down[v] # <<>> /\ Head(down[v]).kind # Expects(v)
  /\ Becomes(v, "misread")
  /\ UNCHANGED <<sharingVars, clVars, minor, given, up, down>>

(* The server has closed the socket; what was in flight may be lost. *)
ReadFails(v) ==
  /\ viewer[v] \in Reading
  /\ state[v] # "none" /\ ~open[v]
  /\ Becomes(v, "failed")
  /\ UNCHANGED <<sharingVars, clVars, minor, given, up, down>>

(* The user closes a connection. *)
Hangup(v) ==
  /\ viewer[v] = "connected"
  /\ Becomes(v, "failed")
  /\ UNCHANGED <<sharingVars, clVars, minor, given, up, down>>

-----------------------------------------------------------------------------
(* The server. *)

(* rfbNewTCPOrUDPClient(): the version is sent at once. *)
NewTCPClient(v) ==
  /\ viewer[v] # "start" /\ state[v] = "none"
  /\ state' = [state EXCEPT ![v] = "RFB_PROTOCOL_VERSION"]
  /\ open' = [open EXCEPT ![v] = TRUE]
  /\ down' = [down EXCEPT ![v] = <<Message("version", screenMinor)>>]
  /\ UNCHANGED <<sharingVars, agreed, others, settled, viewerVars, up>>

(* The thread of a client takes a message in one of the states. *)
Takes(v, s) ==
  /\ open[v] /\ state[v] = s /\ up[v] # <<>>
  /\ up' = [up EXCEPT ![v] = Tail(@)]

Sends(v, messages) == down' = [down EXCEPT ![v] = @ \o messages]
Enters(v, s) == state' = [state EXCEPT ![v] = s]

(* rfbVncAuthNone(). *)
NoneResult(m) == IF m > 7 THEN <<Message("result", "ok")>> ELSE <<>>

SecurityType == IF authPasswdData THEN "VncAuth" ELSE "None"

(* rfbProcessClientProtocolVersion() with rfbAuthNewClient(). *)
ProcessClientProtocolVersion(v) ==
  /\ Takes(v, "RFB_PROTOCOL_VERSION")
  /\ agreed' = [agreed EXCEPT ![v] = Head(up[v]).value]
  /\ CASE agreed'[v] >= 7 ->
            /\ Sends(v, <<Message("types", SecurityType)>>)
            /\ Enters(v, "RFB_SECURITY_TYPE")
       [] agreed'[v] < 7 /\ authPasswdData ->
            /\ Sends(v, <<Message("type32", SecurityType),
                          Message("challenge", 0)>>)
            /\ Enters(v, "RFB_AUTHENTICATION")
       [] OTHER ->
            /\ Sends(v, <<Message("type32", SecurityType)>>)
            /\ Enters(v, "RFB_INITIALISATION")
  /\ UNCHANGED <<sharingVars, open, others, settled, viewerVars>>

(* rfbProcessClientSecurityType() and the handler of the type. *)
ProcessClientSecurityType(v) ==
  /\ Takes(v, "RFB_SECURITY_TYPE")
  /\ IF Head(up[v]).value # SecurityType
       THEN /\ open' = [open EXCEPT ![v] = FALSE]
            /\ UNCHANGED <<state, down>>
       ELSE /\ IF authPasswdData
                 THEN /\ Sends(v, <<Message("challenge", 0)>>)
                      /\ Enters(v, "RFB_AUTHENTICATION")
                 ELSE /\ Sends(v, NoneResult(agreed[v]))
                      /\ Enters(v, "RFB_INITIALISATION")
            /\ UNCHANGED open
  /\ UNCHANGED <<sharingVars, agreed, others, settled, viewerVars>>

Refusal(m) ==
  IF m > 7 THEN <<Message("result", "failed"), Message("reason", 0)>>
  ELSE <<Message("result", "failed")>>

(* rfbAuthProcessClientMessage(). *)
AuthProcessClientMessage(v) ==
  /\ Takes(v, "RFB_AUTHENTICATION")
  /\ IF Head(up[v]).value = "right"
       THEN /\ Sends(v, <<Message("result", "ok")>>)
            /\ Enters(v, "RFB_INITIALISATION")
            /\ UNCHANGED open
       ELSE /\ Sends(v, Refusal(agreed[v]))
            /\ open' = [open EXCEPT ![v] = FALSE]
            /\ UNCHANGED state
  /\ UNCHANGED <<sharingVars, agreed, others, settled, viewerVars>>

Exclusive(shared) == neverShared \/ (~alwaysShared /\ ~shared)

(* rfbProcessClientInitMessage(): the reply and the new state; an iterator *)
(* over the clients follows if the desktop is not shared.                  *)
ProcessClientInitMessage(v) ==
  /\ Takes(v, "RFB_INITIALISATION")
  /\ Sends(v, <<Message("serverInit", 0)>>)
  /\ Enters(v, "RFB_NORMAL")
  /\ IF Exclusive(Head(up[v]).value)
       THEN /\ others' = [others EXCEPT ![v] =
                            {o \in Viewers \ {v} : state[o] # "none"}]
            /\ settled' = IF others'[v] = {} THEN settled \cup {v} ELSE settled
       ELSE /\ settled' = settled \cup {v}
            /\ UNCHANGED others
  /\ UNCHANGED <<sharingVars, open, agreed, viewerVars>>

(* The iterator's next client.  It passes over the closed ones. *)
CompareWith(v, o) ==
  LET meets == open[o] /\ state[o] = "RFB_NORMAL"
  IN /\ o \in others[v]
     /\ IF meets /\ dontDisconnect
          THEN /\ others' = [others EXCEPT ![v] = {}]
               /\ open' = [open EXCEPT ![v] = FALSE]
          ELSE /\ others' = [others EXCEPT ![v] = @ \ {o}]
               /\ open' = [open EXCEPT ![o] = @ /\ ~meets]
     /\ settled' = IF others'[v] = {} THEN settled \cup {v} ELSE settled
     /\ UNCHANGED <<sharingVars, state, agreed, viewerVars, up, down>>

(* The viewer has closed its end: the read of 0 bytes closes the client. *)
ClientGone(v) ==
  /\ open[v] /\ others[v] = {} /\ up[v] = <<>>
  /\ viewer[v] = "failed"
  /\ open' = [open EXCEPT ![v] = FALSE]
  /\ UNCHANGED <<sharingVars, state, agreed, others, settled, viewerVars, up,
                 down>>

ViewerStep(v) ==
  \/ ReadVersion(v) \/ ChooseSecurityType(v) \/ ReadSecurityType(v)
  \/ AnswerChallenge(v) \/ ReadResult(v) \/ ReadReason(v) \/ ReadServerInit(v)
  \/ ReadFails(v)

ServerThread(v) ==
  \/ NewTCPClient(v) \/ ProcessClientProtocolVersion(v)
  \/ ProcessClientSecurityType(v) \/ AuthProcessClientMessage(v)
  \/ ProcessClientInitMessage(v)
  \/ \E o \in Viewers : CompareWith(v, o)
  \/ ClientGone(v)

HandshakeNext ==
  \E v \in Viewers :
    \/ Dial(v) \/ ViewerStep(v) \/ Misread(v) \/ Hangup(v)
    \/ ServerThread(v)

HandshakeSpec == HandshakeInit /\ [][HandshakeNext]_handshakeVars

-----------------------------------------------------------------------------
(* Client and server agree on every byte of the handshake whatever version *)
(* the server offers: the optional security result and the optional reason *)
(* are read if and only if they are sent, and a viewer that believes it is *)
(* connected was let in, with the right password if there is one.  Neither *)
(* side waits for the other: as long as the viewer has to read, something  *)
(* is on its way in one of the directions, or the server has not yet       *)
(* accepted or has closed the connection.                                  *)
HandshakeAgrees ==
  \A v \in Viewers :
    /\ viewer[v] # "misread"
    /\ viewer[v] = "connected" =>
         /\ state[v] = "RFB_NORMAL"
         /\ agreed[v] = minor[v]
         /\ authPasswdData => given[v] = "right"
    /\ viewer[v] \in Reading =>
         \/ down[v] # <<>> \/ up[v] # <<>>
         \/ state[v] = "none" \/ ~open[v]

(* A desktop that is never shared has one client: however the threads of   *)
(* two clients overlap in rfbProcessClientInitMessage(), at most one       *)
(* client that has compared itself with the others stays open.  (Both may  *)
(* close each other.)                                                      *)
NeverSharedIsExclusive ==
  neverShared =>
    \A v, w \in settled :
      open[v] /\ open[w] /\ state[v] = "RFB_NORMAL"
              /\ state[w] = "RFB_NORMAL" => v = w
=============================================================================
