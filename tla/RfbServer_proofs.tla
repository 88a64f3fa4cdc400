---------------------------- MODULE RfbServer_proofs ------------------------
(***************************************************************************)
(* What the server of the library promises, for any number of viewers,     *)
(* clients, threads and files.                                             *)
(*   RfbHandshake        a client and the server agree on the handshake,   *)
(*                       and a desktop that is never shared has one client;*)
(*   ServerClients       a client that a thread uses is not freed;         *)
(*   RfbCursor           no cursor is left behind in a client's picture;   *)
(*   TightFileTransfer   what a client downloads and uploads is whole, and *)
(*                       nothing is transferred without permission;        *)
(*   UltraFileTransfer   so is what is transferred with UltraVNC's         *)
(*                       messages.                                         *)
(***************************************************************************)
EXTENDS RfbHandshake, ServerClients, RfbCursor, TightFileTransfer,
        UltraFileTransfer, SequenceTheorems, FiniteSetTheorems, TLAPS

(***************************************************************************)
(* RfbHandshake: sharing, then the agreement of both sides.                *)
(***************************************************************************)
ClientsTyped ==
  /\ state \in [Viewers -> States]
  /\ open \in [Viewers -> BOOLEAN]
  /\ others \in [Viewers -> SUBSET Viewers]
  /\ settled \subseteq Viewers

(* A thread compares only after its client has become a normal one, and is *)
(* settled when nobody is left.                                            *)
Compares ==
  \A v \in Viewers :
    /\ v \in settled => others[v] = {} /\ state[v] = "RFB_NORMAL"
    /\ others[v] # {} => state[v] = "RFB_NORMAL"

(* Of two normal clients that are open, the thread of one has the other    *)
(* still before it: the later of the two has seen the earlier.             *)
OneSeesTheOther ==
  neverShared =>
    \A v, w \in Viewers :
      \/ v = w
      \/ ~open[v] \/ ~open[w]
      \/ state[v] # "RFB_NORMAL" \/ state[w] # "RFB_NORMAL"
      \/ w \in others[v] \/ v \in others[w]

SharingInv == ClientsTyped /\ Compares /\ OneSeesTheOther

(* Steps that make no client normal and open no normal client. *)
LEMMA NoNewNormal ==
  ASSUME SharingInv,
         UNCHANGED <<neverShared, others, settled>>,
         state' \in [Viewers -> States], open' \in [Viewers -> BOOLEAN],
         \A v \in Viewers : (state'[v] = "RFB_NORMAL") <=>
                            (state[v] = "RFB_NORMAL"),
         \A v \in Viewers : state[v] = "RFB_NORMAL" /\ open'[v] => open[v]
  PROVE  SharingInv'
<1>1. ClientsTyped'
  BY DEF SharingInv, ClientsTyped
<1>2. Compares'
  BY DEF SharingInv, Compares
<1>3. OneSeesTheOther'
  BY DEF SharingInv, OneSeesTheOther
<1>4. QED
  BY <1>1, <1>2, <1>3 DEF SharingInv

(* The viewer's steps do not touch the server's clients. *)
LEMMA ViewerInv ==
  ASSUME SharingInv, NEW v \in Viewers,
         Dial(v) \/ ViewerStep(v) \/ Misread(v) \/ Hangup(v)
  PROVE  SharingInv'
<1>1. UNCHANGED <<neverShared, clVars>>
  BY DEF Dial, ViewerStep, Misread, Hangup, ReadVersion, ChooseSecurityType,
         ReadSecurityType, AnswerChallenge, ReadResult, ReadReason,
         ReadServerInit, ReadFails, sharingVars
<1>2. QED
  BY <1>1, NoNewNormal DEF clVars, SharingInv, ClientsTyped

(* The states before RFB_NORMAL. *)
LEMMA EarlyStatesInv ==
  ASSUME SharingInv, NEW v \in Viewers,
         \/ NewTCPClient(v) \/ ProcessClientProtocolVersion(v)
         \/ ProcessClientSecurityType(v) \/ AuthProcessClientMessage(v)
         \/ ClientGone(v)
  PROVE  SharingInv'
<1>1. UNCHANGED <<neverShared, others, settled>>
  BY DEF NewTCPClient, ProcessClientProtocolVersion,
         ProcessClientSecurityType, AuthProcessClientMessage, ClientGone,
         sharingVars
<1>2. state' = state \/ \E s \in States \ {"RFB_NORMAL"} :
                          /\ state' = [state EXCEPT ![v] = s]
                          /\ state[v] # "RFB_NORMAL"
  <2>1. CASE NewTCPClient(v)
    BY <2>1 DEF NewTCPClient, States
  <2>2. CASE ProcessClientProtocolVersion(v)
    BY <2>2 DEF ProcessClientProtocolVersion, Takes, Enters, States
  <2>3. CASE ProcessClientSecurityType(v)
    BY <2>3 DEF ProcessClientSecurityType, Takes, Enters, States
  <2>4. CASE AuthProcessClientMessage(v)
    BY <2>4 DEF AuthProcessClientMessage, Takes, Enters, States
  <2>5. CASE ClientGone(v)
    BY <2>5 DEF ClientGone
  <2>6. QED
    BY <2>1, <2>2, <2>3, <2>4, <2>5
<1>3. \/ open' = open
      \/ open' = [open EXCEPT ![v] = FALSE]
      \/ open' = [open EXCEPT ![v] = TRUE] /\ state[v] = "none"
  BY DEF NewTCPClient, ProcessClientProtocolVersion,
         ProcessClientSecurityType, AuthProcessClientMessage, ClientGone
<1>4. state' \in [Viewers -> States] /\ open' \in [Viewers -> BOOLEAN]
  BY <1>2, <1>3 DEF SharingInv, ClientsTyped
<1>5. \A u \in Viewers : (state'[u] = "RFB_NORMAL") <=>
                         (state[u] = "RFB_NORMAL")
  BY <1>2 DEF SharingInv, ClientsTyped
<1>6. \A u \in Viewers : state[u] = "RFB_NORMAL" /\ open'[u] => open[u]
  BY <1>3 DEF SharingInv, ClientsTyped
<1>7. QED
  BY <1>1, <1>4, <1>5, <1>6, NoNewNormal

(* A client becomes normal, and its thread has all the others before it. *)
LEMMA ClientInitInv ==
  ASSUME SharingInv, NEW v \in Viewers, ProcessClientInitMessage(v)
  PROVE  SharingInv'
<1>1. /\ state' = [state EXCEPT ![v] = "RFB_NORMAL"]
      /\ state[v] = "RFB_INITIALISATION"
      /\ open' = open /\ neverShared' = neverShared
  BY DEF ProcessClientInitMessage, Takes, Enters, sharingVars
<1>2. others[v] = {} /\ v \notin settled
  BY <1>1 DEF SharingInv, Compares
<1>3. \/ /\ others' = [others EXCEPT ![v] =
                        {o \in Viewers \ {v} : state[o] # "none"}]
         /\ settled' = IF others'[v] = {} THEN settled \cup {v} ELSE settled
      \/ /\ ~neverShared
         /\ settled' = settled \cup {v} /\ others' = others
  BY DEF ProcessClientInitMessage, Exclusive
<1>4. ClientsTyped'
  BY <1>1, <1>3 DEF SharingInv, ClientsTyped, States
<1>5. Compares'
  BY <1>1, <1>2, <1>3 DEF SharingInv, ClientsTyped, Compares
<1>6. OneSeesTheOther'
  <2> SUFFICES ASSUME neverShared, NEW a \in Viewers, NEW b \in Viewers,
                      a # b, open[a], open[b],
                      state'[a] = "RFB_NORMAL", state'[b] = "RFB_NORMAL"
               PROVE  b \in others'[a] \/ a \in others'[b]
    BY <1>1 DEF OneSeesTheOther
  <2>1. others' = [others EXCEPT ![v] =
                     {o \in Viewers \ {v} : state[o] # "none"}]
    BY <1>3
  <2>2. CASE a = v
    <3>1. state[b] = "RFB_NORMAL"
      BY <1>1, <2>2 DEF SharingInv, ClientsTyped
    <3>2. QED
      BY <2>1, <2>2, <3>1 DEF SharingInv, ClientsTyped
  <2>3. CASE b = v
    <3>1. state[a] = "RFB_NORMAL"
      BY <1>1, <2>3 DEF SharingInv, ClientsTyped
    <3>2. QED
      BY <2>1, <2>3, <3>1 DEF SharingInv, ClientsTyped
  <2>4. CASE a # v /\ b # v
    BY <1>1, <2>1, <2>4 DEF SharingInv, ClientsTyped, OneSeesTheOther
  <2>5. QED
    BY <2>2, <2>3, <2>4
<1>7. QED
  BY <1>4, <1>5, <1>6 DEF SharingInv

(* A client is taken off the list of a thread only when one of the two is  *)
(* closed, or the other one is not a normal client yet and will compare    *)
(* itself.                                                                 *)
LEMMA CompareInv ==
  ASSUME SharingInv, NEW v \in Viewers, NEW o \in Viewers, CompareWith(v, o)
  PROVE  SharingInv'
<1> DEFINE meets == open[o] /\ state[o] = "RFB_NORMAL"
<1>1. /\ o \in others[v] /\ state' = state /\ neverShared' = neverShared
      /\ settled' = IF others'[v] = {} THEN settled \cup {v} ELSE settled
  BY DEF CompareWith, sharingVars
<1>2. state[v] = "RFB_NORMAL" /\ v \notin settled
  BY <1>1 DEF SharingInv, Compares
<1>3. \/ /\ meets
         /\ others' = [others EXCEPT ![v] = {}]
         /\ open' = [open EXCEPT ![v] = FALSE]
      \/ /\ meets
         /\ others' = [others EXCEPT ![v] = @ \ {o}]
         /\ open' = [open EXCEPT ![o] = FALSE]
      \/ /\ ~meets
         /\ others' = [others EXCEPT ![v] = @ \ {o}]
         /\ open' = open
  <2>1. CASE meets /\ dontDisconnect
    BY <2>1 DEF CompareWith
  <2>2. CASE meets /\ ~dontDisconnect
    BY <2>2 DEF CompareWith
  <2>3. CASE ~meets
    <3>1. /\ others' = [others EXCEPT ![v] = @ \ {o}]
          /\ open' = [open EXCEPT ![o] = @ /\ ~meets]
      BY <2>3 DEF CompareWith
    <3>2. open' = [open EXCEPT ![o] = open[o]]
      BY <2>3, <3>1 DEF SharingInv, ClientsTyped
    <3>3. open' = open
      BY <3>2 DEF SharingInv, ClientsTyped
    <3>4. QED
      BY <2>3, <3>1, <3>3
  <2>4. QED
    BY <2>1, <2>2, <2>3
<1> HIDE DEF meets
<1>4. ClientsTyped'
  BY <1>1, <1>3 DEF SharingInv, ClientsTyped
<1>5. Compares'
  BY <1>1, <1>2, <1>3 DEF SharingInv, ClientsTyped, Compares
<1>6. OneSeesTheOther'
  <2> SUFFICES ASSUME neverShared, NEW a \in Viewers, NEW b \in Viewers,
                      a # b, open'[a], open'[b],
                      state[a] = "RFB_NORMAL", state[b] = "RFB_NORMAL"
               PROVE  b \in others'[a] \/ a \in others'[b]
    BY <1>1 DEF OneSeesTheOther
  <2>1. open[a] /\ open[b]
    BY <1>3 DEF SharingInv, ClientsTyped
  <2>2. b \in others[a] \/ a \in others[b]
    BY <2>1 DEF SharingInv, OneSeesTheOther
  <2>3. CASE /\ others' = [others EXCEPT ![v] = {}]
             /\ open' = [open EXCEPT ![v] = FALSE]
    <3>1. a # v /\ b # v
      BY <2>3 DEF SharingInv, ClientsTyped
    <3>2. QED
      BY <2>2, <2>3, <3>1 DEF SharingInv, ClientsTyped
  <2>4. CASE /\ others' = [others EXCEPT ![v] = @ \ {o}]
             /\ open' = [open EXCEPT ![o] = FALSE]
    <3>1. a # o /\ b # o
      BY <2>4 DEF SharingInv, ClientsTyped
    <3>2. QED
      BY <2>2, <2>4, <3>1 DEF SharingInv, ClientsTyped
  <2>5. CASE ~meets /\ others' = [others EXCEPT ![v] = @ \ {o}]
    <3>1. a # o /\ b # o
      BY <2>1, <2>5 DEF meets
    <3>2. QED
      BY <2>2, <2>5, <3>1 DEF SharingInv, ClientsTyped
  <2>6. QED
    BY <1>3, <2>3, <2>4, <2>5
<1>7. QED
  BY <1>4, <1>5, <1>6 DEF SharingInv

(* Every step of the viewers and of the threads. *)
LEMMA HandshakeNextInv ==
  ASSUME SharingInv, [HandshakeNext]_handshakeVars
  PROVE  SharingInv'
<1>1. CASE HandshakeNext
  <2>1. PICK v \in Viewers : \/ Dial(v) \/ ViewerStep(v) \/ Misread(v)
                             \/ Hangup(v) \/ ServerThread(v)
    BY <1>1 DEF HandshakeNext
  <2>2. CASE Dial(v) \/ ViewerStep(v) \/ Misread(v) \/ Hangup(v)
    BY <2>2, ViewerInv
  <2>3. CASE \/ NewTCPClient(v) \/ ProcessClientProtocolVersion(v)
             \/ ProcessClientSecurityType(v) \/ AuthProcessClientMessage(v)
             \/ ClientGone(v)
    BY <2>3, EarlyStatesInv
  <2>4. CASE ProcessClientInitMessage(v)
    BY <2>4, ClientInitInv
  <2>5. CASE \E o \in Viewers : CompareWith(v, o)
    BY <2>5, CompareInv
  <2>6. QED
    BY <2>1, <2>2, <2>3, <2>4, <2>5 DEF ServerThread
<1>2. CASE UNCHANGED handshakeVars
  BY <1>2, NoNewNormal
     DEF handshakeVars, sharingVars, clVars, SharingInv, ClientsTyped
<1>3. QED
  BY <1>1, <1>2

(* With neverShared, at most one client that has compared itself with the  *)
(* others is open, in whatever order the threads run.                      *)
THEOREM NeverSharedHasOne == HandshakeSpec => []NeverSharedIsExclusive
<1>1. HandshakeInit => SharingInv
  BY DEF HandshakeInit, SharingInv, ClientsTyped, Compares,
         OneSeesTheOther, States
<1>2. SharingInv /\ [HandshakeNext]_handshakeVars => SharingInv'
  BY HandshakeNextInv
<1>3. SharingInv => NeverSharedIsExclusive
  BY DEF SharingInv, ClientsTyped, Compares, OneSeesTheOther,
         NeverSharedIsExclusive
<1>4. QED
  BY <1>1, <1>2, <1>3, PTL DEF HandshakeSpec

-----------------------------------------------------------------------------
(* The handshake itself.  What is in flight, and in which state the        *)
(* server's thread is, for every place of the viewer: the viewer is        *)
(* always in one of these situations, or has failed.                       *)
AtStart(v) == state[v] = "none" /\ up[v] = <<>> /\ down[v] = <<>>

AtVersion(v) ==
  \/ AtStart(v)
  \/ /\ state[v] = "RFB_PROTOCOL_VERSION" /\ open[v]
     /\ up[v] = <<>> /\ down[v] = <<Message("version", screenMinor)>>

AtSecurity(v) ==
  \/ /\ state[v] = "RFB_PROTOCOL_VERSION" /\ open[v]
     /\ up[v] = <<Message("version", minor[v])>> /\ down[v] = <<>>
  \/ /\ minor[v] > 6 /\ agreed[v] = minor[v]
     /\ state[v] = "RFB_SECURITY_TYPE" /\ open[v]
     /\ up[v] = <<>> /\ down[v] = <<Message("types", SecurityType)>>
  \/ /\ minor[v] <= 6 /\ agreed[v] = minor[v] /\ authPasswdData
     /\ state[v] = "RFB_AUTHENTICATION" /\ open[v]
     /\ up[v] = <<>>
     /\ down[v] = <<Message("type32", SecurityType), Message("challenge", 0)>>
  \/ /\ minor[v] <= 6 /\ agreed[v] = minor[v] /\ ~authPasswdData
     /\ state[v] = "RFB_INITIALISATION" /\ open[v]
     /\ up[v] = <<>> /\ down[v] = <<Message("type32", SecurityType)>>

AtChallenge(v) ==
  /\ authPasswdData /\ agreed[v] = minor[v] /\ open[v]
  /\ \/ /\ state[v] = "RFB_SECURITY_TYPE"
        /\ up[v] = <<Message("type", SecurityType)>> /\ down[v] = <<>>
     \/ /\ state[v] = "RFB_AUTHENTICATION"
        /\ up[v] = <<>> /\ down[v] = <<Message("challenge", 0)>>

(* The viewer has answered the challenge, or needs none but is told so.    *)
AtResult(v) ==
  /\ agreed[v] = minor[v]
  /\ authPasswdData \/ minor[v] > 7
  /\ \/ /\ authPasswdData
        /\ state[v] = "RFB_AUTHENTICATION" /\ open[v]
        /\ up[v] = <<Message("response", given[v])>> /\ down[v] = <<>>
     \/ /\ ~authPasswdData
        /\ state[v] = "RFB_SECURITY_TYPE" /\ open[v]
        /\ up[v] = <<Message("type", SecurityType)>> /\ down[v] = <<>>
     \/ /\ authPasswdData => given[v] = "right"
        /\ state[v] = "RFB_INITIALISATION" /\ open[v]
        /\ up[v] = <<>> /\ down[v] = <<Message("result", "ok")>>
     \/ /\ state[v] = "RFB_AUTHENTICATION" /\ ~open[v]
        /\ up[v] = <<>> /\ down[v] = Refusal(minor[v])

AtReason(v) ==
  /\ state[v] = "RFB_AUTHENTICATION" /\ ~open[v]
  /\ down[v] = <<Message("reason", 0)>>

(* Nothing is left to be agreed on but the sharing of the desktop.  With   *)
(* version 7 and no password the viewer does not wait for a result.        *)
AtServerInit(v) ==
  /\ agreed[v] = minor[v]
  /\ authPasswdData => given[v] = "right"
  /\ \/ /\ ~authPasswdData /\ minor[v] <= 7
        /\ state[v] = "RFB_SECURITY_TYPE" /\ open[v]
        /\ down[v] = <<>>
        /\ \E s \in BOOLEAN : up[v] = <<Message("type", SecurityType),
                                       Message("clientInit", s)>>
     \/ /\ state[v] = "RFB_INITIALISATION" /\ open[v]
        /\ down[v] = <<>>
        /\ \E s \in BOOLEAN : up[v] = <<Message("clientInit", s)>>
     \/ /\ state[v] = "RFB_NORMAL"
        /\ down[v] = <<Message("serverInit", 0)>>

AtConnected(v) ==
  /\ agreed[v] = minor[v]
  /\ authPasswdData => given[v] = "right"
  /\ state[v] = "RFB_NORMAL"

Situation(v) ==
  \/ viewer[v] = "start" /\ AtStart(v)
  \/ viewer[v] = "version" /\ AtVersion(v)
  \/ viewer[v] = "security" /\ AtSecurity(v)
  \/ viewer[v] = "challenge" /\ AtChallenge(v)
  \/ viewer[v] = "result" /\ AtResult(v)
  \/ viewer[v] = "reason" /\ AtReason(v)
  \/ viewer[v] = "serverInit" /\ AtServerInit(v)
  \/ viewer[v] = "connected" /\ AtConnected(v)
  \/ viewer[v] = "failed"

(* Functions over the viewers, whatever their values are. *)
IsTable(f) == f = [v \in Viewers |-> f[v]]

Tables ==
  /\ IsTable(agreed) /\ IsTable(viewer) /\ IsTable(given)
  /\ IsTable(up) /\ IsTable(down)
  /\ screenMinor \in Nat
  /\ minor \in [Viewers -> Nat]

AgreementInv ==
  SharingInv /\ Tables /\ \A v \in Viewers : Situation(v)

(* Nothing of a viewer and its client changes. *)
SameAt(v) ==
  /\ state'[v] = state[v] /\ open'[v] = open[v] /\ agreed'[v] = agreed[v]
  /\ viewer'[v] = viewer[v] /\ minor'[v] = minor[v] /\ given'[v] = given[v]
  /\ up'[v] = up[v] /\ down'[v] = down[v]

SameSettings == UNCHANGED <<screenMinor, authPasswdData>>

(* A step after which both sides are where they were. *)
LEMMA SituationStays ==
  ASSUME NEW v \in Viewers, Situation(v), SameAt(v), SameSettings
  PROVE  Situation(v)'
<1> USE DEF SameAt, SameSettings, SecurityType
<1>1. AtStart(v) => AtStart(v)'
  BY DEF AtStart
<1>2. AtVersion(v) => AtVersion(v)'
  BY <1>1 DEF AtVersion, Message
<1>3. AtSecurity(v) => AtSecurity(v)'
  BY DEF AtSecurity, Message
<1>4. AtChallenge(v) => AtChallenge(v)'
  BY DEF AtChallenge, Message
<1>5. AtResult(v) => AtResult(v)'
  BY DEF AtResult, Message, Refusal
<1>6. AtReason(v) => AtReason(v)'
  BY DEF AtReason, Message
<1>7. AtServerInit(v) => AtServerInit(v)'
  BY DEF AtServerInit, Message
<1>8. AtConnected(v) => AtConnected(v)'
  BY DEF AtConnected
<1>9. QED
  BY <1>1, <1>2, <1>3, <1>4, <1>5, <1>6, <1>7, <1>8 DEF Situation

(* A step of one viewer, or of the thread of its client, except for the    *)
(* comparison, leaves all the others alone.                                *)
StepOf(v) ==
  /\ SameSettings /\ Tables'
  /\ \A u \in Viewers : u # v => SameAt(u)

(* A step of one viewer or of its thread leaves the others alone. *)
LEMMA StepOfOne ==
  ASSUME AgreementInv, NEW v \in Viewers, StepOf(v), Situation(v)'
  PROVE  \A u \in Viewers : Situation(u)'
<1> SUFFICES ASSUME NEW u \in Viewers
             PROVE  Situation(u)'
  OBVIOUS
<1>1. CASE u = v
  BY <1>1
<1>2. CASE u # v
  BY <1>2, SituationStays DEF StepOf, AgreementInv
<1>3. QED
  BY <1>1, <1>2

(* Sequences of one or two messages. *)
LEMMA ShortSequences ==
  ASSUME NEW a, NEW b
  PROVE  /\ Head(<<a>>) = a /\ Tail(<<a>>) = <<>> /\ <<a>> # <<>>
         /\ Head(<<a, b>>) = a /\ Tail(<<a, b>>) = <<b>> /\ <<a, b>> # <<>>
         /\ <<>> \o <<a>> = <<a>> /\ <<>> \o <<a, b>> = <<a, b>>
         /\ <<a>> \o <<b>> = <<a, b>>
         /\ <<a>> \o <<>> = <<a>> /\ <<>> \o <<>> = <<>>
<1>1. Head(<<a>>) = a /\ Tail(<<a>>) = <<>> /\ <<a>> # <<>>
  OBVIOUS
<1>2. Head(<<a, b>>) = a /\ Tail(<<a, b>>) = <<b>> /\ <<a, b>> # <<>>
  OBVIOUS
<1>3. <<>> \o <<a>> = <<a>>
  OBVIOUS
<1>4. <<>> \o <<a, b>> = <<a, b>>
  OBVIOUS
<1>5. <<a>> \o <<b>> = <<a, b>>
  <2> DEFINE s == <<a>> \o <<b>>
  <2>1. s \in Seq({a, b}) /\ Len(s) = 2 /\ s[1] = a /\ s[2] = b
    OBVIOUS
  <2>2. <<a, b>> \in Seq({a, b}) /\ Len(<<a, b>>) = 2
    OBVIOUS
  <2> HIDE DEF s
  <2>3. s = <<a, b>>
    BY <2>1, <2>2
  <2>4. QED
    BY <2>3 DEF s
<1>6. <<a>> \o <<>> = <<a>> /\ <<>> \o <<>> = <<>>
  <2>1. <<a>> \in Seq({a}) /\ <<>> \in Seq({a})
    OBVIOUS
  <2>2. QED
    BY <2>1, ConcatEmptySeq
<1>7. QED
  BY <1>1, <1>2, <1>3, <1>4, <1>5, <1>6

(* The viewer's steps. *)
LEMMA DialAgrees ==
  ASSUME AgreementInv, NEW v \in Viewers, Dial(v)
  PROVE  StepOf(v) /\ Situation(v)'
<1>1. StepOf(v)
  BY DEF Dial, Becomes, StepOf, SameSettings, SameAt, AgreementInv, Tables,
         IsTable, sharingVars, clVars
<1>2. viewer'[v] = "version" /\ AtStart(v)'
  BY DEF Dial, Becomes, AgreementInv, Tables, IsTable, Situation, AtStart,
         clVars
<1>3. QED
  BY <1>1, <1>2 DEF Situation, AtVersion

(* The server's version arrives. *)
LEMMA ReadVersionAgrees ==
  ASSUME AgreementInv, NEW v \in Viewers, ReadVersion(v)
  PROVE  StepOf(v) /\ Situation(v)'
<1>1. /\ viewer[v] = "version" /\ down[v] # <<>>
      /\ state[v] = "RFB_PROTOCOL_VERSION" /\ open[v] /\ up[v] = <<>>
      /\ down[v] = <<Message("version", screenMinor)>>
  BY DEF ReadVersion, Reads, AgreementInv, Situation, AtVersion, AtStart
<1>2. Head(down[v]).value = screenMinor /\ Tail(down[v]) = <<>>
  BY <1>1, ShortSequences DEF Message
<1>3. /\ minor' = [minor EXCEPT ![v] =
            IF screenMinor > rfbProtocolMinorVersion
              THEN rfbProtocolMinorVersion ELSE screenMinor]
      /\ viewer' = [viewer EXCEPT ![v] = "security"]
      /\ down' = [down EXCEPT ![v] = <<>>]
      /\ up' = [up EXCEPT ![v] = <<Message("version", minor'[v])>>]
      /\ UNCHANGED <<sharingVars, clVars, given>>
  BY <1>1, <1>2, ShortSequences
     DEF ReadVersion, Reads, Becomes, Writes, AgreementInv, Tables, IsTable
<1>4. minor' \in [Viewers -> Nat]
  BY <1>3 DEF AgreementInv, Tables, rfbProtocolMinorVersion
<1>5. StepOf(v)
  BY <1>3, <1>4 DEF StepOf, SameSettings, SameAt, AgreementInv, Tables,
                    IsTable, sharingVars, clVars
<1>6. /\ viewer'[v] = "security"
      /\ state'[v] = "RFB_PROTOCOL_VERSION" /\ open'[v]
      /\ up'[v] = <<Message("version", minor'[v])>> /\ down'[v] = <<>>
  BY <1>1, <1>3 DEF AgreementInv, Tables, IsTable, clVars
<1>7. QED
  BY <1>5, <1>6 DEF Situation, AtSecurity, Message

(* What ChooseSecurityType and ReadSecurityType write before the phase     *)
(* that follows.                                                           *)
LEMMA ClientInitCases ==
  ASSUME NEW phase, NEW init \in ClientInit(phase)
  PROVE  \/ phase # "serverInit" /\ init = <<>>
         \/ /\ phase = "serverInit"
            /\ \E s \in BOOLEAN : init = <<Message("clientInit", s)>>
BY DEF ClientInit

(* The viewer chooses among the security types it is offered. *)
LEMMA ChooseSecurityTypeAgrees ==
  ASSUME AgreementInv, NEW v \in Viewers, ChooseSecurityType(v)
  PROVE  StepOf(v) /\ Situation(v)'
<1>1. /\ viewer[v] = "security" /\ minor[v] > 6 /\ minor[v] \in Nat
      /\ agreed[v] = minor[v]
      /\ state[v] = "RFB_SECURITY_TYPE" /\ open[v] /\ up[v] = <<>>
      /\ down[v] = <<Message("types", SecurityType)>>
  BY DEF ChooseSecurityType, Reads, AgreementInv, Tables, Situation,
         AtSecurity
<1>2. Head(down[v]).value = SecurityType /\ Tail(down[v]) = <<>>
  BY <1>1, ShortSequences DEF Message
<1> DEFINE phase == AfterSecurity(v, SecurityType)
<1>3. PICK init \in ClientInit(phase) :
        up' = [up EXCEPT ![v] = up[v] \o (<<Message("type", SecurityType)>> \o init)]
  BY <1>2 DEF ChooseSecurityType, Writes
<1>4. /\ viewer' = [viewer EXCEPT ![v] = phase]
      /\ down' = [down EXCEPT ![v] = <<>>]
      /\ UNCHANGED <<sharingVars, clVars, minor, given>>
  BY <1>2 DEF ChooseSecurityType, Reads, Becomes
<1>5. StepOf(v)
  BY <1>3, <1>4 DEF StepOf, SameSettings, SameAt, AgreementInv, Tables,
                    IsTable, sharingVars, clVars
<1>6. /\ viewer'[v] = phase /\ down'[v] = <<>>
      /\ up'[v] = up[v] \o (<<Message("type", SecurityType)>> \o init)
      /\ state'[v] = "RFB_SECURITY_TYPE" /\ open'[v]
      /\ agreed'[v] = minor'[v] /\ minor'[v] = minor[v]
      /\ authPasswdData' = authPasswdData /\ SecurityType' = SecurityType
  BY <1>1, <1>3, <1>4
     DEF AgreementInv, Tables, IsTable, clVars, sharingVars, SecurityType
<1>7. CASE authPasswdData
  <2>1. phase = "challenge" /\ init = <<>>
    BY <1>7, ClientInitCases DEF AfterSecurity, SecurityType
  <2>2. up'[v] = <<Message("type", SecurityType)>>
    BY <1>1, <1>6, <2>1, ShortSequences
  <2>3. AtChallenge(v)'
    BY <1>6, <1>7, <2>2 DEF AtChallenge, Message
  <2>4. QED
    BY <1>5, <1>6, <2>1, <2>3 DEF Situation
<1>8. CASE ~authPasswdData /\ minor[v] > 7
  <2>1. phase = "result" /\ init = <<>>
    BY <1>8, ClientInitCases DEF AfterSecurity, SecurityType
  <2>2. up'[v] = <<Message("type", SecurityType)>>
    BY <1>1, <1>6, <2>1, ShortSequences
  <2>3. AtResult(v)'
    BY <1>6, <1>8, <2>2 DEF AtResult, Message
  <2>4. QED
    BY <1>5, <1>6, <2>1, <2>3 DEF Situation
<1>9. CASE ~authPasswdData /\ ~(minor[v] > 7)
  <2>1. phase = "serverInit"
    BY <1>9 DEF AfterSecurity, SecurityType
  <2>2. PICK s \in BOOLEAN : init = <<Message("clientInit", s)>>
    BY <2>1, ClientInitCases
  <2>3. up'[v] = <<Message("type", SecurityType), Message("clientInit", s)>>
    BY <1>1, <1>6, <2>2, ShortSequences
  <2>4. \E t \in BOOLEAN : up'[v] = <<Message("type", SecurityType'),
                                     Message("clientInit", t)>>
    BY <1>6, <2>3
  <2>5. ~authPasswdData' /\ minor'[v] <= 7
    BY <1>1, <1>6, <1>9
  <2>6. AtServerInit(v)'
    BY <1>6, <2>4, <2>5 DEF AtServerInit, Message
  <2>7. QED
    BY <1>5, <1>6, <2>1, <2>6 DEF Situation
<1>10. QED
  BY <1>7, <1>8, <1>9

(* The one type of an old server arrives. *)
LEMMA ReadSecurityTypeAgrees ==
  ASSUME AgreementInv, NEW v \in Viewers, ReadSecurityType(v)
  PROVE  StepOf(v) /\ Situation(v)'
<1> DEFINE phase == AfterSecurity(v, SecurityType)
<1>1. /\ viewer[v] = "security" /\ minor[v] <= 6 /\ minor[v] \in Nat
      /\ agreed[v] = minor[v] /\ open[v] /\ up[v] = <<>>
      /\ \/ /\ authPasswdData /\ state[v] = "RFB_AUTHENTICATION"
            /\ down[v] = <<Message("type32", SecurityType),
                           Message("challenge", 0)>>
         \/ /\ ~authPasswdData /\ state[v] = "RFB_INITIALISATION"
            /\ down[v] = <<Message("type32", SecurityType)>>
  BY DEF ReadSecurityType, Reads, AgreementInv, Tables, Situation,
         AtSecurity
<1>2. /\ Head(down[v]).value = SecurityType
      /\ Tail(down[v]) = IF authPasswdData THEN <<Message("challenge", 0)>>
                                           ELSE <<>>
  <2> DEFINE type == Message("type32", SecurityType)
             challenge == Message("challenge", 0)
  <2>1. type.value = SecurityType
    BY DEF Message
  <2>2. \/ authPasswdData /\ down[v] = <<type, challenge>>
        \/ ~authPasswdData /\ down[v] = <<type>>
    BY <1>1
  <2> HIDE DEF type, challenge
  <2>3. Head(down[v]) = type
    BY <2>2, ShortSequences
  <2>4. authPasswdData => Tail(down[v]) = <<challenge>>
    <3>1. Tail(<<type, challenge>>) = <<challenge>>
      BY ShortSequences
    <3>2. QED
      BY <2>2, <3>1
  <2>5. ~authPasswdData => Tail(down[v]) = <<>>
    BY <2>2, ShortSequences
  <2>6. QED
    BY <2>1, <2>3, <2>4, <2>5 DEF challenge
<1>3. PICK init \in ClientInit(phase) :
        up' = [up EXCEPT ![v] = up[v] \o init]
  BY <1>2 DEF ReadSecurityType, Writes
<1>4. /\ viewer' = [viewer EXCEPT ![v] = phase]
      /\ down' = [down EXCEPT ![v] = Tail(down[v])]
      /\ UNCHANGED <<sharingVars, clVars, minor, given>>
  BY <1>2 DEF ReadSecurityType, Reads, Becomes
<1>5. StepOf(v)
  BY <1>3, <1>4 DEF StepOf, SameSettings, SameAt, AgreementInv, Tables,
                    IsTable, sharingVars, clVars
<1>6. /\ viewer'[v] = phase /\ down'[v] = Tail(down[v])
      /\ up'[v] = <<>> \o init
      /\ state'[v] = state[v] /\ open'[v]
      /\ agreed'[v] = minor'[v] /\ minor'[v] = minor[v]
      /\ authPasswdData' = authPasswdData /\ SecurityType' = SecurityType
  BY <1>1, <1>3, <1>4
     DEF AgreementInv, Tables, IsTable, clVars, sharingVars, SecurityType
<1>7. CASE authPasswdData
  <2>1. phase = "challenge" /\ init = <<>>
    BY <1>7, ClientInitCases DEF AfterSecurity, SecurityType
  <2>2. up'[v] = <<>>
    BY <1>6, <2>1, ShortSequences
  <2>3. AtChallenge(v)'
    BY <1>1, <1>2, <1>6, <1>7, <2>2 DEF AtChallenge, Message
  <2>4. QED
    BY <1>5, <1>6, <2>1, <2>3 DEF Situation
<1>8. CASE ~authPasswdData
  <2>1. phase = "serverInit"
    BY <1>1, <1>8 DEF AfterSecurity, SecurityType
  <2>2. PICK s \in BOOLEAN : init = <<Message("clientInit", s)>>
    BY <2>1, ClientInitCases
  <2>3. up'[v] = <<Message("clientInit", s)>>
    BY <1>6, <2>2, ShortSequences
  <2>4. \E t \in BOOLEAN : up'[v] = <<Message("clientInit", t)>>
    BY <2>3
  <2>5. state'[v] = "RFB_INITIALISATION" /\ down'[v] = <<>>
    BY <1>1, <1>2, <1>6, <1>8
  <2>6. AtServerInit(v)'
    BY <1>6, <1>8, <2>4, <2>5 DEF AtServerInit, Message
  <2>7. QED
    BY <1>5, <1>6, <2>1, <2>6 DEF Situation
<1>9. QED
  BY <1>7, <1>8

(* The challenge arrives. *)
LEMMA AnswerChallengeAgrees ==
  ASSUME AgreementInv, NEW v \in Viewers, AnswerChallenge(v)
  PROVE  StepOf(v) /\ Situation(v)'
<1>1. /\ viewer[v] = "challenge" /\ authPasswdData
      /\ agreed[v] = minor[v] /\ open[v] /\ up[v] = <<>>
      /\ state[v] = "RFB_AUTHENTICATION"
      /\ down[v] = <<Message("challenge", 0)>>
  BY DEF AnswerChallenge, Reads, AgreementInv, Situation, AtChallenge
<1>2. Tail(down[v]) = <<>>
  BY <1>1, ShortSequences
<1>3. PICK p \in Passwords :
        /\ given' = [given EXCEPT ![v] = p]
        /\ IF p = "none"
             THEN Becomes(v, "failed") /\ UNCHANGED up
             ELSE Becomes(v, "result") /\ Writes(v, <<Message("response", p)>>)
  BY DEF AnswerChallenge
<1>4. /\ down' = [down EXCEPT ![v] = <<>>]
      /\ UNCHANGED <<sharingVars, clVars, minor>>
  BY <1>2 DEF AnswerChallenge, Reads
<1>5. StepOf(v)
  BY <1>3, <1>4 DEF Becomes, Writes, StepOf, SameSettings, SameAt,
                    AgreementInv, Tables, IsTable, sharingVars, clVars
<1>6. CASE p = "none"
  <2>1. viewer'[v] = "failed"
    BY <1>3, <1>6 DEF Becomes, AgreementInv, Tables, IsTable
  <2>2. QED
    BY <1>5, <2>1 DEF Situation
<1>7. CASE p # "none"
  <2>1. /\ viewer'[v] = "result" /\ given'[v] = p
        /\ up'[v] = <<>> \o <<Message("response", p)>> /\ down'[v] = <<>>
        /\ state'[v] = "RFB_AUTHENTICATION" /\ open'[v]
        /\ agreed'[v] = minor'[v] /\ authPasswdData'
    BY <1>1, <1>3, <1>4, <1>7
       DEF Becomes, Writes, AgreementInv, Tables, IsTable, clVars,
           sharingVars
  <2>2. up'[v] = <<Message("response", given'[v])>>
    BY <2>1, ShortSequences
  <2>3. AtResult(v)'
    BY <2>1, <2>2 DEF AtResult, Message
  <2>4. QED
    BY <1>5, <2>1, <2>3 DEF Situation
<1>8. QED
  BY <1>6, <1>7

(* The result of the authentication arrives. *)
LEMMA ReadResultAgrees ==
  ASSUME AgreementInv, NEW v \in Viewers, ReadResult(v)
  PROVE  StepOf(v) /\ Situation(v)'
<1>1. /\ viewer[v] = "result" /\ agreed[v] = minor[v] /\ up[v] = <<>>
      /\ \/ /\ authPasswdData => given[v] = "right"
            /\ state[v] = "RFB_INITIALISATION" /\ open[v]
            /\ down[v] = <<Message("result", "ok")>>
         \/ /\ state[v] = "RFB_AUTHENTICATION" /\ ~open[v]
            /\ down[v] = Refusal(minor[v])
  BY DEF ReadResult, Reads, AgreementInv, Situation, AtResult
<1>2. /\ down' = [down EXCEPT ![v] = Tail(down[v])]
      /\ UNCHANGED <<sharingVars, clVars, minor, given>>
  BY DEF ReadResult, Reads
<1>3. CASE down[v] = <<Message("result", "ok")>>
  <2>1. Head(down[v]).value = "ok" /\ Tail(down[v]) = <<>>
    BY <1>3, ShortSequences DEF Message
  <2>2. PICK init \in ClientInit("serverInit") : Writes(v, init)
    BY <2>1 DEF ReadResult
  <2>3. PICK s \in BOOLEAN : init = <<Message("clientInit", s)>>
    BY <2>2, ClientInitCases
  <2>4. viewer' = [viewer EXCEPT ![v] = "serverInit"]
    BY <2>1 DEF ReadResult, Becomes
  <2>5. StepOf(v)
    BY <1>2, <2>2, <2>4
       DEF Writes, StepOf, SameSettings, SameAt, AgreementInv, Tables,
           IsTable, sharingVars, clVars
  <2>6. /\ viewer'[v] = "serverInit" /\ agreed'[v] = minor'[v]
        /\ authPasswdData' => given'[v] = "right"
        /\ state'[v] = "RFB_INITIALISATION" /\ open'[v] /\ down'[v] = <<>>
        /\ up'[v] = <<>> \o <<Message("clientInit", s)>>
    <3>1. /\ authPasswdData => given[v] = "right"
          /\ state[v] = "RFB_INITIALISATION" /\ open[v]
      BY <1>1, <1>3, ShortSequences DEF Refusal, Message
    <3>2. QED
      BY <1>1, <1>2, <2>1, <2>2, <2>3, <2>4, <3>1
         DEF Writes, AgreementInv, Tables, IsTable, clVars, sharingVars
  <2>7. \E t \in BOOLEAN : up'[v] = <<Message("clientInit", t)>>
    BY <2>6, ShortSequences
  <2>8. AtServerInit(v)'
    BY <2>6, <2>7 DEF AtServerInit, Message
  <2>9. QED
    BY <2>5, <2>6, <2>8 DEF Situation
<1>4. CASE /\ state[v] = "RFB_AUTHENTICATION" /\ ~open[v]
           /\ down[v] = Refusal(minor[v])
  <2>1. /\ Head(down[v]).value = "failed"
        /\ minor[v] > 7 => Tail(down[v]) = <<Message("reason", 0)>>
    BY <1>4, ShortSequences DEF Refusal, Message
  <2>2. /\ viewer' = [viewer EXCEPT ![v] =
                        IF minor[v] > 7 THEN "reason" ELSE "failed"]
        /\ UNCHANGED up
    BY <2>1 DEF ReadResult, Becomes
  <2>3. StepOf(v)
    BY <1>2, <2>2
       DEF StepOf, SameSettings, SameAt, AgreementInv, Tables, IsTable,
           sharingVars, clVars
  <2>4. /\ state'[v] = "RFB_AUTHENTICATION" /\ ~open'[v]
        /\ down'[v] = Tail(down[v])
        /\ viewer'[v] = IF minor[v] > 7 THEN "reason" ELSE "failed"
    BY <1>2, <1>4, <2>2 DEF AgreementInv, Tables, IsTable, clVars
  <2>5. CASE minor[v] > 7
    <3>1. AtReason(v)'
      BY <2>1, <2>4, <2>5 DEF AtReason, Message
    <3>2. QED
      BY <2>3, <2>4, <2>5, <3>1 DEF Situation
  <2>6. CASE ~(minor[v] > 7)
    BY <2>3, <2>4, <2>6 DEF Situation
  <2>7. QED
    BY <2>5, <2>6
<1>5. QED
  BY <1>1, <1>3, <1>4

(* A viewer that has failed can be in any situation. *)
LEMMA FailedAgrees ==
  ASSUME AgreementInv, NEW v \in Viewers,
         ReadReason(v) \/ ReadFails(v) \/ Hangup(v)
  PROVE  StepOf(v) /\ Situation(v)'
<1>1. StepOf(v)
  BY DEF ReadReason, ReadFails, Hangup, Reads, Becomes, StepOf, SameSettings,
         SameAt, AgreementInv, Tables, IsTable, sharingVars, clVars
<1>2. viewer'[v] = "failed"
  BY DEF ReadReason, ReadFails, Hangup, Becomes, AgreementInv, Tables, IsTable
<1>3. QED
  BY <1>1, <1>2 DEF Situation

(* The handshake ends. *)
LEMMA ReadServerInitAgrees ==
  ASSUME AgreementInv, NEW v \in Viewers, ReadServerInit(v)
  PROVE  StepOf(v) /\ Situation(v)'
<1>1. StepOf(v)
  BY DEF ReadServerInit, Reads, Becomes, StepOf, SameSettings, SameAt,
         AgreementInv, Tables, IsTable, sharingVars, clVars
<1>2. AtServerInit(v) /\ down[v] # <<>>
  BY DEF ReadServerInit, Reads, AgreementInv, Situation
<1>3. AtConnected(v)
  BY <1>2 DEF AtServerInit, AtConnected
<1>4. viewer'[v] = "connected" /\ AtConnected(v)'
  BY <1>3 DEF ReadServerInit, Becomes, AgreementInv, Tables, IsTable,
              AtConnected, clVars, sharingVars
<1>5. QED
  BY <1>1, <1>4 DEF Situation

(* Whatever the viewer reads is what it expects. *)
LEMMA NothingIsMisread ==
  ASSUME AgreementInv, NEW v \in Viewers
  PROVE  ~Misread(v)
<1> SUFFICES ASSUME Misread(v)
             PROVE  FALSE
  OBVIOUS
<1>1. /\ viewer[v] \in Reading /\ down[v] # <<>>
      /\ Head(down[v]).kind # Expects(v)
      /\ minor[v] \in Nat
  BY DEF Misread, AgreementInv, Tables
<1>2. Situation(v)
  BY DEF AgreementInv
<1>3. CASE viewer[v] = "version"
  <2>1. down[v] = <<Message("version", screenMinor)>>
    BY <1>1, <1>2, <1>3 DEF Situation, AtVersion, AtStart
  <2>2. Head(down[v]).kind = "version"
    BY <2>1, ShortSequences DEF Message
  <2>3. QED
    BY <1>1, <1>3, <2>2 DEF Expects
<1>4. CASE viewer[v] = "security"
  <2>1. \/ /\ minor[v] > 6
           /\ down[v] = <<Message("types", SecurityType)>>
        \/ /\ minor[v] <= 6
           /\ \/ down[v] = <<Message("type32", SecurityType)>>
              \/ down[v] = <<Message("type32", SecurityType),
                             Message("challenge", 0)>>
    BY <1>1, <1>2, <1>4 DEF Situation, AtSecurity
  <2>2. Message("types", SecurityType).kind = "types"
    BY DEF Message
  <2>3. Message("type32", SecurityType).kind = "type32"
    BY DEF Message
  <2>4. Head(down[v]).kind = IF minor[v] > 6 THEN "types" ELSE "type32"
    BY <1>1, <2>1, <2>2, <2>3, ShortSequences
  <2>5. QED
    BY <1>1, <1>4, <2>4 DEF Expects
<1>5. CASE viewer[v] = "challenge"
  <2>1. down[v] = <<Message("challenge", 0)>>
    BY <1>1, <1>2, <1>5 DEF Situation, AtChallenge
  <2>2. Head(down[v]).kind = "challenge"
    BY <2>1, ShortSequences DEF Message
  <2>3. QED
    BY <1>1, <1>5, <2>2 DEF Expects
<1>6. CASE viewer[v] = "result"
  <2>1. \/ down[v] = <<Message("result", "ok")>>
        \/ down[v] = <<Message("result", "failed")>>
        \/ down[v] = <<Message("result", "failed"), Message("reason", 0)>>
    BY <1>1, <1>2, <1>6 DEF Situation, AtResult, Refusal
  <2>2. /\ Message("result", "ok").kind = "result"
        /\ Message("result", "failed").kind = "result"
    BY DEF Message
  <2>3. Head(down[v]).kind = "result"
    BY <2>1, <2>2, ShortSequences
  <2>4. QED
    BY <1>1, <1>6, <2>3 DEF Expects
<1>7. CASE viewer[v] = "reason"
  <2>1. down[v] = <<Message("reason", 0)>>
    BY <1>1, <1>2, <1>7 DEF Situation, AtReason
  <2>2. Head(down[v]).kind = "reason"
    BY <2>1, ShortSequences DEF Message
  <2>3. QED
    BY <1>1, <1>7, <2>2 DEF Expects
<1>8. CASE viewer[v] = "serverInit"
  <2>1. down[v] = <<Message("serverInit", 0)>>
    BY <1>1, <1>2, <1>8 DEF Situation, AtServerInit
  <2>2. Head(down[v]).kind = "serverInit"
    BY <2>1, ShortSequences DEF Message
  <2>3. QED
    BY <1>1, <1>8, <2>2 DEF Expects
<1>9. QED
  BY <1>1, <1>3, <1>4, <1>5, <1>6, <1>7, <1>8 DEF Reading

-----------------------------------------------------------------------------
(* The steps of the server's threads. *)
LEMMA NewTCPClientAgrees ==
  ASSUME AgreementInv, NEW v \in Viewers, NewTCPClient(v)
  PROVE  StepOf(v) /\ Situation(v)'
<1>1. StepOf(v)
  BY DEF NewTCPClient, StepOf, SameSettings, SameAt, AgreementInv, Tables,
         IsTable, SharingInv, ClientsTyped, sharingVars, viewerVars
<1>2. \/ viewer[v] = "failed"
      \/ viewer[v] = "version" /\ up[v] = <<>>
  BY DEF NewTCPClient, AgreementInv, Situation, AtVersion, AtStart,
         AtSecurity, AtChallenge, AtResult, AtReason, AtServerInit,
         AtConnected
<1>3. /\ viewer'[v] = viewer[v] /\ up'[v] = up[v]
      /\ state'[v] = "RFB_PROTOCOL_VERSION" /\ open'[v]
      /\ screenMinor' = screenMinor
      /\ down'[v] = <<Message("version", screenMinor)>>
  BY DEF NewTCPClient, AgreementInv, Tables, IsTable, SharingInv,
         ClientsTyped, sharingVars, viewerVars
<1>4. CASE viewer[v] = "failed"
  BY <1>1, <1>3, <1>4 DEF Situation
<1>5. CASE viewer[v] = "version" /\ up[v] = <<>>
  <2>1. AtVersion(v)'
    BY <1>3, <1>5 DEF AtVersion, Message
  <2>2. QED
    BY <1>1, <1>3, <1>5, <2>1 DEF Situation
<1>6. QED
  BY <1>2, <1>4, <1>5

(* A viewer goes. *)
LEMMA ClientGoneAgrees ==
  ASSUME AgreementInv, NEW v \in Viewers, ClientGone(v)
  PROVE  StepOf(v) /\ Situation(v)'
<1>1. StepOf(v)
  BY DEF ClientGone, StepOf, SameSettings, SameAt, AgreementInv, Tables,
         IsTable, SharingInv, ClientsTyped, sharingVars, viewerVars
<1>2. viewer'[v] = "failed"
  BY DEF ClientGone, viewerVars
<1>3. QED
  BY <1>1, <1>2 DEF Situation

(* What the four states of a thread that reads messages have in common. *)
LEMMA ThreadStep ==
  ASSUME AgreementInv, NEW v \in Viewers,
         \/ ProcessClientProtocolVersion(v) \/ ProcessClientSecurityType(v)
         \/ AuthProcessClientMessage(v) \/ ProcessClientInitMessage(v)
  PROVE  /\ StepOf(v)
         /\ up'[v] = Tail(up[v])
         /\ SameSettings
         /\ viewer'[v] = viewer[v] /\ minor'[v] = minor[v]
         /\ given'[v] = given[v]
<1>1. /\ up' = [up EXCEPT ![v] = Tail(@)]
      /\ UNCHANGED <<sharingVars, viewerVars>>
  BY DEF ProcessClientProtocolVersion, ProcessClientSecurityType,
         AuthProcessClientMessage, ProcessClientInitMessage, Takes
<1>2. /\ \E x : down' = [down EXCEPT ![v] = x]
      /\ \E x : state' = [state EXCEPT ![v] = x]
      /\ \E x : open' = [open EXCEPT ![v] = x]
      /\ \E x : agreed' = [agreed EXCEPT ![v] = x]
  <2>1. /\ state = [state EXCEPT ![v] = state[v]]
        /\ open = [open EXCEPT ![v] = open[v]]
        /\ agreed = [agreed EXCEPT ![v] = agreed[v]]
        /\ down = [down EXCEPT ![v] = down[v]]
    BY DEF AgreementInv, Tables, IsTable, SharingInv, ClientsTyped
  <2>2. CASE ProcessClientProtocolVersion(v)
    BY <2>1, <2>2 DEF ProcessClientProtocolVersion, Sends, Enters
  <2>3. CASE ProcessClientSecurityType(v)
    BY <2>1, <2>3 DEF ProcessClientSecurityType, Sends, Enters
  <2>4. CASE AuthProcessClientMessage(v)
    BY <2>1, <2>4 DEF AuthProcessClientMessage, Sends, Enters
  <2>5. CASE ProcessClientInitMessage(v)
    BY <2>1, <2>5 DEF ProcessClientInitMessage, Sends, Enters
  <2>6. QED
    BY <2>2, <2>3, <2>4, <2>5
<1>3. Tables'
  BY <1>1, <1>2 DEF AgreementInv, Tables, IsTable, sharingVars, viewerVars
<1>4. \A u \in Viewers : u # v => SameAt(u)
  BY <1>1, <1>2 DEF SameAt, AgreementInv, Tables, IsTable, SharingInv,
                    ClientsTyped, viewerVars
<1>5. SameSettings
  BY <1>1 DEF SameSettings, sharingVars
<1>6. QED
  BY <1>1, <1>3, <1>4, <1>5
     DEF StepOf, AgreementInv, Tables, IsTable, viewerVars

(* The thread reads the viewer's version. *)
LEMMA ProtocolVersionAgrees ==
  ASSUME AgreementInv, NEW v \in Viewers, ProcessClientProtocolVersion(v)
  PROVE  StepOf(v) /\ Situation(v)'
<1> DEFINE types == Message("types", SecurityType)
           type32 == Message("type32", SecurityType)
           challenge == Message("challenge", 0)
<1>1. /\ StepOf(v) /\ SameSettings
      /\ viewer'[v] = viewer[v] /\ minor'[v] = minor[v]
      /\ up'[v] = Tail(up[v])
  BY ThreadStep
<1>2. /\ open[v] /\ state[v] = "RFB_PROTOCOL_VERSION" /\ up[v] # <<>>
      /\ minor[v] \in Nat
  BY DEF ProcessClientProtocolVersion, Takes, AgreementInv, Tables
<1>3. \/ viewer[v] = "failed"
      \/ /\ viewer[v] = "security" /\ down[v] = <<>>
         /\ up[v] = <<Message("version", minor[v])>>
  BY <1>2 DEF AgreementInv, Situation, AtStart, AtVersion, AtSecurity,
              AtChallenge, AtResult, AtReason, AtServerInit, AtConnected
<1>4. CASE viewer[v] = "failed"
  BY <1>1, <1>4 DEF Situation
<1>5. CASE /\ viewer[v] = "security" /\ down[v] = <<>>
           /\ up[v] = <<Message("version", minor[v])>>
  <2>1. Head(up[v]).value = minor[v] /\ Tail(up[v]) = <<>>
    BY <1>5, ShortSequences DEF Message
  <2>2. agreed'[v] = minor[v] /\ open'[v]
    BY <1>2, <2>1 DEF ProcessClientProtocolVersion, AgreementInv, Tables,
                      IsTable
  <2>3. /\ viewer'[v] = "security" /\ agreed'[v] = minor'[v] /\ open'[v]
        /\ up'[v] = <<>> /\ SecurityType' = SecurityType
        /\ authPasswdData' = authPasswdData
    BY <1>1, <1>5, <2>1, <2>2 DEF SameSettings, SecurityType
  <2>4. CASE minor[v] >= 7
    <3>1. /\ down'[v] = <<>> \o <<types>>
          /\ state'[v] = "RFB_SECURITY_TYPE"
      BY <1>5, <2>2, <2>4
         DEF ProcessClientProtocolVersion, Sends, Enters, AgreementInv,
             Tables, IsTable, SharingInv, ClientsTyped
    <3>2. down'[v] = <<types>>
      BY <3>1, ShortSequences
    <3>3. minor'[v] > 6
      BY <1>1, <1>2, <2>4
    <3>4. AtSecurity(v)'
      BY <2>3, <3>1, <3>2, <3>3 DEF AtSecurity, Message
    <3>5. QED
      BY <1>1, <2>3, <3>4 DEF Situation
  <2>5. CASE minor[v] < 7 /\ authPasswdData
    <3>1. /\ down'[v] = <<>> \o <<type32, challenge>>
          /\ state'[v] = "RFB_AUTHENTICATION"
      BY <1>2, <1>5, <2>2, <2>5
         DEF ProcessClientProtocolVersion, Sends, Enters, AgreementInv,
             Tables, IsTable, SharingInv, ClientsTyped
    <3>2. down'[v] = <<type32, challenge>>
      BY <3>1, ShortSequences
    <3>3. minor'[v] <= 6
      BY <1>1, <1>2, <2>5
    <3>4. AtSecurity(v)'
      BY <2>3, <2>5, <3>1, <3>2, <3>3 DEF AtSecurity, Message
    <3>5. QED
      BY <1>1, <2>3, <3>4 DEF Situation
  <2>6. CASE minor[v] < 7 /\ ~authPasswdData
    <3>1. /\ down'[v] = <<>> \o <<type32>>
          /\ state'[v] = "RFB_INITIALISATION"
      BY <1>2, <1>5, <2>2, <2>6
         DEF ProcessClientProtocolVersion, Sends, Enters, AgreementInv,
             Tables, IsTable, SharingInv, ClientsTyped
    <3>2. down'[v] = <<type32>>
      BY <3>1, ShortSequences
    <3>3. minor'[v] <= 6
      BY <1>1, <1>2, <2>6
    <3>4. AtSecurity(v)'
      BY <2>3, <2>6, <3>1, <3>2, <3>3 DEF AtSecurity, Message
    <3>5. QED
      BY <1>1, <2>3, <3>4 DEF Situation
  <2>7. QED
    BY <1>2, <2>4, <2>5, <2>6
<1>6. QED
  BY <1>3, <1>4, <1>5

(* The thread reads the security type. *)
LEMMA SecurityTypeAgrees ==
  ASSUME AgreementInv, NEW v \in Viewers, ProcessClientSecurityType(v)
  PROVE  StepOf(v) /\ Situation(v)'
<1> DEFINE type == Message("type", SecurityType)
           challenge == Message("challenge", 0)
           ok == Message("result", "ok")
<1>1. /\ StepOf(v) /\ SameSettings
      /\ viewer'[v] = viewer[v] /\ minor'[v] = minor[v]
      /\ given'[v] = given[v] /\ up'[v] = Tail(up[v])
  BY ThreadStep
<1>2. /\ open[v] /\ state[v] = "RFB_SECURITY_TYPE" /\ up[v] # <<>>
      /\ minor[v] \in Nat /\ agreed' = agreed
      /\ SecurityType' = SecurityType /\ authPasswdData' = authPasswdData
  BY <1>1 DEF ProcessClientSecurityType, Takes, AgreementInv, Tables,
              SecurityType, SameSettings
<1>3. CASE viewer[v] = "failed"
  BY <1>1, <1>3 DEF Situation
<1>4. CASE viewer[v] # "failed"
  <2>1. /\ agreed[v] = minor[v] /\ down[v] = <<>>
        /\ \/ viewer[v] = "challenge" /\ authPasswdData /\ up[v] = <<type>>
           \/ /\ viewer[v] = "result" /\ ~authPasswdData /\ minor[v] > 7
              /\ up[v] = <<type>>
           \/ /\ viewer[v] = "serverInit" /\ ~authPasswdData
              /\ minor[v] <= 7
              /\ \E s \in BOOLEAN : up[v] = <<type, Message("clientInit", s)>>
    BY <1>2, <1>4
       DEF AgreementInv, Situation, AtStart, AtVersion, AtSecurity,
           AtChallenge, AtResult, AtReason, AtServerInit, AtConnected
  <2>2. type.value = SecurityType
    BY DEF Message
  <2>3. Head(up[v]) = type
    <3> HIDE DEF type
    <3> QED
      BY <2>1, ShortSequences
  <2>4. Head(up[v]).value = SecurityType
    BY <2>2, <2>3
  <2>5. /\ open'[v] /\ agreed'[v] = minor'[v]
        /\ IF authPasswdData
             THEN /\ down'[v] = <<>> \o <<challenge>>
                  /\ state'[v] = "RFB_AUTHENTICATION"
             ELSE /\ down'[v] = <<>> \o NoneResult(minor[v])
                  /\ state'[v] = "RFB_INITIALISATION"
    <3>1. open' = open
      BY <2>4 DEF ProcessClientSecurityType
    <3>2. CASE authPasswdData
      <4>1. /\ down' = [down EXCEPT ![v] = down[v] \o <<challenge>>]
            /\ state' = [state EXCEPT ![v] = "RFB_AUTHENTICATION"]
        BY <2>4, <3>2 DEF ProcessClientSecurityType, Sends, Enters
      <4>2. QED
        BY <1>1, <1>2, <2>1, <3>1, <3>2, <4>1
           DEF AgreementInv, Tables, IsTable, SharingInv, ClientsTyped
    <3>3. CASE ~authPasswdData
      <4>1. /\ down' = [down EXCEPT ![v] = down[v] \o NoneResult(agreed[v])]
            /\ state' = [state EXCEPT ![v] = "RFB_INITIALISATION"]
        BY <2>4, <3>3 DEF ProcessClientSecurityType, Sends, Enters
      <4>2. QED
        BY <1>1, <1>2, <2>1, <3>1, <3>3, <4>1
           DEF AgreementInv, Tables, IsTable, SharingInv, ClientsTyped
    <3>4. QED
      BY <3>2, <3>3
  <2>6. CASE viewer[v] = "challenge" /\ authPasswdData /\ up[v] = <<type>>
    <3>1. up'[v] = <<>> /\ down'[v] = <<challenge>>
      BY <1>1, <2>5, <2>6, ShortSequences
    <3>2. AtChallenge(v)'
      BY <1>2, <2>5, <2>6, <3>1 DEF AtChallenge, Message
    <3>3. QED
      BY <1>1, <2>6, <3>2 DEF Situation
  <2>7. CASE /\ viewer[v] = "result" /\ ~authPasswdData /\ minor[v] > 7
             /\ up[v] = <<type>>
    <3>1. up'[v] = <<>> /\ down'[v] = <<ok>>
      BY <1>1, <2>5, <2>7, ShortSequences DEF NoneResult
    <3>2. AtResult(v)'
      BY <1>1, <1>2, <2>5, <2>7, <3>1 DEF AtResult, Message
    <3>3. QED
      BY <1>1, <2>7, <3>2 DEF Situation
  <2>8. CASE /\ viewer[v] = "serverInit" /\ ~authPasswdData /\ minor[v] <= 7
             /\ \E s \in BOOLEAN : up[v] = <<type, Message("clientInit", s)>>
    <3>1. PICK s \in BOOLEAN : up[v] = <<type, Message("clientInit", s)>>
      BY <2>8
    <3>2. up'[v] = <<Message("clientInit", s)>>
      BY <1>1, <3>1, ShortSequences
    <3>3. \E t \in BOOLEAN : up'[v] = <<Message("clientInit", t)>>
      BY <3>2
    <3>4. NoneResult(minor[v]) = <<>>
      BY <1>2, <2>8 DEF NoneResult
    <3>5. down'[v] = <<>> /\ state'[v] = "RFB_INITIALISATION"
      BY <2>5, <2>8, <3>4, ShortSequences
    <3>6. AtServerInit(v)'
      BY <1>2, <2>5, <2>8, <3>3, <3>5 DEF AtServerInit, Message
    <3>7. QED
      BY <1>1, <2>8, <3>6 DEF Situation
  <2>9. QED
    BY <2>1, <2>6, <2>7, <2>8
<1>5. QED
  BY <1>3, <1>4

(* The thread reads the answer to the challenge. *)
LEMMA AuthenticationAgrees ==
  ASSUME AgreementInv, NEW v \in Viewers, AuthProcessClientMessage(v)
  PROVE  StepOf(v) /\ Situation(v)'
<1> DEFINE ok == Message("result", "ok")
<1>1. /\ StepOf(v) /\ SameSettings
      /\ viewer'[v] = viewer[v] /\ minor'[v] = minor[v]
      /\ given'[v] = given[v] /\ up'[v] = Tail(up[v])
  BY ThreadStep
<1>2. /\ open[v] /\ state[v] = "RFB_AUTHENTICATION" /\ up[v] # <<>>
      /\ agreed' = agreed
      /\ SecurityType' = SecurityType /\ authPasswdData' = authPasswdData
  BY <1>1 DEF AuthProcessClientMessage, Takes, SecurityType, SameSettings
<1>3. CASE viewer[v] = "failed"
  BY <1>1, <1>3 DEF Situation
<1>4. CASE viewer[v] # "failed"
  <2>1. /\ agreed[v] = minor[v] /\ down[v] = <<>>
        /\ viewer[v] = "result" /\ authPasswdData
        /\ up[v] = <<Message("response", given[v])>>
    BY <1>2, <1>4
       DEF AgreementInv, Situation, AtStart, AtVersion, AtSecurity,
           AtChallenge, AtResult, AtReason, AtServerInit, AtConnected
  <2>2. Head(up[v]).value = given[v] /\ Tail(up[v]) = <<>>
    BY <2>1, ShortSequences DEF Message
  <2>3. CASE given[v] = "right"
    <3>1. /\ down' = [down EXCEPT ![v] = down[v] \o <<ok>>]
          /\ state' = [state EXCEPT ![v] = "RFB_INITIALISATION"]
          /\ open' = open
      BY <2>2, <2>3 DEF AuthProcessClientMessage, Sends, Enters
    <3>2. /\ down'[v] = <<>> \o <<ok>>
          /\ state'[v] = "RFB_INITIALISATION" /\ open'[v]
      BY <1>2, <2>1, <3>1
         DEF AgreementInv, Tables, IsTable, SharingInv, ClientsTyped
    <3>3. down'[v] = <<ok>> /\ up'[v] = <<>>
      BY <1>1, <2>2, <3>2, ShortSequences
    <3>4. AtResult(v)'
      BY <1>1, <1>2, <2>1, <2>3, <3>2, <3>3 DEF AtResult, Message
    <3>5. QED
      BY <1>1, <2>1, <3>4 DEF Situation
  <2>4. CASE given[v] # "right"
    <3>1. /\ down' = [down EXCEPT ![v] = down[v] \o Refusal(agreed[v])]
          /\ state' = state
          /\ open' = [open EXCEPT ![v] = FALSE]
      BY <2>2, <2>4 DEF AuthProcessClientMessage, Sends
    <3>2. /\ down'[v] = <<>> \o Refusal(minor[v])
          /\ state'[v] = "RFB_AUTHENTICATION" /\ ~open'[v]
      BY <1>2, <2>1, <3>1
         DEF AgreementInv, Tables, IsTable, SharingInv, ClientsTyped
    <3>3. /\ down'[v] = Refusal(minor'[v]) /\ up'[v] = <<>>
      BY <1>1, <2>2, <3>2, ShortSequences DEF Refusal
    <3>4. AtResult(v)'
      BY <1>1, <1>2, <2>1, <3>2, <3>3 DEF AtResult, Message, Refusal
    <3>5. QED
      BY <1>1, <2>1, <3>4 DEF Situation
  <2>5. QED
    BY <2>3, <2>4
<1>5. QED
  BY <1>3, <1>4

(* The thread reads ClientInit. *)
LEMMA ClientInitAgrees ==
  ASSUME AgreementInv, NEW v \in Viewers, ProcessClientInitMessage(v)
  PROVE  StepOf(v) /\ Situation(v)'
<1> DEFINE params == Message("serverInit", 0)
<1>1. /\ StepOf(v) /\ SameSettings
      /\ viewer'[v] = viewer[v] /\ minor'[v] = minor[v]
      /\ given'[v] = given[v]
  BY ThreadStep
<1>2. /\ open[v] /\ state[v] = "RFB_INITIALISATION" /\ up[v] # <<>>
      /\ agreed' = agreed /\ authPasswdData' = authPasswdData
      /\ down' = [down EXCEPT ![v] = down[v] \o <<params>>]
      /\ state' = [state EXCEPT ![v] = "RFB_NORMAL"]
  BY <1>1 DEF ProcessClientInitMessage, Takes, Sends, Enters, SameSettings
<1>3. CASE viewer[v] = "failed"
  BY <1>1, <1>3 DEF Situation
<1>4. CASE viewer[v] # "failed"
  <2>1. /\ viewer[v] = "serverInit" /\ down[v] = <<>>
        /\ agreed[v] = minor[v] /\ (authPasswdData => given[v] = "right")
    BY <1>2, <1>4
       DEF AgreementInv, Situation, AtStart, AtVersion, AtSecurity,
           AtChallenge, AtResult, AtReason, AtServerInit, AtConnected
  <2>2. down'[v] = <<>> \o <<params>> /\ state'[v] = "RFB_NORMAL"
    BY <1>2, <2>1 DEF AgreementInv, Tables, IsTable, SharingInv, ClientsTyped
  <2>3. down'[v] = <<params>>
    BY <2>2, ShortSequences
  <2>4. AtServerInit(v)'
    BY <1>1, <1>2, <2>1, <2>2, <2>3 DEF AtServerInit, Message
  <2>5. QED
    BY <1>1, <2>1, <2>4 DEF Situation
<1>5. QED
  BY <1>3, <1>4

(* A comparison closes normal clients only, and none of the situations of  *)
(* a normal client says whether it is open.                                *)
LEMMA CompareAgrees ==
  ASSUME AgreementInv, NEW v \in Viewers, NEW o \in Viewers,
         CompareWith(v, o)
  PROVE  Tables' /\ \A u \in Viewers : Situation(u)'
<1>1. UNCHANGED <<sharingVars, state, agreed, viewerVars, up, down>>
  BY DEF CompareWith
<1>2. Tables'
  BY <1>1 DEF AgreementInv, Tables, IsTable, sharingVars, viewerVars
<1>3. state[v] = "RFB_NORMAL"
  BY DEF CompareWith, AgreementInv, SharingInv, Compares
<1>4. \A u \in Viewers : state[u] # "RFB_NORMAL" => open'[u] = open[u]
  <2> SUFFICES ASSUME NEW u \in Viewers, state[u] # "RFB_NORMAL"
               PROVE  open'[u] = open[u]
    OBVIOUS
  <2>1. \/ open' = [open EXCEPT ![v] = FALSE]
        \/ open' = [open EXCEPT
                      ![o] = @ /\ ~(open[o] /\ state[o] = "RFB_NORMAL")]
    BY DEF CompareWith
  <2>2. open \in [Viewers -> BOOLEAN]
    BY DEF AgreementInv, SharingInv, ClientsTyped
  <2>3. CASE open' = [open EXCEPT ![v] = FALSE]
    BY <1>3, <2>2, <2>3
  <2>4. CASE open' = [open EXCEPT
                       ![o] = @ /\ ~(open[o] /\ state[o] = "RFB_NORMAL")]
    BY <2>2, <2>4, Zenon
  <2>5. QED
    BY <2>1, <2>3, <2>4
<1>5. ASSUME NEW u \in Viewers
      PROVE  Situation(u)'
  <2>1. Situation(u) /\ SameSettings
    BY <1>1 DEF AgreementInv, SameSettings, sharingVars
  <2>2. CASE state[u] # "RFB_NORMAL"
    <3>1. SameAt(u)
      BY <1>1, <1>4, <2>2 DEF SameAt, viewerVars
    <3>2. QED
      BY <2>1, <3>1, SituationStays
  <2>3. CASE state[u] = "RFB_NORMAL"
    <3>1. \/ viewer[u] = "failed"
          \/ viewer[u] = "connected" /\ AtConnected(u)
          \/ viewer[u] = "serverInit" /\ AtServerInit(u)
      BY <2>1, <2>3 DEF Situation, AtStart, AtVersion, AtSecurity,
                        AtChallenge, AtResult, AtReason
    <3>2. AtConnected(u) => AtConnected(u)'
      BY <1>1 DEF AtConnected, sharingVars, viewerVars
    <3>3. AtServerInit(u) => AtServerInit(u)'
      BY <1>1, <2>3 DEF AtServerInit, Message, sharingVars, viewerVars
    <3>4. QED
      BY <1>1, <3>1, <3>2, <3>3 DEF Situation, viewerVars
  <2>4. QED
    BY <2>2, <2>3
<1>6. QED
  BY <1>2, <1>5

(* Every step of the viewers and of the threads keeps the situations.      *)
LEMMA AgreementNextInv ==
  ASSUME AgreementInv, [HandshakeNext]_handshakeVars
  PROVE  AgreementInv'
<1>1. SharingInv'
  BY HandshakeNextInv DEF AgreementInv
<1>2. CASE HandshakeNext
  <2>1. PICK v \in Viewers : \/ Dial(v) \/ ViewerStep(v) \/ Misread(v)
                             \/ Hangup(v) \/ ServerThread(v)
    BY <1>2 DEF HandshakeNext
  <2>2. CASE \E o \in Viewers : CompareWith(v, o)
    BY <1>1, <2>2, CompareAgrees DEF AgreementInv
  <2>3. CASE ~ \E o \in Viewers : CompareWith(v, o)
    <3>1. StepOf(v) /\ Situation(v)'
      <4>1. CASE Dial(v) \/ Misread(v)
        BY <4>1, DialAgrees, NothingIsMisread
      <4>2. CASE ViewerStep(v) \/ Hangup(v)
        BY <4>2, ReadVersionAgrees, ChooseSecurityTypeAgrees,
           ReadSecurityTypeAgrees, AnswerChallengeAgrees, ReadResultAgrees,
           FailedAgrees, ReadServerInitAgrees
           DEF ViewerStep
      <4>3. CASE ServerThread(v)
        BY <2>3, <4>3, NewTCPClientAgrees, ProtocolVersionAgrees,
           SecurityTypeAgrees, AuthenticationAgrees, ClientInitAgrees,
           ClientGoneAgrees
           DEF ServerThread
      <4>4. QED
        BY <2>1, <4>1, <4>2, <4>3
    <3>2. QED
      BY <1>1, <3>1, StepOfOne DEF AgreementInv, StepOf
  <2>4. QED
    BY <2>2, <2>3
<1>3. CASE UNCHANGED handshakeVars
  <2>1. Tables' /\ SameSettings /\ \A v \in Viewers : SameAt(v)
    BY <1>3 DEF handshakeVars, sharingVars, clVars, viewerVars, AgreementInv,
                Tables, IsTable, SameSettings, SameAt
  <2>2. QED
    BY <1>1, <2>1, SituationStays DEF AgreementInv
<1>4. QED
  BY <1>2, <1>3

(* The viewer and the server agree on the handshake: no message is read    *)
(* for another one, whoever is connected was let in, with the right        *)
(* password if there is one, and neither side waits for the other.         *)
THEOREM HandshakesAgree == HandshakeSpec => []HandshakeAgrees
<1>1. HandshakeInit => AgreementInv
  <2> SUFFICES ASSUME HandshakeInit
               PROVE  AgreementInv
    OBVIOUS
  <2>1. SharingInv
    BY DEF HandshakeInit, SharingInv, ClientsTyped, Compares,
           OneSeesTheOther, States
  <2>2. Tables
    BY HandshakeAssumption DEF HandshakeInit, Tables, IsTable
  <2>3. \A v \in Viewers : Situation(v)
    BY DEF HandshakeInit, Situation, AtStart
  <2>4. QED
    BY <2>1, <2>2, <2>3 DEF AgreementInv
<1>2. AgreementInv /\ [HandshakeNext]_handshakeVars => AgreementInv'
  BY AgreementNextInv
<1>3. AgreementInv => HandshakeAgrees
  <2> SUFFICES ASSUME AgreementInv, NEW v \in Viewers
               PROVE  /\ viewer[v] # "misread"
                      /\ viewer[v] = "connected" =>
                           /\ state[v] = "RFB_NORMAL"
                           /\ agreed[v] = minor[v]
                           /\ authPasswdData => given[v] = "right"
                      /\ viewer[v] \in Reading =>
                           \/ down[v] # <<>> \/ up[v] # <<>>
                           \/ state[v] = "none" \/ ~open[v]
    BY DEF HandshakeAgrees
  <2>1. Situation(v)
    BY DEF AgreementInv
  <2>2. viewer[v] # "misread"
    BY <2>1 DEF Situation
  <2>3. viewer[v] = "connected" => AtConnected(v)
    BY <2>1 DEF Situation
  <2>4. ASSUME viewer[v] \in Reading
        PROVE  \/ down[v] # <<>> \/ up[v] # <<>>
               \/ state[v] = "none" \/ ~open[v]
    BY <2>1, <2>4, ShortSequences
       DEF Situation, Reading, AtVersion, AtStart, AtSecurity, AtChallenge,
           AtResult, AtReason, AtServerInit, Refusal
  <2>5. QED
    BY <2>2, <2>3, <2>4 DEF AtConnected
<1>4. QED
  BY <1>1, <1>2, <1>3, PTL DEF HandshakeSpec

-----------------------------------------------------------------------------
(***************************************************************************)
(* ServerClients: the reference count of a client is the number of its     *)
(* users, and a client with users is not freed. The shape of the list is   *)
(* not needed for it: wherever a next pointer leads, a walker that does not*)
(* find a freed client there may count.                                    *)
(***************************************************************************)
Users(c) == {w \in Walkers : stage[w] = "use" /\ at[w] = c}
Sending(c) == IF output[c] = "sending" THEN 1 ELSE 0

(* The walkers that stand at a client. *)
AtClient ==
  \A w \in Walkers : stage[w] \in {"skip", "count", "use"} => at[w] \in Clients

Counted == \A c \in Clients : refCount[c] = Cardinality(Users(c)) + Sending(c)

(* The output thread has ended before its client is unlinked, and a client *)
(* that is freed has no user.                                              *)
OutputJoined ==
  \A c \in Clients :
    /\ input[c] \in {"none", "gone", "waitRefs", "ended"}
         => output[c] \in {"none", "ended"}
    /\ life[c] = "unborn" <=> input[c] = "none"
    /\ life[c] = "freed" => input[c] = "ended" /\ refCount[c] = 0

ClientsInv == ClientsTypeOK /\ AtClient /\ Counted /\ OutputJoined

(* The users of a client are finitely many. *)
LEMMA UsersAreFinite ==
  ASSUME NEW c
  PROVE  IsFiniteSet(Users(c)) /\ Cardinality(Users(c)) \in Nat
<1>1. Users(c) \in SUBSET Walkers
  BY DEF Users
<1>2. IsFiniteSet(Users(c))
  BY <1>1, ClientsAssumption, FS_Subset
<1>3. QED
  BY <1>2, FS_CardinalityType

(* Steps that take and give no reference. *)
LEMMA NoReferenceMoves ==
  ASSUME Counted, UNCHANGED refCount,
         \A c \in Clients : Users(c)' = Users(c),
         \A c \in Clients : output'[c] = "sending" <=> output[c] = "sending"
  PROVE  Counted'
<1>1. \A c \in Clients : Sending(c)' = Sending(c)
  BY DEF Sending
<1>2. QED
  BY <1>1 DEF Counted

(* TSIGNAL() moves a thread that waits, to the test of the socket. *)
LEMMA WokenMoves ==
  ASSUME ClientsTypeOK, NEW c \in Clients, output' = Woken(c)
  PROVE  /\ output' \in [Clients -> {"none", "test", "lock", "wait", "defer",
                                     "sending", "ended"}]
         /\ \A d \in Clients : /\ output'[d] = "sending" <=> output[d] = "sending"
                               /\ output[d] \in {"none", "ended"}
                                    => output'[d] = output[d]
BY DEF ClientsTypeOK, Woken

(* The listener links a client, or a hook of the application refuses it. *)
LEMMA NewClientInv ==
  ASSUME ClientsInv, NEW c \in Clients, NewClient(c)
  PROVE  ClientsInv'
<1>1. input[c] = "none" /\ output[c] \in {"none", "ended"}
  BY DEF NewClient, ClientsInv, OutputJoined
<1>2. ClientsTypeOK'
  BY DEF NewClient, ClientsInv, ClientsTypeOK, walkerVars
<1>3. \A d \in Clients : output'[d] = "sending" <=> output[d] = "sending"
  BY <1>1 DEF NewClient, ClientsInv, ClientsTypeOK
<1>4. Counted'
  BY <1>3, NoReferenceMoves DEF NewClient, ClientsInv, walkerVars, Users
<1>5. AtClient'
  BY DEF NewClient, ClientsInv, AtClient, walkerVars
<1>6. OutputJoined'
  BY <1>1 DEF NewClient, ClientsInv, ClientsTypeOK, OutputJoined
<1>7. QED
  BY <1>2, <1>4, <1>5, <1>6 DEF ClientsInv

(* clientInput(): it joins the output thread before the record is          *)
(* unlinked, and frees a record without references.                        *)
LEMMA InputInv ==
  ASSUME ClientsInv, NEW c \in Clients,
         \/ InputTimesOut(c) \/ InputHandles(c) \/ InputCloses(c)
         \/ InputThread(c)
  PROVE  ClientsInv'
<1>1. CASE InputHandles(c) \/ InputCloses(c) \/ InputSignals(c)
  <2>1. output' = Woken(c) /\ input[c] \in {"select", "signal"}
    BY <1>1 DEF InputHandles, InputCloses, InputSignals, Closes
  <2>2. UNCHANGED <<listVars, life, refCount, walkerVars>>
    BY <1>1 DEF InputHandles, InputCloses, InputSignals, recordVars
  <2>3. /\ sock' \in [Clients -> BOOLEAN] /\ pending' \in [Clients -> BOOLEAN]
        /\ \E p \in {"reading", "signal", "join"} : input' = [input EXCEPT ![c] = p]
    BY <1>1 DEF InputHandles, InputCloses, InputSignals, Closes, recordVars,
                ClientsInv, ClientsTypeOK
  <2>4. ClientsTypeOK'
    BY <2>1, <2>2, <2>3, WokenMoves
       DEF ClientsInv, ClientsTypeOK, listVars, walkerVars
  <2>5. Counted' /\ AtClient'
    BY <2>1, <2>2, WokenMoves, NoReferenceMoves
       DEF ClientsInv, AtClient, walkerVars, Users
  <2>6. OutputJoined'
    BY <2>1, <2>2, <2>3, WokenMoves
       DEF ClientsInv, ClientsTypeOK, OutputJoined
  <2>7. QED
    BY <2>4, <2>5, <2>6 DEF ClientsInv
<1>2. CASE \/ InputSelects(c) \/ InputSelectsNothing(c) \/ InputStops(c)
           \/ InputTimesOut(c) \/ InputJoins(c)
  <2>1. UNCHANGED <<listVars, recordVars, output, pending, walkerVars>>
    BY <1>2 DEF InputSelects, InputSelectsNothing, InputStops, InputTimesOut,
                InputJoins
  <2>2. \/ /\ input[c] \in {"reading", "select"}
           /\ \E p \in {"reading", "select", "signal", "blind"} :
                input' = [input EXCEPT ![c] = p]
        \/ /\ input[c] = "join" /\ output[c] = "ended"
           /\ input' = [input EXCEPT ![c] = "gone"]
    BY <1>2 DEF InputSelects, InputSelectsNothing, InputStops, InputTimesOut,
                InputJoins
  <2>3. ClientsTypeOK' /\ AtClient'
    BY <2>1, <2>2 DEF ClientsInv, ClientsTypeOK, AtClient, listVars,
                      recordVars, walkerVars
  <2>4. Counted'
    BY <2>1, NoReferenceMoves DEF ClientsInv, recordVars, walkerVars, Users
  <2>5. OutputJoined'
    BY <2>1, <2>2 DEF ClientsInv, ClientsTypeOK, OutputJoined, recordVars
  <2>6. QED
    BY <2>3, <2>4, <2>5 DEF ClientsInv
<1>3. CASE Unlink(c)
  <2>1. /\ input[c] = "gone" /\ input' = [input EXCEPT ![c] = "waitRefs"]
        /\ life' = [life EXCEPT ![c] = "unlinked"]
        /\ UNCHANGED <<refCount, output, walkerVars>>
    BY <1>3 DEF Unlink
  <2>2. ClientsTypeOK'
    BY <1>3 DEF Unlink, ClientsInv, ClientsTypeOK, walkerVars
  <2>3. Counted' /\ AtClient'
    BY <2>1, NoReferenceMoves DEF ClientsInv, AtClient, walkerVars, Users
  <2>4. OutputJoined'
    BY <2>1 DEF ClientsInv, ClientsTypeOK, OutputJoined
  <2>5. QED
    BY <2>2, <2>3, <2>4 DEF ClientsInv
<1>4. CASE ConnectionGone(c)
  <2>1. /\ input[c] = "waitRefs" /\ input' = [input EXCEPT ![c] = "ended"]
        /\ refCount[c] = 0 /\ life' = [life EXCEPT ![c] = "freed"]
        /\ UNCHANGED <<refCount, output, walkerVars>>
    BY <1>4 DEF ConnectionGone, NoReferences
  <2>2. ClientsTypeOK'
    BY <1>4 DEF ConnectionGone, ClientsInv, ClientsTypeOK, walkerVars
  <2>3. Counted' /\ AtClient'
    BY <2>1, NoReferenceMoves DEF ClientsInv, AtClient, walkerVars, Users
  <2>4. OutputJoined'
    BY <2>1 DEF ClientsInv, ClientsTypeOK, OutputJoined
  <2>5. QED
    BY <2>2, <2>3, <2>4 DEF ClientsInv
<1>5. QED
  BY <1>1, <1>2, <1>3, <1>4 DEF InputThread

(* clientOutput(): it refers to its client while it sends. *)
LEMMA OutputInv ==
  ASSUME ClientsInv, NEW c \in Clients, OutputThread(c)
  PROVE  ClientsInv'
<1>1. UNCHANGED <<listVars, life, input, walkerVars>>
  BY DEF OutputThread, OutputTests, OutputWaits, OutputRefers, OutputSends,
         recordVars
<1>2. output[c] \notin {"none", "ended"} /\ life[c] # "freed"
  BY DEF OutputThread, OutputTests, OutputWaits, OutputRefers, OutputSends,
         ClientsInv, OutputJoined
<1>3. AtClient' /\ \A d \in Clients : Users(d)' = Users(d)
  BY <1>1 DEF ClientsInv, AtClient, walkerVars, Users
<1>4. CASE OutputTests(c) \/ OutputWaits(c)
  <2>1. PICK s \in {"test", "lock", "wait", "defer", "ended"} :
          output' = [output EXCEPT ![c] = s]
    BY <1>4 DEF OutputTests, OutputWaits
  <2>2. output[c] # "sending" /\ UNCHANGED <<recordVars, pending>>
    BY <1>4 DEF OutputTests, OutputWaits
  <2>3. \A d \in Clients : output'[d] = "sending" <=> output[d] = "sending"
    BY <2>1, <2>2 DEF ClientsInv, ClientsTypeOK
  <2>4. ClientsTypeOK'
    BY <1>1, <2>1, <2>2 DEF ClientsInv, ClientsTypeOK, listVars, recordVars,
                            walkerVars
  <2>5. Counted'
    BY <1>3, <2>2, <2>3, NoReferenceMoves DEF ClientsInv, recordVars
  <2>6. OutputJoined'
    BY <1>1, <1>2, <2>1, <2>2
       DEF ClientsInv, ClientsTypeOK, OutputJoined, recordVars
  <2>7. QED
    BY <1>3, <2>4, <2>5, <2>6 DEF ClientsInv
<1>5. CASE OutputRefers(c)
  <2>1. /\ output[c] = "defer" /\ output' = [output EXCEPT ![c] = "sending"]
        /\ refCount' = [refCount EXCEPT ![c] = refCount[c] + 1]
        /\ UNCHANGED <<sock, pending>>
    BY <1>5 DEF OutputRefers
  <2>2. ClientsTypeOK'
    BY <1>1, <2>1 DEF ClientsInv, ClientsTypeOK, listVars, walkerVars
  <2>3. Counted'
    <3> SUFFICES ASSUME NEW d \in Clients
                 PROVE  refCount'[d] = Cardinality(Users(d)') + Sending(d)'
      BY DEF Counted
    <3>1. Cardinality(Users(d)') = Cardinality(Users(d))
      BY <1>3
    <3>2. Cardinality(Users(d)) \in Nat
      BY UsersAreFinite
    <3>3. refCount[d] = Cardinality(Users(d)) + Sending(d)
      BY DEF ClientsInv, Counted
    <3>4. CASE d = c
      BY <2>1, <3>1, <3>2, <3>3, <3>4 DEF Sending, ClientsInv, ClientsTypeOK
    <3>5. CASE d # c
      BY <2>1, <3>1, <3>3, <3>5 DEF Sending, ClientsInv, ClientsTypeOK
    <3>6. QED
      BY <3>4, <3>5
  <2>4. OutputJoined'
    BY <1>1, <1>2, <2>1 DEF ClientsInv, ClientsTypeOK, OutputJoined
  <2>5. QED
    BY <1>3, <2>2, <2>3, <2>4 DEF ClientsInv
<1>6. CASE OutputSends(c)
  <2>1. /\ output[c] = "sending" /\ output' = [output EXCEPT ![c] = "test"]
        /\ refCount' = [refCount EXCEPT ![c] = refCount[c] - 1]
        /\ pending' = [pending EXCEPT ![c] = FALSE]
        /\ sock' \in {sock, [sock EXCEPT ![c] = FALSE]}
    BY <1>6 DEF OutputSends
  <2>2. Counted'
    <3> SUFFICES ASSUME NEW d \in Clients
                 PROVE  refCount'[d] = Cardinality(Users(d)') + Sending(d)'
      BY DEF Counted
    <3>1. Cardinality(Users(d)') = Cardinality(Users(d))
      BY <1>3
    <3>2. Cardinality(Users(d)) \in Nat
      BY UsersAreFinite
    <3>3. refCount[d] = Cardinality(Users(d)) + Sending(d)
      BY DEF ClientsInv, Counted
    <3>4. CASE d = c
      BY <2>1, <3>1, <3>2, <3>3, <3>4 DEF Sending, ClientsInv, ClientsTypeOK
    <3>5. CASE d # c
      BY <2>1, <3>1, <3>3, <3>5 DEF Sending, ClientsInv, ClientsTypeOK
    <3>6. QED
      BY <3>4, <3>5
  <2>3. refCount[c] >= 1
    BY <2>1, UsersAreFinite DEF ClientsInv, Counted, Sending
  <2>4. refCount' \in [Clients -> Nat]
    BY <2>1, <2>3 DEF ClientsInv, ClientsTypeOK
  <2>5. ClientsTypeOK'
    BY <1>1, <2>1, <2>4 DEF ClientsInv, ClientsTypeOK, listVars, walkerVars
  <2>6. OutputJoined'
    BY <1>1, <1>2, <2>1 DEF ClientsInv, ClientsTypeOK, OutputJoined
  <2>7. QED
    BY <1>3, <2>2, <2>5, <2>6 DEF ClientsInv
<1>7. QED
  BY <1>4, <1>5, <1>6 DEF OutputThread

(* A walker counts a client that it does not use yet. *)
LEMMA WalkCountsInv ==
  ASSUME ClientsInv, NEW w \in Walkers, WalkCounts(w)
  PROVE  ClientsInv'
<1> DEFINE c == at[w]
<1>1. /\ c \in Clients /\ life[c] # "freed" /\ stage[w] = "count"
      /\ refCount' = [refCount EXCEPT ![c] = refCount[c] + 1]
      /\ stage' = [stage EXCEPT ![w] = "use"]
      /\ UNCHANGED <<listVars, life, sock, loopVars, at>>
  BY DEF WalkCounts, NextIsLost, ClientsInv, AtClient
<1>2. Cardinality({v \in Walkers : stage'[v] = "use" /\ at'[v] = c})
        = Cardinality(Users(c)) + 1
  <2>1. {v \in Walkers : stage'[v] = "use" /\ at'[v] = c} = Users(c) \cup {w}
    BY <1>1 DEF Users, ClientsInv, ClientsTypeOK
  <2>2. w \notin Users(c)
    BY <1>1 DEF Users
  <2>3. QED
    BY <2>1, <2>2, UsersAreFinite, FS_AddElement
<1>3. Counted'
  <2> SUFFICES ASSUME NEW d \in Clients
               PROVE  refCount'[d] = Cardinality(Users(d)') + Sending(d)'
    BY DEF Counted
  <2>1. refCount[d] = Cardinality(Users(d)) + Sending(d)
    BY DEF ClientsInv, Counted
  <2>2. Sending(d)' = Sending(d) /\ Sending(d) \in Nat
    BY <1>1 DEF Sending, loopVars
  <2>3. Cardinality(Users(d)) \in Nat
    BY UsersAreFinite
  <2>4. CASE d = c
    <3>1. Users(d)' = {v \in Walkers : stage'[v] = "use" /\ at'[v] = c}
      BY <2>4 DEF Users
    <3>2. refCount'[d] = refCount[d] + 1
      BY <1>1, <2>4 DEF ClientsInv, ClientsTypeOK
    <3>3. QED
      BY <1>2, <2>1, <2>2, <2>3, <2>4, <3>1, <3>2
  <2>5. CASE d # c
    <3>1. Users(d)' = Users(d)
      BY <1>1, <2>5 DEF Users, ClientsInv, ClientsTypeOK
    <3>2. refCount'[d] = refCount[d]
      BY <1>1, <2>5 DEF ClientsInv, ClientsTypeOK
    <3>3. QED
      BY <2>1, <2>2, <3>1, <3>2
  <2>6. QED
    BY <2>4, <2>5
<1>4. ClientsTypeOK'
  BY <1>1 DEF ClientsInv, ClientsTypeOK, listVars, loopVars
<1>5. AtClient'
  BY <1>1 DEF ClientsInv, ClientsTypeOK, AtClient
<1>6. OutputJoined'
  BY <1>1 DEF ClientsInv, ClientsTypeOK, OutputJoined, loopVars
<1>7. QED
  BY <1>3, <1>4, <1>5, <1>6 DEF ClientsInv

(* A walker leaves a client, for the next one or for good. *)
LEMMA WalkLeavesInv ==
  ASSUME ClientsInv, NEW w \in Walkers, WalkOn(w) \/ ReleaseIterator(w)
  PROVE  ClientsInv'
<1> DEFINE c == at[w]
<1>1. PICK s \in {"idle", "skip"}, n \in Clients \cup {Null} :
        /\ stage' = [stage EXCEPT ![w] = s] /\ at' = [at EXCEPT ![w] = n]
        /\ s = "skip" => n # Null
  <2>1. CASE WalkOn(w)
    <3>1. at[w] \in Clients
      BY <2>1 DEF WalkOn, ClientsInv, AtClient
    <3>2. next[at[w]] \in Clients \cup {Null}
      BY <3>1 DEF ClientsInv, ClientsTypeOK
    <3>3. at'[w] = next[at[w]]
      BY <2>1 DEF WalkOn, ClientsInv, ClientsTypeOK
    <3>4. CASE next[at[w]] = Null
      BY <2>1, <3>2, <3>3, <3>4 DEF WalkOn
    <3>5. CASE next[at[w]] # Null
      BY <2>1, <3>2, <3>3, <3>5 DEF WalkOn
    <3>6. QED
      BY <3>4, <3>5
  <2>2. CASE ReleaseIterator(w)
    BY <2>2 DEF ReleaseIterator
  <2>3. QED
    BY <2>1, <2>2
<1>2. /\ c \in Clients /\ stage[w] = "use"
      /\ refCount' = [refCount EXCEPT ![c] = refCount[c] - 1]
      /\ UNCHANGED <<listVars, life, sock, loopVars>>
  BY DEF WalkOn, ReleaseIterator, ClientsInv, AtClient
<1>3. {v \in Walkers : stage'[v] = "use" /\ at'[v] = c} = Users(c) \ {w}
  BY <1>1 DEF Users, ClientsInv, ClientsTypeOK
<1>4. /\ Cardinality(Users(c) \ {w}) = Cardinality(Users(c)) - 1
      /\ Cardinality(Users(c)) >= 1
  <2>1. w \in Users(c)
    BY <1>2 DEF Users
  <2>2. Cardinality(Users(c) \ {w}) \in Nat
    BY UsersAreFinite, FS_RemoveElement, FS_CardinalityType
  <2>3. Cardinality(Users(c) \ {w}) = Cardinality(Users(c)) - 1
    BY <2>1, UsersAreFinite, FS_RemoveElement
  <2>4. QED
    BY <2>2, <2>3, UsersAreFinite
<1>5. refCount[c] >= 1 /\ refCount[c] \in Nat
  BY <1>2, <1>4, UsersAreFinite
     DEF ClientsInv, Counted, Sending, ClientsTypeOK
<1>6. Counted'
  <2> SUFFICES ASSUME NEW d \in Clients
               PROVE  refCount'[d] = Cardinality(Users(d)') + Sending(d)'
    BY DEF Counted
  <2>1. refCount[d] = Cardinality(Users(d)) + Sending(d)
    BY DEF ClientsInv, Counted
  <2>2. Sending(d)' = Sending(d) /\ Sending(d) \in Nat
    BY <1>2 DEF Sending, loopVars
  <2>3. Cardinality(Users(d)) \in Nat
    BY UsersAreFinite
  <2>4. CASE d = c
    <3>1. Users(d)' = {v \in Walkers : stage'[v] = "use" /\ at'[v] = c}
      BY <2>4 DEF Users
    <3>2. refCount'[d] = refCount[d] - 1
      BY <1>2, <2>4 DEF ClientsInv, ClientsTypeOK
    <3>3. Users(d)' = Users(d) \ {w}
      BY <1>3, <2>4, <3>1
    <3>4. Cardinality(Users(d)') = Cardinality(Users(d)) - 1
      BY <1>4, <2>4, <3>3
    <3>5. QED
      BY <2>1, <2>2, <2>3, <3>2, <3>4
  <2>5. CASE d # c
    <3>1. Users(d)' = Users(d)
      BY <1>1, <2>5 DEF Users, ClientsInv, ClientsTypeOK
    <3>2. refCount'[d] = refCount[d]
      BY <1>2, <2>5 DEF ClientsInv, ClientsTypeOK
    <3>3. QED
      BY <2>1, <2>2, <3>1, <3>2
  <2>6. QED
    BY <2>4, <2>5
<1>7. ClientsTypeOK'
  BY <1>1, <1>2, <1>5 DEF ClientsInv, ClientsTypeOK, listVars, loopVars
<1>8. AtClient'
  BY <1>1 DEF ClientsInv, ClientsTypeOK, AtClient
<1>9. OutputJoined'
  BY <1>2, <1>5 DEF ClientsInv, ClientsTypeOK, OutputJoined, loopVars
<1>10. QED
  BY <1>6, <1>7, <1>8, <1>9 DEF ClientsInv

(* The other steps of a walker move it between clients it has not counted, *)
(* or signal the threads of one that it has.                               *)
LEMMA WalkerInv ==
  ASSUME ClientsInv, NEW w \in Walkers, Walk(w) \/ Mark(w) \/ CloseOther(w)
  PROVE  ClientsInv'
<1>1. CASE WalkOn(w) \/ ReleaseIterator(w)
  BY <1>1, WalkLeavesInv
<1>2. CASE WalkCounts(w)
  BY <1>2, WalkCountsInv
<1>3. CASE WalkFromHead(w) \/ WalkSkips(w) \/ WalkIsLost(w)
  <2>1. UNCHANGED <<listVars, recordVars, loopVars>> /\ stage[w] # "use"
    BY <1>3 DEF WalkFromHead, WalkSkips, WalkIsLost
  <2>2. PICK s \in {"idle", "skip", "count", "lost"},
             d \in Clients \cup {Null} :
          /\ stage' = [stage EXCEPT ![w] = s] /\ at' = [at EXCEPT ![w] = d]
          /\ s \in {"skip", "count"} => d \in Clients
    <3>1. CASE WalkFromHead(w)
      BY <3>1 DEF WalkFromHead, ClientsInv, ClientsTypeOK
    <3>2. CASE WalkIsLost(w)
      BY <3>2 DEF WalkIsLost, ClientsInv, ClientsTypeOK
    <3>3. CASE WalkSkips(w)
      <4>1. at[w] \in Clients
        BY <3>3 DEF WalkSkips, ClientsInv, AtClient
      <4>2. CASE sock[at[w]]
        BY <3>3, <4>1, <4>2 DEF WalkSkips, ClientsInv, ClientsTypeOK
      <4>3. CASE ~sock[at[w]]
        <5>1. next[at[w]] \in Clients \cup {Null}
          BY <4>1 DEF ClientsInv, ClientsTypeOK
        <5>2. at' = [at EXCEPT ![w] = next[at[w]]] /\ at'[w] = next[at[w]]
          BY <3>3, <4>3 DEF WalkSkips, ClientsInv, ClientsTypeOK
        <5>3. CASE next[at[w]] = Null
          BY <3>3, <4>3, <5>2, <5>3 DEF WalkSkips
        <5>4. CASE next[at[w]] # Null
          BY <3>3, <4>3, <5>1, <5>2, <5>4 DEF WalkSkips
        <5>5. QED
          BY <5>3, <5>4
      <4>4. QED
        BY <4>2, <4>3
    <3>4. QED
      BY <1>3, <3>1, <3>2, <3>3
  <2>3. \A c \in Clients : Users(c)' = Users(c)
    BY <2>1, <2>2 DEF Users, ClientsInv, ClientsTypeOK
  <2>4. Counted'
    BY <2>1, <2>3, NoReferenceMoves DEF ClientsInv, recordVars, loopVars
  <2>5. ClientsTypeOK' /\ AtClient'
    BY <2>1, <2>2 DEF ClientsInv, ClientsTypeOK, AtClient, listVars,
                      recordVars, loopVars
  <2>6. OutputJoined'
    BY <2>1 DEF ClientsInv, OutputJoined, recordVars, loopVars
  <2>7. QED
    BY <2>4, <2>5, <2>6 DEF ClientsInv
<1>4. CASE Mark(w) \/ CloseOther(w)
  <2>1. /\ at[w] \in Clients /\ output' = Woken(at[w])
        /\ UNCHANGED <<listVars, life, refCount, input, walkerVars>>
    BY <1>4 DEF Mark, CloseOther, Closes, recordVars, ClientsInv, AtClient
  <2>2. sock' \in [Clients -> BOOLEAN] /\ pending' \in [Clients -> BOOLEAN]
    BY <1>4 DEF Mark, CloseOther, Closes, recordVars, ClientsInv,
                ClientsTypeOK
  <2>3. ClientsTypeOK'
    BY <2>1, <2>2, WokenMoves
       DEF ClientsInv, ClientsTypeOK, listVars, walkerVars
  <2>4. Counted' /\ AtClient'
    BY <2>1, WokenMoves, NoReferenceMoves
       DEF ClientsInv, AtClient, walkerVars, Users
  <2>5. OutputJoined'
    BY <2>1, WokenMoves DEF ClientsInv, OutputJoined
  <2>6. QED
    BY <2>3, <2>4, <2>5 DEF ClientsInv
<1>5. QED
  BY <1>1, <1>2, <1>3, <1>4 DEF Walk

(* Every step of a thread of the server. *)
LEMMA ClientsNextInv ==
  ASSUME ClientsInv, [ClientsNext]_clientsVars
  PROVE  ClientsInv'
<1>1. CASE \E c \in Clients :
             \/ NewClient(c) \/ InputTimesOut(c) \/ InputHandles(c)
             \/ InputCloses(c) \/ InputThread(c) \/ OutputThread(c)
  BY <1>1, NewClientInv, InputInv, OutputInv
<1>2. CASE \E w \in Walkers : Walk(w) \/ Mark(w) \/ CloseOther(w)
  BY <1>2, WalkerInv
<1>3. CASE UNCHANGED clientsVars
  BY <1>3 DEF clientsVars, listVars, recordVars, loopVars, walkerVars,
              ClientsInv, ClientsTypeOK, AtClient, Counted, OutputJoined,
              Users, Sending
<1>4. QED
  BY <1>1, <1>2, <1>3 DEF ClientsNext

(* Nobody uses anything at first. *)
LEMMA ClientsInitInv ==
  ASSUME ClientsInit
  PROVE  ClientsInv
<1>1. ClientsTypeOK /\ AtClient /\ OutputJoined
  BY DEF ClientsInit, ClientsTypeOK, AtClient, OutputJoined
<1>2. \A c \in Clients : Users(c) = {} /\ Sending(c) = 0
  BY DEF ClientsInit, Users, Sending
<1>3. Counted
  BY <1>2, FS_EmptySet DEF ClientsInit, Counted
<1>4. QED
  BY <1>1, <1>3 DEF ClientsInv

(* The typing, and what it rests on: the output thread is joined before    *)
(* the client is unlinked.                                                 *)
THEOREM ClientsInvariance == ClientsSpec => []ClientsInv
<1>1. ClientsInit => ClientsInv
  BY ClientsInitInv
<1>2. ClientsInv /\ [ClientsNext]_clientsVars => ClientsInv'
  BY ClientsNextInv
<1>3. QED
  BY <1>1, <1>2, PTL DEF ClientsSpec

(* A client's count is the number of threads that use it, and one that is  *)
(* freed has none, for any number of clients and walkers, although the     *)
(* walkers read pointers of clients they have not counted.                 *)
THEOREM UsedIsNotFreed == ClientsSpec => []CountedIsAlive
<1>1. ClientsInv => CountedIsAlive
  <2> SUFFICES ASSUME ClientsInv, NEW c \in Clients
               PROVE  /\ refCount[c] = Holders(c)
                      /\ life[c] = "freed" =>
                           refCount[c] = 0 /\ output[c] \in {"none", "ended"}
    BY DEF CountedIsAlive
  <2>1. refCount[c] = Holders(c)
    BY DEF ClientsInv, Counted, Holders, Users, Sending
  <2>2. QED
    BY <2>1 DEF ClientsInv, OutputJoined
<1>2. QED
  BY <1>1, ClientsInvariance, PTL

-----------------------------------------------------------------------------
(***************************************************************************)
(* RfbCursor: the client has every pixel that is not to be sent, with the  *)
(* cursor drawn into it or not, as it draws the cursor itself or does not. *)
(***************************************************************************)
(* What the server takes a client to show at a pixel that is neither       *)
(* modified nor to be copied.                                              *)
Shown(p, drawsItself, buffer, c, x) ==
  IF drawsItself THEN buffer[p] ELSE ShowCursor(buffer, c, x)[p]

CursorTyped ==
  /\ frameBuffer \in [Row -> Inks]
  /\ cursor \in CursorShapes /\ cursorX \in Row
  /\ cl \in ClientRecords

(* Every pixel the server takes the client to have is right ... *)
PixelsAreRight ==
  \A p \in Row \ cl.modifiedRegion :
    IF p \in cl.copyRegion
    THEN picture[p - cl.copyDX] = frameBuffer[p]
    ELSE picture[p] = Shown(p, cl.enableCursorShapeUpdates, frameBuffer, cursor,
                            cl.cursorX)

(* ... and what is to be copied gets no cursor from it: where the cursor   *)
(* is drawn, pixels are sent.                                              *)
NoCopyUnderCursor ==
  ~cl.enableCursorShapeUpdates =>
    \A p \in cl.copyRegion \cap SavedUnder(cursor, cl.cursorX) :
      p \in cl.modifiedRegion

CursorIsKnown ==
  /\ cl.enableCursorShapeUpdates /\ ~cl.cursorWasChanged =>
       shownCursor.shape = cursor \/ EmptyCursor(cursor)
  /\ cl.enableCursorPosUpdates /\ ~cl.cursorWasMoved =>
       shownCursor.x = cursorX

CursorInv ==
  /\ CursorTyped
  /\ frameBuffer = drawn
  /\ cl.open => PixelsAreRight /\ NoCopyUnderCursor /\ CursorIsKnown

-----------------------------------------------------------------------------
(* Pixels are integers, and so is what cursors are made of. *)
LEMMA RowIsInt ==
  /\ ScreenWidth \in Nat /\ Row \subseteq Int
  /\ \A c \in CursorShapes : c.width \in Nat /\ c.xhot \in Nat
  /\ CopyShifts \subseteq Int
BY CursorAssumption DEF Row

(* The types of a client's fields. *)
LEMMA ClientParts ==
  ASSUME NEW c \in ClientRecords
  PROVE  /\ c.modifiedRegion \subseteq Row /\ c.copyRegion \subseteq Row
         /\ c.requestedRegion \subseteq Row
         /\ c.cursorX \in Row /\ c.copyDX \in Int
         /\ c.open \in BOOLEAN /\ c.enableCursorShapeUpdates \in BOOLEAN
<1>1. c.copyDX \in CopyShifts \cup {0}
  BY DEF ClientRecords
<1>2. 0 \in Int
  OBVIOUS
<1>3. c.copyDX \in CopyShifts \/ c.copyDX = 0
  BY <1>1
<1>4. c.copyDX \in Int
  BY <1>2, <1>3, RowIsInt
<1>5. QED
  BY <1>4 DEF ClientRecords

(* Pixels that are moved. *)
LEMMA Moved ==
  ASSUME NEW region, region \subseteq Int, NEW dx \in Int, NEW p \in Int
  PROVE  /\ p \in MovedBy(region, dx) <=> p - dx \in region
         /\ p - dx \in MovedBy(region, -dx) <=> p \in region
<1>1. \A r \in region : r \in Int
  OBVIOUS
<1>2. p \in MovedBy(region, dx) <=> \E r \in region : p = r + dx
  BY DEF MovedBy
<1>3. p - dx \in MovedBy(region, -dx) <=> \E r \in region : p - dx = r + (-dx)
  BY DEF MovedBy
<1>4. \A r \in region : (p = r + dx <=> p - dx = r) /\ (p - dx = r + (-dx) <=> p = r)
  BY <1>1
<1>5. QED
  BY <1>2, <1>3, <1>4

(* The cursor changes no pixel but those that are saved and restored.      *)
LEMMA CursorCovers ==
  ASSUME NEW c \in CursorShapes, NEW x \in Row
  PROVE  /\ SavedUnder(c, x) \subseteq RedrawAfterHideCursor(c, x)
         /\ RedrawAfterHideCursor(c, x) \subseteq Row
         /\ RedrawAfterHideCursor(c, x) \subseteq
              (x - c.xhot)..(x - c.xhot + c.width - 1)
BY DEF SavedUnder, RedrawAfterHideCursor

(* ... and a client sees no difference elsewhere. *)
LEMMA ShownElsewhere ==
  ASSUME NEW p \in Row, NEW drawsItself, NEW buffer, NEW c, NEW x,
         drawsItself \/ p \notin SavedUnder(c, x)
  PROVE  Shown(p, drawsItself, buffer, c, x) = buffer[p]
BY DEF Shown, ShowCursor

(* Only the pixel itself decides what is shown at it. *)
LEMMA ShownByPixel ==
  ASSUME NEW p \in Row, NEW drawsItself, NEW buffer, NEW other, NEW c, NEW x,
         buffer[p] = other[p]
  PROVE  Shown(p, drawsItself, buffer, c, x) = Shown(p, drawsItself, other, c, x)
BY DEF Shown, ShowCursor

(* Hiding the cursor restores the frame buffer. *)
LEMMA HiddenIsRestored ==
  ASSUME NEW buffer \in [Row -> Inks], NEW c, NEW x
  PROVE  HideCursor(ShowCursor(buffer, c, x), UnderCursorBuffer(buffer, c, x), c, x)
           = buffer
<1> DEFINE saved == SavedUnder(c, x)
           under == UnderCursorBuffer(buffer, c, x)
           after == HideCursor(ShowCursor(buffer, c, x), under, c, x)
<1>1. \A p \in saved : under[p] = buffer[p]
  BY DEF UnderCursorBuffer
<1>2. \A p \in Row : p \notin saved => ShowCursor(buffer, c, x)[p] = buffer[p]
  BY DEF ShowCursor
<1>3. /\ after = [p \in Row |-> after[p]]
      /\ \A p \in Row : after[p] = IF p \in saved THEN under[p]
                                   ELSE ShowCursor(buffer, c, x)[p]
  BY DEF HideCursor
<1> HIDE DEF after, under, saved
<1>4. \A p \in Row : after[p] = buffer[p]
  BY <1>1, <1>2, <1>3
<1>5. after = buffer
  BY <1>3, <1>4
<1>6. QED
  BY <1>5 DEF after, under

-----------------------------------------------------------------------------
(* The application draws a pixel. *)
LEMMA DrawInv == CursorInv /\ DrawUnderCursor => CursorInv'
<1> SUFFICES ASSUME CursorInv, DrawUnderCursor PROVE CursorInv'
  OBVIOUS
<1>1. PICK q \in Row, i \in Inks :
        /\ frameBuffer' = [frameBuffer EXCEPT ![q] = i]
        /\ drawn' = frameBuffer'
        /\ cl' = [cl EXCEPT !.modifiedRegion = @ \cup {q}]
  BY DEF DrawUnderCursor
<1>2. UNCHANGED <<cursor, cursorX, picture, shownCursor>> /\ cl.open
  BY DEF DrawUnderCursor, CursorStep
<1>3. cl \in ClientRecords /\ cursor \in CursorShapes /\ cursorX \in Row
      /\ frameBuffer \in [Row -> Inks]
  BY DEF CursorInv, CursorTyped
<1>4. /\ cl' \in ClientRecords
      /\ cl'.modifiedRegion = cl.modifiedRegion \cup {q}
      /\ cl'.copyRegion = cl.copyRegion /\ cl'.copyDX = cl.copyDX
      /\ cl'.cursorX = cl.cursorX
      /\ cl'.enableCursorShapeUpdates = cl.enableCursorShapeUpdates
      /\ cl'.enableCursorPosUpdates = cl.enableCursorPosUpdates
      /\ cl'.cursorWasChanged = cl.cursorWasChanged
      /\ cl'.cursorWasMoved = cl.cursorWasMoved
  BY <1>1, <1>3 DEF ClientRecords
<1>5. /\ frameBuffer' \in [Row -> Inks]
      /\ \A p \in Row : p # q => frameBuffer'[p] = frameBuffer[p]
  BY <1>1, <1>3
<1>6. CursorTyped'
  BY <1>2, <1>3, <1>4, <1>5 DEF CursorTyped
<1>7. ASSUME NEW p \in Row, p \notin cl'.modifiedRegion
      PROVE  IF p \in cl'.copyRegion
             THEN picture'[p - cl'.copyDX] = frameBuffer'[p]
             ELSE picture'[p] = Shown(p, cl'.enableCursorShapeUpdates, frameBuffer',
                                      cursor', cl'.cursorX)
  <2>1. p \notin cl.modifiedRegion /\ p # q
    BY <1>4, <1>7
  <2>2. frameBuffer'[p] = frameBuffer[p]
    BY <1>5, <2>1
  <2>3. Shown(p, cl.enableCursorShapeUpdates, frameBuffer', cursor, cl.cursorX)
          = Shown(p, cl.enableCursorShapeUpdates, frameBuffer, cursor, cl.cursorX)
    BY <2>2, ShownByPixel
  <2>4. QED
    BY <1>2, <1>4, <2>1, <2>2, <2>3 DEF CursorInv, PixelsAreRight
<1>8. PixelsAreRight'
  BY <1>7 DEF PixelsAreRight
<1>9. NoCopyUnderCursor'
  BY <1>2, <1>4 DEF CursorInv, NoCopyUnderCursor
<1>10. CursorIsKnown'
  BY <1>2, <1>4 DEF CursorInv, CursorIsKnown
<1>11. QED
  BY <1>1, <1>6, <1>8, <1>9, <1>10 DEF CursorInv

(* The application copies pixels: those that are copied later by the       *)
(* client are right in its picture, and free of the cursor.                *)
LEMMA ScheduledIsRight ==
  ASSUME CursorTyped, PixelsAreRight, NoCopyUnderCursor,
         NEW dest \in SUBSET Row, NEW dx \in CopyShifts,
         MovedBy(dest, -dx) \subseteq Row,
         frameBuffer' = [p \in Row |-> IF p \in dest THEN frameBuffer[p - dx]
                                       ELSE frameBuffer[p]],
         cl' = ScheduleCopy(dest, dx),
         UNCHANGED <<cursor, picture>>
  PROVE  /\ cl' \in ClientRecords
         /\ PixelsAreRight' /\ NoCopyUnderCursor'
         /\ cl'.enableCursorShapeUpdates = cl.enableCursorShapeUpdates
         /\ cl'.enableCursorPosUpdates = cl.enableCursorPosUpdates
         /\ cl'.cursorWasChanged = cl.cursorWasChanged
         /\ cl'.cursorWasMoved = cl.cursorWasMoved
<1> DEFINE again    == cl.copyRegion # {} /\ cl.copyDX # dx
           spoilt   == IF again THEN cl.copyRegion
                       ELSE MovedBy(dest, -dx) \cap cl.copyRegion
           modified == cl.modifiedRegion \cup spoilt
           copy     == (IF again THEN {} ELSE cl.copyRegion) \cup dest
           area     == (cl.cursorX - cursor.xhot)..
                       (cl.cursorX - cursor.xhot + cursor.width - 1)
           m        == modified \cup (MovedBy(modified, dx) \cap copy)
                         \cup (IF cl.enableCursorShapeUpdates THEN {}
                               ELSE UnderCursor(area, dx, copy))
<1>1. cl \in ClientRecords /\ cursor \in CursorShapes /\ dx \in Int
      /\ frameBuffer \in [Row -> Inks]
  BY RowIsInt DEF CursorTyped
<1>2. cl' = [cl EXCEPT !.copyRegion = copy, !.copyDX = dx, !.modifiedRegion = m]
  BY DEF ScheduleCopy
<1>3. copy \subseteq Row /\ dest \subseteq copy /\ modified \subseteq Row
  BY <1>1, ClientParts
<1>4. m \subseteq Row
  BY <1>3 DEF UnderCursor
<1> HIDE DEF copy, m
<1>5. /\ cl' \in ClientRecords
      /\ cl'.modifiedRegion = m /\ cl'.copyRegion = copy /\ cl'.copyDX = dx
      /\ cl'.cursorX = cl.cursorX
      /\ cl'.enableCursorShapeUpdates = cl.enableCursorShapeUpdates
      /\ cl'.enableCursorPosUpdates = cl.enableCursorPosUpdates
      /\ cl'.cursorWasChanged = cl.cursorWasChanged
      /\ cl'.cursorWasMoved = cl.cursorWasMoved
  BY <1>1, <1>2, <1>3, <1>4 DEF ClientRecords
<1>6. /\ \A p \in dest : frameBuffer'[p] = frameBuffer[p - dx]
      /\ \A p \in Row \ dest : frameBuffer'[p] = frameBuffer[p]
  OBVIOUS
<1>7. \A p \in Row : p \notin m => p \notin modified /\ p \notin cl.modifiedRegion
  BY DEF m
<1>8. ASSUME NEW p \in Row \ m, p \in dest
      PROVE  picture[p - dx] = frameBuffer'[p]
  <2> DEFINE q == p - dx
  <2>0. p \in Int /\ p \in copy
    BY <1>3, <1>8, RowIsInt
  <2>1. q \in MovedBy(dest, -dx) /\ q \in Row
    BY <1>1, <1>8, <2>0, Moved, RowIsInt
  <2>2. q \notin modified
    <3>1. p \notin MovedBy(modified, dx)
      BY <1>8, <2>0 DEF m
    <3>2. modified \subseteq Int
      BY <1>3, RowIsInt
    <3>3. QED
      BY <1>1, <2>0, <3>1, <3>2, Moved
  <2>3. q \notin cl.modifiedRegion /\ q \notin cl.copyRegion
    BY <2>1, <2>2
  <2>4. cl.enableCursorShapeUpdates \/ q \notin SavedUnder(cursor, cl.cursorX)
    <3>1. SUFFICES ASSUME ~cl.enableCursorShapeUpdates PROVE q \notin area
      BY <1>1, CursorCovers, ClientParts
    <3>2. p \notin MovedBy(area, dx)
      BY <1>8, <2>0, <3>1 DEF m, UnderCursor
    <3>3. area \subseteq Int
      OBVIOUS
    <3> HIDE DEF area
    <3>4. QED
      BY <1>1, <2>0, <3>2, <3>3, Moved
  <2> HIDE DEF q
  <2>5. picture[q] = frameBuffer[q]
    BY <2>1, <2>3, <2>4, ShownElsewhere DEF PixelsAreRight
  <2>6. QED
    BY <1>6, <1>8, <2>5 DEF q
<1>9. ASSUME NEW p \in Row \ m, p \notin dest, p \in copy
      PROVE  picture[p - dx] = frameBuffer'[p]
  <2>1. p \in cl.copyRegion /\ cl.copyDX = dx
    BY <1>9 DEF copy
  <2>2. p \notin cl.modifiedRegion
    BY <1>7, <1>9
  <2>3. QED
    BY <1>6, <1>9, <2>1, <2>2 DEF PixelsAreRight
<1>10. ASSUME NEW p \in Row \ m, p \notin copy
       PROVE  picture[p] = Shown(p, cl.enableCursorShapeUpdates, frameBuffer',
                                 cursor, cl.cursorX)
  <2>1. p \notin cl.copyRegion /\ p \notin dest
    BY <1>7, <1>10 DEF copy
  <2>2. frameBuffer'[p] = frameBuffer[p] /\ p \notin cl.modifiedRegion
    BY <1>6, <1>7, <1>10, <2>1
  <2>3. Shown(p, cl.enableCursorShapeUpdates, frameBuffer', cursor, cl.cursorX)
          = Shown(p, cl.enableCursorShapeUpdates, frameBuffer, cursor, cl.cursorX)
    BY <2>2, ShownByPixel
  <2>4. QED
    BY <1>10, <2>1, <2>2, <2>3 DEF PixelsAreRight
<1>11. PixelsAreRight'
  BY <1>5, <1>8, <1>9, <1>10 DEF PixelsAreRight
<1>12. NoCopyUnderCursor'
  <2> SUFFICES ASSUME ~cl.enableCursorShapeUpdates,
                      NEW p \in copy \cap SavedUnder(cursor, cl.cursorX)
               PROVE  p \in m
    BY <1>5 DEF NoCopyUnderCursor
  <2>1. p \in area
    BY <1>1, CursorCovers, ClientParts
  <2>2. QED
    BY <2>1 DEF m, UnderCursor
<1>13. QED
  BY <1>5, <1>11, <1>12

(* The application copies a part of the screen: rfbScheduleCopyRegion(). *)
LEMMA CopyInv == CursorInv /\ CopyUnderCursor => CursorInv'
<1> SUFFICES ASSUME CursorInv, CopyUnderCursor PROVE CursorInv'
  OBVIOUS
<1>1. PICK dx \in CopyShifts, a \in Row, b \in Row :
        /\ a..b # {} /\ MovedBy(a..b, -dx) \subseteq Row
        /\ frameBuffer' = [p \in Row |-> IF p \in a..b THEN frameBuffer[p - dx]
                                         ELSE frameBuffer[p]]
        /\ cl' = IF cl.useCopyRect THEN ScheduleCopy(a..b, dx)
                 ELSE [cl EXCEPT !.modifiedRegion = @ \cup (a..b)]
  BY DEF CopyUnderCursor
<1> DEFINE dest == a..b
<1>2. /\ UNCHANGED <<cursor, cursorX, picture, shownCursor>> /\ cl.open
      /\ drawn' = frameBuffer'
  BY DEF CopyUnderCursor, CursorStep
<1>3. cl \in ClientRecords /\ cursor \in CursorShapes /\ cursorX \in Row
      /\ frameBuffer \in [Row -> Inks] /\ dx \in Int
  BY RowIsInt DEF CursorInv, CursorTyped
<1>4. dest \subseteq Row
  BY RowIsInt DEF Row
<1>5. MovedBy(dest, -dx) \subseteq Row /\
      frameBuffer' = [p \in Row |-> IF p \in dest THEN frameBuffer[p - dx]
                                    ELSE frameBuffer[p]]
  BY <1>1
<1>6. cl' = IF cl.useCopyRect THEN ScheduleCopy(dest, dx)
            ELSE [cl EXCEPT !.modifiedRegion = @ \cup dest]
  BY <1>1
<1> HIDE DEF dest
<1>7. frameBuffer' \in [Row -> Inks]
  <2>1. \A p \in dest : p - dx \in Row
    <3> TAKE p \in dest
    <3>1. p \in Int /\ dest \subseteq Int
      BY <1>4, RowIsInt
    <3>2. QED
      BY <1>3, <1>5, <3>1, Moved
  <2>2. QED
    BY <1>3, <1>5, <2>1
<1>8. CASE cl.useCopyRect
  <2>1. /\ cl' \in ClientRecords
        /\ PixelsAreRight' /\ NoCopyUnderCursor'
        /\ cl'.enableCursorShapeUpdates = cl.enableCursorShapeUpdates
        /\ cl'.enableCursorPosUpdates = cl.enableCursorPosUpdates
        /\ cl'.cursorWasChanged = cl.cursorWasChanged
        /\ cl'.cursorWasMoved = cl.cursorWasMoved
    BY <1>2, <1>4, <1>5, <1>6, <1>8, ScheduledIsRight DEF CursorInv
  <2>2. CursorIsKnown'
    BY <1>2, <2>1 DEF CursorInv, CursorIsKnown
  <2>3. CursorTyped'
    BY <1>2, <1>3, <1>7, <2>1 DEF CursorTyped
  <2>4. QED
    BY <1>2, <2>1, <2>2, <2>3 DEF CursorInv
<1>9. CASE ~cl.useCopyRect
  <2>1. cl.modifiedRegion \cup dest \subseteq Row
    BY <1>3, <1>4, ClientParts
  <2>2. /\ cl' \in ClientRecords
        /\ cl'.modifiedRegion = cl.modifiedRegion \cup dest
        /\ cl'.copyRegion = cl.copyRegion /\ cl'.copyDX = cl.copyDX
        /\ cl'.cursorX = cl.cursorX
        /\ cl'.enableCursorShapeUpdates = cl.enableCursorShapeUpdates
        /\ cl'.enableCursorPosUpdates = cl.enableCursorPosUpdates
        /\ cl'.cursorWasChanged = cl.cursorWasChanged
        /\ cl'.cursorWasMoved = cl.cursorWasMoved
    BY <1>3, <1>6, <1>9, <2>1 DEF ClientRecords
  <2>3. ASSUME NEW p \in Row, p \notin cl'.modifiedRegion
        PROVE  IF p \in cl'.copyRegion
               THEN picture'[p - cl'.copyDX] = frameBuffer'[p]
               ELSE picture'[p] = Shown(p, cl'.enableCursorShapeUpdates,
                                        frameBuffer', cursor', cl'.cursorX)
    <3>1. p \notin cl.modifiedRegion /\ p \notin dest
      BY <2>2, <2>3
    <3>2. frameBuffer'[p] = frameBuffer[p]
      BY <1>5, <3>1
    <3>3. Shown(p, cl.enableCursorShapeUpdates, frameBuffer', cursor, cl.cursorX)
            = Shown(p, cl.enableCursorShapeUpdates, frameBuffer, cursor, cl.cursorX)
      BY <3>2, ShownByPixel
    <3>4. QED
      BY <1>2, <2>2, <3>1, <3>2, <3>3 DEF CursorInv, PixelsAreRight
  <2>4. PixelsAreRight'
    BY <2>3 DEF PixelsAreRight
  <2>5. NoCopyUnderCursor' /\ CursorIsKnown'
    BY <1>2, <2>2 DEF CursorInv, NoCopyUnderCursor, CursorIsKnown
  <2>6. CursorTyped'
    BY <1>2, <1>3, <1>7, <2>2 DEF CursorTyped
  <2>7. QED
    BY <1>2, <2>4, <2>5, <2>6 DEF CursorInv
<1>10. QED
  BY <1>8, <1>9

-----------------------------------------------------------------------------
(* Steps that draw nothing: what the cursor covers may change if it is     *)
(* modified from then on.                                                  *)
LEMMA PixelsStayRight ==
  ASSUME CursorTyped, CursorTyped', PixelsAreRight, NoCopyUnderCursor,
         UNCHANGED <<frameBuffer, picture>>,
         cl.modifiedRegion \subseteq cl'.modifiedRegion,
         cl'.copyRegion \subseteq cl.copyRegion,
         cl.copyRegion \ cl'.copyRegion \subseteq cl'.modifiedRegion,
         cl'.copyDX = cl.copyDX, cl'.cursorX = cl.cursorX,
         \A p \in Row \ cl'.modifiedRegion :
           Shown(p, cl'.enableCursorShapeUpdates, frameBuffer, cursor', cl.cursorX)
             = Shown(p, cl.enableCursorShapeUpdates, frameBuffer, cursor, cl.cursorX),
         ~cl'.enableCursorShapeUpdates =>
           /\ ~cl.enableCursorShapeUpdates
           /\ SavedUnder(cursor', cl.cursorX) \subseteq
                SavedUnder(cursor, cl.cursorX) \cup cl'.modifiedRegion
  PROVE  PixelsAreRight' /\ NoCopyUnderCursor'
<1>1. ASSUME NEW p \in Row, p \notin cl'.modifiedRegion
      PROVE  IF p \in cl'.copyRegion
             THEN picture'[p - cl'.copyDX] = frameBuffer'[p]
             ELSE picture'[p] = Shown(p, cl'.enableCursorShapeUpdates, frameBuffer',
                                      cursor', cl'.cursorX)
  <2>1. p \notin cl.modifiedRegion
    BY <1>1
  <2>2. p \in cl'.copyRegion <=> p \in cl.copyRegion
    BY <1>1
  <2>3. QED
    BY <1>1, <2>1, <2>2 DEF PixelsAreRight
<1>2. NoCopyUnderCursor'
  BY DEF NoCopyUnderCursor
<1>3. QED
  BY <1>1, <1>2 DEF PixelsAreRight

(* rfbSetCursor(): the old cursor is drawn over, the new one announced. *)
LEMMA SetCursorInv == CursorInv /\ SetCursor => CursorInv'
<1> SUFFICES ASSUME CursorInv, SetCursor PROVE CursorInv'
  OBVIOUS
<1>1. PICK c \in CursorShapes :
        /\ cursor' = c
        /\ cl' = [cl EXCEPT
                    !.cursorWasChanged = TRUE,
                    !.modifiedRegion =
                      IF cl.enableCursorShapeUpdates THEN @
                      ELSE @ \cup RedrawAfterHideCursor(cursor, cl.cursorX)
                             \cup RedrawAfterHideCursor(c, cl.cursorX)]
  BY DEF SetCursor
<1>2. UNCHANGED <<frameBuffer, drawn, cursorX, picture, shownCursor>> /\ cl.open
  BY DEF SetCursor, CursorStep
<1>3. cl \in ClientRecords /\ cursor \in CursorShapes /\ cl.cursorX \in Row
      /\ cl.modifiedRegion \subseteq Row
  BY ClientParts DEF CursorInv, CursorTyped
<1>4. /\ RedrawAfterHideCursor(cursor, cl.cursorX) \subseteq Row
      /\ RedrawAfterHideCursor(c, cl.cursorX) \subseteq Row
      /\ SavedUnder(cursor, cl.cursorX) \subseteq RedrawAfterHideCursor(cursor, cl.cursorX)
      /\ SavedUnder(c, cl.cursorX) \subseteq RedrawAfterHideCursor(c, cl.cursorX)
  BY <1>3, CursorCovers
<1>5. /\ cl' \in ClientRecords
      /\ cl.enableCursorShapeUpdates => cl'.modifiedRegion = cl.modifiedRegion
      /\ ~cl.enableCursorShapeUpdates =>
           cl'.modifiedRegion = cl.modifiedRegion
                                  \cup RedrawAfterHideCursor(cursor, cl.cursorX)
                                  \cup RedrawAfterHideCursor(c, cl.cursorX)
      /\ cl'.copyRegion = cl.copyRegion /\ cl'.copyDX = cl.copyDX
      /\ cl'.cursorX = cl.cursorX
      /\ cl'.enableCursorShapeUpdates = cl.enableCursorShapeUpdates
      /\ cl'.enableCursorPosUpdates = cl.enableCursorPosUpdates
      /\ cl'.cursorWasChanged
      /\ cl'.cursorWasMoved = cl.cursorWasMoved
  BY <1>1, <1>3, <1>4 DEF ClientRecords
<1>6. CursorTyped'
  BY <1>1, <1>2, <1>5 DEF CursorInv, CursorTyped
<1>7. ASSUME NEW p \in Row \ cl'.modifiedRegion
      PROVE  Shown(p, cl'.enableCursorShapeUpdates, frameBuffer, cursor', cl.cursorX)
               = Shown(p, cl.enableCursorShapeUpdates, frameBuffer, cursor, cl.cursorX)
  BY <1>1, <1>4, <1>5, <1>7, ShownElsewhere
<1>8. ~cl'.enableCursorShapeUpdates =>
        SavedUnder(cursor', cl.cursorX) \subseteq cl'.modifiedRegion
  BY <1>1, <1>4, <1>5
<1>9. PixelsAreRight' /\ NoCopyUnderCursor'
  BY <1>2, <1>5, <1>6, <1>7, <1>8, PixelsStayRight DEF CursorInv
<1>10. CursorIsKnown'
  BY <1>2, <1>5 DEF CursorInv, CursorIsKnown
<1>11. QED
  BY <1>2, <1>6, <1>9, <1>10 DEF CursorInv

(* The pointer moves, by a client or by the application. *)
LEMMA PointerInv == CursorInv /\ (\E b \in BOOLEAN : PointerMoved(b)) => CursorInv'
<1> SUFFICES ASSUME CursorInv, NEW byClient \in BOOLEAN, PointerMoved(byClient)
             PROVE  CursorInv'
  OBVIOUS
<1>1. /\ UNCHANGED <<frameBuffer, drawn, cursor, picture>> /\ cl.open
      /\ cursorX' \in Row
      /\ cl' = IF cl.enableCursorPosUpdates
               THEN [cl EXCEPT !.cursorWasMoved = ~byClient] ELSE cl
      /\ shownCursor' = IF byClient THEN [shownCursor EXCEPT !.x = cursorX']
                        ELSE shownCursor
  BY DEF PointerMoved, CursorStep
<1>2. cl \in ClientRecords
  BY DEF CursorInv, CursorTyped
<1>3. /\ cl' \in ClientRecords
      /\ cl'.modifiedRegion = cl.modifiedRegion
      /\ cl'.copyRegion = cl.copyRegion /\ cl'.copyDX = cl.copyDX
      /\ cl'.cursorX = cl.cursorX
      /\ cl'.enableCursorShapeUpdates = cl.enableCursorShapeUpdates
      /\ cl'.enableCursorPosUpdates = cl.enableCursorPosUpdates
      /\ cl'.cursorWasChanged = cl.cursorWasChanged
      /\ cl.enableCursorPosUpdates => cl'.cursorWasMoved = ~byClient
  BY <1>1, <1>2 DEF ClientRecords
<1>4. CursorTyped'
  BY <1>1, <1>3 DEF CursorInv, CursorTyped
<1>5. PixelsAreRight' /\ NoCopyUnderCursor'
  BY <1>1, <1>3 DEF CursorInv, PixelsAreRight, NoCopyUnderCursor
<1>6. shownCursor'.shape = shownCursor.shape /\ (byClient => shownCursor'.x = cursorX')
  BY <1>1 DEF CursorInv
<1>7. CursorIsKnown'
  BY <1>1, <1>3, <1>6 DEF CursorInv, CursorIsKnown
<1>8. QED
  BY <1>1, <1>4, <1>5, <1>7 DEF CursorInv

(* The client changes its encodings: a cursor that was drawn for it is     *)
(* still in its picture.                                                   *)
LEMMA EncodingsInv == CursorInv /\ CursorEncodings => CursorInv'
<1> SUFFICES ASSUME CursorInv, CursorEncodings PROVE CursorInv'
  OBVIOUS
<1>1. PICK shape \in BOOLEAN, pos \in BOOLEAN, copyRect \in BOOLEAN :
        /\ cl.enableCursorShapeUpdates => shape
        /\ cl' = [cl EXCEPT
                   !.useCopyRect = copyRect,
                   !.enableCursorShapeUpdates = shape,
                   !.cursorWasChanged = shape,
                   !.modifiedRegion =
                      IF shape THEN @ \cup RedrawAfterHideCursor(cursor, cl.cursorX)
                      ELSE @,
                   !.enableCursorPosUpdates = pos /\ shape,
                   !.cursorWasMoved = IF pos THEN TRUE ELSE @]
  BY DEF CursorEncodings
<1>2. UNCHANGED <<frameBuffer, drawn, cursor, cursorX, picture, shownCursor>> /\ cl.open
  BY DEF CursorEncodings, CursorStep
<1>3. cl \in ClientRecords /\ cursor \in CursorShapes /\ cl.cursorX \in Row
      /\ cl.modifiedRegion \subseteq Row /\ cl.enableCursorShapeUpdates \in BOOLEAN
  BY ClientParts DEF CursorInv, CursorTyped
<1>4. /\ RedrawAfterHideCursor(cursor, cl.cursorX) \subseteq Row
      /\ SavedUnder(cursor, cl.cursorX) \subseteq RedrawAfterHideCursor(cursor, cl.cursorX)
  BY <1>3, CursorCovers
<1>5. /\ shape => cl'.modifiedRegion = cl.modifiedRegion
                              \cup RedrawAfterHideCursor(cursor, cl.cursorX)
      /\ ~shape => cl'.modifiedRegion = cl.modifiedRegion
      /\ cl'.copyRegion = cl.copyRegion /\ cl'.copyDX = cl.copyDX
      /\ cl'.cursorX = cl.cursorX
      /\ cl'.enableCursorShapeUpdates = shape
      /\ cl'.cursorWasChanged = shape
      /\ pos /\ shape => cl'.cursorWasMoved
      /\ ~pos \/ ~shape => ~cl'.enableCursorPosUpdates
  BY <1>1, <1>3 DEF ClientRecords
<1>6. cl' \in ClientRecords
  <2> DEFINE m == IF shape THEN cl.modifiedRegion
                                  \cup RedrawAfterHideCursor(cursor, cl.cursorX)
                  ELSE cl.modifiedRegion
             pu == pos /\ shape
             wm == IF pos THEN TRUE ELSE cl.cursorWasMoved
  <2>1. m \in SUBSET Row /\ pu \in BOOLEAN
    BY <1>3, <1>4
  <2>2. wm \in BOOLEAN
    BY <1>3 DEF ClientRecords
  <2>3. cl' = [cl EXCEPT !.useCopyRect = copyRect, !.enableCursorShapeUpdates = shape,
                 !.cursorWasChanged = shape, !.modifiedRegion = m,
                 !.enableCursorPosUpdates = pu, !.cursorWasMoved = wm]
    BY <1>1
  <2> HIDE DEF m, pu, wm
  <2>4. shape \in BOOLEAN /\ copyRect \in BOOLEAN
    BY <1>1
  <2>5. cl' = [open |-> cl.open, useCopyRect |-> copyRect,
               enableCursorShapeUpdates |-> shape, enableCursorPosUpdates |-> pu,
               cursorWasChanged |-> shape, cursorWasMoved |-> wm,
               cursorX |-> cl.cursorX, copyDX |-> cl.copyDX, modifiedRegion |-> m,
               copyRegion |-> cl.copyRegion, requestedRegion |-> cl.requestedRegion]
    BY <1>3, <2>3 DEF ClientRecords
  <2>6. /\ cl.open \in BOOLEAN /\ cl.cursorX \in Row
        /\ cl.copyDX \in CopyShifts \cup {0}
        /\ cl.copyRegion \in SUBSET Row /\ cl.requestedRegion \in SUBSET Row
    BY <1>3 DEF ClientRecords
  <2>7. QED
    BY <2>1, <2>2, <2>4, <2>5, <2>6 DEF ClientRecords
<1>7. CursorTyped'
  BY <1>2, <1>6 DEF CursorInv, CursorTyped
<1>8. ASSUME NEW p \in Row \ cl'.modifiedRegion
      PROVE  Shown(p, cl'.enableCursorShapeUpdates, frameBuffer, cursor', cl.cursorX)
               = Shown(p, cl.enableCursorShapeUpdates, frameBuffer, cursor, cl.cursorX)
  <2>1. CASE shape
    <3>1. p \notin SavedUnder(cursor, cl.cursorX)
      BY <1>4, <1>5, <1>8, <2>1
    <3>2. QED
      BY <1>2, <3>1, ShownElsewhere
  <2>2. CASE ~shape
    <3>1. ~cl.enableCursorShapeUpdates
      BY <1>1, <2>2
    <3>2. cl'.enableCursorShapeUpdates = cl.enableCursorShapeUpdates
      BY <1>3, <1>5, <2>2, <3>1
    <3>3. QED
      BY <1>2, <3>2
  <2>3. QED
    BY <2>1, <2>2
<1>9. cl.modifiedRegion \subseteq cl'.modifiedRegion
  BY <1>5
<1>10. ~cl'.enableCursorShapeUpdates => ~cl.enableCursorShapeUpdates
  BY <1>1, <1>5
<1>11. PixelsAreRight' /\ NoCopyUnderCursor'
  BY <1>2, <1>5, <1>7, <1>8, <1>9, <1>10, PixelsStayRight DEF CursorInv
<1>12. CursorIsKnown'
  BY <1>5 DEF CursorIsKnown
<1>13. QED
  BY <1>2, <1>7, <1>11, <1>12 DEF CursorInv

(* A client asks for an update. *)
LEMMA CursorRequestInv == CursorInv /\ CursorRequest => CursorInv'
<1> SUFFICES ASSUME CursorInv, CursorRequest PROVE CursorInv'
  OBVIOUS
<1>1. PICK incremental \in BOOLEAN, asked \in RequestedParts :
        cl' = IF incremental
              THEN [cl EXCEPT !.requestedRegion = @ \cup asked]
              ELSE [cl EXCEPT !.requestedRegion = @ \cup asked,
                              !.modifiedRegion = @ \cup asked,
                              !.copyRegion = @ \ asked]
  BY DEF CursorRequest
<1>2. UNCHANGED <<frameBuffer, drawn, cursor, cursorX, picture, shownCursor>> /\ cl.open
  BY DEF CursorRequest
<1>3. cl \in ClientRecords /\ asked \in SUBSET Row
      /\ cl.modifiedRegion \subseteq Row /\ cl.requestedRegion \subseteq Row
      /\ cl.copyRegion \subseteq Row
  BY ClientParts, CursorAssumption DEF CursorInv, CursorTyped, Row
<1>4. /\ cl' \in ClientRecords
      /\ cl'.modifiedRegion = IF incremental THEN cl.modifiedRegion
                              ELSE cl.modifiedRegion \cup asked
      /\ cl'.copyRegion = IF incremental THEN cl.copyRegion ELSE cl.copyRegion \ asked
      /\ cl'.copyDX = cl.copyDX /\ cl'.cursorX = cl.cursorX
      /\ cl'.enableCursorShapeUpdates = cl.enableCursorShapeUpdates
      /\ cl'.enableCursorPosUpdates = cl.enableCursorPosUpdates
      /\ cl'.cursorWasChanged = cl.cursorWasChanged
      /\ cl'.cursorWasMoved = cl.cursorWasMoved
  <2>1. CASE incremental
    BY <1>1, <1>3, <2>1 DEF ClientRecords
  <2>2. CASE ~incremental
    BY <1>1, <1>3, <2>2 DEF ClientRecords
  <2>3. QED
    BY <2>1, <2>2
<1>5. CursorTyped'
  BY <1>2, <1>4 DEF CursorInv, CursorTyped
<1>6. /\ cl.modifiedRegion \subseteq cl'.modifiedRegion
      /\ cl'.copyRegion \subseteq cl.copyRegion
      /\ cl.copyRegion \ cl'.copyRegion \subseteq cl'.modifiedRegion
  BY <1>4
<1>7. PixelsAreRight' /\ NoCopyUnderCursor'
  BY <1>2, <1>4, <1>5, <1>6, PixelsStayRight DEF CursorInv
<1>8. CursorIsKnown'
  BY <1>2, <1>4 DEF CursorInv, CursorIsKnown
<1>9. QED
  BY <1>2, <1>5, <1>7, <1>8 DEF CursorInv

-----------------------------------------------------------------------------
(* An update that has nothing to send drops the copies that are spoilt.    *)
LEMMA NothingSentInv ==
  ASSUME CursorInv, cl.open, cl' = [cl EXCEPT !.copyRegion = CopyLeft],
         UNCHANGED <<frameBuffer, picture, shownCursor, drawn, cursor, cursorX>>
  PROVE  CursorInv'
<1>1. cl \in ClientRecords /\ CopyLeft \subseteq Row
  BY ClientParts DEF CursorInv, CursorTyped, CopyLeft
<1>2. /\ cl' \in ClientRecords
      /\ cl'.modifiedRegion = cl.modifiedRegion
      /\ cl'.copyRegion = CopyLeft
      /\ cl'.copyDX = cl.copyDX /\ cl'.cursorX = cl.cursorX
      /\ cl'.enableCursorShapeUpdates = cl.enableCursorShapeUpdates
      /\ cl'.enableCursorPosUpdates = cl.enableCursorPosUpdates
      /\ cl'.cursorWasChanged = cl.cursorWasChanged
      /\ cl'.cursorWasMoved = cl.cursorWasMoved
  BY <1>1 DEF ClientRecords
<1>3. CursorTyped'
  BY <1>2 DEF CursorInv, CursorTyped
<1>4. /\ cl'.copyRegion \subseteq cl.copyRegion
      /\ cl.copyRegion \ cl'.copyRegion \subseteq cl'.modifiedRegion
  BY <1>2 DEF CopyLeft
<1>5. PixelsAreRight' /\ NoCopyUnderCursor'
  BY <1>2, <1>3, <1>4, PixelsStayRight DEF CursorInv
<1>6. CursorIsKnown'
  BY <1>2 DEF CursorInv, CursorIsKnown
<1>7. QED
  BY <1>3, <1>5, <1>6 DEF CursorInv

(* What is sent with the cursor at x, and what of it is the cursor's. *)
DrawnAt == IF cl.enableCursorShapeUpdates THEN cl.cursorX ELSE cursorX
SentPixels ==
  UpdatePixels \cup
    (IF DrawnCursorMoved
     THEN RedrawAfterHideCursor(cursor, cl.cursorX)
            \cup RedrawAfterHideCursor(cursor, DrawnAt)
     ELSE {})
SentBuffer == IF cl.enableCursorShapeUpdates THEN frameBuffer
              ELSE ShowCursor(frameBuffer, cursor, DrawnAt)

(* After an update the client has every pixel that is not still modified.  *)
LEMMA SentIsRight ==
  ASSUME CursorTyped, PixelsAreRight, NoCopyUnderCursor,
         NEW p \in Row,
         p \notin ((cl.modifiedRegion \cup CopyLeft) \ UpdatePixels) \ UpdateCopy
  PROVE  PictureAfter(SentPixels, SentBuffer)[p]
           = Shown(p, cl.enableCursorShapeUpdates, frameBuffer, cursor, DrawnAt)
<1>0. /\ cl \in ClientRecords /\ cursor \in CursorShapes /\ cursorX \in Row
      /\ cl.cursorX \in Row /\ DrawnAt \in Row
  BY ClientParts DEF CursorTyped, DrawnAt
<1>1. PictureAfter(SentPixels, SentBuffer)[p] =
        IF p \in SentPixels THEN SentBuffer[p]
        ELSE IF p \in UpdateCopy THEN picture[p - cl.copyDX] ELSE picture[p]
  BY DEF PictureAfter
<1>2. SentBuffer[p] = Shown(p, cl.enableCursorShapeUpdates, frameBuffer, cursor, DrawnAt)
  BY DEF SentBuffer, Shown
<1>3. /\ SavedUnder(cursor, cl.cursorX) \subseteq RedrawAfterHideCursor(cursor, cl.cursorX)
      /\ SavedUnder(cursor, DrawnAt) \subseteq RedrawAfterHideCursor(cursor, DrawnAt)
  BY <1>0, CursorCovers
<1>4. p \notin SentPixels =>
        \/ cl.enableCursorShapeUpdates
        \/ cl.cursorX = DrawnAt
        \/ p \notin SavedUnder(cursor, cl.cursorX) /\ p \notin SavedUnder(cursor, DrawnAt)
  BY <1>3 DEF SentPixels, DrawnCursorMoved, DrawnAt
<1>5. cl.enableCursorShapeUpdates => cl.cursorX = DrawnAt
  BY DEF DrawnAt
<1>6. CASE p \notin SentPixels /\ p \in UpdateCopy
  <2>1. p \in cl.copyRegion /\ p \notin cl.modifiedRegion
    BY <1>6 DEF UpdateCopy, CopyLeft
  <2>2. picture[p - cl.copyDX] = frameBuffer[p]
    BY <2>1 DEF PixelsAreRight
  <2>3. cl.enableCursorShapeUpdates \/ p \notin SavedUnder(cursor, DrawnAt)
    BY <1>4, <1>6, <2>1 DEF NoCopyUnderCursor
  <2>4. QED
    BY <1>1, <1>6, <2>2, <2>3, ShownElsewhere
<1>7. CASE p \notin SentPixels /\ p \notin UpdateCopy
  <2>1. p \notin UpdatePixels
    BY <1>7 DEF SentPixels
  <2>2. p \notin cl.modifiedRegion /\ p \notin CopyLeft
    BY <1>7, <2>1
  <2>3. p \notin cl.copyRegion
    BY <2>2 DEF CopyLeft
  <2>4. picture[p] = Shown(p, cl.enableCursorShapeUpdates, frameBuffer, cursor, cl.cursorX)
    BY <2>2, <2>3 DEF PixelsAreRight
  <2>5. CASE cl.cursorX = DrawnAt
    BY <1>1, <1>7, <2>4, <2>5
  <2>6. CASE cl.cursorX # DrawnAt
    <3>1. p \notin SavedUnder(cursor, cl.cursorX) /\ p \notin SavedUnder(cursor, DrawnAt)
      BY <1>4, <1>5, <1>7, <2>6
    <3>2. QED
      BY <1>1, <1>7, <2>4, <3>1, ShownElsewhere
  <2>7. QED
    BY <2>5, <2>6
<1>8. QED
  BY <1>1, <1>2, <1>6, <1>7

(* rfbSendFramebufferUpdate(). *)
LEMMA UpdateSentInv ==
  ASSUME CursorInv, cl.open, SendUpdateWithCursor,
         UNCHANGED <<drawn, cursor, cursorX>>
  PROVE  CursorInv'
<1> DEFINE m == ((cl.modifiedRegion \cup CopyLeft) \ UpdatePixels) \ UpdateCopy
           sent == [cl EXCEPT
                      !.modifiedRegion = m,
                      !.copyRegion = {}, !.copyDX = 0, !.requestedRegion = {},
                      !.cursorX = DrawnAt,
                      !.cursorWasChanged = @ /\ ~ShapeDue,
                      !.cursorWasMoved = @ /\ ~PosDue]
<1>0. /\ cl \in ClientRecords /\ cursor \in CursorShapes /\ cursorX \in Row
      /\ cl.cursorX \in Row /\ DrawnAt \in Row
      /\ frameBuffer \in [Row -> Inks]
      /\ cl.modifiedRegion \subseteq Row /\ cl.copyRegion \subseteq Row
  BY ClientParts DEF CursorInv, CursorTyped, DrawnAt
<1>1. /\ frameBuffer' =
           IF cl.enableCursorShapeUpdates THEN frameBuffer
           ELSE HideCursor(SentBuffer, UnderCursorBuffer(frameBuffer, cursor, DrawnAt),
                           cursor, DrawnAt)
      /\ \/ /\ cl' = sent
            /\ picture' = PictureAfter(SentPixels, SentBuffer)
            /\ shownCursor' = ShownAfter
         \/ cl' = [sent EXCEPT !.open = FALSE]
  BY DEF SendUpdateWithCursor, SentBuffer, SentPixels, DrawnAt
<1>2. frameBuffer' = frameBuffer
  BY <1>0, <1>1, HiddenIsRestored DEF SentBuffer
<1>3. m \subseteq Row
  BY <1>0 DEF CopyLeft
<1>4. /\ cl.cursorWasChanged \in BOOLEAN /\ cl.cursorWasMoved \in BOOLEAN
      /\ cl.enableCursorShapeUpdates \in BOOLEAN
      /\ cl.enableCursorPosUpdates \in BOOLEAN
  BY <1>0 DEF ClientRecords
<1> DEFINE wc == cl.cursorWasChanged /\ ~ShapeDue
           wm == cl.cursorWasMoved /\ ~PosDue
<1>5. sent = [cl EXCEPT
                !.modifiedRegion = m,
                !.copyRegion = {}, !.copyDX = 0, !.requestedRegion = {},
                !.cursorX = DrawnAt, !.cursorWasChanged = wc, !.cursorWasMoved = wm]
  OBVIOUS
<1>6. wc \in BOOLEAN /\ wm \in BOOLEAN
  OBVIOUS
<1> HIDE DEF m, wc, wm, sent
<1>7. /\ sent \in ClientRecords
      /\ sent.modifiedRegion = m /\ sent.copyRegion = {}
      /\ sent.cursorX = DrawnAt
      /\ sent.cursorWasChanged = wc /\ sent.cursorWasMoved = wm
      /\ sent.enableCursorShapeUpdates = cl.enableCursorShapeUpdates
      /\ sent.enableCursorPosUpdates = cl.enableCursorPosUpdates
  BY <1>0, <1>3, <1>5, <1>6 DEF ClientRecords
<1>8. CASE cl' = [sent EXCEPT !.open = FALSE]
  <2>1. cl' \in ClientRecords /\ cl'.open = FALSE
    BY <1>7, <1>8 DEF ClientRecords
  <2>2. QED
    BY <1>0, <1>2, <2>1 DEF CursorInv, CursorTyped
<1>9. CASE /\ cl' = sent
           /\ picture' = PictureAfter(SentPixels, SentBuffer)
           /\ shownCursor' = ShownAfter
  <2>1. CursorTyped'
    BY <1>0, <1>2, <1>7, <1>9 DEF CursorTyped
  <2>2. ASSUME NEW p \in Row, p \notin cl'.modifiedRegion
        PROVE  picture'[p] = Shown(p, cl'.enableCursorShapeUpdates, frameBuffer',
                                   cursor', cl'.cursorX)
    <3>1. p \notin ((cl.modifiedRegion \cup CopyLeft) \ UpdatePixels) \ UpdateCopy
      BY <1>7, <1>9, <2>2 DEF m
    <3>2. PictureAfter(SentPixels, SentBuffer)[p]
            = Shown(p, cl.enableCursorShapeUpdates, frameBuffer, cursor, DrawnAt)
      BY <3>1, SentIsRight DEF CursorInv
    <3>3. QED
      BY <1>2, <1>7, <1>9, <3>2
  <2>3. PixelsAreRight' /\ NoCopyUnderCursor'
    BY <1>7, <1>9, <2>2 DEF PixelsAreRight, NoCopyUnderCursor
  <2>4. CursorIsKnown'
    <3>1. ASSUME cl.enableCursorShapeUpdates, ~wc
          PROVE  shownCursor'.shape = cursor \/ EmptyCursor(cursor)
      BY <1>9, <3>1 DEF CursorInv, CursorIsKnown, ShownAfter, ShapeDue, wc
    <3>2. ASSUME cl.enableCursorPosUpdates, ~wm
          PROVE  shownCursor'.x = cursorX
      BY <1>9, <3>2 DEF CursorInv, CursorIsKnown, ShownAfter, PosDue, wm
    <3>3. QED
      BY <1>7, <1>9, <3>1, <3>2 DEF CursorIsKnown
  <2>5. QED
    BY <1>2, <2>1, <2>3, <2>4 DEF CursorInv
<1>10. QED
  BY <1>1, <1>8, <1>9

-----------------------------------------------------------------------------
(* CursorInv is kept by every step: the cursor is restored, and sent where *)
(* it was and where it is.                                                 *)
THEOREM CursorInvariance == CursorSpec => []CursorInv
<1>1. CursorInit => CursorInv
  <2> SUFFICES ASSUME CursorInit PROVE CursorInv
    OBVIOUS
  <2>1. PICK i \in Inks : frameBuffer = [p \in Row |-> i]
    BY DEF CursorInit
  <2>2. /\ frameBuffer \in [Row -> Inks] /\ drawn = frameBuffer
        /\ cursor \in CursorShapes /\ cursorX = 0 /\ 0 \in Row
    BY <2>1, CursorAssumption DEF CursorInit, Row
  <2>3. cl = [open |-> TRUE, useCopyRect |-> FALSE,
              enableCursorShapeUpdates |-> FALSE,
              enableCursorPosUpdates |-> FALSE,
              cursorWasChanged |-> FALSE, cursorWasMoved |-> FALSE,
              cursorX |-> cursorX, copyDX |-> 0,
              modifiedRegion |-> Row, copyRegion |-> {},
              requestedRegion |-> {}]
    BY DEF CursorInit
  <2>4. cl \in ClientRecords
    BY <2>2, <2>3 DEF ClientRecords
  <2>5. /\ cl.modifiedRegion = Row /\ cl.copyRegion = {}
        /\ ~cl.enableCursorShapeUpdates /\ ~cl.enableCursorPosUpdates
    BY <2>3
  <2>6. QED
    BY <2>2, <2>4, <2>5 DEF CursorInv, CursorTyped, PixelsAreRight,
       NoCopyUnderCursor, CursorIsKnown
<1>2. CursorInv /\ [CursorNext]_cursorVars => CursorInv'
  <2> SUFFICES ASSUME CursorInv, [CursorNext]_cursorVars PROVE CursorInv'
    OBVIOUS
  <2>1. CASE CursorUpdate
    <3>1. cl.open /\ UNCHANGED <<drawn, cursor, cursorX>>
      BY <2>1 DEF CursorUpdate
    <3>2. CASE NothingToSend
      BY <2>1, <3>1, <3>2, NothingSentInv DEF CursorUpdate
    <3>3. CASE ~NothingToSend
      BY <2>1, <3>1, <3>3, UpdateSentInv DEF CursorUpdate
    <3>4. QED
      BY <3>2, <3>3
  <2>2. CASE UNCHANGED cursorVars
    BY <2>2 DEF cursorVars, CursorInv, CursorTyped, PixelsAreRight,
       NoCopyUnderCursor, CursorIsKnown
  <2>3. QED
    BY <2>1, <2>2, DrawInv, CopyInv, SetCursorInv, PointerInv, EncodingsInv,
       CursorRequestInv DEF CursorNext
<1>3. QED
  BY <1>1, <1>2, PTL DEF CursorSpec

(* For a screen of any width, any cursors, copies of any distance and any  *)
(* requests: drawing the cursor leaves no trace in the frame buffer or in  *)
(* the client's picture, and a client that draws it itself knows it.       *)
THEOREM NoTraceIsLeft == CursorSpec => []CursorLeavesNoTrace
<1>1. CursorInv => CursorLeavesNoTrace
  BY DEF CursorInv, PixelsAreRight, CursorIsKnown, Shown, CursorLeavesNoTrace
<1>2. QED
  BY <1>1, CursorInvariance, PTL

-----------------------------------------------------------------------------
(***************************************************************************)
(* Proofs about TightFileTransfer: for any files, any number of threads    *)
(* and any order of the client's requests.  The bounds are not needed.     *)
(***************************************************************************)

Messages ==
  [kind : {"data", "end", "failed"}, file : DOMAIN StoredFiles \cup {""},
   block : Nat]
ReadingFile == [file : DOMAIN StoredFiles, read : Nat]

Places == [at : {"none", "open", "read", "write", "test"}, msg : Messages]
Downloads ==
  [downloadInProgress : BOOLEAN, downloadFD : ReadingFile \cup {Closed},
   fName : Names \cup {"", Unconvertible}]

TightTyped ==
  /\ threads \in [DownloadThreads -> Places]
  /\ rcfd \in Downloads
  /\ rcfd.downloadInProgress => rcfd.downloadFD # Closed
  /\ received \in Seq(Messages)
  /\ undone \in BOOLEAN

(* A descriptor stays open after its download only until the step of       *)
(* CloseUndoneFileTransfer() that closes it.                               *)
ClosingInv ==
  closing = "descriptor" <=> ~rcfd.downloadInProgress /\ rcfd.downloadFD # Closed

(* No other download at the same time, and its file not opened again.      *)
Alone == ~disturbed /\ ~restarted

(* The blocks of a file from its beginning, and then what ends a download. *)
AllData(f, blocks) == \A i \in 1..Len(blocks) : blocks[i] = Data(f, i)

Finished(f, blocks) ==
  LET n == Len(blocks)
  IN /\ n > 0
     /\ blocks[n] \in {EndMarker, Failed}
     /\ \A i \in 1..(n - 1) : blocks[i] = Data(f, i)
     /\ n > 1 /\ blocks[n] = EndMarker => n - 1 = StoredFiles[f]

(* The descriptor is where the client is. *)
Continues(f) ==
  IF rcfd.downloadInProgress
  THEN /\ rcfd.downloadFD = [file |-> f, read |-> Len(received)]
       /\ Len(received) <= StoredFiles[f]
  ELSE undone

(* What the only thread has still to do, at each of its places. *)
AtOpen(f) ==
  /\ AllData(f, received)
  /\ \/ /\ Continues(f)
        /\ rcfd.downloadInProgress \/ rcfd.fName = "" \/ closing # "none"
     \/ /\ ~rcfd.downloadInProgress /\ rcfd.fName = f /\ received = <<>>
        /\ closing = "none"

AtRead(f) == AllData(f, received) /\ Continues(f)

AtWrite(f, msg) ==
  /\ AllData(f, received)
  /\ \/ /\ msg = Data(f, Len(received) + 1)
        /\ IF rcfd.downloadInProgress
           THEN /\ rcfd.downloadFD = [file |-> f, read |-> Len(received) + 1]
                /\ Len(received) + 1 <= StoredFiles[f]
           ELSE undone
     \/ /\ msg = EndMarker /\ Len(received) = StoredFiles[f]
        /\ ~rcfd.downloadInProgress
     \/ msg = Failed /\ ~rcfd.downloadInProgress

AtTest(f) ==
  \/ AllData(f, received) /\ Continues(f)
  \/ Finished(f, received) /\ ~rcfd.downloadInProgress

Serves(t, f) ==
  /\ threads[t].at = "open" => AtOpen(f)
  /\ threads[t].at = "read" => AtRead(f)
  /\ threads[t].at = "write" => AtWrite(f, threads[t].msg)
  /\ threads[t].at = "test" => AtTest(f)

(* Between two downloads. *)
NothingRuns ==
  /\ ~rcfd.downloadInProgress
  /\ Alone =>
       \/ received = <<>>
       \/ \E f \in DOMAIN StoredFiles : Finished(f, received)
       \/ received \in {<<EndMarker>>, <<Failed>>}
       \/ /\ undone \/ tightState = "closed"
          /\ \E f \in DOMAIN StoredFiles : AllData(f, received)

DownloadInv ==
  /\ TightTyped /\ ClosingInv
  /\ Running = {} => NothingRuns
  /\ ~disturbed => \A t, u \in Running : t = u
  /\ Alone => \A t \in Running : \E f \in DOMAIN StoredFiles : Serves(t, f)

-----------------------------------------------------------------------------
(* What a message is. *)
LEMMA MessagesTyped ==
  /\ EndMarker \in Messages /\ Failed \in Messages
  /\ \A f \in DOMAIN StoredFiles : \A i \in Nat : Data(f, i) \in Messages
  /\ EndMarker.kind = "end" /\ Failed.kind = "failed"
  /\ \A f, i : Data(f, i).kind = "data" /\ Data(f, i).file = f
BY DEF EndMarker, Failed, Data, Messages

(* No descriptor of a file is the closed one, and no file is called "". *)
LEMMA ClosedIsNoFile ==
  /\ Closed \notin ReadingFile
  /\ "" \notin DOMAIN StoredFiles
BY TransferAssumption DEF Closed, ReadingFile, Names

(* A stored file has a number of blocks. *)
LEMMA BlocksAreNat == \A f \in DOMAIN StoredFiles : StoredFiles[f] \in Nat
BY TransferAssumption

(* The type of what is received, of a descriptor and of a thread. *)
LEMMA DownloadParts ==
  ASSUME TightTyped
  PROVE  /\ received \in Seq(Messages) /\ Len(received) \in Nat
         /\ rcfd \in Downloads
         /\ rcfd.downloadInProgress \in BOOLEAN
         /\ rcfd.downloadInProgress => rcfd.downloadFD \in ReadingFile
         /\ threads \in [DownloadThreads -> Places]
         /\ undone \in BOOLEAN
<1>1. received \in Seq(Messages)
  BY DEF TightTyped
<1>2. Len(received) \in Nat
  BY <1>1
<1>3. rcfd \in Downloads /\ (rcfd.downloadInProgress => rcfd.downloadFD # Closed)
  BY DEF TightTyped
<1>4. rcfd.downloadInProgress \in BOOLEAN /\ rcfd.downloadFD \in ReadingFile \cup {Closed}
  BY <1>3 DEF Downloads
<1>5. QED
  BY <1>1, <1>2, <1>3, <1>4 DEF TightTyped

(* What follows of a download that has been started or has ended.          *)
LEMMA DownloadsNext ==
  ASSUME received' \in Seq(Messages), undone' \in BOOLEAN,
         threads' \in [DownloadThreads -> Places], rcfd' \in Downloads,
         rcfd'.downloadInProgress => rcfd'.downloadFD \in ReadingFile
  PROVE  TightTyped'
BY ClosedIsNoFile DEF TightTyped

(* The invariant says what the client has got. *)
LEMMA DownloadWhole ==
  ASSUME DownloadInv, Alone
  PROVE  DownloadIsWhole
<1> DEFINE n == Len(received)
<1>1. n \in Nat /\ received \in Seq(Messages)
  BY DownloadParts DEF DownloadInv
<1>2. ASSUME NEW f, AllData(f, received)
      PROVE  /\ \A i \in 1..n : IF received[i].kind # "data" THEN i = n
                                ELSE received[i] = Data(received[1].file, i)
             /\ n > 1 /\ received[n].kind = "end" =>
                  n - 1 = StoredFiles[received[1].file]
  <2> HIDE DEF n
  <2>1. \A i \in 1..n : received[i] = Data(f, i) /\ received[i].kind = "data"
    BY <1>2, MessagesTyped DEF AllData, n
  <2>2. n > 0 => received[1].file = f
    BY <1>1, <2>1, MessagesTyped
  <2>3. QED
    BY <1>1, <2>1, <2>2
<1>3. ASSUME NEW f, Finished(f, received)
      PROVE  /\ \A i \in 1..n : IF received[i].kind # "data" THEN i = n
                                ELSE received[i] = Data(received[1].file, i)
             /\ n > 1 /\ received[n].kind = "end" =>
                  n - 1 = StoredFiles[received[1].file]
             /\ received[n].kind # "data"
  <2> HIDE DEF n
  <2>1. /\ n > 0
        /\ \A i \in 1..(n - 1) : received[i] = Data(f, i) /\ received[i].kind = "data"
        /\ received[n] \in {EndMarker, Failed} /\ received[n].kind # "data"
        /\ n > 1 /\ received[n] = EndMarker => n - 1 = StoredFiles[f]
        /\ received[n].kind = "end" => received[n] = EndMarker
    BY <1>3, MessagesTyped DEF Finished, n
  <2>2. n > 1 => received[1].file = f
    BY <1>1, <2>1, MessagesTyped
  <2>3. QED
    BY <1>1, <2>1, <2>2
<1>4. CASE Running = {}
  <2>1. CASE received = <<>>
    BY <2>1 DEF DownloadIsWhole
  <2>2. CASE \E f \in DOMAIN StoredFiles : Finished(f, received)
    BY <2>2, <1>3 DEF DownloadIsWhole
  <2>3. CASE received \in {<<EndMarker>>, <<Failed>>}
    <3>1. n = 1 /\ received[1].kind # "data"
      BY <2>3, MessagesTyped
    <3>2. QED
      BY <3>1 DEF DownloadIsWhole
  <2>4. CASE /\ undone \/ tightState = "closed"
             /\ \E f \in DOMAIN StoredFiles : AllData(f, received)
    BY <2>4, <1>2 DEF DownloadIsWhole
  <2>5. QED
    BY <1>4, <2>1, <2>2, <2>3, <2>4 DEF DownloadInv, NothingRuns
<1>5. CASE Running # {}
  <2>1. PICK t \in Running : \E f \in DOMAIN StoredFiles : Serves(t, f)
    BY <1>5 DEF DownloadInv
  <2>2. PICK f \in DOMAIN StoredFiles : Serves(t, f)
    BY <2>1
  <2>3. threads[t].at \in {"open", "read", "write", "test"}
    BY <2>1 DEF Running, DownloadInv, TightTyped, Places
  <2>4. AllData(f, received) \/ Finished(f, received)
    BY <2>2, <2>3 DEF Serves, AtOpen, AtRead, AtWrite, AtTest
  <2>5. QED
    BY <1>2, <1>3, <1>5, <2>4 DEF DownloadIsWhole
<1>6. QED
  BY <1>4, <1>5

-----------------------------------------------------------------------------
(* What nothing but an upload, a directory or a list changes. *)
LEMMA DownloadUntouched ==
  ASSUME DownloadInv, UNCHANGED <<downloadVars, threads>>,
         tightState = "closed" => tightState' = "closed"
  PROVE  DownloadInv'
<1>0. UNCHANGED <<rcfd, received, disturbed, undone, closing, restarted, threads>>
  BY DEF downloadVars
<1>1. TightTyped' /\ Running' = Running /\ Alone' = Alone /\ ClosingInv'
  BY <1>0 DEF DownloadInv, TightTyped, Running, Alone, ClosingInv
<1>2. ASSUME NEW t, NEW f PROVE Serves(t, f) => Serves(t, f)'
  <2>1. Continues(f)' = Continues(f)
    BY <1>0 DEF Continues
  <2>2. AtOpen(f)' = AtOpen(f) /\ AtRead(f)' = AtRead(f) /\ AtTest(f)' = AtTest(f)
    BY <1>0, <2>1 DEF AtOpen, AtRead, AtTest
  <2>3. AtWrite(f, threads[t].msg)' = AtWrite(f, threads[t].msg)
    BY <1>0 DEF AtWrite
  <2>4. QED
    BY <1>0, <2>2, <2>3 DEF Serves
<1>3. NothingRuns => NothingRuns'
  BY <1>0, <1>1 DEF NothingRuns
<1>4. QED
  BY <1>0, <1>1, <1>2, <1>3 DEF DownloadInv

(* CloseUndoneFileTransfer() in the middle of a download, at any place of  *)
(* its thread.                                                             *)
LEMMA DownloadClosed ==
  ASSUME DownloadInv, CloseUndoneDownload,
         UNCHANGED <<received, disturbed, restarted, threads, tightState>>
  PROVE  DownloadInv'
<1>1. CASE ~rcfd.downloadInProgress
  BY <1>1, DownloadUntouched DEF CloseUndoneDownload, downloadVars
<1>2. CASE rcfd.downloadInProgress
  <2>1. /\ rcfd' = [rcfd EXCEPT !.downloadInProgress = FALSE]
        /\ undone' = TRUE /\ closing' = "descriptor"
    BY <1>2 DEF CloseUndoneDownload
  <2>2. /\ rcfd \in Downloads /\ rcfd.downloadFD # Closed
        /\ received \in Seq(Messages) /\ threads \in [DownloadThreads -> Places]
    BY <1>2 DEF DownloadInv, TightTyped
  <2>3. /\ ~rcfd'.downloadInProgress /\ rcfd'.downloadFD # Closed
        /\ rcfd' \in Downloads
        /\ \A f : Continues(f)'
    BY <2>1, <2>2 DEF Continues, Downloads
  <2>4. /\ TightTyped' /\ ClosingInv'
        /\ Running' = Running /\ Alone' = Alone
    BY <2>1, <2>2, <2>3 DEF TightTyped, ClosingInv, Running, Alone
  <2>5. ASSUME NEW t, NEW f, Serves(t, f)
        PROVE  Serves(t, f)'
    <3>1. AtOpen(f) => AtOpen(f)'
      BY <1>2, <2>1, <2>3 DEF AtOpen
    <3>2. AtRead(f) => AtRead(f)'
      BY <2>3 DEF AtRead
    <3>3. AtWrite(f, threads[t].msg) => AtWrite(f, threads[t].msg)'
      BY <1>2, <2>1, <2>3 DEF AtWrite
    <3>4. AtTest(f) => AtTest(f)'
      BY <1>2, <2>3 DEF AtTest
    <3>5. QED
      BY <2>5, <3>1, <3>2, <3>3, <3>4 DEF Serves
  <2>6. Running # {}
    BY <1>2 DEF DownloadInv, NothingRuns
  <2>7. QED
    BY <2>4, <2>5, <2>6 DEF DownloadInv
<1>3. QED
  BY <1>1, <1>2

(* The steps that follow: nothing depends on the descriptor or the name of *)
(* a download that is not in progress any more.                            *)
LEMMA CloseDescriptorInv ==
  ASSUME DownloadInv, CloseDescriptor
  PROVE  DownloadInv'
<1>1. /\ closing = "descriptor" /\ closing' = "name"
      /\ rcfd' = [rcfd EXCEPT !.downloadFD = Closed]
      /\ UNCHANGED <<received, disturbed, undone, restarted, threads, tightState>>
  BY DEF CloseDescriptor, threadVars, connectionVars
<1>2. /\ rcfd \in Downloads /\ ~rcfd.downloadInProgress
      /\ received \in Seq(Messages) /\ undone \in BOOLEAN
      /\ threads \in [DownloadThreads -> Places]
  BY <1>1 DEF DownloadInv, TightTyped, ClosingInv
<1>3. /\ ~rcfd'.downloadInProgress /\ rcfd'.downloadFD = Closed
      /\ rcfd' \in Downloads /\ rcfd'.fName = rcfd.fName
  BY <1>1, <1>2 DEF Downloads
<1>4. /\ TightTyped' /\ ClosingInv'
      /\ Running' = Running /\ Alone' = Alone
  BY <1>1, <1>2, <1>3 DEF TightTyped, ClosingInv, Running, Alone
<1>5. ASSUME NEW t, NEW f, Serves(t, f)
      PROVE  Serves(t, f)'
  <2>1. Continues(f) => Continues(f)'
    BY <1>1, <1>2, <1>3 DEF Continues
  <2>2. AtOpen(f) => AtOpen(f)'
    BY <1>1, <1>2, <1>3, <2>1 DEF AtOpen
  <2>3. AtRead(f) => AtRead(f)'
    BY <1>1, <2>1 DEF AtRead
  <2>4. AtWrite(f, threads[t].msg) => AtWrite(f, threads[t].msg)'
    BY <1>1, <1>2, <1>3 DEF AtWrite
  <2>5. AtTest(f) => AtTest(f)'
    BY <1>1, <1>3, <2>1 DEF AtTest
  <2>6. QED
    BY <1>1, <1>5, <2>2, <2>3, <2>4, <2>5 DEF Serves
<1>6. NothingRuns => NothingRuns'
  BY <1>1, <1>3, <1>4 DEF NothingRuns
<1>7. QED
  BY <1>1, <1>4, <1>5, <1>6 DEF DownloadInv

LEMMA ClearNameInv ==
  ASSUME DownloadInv, ClearName
  PROVE  DownloadInv'
<1>1. /\ closing = "name" /\ closing' = "none"
      /\ rcfd' = [rcfd EXCEPT !.fName = ""]
      /\ UNCHANGED <<received, disturbed, undone, restarted, threads, tightState>>
  BY DEF ClearName, connectionVars
<1>2. /\ rcfd \in Downloads
      /\ received \in Seq(Messages) /\ undone \in BOOLEAN
      /\ threads \in [DownloadThreads -> Places]
  BY DEF DownloadInv, TightTyped
<1>3. /\ rcfd'.downloadInProgress = rcfd.downloadInProgress
      /\ rcfd'.downloadFD = rcfd.downloadFD
      /\ rcfd' \in Downloads /\ rcfd'.fName = ""
  BY <1>1, <1>2 DEF Downloads
<1>4. /\ TightTyped' /\ ClosingInv'
      /\ Running' = Running /\ Alone' = Alone
  BY <1>1, <1>2, <1>3 DEF TightTyped, ClosingInv, Running, Alone, DownloadInv
<1>5. ASSUME NEW t, NEW f, Serves(t, f)
      PROVE  Serves(t, f)'
  <2>1. Continues(f) => Continues(f)'
    BY <1>1, <1>3 DEF Continues
  <2>2. AtOpen(f) => AtOpen(f)'
    BY <1>1, <1>3, <2>1 DEF AtOpen
  <2>3. AtRead(f) => AtRead(f)'
    BY <1>1, <2>1 DEF AtRead
  <2>4. AtWrite(f, threads[t].msg) => AtWrite(f, threads[t].msg)'
    BY <1>1, <1>3 DEF AtWrite
  <2>5. AtTest(f) => AtTest(f)'
    BY <1>1, <1>3, <2>1 DEF AtTest
  <2>6. QED
    BY <1>1, <1>5, <2>2, <2>3, <2>4, <2>5 DEF Serves
<1>6. NothingRuns => NothingRuns'
  BY <1>1, <1>3, <1>4 DEF NothingRuns
<1>7. QED
  BY <1>1, <1>4, <1>5, <1>6 DEF DownloadInv

(* A step of the only thread, which goes on afterwards. *)
LEMMA ThreadGoesOn ==
  ASSUME DownloadInv, NEW t \in Running, TightTyped',
         \A u \in DownloadThreads : u # t => threads'[u] = threads[u],
         threads'[t].at # "none", ClosingInv',
         disturbed' = disturbed, restarted => restarted',
         ~disturbed /\ ~restarted' =>
           \A f \in DOMAIN StoredFiles : Serves(t, f) => Serves(t, f)'
  PROVE  DownloadInv'
<1>1. Running' = Running
  BY DEF Running
<1>2. \A u \in Running : ~disturbed => u = t
  BY DEF DownloadInv
<1>3. Alone' => Alone
  BY DEF Alone
<1>4. QED
  BY <1>1, <1>2, <1>3 DEF DownloadInv, Alone

-----------------------------------------------------------------------------
(* A new request: the thread for it is the only one, or the download is    *)
(* disturbed.                                                              *)
LEMMA DownloadRequestInv ==
  ASSUME DownloadInv, NEW name, FileDownloadRequest(name)
  PROVE  DownloadInv'
<1>0. /\ disturbed' = (Running # {})
      /\ undone' = FALSE
      /\ threads \in [DownloadThreads -> Places]
      /\ closing = "none" /\ closing' = "none" /\ ~restarted'
  BY DEF FileDownloadRequest, DownloadInv, TightTyped, ClientRequest
<1>1. ASSUME UNCHANGED threads, received' \in {<<Failed>>, <<EndMarker>>},
             TightTyped', ClosingInv', ~rcfd.downloadInProgress => ~rcfd'.downloadInProgress
      PROVE  DownloadInv'
  <2>1. Running' = Running
    BY <1>1 DEF Running
  <2>2. Running = {} => NothingRuns'
    BY <1>1 DEF NothingRuns, DownloadInv
  <2>3. QED
    BY <1>0, <1>1, <2>1, <2>2 DEF DownloadInv, Alone
<1>2. <<Failed>> \in Seq(Messages) /\ <<EndMarker>> \in Seq(Messages)
  BY MessagesTyped
<1>3. CASE /\ name \in {PathTooLong, Unconvertible}
           /\ rcfd' = IF name = PathTooLong THEN rcfd ELSE [rcfd EXCEPT !.fName = name]
           /\ received' = <<Failed>>
           /\ UNCHANGED threads
  <2>1. /\ rcfd' \in Downloads
        /\ rcfd'.downloadInProgress = rcfd.downloadInProgress
        /\ rcfd'.downloadFD = rcfd.downloadFD
    BY <1>3 DEF DownloadInv, TightTyped, Downloads
  <2>2. TightTyped' /\ ClosingInv'
    BY <1>0, <1>2, <1>3, <2>1 DEF DownloadInv, TightTyped, ClosingInv
  <2>3. QED
    BY <1>1, <1>3, <2>1, <2>2
<1>4. CASE /\ name \in Names /\ DownloadErr(name) # <<>>
           /\ rcfd' = [rcfd EXCEPT !.fName = name]
           /\ received' = DownloadErr(name)
           /\ UNCHANGED threads
  <2>1. /\ rcfd' \in Downloads
        /\ rcfd'.downloadInProgress = rcfd.downloadInProgress
        /\ rcfd'.downloadFD = rcfd.downloadFD
    BY <1>4 DEF DownloadInv, TightTyped, Downloads
  <2>2. received' \in {<<Failed>>, <<EndMarker>>}
    BY <1>4 DEF DownloadErr
  <2>3. TightTyped' /\ ClosingInv'
    BY <1>0, <1>2, <1>4, <2>1, <2>2 DEF DownloadInv, TightTyped, ClosingInv
  <2>4. QED
    BY <1>1, <1>4, <2>1, <2>2, <2>3
<1>5. CASE /\ name \in Names /\ DownloadErr(name) = <<>>
           /\ rcfd' = [downloadInProgress |-> FALSE, downloadFD |-> Closed,
                       fName |-> name]
           /\ \/ /\ \E t \in DownloadThreads \ Running :
                      threads' = [threads EXCEPT ![t].at = "open"]
                 /\ received' = <<>>
              \/ received' = <<Failed>> /\ UNCHANGED threads
  <2>1. /\ rcfd' \in Downloads
        /\ ~rcfd'.downloadInProgress /\ rcfd'.downloadFD = Closed
    BY <1>5 DEF Downloads
  <2>2. CASE received' = <<Failed>> /\ UNCHANGED threads
    <3>1. TightTyped' /\ ClosingInv'
      BY <1>0, <1>2, <2>1, <2>2 DEF DownloadInv, TightTyped, ClosingInv
    <3>2. QED
      BY <1>1, <2>1, <2>2, <3>1
  <2>3. CASE /\ \E t \in DownloadThreads \ Running :
                  threads' = [threads EXCEPT ![t].at = "open"]
             /\ received' = <<>>
    <3>1. PICK t \in DownloadThreads \ Running :
            threads' = [threads EXCEPT ![t].at = "open"]
      BY <2>3
    <3>2. /\ threads' \in [DownloadThreads -> Places]
          /\ threads'[t].at = "open"
          /\ \A u \in DownloadThreads : u # t => threads'[u] = threads[u]
      BY <1>0, <3>1 DEF Places
    <3>3. TightTyped'
      <4>0. received' = <<>> /\ <<>> \in Seq(Messages)
        BY <2>3
      <4>1. received' \in Seq(Messages) /\ undone' \in BOOLEAN
        BY <1>0, <4>0
      <4>2. QED
        BY <2>1, <3>2, <4>1, DownloadsNext
    <3>4. Running' = Running \cup {t}
      BY <3>1, <3>2 DEF Running
    <3>5. name \in DOMAIN StoredFiles
      BY <1>5 DEF DownloadErr
    <3>6. Serves(t, name)'
      <4>1. AllData(name, received')
        BY <2>3 DEF AllData
      <4>2. rcfd'.fName = name
        BY <1>5
      <4>3. AtOpen(name)'
        BY <1>0, <2>1, <2>3, <4>1, <4>2 DEF AtOpen
      <4>4. QED
        BY <3>2, <4>3 DEF Serves
    <3>7. ClosingInv'
      BY <1>0, <2>1 DEF ClosingInv
    <3>8. QED
      BY <1>0, <3>3, <3>4, <3>5, <3>6, <3>7 DEF DownloadInv, Alone
  <2>4. QED
    BY <1>5, <2>2, <2>3
<1>6. QED
  BY <1>3, <1>4, <1>5 DEF FileDownloadRequest

-----------------------------------------------------------------------------
(* The steps of a thread. *)

(* The file is opened, unless it is open or the download was closed. *)
LEMMA OpenFileInv ==
  ASSUME DownloadInv, NEW t \in DownloadThreads, OpenFile(t)
  PROVE  DownloadInv'
<1>0. /\ threads \in [DownloadThreads -> Places] /\ threads[t].at = "open"
      /\ t \in Running /\ UNCHANGED <<received, disturbed, undone, closing>>
  BY DEF DownloadInv, TightTyped, Places, OpenFile, ThreadAt, Running
<1>1. /\ rcfd.downloadInProgress => rcfd.downloadFD # Closed
      /\ ~rcfd.downloadInProgress =>
           (rcfd.downloadFD # Closed <=> closing = "descriptor")
  BY DEF DownloadInv, TightTyped, ClosingInv
<1>2. CASE /\ ~rcfd.downloadInProgress /\ rcfd.downloadFD = Closed
           /\ rcfd.fName \in DOMAIN StoredFiles
  <2>1. /\ rcfd' = [rcfd EXCEPT !.downloadInProgress = TRUE,
                       !.downloadFD = [file |-> rcfd.fName, read |-> 0]]
        /\ threads' = [threads EXCEPT ![t].at = "read"]
        /\ restarted' = (restarted \/ closing # "none")
    BY <1>2 DEF OpenFile, FirstBlock
  <2>2. [file |-> rcfd.fName, read |-> 0] \in ReadingFile
    BY <1>2 DEF ReadingFile
  <2>3. /\ rcfd'.downloadInProgress /\ rcfd'.fName = rcfd.fName
        /\ rcfd'.downloadFD = [file |-> rcfd.fName, read |-> 0]
        /\ rcfd' \in Downloads
    BY <2>1, <2>2 DEF DownloadInv, TightTyped, Downloads
  <2>4. /\ threads' \in [DownloadThreads -> Places] /\ threads'[t].at = "read"
        /\ \A u \in DownloadThreads : u # t => threads'[u] = threads[u]
    BY <1>0, <2>1 DEF Places
  <2>5. TightTyped' /\ ClosingInv'
    <3>1. TightTyped'
      BY <1>0, <2>2, <2>3, <2>4, DownloadsNext, DownloadParts DEF DownloadInv
    <3>2. QED
      BY <1>0, <1>1, <1>2, <2>3, <3>1 DEF ClosingInv
  <2>6. ASSUME ~restarted', NEW f \in DOMAIN StoredFiles, Serves(t, f)
        PROVE  Serves(t, f)'
    <3>1. AtOpen(f)
      BY <1>0, <2>6 DEF Serves
    <3>2. rcfd.fName = f /\ received = <<>>
      BY <1>2, <2>1, <2>6, <3>1, ClosedIsNoFile DEF AtOpen
    <3>3. AtRead(f)'
      <4>1. Len(received') = 0 /\ StoredFiles[f] \in Nat
        BY <1>0, <3>2, BlocksAreNat
      <4>2. AllData(f, received')
        BY <4>1 DEF AllData
      <4>3. Continues(f)'
        BY <2>3, <3>2, <4>1 DEF Continues
      <4>4. QED
        BY <4>2, <4>3 DEF AtRead
    <3>4. QED
      BY <2>4, <3>3 DEF Serves
  <2>7. QED
    BY <1>0, <2>1, <2>4, <2>5, <2>6, ThreadGoesOn
<1>3. CASE /\ ~rcfd.downloadInProgress /\ rcfd.downloadFD = Closed
           /\ rcfd.fName \notin DOMAIN StoredFiles
  <2>1. /\ rcfd' = rcfd /\ restarted' = restarted
        /\ threads' = [threads EXCEPT ![t] = [at |-> "write", msg |-> Failed]]
    BY <1>3 DEF OpenFile, SendsBlock
  <2>2. [at |-> "write", msg |-> Failed] \in Places
    BY MessagesTyped DEF Places
  <2>3. /\ threads' \in [DownloadThreads -> Places]
        /\ threads'[t] = [at |-> "write", msg |-> Failed]
        /\ \A u \in DownloadThreads : u # t => threads'[u] = threads[u]
    BY <1>0, <2>1, <2>2
  <2>4. TightTyped' /\ ClosingInv'
    BY <1>0, <2>1, <2>3 DEF DownloadInv, TightTyped, Places, ClosingInv
  <2>5. ASSUME NEW f \in DOMAIN StoredFiles, Serves(t, f)
        PROVE  Serves(t, f)'
    <3>1. AllData(f, received)
      BY <1>0, <2>5 DEF Serves, AtOpen
    <3>2. AtWrite(f, Failed)'
      BY <1>0, <1>3, <2>1, <3>1 DEF AtWrite
    <3>3. QED
      BY <2>3, <3>2 DEF Serves
  <2>6. QED
    BY <1>0, <2>1, <2>3, <2>4, <2>5, ThreadGoesOn
<1>4. CASE rcfd.downloadInProgress \/ rcfd.downloadFD # Closed
  <2>1. /\ rcfd' = rcfd /\ restarted' = restarted
        /\ threads' = [threads EXCEPT ![t].at = "read"]
    BY <1>4 DEF OpenFile
  <2>2. /\ threads' \in [DownloadThreads -> Places] /\ threads'[t].at = "read"
        /\ \A u \in DownloadThreads : u # t => threads'[u] = threads[u]
    BY <1>0, <2>1 DEF Places
  <2>3. TightTyped' /\ ClosingInv'
    BY <1>0, <2>1, <2>2 DEF DownloadInv, TightTyped, Places, ClosingInv
  <2>4. ASSUME NEW f \in DOMAIN StoredFiles, Serves(t, f)
        PROVE  Serves(t, f)'
    <3>1. AllData(f, received) /\ Continues(f)
      BY <1>0, <1>1, <1>4, <2>4 DEF Serves, AtOpen
    <3>2. AtRead(f)'
      BY <1>0, <2>1, <3>1 DEF AtRead, Continues
    <3>3. QED
      BY <2>2, <3>2 DEF Serves
  <2>5. QED
    BY <1>0, <2>1, <2>2, <2>3, <2>4, ThreadGoesOn
<1>5. QED
  BY <1>2, <1>3, <1>4

(* The next block is read, or the end is found. *)
LEMMA ReadBlockInv ==
  ASSUME DownloadInv, NEW t \in DownloadThreads, ReadBlock(t)
  PROVE  DownloadInv'
<1> DEFINE fd == rcfd.downloadFD
<1>0. /\ threads \in [DownloadThreads -> Places] /\ threads[t].at = "read"
      /\ t \in Running
      /\ UNCHANGED <<received, disturbed, undone, closing, restarted>>
  BY DEF DownloadInv, TightTyped, Places, ReadBlock, ThreadAt, Running
<1>1. /\ rcfd.downloadInProgress => fd # Closed
      /\ rcfd.downloadInProgress => closing # "descriptor"
  BY DEF DownloadInv, TightTyped, ClosingInv
<1>2. \A f : Serves(t, f) => AllData(f, received) /\ Continues(f)
  BY <1>0 DEF Serves, AtRead
<1>3. ASSUME NEW msg \in Messages,
             threads' = [threads EXCEPT ![t] = [at |-> "write", msg |-> msg]]
      PROVE  /\ threads' \in [DownloadThreads -> Places]
             /\ threads'[t] = [at |-> "write", msg |-> msg]
             /\ \A u \in DownloadThreads : u # t => threads'[u] = threads[u]
  BY <1>0, <1>3 DEF Places
<1>4. CASE ~rcfd.downloadInProgress
  <2>1. /\ rcfd' = rcfd
        /\ threads' = [threads EXCEPT ![t] = [at |-> "write", msg |-> Failed]]
    BY <1>4 DEF ReadBlock, SendsBlock
  <2>2. /\ threads' \in [DownloadThreads -> Places]
        /\ threads'[t] = [at |-> "write", msg |-> Failed]
        /\ \A u \in DownloadThreads : u # t => threads'[u] = threads[u]
    BY <1>3, <2>1, MessagesTyped
  <2>3. TightTyped' /\ ClosingInv'
    BY <1>0, <2>1, <2>2 DEF DownloadInv, TightTyped, Places, ClosingInv
  <2>4. ASSUME NEW f \in DOMAIN StoredFiles, Serves(t, f)
        PROVE  Serves(t, f)'
    <3>1. AtWrite(f, Failed)'
      BY <1>0, <1>2, <1>4, <2>1, <2>4 DEF AtWrite
    <3>2. QED
      BY <2>2, <3>1 DEF Serves
  <2>5. QED
    BY <1>0, <2>2, <2>3, <2>4, ThreadGoesOn
<1>5. CASE rcfd.downloadInProgress /\ fd.read < StoredFiles[fd.file]
  <2>1. /\ rcfd' = [rcfd EXCEPT !.downloadFD.read = @ + 1]
        /\ threads' = [threads EXCEPT
                         ![t] = [at |-> "write", msg |-> Data(fd.file, fd.read + 1)]]
    BY <1>1, <1>5 DEF ReadBlock, SendsBlock
  <2>2. fd \in ReadingFile /\ fd.read + 1 \in Nat /\ fd.file \in DOMAIN StoredFiles
    BY <1>1, <1>5, DownloadParts DEF DownloadInv, ReadingFile
  <2>3. Data(fd.file, fd.read + 1) \in Messages
    BY <2>2, MessagesTyped
  <2>4. /\ threads' \in [DownloadThreads -> Places]
        /\ threads'[t] = [at |-> "write", msg |-> Data(fd.file, fd.read + 1)]
        /\ \A u \in DownloadThreads : u # t => threads'[u] = threads[u]
    BY <1>3, <2>1, <2>3
  <2>5. rcfd' = [rcfd EXCEPT !.downloadFD = [fd EXCEPT !.read = fd.read + 1]]
    BY <2>1
  <2>6. [fd EXCEPT !.read = fd.read + 1] = [file |-> fd.file, read |-> fd.read + 1]
    BY <2>2 DEF ReadingFile
  <2>7. [file |-> fd.file, read |-> fd.read + 1] \in ReadingFile
    BY <2>2 DEF ReadingFile
  <2>8. /\ rcfd'.downloadInProgress
        /\ rcfd'.downloadFD = [file |-> fd.file, read |-> fd.read + 1]
        /\ rcfd' \in Downloads
    BY <1>5, <2>5, <2>6, <2>7 DEF DownloadInv, TightTyped, Downloads
  <2>9. TightTyped' /\ ClosingInv'
    <3>1. TightTyped'
      BY <1>0, <2>4, <2>7, <2>8, DownloadsNext, DownloadParts DEF DownloadInv
    <3>2. QED
      BY <1>0, <1>1, <1>5, <2>8, <3>1 DEF ClosingInv
  <2>10. ASSUME NEW f \in DOMAIN StoredFiles, Serves(t, f)
         PROVE  Serves(t, f)'
    <3>1. /\ AllData(f, received) /\ fd = [file |-> f, read |-> Len(received)]
          /\ fd.file = f /\ fd.read = Len(received)
      BY <1>2, <1>5, <2>10 DEF Continues
    <3>2. Len(received) + 1 <= StoredFiles[f]
      <4>1. Len(received) \in Nat /\ StoredFiles[f] \in Nat
        BY BlocksAreNat, DownloadParts DEF DownloadInv
      <4>2. Len(received) < StoredFiles[f]
        BY <1>5, <3>1
      <4>3. QED
        BY <4>1, <4>2
    <3>3. AtWrite(f, Data(f, Len(received) + 1))'
      <4>1. rcfd'.downloadFD = [file |-> f, read |-> Len(received) + 1]
        BY <2>8, <3>1
      <4>2. QED
        BY <1>0, <2>8, <3>1, <3>2, <4>1 DEF AtWrite
    <3>4. threads'[t].at = "write" /\ threads'[t].msg = Data(f, Len(received) + 1)
      BY <2>4, <3>1
    <3>5. Data(f, Len(received) + 1)' = Data(f, Len(received) + 1)
      BY <1>0
    <3>6. QED
      BY <3>3, <3>4, <3>5 DEF Serves
  <2>11. QED
    BY <1>0, <2>4, <2>9, <2>10, ThreadGoesOn
<1>6. CASE rcfd.downloadInProgress /\ ~(fd.read < StoredFiles[fd.file])
  <2>1. /\ rcfd' = AtEnd
        /\ threads' = [threads EXCEPT ![t] = [at |-> "write", msg |-> EndMarker]]
    BY <1>1, <1>6 DEF ReadBlock, SendsBlock
  <2>2. /\ threads' \in [DownloadThreads -> Places]
        /\ threads'[t] = [at |-> "write", msg |-> EndMarker]
        /\ \A u \in DownloadThreads : u # t => threads'[u] = threads[u]
    BY <1>3, <2>1, MessagesTyped
  <2>3. /\ ~rcfd'.downloadInProgress /\ rcfd'.downloadFD = Closed
        /\ rcfd' \in Downloads
    BY <2>1 DEF DownloadInv, TightTyped, AtEnd, Downloads
  <2>4. TightTyped' /\ ClosingInv'
    BY <1>0, <1>1, <1>6, <2>2, <2>3 DEF DownloadInv, TightTyped, Places, ClosingInv
  <2>5. ASSUME NEW f \in DOMAIN StoredFiles, Serves(t, f)
        PROVE  Serves(t, f)'
    <3>1. /\ AllData(f, received) /\ fd = [file |-> f, read |-> Len(received)]
          /\ Len(received) <= StoredFiles[f]
          /\ fd.file = f /\ fd.read = Len(received)
      BY <1>2, <1>6, <2>5 DEF Continues
    <3>2. Len(received) = StoredFiles[f]
      <4>1. Len(received) \in Nat /\ StoredFiles[f] \in Nat
        BY BlocksAreNat, DownloadParts DEF DownloadInv
      <4>2. QED
        BY <1>6, <3>1, <4>1
    <3>3. AtWrite(f, EndMarker)'
      BY <1>0, <2>3, <3>1, <3>2 DEF AtWrite
    <3>4. QED
      BY <2>2, <3>3 DEF Serves
  <2>6. QED
    BY <1>0, <2>2, <2>4, <2>5, ThreadGoesOn
<1>7. QED
  BY <1>4, <1>5, <1>6 DEF DownloadInv, TightTyped

(* What is written is the next block, or the end. *)
LEMMA WriteBlockInv ==
  ASSUME DownloadInv, NEW t \in DownloadThreads, WriteBlock(t)
  PROVE  DownloadInv'
<1> DEFINE msg == threads[t].msg
           n == Len(received)
<1>0. /\ threads \in [DownloadThreads -> Places] /\ threads[t].at = "write"
      /\ t \in Running /\ UNCHANGED <<rcfd, disturbed, undone, closing, restarted>>
      /\ msg \in Messages
  BY DEF DownloadInv, TightTyped, Places, WriteBlock, ThreadAt, Running
<1>1. /\ threads' = [threads EXCEPT ![t] = [at |-> "test", msg |-> Failed]]
      /\ received' = IF disturbed THEN received ELSE Append(received, msg)
  BY DEF WriteBlock
<1>2. received \in Seq(Messages) /\ n \in Nat /\ rcfd.downloadInProgress \in BOOLEAN
  BY DownloadParts DEF DownloadInv
<1>3. [at |-> "test", msg |-> Failed] \in Places
  BY MessagesTyped DEF Places
<1>4. /\ threads' \in [DownloadThreads -> Places]
      /\ threads'[t].at = "test"
      /\ \A u \in DownloadThreads : u # t => threads'[u] = threads[u]
  BY <1>0, <1>1, <1>3
<1>5. received' \in Seq(Messages)
  BY <1>0, <1>1, <1>2
<1>6. TightTyped' /\ ClosingInv'
  BY <1>0, <1>4, <1>5 DEF DownloadInv, TightTyped, ClosingInv
<1>7. ASSUME ~disturbed, NEW f \in DOMAIN StoredFiles, Serves(t, f)
      PROVE  Serves(t, f)'
  <2>1. AllData(f, received) /\ AtWrite(f, msg)
    BY <1>0, <1>7 DEF Serves, AtWrite
  <2>2. received' = Append(received, msg)
    BY <1>1, <1>7
  <2> HIDE DEF msg
  <2>3. /\ Len(received') = n + 1 /\ received'[n + 1] = msg
        /\ \A i \in 1..n : received'[i] = received[i]
    BY <1>0, <1>2, <2>2, AppendProperties
  <2>4. \A i \in 1..n : received'[i] = Data(f, i)
    BY <2>1, <2>3 DEF AllData
  <2>5. CASE /\ msg = Data(f, n + 1)
             /\ IF rcfd.downloadInProgress
                THEN /\ rcfd.downloadFD = [file |-> f, read |-> n + 1]
                     /\ n + 1 <= StoredFiles[f]
                ELSE undone
    <3>1. AllData(f, received')
      BY <1>2, <2>3, <2>4, <2>5 DEF AllData
    <3>2. Continues(f)'
      BY <1>0, <2>3, <2>5 DEF Continues
    <3>3. QED
      BY <1>4, <3>1, <3>2 DEF Serves, AtTest
  <2>6. CASE \/ msg = EndMarker /\ n = StoredFiles[f] /\ ~rcfd.downloadInProgress
             \/ msg = Failed /\ ~rcfd.downloadInProgress
    <3>1. Failed # EndMarker
      BY DEF Failed, EndMarker
    <3>2. /\ n + 1 > 0 /\ (n + 1) - 1 = n
          /\ msg \in {EndMarker, Failed}
          /\ msg = EndMarker => n = StoredFiles[f]
      BY <1>2, <2>6, <3>1
    <3>3. Finished(f, received')
      BY <2>3, <2>4, <3>2 DEF Finished
    <3>4. QED
      BY <1>0, <1>4, <2>6, <3>3 DEF Serves, AtTest
  <2>7. QED
    BY <2>1, <2>5, <2>6 DEF AtWrite
<1>8. disturbed' = disturbed /\ threads'[t].at # "none"
  BY <1>0, <1>4
<1>9. QED
  BY <1>0, <1>4, <1>6, <1>7, <1>8, ThreadGoesOn

(* A step with which the thread ends. *)
LEMMA ThreadEnds ==
  ASSUME DownloadInv, NEW t \in Running, TightTyped',
         \A u \in DownloadThreads : u # t => threads'[u] = threads[u],
         threads'[t].at = "none", ClosingInv',
         UNCHANGED <<disturbed, restarted>>,
         ~rcfd'.downloadInProgress,
         Alone => NothingRuns'
  PROVE  DownloadInv'
<1>1. Running' = Running \ {t} /\ Alone' = Alone
  BY DEF Running, Alone
<1>2. ~disturbed => Running' = {}
  BY <1>1 DEF DownloadInv
<1>3. ~Alone => NothingRuns'
  BY <1>1 DEF NothingRuns
<1>4. QED
  BY <1>1, <1>2, <1>3 DEF DownloadInv, Alone

(* A write fails: the connection is closed, and the download with it. *)
LEMMA WriteFailsInv ==
  ASSUME DownloadInv, NEW t \in DownloadThreads, WriteFails(t)
  PROVE  DownloadInv'
<1>0. /\ threads \in [DownloadThreads -> Places] /\ threads[t].at = "write"
      /\ t \in Running /\ UNCHANGED <<received, disturbed, restarted>>
      /\ tightState' = "closed"
      /\ threads' = [threads EXCEPT ![t] = IdleThread]
      /\ CloseUndoneDownload
  BY DEF DownloadInv, TightTyped, Places, WriteFails, ThreadAt, Running,
     CloseUndoneFileTransfer
<1>1. IdleThread \in Places /\ IdleThread.at = "none"
  BY MessagesTyped DEF Places, IdleThread
<1>2. /\ threads' \in [DownloadThreads -> Places] /\ threads'[t].at = "none"
      /\ \A u \in DownloadThreads : u # t => threads'[u] = threads[u]
  BY <1>0, <1>1
<1>3. /\ received \in Seq(Messages) /\ rcfd \in Downloads /\ undone \in BOOLEAN
      /\ rcfd.downloadInProgress => rcfd.downloadFD # Closed
      /\ ClosingInv
  BY DEF DownloadInv, TightTyped
<1>4. /\ rcfd' \in Downloads /\ undone' \in BOOLEAN
      /\ ~rcfd'.downloadInProgress /\ ClosingInv'
  <2>1. CASE rcfd.downloadInProgress
    <3>1. /\ rcfd' = [rcfd EXCEPT !.downloadInProgress = FALSE]
          /\ undone' = TRUE /\ closing' = "descriptor"
      BY <1>0, <2>1 DEF CloseUndoneDownload
    <3>2. QED
      BY <1>3, <2>1, <3>1 DEF Downloads, ClosingInv
  <2>2. CASE ~rcfd.downloadInProgress
    BY <1>0, <1>3, <2>2 DEF CloseUndoneDownload, ClosingInv
  <2>3. QED
    BY <2>1, <2>2
<1>5. TightTyped'
  BY <1>0, <1>2, <1>3, <1>4, DownloadsNext
<1>6. Alone => NothingRuns'
  <2>1. Alone => \E f \in DOMAIN StoredFiles : AllData(f, received)
    BY <1>0 DEF DownloadInv, Serves, AtWrite
  <2>2. QED
    BY <1>0, <1>4, <2>1 DEF NothingRuns, Alone
<1>7. QED
  BY <1>0, <1>2, <1>4, <1>5, <1>6, ThreadEnds

(* The loop goes on as long as the download is in progress. *)
LEMMA TestLoopInv ==
  ASSUME DownloadInv, NEW t \in DownloadThreads, TestLoop(t)
  PROVE  DownloadInv'
<1> DEFINE place == IF rcfd.downloadInProgress THEN "open" ELSE "none"
<1>0. /\ threads \in [DownloadThreads -> Places] /\ threads[t].at = "test"
      /\ t \in Running
      /\ UNCHANGED <<rcfd, received, disturbed, undone, closing, restarted>>
      /\ tightState' = tightState
      /\ threads' = [threads EXCEPT ![t].at = place]
  BY DEF DownloadInv, TightTyped, Places, TestLoop, ThreadAt, Running,
     downloadVars, connectionVars
<1>1. /\ threads' \in [DownloadThreads -> Places] /\ threads'[t].at = place
      /\ \A u \in DownloadThreads : u # t => threads'[u] = threads[u]
  BY <1>0 DEF Places
<1>2. TightTyped' /\ ClosingInv'
  BY <1>0, <1>1 DEF DownloadInv, TightTyped, ClosingInv
<1>3. CASE rcfd.downloadInProgress
  <2>1. ASSUME NEW f \in DOMAIN StoredFiles, Serves(t, f)
        PROVE  Serves(t, f)'
    <3>1. AllData(f, received) /\ Continues(f)
      BY <1>0, <1>3, <2>1 DEF Serves, AtTest
    <3>2. AtOpen(f)'
      BY <1>0, <1>3, <3>1 DEF AtOpen, Continues
    <3>3. QED
      BY <1>1, <1>3, <3>2 DEF Serves
  <2>2. QED
    BY <1>0, <1>1, <1>2, <1>3, <2>1, ThreadGoesOn
<1>4. CASE ~rcfd.downloadInProgress
  <2>1. ASSUME Alone PROVE NothingRuns'
    <3>1. PICK f \in DOMAIN StoredFiles : Serves(t, f)
      BY <1>0, <2>1 DEF DownloadInv
    <3>2. \/ AllData(f, received) /\ undone
          \/ Finished(f, received)
      BY <1>0, <1>4, <3>1 DEF Serves, AtTest, Continues
    <3>3. QED
      BY <1>0, <1>4, <3>2 DEF NothingRuns
  <2>2. QED
    BY <1>0, <1>1, <1>2, <1>4, <2>1, ThreadEnds
<1>5. QED
  BY <1>3, <1>4

(* The server's thread. *)
LEMMA DownloadNextInv ==
  ASSUME DownloadInv, [TransferNext]_transferVars
  PROVE  DownloadInv'
<1>1. CASE HandleSecTypeTight
  <2>1. tightState # "closed" /\ UNCHANGED <<downloadVars, threads>>
    BY <1>1 DEF HandleSecTypeTight, threadVars
  <2>2. QED
    BY <2>1, DownloadUntouched
<1>2. CASE SendInteractionCaps
  <2>1. tightState # "closed" /\ UNCHANGED <<downloadVars, threads>>
    BY <1>2 DEF SendInteractionCaps, threadVars
  <2>2. QED
    BY <2>1, DownloadUntouched
<1>3. CASE Refused
  <2>1. tightState # "closed" /\ UNCHANGED <<downloadVars, threads>>
    BY <1>3 DEF Refused, threadVars
  <2>2. QED
    BY <2>1, DownloadUntouched
<1>4. ASSUME NEW name, FileDownloadRequest(name) PROVE DownloadInv'
  BY <1>4, DownloadRequestInv
<1>5. ASSUME NEW name, FileUploadRequest(name) PROVE DownloadInv'
  <2>1. /\ UNCHANGED <<downloadVars, threads>>
        /\ tightState' = tightState
    BY <1>5 DEF FileUploadRequest, threadVars, ClientRequest,
       connectionVars
  <2>2. QED
    BY <2>1, DownloadUntouched
<1>6. ASSUME NEW name, FileCreateDirRequest(name) PROVE DownloadInv'
  <2>1. /\ UNCHANGED <<downloadVars, threads>>
        /\ tightState' = tightState
    BY <1>6 DEF FileCreateDirRequest, threadVars, ClientRequest,
       connectionVars
  <2>2. QED
    BY <2>1, DownloadUntouched
<1>7. ASSUME NEW name, NEW directoriesOnly, FileListRequest(name, directoriesOnly)
      PROVE  DownloadInv'
  <2>1. /\ UNCHANGED <<downloadVars, threads>>
        /\ tightState' = tightState
    BY <1>7 DEF FileListRequest, threadVars, ClientRequest,
       connectionVars
  <2>2. QED
    BY <2>1, DownloadUntouched
<1>8. CASE FileDownloadCancelRequest
  <2>1. /\ UNCHANGED <<received, disturbed, restarted, threads, tightState>>
        /\ CloseUndoneDownload \/ UNCHANGED <<rcfd, undone, closing>>
    BY <1>8 DEF FileDownloadCancelRequest, ClientRequest, connectionVars,
       threadVars, CloseUndoneFileTransfer
  <2>2. QED
    BY <2>1, DownloadUntouched, DownloadClosed DEF downloadVars
<1>9. CASE FileUploadData
  <2>1. /\ UNCHANGED <<received, disturbed, restarted, threads, tightState>>
        /\ CloseUndoneDownload \/ UNCHANGED <<rcfd, undone, closing>>
    BY <1>9 DEF FileUploadData, ClientRequest, connectionVars, threadVars,
       CloseUndoneFileTransfer
  <2>2. QED
    BY <2>1, DownloadUntouched, DownloadClosed DEF downloadVars
<1>10. CASE FileUploadEnd
  <2>1. /\ UNCHANGED <<downloadVars, threads>>
        /\ tightState' = tightState
    BY <1>10 DEF FileUploadEnd, threadVars, ClientRequest,
       connectionVars
  <2>2. QED
    BY <2>1, DownloadUntouched
<1>11. CASE FileUploadFailedRequest
  <2>1. /\ UNCHANGED <<received, disturbed, restarted, threads, tightState>>
        /\ CloseUndoneDownload
    BY <1>11 DEF FileUploadFailedRequest, ClientRequest, connectionVars,
       threadVars, CloseUndoneFileTransfer
  <2>2. QED
    BY <2>1, DownloadClosed
<1>12. ASSUME NEW t \in DownloadThreads, DownloadThread(t) PROVE DownloadInv'
  BY <1>12, OpenFileInv, ReadBlockInv, WriteBlockInv, WriteFailsInv, TestLoopInv
     DEF DownloadThread
<1>13. CASE UNCHANGED transferVars
  <2>1. /\ UNCHANGED <<downloadVars, threads>>
        /\ tightState' = tightState
    BY <1>13 DEF transferVars, downloadVars
  <2>2. QED
    BY <2>1, DownloadUntouched
<1>14. CASE CloseDescriptor \/ ClearName
  BY <1>14, CloseDescriptorInv, ClearNameInv
<1>15. QED
  BY <1>1, <1>2, <1>3, <1>4, <1>5, <1>6, <1>7, <1>8, <1>9, <1>10, <1>11, <1>12,
     <1>13, <1>14 DEF TransferNext

-----------------------------------------------------------------------------
(* The file of an upload has what was sent for it. *)
FNames == Names \cup {PathTooLong, Unconvertible, ""}

UploadInv ==
  /\ offered \in Seq(Nat)
  /\ rcfu \in [uploadInProgress : BOOLEAN, uploadFD : NewFiles \cup {""},
               fName : FNames]
  /\ rcfu.uploadInProgress /\ rcfu.uploadFD = rcfu.fName =>
       rcfu.fName \in DOMAIN uploaded /\ uploaded[rcfu.fName] = offered

(* CloseUndoneFileTransfer() during an upload or at any other time. *)
LEMMA UploadClosed ==
  ASSUME UploadInv, CloseUndoneUpload, offered' \in Seq(Nat)
  PROVE  UploadInv'
<1>1. CASE rcfu.uploadInProgress
  <2>1. rcfu' = [uploadInProgress |-> FALSE, uploadFD |-> "", fName |-> ""]
    BY <1>1 DEF CloseUndoneUpload
  <2>2. QED
    BY <2>1 DEF UploadInv, FNames
<1>2. CASE ~rcfu.uploadInProgress
  BY <1>2 DEF CloseUndoneUpload, UploadInv
<1>3. QED
  BY <1>1, <1>2

(* A new upload. *)
LEMMA UploadRequestInv ==
  ASSUME UploadInv, NEW name \in FNames, FileUploadRequest(name)
  PROVE  UploadInv'
<1>1. CASE UNCHANGED <<rcfu, uploaded, offered>>
  BY <1>1 DEF UploadInv
<1>2. CASE rcfu' = [rcfu EXCEPT !.fName = name] /\ name = Unconvertible
           /\ UNCHANGED <<uploaded, offered>>
  <2>1. rcfu'.uploadFD = rcfu.uploadFD /\ rcfu'.fName = Unconvertible
    BY <1>2 DEF UploadInv
  <2>2. rcfu.uploadFD # Unconvertible
    BY TransferAssumption DEF UploadInv, Names, Unconvertible
  <2>3. QED
    BY <1>2, <2>1, <2>2 DEF UploadInv
<1>3. CASE rcfu' = [uploadInProgress |-> FALSE, uploadFD |-> "", fName |-> name]
           /\ UNCHANGED <<uploaded, offered>>
  BY <1>3 DEF UploadInv
<1>4. CASE /\ name \in NewFiles \ created
           /\ rcfu' = [uploadInProgress |-> TRUE, uploadFD |-> name,
                       fName |-> name]
           /\ uploaded' = [f \in DOMAIN uploaded \cup {name} |->
                             IF f = name THEN <<>> ELSE uploaded[f]]
           /\ offered' = <<>>
  <2>1. <<>> \in Seq(Nat)
    OBVIOUS
  <2>2. /\ offered' \in Seq(Nat) /\ rcfu'.fName = name
        /\ name \in DOMAIN uploaded' /\ uploaded'[name] = <<>>
    BY <1>4, <2>1
  <2>3. QED
    BY <1>4, <2>2 DEF UploadInv
<1>5. QED
  BY <1>1, <1>2, <1>3, <1>4 DEF FileUploadRequest

(* A block of it. *)
LEMMA UploadDataInv ==
  ASSUME UploadInv, FileUploadData
  PROVE  UploadInv'
<1>1. offered' = Append(offered, Len(offered) + 1) /\ offered' \in Seq(Nat)
  <2>1. offered' = Append(offered, Len(offered) + 1)
    BY DEF FileUploadData
  <2>2. offered \in Seq(Nat)
    BY DEF UploadInv
  <2>3. Len(offered) + 1 \in Nat
    BY <2>2
  <2>4. QED
    BY <2>1, <2>2, <2>3, AppendProperties
<1>2. CASE CloseUndoneFileTransfer
  BY <1>1, <1>2, UploadClosed DEF CloseUndoneFileTransfer
<1>3. CASE /\ uploaded' = [f \in DOMAIN uploaded \cup {rcfu.uploadFD} |->
                             IF f = rcfu.uploadFD
                             THEN Append(uploaded[f], Len(offered) + 1)
                             ELSE uploaded[f]]
           /\ UNCHANGED rcfu
  BY <1>1, <1>3 DEF UploadInv
<1>4. QED
  BY <1>2, <1>3 DEF FileUploadData

(* No other step touches an upload, but to close it. *)
LEMMA UploadNextInv ==
  ASSUME UploadInv, [TransferNext]_transferVars
  PROVE  UploadInv'
<1>1. ASSUME UNCHANGED <<uploaded, rcfu, offered>> PROVE UploadInv'
  BY <1>1 DEF UploadInv
<1>2. ASSUME NEW name \in Names \cup {PathTooLong, Unconvertible},
             FileUploadRequest(name)
      PROVE  UploadInv'
  BY <1>2, UploadRequestInv DEF FNames
<1>3. CASE FileUploadData
  BY <1>3, UploadDataInv
<1>4. CASE FileUploadEnd
  <2>1. /\ UNCHANGED <<uploaded, offered>>
        /\ rcfu' = IF rcfu.uploadFD = "" THEN rcfu
                   ELSE [rcfu EXCEPT !.uploadFD = "", !.uploadInProgress = FALSE]
    BY <1>4 DEF FileUploadEnd
  <2>2. CASE rcfu.uploadFD = ""
    BY <1>1, <2>1, <2>2
  <2>3. CASE rcfu.uploadFD # ""
    <3>1. rcfu' = [uploadInProgress |-> FALSE, uploadFD |-> "", fName |-> rcfu.fName]
      BY <2>1, <2>3 DEF UploadInv
    <3>2. QED
      BY <2>1, <3>1 DEF UploadInv
  <2>4. QED
    BY <2>2, <2>3
<1>5. CASE FileDownloadCancelRequest \/ FileUploadFailedRequest
  <2>1. offered' = offered
    BY <1>5 DEF FileDownloadCancelRequest, FileUploadFailedRequest
  <2>2. CloseUndoneUpload \/ UNCHANGED <<rcfu, uploaded>>
    BY <1>5 DEF FileDownloadCancelRequest, FileUploadFailedRequest,
       CloseUndoneFileTransfer
  <2>3. offered' \in Seq(Nat)
    BY <2>1 DEF UploadInv
  <2>4. QED
    BY <1>1, <2>1, <2>2, <2>3, UploadClosed
<1>6. ASSUME NEW t \in DownloadThreads, DownloadThread(t) PROVE UploadInv'
  <2>1. CASE WriteFails(t)
    <3>1. CloseUndoneUpload /\ offered' = offered
      BY <2>1 DEF WriteFails, CloseUndoneFileTransfer
    <3>2. offered' \in Seq(Nat)
      BY <3>1 DEF UploadInv
    <3>3. QED
      BY <3>1, <3>2, UploadClosed
  <2>2. CASE OpenFile(t) \/ ReadBlock(t) \/ WriteBlock(t) \/ TestLoop(t)
    BY <1>1, <2>2 DEF OpenFile, ReadBlock, WriteBlock, TestLoop, uploadVars
  <2>3. QED
    BY <1>6, <2>1, <2>2 DEF DownloadThread
<1>7. CASE HandleSecTypeTight \/ SendInteractionCaps \/ Refused
  BY <1>1, <1>7 DEF HandleSecTypeTight, SendInteractionCaps, Refused, uploadVars
<1>8. ASSUME NEW name, NEW b,
             \/ FileDownloadRequest(name) \/ FileCreateDirRequest(name)
             \/ FileListRequest(name, b)
      PROVE  UploadInv'
  BY <1>1, <1>8 DEF FileDownloadRequest, FileCreateDirRequest, FileListRequest,
     uploadVars
<1>9. CASE UNCHANGED transferVars
  BY <1>1, <1>9 DEF transferVars
<1>10. CASE CloseDescriptor \/ ClearName
  BY <1>1, <1>10 DEF CloseDescriptor, ClearName, uploadVars
<1>11. QED
  BY <1>2, <1>3, <1>4, <1>5, <1>6, <1>7, <1>8, <1>9, <1>10 DEF TransferNext

-----------------------------------------------------------------------------
(* Nothing is transferred without the answer to a challenge. *)
NoUploads == [f \in {} |-> <<>>]
Permitted == authenticated \/ ~tightServer.password \/ tightServer.reverse

PermissionInv ==
  /\ ~Permitted \/ tightState = "security" =>
       Running = {} /\ uploaded = NoUploads
  /\ tightState \in {"initialisation", "normal"} => Permitted

(* Everything but the handshake needs a client that is past it. *)
LEMMA TransfersAreNormal ==
  ASSUME TransferNext, ~HandleSecTypeTight, ~SendInteractionCaps
  PROVE  /\ tightState = "normal" /\ tightState' \in {"normal", "closed"}
         /\ UNCHANGED <<tightServer, authenticated>>
<1>1. ClientRequest =>
        /\ tightState = "normal" /\ tightState' = "normal"
        /\ UNCHANGED <<tightServer, authenticated>>
  BY DEF ClientRequest, connectionVars
<1>2. ASSUME NEW name, NEW b,
             \/ FileDownloadRequest(name) \/ FileUploadRequest(name)
             \/ FileCreateDirRequest(name) \/ FileListRequest(name, b)
             \/ FileDownloadCancelRequest \/ FileUploadData \/ FileUploadEnd
             \/ FileUploadFailedRequest
      PROVE  ClientRequest
  BY <1>2 DEF FileDownloadRequest, FileUploadRequest, FileCreateDirRequest,
     FileListRequest, FileDownloadCancelRequest, FileUploadData, FileUploadEnd,
     FileUploadFailedRequest
<1>3. ASSUME NEW t \in DownloadThreads, DownloadThread(t)
      PROVE  /\ tightState = "normal" /\ tightState' \in {"normal", "closed"}
             /\ UNCHANGED <<tightServer, authenticated>>
  BY <1>3 DEF DownloadThread, OpenFile, ReadBlock, WriteBlock, WriteFails, TestLoop,
     ThreadAt, connectionVars
<1>4. CASE Refused
  BY <1>4 DEF Refused
<1>5. CASE CloseDescriptor \/ ClearName
  BY <1>5 DEF CloseDescriptor, ClearName, connectionVars
<1>6. QED
  BY <1>1, <1>2, <1>3, <1>4, <1>5 DEF TransferNext

(* The handshake gives permission, and nothing takes it away. *)
LEMMA PermissionNextInv ==
  ASSUME PermissionInv, [TransferNext]_transferVars
  PROVE  PermissionInv'
<1>1. CASE HandleSecTypeTight
  <2>1. /\ tightState = "security" /\ UNCHANGED <<tightServer, uploaded, threads>>
        /\ \/ AuthCaps = {} /\ tightState' = "initialisation"
           \/ AuthCaps # {} /\ tightState' = IF authenticated' THEN "initialisation"
                                             ELSE "closed"
    BY <1>1 DEF HandleSecTypeTight, uploadVars, threadVars
  <2>2. AuthCaps = {} => ~tightServer.password \/ tightServer.reverse
    BY DEF AuthCaps
  <2>3. Running' = Running
    BY <2>1 DEF Running
  <2>4. QED
    BY <2>1, <2>2, <2>3 DEF PermissionInv, Permitted
<1>2. CASE SendInteractionCaps
  <2>1. /\ tightState = "initialisation" /\ tightState' = "normal"
        /\ UNCHANGED <<tightServer, authenticated, uploaded, threads>>
    BY <1>2 DEF SendInteractionCaps, uploadVars, threadVars
  <2>2. QED
    BY <2>1 DEF PermissionInv, Permitted
<1>3. CASE TransferNext /\ ~HandleSecTypeTight /\ ~SendInteractionCaps
  BY <1>3, TransfersAreNormal DEF PermissionInv, Permitted
<1>4. CASE UNCHANGED transferVars
  BY <1>4 DEF transferVars, PermissionInv, Permitted, Running
<1>5. QED
  BY <1>1, <1>2, <1>3, <1>4

-----------------------------------------------------------------------------
TightTransferInv == DownloadInv /\ UploadInv /\ PermissionInv

(* What a thread serves, what an upload has written and who is permitted   *)
(* to transfer are kept by every step.                                     *)
THEOREM TransferInvariance == TransferSpec => []TightTransferInv
<1>1. TransferInit => TightTransferInv
  <2> SUFFICES ASSUME TransferInit PROVE TightTransferInv
    OBVIOUS
  <2>1. IdleThread \in Places /\ IdleThread.at = "none"
    BY MessagesTyped DEF Places, IdleThread
  <2>2. threads \in [DownloadThreads -> Places] /\ Running = {}
    BY <2>1 DEF TransferInit, Running
  <2>3. /\ rcfd = [downloadInProgress |-> FALSE, downloadFD |-> Closed, fName |-> ""]
        /\ received = <<>> /\ undone = FALSE /\ disturbed = FALSE
        /\ closing = "none"
    BY DEF TransferInit
  <2>4. received \in Seq(Messages) /\ rcfd \in Downloads
    <3>1. <<>> \in Seq(Messages)
      OBVIOUS
    <3>2. rcfd \in Downloads
      BY <2>3 DEF Downloads
    <3>3. QED
      BY <2>3, <3>1, <3>2
  <2>5. DownloadInv
    BY <2>2, <2>3, <2>4 DEF DownloadInv, TightTyped, ClosingInv, NothingRuns
  <2>6. UploadInv
    <3>1. /\ rcfu = [uploadInProgress |-> FALSE, uploadFD |-> "", fName |-> ""]
          /\ offered = <<>>
      BY DEF TransferInit
    <3>2. <<>> \in Seq(Nat)
      OBVIOUS
    <3>3. offered \in Seq(Nat)
      BY <3>1, <3>2
    <3>4. QED
      BY <3>1, <3>3 DEF UploadInv, FNames
  <2>7. PermissionInv
    BY <2>2 DEF TransferInit, PermissionInv, NoUploads
  <2>8. QED
    BY <2>5, <2>6, <2>7 DEF TightTransferInv
<1>2. TightTransferInv /\ [TransferNext]_transferVars => TightTransferInv'
  BY DownloadNextInv, UploadNextInv, PermissionNextInv DEF TightTransferInv
<1>3. QED
  BY <1>1, <1>2, PTL DEF TransferSpec

(* Whatever files there are, of any number of blocks, with any number of   *)
(* threads: a download that is not disturbed by another is the file from   *)
(* its beginning, an end marker follows only all of it, unless its file    *)
(* was opened again in the middle of CloseUndoneFileTransfer(); an upload  *)
(* holds what was sent for it, and both need the password if there is one. *)
THEOREM TightFilesAreWhole == TransferSpec => []TransfersAreWhole
<1>1. TightTransferInv => TransfersAreWhole
  <2> SUFFICES ASSUME TightTransferInv PROVE TransfersAreWhole
    OBVIOUS
  <2>1. ~disturbed /\ ~restarted => DownloadIsWhole
    BY DownloadWhole DEF TightTransferInv, Alone
  <2>2. rcfu.uploadInProgress /\ rcfu.uploadFD = rcfu.fName =>
          uploaded[rcfu.fName] = offered
    BY DEF TightTransferInv, UploadInv
  <2>3. Running # {} \/ uploaded # [f \in {} |-> <<>>] =>
          authenticated \/ ~tightServer.password \/ tightServer.reverse
    BY DEF TightTransferInv, PermissionInv, Permitted, NoUploads
  <2>4. QED
    BY <2>1, <2>2, <2>3 DEF TransfersAreWhole
<1>2. QED
  BY <1>1, TransferInvariance, PTL

-----------------------------------------------------------------------------
(***************************************************************************)
(* Proofs about UltraFileTransfer: files are whole, for any directory, any *)
(* contents of the files, and any order of the viewer's messages.  The     *)
(* bound on the blocks of an upload is not needed.                         *)
(***************************************************************************)

Copies == [phase : {"none", "offered", "accepted", "ended"},
           file : Seq(StoredBlocks), copy : Seq(StoredBlocks)]
Descriptors == [inode : Inodes \cup {Folder}, mode : {"r", "w"}, pos : Nat]

UltraTyped ==
  /\ directory \in [Paths -> Inodes \cup {NoFile, Folder}]
  /\ inodeData \in [Inodes -> Seq(StoredBlocks)]
  /\ ftSending \in BOOLEAN
  /\ ultraTaken \in Seq(UltraBlocks)
  /\ copying \in Copies

(* What the viewer has is the beginning of the file it was told of, and    *)
(* all of it at the end.                                                   *)
CopyIsBegun ==
  /\ \E n \in 0..Len(copying.file) : copying.copy = SubSeq(copying.file, 1, n)
  /\ copying.phase = "ended" => copying.copy = copying.file

(* A file that is open for reading is the one the viewer was told of, open *)
(* at what it has of it; whoever has not answered the header has nothing.  *)
DescriptorReads ==
  Opened("r") =>
    /\ ftFd \in Descriptors
    /\ ftFd.inode \in Inodes => copying.file = inodeData[ftFd.inode]
    /\ ftFd.pos \in 0..Len(copying.file)
    /\ copying.copy = SubSeq(copying.file, 1, ftFd.pos)
    /\ copying.phase = IF ftSending THEN "accepted" ELSE "offered"

(* A file that is open for writing holds what was taken, or is damaged     *)
(* there.                                                                  *)
DescriptorWrites ==
  Opened("w") =>
    /\ ftFd \in Descriptors /\ ftFd.inode \in Inodes
    /\ Len(inodeData[ftFd.inode]) = Len(ultraTaken)
    /\ \A n \in 1..Len(ultraTaken) :
         inodeData[ftFd.inode][n] \in {ultraTaken[n], Damaged}

UltraInv == UltraTyped /\ CopyIsBegun /\ DescriptorReads /\ DescriptorWrites

(* What the viewer receives of a block, whether or not it was compressed.  *)
LEMMA BlockArrives ==
  ASSUME NEW block
  PROVE  Uncompressed(Compressed(block)) = block
BY DEF Uncompressed, Compressed

(* The descriptor after a block. *)
LEMMA NextBlock ==
  ASSUME NEW fd \in Descriptors, NEW later, later = [fd EXCEPT !.pos = @ + 1]
  PROVE  /\ later \in Descriptors
         /\ later.inode = fd.inode /\ later.mode = fd.mode
         /\ later.pos = fd.pos + 1
<1>1. fd = [inode |-> fd.inode, mode |-> fd.mode, pos |-> fd.pos]
      /\ fd.inode \in Inodes \cup {Folder} /\ fd.mode \in {"r", "w"}
      /\ fd.pos \in Nat
  BY DEF Descriptors
<1>2. later = [inode |-> fd.inode, mode |-> fd.mode, pos |-> fd.pos + 1]
  BY <1>1
<1>3. QED
  BY <1>1, <1>2 DEF Descriptors

(* A read file that begins with n blocks begins with one more. *)
LEMMA OneMoreBlock ==
  ASSUME NEW S, NEW s \in Seq(S), NEW n \in Nat, n < Len(s)
  PROVE  Append(SubSeq(s, 1, n), s[n + 1]) = SubSeq(s, 1, n + 1)
<1>1. n + 1 \in 1..Len(s) /\ Len(s) \in Nat /\ n + 1 - 1 = n
  BY LenProperties
<1>2. \A i \in 1..n : s[i] \in S
  BY <1>1, ElementOfSeq
<1>3. SubSeq(s, 1, n) \in Seq(S) /\ s[n + 1] \in S
  BY <1>1, <1>2, ElementOfSeq, SubSeqProperties
<1>4. SubSeq(s, 1, n + 1) = SubSeq(s, 1, n + 1 - 1) \o <<s[n + 1]>>
  BY <1>1, SubSeqRecursiveSecond
<1>5. QED
  BY <1>1, <1>3, <1>4, AppendIsConcat

(* The viewer after it has answered the header. *)
LEMMA ReadyCopy ==
  ASSUME UltraInv
  PROVE  /\ Ready \in Copies
         /\ Ready.file = copying.file /\ Ready.copy = copying.copy
         /\ Ready.phase = "ended" => copying.phase = "ended"
         /\ Opened("r") => Ready.phase = "accepted"
<1>1. copying \in Copies
  BY DEF UltraInv, UltraTyped
<1>2. CASE copying.phase = "offered"
  BY <1>1, <1>2 DEF Ready, Copies
<1>3. CASE copying.phase # "offered"
  BY <1>1, <1>3 DEF Ready, UltraInv, DescriptorReads
<1>4. QED
  BY <1>2, <1>3

(* A chunk: sent to a viewer that waits for the blocks of the open file.   *)
LEMMA ChunkInv ==
  ASSUME UltraInv, NEW STATE peer, peer \in Copies,
         peer.file = copying.file, peer.copy = copying.copy,
         Opened("r") => peer.phase = "accepted",
         ftFd # NoFile, UltraChunk(peer),
         UNCHANGED <<fileSystemVars, ultraTaken>>
  PROVE  UltraInv'
<1> DEFINE blocks == inodeData[ftFd.inode]
<1>1. /\ copying.file \in Seq(StoredBlocks) /\ Len(copying.file) \in Nat
      /\ peer.copy \in Seq(StoredBlocks)
  BY LenProperties DEF UltraInv, UltraTyped, Copies
<1>2. CASE /\ Readable /\ ftFd.pos = Len(blocks)
           /\ CloseFile /\ copying' = [peer EXCEPT !.phase = "ended"]
  <2>1. /\ Opened("r") /\ ftFd.inode \in Inodes /\ copying.file = blocks
        /\ copying.copy = SubSeq(copying.file, 1, Len(copying.file))
    BY <1>2 DEF Readable, Opened, UltraInv, DescriptorReads, Descriptors
  <2>2. copying.copy = copying.file
    BY <1>1, <2>1, SubSeqFull
  <2>3. /\ copying' \in Copies
        /\ copying'.file = copying.file /\ copying'.copy = copying.copy
    BY <1>2 DEF Copies
  <2>4. ~Opened("r")' /\ ~Opened("w")'
    BY <1>2 DEF CloseFile, Opened
  <2>5. UltraTyped'
    BY <1>2, <2>3 DEF UltraInv, UltraTyped, CloseFile, fileSystemVars
  <2>6. CopyIsBegun'
    BY <2>2, <2>3 DEF UltraInv, CopyIsBegun
  <2>7. QED
    BY <2>4, <2>5, <2>6 DEF UltraInv, DescriptorReads, DescriptorWrites
<1>3. CASE ~Readable /\ CloseFile /\ copying' = [peer EXCEPT !.phase = "none"]
  <2>1. /\ copying' \in Copies /\ copying'.phase = "none"
        /\ copying'.file = copying.file /\ copying'.copy = copying.copy
    BY <1>3 DEF Copies
  <2>2. ~Opened("r")' /\ ~Opened("w")'
    BY <1>3 DEF CloseFile, Opened
  <2>3. UltraTyped'
    BY <1>3, <2>1 DEF UltraInv, UltraTyped, CloseFile, fileSystemVars
  <2>4. CopyIsBegun'
    BY <2>1 DEF UltraInv, CopyIsBegun
  <2>5. QED
    BY <2>2, <2>3, <2>4 DEF UltraInv, DescriptorReads, DescriptorWrites
<1>4. CASE /\ Readable /\ ftFd.pos < Len(blocks)
           /\ ftFd' = [ftFd EXCEPT !.pos = @ + 1]
           /\ copying' = [peer EXCEPT
                !.copy = Append(@, Uncompressed(Compressed(blocks[ftFd.pos + 1])))]
           /\ ftSending' = TRUE
  <2>1. /\ Opened("r") /\ ftFd \in Descriptors /\ ftFd.inode \in Inodes
        /\ copying.file = blocks
        /\ copying.copy = SubSeq(copying.file, 1, ftFd.pos)
        /\ ftFd.pos \in Nat /\ ftFd.pos < Len(copying.file)
    BY <1>1, <1>4
       DEF Readable, Opened, UltraInv, DescriptorReads, Descriptors
  <2>2. blocks[ftFd.pos + 1] \in StoredBlocks
    BY <1>1, <2>1, ElementOfSeq
  <2>3. copying' = [peer EXCEPT
                      !.copy = Append(peer.copy, blocks[ftFd.pos + 1])]
    BY <1>4, BlockArrives
  <2>4. /\ copying' \in Copies
        /\ copying'.file = copying.file /\ copying'.phase = "accepted"
        /\ copying'.copy = Append(copying.copy, blocks[ftFd.pos + 1])
    <3>1. Append(peer.copy, blocks[ftFd.pos + 1]) \in Seq(StoredBlocks)
      BY <1>1, <2>2, AppendProperties
    <3>2. QED
      BY <2>1, <2>3, <3>1 DEF Copies
  <2>5. copying'.copy = SubSeq(copying'.file, 1, ftFd.pos + 1)
    BY <1>1, <2>1, <2>4, OneMoreBlock
  <2>6. /\ ftFd' \in Descriptors /\ ftFd'.inode = ftFd.inode
        /\ ftFd'.mode = "r" /\ ftFd'.pos = ftFd.pos + 1
    <3>1. ftFd.mode = "r"
      BY <2>1 DEF Opened
    <3>2. ftFd' = [ftFd EXCEPT !.pos = @ + 1]
      BY <1>4
    <3>3. ftFd \in Descriptors
      BY <2>1
    <3>4. QED
      BY <3>1, <3>2, <3>3, NextBlock
  <2>7. ftFd.pos + 1 \in 0..Len(copying'.file)
    <3>1. \A n, m \in Nat : n < m => n + 1 \in 0..m
      OBVIOUS
    <3>2. QED
      BY <1>1, <2>1, <2>4, <3>1
  <2>8. UltraTyped'
    BY <1>4, <2>4 DEF UltraInv, UltraTyped, fileSystemVars
  <2>9. CopyIsBegun'
    BY <2>4, <2>5, <2>7 DEF CopyIsBegun
  <2>10. DescriptorReads'
    BY <1>4, <2>1, <2>4, <2>5, <2>6, <2>7 DEF DescriptorReads, fileSystemVars
  <2>11. ~Opened("w")'
    BY <2>6 DEF Opened
  <2>12. QED
    BY <2>8, <2>9, <2>10, <2>11 DEF UltraInv, DescriptorWrites
<1>5. QED
  BY <1>2, <1>3, <1>4 DEF UltraChunk

(* Nothing is offered, and no file is open. *)
LEMMA NothingInv ==
  ASSUME UltraInv, ftFd' = NoFile, copying' = Nothing,
         ftSending' \in BOOLEAN, ultraTaken' \in Seq(UltraBlocks),
         UNCHANGED inodeData,
         directory' \in [Paths -> Inodes \cup {NoFile, Folder}]
  PROVE  UltraInv'
<1>1. /\ copying' \in Copies /\ copying'.file = <<>> /\ copying'.copy = <<>>
      /\ copying'.phase = "none" /\ Len(<<>>) = 0
      /\ SubSeq(<<>>, 1, 0) = <<>>
  BY EmptySeq, SubSeqEmpty DEF Nothing, Copies
<1>2. UltraTyped'
  BY <1>1 DEF UltraInv, UltraTyped
<1>3. CopyIsBegun'
  BY <1>1 DEF CopyIsBegun
<1>4. ~Opened("r")' /\ ~Opened("w")'
  BY DEF Opened
<1>5. QED
  BY <1>2, <1>3, <1>4 DEF UltraInv, DescriptorReads, DescriptorWrites

-----------------------------------------------------------------------------
(* The request: the viewer is told of the file that is opened. *)
LEMMA RequestInv ==
  ASSUME UltraInv, NEW path \in Paths, NEW compress \in BOOLEAN,
         Request(path, compress)
  PROVE  UltraInv'
<1> USE DEF Request
<1>1. directory \in [Paths -> Inodes \cup {NoFile, Folder}]
      /\ inodeData \in [Inodes -> Seq(StoredBlocks)] /\ ftSending \in BOOLEAN
      /\ <<>> \in Seq(UltraBlocks) /\ <<>> \in Seq(StoredBlocks)
  BY EmptySeq DEF UltraInv, UltraTyped
<1>2. CASE directory[path] = NoFile
  <2>1. /\ ftFd' = NoFile /\ copying' = Nothing /\ ftSending' = ftSending
        /\ ultraTaken' = <<>> /\ inodeData' = inodeData
        /\ directory' = directory
    BY <1>2 DEF fileSystemVars
  <2>2. QED
    BY <1>1, <2>1, NothingInv
<1>3. CASE directory[path] # NoFile
  <2> DEFINE file == IF directory[path] = Folder THEN <<>>
                     ELSE inodeData[directory[path]]
  <2>1. file \in Seq(StoredBlocks) /\ Len(file) \in Nat
        /\ (directory[path] \in Inodes => file = inodeData[directory[path]])
        /\ SubSeq(file, 1, 0) = <<>>
    BY <1>1, <1>3, UltraAssumption, LenProperties, SubSeqEmpty
  <2>2. /\ ftFd' = [inode |-> directory[path], mode |-> "r", pos |-> 0]
        /\ copying' = [phase |-> "offered", copy |-> <<>>, file |-> file]
        /\ ftSending' = FALSE /\ ultraTaken' = <<>>
        /\ inodeData' = inodeData /\ directory' = directory
    BY <1>3 DEF Descriptor, StopSending, fileSystemVars
  <2> HIDE DEF file
  <2>3. UltraTyped'
    BY <1>1, <2>1, <2>2 DEF UltraTyped, Copies
  <2>4. CopyIsBegun'
    BY <2>1, <2>2 DEF CopyIsBegun
  <2>5. ftFd' \in Descriptors
    BY <1>1, <1>3, <2>2 DEF Descriptors
  <2>6. DescriptorReads'
    BY <2>1, <2>2, <2>5 DEF DescriptorReads
  <2>7. ~Opened("w")'
    BY <2>2 DEF Opened
  <2>8. DescriptorWrites'
    BY <2>7 DEF DescriptorWrites
  <2>9. QED
    BY <2>3, <2>4, <2>6, <2>8 DEF UltraInv
<1>4. QED
  BY <1>2, <1>3

(* The answer to the header, which the viewer may repeat. *)
LEMMA FileHeaderInv ==
  ASSUME UltraInv, NEW refused \in BOOLEAN, FileHeader(refused)
  PROVE  UltraInv'
<1>1. UNCHANGED <<fileSystemVars, ultraTaken>>
  BY DEF FileHeader
<1>2. CASE ftFd' = NoFile /\ copying' = Nothing /\ UNCHANGED ftSending
  BY <1>1, <1>2, NothingInv DEF UltraInv, UltraTyped, fileSystemVars
<1>3. CASE ftFd # NoFile /\ UltraChunk(Ready)
  BY <1>1, <1>3, ReadyCopy, ChunkInv
<1>4. CASE ftSending' = TRUE /\ copying' = Ready /\ UNCHANGED ftFd
  <2>1. UltraTyped'
    BY <1>1, <1>4, ReadyCopy DEF UltraInv, UltraTyped, fileSystemVars
  <2>2. CopyIsBegun'
    BY <1>4, ReadyCopy DEF UltraInv, CopyIsBegun
  <2>3. DescriptorReads'
    BY <1>1, <1>4, ReadyCopy
       DEF UltraInv, DescriptorReads, Opened, fileSystemVars
  <2>4. DescriptorWrites'
    BY <1>1, <1>4 DEF UltraInv, DescriptorWrites, Opened, fileSystemVars
  <2>5. QED
    BY <2>1, <2>2, <2>3, <2>4 DEF UltraInv
<1>5. QED
  BY <1>2, <1>3, <1>4 DEF FileHeader

(* The offer: a file that is created, or cut to nothing while nothing else *)
(* is open.                                                                *)
LEMMA OfferInv ==
  ASSUME UltraInv, NEW path \in Paths, Offer(path)
  PROVE  UltraInv'
<1>1. /\ copying' = Nothing /\ ultraTaken' = <<>>
      /\ <<>> \in Seq(UltraBlocks) /\ <<>> \in Seq(StoredBlocks)
      /\ directory \in [Paths -> Inodes \cup {NoFile, Folder}]
      /\ inodeData \in [Inodes -> Seq(StoredBlocks)] /\ ftSending \in BOOLEAN
  BY EmptySeq DEF Offer, UltraInv, UltraTyped
<1>2. CASE ftFd' = NoFile /\ UNCHANGED <<fileSystemVars, ftSending>>
  BY <1>1, <1>2, NothingInv DEF fileSystemVars
<1>3. CASE /\ directory[path] # Folder
           /\ \E i \in Inodes :
                /\ \/ i = directory[path]
                   \/ directory[path] = NoFile /\ i \in Unused
                /\ directory' = [directory EXCEPT ![path] = i]
                /\ inodeData' = [inodeData EXCEPT ![i] = <<>>]
                /\ ftFd' = Descriptor(i, "w")
           /\ ftSending' = FALSE
  <2>1. PICK i \in Inodes :
          /\ directory' = [directory EXCEPT ![path] = i]
          /\ inodeData' = [inodeData EXCEPT ![i] = <<>>]
          /\ ftFd' = [inode |-> i, mode |-> "w", pos |-> 0]
    BY <1>3 DEF Descriptor
  <2>2. /\ copying' \in Copies /\ copying'.phase = "none"
        /\ copying'.file = <<>> /\ copying'.copy = <<>>
        /\ Len(<<>>) = 0 /\ SubSeq(<<>>, 1, 0) = <<>>
    BY <1>1, SubSeqEmpty DEF Nothing, Copies
  <2>3. UltraTyped'
    BY <1>1, <1>3, <2>1, <2>2 DEF UltraTyped
  <2>4. CopyIsBegun'
    BY <2>2 DEF CopyIsBegun
  <2>5. ~Opened("r")'
    BY <2>1 DEF Opened
  <2>6. DescriptorWrites'
    BY <1>1, <2>1 DEF DescriptorWrites, Descriptors
  <2>7. QED
    BY <2>3, <2>4, <2>5, <2>6 DEF UltraInv, DescriptorReads
<1>4. QED
  BY <1>2, <1>3 DEF Offer

(* A packet of an upload, with or without compression. *)
LEMMA FilePacketInv ==
  ASSUME UltraInv, NEW block \in UltraBlocks, NEW compressed \in BOOLEAN,
         FilePacket(block, compressed)
  PROVE  UltraInv'
<1> DEFINE packet == IF compressed
                     THEN [size |-> 1, data |-> <<"compressed", block>>]
                     ELSE [size |-> 0, data |-> block]
           blocks == inodeData[ftFd.inode]
<1>1. Uncompressed(packet) = block
  BY DEF Uncompressed
<1>2. /\ directory' = directory
      /\ \/ /\ Opened("w")
            /\ \E written \in {block, Damaged} :
                 inodeData' = [inodeData EXCEPT
                                 ![ftFd.inode] = Append(@, written)]
            /\ ftFd' = [ftFd EXCEPT !.pos = @ + 1]
            /\ ultraTaken' = Append(ultraTaken, block)
            /\ UNCHANGED <<ftSending, copying>>
         \/ /\ CloseFile /\ copying' = Nothing /\ ultraTaken' = <<>>
            /\ UNCHANGED inodeData
  BY <1>1 DEF FilePacket, Written
<1>3. CASE CloseFile /\ copying' = Nothing /\ ultraTaken' = <<>>
           /\ UNCHANGED inodeData
  BY <1>2, <1>3, NothingInv, EmptySeq DEF CloseFile, UltraInv, UltraTyped
<1>4. CASE /\ Opened("w")
           /\ \E written \in {block, Damaged} :
                inodeData' = [inodeData EXCEPT
                                ![ftFd.inode] = Append(@, written)]
           /\ ftFd' = [ftFd EXCEPT !.pos = @ + 1]
           /\ ultraTaken' = Append(ultraTaken, block)
           /\ UNCHANGED <<ftSending, copying>>
  <2>1. /\ ftFd \in Descriptors /\ ftFd.mode = "w" /\ ftFd.inode \in Inodes
        /\ Len(blocks) = Len(ultraTaken)
        /\ \A n \in 1..Len(ultraTaken) : blocks[n] \in {ultraTaken[n], Damaged}
        /\ ultraTaken \in Seq(UltraBlocks) /\ Len(ultraTaken) \in Nat
        /\ inodeData \in [Inodes -> Seq(StoredBlocks)]
        /\ blocks \in Seq(StoredBlocks)
    BY <1>4, LenProperties DEF UltraInv, UltraTyped, DescriptorWrites, Opened
  <2>2. PICK written \in {block, Damaged} :
          inodeData' = [inodeData EXCEPT ![ftFd.inode] = Append(blocks, written)]
    BY <1>4
  <2>3. written \in StoredBlocks
    BY <2>2 DEF StoredBlocks
  <2> DEFINE more == Append(blocks, written)
  <2>4. /\ more \in Seq(StoredBlocks) /\ Len(more) = Len(blocks) + 1
        /\ \A n \in 1..Len(blocks) : more[n] = blocks[n]
        /\ more[Len(blocks) + 1] = written
    BY <2>1, <2>3, AppendProperties
  <2>5. /\ ultraTaken' \in Seq(UltraBlocks)
        /\ Len(ultraTaken') = Len(ultraTaken) + 1
        /\ \A n \in 1..Len(ultraTaken) : ultraTaken'[n] = ultraTaken[n]
        /\ ultraTaken'[Len(ultraTaken) + 1] = block
    BY <1>4, <2>1, AppendProperties
  <2>6. /\ inodeData' \in [Inodes -> Seq(StoredBlocks)]
        /\ inodeData'[ftFd.inode] = more
    BY <2>1, <2>2, <2>4
  <2>7. ftFd' \in Descriptors /\ ftFd'.mode = "w" /\ ftFd'.inode = ftFd.inode
    BY <1>4, <2>1, NextBlock
  <2> HIDE DEF more, blocks
  <2>8. /\ Len(more) = Len(ultraTaken')
        /\ \A n \in 1..Len(ultraTaken') : more[n] \in {ultraTaken'[n], Damaged}
    <3> DEFINE m == Len(ultraTaken)
    <3>1. m \in Nat /\ Len(blocks) = m
      BY <2>1
    <3>2. Len(more) = m + 1 /\ Len(ultraTaken') = m + 1
      BY <2>4, <2>5, <3>1
    <3>3. more[m + 1] \in {ultraTaken'[m + 1], Damaged}
      BY <2>2, <2>4, <2>5, <3>1
    <3>4. \A n \in 1..m : more[n] \in {ultraTaken'[n], Damaged}
      BY <2>1, <2>4, <2>5, <3>1
    <3> HIDE DEF m
    <3>5. \A n \in 1..(m + 1) : n \in 1..m \/ n = m + 1
      BY <3>1
    <3>6. QED
      BY <3>2, <3>3, <3>4, <3>5
  <2>9. UltraTyped'
    BY <1>2, <1>4, <2>5, <2>6 DEF UltraInv, UltraTyped
  <2>10. CopyIsBegun'
    BY <1>4 DEF UltraInv, CopyIsBegun
  <2>11. ~Opened("r")'
    BY <2>7 DEF Opened
  <2>12. DescriptorWrites'
    BY <2>1, <2>6, <2>7, <2>8 DEF DescriptorWrites
  <2>13. QED
    BY <2>9, <2>10, <2>11, <2>12 DEF UltraInv, DescriptorReads
<1>5. QED
  BY <1>2, <1>3, <1>4

(* The end of an upload, or a transfer that is given up. *)
LEMMA FinishInv ==
  ASSUME UltraInv, Finish
  PROVE  UltraInv'
<1>1. /\ ftFd' = NoFile /\ ftSending' = FALSE /\ ultraTaken' = <<>>
      /\ UNCHANGED fileSystemVars
  BY DEF Finish, CloseFile
<1>2. CASE copying.phase = "ended"
  <2>1. copying' = copying
    BY <1>2 DEF Finish
  <2>2. UltraTyped'
    BY <1>1, <2>1, EmptySeq DEF UltraInv, UltraTyped, fileSystemVars
  <2>3. CopyIsBegun'
    BY <2>1 DEF UltraInv, CopyIsBegun
  <2>4. ~Opened("r")' /\ ~Opened("w")'
    BY <1>1 DEF Opened
  <2>5. QED
    BY <2>2, <2>3, <2>4 DEF UltraInv, DescriptorReads, DescriptorWrites
<1>3. CASE copying.phase # "ended"
  <2>1. copying' = Nothing
    BY <1>3 DEF Finish
  <2>2. QED
    BY <1>1, <2>1, NothingInv, EmptySeq
       DEF UltraInv, UltraTyped, fileSystemVars
<1>4. QED
  BY <1>2, <1>3

(* Commands change names only, and an open file has none. *)
LEMMA DirectoryInv ==
  ASSUME UltraInv, directory' \in [Paths -> Inodes \cup {NoFile, Folder}],
         UNCHANGED <<inodeData, ftFd, ftSending, copying, ultraTaken>>
  PROVE  UltraInv'
<1>1. UltraTyped' /\ CopyIsBegun'
  BY DEF UltraInv, UltraTyped, CopyIsBegun
<1>2. DescriptorReads' /\ DescriptorWrites'
  BY DEF UltraInv, DescriptorReads, DescriptorWrites, Opened
<1>3. QED
  BY <1>1, <1>2 DEF UltraInv

(* The commands, for all of the names. *)
LEMMA CommandInv ==
  ASSUME UltraInv, NEW path \in Paths,
         \/ DirCreate(path) \/ FileDelete(path)
         \/ \E to \in Paths : FileRename(path, to)
  PROVE  UltraInv'
<1>1. directory \in [Paths -> Inodes \cup {NoFile, Folder}]
  BY DEF UltraInv, UltraTyped
<1>2. directory' \in [Paths -> Inodes \cup {NoFile, Folder}]
  BY <1>1 DEF DirCreate, FileDelete, FileRename, Command
<1>3. QED
  BY <1>2, DirectoryInv DEF DirCreate, FileDelete, FileRename, Command

(* What the viewer receives between a header and an end of file is the     *)
(* file of that header, and an uploaded file holds what was sent since its *)
(* offer, block for block, but for blocks that a short write or a failing  *)
(* decompression damaged, in whatever order the messages come.             *)
THEOREM UltraFilesAreWhole == UltraSpec => []UltraTransfersAreWhole
<1>1. UltraInit => UltraInv
  <2> SUFFICES ASSUME UltraInit
               PROVE  UltraInv
    OBVIOUS
  <2>1. /\ copying \in Copies /\ copying.file = <<>> /\ copying.copy = <<>>
        /\ <<>> \in Seq(UltraBlocks)
        /\ copying.phase = "none" /\ Len(<<>>) = 0
        /\ SubSeq(<<>>, 1, 0) = <<>>
    BY EmptySeq, SubSeqEmpty DEF UltraInit, Nothing, Copies
  <2>2. UltraTyped
    <3>1. ASSUME NEW s \in Seq(UltraBlocks) PROVE s \in Seq(StoredBlocks)
      BY DEF StoredBlocks
    <3>2. inodeData \in [Inodes -> Seq(StoredBlocks)]
      BY <3>1, UltraAssumption DEF UltraInit
    <3>3. QED
      BY <2>1, <3>2, UltraAssumption DEF UltraInit, UltraTyped
  <2>3. CopyIsBegun
    BY <2>1 DEF CopyIsBegun
  <2>4. ~Opened("r") /\ ~Opened("w")
    BY DEF UltraInit, Opened
  <2>5. QED
    BY <2>2, <2>3, <2>4 DEF UltraInv, DescriptorReads, DescriptorWrites
<1>2. UltraInv /\ [UltraNext]_ultraVars => UltraInv'
  <2> SUFFICES ASSUME UltraInv, [UltraNext]_ultraVars
               PROVE  UltraInv'
    OBVIOUS
  <2>1. CASE DropClient \/ Permission \/ UNCHANGED ultraVars
    <3>1. UNCHANGED <<directory, inodeData, ftFd, ftSending, copying,
                      ultraTaken>>
      BY <2>1 DEF DropClient, Permission, ultraVars, fileSystemVars
    <3>2. QED
      BY <3>1, DirectoryInv DEF UltraInv, UltraTyped
  <2>2. CASE SendChunk
    <3>1. /\ ftFd # NoFile /\ ftSending /\ UltraChunk(copying)
          /\ UNCHANGED <<fileSystemVars, ultraTaken>>
      BY <2>2 DEF SendChunk
    <3>2. copying \in Copies /\ (Opened("r") => copying.phase = "accepted")
      BY <3>1 DEF UltraInv, UltraTyped, DescriptorReads
    <3>3. QED
      BY <3>1, <3>2, ChunkInv
  <2>3. CASE Finish
    BY <2>3, FinishInv
  <2>4. CASE \E path \in Paths :
               \/ \E compress \in BOOLEAN : Request(path, compress)
               \/ Offer(path) \/ DirCreate(path) \/ FileDelete(path)
               \/ \E to \in Paths : FileRename(path, to)
    BY <2>4, RequestInv, OfferInv, CommandInv
  <2>5. CASE \E refused \in BOOLEAN : FileHeader(refused)
    BY <2>5, FileHeaderInv
  <2>6. CASE \E block \in UltraBlocks :
               \/ FilePacket(block, FALSE)
               \/ block \in Compressible /\ FilePacket(block, TRUE)
    BY <2>6, FilePacketInv
  <2>7. QED
    BY <2>1, <2>2, <2>3, <2>4, <2>5, <2>6 DEF UltraNext
<1>3. UltraInv => UltraTransfersAreWhole
  <2> SUFFICES ASSUME UltraInv
               PROVE  UltraTransfersAreWhole
    OBVIOUS
  <2>1. copying.file \in Seq(StoredBlocks) /\ Len(copying.file) \in Nat
    BY LenProperties DEF UltraInv, UltraTyped, Copies
  <2>2. PICK n \in 0..Len(copying.file) :
          copying.copy = SubSeq(copying.file, 1, n)
    BY DEF UltraInv, CopyIsBegun
  <2>3. Len(SubSeq(copying.file, 1, n)) = n
    <3>1. \A i \in 1..n : copying.file[i] \in StoredBlocks
      BY <2>1, <2>2, ElementOfSeq
    <3>2. n \in Int /\ 1 \in Int
      BY <2>1, <2>2
    <3>3. Len(SubSeq(copying.file, 1, n)) = IF 1 <= n THEN n - 1 + 1 ELSE 0
      BY <3>1, <3>2, SubSeqProperties
    <3>4. QED
      BY <2>1, <2>2, <3>3
  <2>4. copying.copy = SubSeq(copying.file, 1, Len(copying.copy))
    BY <2>2, <2>3
  <2>5. QED
    BY <2>4 DEF UltraInv, CopyIsBegun, DescriptorReads, DescriptorWrites,
                UltraTransfersAreWhole
<1>4. QED
  BY <1>1, <1>2, <1>3, PTL DEF UltraSpec
=============================================================================
