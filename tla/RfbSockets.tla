------------------------------ MODULE RfbSockets ------------------------------
(***************************************************************************)
(* The byte streams between a libvncserver client record and libvncclient: *)
(* rfbWriteExact(), which the threads of the server call for one client    *)
(* under its outputMutex, and ReadFromRFBServer() with its read buffer; in *)
(* the other direction WriteToRFBServer() and rfbReadExactTimeout().       *)
(*                                                                         *)
(* The kernel's buffers hold WireCapacity bytes each way, so a call moves  *)
(* any part of what it is asked to, a full one makes the server's writers  *)
(* select for five seconds at a time, and the viewer, which has one thread *)
(* for both directions, wait in its own write while nobody reads for it.   *)
(* A writer that gives up unlocks before its caller closes the client, and *)
(* the next writer may then go on behind half a message: torn says so.     *)
(***************************************************************************)
EXTENDS Integers, Sequences

CONSTANTS
  Writers,           \* threads of the server that write to the client
  InputWriter,       \* clientInput(), which also reads
  WriteLength,       \* bytes of a message of the server
  UpLength,          \* bytes of a message of the viewer
  ReadLengths,       \* what the viewer asks for at once
  RFB_BUF_SIZE,
  WireCapacity,      \* bytes the kernel keeps
  rfbMaxClientWait,  \* in selects of five seconds
  MaxWrites,         \* bound: messages of each side
  NoWriter

ASSUME SocketsAssumption ==
  /\ InputWriter \in Writers /\ NoWriter \notin Writers
  /\ {WriteLength, UpLength, RFB_BUF_SIZE, WireCapacity, rfbMaxClientWait}
       \subseteq Nat \ {0}
  /\ ReadLengths \subseteq Nat \ {0} /\ MaxWrites \in Nat

VARIABLES
  sockOpen,          \* cl->sock # -1
  outputMutex,
  writes,            \* of each writer: where it is, what is left, its wait
  messages,          \* how many messages each writer and the viewer began
  torn,              \* a message of the server was given up
  written,           \* what the server was asked to send, in order
  downWire, upWire,
  inputRead,         \* rfbReadExactTimeout(): what it has and still needs
  taken,             \* what rfbReadExact() has returned
  peerOpen,          \* client->sock is open
  viewerIO,          \* where the viewer is, out, and what it still needs
  readBuffer,        \* client->buf from bufoutptr on
  viewerGot,         \* what ReadFromRFBServer() has returned
  sent               \* what WriteToRFBServer() was asked to send

writerVars == <<outputMutex, writes, torn, written>>
readerVars == <<inputRead, taken>>
viewerSideVars == <<viewerIO, readBuffer, viewerGot, sent>>
socketVars == <<sockOpen, peerOpen, messages, downWire, upWire, writerVars,
                readerVars, viewerSideVars>>

SocketsTypeOK ==
  /\ sockOpen \in BOOLEAN /\ peerOpen \in BOOLEAN /\ torn \in BOOLEAN
  /\ outputMutex \in Writers \cup {NoWriter}
  /\ \A w \in Writers :
       /\ writes[w].at \in {"idle", "lock", "write", "select", "failed"}
       /\ Len(writes[w].left) <= WriteLength
       /\ writes[w].waited \in 0..rfbMaxClientWait
  /\ Len(downWire) <= WireCapacity /\ Len(upWire) <= WireCapacity
  /\ inputRead.need \in 0..UpLength
  /\ viewerIO.at \in {"idle", "fill", "direct", "write", "select", "lost"}
  /\ Len(readBuffer) <= RFB_BUF_SIZE

SocketsInit ==
  /\ sockOpen = TRUE /\ peerOpen = TRUE /\ torn = FALSE
  /\ outputMutex = NoWriter
  /\ writes = [w \in Writers |-> [at |-> "idle", left |-> <<>>, waited |-> 0]]
  /\ messages = [w \in Writers \cup {NoWriter} |-> 0]
  /\ written = <<>> /\ sent = <<>> /\ taken = <<>> /\ viewerGot = <<>>
  /\ downWire = <<>> /\ upWire = <<>> /\ readBuffer = <<>>
  /\ inputRead = [got |-> <<>>, need |-> 0]
  /\ viewerIO = [at |-> "idle", out |-> <<>>, need |-> 0, left |-> <<>>]

(* The next message of a side: its bytes are numbered. *)
NextMessage(w, length) == [i \in 1..length |-> <<w, length * messages[w] + i>>]
First(s, n) == SubSeq(s, 1, n)
After(s, n) == SubSeq(s, n + 1, Len(s))

-----------------------------------------------------------------------------
(* rfbWriteExact(). *)
Connected == sockOpen /\ peerOpen
Full(wire) == Len(wire) = WireCapacity

BeginWrite(w) ==
  /\ sockOpen /\ writes[w].at = "idle" /\ messages[w] < MaxWrites
  /\ w = InputWriter => inputRead.need = 0
  /\ writes' = [writes EXCEPT
       ![w] = [at |-> "lock", left |-> NextMessage(w, WriteLength), waited |-> 0]]
  /\ messages' = [messages EXCEPT ![w] = @ + 1]
  /\ UNCHANGED <<sockOpen, peerOpen, outputMutex, torn, written, downWire,
                 upWire, readerVars, viewerSideVars>>

(* Mutant: the writers do not wait for each other. *)
MutexIgnored == TRUE
MutexIsFree == outputMutex = NoWriter

TakeOutputMutex(w) ==
  /\ writes[w].at = "lock" /\ MutexIsFree
  /\ outputMutex' = w
  /\ writes' = [writes EXCEPT ![w].at = "write"]
  /\ written' = written \o writes[w].left
  /\ UNCHANGED <<sockOpen, peerOpen, messages, torn, downWire, upWire,
                 readerVars, viewerSideVars>>

Returns(w, at) ==
  /\ outputMutex' = NoWriter
  /\ writes' = [writes EXCEPT ![w] = [at |-> at, left |-> <<>>, waited |-> 0]]

WriteSome(w) ==
  /\ writes[w].at = "write"
  /\ \/ /\ Connected
        /\ \E n \in 1..Len(writes[w].left) :
             /\ Len(downWire) + n <= WireCapacity
             /\ downWire' = downWire \o First(writes[w].left, n)
             /\ \/ n = Len(writes[w].left) /\ Returns(w, "idle")
                \/ /\ n < Len(writes[w].left)
                   /\ writes' = [writes EXCEPT ![w].left = After(@, n)]
                   /\ UNCHANGED outputMutex
        /\ UNCHANGED torn
     \/ /\ Connected /\ Full(downWire)
        /\ writes' = [writes EXCEPT ![w].at = "select"]
        /\ UNCHANGED <<outputMutex, torn, downWire>>
     \/ /\ ~Connected /\ Returns(w, "failed") /\ torn' = TRUE
        /\ UNCHANGED downWire
  /\ UNCHANGED <<sockOpen, peerOpen, messages, written, upWire, readerVars,
                 viewerSideVars>>

(* Mutant: the time waited starts anew with every select. *)
TimeWaitedLast(w) == 1

TimeWaited(w) == writes[w].waited + 1

SelectForWrite(w) ==
  /\ writes[w].at = "select"
  /\ \/ /\ ~Connected \/ ~Full(downWire)
        /\ writes' = [writes EXCEPT ![w].at = "write", ![w].waited = 0]
        /\ UNCHANGED <<outputMutex, torn>>
     \/ /\ Connected /\ Full(downWire)
        /\ IF TimeWaited(w) >= rfbMaxClientWait
           THEN Returns(w, "failed") /\ torn' = TRUE
           ELSE /\ writes' = [writes EXCEPT ![w].at = "write",
                                           ![w].waited = TimeWaited(w)]
                /\ UNCHANGED <<outputMutex, torn>>
  /\ UNCHANGED <<sockOpen, peerOpen, messages, written, downWire, upWire,
                 readerVars, viewerSideVars>>

(* rfbCloseClient(): by the caller of a write that failed, or by anyone    *)
(* else.  What was under way may be lost with the connection.              *)
CloseSock ==
  /\ sockOpen' = FALSE
  /\ downWire' \in {downWire, <<>>} /\ upWire' = <<>>

CloseAfterFailure(w) ==
  /\ writes[w].at = "failed"
  /\ writes' = [writes EXCEPT ![w].at = "idle"]
  /\ CloseSock
  /\ UNCHANGED <<peerOpen, messages, outputMutex, torn, written, readerVars,
                 viewerSideVars>>

CloseElsewhere ==
  /\ sockOpen /\ CloseSock
  /\ UNCHANGED <<peerOpen, messages, writerVars, readerVars, viewerSideVars>>

-----------------------------------------------------------------------------
(* rfbReadExactTimeout(), called when select() says there is something. *)
BeginRead ==
  /\ sockOpen /\ inputRead.need = 0 /\ writes[InputWriter].at = "idle"
  /\ upWire # <<>> \/ ~peerOpen
  /\ inputRead' = [got |-> <<>>, need |-> UpLength]
  /\ UNCHANGED <<sockOpen, peerOpen, messages, downWire, upWire, taken,
                 writerVars, viewerSideVars>>

ReadSome ==
  /\ sockOpen /\ inputRead.need > 0 /\ upWire # <<>>
  /\ \E n \in 1..inputRead.need :
       /\ n <= Len(upWire)
       /\ upWire' = After(upWire, n)
       /\ LET got == inputRead.got \o First(upWire, n)
          IN IF n = inputRead.need
             THEN /\ taken' = taken \o got
                  /\ inputRead' = [got |-> <<>>, need |-> 0]
             ELSE /\ inputRead' = [got |-> got, need |-> inputRead.need - n]
                  /\ UNCHANGED taken
  /\ UNCHANGED <<sockOpen, peerOpen, messages, downWire, writerVars,
                 viewerSideVars>>

(* The viewer has closed, the timeout has passed, or the socket was closed *)
(* meanwhile: the caller closes the client.                                *)
ReadFails ==
  /\ inputRead.need > 0 /\ (upWire = <<>> \/ ~sockOpen)
  /\ inputRead' = [got |-> <<>>, need |-> 0]
  /\ CloseSock
  /\ UNCHANGED <<peerOpen, messages, taken, writerVars, viewerSideVars>>

-----------------------------------------------------------------------------
(* ReadFromRFBServer(): from the buffer, through it, or past it.  The      *)
(* viewer asks only for bytes of messages the server has begun.            *)
NoCall == [at |-> "idle", out |-> <<>>, need |-> 0, left |-> <<>>]

ReadFromBuffer(n) ==
  /\ viewerIO.at = "idle" /\ n <= Len(readBuffer)
  /\ viewerGot' = viewerGot \o First(readBuffer, n)
  /\ readBuffer' = After(readBuffer, n)
  /\ UNCHANGED <<sockOpen, peerOpen, messages, downWire, upWire, viewerIO,
                 sent, writerVars, readerVars>>

BeginReadFromServer(n) ==
  /\ viewerIO.at = "idle" /\ n > Len(readBuffer)
  /\ Len(viewerGot) + n <= Len(written)
  /\ LET need == n - Len(readBuffer)
     IN viewerIO' = [at |-> IF need <= RFB_BUF_SIZE THEN "fill" ELSE "direct",
                     out |-> readBuffer, need |-> need, left |-> <<>>]
  /\ readBuffer' = <<>>
  /\ UNCHANGED <<sockOpen, peerOpen, messages, downWire, upWire, viewerGot,
                 sent, writerVars, readerVars>>

FillBuffer ==
  /\ viewerIO.at = "fill" /\ downWire # <<>>
  /\ \E n \in 1..(RFB_BUF_SIZE - Len(readBuffer)) :
       /\ n <= Len(downWire)
       /\ downWire' = After(downWire, n)
       /\ LET buf == readBuffer \o First(downWire, n)
          IN IF Len(buf) < viewerIO.need
             THEN readBuffer' = buf /\ UNCHANGED <<viewerIO, viewerGot>>
             ELSE /\ viewerGot' = (viewerGot \o viewerIO.out)
                                    \o First(buf, viewerIO.need)
                  /\ readBuffer' = After(buf, viewerIO.need)
                  /\ viewerIO' = NoCall
  /\ UNCHANGED <<sockOpen, peerOpen, messages, upWire, sent, writerVars,
                 readerVars>>

ReadPastBuffer ==
  /\ viewerIO.at = "direct" /\ downWire # <<>>
  /\ \E n \in 1..viewerIO.need :
       /\ n <= Len(downWire)
       /\ downWire' = After(downWire, n)
       /\ LET out == viewerIO.out \o First(downWire, n)
          IN IF n < viewerIO.need
             THEN /\ viewerIO' = [viewerIO EXCEPT !.out = out, !.need = @ - n]
                  /\ UNCHANGED viewerGot
             ELSE viewerGot' = viewerGot \o out /\ viewerIO' = NoCall
  /\ UNCHANGED <<sockOpen, peerOpen, messages, upWire, readBuffer, sent,
                 writerVars, readerVars>>

(* WriteToRFBServer(), which waits without a timeout. *)
BeginWriteToServer ==
  /\ viewerIO.at = "idle" /\ messages[NoWriter] < MaxWrites
  /\ viewerIO' = [NoCall EXCEPT !.at = "write",
                              !.left = NextMessage(NoWriter, UpLength)]
  /\ messages' = [messages EXCEPT ![NoWriter] = @ + 1]
  /\ sent' = sent \o NextMessage(NoWriter, UpLength)
  /\ UNCHANGED <<sockOpen, peerOpen, downWire, upWire, readBuffer, viewerGot,
                 writerVars, readerVars>>

WriteSomeToServer ==
  /\ viewerIO.at = "write" /\ sockOpen
  /\ \/ \E n \in 1..Len(viewerIO.left) :
          /\ Len(upWire) + n <= WireCapacity
          /\ upWire' = upWire \o First(viewerIO.left, n)
          /\ viewerIO' = IF n = Len(viewerIO.left) THEN NoCall
                         ELSE [viewerIO EXCEPT !.left = After(@, n)]
     \/ /\ Full(upWire) /\ UNCHANGED upWire
        /\ viewerIO' = [viewerIO EXCEPT !.at = "select"]
  /\ UNCHANGED <<sockOpen, peerOpen, messages, downWire, readBuffer, viewerGot,
                 sent, writerVars, readerVars>>

SelectToServer ==
  /\ viewerIO.at = "select" /\ (~Full(upWire) \/ ~sockOpen)
  /\ viewerIO' = [viewerIO EXCEPT !.at = "write"]
  /\ UNCHANGED <<sockOpen, peerOpen, messages, downWire, upWire, readBuffer,
                 viewerGot, sent, writerVars, readerVars>>

(* A read that finds the end or a write that fails, or the viewer's own    *)
(* decision: rfbClientCleanup() closes the socket.                         *)
CloseViewer ==
  /\ peerOpen' = FALSE /\ downWire' = <<>> /\ upWire' \in {upWire, <<>>}
  /\ viewerIO' = [NoCall EXCEPT !.at = "lost"] /\ readBuffer' = <<>>
  /\ UNCHANGED <<sockOpen, messages, viewerGot, sent, writerVars, readerVars>>

ViewerFails ==
  /\ ~sockOpen
  /\ \/ viewerIO.at \in {"fill", "direct"} /\ downWire = <<>>
     \/ viewerIO.at = "write"
  /\ CloseViewer

ViewerQuits == viewerIO.at = "idle" /\ CloseViewer

-----------------------------------------------------------------------------
WriterStep(w) ==
  TakeOutputMutex(w) \/ WriteSome(w) \/ SelectForWrite(w) \/ CloseAfterFailure(w)
InputReads == BeginRead \/ ReadSome \/ ReadFails
ViewerGoesOn ==
  \/ FillBuffer \/ ReadPastBuffer
  \/ WriteSomeToServer \/ SelectToServer \/ ViewerFails

SocketsNext ==
  \/ \E w \in Writers : BeginWrite(w) \/ WriterStep(w)
  \/ InputReads \/ CloseElsewhere
  \/ \E n \in ReadLengths : ReadFromBuffer(n) \/ BeginReadFromServer(n)
  \/ BeginWriteToServer \/ ViewerGoesOn \/ ViewerQuits

SocketsFairness ==
  /\ \A w \in Writers : WF_socketVars(WriterStep(w))
  /\ WF_socketVars(InputReads)
  /\ WF_socketVars(ViewerGoesOn)

SocketsSpec == SocketsInit /\ [][SocketsNext]_socketVars /\ SocketsFairness

-----------------------------------------------------------------------------
(* Each side receives what the other was asked to send, whole messages in  *)
(* the order in which their writers took the mutex, whatever the pieces    *)
(* the kernel moves and the viewer's read buffer makes of them.  The bytes *)
(* may stop anywhere but nothing is lost, repeated or mixed, until a       *)
(* writer has given up within a message.                                   *)
IsBegun(part, all) == First(all, Len(part)) = part

Downstream == ((viewerGot \o viewerIO.out) \o readBuffer) \o downWire
Upstream == (taken \o inputRead.got) \o upWire

StreamIsWhole ==
  /\ ~torn => IsBegun(Downstream, written)
  /\ IsBegun(Upstream, sent)
  /\ Connected /\ (\A w \in Writers : writes[w].at \in {"idle", "lock"})
       => torn \/ Downstream = written
  /\ Connected /\ viewerIO.at \notin {"write", "select"} => Upstream = sent

(* Every call ends: a server thread that writes to a viewer which does not *)
(* read, perhaps because it waits for the server to read, gives up after   *)
(* rfbMaxClientWait, which closes the connection and so ends the viewer's  *)
(* own write, which has no timeout.  (MaxWrites bounds the calls, so that  *)
(* all have ended at some time.)                                           *)
CallsEnd ==
  <>[](/\ \A w \in Writers : writes[w].at = "idle"
       /\ inputRead.need = 0
       /\ viewerIO.at \in {"idle", "lost"})
=============================================================================
