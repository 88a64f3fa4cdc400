-------------------------- MODULE TightFileTransfer --------------------------
(***************************************************************************)
(* The TightVNC extension of libvncserver (tightvnc-filetransfer): its     *)
(* security type, and files sent to a client by a thread per download      *)
(* (RunFileDownloadThread) while the server's thread handles the client's  *)
(* messages and its uploads.                                               *)
(*                                                                         *)
(* One client is modelled, until its connection is closed.  (The record of *)
(* the client is then freed, although a download thread may still use it,  *)
(* and what is open stays open.)  Files that are downloaded are not        *)
(* uploaded.  A file is a sequence of blocks of SZ_RFBBLOCKSIZE.           *)
(***************************************************************************)
EXTENDS Integers, Sequences

CONSTANTS
  StoredFiles,       \* files the client may ask for, with their blocks:
                     \* a function to Nat
  Directories,       \* names of directories
  NewFiles,          \* names of files the client may upload
  DownloadThreads,   \* identities for threads
  NoThread,
  MessageThread,     \* the server's thread, as an owner of the mutex
  MaxTransfers,      \* bound: requests of the client
  MaxUploadBlocks    \* bound: blocks of an upload

Names == DOMAIN StoredFiles \cup Directories \cup NewFiles

(* A path that is too long to be read, or too long with ftproot before it. *)
PathTooLong == "too long"
Unconvertible == "unconvertible"

ASSUME TransferAssumption ==
  /\ \A f \in DOMAIN StoredFiles : StoredFiles[f] \in Nat
  /\ DOMAIN StoredFiles \cap Directories = {}
  /\ NewFiles \cap (DOMAIN StoredFiles \cup Directories) = {}
  /\ Names \cap {PathTooLong, Unconvertible, ""} = {}
  /\ NoThread \notin DownloadThreads
  /\ MessageThread \notin DownloadThreads \cup {NoThread}
  /\ MaxTransfers \in Nat /\ MaxUploadBlocks \in Nat

VARIABLES
  tightState,        \* of the client: "security", "initialisation", "normal"
                     \* or "closed"
  tightServer,       \* fileTransferEnabled, viewOnly, a password, whether the
                     \* server made the connection
  authenticated,     \* history: the client answered a challenge
  uploaded,          \* the uploaded files: name to the blocks written
  created,           \* the directories the client created
  rcfd,              \* rtcp->rcft.rcfd: the download
  rcfu,              \* rtcp->rcft.rcfu: the upload
  fileDownloadMutex, \* its owner
  threads,           \* of each thread, its place and the message it sends
  received,          \* history: what the client got since its last request
  disturbed,         \* history: the download was requested during another
  undone,            \* history: the download was closed before its end
  closing,           \* what the server's thread still has to reset of it in
                     \* CloseUndoneFileTransfer(): "descriptor", "name", "none"
  restarted,         \* history: its file was opened again in the middle of that
  offered,           \* history: blocks of the upload
  answer,            \* the last listing, or FileUploadCancel
  transfers          \* bound

transferVars == <<tightState, tightServer, authenticated, uploaded, created, rcfd,
                  rcfu, fileDownloadMutex, threads, received, disturbed, undone,
                  closing, restarted, offered, answer, transfers>>
uploadVars == <<uploaded, created, rcfu, offered, answer>>
downloadVars == <<rcfd, received, disturbed, undone, closing, restarted>>
connectionVars == <<tightState, tightServer, authenticated>>
threadVars == <<threads, fileDownloadMutex>>

(* A descriptor open for reading: a file and how many blocks were read. *)
Closed == [file |-> "", read |-> -1]
Data(f, i) == [kind |-> "data", file |-> f, block |-> i]
EndMarker == [kind |-> "end", file |-> "", block |-> 0]
Failed == [kind |-> "failed", file |-> "", block |-> 0]
UploadCancel == {[name |-> "", size |-> 0]}
IdleThread == [at |-> "none", msg |-> Failed]

Running == {t \in DownloadThreads : threads[t].at # "none"}

TransferTypeOK ==
  /\ tightState \in {"security", "initialisation", "normal", "closed"}
  /\ tightServer \in [enabled : BOOLEAN, viewOnly : BOOLEAN,
                      password : BOOLEAN, reverse : BOOLEAN]
  /\ authenticated \in BOOLEAN
  /\ DOMAIN uploaded \subseteq NewFiles
  /\ \A f \in DOMAIN uploaded : uploaded[f] \in Seq(Nat)
  /\ created \subseteq NewFiles \ DOMAIN uploaded
  /\ rcfd.downloadInProgress \in BOOLEAN
  /\ rcfd.fName \in Names \cup {"", Unconvertible}
  /\ rcfd.downloadFD.file \in Names \cup {""}
  /\ rcfu.uploadInProgress \in BOOLEAN
  /\ rcfu.fName \in Names \cup {"", Unconvertible}
  /\ rcfu.uploadFD \in NewFiles \cup {""}
  /\ fileDownloadMutex \in DownloadThreads \cup {NoThread, MessageThread}
  /\ \A t \in DownloadThreads :
       threads[t].at \in {"none", "open", "read", "write", "test"}
  /\ disturbed \in BOOLEAN /\ undone \in BOOLEAN /\ restarted \in BOOLEAN
  /\ closing \in {"none", "descriptor", "name"}
  /\ offered \in Seq(Nat)
  /\ answer \subseteq [name : Names \cup {""}, size : Nat \cup {-1}]
  /\ transfers \in 0..MaxTransfers

(* A client that chose rfbSecTypeTight. *)
TransferInit ==
  /\ tightState = "security"
  /\ tightServer \in [enabled : BOOLEAN, viewOnly : BOOLEAN,
                      password : BOOLEAN, reverse : BOOLEAN]
  /\ authenticated = FALSE
  /\ uploaded = [f \in {} |-> <<>>] /\ created = {}
  /\ rcfd = [downloadInProgress |-> FALSE, downloadFD |-> Closed, fName |-> ""]
  /\ rcfu = [uploadInProgress |-> FALSE, uploadFD |-> "", fName |-> ""]
  /\ fileDownloadMutex = NoThread
  /\ threads = [t \in DownloadThreads |-> IdleThread]
  /\ received = <<>> /\ offered = <<>>
  /\ disturbed = FALSE /\ undone = FALSE
  /\ closing = "none" /\ restarted = FALSE
  /\ answer = {}
  /\ transfers = 0

-----------------------------------------------------------------------------
(* The security type. *)

(* rfbSendAuthCaps(): what the client has to choose from. *)
AuthCaps ==
  IF tightServer.password /\ ~tightServer.reverse THEN {"VNC"} ELSE {}

(* rfbHandleSecTypeTight(): no tunnels, the capabilities, the client's     *)
(* choice and its answer to the challenge, read in one call.               *)
HandleSecTypeTight ==
  /\ tightState = "security"
  /\ \/ /\ AuthCaps = {}
        /\ tightState' = "initialisation" /\ UNCHANGED authenticated
     \/ /\ AuthCaps # {}
        /\ \E authType \in {"None", "VNC"}, right \in BOOLEAN :
             /\ authenticated' = (authType \in AuthCaps /\ right)
             /\ tightState' = IF authenticated' THEN "initialisation"
                              ELSE "closed"
  /\ UNCHANGED <<tightServer, uploadVars, downloadVars, threadVars, transfers>>

(* rfbTightExtensionInit(), after the server's initialisation message. *)
SendInteractionCaps ==
  /\ tightState = "initialisation"
  /\ tightState' = "normal"
  /\ UNCHANGED <<tightServer, authenticated, uploadVars, downloadVars,
                 threadVars, transfers>>

-----------------------------------------------------------------------------
(* Messages, read by the server's thread. *)

(* handleMessage() for a client that may not transfer files. *)
Refused ==
  /\ tightState = "normal"
  /\ ~tightServer.enabled \/ tightServer.viewOnly
  /\ tightState' = "closed"
  /\ UNCHANGED <<tightServer, authenticated, uploadVars, downloadVars,
                 threadVars, transfers>>

ClientRequest ==
  /\ tightState = "normal"
  /\ tightServer.enabled /\ ~tightServer.viewOnly
  /\ closing = "none"
  /\ transfers < MaxTransfers /\ transfers' = transfers + 1
  /\ UNCHANGED connectionVars

(* ChkFileDownloadErr(): only a regular file that is not empty is left to  *)
(* a thread.                                                               *)
DownloadErr(name) ==
  IF name \notin DOMAIN StoredFiles THEN <<Failed>>
  ELSE IF StoredFiles[name] = 0 THEN <<EndMarker>> ELSE <<>>

(* HandleFileDownloadRequest(). *)
FileDownloadRequest(name) ==
  /\ ClientRequest
  /\ undone' = FALSE /\ restarted' = FALSE
  /\ \/ /\ name \in {PathTooLong, Unconvertible}
        /\ rcfd' = IF name = PathTooLong THEN rcfd ELSE [rcfd EXCEPT !.fName = name]
        /\ received' = <<Failed>>
        /\ UNCHANGED threads
     \/ /\ name \in Names /\ DownloadErr(name) # <<>>
        /\ rcfd' = [rcfd EXCEPT !.fName = name]
        /\ received' = DownloadErr(name)
        /\ UNCHANGED threads
     \/ /\ name \in Names /\ DownloadErr(name) = <<>>
        /\ rcfd' = [downloadInProgress |-> FALSE, downloadFD |-> Closed,
                    fName |-> name]
        /\ \/ /\ \E t \in DownloadThreads \ Running :
                   threads' = [threads EXCEPT ![t].at = "open"]
              /\ received' = <<>>
           \/ received' = <<Failed>> /\ UNCHANGED threads
  /\ disturbed' = (Running # {})
  /\ UNCHANGED <<uploadVars, fileDownloadMutex, closing>>

(* CloseUndoneFileTransfer(): whatever the reason, the upload and the      *)
(* download.  The upload is the server's thread's own; of the download it  *)
(* first clears downloadInProgress, which threads test without it, then    *)
(* closes the descriptor and clears the name.                              *)
CloseUndoneUpload ==
  IF rcfu.uploadInProgress
  THEN /\ rcfu' = [uploadInProgress |-> FALSE, uploadFD |-> "", fName |-> ""]
       /\ uploaded' = [f \in DOMAIN uploaded \ {rcfu.fName} |-> uploaded[f]]
  ELSE UNCHANGED <<rcfu, uploaded>>

CloseUndoneDownload ==
  IF rcfd.downloadInProgress
  THEN /\ rcfd' = [rcfd EXCEPT !.downloadInProgress = FALSE]
       /\ undone' = TRUE /\ closing' = "descriptor"
  ELSE UNCHANGED <<rcfd, undone, closing>>

CloseUndoneFileTransfer == CloseUndoneUpload /\ CloseUndoneDownload

CloseDescriptor ==
  /\ tightState = "normal" /\ closing = "descriptor"
  /\ rcfd' = [rcfd EXCEPT !.downloadFD = Closed]
  /\ closing' = "name"
  /\ UNCHANGED <<connectionVars, uploadVars, threadVars, received, disturbed,
                 undone, restarted, transfers>>

(* ... and the caller unlocks the mutex, if it locked it. *)
ClearName ==
  /\ tightState = "normal" /\ closing = "name"
  /\ rcfd' = [rcfd EXCEPT !.fName = ""]
  /\ closing' = "none"
  /\ fileDownloadMutex' = IF fileDownloadMutex = MessageThread THEN NoThread
                          ELSE fileDownloadMutex
  /\ UNCHANGED <<connectionVars, uploadVars, threads, received, disturbed,
                 undone, restarted, transfers>>

(* HandleFileDownloadCancelRequest(), the only caller that locks the mutex *)
(* for that; without a reason it is ignored.                               *)
FileDownloadCancelRequest ==
  /\ ClientRequest
  /\ \/ /\ fileDownloadMutex = NoThread
        /\ CloseUndoneFileTransfer
        /\ fileDownloadMutex' = IF closing' = "none" THEN NoThread
                                ELSE MessageThread
     \/ UNCHANGED <<rcfu, uploaded, rcfd, undone, closing, fileDownloadMutex>>
  /\ UNCHANGED <<created, offered, answer, received, disturbed, restarted,
                 threads>>

(* HandleFileUploadRequest(): creat() empties a file that is there. *)
FileUploadRequest(name) ==
  /\ ClientRequest
  /\ \/ /\ name = PathTooLong
        /\ UNCHANGED <<rcfu, uploaded, offered>> /\ answer' = UploadCancel
     \/ /\ name = Unconvertible
        /\ rcfu' = [rcfu EXCEPT !.fName = name]
        /\ UNCHANGED <<uploaded, offered>> /\ answer' = UploadCancel
     \/ /\ name \in Directories \cup created
        /\ rcfu' = [uploadInProgress |-> FALSE, uploadFD |-> "", fName |-> name]
        /\ UNCHANGED <<uploaded, offered>> /\ answer' = UploadCancel
     \/ /\ name \in NewFiles \ created
        /\ rcfu' = [uploadInProgress |-> TRUE, uploadFD |-> name,
                    fName |-> name]
        /\ uploaded' = [f \in DOMAIN uploaded \cup {name} |->
                          IF f = name THEN <<>> ELSE uploaded[f]]
        /\ offered' = <<>> /\ UNCHANGED answer
  /\ UNCHANGED <<created, downloadVars, threadVars>>

(* HandleFileUploadDataRequest() with a block: it is compressed or not     *)
(* written in full, or it is written.                                      *)
FileUploadData ==
  /\ ClientRequest
  /\ Len(offered) < MaxUploadBlocks
  /\ offered' = Append(offered, Len(offered) + 1)
  /\ \/ CloseUndoneFileTransfer /\ answer' = UploadCancel
     \/ /\ rcfu.uploadFD # ""
        /\ uploaded' = [f \in DOMAIN uploaded \cup {rcfu.uploadFD} |->
                          IF f = rcfu.uploadFD
                          THEN Append(uploaded[f], Len(offered) + 1)
                          ELSE uploaded[f]]
        /\ UNCHANGED <<rcfu, rcfd, undone, closing, answer>>
  /\ UNCHANGED <<created, received, disturbed, restarted, threadVars>>

(* ... and with none: FileUpdateComplete(). *)
FileUploadEnd ==
  /\ ClientRequest
  /\ rcfu' = IF rcfu.uploadFD = "" THEN rcfu
             ELSE [rcfu EXCEPT !.uploadFD = "", !.uploadInProgress = FALSE]
  /\ UNCHANGED <<uploaded, created, offered, answer, downloadVars, threadVars>>

(* HandleFileUploadFailedRequest(), which does not take the mutex. *)
FileUploadFailedRequest ==
  /\ ClientRequest
  /\ CloseUndoneFileTransfer
  /\ UNCHANGED <<created, offered, answer, received, disturbed, restarted,
                 threadVars>>

(* HandleFileCreateDirRequest(). *)
FileCreateDirRequest(name) ==
  /\ ClientRequest
  /\ created' = IF name \in NewFiles \ DOMAIN uploaded
                THEN created \cup {name} ELSE created
  /\ UNCHANGED <<uploaded, rcfu, offered, answer, downloadVars, threadVars>>

(* CreateFileListInfo(): directories have the size -1, and files are left  *)
(* out if the client wants none.                                           *)
FileListInfo(directoriesOnly) ==
  [name : Directories \cup created, size : {-1}] \cup
  (IF directoriesOnly THEN {}
   ELSE {[name |-> f, size |-> StoredFiles[f]] : f \in DOMAIN StoredFiles}
        \cup {[name |-> f, size |-> Len(uploaded[f])] : f \in DOMAIN uploaded})

(* HandleFileListRequest(), for ftproot or a name below it. *)
FileListRequest(name, directoriesOnly) ==
  /\ ClientRequest
  /\ answer' = IF name = "" THEN FileListInfo(directoriesOnly) ELSE {}
  /\ UNCHANGED <<uploaded, created, rcfu, offered, downloadVars, threadVars>>

-----------------------------------------------------------------------------
(* RunFileDownloadThread(). *)

ThreadAt(t, place) == tightState = "normal" /\ threads[t].at = place

SendsBlock(t, msg) ==
  threads' = [threads EXCEPT ![t] = [at |-> "write", msg |-> msg]]

(* A plausible mistake in FirstBlock: a block is read ahead and not sent.   *)
SecondBlock(file) == [file |-> file, read |-> 1]

(* open(): nothing was read yet. *)
FirstBlock(file) == [file |-> file, read |-> 0]

(* GetFileDownloadResponseMsgInBlocks(), with the mutex locked. *)
OpenFile(t) ==
  /\ ThreadAt(t, "open") /\ fileDownloadMutex = NoThread
  /\ IF ~rcfd.downloadInProgress /\ rcfd.downloadFD = Closed
     THEN IF rcfd.fName \in DOMAIN StoredFiles
          THEN /\ rcfd' = [rcfd EXCEPT
                             !.downloadInProgress = TRUE,
                             !.downloadFD = FirstBlock(rcfd.fName)]
               /\ threads' = [threads EXCEPT ![t].at = "read"]
               /\ fileDownloadMutex' = t
               /\ restarted' = (restarted \/ closing # "none")
          ELSE /\ SendsBlock(t, Failed)
               /\ UNCHANGED <<rcfd, fileDownloadMutex, restarted>>
     ELSE /\ threads' = [threads EXCEPT ![t].at = "read"]
          /\ fileDownloadMutex' = t
          /\ UNCHANGED <<rcfd, restarted>>
  /\ UNCHANGED <<connectionVars, uploadVars, received, disturbed, undone,
                 closing, transfers>>

AtEnd == [rcfd EXCEPT !.downloadFD = Closed, !.downloadInProgress = FALSE]

ReadBlock(t) ==
  /\ ThreadAt(t, "read")
  /\ fileDownloadMutex' = NoThread
  /\ LET fd == rcfd.downloadFD
     IN IF ~rcfd.downloadInProgress \/ fd = Closed
        THEN SendsBlock(t, Failed) /\ UNCHANGED rcfd
        ELSE IF fd.read < StoredFiles[fd.file]
        THEN /\ SendsBlock(t, Data(fd.file, fd.read + 1))
             /\ rcfd' = [rcfd EXCEPT !.downloadFD.read = @ + 1]
        ELSE SendsBlock(t, EndMarker) /\ rcfd' = AtEnd
  /\ UNCHANGED <<connectionVars, uploadVars, received, disturbed, undone,
                 closing, restarted, transfers>>

(* rfbWriteExact(), which keeps a message together.  Two threads may start *)
(* a file over and over: what they send is not recorded.                   *)
WriteBlock(t) ==
  /\ ThreadAt(t, "write")
  /\ received' = IF disturbed THEN received
                 ELSE Append(received, threads[t].msg)
  /\ threads' = [threads EXCEPT ![t] = [at |-> "test", msg |-> Failed]]
  /\ UNCHANGED <<connectionVars, uploadVars, rcfd, disturbed, undone,
                 closing, restarted, fileDownloadMutex, transfers>>

WriteFails(t) ==
  /\ ThreadAt(t, "write")
  /\ tightState' = "closed"
  /\ CloseUndoneFileTransfer
  /\ threads' = [threads EXCEPT ![t] = IdleThread]
  /\ UNCHANGED <<tightServer, authenticated, created, offered, answer, received,
                 disturbed, restarted, fileDownloadMutex, transfers>>

(* The condition of the thread's loop. *)
TestLoop(t) ==
  /\ ThreadAt(t, "test")
  /\ threads' = [threads EXCEPT ![t].at = IF rcfd.downloadInProgress
                                          THEN "open" ELSE "none"]
  /\ UNCHANGED <<connectionVars, uploadVars, downloadVars, fileDownloadMutex,
                 transfers>>

DownloadThread(t) ==
  OpenFile(t) \/ ReadBlock(t) \/ WriteBlock(t) \/ WriteFails(t) \/ TestLoop(t)

TransferNext ==
  \/ HandleSecTypeTight \/ SendInteractionCaps \/ Refused
  \/ \E name \in Names \cup {PathTooLong, Unconvertible} :
       FileDownloadRequest(name) \/ FileUploadRequest(name)
  \/ \E name \in NewFiles : FileCreateDirRequest(name)
  \/ \E name \in Names \cup {""}, directoriesOnly \in BOOLEAN :
       FileListRequest(name, directoriesOnly)
  \/ FileDownloadCancelRequest \/ CloseDescriptor \/ ClearName
  \/ FileUploadData \/ FileUploadEnd \/ FileUploadFailedRequest
  \/ \E t \in DownloadThreads : DownloadThread(t)

TransferSpec == TransferInit /\ [][TransferNext]_transferVars

-----------------------------------------------------------------------------
(* TransfersAreWhole: a client whose downloads do not overlap gets the     *)
(* blocks of the file it asked for in order, then one end marker if it got *)
(* them all, or a failure; it is left without either only if it closed the *)
(* transfer (an upload that fails does that too) and nothing follows what  *)
(* ended the download.  That is said of downloads whose thread did not     *)
(* come back while CloseUndoneFileTransfer() had closed the descriptor and *)
(* not yet cleared the name.  A file being uploaded holds the blocks sent  *)
(* for it, in order.  Transfers need the answer to the challenge if there  *)
(* is a password.                                                          *)
DownloadIsWhole ==
  LET n       == Len(received)
      Ends(i) == received[i].kind # "data"
      file    == received[1].file
  IN /\ \A i \in 1..n : IF Ends(i) THEN i = n ELSE received[i] = Data(file, i)
     /\ n > 1 /\ received[n].kind = "end" => n - 1 = StoredFiles[file]
     /\ Running = {} /\ tightState = "normal" /\ ~undone => n = 0 \/ Ends(n)

TransfersAreWhole ==
  /\ ~disturbed /\ ~restarted => DownloadIsWhole
  /\ rcfu.uploadInProgress /\ rcfu.uploadFD = rcfu.fName =>
       uploaded[rcfu.fName] = offered
  /\ Running # {} \/ uploaded # [f \in {} |-> <<>>] =>
       authenticated \/ ~tightServer.password \/ tightServer.reverse

(* ClosedDownloadStaysClosed: once CloseUndoneFileTransfer() is through,   *)
(* the download it closed does not go on: no thread has its file open.     *)
(* The comment in that function asks for the critical section this needs.  *)
ClosedDownloadStaysClosed ==
  ~disturbed /\ undone /\ closing = "none" => ~rcfd.downloadInProgress
=============================================================================
