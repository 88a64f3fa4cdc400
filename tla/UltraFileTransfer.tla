-------------------------- MODULE UltraFileTransfer --------------------------
(***************************************************************************)
(* The UltraVNC file transfer of libvncserver: rfbProcessFileTransfer()    *)
(* handles the messages of a viewer, rfbSendFileTransferChunk() sends the  *)
(* next block of a download whenever the connection has room, and both     *)
(* share one descriptor and a flag of cl->fileTransfer (receiving and the  *)
(* sizes it keeps are never read).  A viewer may send its messages in any  *)
(* order: a request while a file is under way takes the descriptor over    *)
(* (and leaks the old one).                                                *)
(*                                                                         *)
(* A file is a sequence of blocks; an inode keeps it while it is open,     *)
(* whatever the directory says of its name.  Some blocks get shorter by    *)
(* compression.  The viewer is external: it is what it was told, and what  *)
(* it has received.                                                        *)
(***************************************************************************)
EXTENDS Integers, Sequences

CONSTANTS
  Paths,             \* names in the directory
  Inodes,
  UltraDirectory,    \* path -> inode, at first
  UltraContents,     \* inode -> blocks, at first
  UltraBlocks,       \* contents of a block
  Compressible,      \* those that get shorter
  Damaged,           \* a block that was cut short, or that is not the one sent
  MaxUltraBlocks,    \* bound: blocks of an upload
  NoFile, Folder     \* no entry or descriptor, an entry for a directory

ASSUME UltraAssumption ==
  /\ Compressible \subseteq UltraBlocks /\ Damaged \notin UltraBlocks
  /\ UltraDirectory \in [Paths -> Inodes \cup {NoFile, Folder}]
  /\ UltraContents \in [Inodes -> Seq(UltraBlocks)]
  /\ NoFile \notin Inodes /\ Folder \notin Inodes /\ NoFile # Folder
  /\ MaxUltraBlocks \in Nat

VARIABLES
  directory,         \* path -> inode
  inodeData,         \* inode -> blocks
  ftFd,              \* cl->fileTransfer.fd: what is open, how, and where
  ftSending, ftCompression,
  ftPermit,          \* screen->permitFileTransfer and the application's say
  ftClient,          \* the client is connected
  copying,           \* the viewer: what it was offered, and its copy
  ultraTaken           \* the blocks taken since the last offer

StoredBlocks == UltraBlocks \cup {Damaged}

fileSystemVars == <<directory, inodeData>>
ultraVars == <<fileSystemVars, ftFd, ftSending, ftCompression, ftPermit,
               ftClient, copying, ultraTaken>>

Nothing == [phase |-> "none", file |-> <<>>, copy |-> <<>>]
Descriptor(inode, mode) == [inode |-> inode, mode |-> mode, pos |-> 0]
Opened(mode) == ftFd # NoFile /\ ftFd.mode = mode

UltraTypeOK ==
  /\ directory \in [Paths -> Inodes \cup {NoFile, Folder}]
  /\ \A i \in Inodes : inodeData[i] \in Seq(StoredBlocks)
  /\ \/ ftFd = NoFile
     \/ /\ ftFd.inode \in Inodes \cup {Folder}
        /\ ftFd.mode \in {"r", "w"} /\ ftFd.pos \in Nat
  /\ {ftSending, ftCompression, ftPermit, ftClient} \subseteq BOOLEAN
  /\ copying.phase \in {"none", "offered", "accepted", "ended"}

UltraInit ==
  /\ directory = UltraDirectory /\ inodeData = UltraContents
  /\ ftFd = NoFile
  /\ ftSending = FALSE /\ ftCompression = FALSE
  /\ ftPermit = TRUE /\ ftClient = TRUE
  /\ copying = Nothing /\ ultraTaken = <<>>

-----------------------------------------------------------------------------
(* FILEXFER_ALLOWED_OR_CLOSE_AND_RETURN: a message that is not permitted   *)
(* costs the client its connection.                                        *)
Handled == ftClient /\ ftPermit

DropClient ==
  /\ ftClient /\ ~ftPermit /\ ftClient' = FALSE
  /\ UNCHANGED <<fileSystemVars, ftFd, ftSending, ftCompression, ftPermit,
                 copying, ultraTaken>>

Permission ==
  /\ ftPermit' = ~ftPermit
  /\ UNCHANGED <<fileSystemVars, ftFd, ftSending, ftCompression, ftClient,
                 copying, ultraTaken>>

-----------------------------------------------------------------------------
(* rfbSendFileTransferChunk(): the end of the file, an error (a directory, *)
(* or a file that is open for writing), or a block, which the viewer       *)
(* uncompresses when it is told to.                                        *)
Compressed(block) ==
  IF ftCompression /\ block \in Compressible
  THEN [size |-> 1, data |-> <<"compressed", block>>]
  ELSE [size |-> 0, data |-> block]
Uncompressed(packet) == IF packet.size = 1 THEN packet.data[2] ELSE packet.data

CloseFile == ftFd' = NoFile /\ ftSending' = FALSE

Readable == ftFd.mode = "r" /\ ftFd.inode # Folder

UltraChunk(viewer) ==
  LET blocks == inodeData[ftFd.inode]
  IN \/ /\ Readable /\ ftFd.pos = Len(blocks)
        /\ CloseFile /\ copying' = [viewer EXCEPT !.phase = "ended"]
     \/ /\ ~Readable
        /\ CloseFile /\ copying' = [viewer EXCEPT !.phase = "none"]
     \/ /\ Readable /\ ftFd.pos < Len(blocks)
        /\ ftFd' = [ftFd EXCEPT !.pos = @ + 1]
        /\ copying' = [viewer EXCEPT
             !.copy = Append(@, Uncompressed(Compressed(blocks[ftFd.pos + 1])))]
        /\ ftSending' = TRUE

SendChunk ==
  /\ Handled /\ ftFd # NoFile /\ ftSending
  /\ UltraChunk(copying)
  /\ UNCHANGED <<fileSystemVars, ftCompression, ftPermit, ftClient, ultraTaken>>

-----------------------------------------------------------------------------
(* Mutant: a download that is under way is not stopped. *)
KeepSending == UNCHANGED ftSending
StopSending == ftSending' = FALSE

(* The download: the request is answered with a header, and the chunks     *)
(* start with the viewer's answer to it.                                   *)
Request(path, compress) ==
  /\ Handled
  /\ ftCompression' = compress
  /\ IF directory[path] = NoFile
     THEN /\ ftFd' = NoFile /\ copying' = Nothing
          /\ UNCHANGED ftSending
     ELSE /\ ftFd' = Descriptor(directory[path], "r")
          /\ copying' = [phase |-> "offered", copy |-> <<>>,
                         file |-> IF directory[path] = Folder THEN <<>>
                                  ELSE inodeData[directory[path]]]
          /\ StopSending
  /\ ultraTaken' = <<>>
  /\ UNCHANGED <<fileSystemVars, ftPermit, ftClient>>

Ready == IF copying.phase = "offered"
         THEN [copying EXCEPT !.phase = "accepted"] ELSE copying

FileHeader(refused) ==
  /\ Handled
  /\ \/ /\ refused /\ ftFd' = NoFile /\ copying' = Nothing
        /\ UNCHANGED ftSending
     \/ /\ ~refused /\ ftFd # NoFile /\ UltraChunk(Ready)
     \/ /\ ~refused   \* nothing is open, or the connection has no room
        /\ ftSending' = TRUE /\ copying' = Ready
        /\ UNCHANGED ftFd
  /\ UNCHANGED <<fileSystemVars, ftCompression, ftPermit, ftClient, ultraTaken>>

-----------------------------------------------------------------------------
(* The upload: a file is created or cut to nothing, or cannot be opened. *)
Unused == {i \in Inodes : /\ \A p \in Paths : directory[p] # i
                          /\ ftFd = NoFile \/ ftFd.inode # i}

Offer(path) ==
  /\ Handled
  /\ \/ /\ ftFd' = NoFile   \* AcceptHeader with size -1
        /\ UNCHANGED <<fileSystemVars, ftSending>>
     \/ /\ directory[path] # Folder
        /\ \E i \in Inodes :
             /\ \/ i = directory[path]
                \/ directory[path] = NoFile /\ i \in Unused
             /\ directory' = [directory EXCEPT ![path] = i]
             /\ inodeData' = [inodeData EXCEPT ![i] = <<>>]
             /\ ftFd' = Descriptor(i, "w")
        /\ ftSending' = FALSE
  /\ copying' = Nothing /\ ultraTaken' = <<>>
  /\ UNCHANGED <<ftCompression, ftPermit, ftClient>>

(* What a packet adds to the file: write() may write less than the block,  *)
(* and what uncompress() makes of a packet it fails on is written as well. *)
(* Neither result is looked at.                                            *)
Written(block) == {block, Damaged}

(* An error of write(), for a file that is not open for writing or a full  *)
(* disk, closes the file; a packet with no file open is dropped.           *)
FilePacket(block, compressed) ==
  LET packet == IF compressed
                THEN [size |-> 1, data |-> <<"compressed", block>>]
                ELSE [size |-> 0, data |-> block]
  IN /\ Handled
     /\ \/ /\ Opened("w") /\ Len(ultraTaken) < MaxUltraBlocks
           /\ \E written \in Written(Uncompressed(packet)) :
                inodeData' = [inodeData EXCEPT ![ftFd.inode] = Append(@, written)]
           /\ ftFd' = [ftFd EXCEPT !.pos = @ + 1]
           /\ ultraTaken' = Append(ultraTaken, block)
           /\ UNCHANGED <<ftSending, copying>>
        \/ /\ ftFd # NoFile /\ CloseFile
           /\ copying' = Nothing /\ ultraTaken' = <<>>
           /\ UNCHANGED inodeData
     /\ UNCHANGED <<directory, ftCompression, ftPermit, ftClient>>

(* EndOfFile and AbortFileTransfer; the latter with no file open is a      *)
(* question for the permission, which changes nothing.                     *)
Finish ==
  /\ Handled /\ CloseFile
  /\ copying' = IF copying.phase = "ended" THEN copying ELSE Nothing
  /\ ultraTaken' = <<>>
  /\ UNCHANGED <<fileSystemVars, ftCompression, ftPermit, ftClient>>

-----------------------------------------------------------------------------
(* rfbCommand. *)
Command(paths) ==
  /\ Handled /\ directory' = paths
  /\ UNCHANGED <<inodeData, ftFd, ftSending, ftCompression, ftPermit,
                 ftClient, copying, ultraTaken>>

DirCreate(path) ==
  directory[path] = NoFile /\ Command([directory EXCEPT ![path] = Folder])

FileDelete(path) ==
  directory[path] # NoFile /\ Command([directory EXCEPT ![path] = NoFile])

FileRename(from, to) ==
  /\ directory[from] # NoFile /\ from # to
  /\ directory[to] = NoFile \/ (directory[from] = Folder <=> directory[to] = Folder)
  /\ Command([directory EXCEPT ![from] = NoFile, ![to] = directory[from]])

-----------------------------------------------------------------------------
UltraNext ==
  \/ DropClient \/ Permission \/ SendChunk \/ Finish
  \/ \E path \in Paths :
       \/ \E compress \in BOOLEAN : Request(path, compress)
       \/ Offer(path) \/ DirCreate(path) \/ FileDelete(path)
       \/ \E to \in Paths : FileRename(path, to)
  \/ \E refused \in BOOLEAN : FileHeader(refused)
  \/ \E block \in UltraBlocks :
       \/ FilePacket(block, FALSE)
       \/ block \in Compressible /\ FilePacket(block, TRUE)

UltraSpec == UltraInit /\ [][UltraNext]_ultraVars

-----------------------------------------------------------------------------
(* In whatever order the viewer sends its messages: what it receives       *)
(* between a header and an end of file is the file of that header, in      *)
(* order and whole; no block comes before it has answered the header; and  *)
(* an uploaded file holds what was sent since its offer, even when its     *)
(* name now means another file, but for the blocks that a short write() or *)
(* a failing uncompress() damaged, of which nobody is told.                *)
UltraTransfersAreWhole ==
  /\ copying.copy = SubSeq(copying.file, 1, Len(copying.copy))
  /\ copying.phase = "ended" => copying.copy = copying.file
  /\ Opened("r") => copying.phase = IF ftSending THEN "accepted" ELSE "offered"
  /\ Opened("w") =>
       /\ Len(inodeData[ftFd.inode]) = Len(ultraTaken)
       /\ \A n \in 1..Len(ultraTaken) :
            inodeData[ftFd.inode][n] \in {ultraTaken[n], Damaged}
=============================================================================
