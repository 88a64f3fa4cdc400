SPECIFICATION TransferSpec
CONSTANTS
  StoredFiles <- MCStoredFiles
  Directories = {}
  NewFiles = {}
  DownloadThreads = {t1}
  NoThread = NoThread
  MessageThread = MessageThread
  MaxTransfers = 2
  MaxUploadBlocks = 0
INVARIANT ClosedDownloadStaysClosed
CHECK_DEADLOCK FALSE
