\* Dialogs, settings, handshake, cursor, files and the encodings.
SPECIFICATION SafetySpec
CONSTANTS
  Hosts = {"a", "b", "c"}
  Versions = {0, 1, 2, 3, 4}
  Viewers = {v1, v2}
  Minors = {3, 7, 8}
  Columns = 2
  Rows = 3
  Tiles <- MCTiles
  PixelColours = {1, 2, 3}
  BytesPerPixel = 4
  NoColour = 0
  Images <- MCImages
  UpdateRegions <- MCUpdateRegions
  correMaxWidth = 2
  correMaxHeight = 3
  LINES_MAX_RECT_SIZE = 4
  maxRectSize = 6
  maxRectWidth = 4
  MIN_SPLIT_RECT_SIZE = 6
  MIN_SOLID_SUBRECT_SIZE = 4
  MAX_SPLIT_TILE_SIZE = 2
  maxRectsPerUpdate = 2
  ScreenWidth = 3
  Inks = {1, 2}
  CursorShapes <- MCCursorShapes
  RequestedParts <- MCRequestedParts
  CopyShifts <- MCCopyShifts
  MaxCursorSteps = 3
  StoredFiles <- MCStoredFiles
  Directories = {"dir"}
  NewFiles = {"new"}
  DownloadThreads = {t1, t2}
  NoThread = NoThread
  MessageThread = MessageThread
  MaxTransfers = 3
  MaxUploadBlocks = 2
  MaxSample = 3
  Samples = {0, 1, 3}
  TightSizes <- MCTightSizes
  TightFormats = {1, 2, 3, 4}
  TightConfs <- MCTightConfs
  QualityLevels <- MCQualityLevels
  ByteBits = 2
  Half = 2
  MaxPalette = 3
  ManyColours = 2
  TIGHT_MIN_TO_COMPRESS = 5
  DETECT_MIN_WIDTH = 2
  DETECT_MIN_HEIGHT = 2
  DETECT_SUBROW_WIDTH = 1
  JPEG_MIN_RECT_SIZE = 6
  MaxChunks = 1
  ZrleImages <- MCZrleImages
  ZlibServerBytes = 2
  ZrleFormats = {1, 3, 4}
  ZrleQualityLevels <- MCZrleQualityLevels
  ZrleTileWidth = 16
  ZrleTileHeight = 2
  ZRLE_PALETTE_MAX_SIZE = 5
  MaxPackedPalette = 3
  MaxRunByte = 3
  VNC_ENCODE_ZLIB_MIN_COMP_SIZE = 9
  MaxBlocks = 1
  WaveletMax = 3
  WaveletTiles <- MCWaveletTiles
  WaveletLevels = {1, 2}
  WaveletFilters <- MCWaveletFilters
  ByteValues = 8
  TrueFormats <- MCTrueFormats
  ServerFormats <- MCServerFormats
  ColourMaps <- MCColourMaps
  ColourMapMax = 7
  PixelSamples = {1, 6}
  BGR233 <- MCBGR233
  Paths = {"a", "b"}
  Inodes = {1, 2}
  UltraDirectory <- MCUltraDirectory
  UltraContents <- MCUltraContents
  UltraBlocks = {"x", "y"}
  Damaged = "damaged"
  Compressible = {"x"}
  MaxUltraBlocks = 1
  NoFile = NoFile
  Folder = Folder
  ShapeClients = {v1, v2}
  ShapeSizes <- MCShapeSizes
  RichSizes <- MCRichSizes
  ShapeInks = {0, 100, 200}
  ShapeByteBits = 2
  ShapeBufSize = 9
  ScaleClients = {v1, v2}
  FullWidth = 5
  ScaleFactors = {2}
  DrawnRects <- MCDrawnRects
  RequestedRects <- MCScaleRequests
  NewFBSizeClients = {v1}
  MaxScaleSteps = 5
INVARIANTS
  MigrationKeepsSettings
  HandshakeAgrees
  NeverSharedIsExclusive
  RegionIsSet
  DecodedIsEncoded
  UpdateIsTiled
  CursorLeavesNoTrace
  TransfersAreWhole
  UltraTransfersAreWhole
  TightIsDecoded
  CompressedIsDecoded
  WaveletIsUndone
  ClientShowsColours
  ScaledViewIsFresh
  ClientShowsTheCursor
PROPERTIES
  HistoryIsKept
CHECK_DEADLOCK FALSE
