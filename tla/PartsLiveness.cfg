\* Gestures, keyboard, framebuffer, window, updates records of clients, sockets.
SPECIFICATION LivenessSpec
CONSTANTS
  TAP_PRESS_TIME = 1
  DOUBLE_TAP_UP_TIME = 2
  Buttons = {"left", "right"}
  ZoomActions = {0, 1, 3}
  Letters = {"x"}
  Combinations <- MCCombinations
  ViewIds = {1, 2}
  Sizes = {"small", "large"}
  MaxBuffers = 4
  MaxWidth = 3
  Colours = {1, 2}
  Shifts <- MCShifts
  MaxDraws = 2
  MaxResizes = 1
  Clients = {c1, c2}
  Walkers = {w1}
  Null = Null
  Writers = {out, in}
  InputWriter = in
  WriteLength = 3
  UpLength = 3
  ReadLengths = {1, 3}
  RFB_BUF_SIZE = 2
  WireCapacity = 2
  rfbMaxClientWait = 2
  MaxWrites = 1
  NoWriter = NoWriter
INVARIANTS
  
  
  FrameIsLiveAfterUpdate
  WindowIsUsable
  NoPixelForgotten
  CountedIsAlive
  StreamIsWhole
PROPERTIES
  HeldTapIsSent
  CombinationRestoresModifiers
  UpdatesConverge
  ClosedClientEnds
  CallsEnd
CHECK_DEADLOCK FALSE
