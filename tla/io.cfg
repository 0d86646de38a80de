SPECIFICATION IoSpec
CONSTANTS
  SenderPids = {1}
  MaxMsgs = 3
  Lens = {1}
  SwSlots = 3
  MaxCaps = 2
  MaxIncoming = 8
  Frames = {0, 1}
  AllowDrop = TRUE
  OtherUse = TRUE
  QSIZE = 2
  IDX_MOD = 4
  RX_BUFS = 2
  Sectors = {0, 1}
  Values = {0, 1}
  MaxBlk = 5
  Hosts = {1, 2}
  HostMacs <- Announced
  ARP_MAX = 1
  SEQ_MOD = 4
  Patience = 1
  MaxPings = 2
  EVT_CAP = 3
  BUF_CAP = 3
  PIPE_CAP = 3
  EPOLL_MAX = 2
  MaxPipes = 2
  WatchedFds = {0, 1, 10}
  Words = {0, 1}
  Bytes = {0, 8, 9, 57, 72}
  ScreenW = 4
  ScreenH = 3
  TaskbarH = 1
  Windows = {1}
  WinW = 3
  WinH = 1
  InitX <- WindowX
  InitY <- WindowY
  TitleH = 1
  Border = 0
  BtnW = 1
  StartBtn = {0}
  TaskBtn <- WindowButtons
CHECK_DEADLOCK FALSE
INVARIANTS
  RingsReadRight
  AnswersAreGenuine
  InputInOrder
  DragFollowsPointer
PROPERTIES
  LostOnlyByReclaim
  EpollIsAWatchList
  BlockedCallsReturn
