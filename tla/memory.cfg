SPECIFICATION MemorySpec
CONSTANTS
  thread = thread
  isr = isr
  Contexts = {thread, isr}
  WordBits = 3
  BitmapWords = 2
  Usable = {0, 2, 3, 4, 5}
  Counts = {0, 1, 2, 3}
  DoubleFrees = TRUE
  Preemptive = FALSE
  Pairs <- FanOut
  MAX_IPC_PAIRS = 2
  MAX_EVICT_PAIRS = 2
  MAX_CHANNELS_PER_WINDOW = 1
  TopPairs = 2
  DECAY_THRESHOLD = 2
  DECAY_COLD_WINDOWS = 2
  Cooldown = 3
  Intervals = {1, 2}
  Anomalies = TRUE
  MaxCount = 3
  MAX_VMA = 2
  Frames = {1, 2, 3, 4, 5, 6, 7}
  MmapBase = 2
  BrkStart = 1
  Stack = 4
  Stored = {2}
  MaxPages = 2
  MaxPrograms = 2
  MaxCalls = 3
  PageWords = 2
  EXEC_LOAD_BASE = 10
  SO_LOAD_BASE = 40
  SO_SLOT_SIZE = 8
  INTERP_LOAD_BASE = 100
  DlBase = 20
  Executables <- Programs_
  LibNames = {"a", "b", "ld"}
  LibDirs <- Dirs
  Symbols = {"s"}
  MaxModules = 5
  FreeFrames = {9, 24}
  MaxOpened = 2
CHECK_DEADLOCK FALSE
INVARIANTS
  MemoryTypeOK
  OneOwner
  NoLeak
  ChannelsAccounted
  ProgramsIsolated
  GrantedPagesUsable
  LoadsTheClosure
  LinkedImage
PROPERTIES
  GivesUpOnlyWhenFull
  OpensSparingly
