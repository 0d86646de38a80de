SPECIFICATION LoaderSpec
CONSTANTS
  PageWords = 2
  EXEC_LOAD_BASE = 10
  SO_LOAD_BASE = 30
  SO_SLOT_SIZE = 8
  INTERP_LOAD_BASE = 100
  DlBase = 20
  Executables <- Programs_
  LibNames = {"a", "b", "ld"}
  LibDirs <- Dirs
  Symbols = {"s"}
  MaxModules = 5
  FreeFrames = {9, 24}
  MaxOpened = 1
CHECK_DEADLOCK FALSE
INVARIANT StaticImageIntact

