SPECIFICATION ProgramsSpec
CONSTANTS
  Sigs = {17}
  Actions <- Handlers
  MaxNest = 1
  MaxProcs = 3
  MaxPid = 3
  Addrs = {1}
  CloneFlags <- Clones
  Tls = {1, 2}
  MainTls = {1}
  Codes = {1}
  Masks <- SignalSets
  Tuners = {1}
  Names = {"a", "b"}
  Paths <- ShortPaths
  MaxDepth = 2
  MaxNodes = 3
  Image <- OneFile
  EmptyDirs <- LostFound
  MaxOpens = 2
  MaxLen = 1
  MaxLinks = 2
  DevKinds = {"Tty"}
INVARIANTS
  ProgramsTypeOK
  RunsAsItself
  TreeIsSound
  FilesKeepContents
PROPERTIES
  ExitIsFinal
