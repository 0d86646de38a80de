SPECIFICATION MessagesSpec
CONSTANTS
  SenderPids = {1, 2}
  MaxMsgs = 2
  Lens = {1}
  SwSlots = 3
  MaxCaps = 2
  MaxIncoming = 8
  Frames = {0, 1}
  AllowDrop = FALSE
  OtherUse = FALSE
  MAX_PROCS = 3
  MAX_MEM_ENTRIES = 1
  Bursts = {5, 10}
  PushSets = {{}, {1,2}}
  TunePids = {1,2,3,4}
  FirstAlive = {1,2,3}
  Loads = {20,200}
  MaxWindows = 7
  MaxEvents = 2
  Deltas = {0,3,5,300}
  CoolWindows = 2
  MaxLearn = 7
CHECK_DEADLOCK FALSE
INVARIANTS
  MessagesTypeOK
  WatchesTheLiving
  BuildNeedsThree
  SteadyGetsChannel
PROPERTIES
  ImplementsMailbox
  OvertakesOnlyTheQueue
  EverySendArrives
  PriorityMovesWithCause
  HotIsEarned
