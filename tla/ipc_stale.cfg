SPECIFICATION Spec
CONSTANTS
  SenderPids = {1}
  MaxMsgs = 2
  Lens = {1}
  SwSlots = 3
  MaxCaps = 1
  MaxIncoming = 8
  Frames = {0}
  AllowDrop = TRUE
  OtherUse = TRUE
CHECK_DEADLOCK FALSE
INVARIANTS ForeignFramesIntact
