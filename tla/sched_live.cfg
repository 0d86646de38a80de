SPECIFICATION FairSpec
CONSTANTS
  MaxProcs = 3
  NormalThreshold = 1
  LowThreshold = 1
  FairnessFloor = 2
  KbdBoost = 2
  TaskBoosts = {}
  SleepLens = {1}
  Sleepers = {1}
  PolicyPrios = {1}
  PolicyCpus = {}
  MyCpu = 0
  AnyCpu = 255
  Slices = {1}
  SliceCycle = 1
  SchedModes = {}
  Elapsed = {2}
  CfsWeight <- MCCfsWeight
  Nice0Weight = 2
  VruntimeMax = 2
  TasksExit = TRUE
PROPERTIES
  NoStarvation
  DeadStaysDead
