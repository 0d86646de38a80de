SPECIFICATION Spec
CONSTANTS
  MaxProcs = 2
  NormalThreshold = 1
  LowThreshold = 2
  FairnessFloor = 3
  KbdBoost = 0
  TaskBoosts = {}
  SleepLens = {2}
  Sleepers = {1}
  PolicyPrios = {}
  PolicyCpus = {}
  MyCpu = 0
  AnyCpu = 255
  Slices = {1}
  SliceCycle = 1
  SchedModes = {}
  Elapsed = {2}
  CfsWeight <- MCCfsWeight
  Nice0Weight = 2
  VruntimeMax = 4
  TasksExit = FALSE
INVARIANTS SleepRespected
