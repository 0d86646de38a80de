SPECIFICATION Spec
CONSTANTS
  MaxProcs = 3
  NormalThreshold = 1
  LowThreshold = 1
  FairnessFloor = 1
  KbdBoost = 0
  TaskBoosts = {1}
  SleepLens = {2}
  Sleepers = {0, 1}
  PolicyPrios = {}
  PolicyCpus = {0}
  MyCpu = 1
  AnyCpu = 255
  Slices = {1}
  SliceCycle = 1
  SchedModes = {"Cfs"}
  Elapsed = {2}
  CfsWeight <- MCCfsWeight
  Nice0Weight = 2
  VruntimeMax = 1
  TasksExit = TRUE
INVARIANTS TypeOK SoleRunner ReapedAreDead ScansPickTheBest
PROPERTIES SleepsOut
