SPECIFICATION Spec
CONSTANTS
  Genesis <- MCGenesis
  Branches <- MCBranches
  Lookups <- MCLookups
  PowLimit = 65535
  PowLimitBits = 50397183
  TargetTimespan = 50
  TargetTimePerBlock = 10
  RetargetAdjustmentFactor = 4
  ReduceMinDifficulty = TRUE
  oneLsh = 16777216
  MaxTries = 5
  MaxHeaders = 2
  MaxHandlers = 2
  MaxDrops = 2
  MaxCrashes = 1
  MaxSwitches = 1
  MaxQueries = 1
  MaxEvents = 3
CHECK_DEADLOCK FALSE
INVARIANTS
  FileIsBranchUpToHoles
PROPERTIES
  SyncCompletes
