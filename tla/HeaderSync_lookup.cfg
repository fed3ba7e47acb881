SPECIFICATION Spec
CONSTANTS
  Genesis <- MCGenesis
  Branches <- MCBranches
  Lookups <- MCLookups
  PowLimit = 65535
  PowLimitBits = 50397183
  TargetTimespan = 50
  TargetTimePerBlock = 10
  RetargetAdjustmentFactor = 4
  ReduceMinDifficulty = TRUE
  oneLsh = 16777216
  MaxTries = 5
  MaxHeaders = 2
  MaxHandlers = 2
  MaxDrops = 0
  MaxCrashes = 0
  MaxSwitches = 0
  MaxQueries = 3
  MaxEvents = 0
CHECK_DEADLOCK FALSE
INVARIANTS
  LookupReturnsAsked
