\* Liveness of an established server, with deposits and a reorganisation.
CONSTANTS
  Histories = {1}
  Funds = 20
  Deposits = {6}
  CommitEveryNBlocks = 1
  QueueSize = 2
  MaxBlocks = 3
  MaxDeposits = 2
  MaxStatements = 0
  MaxCrashes = 0
  MaxReorgs = 1
  MaxSkips = 0
SPECIFICATION FairSpec
CHECK_DEADLOCK FALSE
PROPERTIES
  MinedIsConfirmed
