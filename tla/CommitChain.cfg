\* Commitments of a fresh server and of one that has three fees left, with deposits,
\* a failing call to the node, and a crash or a reorganisation.
CONSTANTS
  Histories = {0, 3}
  Funds = 6
  Deposits = {6}
  CommitEveryNBlocks = 1
  QueueSize = 2
  MaxBlocks = 3
  MaxDeposits = 2
  MaxStatements = 1
  MaxReorgs = 1
  MaxCrashes = 1
  MaxSkips = 1
SPECIFICATION Spec
CHECK_DEADLOCK FALSE
INVARIANTS
  OnePending
  CommitmentsLinked
  HistoryComplete
  ConfirmedWasMined
PROPERTIES
  DurableProgress
