\* A full server: the trigger, the wallet that may fail, the forced changes.
CONSTANTS
  Procs = {p1}
  Logs = {a}
  Payloads = {x, y}
  Srv = srv
  ZeroLog = zero
  Full = TRUE
  Overlapping = FALSE
  MaxIndex = 1
  MaxCommits = 3
SPECIFICATION FairSpec
INVARIANTS
  IInv
PROPERTIES
  ImplementsLedger
  AcceptedIsCommitted
  LocksAreReleased
