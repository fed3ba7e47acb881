\* A server without a chain; two connections, one log, two indices.
CONSTANTS
  Procs = {p1, p2}
  Logs = {a}
  Payloads = {x, y}
  Srv = srv
  ZeroLog = zero
  Full = FALSE
  Overlapping = FALSE
  MaxIndex = 1
  MaxCommits = 1
SPECIFICATION Spec
SYMMETRY Symmetry
INVARIANTS
  CommitmentMatchesTree
  UpdatesGoToRegistered
  AckedInTree
PROPERTIES
  DeltaCoversCommit
  PushedUpdatesAdvance
