\* Two connections with statements for one log in flight.
CONSTANTS
  Procs = {p1, p2}
  Logs = {a}
  Payloads = {x, y}
  Srv = srv
  ZeroLog = zero
  Full = FALSE
  Overlapping = TRUE
  MaxIndex = 1
  MaxCommits = 1
SPECIFICATION Spec
SYMMETRY Symmetry
INVARIANTS
  OneStatementPerIndex
