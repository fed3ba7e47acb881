CONSTANTS
  Callers = {c1, c2}
  Logs = {l}
  Payloads = {x, y}
  Modes = {TRUE, FALSE}
  Started = {TRUE, FALSE}
  Initial = init
  NoHash = none
  MaxIndex = 2
  MaxCalls = 2
  MaxFaults = 1
  MaxCommits = 2
SPECIFICATION Spec
SYMMETRY Symmetry
CHECK_DEADLOCK FALSE
INVARIANTS
  LocalIsPrefix
  CommittedIsProven
  OneUncommitted
