SPECIFICATION Spec
CONSTANTS
  Modes = {"post", "ws", "auto"}
  Commands <- MCCommands
  MaxCallers = 2
  sendBufferSize = 1
  sendPostBufferSize = 1
  MaxConns = 2
  MaxIDs = 3
CHECK_DEADLOCK FALSE
INVARIANTS
  ResolvedOnce
  NoneForgotten
PROPERTIES
  CallsReturn
