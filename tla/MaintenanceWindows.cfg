\* A window on a service with one component, two overrides, three commands.
CONSTANTS
  NWindows = 1
  NOverrides = 2
  s = s  c = c
  Targets = {s, c}
  Owner <- MCOwner
  Commands <- MCCommands
  NRequests = 3
  SourceLimit = 1
  None = None
  PromptCommands = TRUE
  MaxTime = 3
SPECIFICATION WindowSpec
INVARIANTS RestIsCurrent
PROPERTIES CatchesUp
CHECK_DEADLOCK FALSE
