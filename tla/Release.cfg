\* Two runs for one or two deployments of one service, two files, two builds.
CONSTANTS
  Deployments = {d, e}
  Builds = {x, y}
  NFiles = 2
  None = None
  Callers = {r, s}
  Attempts = {1}
  Admins = {a1, a2}
  MaxFaults = 1
  MaxEdits = 1
SPECIFICATION ReleaseSpec
SYMMETRY Interchangeable
INVARIANTS ReadyIsStored RunningIsReleased
PROPERTIES ImplementsLedger
CHECK_DEADLOCK FALSE
