\* One lost call after the diagnostic batch is enough.
CONSTANTS
  Invocations = {i1, i2}
  Locations = {east}
  Nobody = Nobody
  Lease = 2
  Deadline = 1
  MaxRuns = 1
  MaxFaults = 1
  MaxEdits = 0
SPECIFICATION FairSpec
PROPERTIES RunCompletes
CHECK_DEADLOCK FALSE
