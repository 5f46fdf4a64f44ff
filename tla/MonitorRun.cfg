\* Two overlapping Cron invocations, one location, two runs, two faults, one edit.
CONSTANTS
  Invocations = {i1, i2}
  Locations = {east}
  Nobody = Nobody
  Lease = 2
  Deadline = 1
  MaxRuns = 2
  MaxFaults = 2
  MaxEdits = 1
SPECIFICATION FairSpec
INVARIANTS TypeOK OneWorker
PROPERTIES OnlyHolderEndsLease ImplementsLedger RunSettles
CHECK_DEADLOCK FALSE
