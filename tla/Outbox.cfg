\* Two dispatchers, an internal and an external event, two lost invocations.
CONSTANTS
  Events = {work, note}
  External = {note}
  Dispatchers = {d1, d2}
  Nobody = Nobody
  Ghost = Ghost
  Lease = 2
  Deadline = 1
  Limit = 2
  MaxAttempts = 2
  MaxFaults = 2
SPECIFICATION FairSpec
INVARIANTS TypeOK SoleDispatcher
PROPERTIES ImplementsLedger InternalWorkSettles
CHECK_DEADLOCK FALSE
