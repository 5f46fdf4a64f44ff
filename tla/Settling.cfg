CONSTANTS
  None = None
  Events = {"f1"}
  Payloads <- FirstOrOther
  MinOccurrences = 1
  RecoveryMin = 2
  Messages = {"sent", "reused"}
  PayloadOf <- Reuse
  Consumers = {c1, c2}
  MaxAttempts = 2
  MaxDeliveries = 3
  ForeignChanges = 0
  Monitors = {"a", "b", "c", "lost", "failing"}
  TargetOf <- OneApart
  Unready = {"lost"}
  Broken = {"failing"}
  Limit = 4
  Global = 3
  PerTarget = 2
  Interval = 1
  LeaseTicks = 2
  Services = {"web", "api", "db"}
  Components = {}
  Dependencies <- CycleOverLeaf
  Supporting = {}
  Owner <- NoOwners
  Planners = {p}
  Impacts = {"major_outage"}
  Windows = {}
  Period = 1
  MaxTime = 1
  MaxChanges = 1
  MaxProbes = 3
  MaxFaults = 0
SPECIFICATION SettlingSpec
INVARIANTS NothingLost
PROPERTIES EveryMessageSettles EveryMonitorRuns StaysFresh Converges
CHECK_DEADLOCK FALSE
