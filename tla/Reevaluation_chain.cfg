\* A chain of three services; the last one flaps within the time a request waits.
CONSTANTS
  Services = {"web", "api", "db"}
  Components = {}
  Dependencies <- Chain
  Supporting = {}
  Owner <- Owners
  Planners = {p}
  Impacts = {"degraded"}
  Windows = {}
  Period = 1
  MaxTime = 0
  MaxChanges = 3
  MaxProbes = 0
  MaxFaults = 0
SPECIFICATION Spec
INVARIANTS ConvergesThroughOutbox
CHECK_DEADLOCK FALSE
