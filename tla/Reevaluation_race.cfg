\* Two planners race with each other, a mutation, the clock and a lost call;
\* a dependency, and a component of the one service that the other supports.
CONSTANTS
  Services = {"web", "api"}
  Components = {"login"}
  Dependencies <- Pair
  Supporting <- Screen
  Owner <- Owners
  Planners = {p, q}
  Impacts = {"major_outage"}
  Windows = {"maintenance"}
  Period = 1
  MaxTime = 1
  MaxChanges = 2
  MaxProbes = 1
  MaxFaults = 1
SPECIFICATION Spec
SYMMETRY Planning
INVARIANTS RestIsConsistent
PROPERTIES WritesWhatHolds
CHECK_DEADLOCK FALSE
