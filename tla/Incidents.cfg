\* One incident, two issues of two services, three operator commands.
CONSTANTS
  NIncidents = 1
  a = a  b = b  c = c  s = s  t = t  month = month  week = week
  Issues = {a, b}
  Components = {c}
  ServiceIds = {s, t}
  ServiceOf <- MCServiceOf
  Commands <- MCCommands
  None = None
  NRequests = 3
  Policies = {month, week}
  RetentionOf <- MCRetentionOf
  Days <- MCDays
  Batch <- MCBatch
  LinkLimit = 1
  CandidateLimit = 2
  MaxOccurrences = 2
  MaxTime = 1
SPECIFICATION IncidentSpec
INVARIANTS OpenEvidenceKept
PROPERTIES ImplementsLedger RetentionProgress
CHECK_DEADLOCK FALSE
