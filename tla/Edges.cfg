CONSTANTS
  Absent = Absent
  Services = {"a", "b", "c"}
  Source = "a"
  Edges <- AllEdges
  Impacts = {0, 1, 2}
  Reported = {"operational", "major_outage", "unknown"}
  Sites = {1, 2, 3}
  Colos <- TwoAndTwo
  Lag <- OneSlow
  Window = 5
  Stale = 5
  MinSamples = 2
  FailAt <- TwoThirds
  RecoverAt <- OneThird
  Quorums = {1, 2}
  Interval = 3
  Cron = {0, 2, 4, 6}
  Horizon = 6
  MaxEdits = 1
  NEvents = 3
  Capacity = 2
  MaxAttempts = 2
  MaxMishaps = 2
  Callers = {c1, c2}
  SigningKeys = {k1, k2}
  Ttl = 2
  Reload = 1
  Deadline = 1
  Life = 4
  Skew = 0
  LastInstant = 5
  Rotations = 1
  Browsers = {b1, b2}
  Lifetime = 2
  BudgetWindow = 1
  BudgetLimit = 2
  Patience = 1
  Closing = 3
  Records = 1
  Tokens = 2
  RecordCapacity = 3
  ByteLimit = 4
  BatchSize = 2
  Offers = 4
  FailedFlushes = 2
  Rows = {"r1", "r2"}
  Letters = 3
  LetterBatch = 2
  MaxDeliveries = 2
  Switches = 1
  Troubles = 1
  Catalogue = {"a", "b", "c"}
  Links <- Ring
  Caps = {0, 1}
  Screens = {"screen"}
  Supports <- Supporting
  Stored <- Held
  Deadlines = {1, 2, Absent}
  LastLook = 2
  Ids = {1, 2, 3}
  Filters <- NoFilterOrOne
  Froms = {1, Absent}
  Tos = {2, Absent}
  Limits = {1, 2}
  CursorLife = 2
  LastDay = 3
  Changes = 1
SPECIFICATION EdgesSpec
INVARIANTS ImpactIsJustified SignalIsEarned DeliversInOrder KeysFollowIssuer LoginIsGuarded ExportIsFaithful NoNotificationLost PublishedStatusHolds PagesFitTogether
CHECK_DEADLOCK FALSE
