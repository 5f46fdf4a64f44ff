\* Three requests, each with any of eleven commands (two of them under one
\* key), one lost call, one claim of the scheduler.
CONSTANTS
  Commands <- Everything
  Subjects = {"web", "login", "rules", "web days", "api days"}
  Policies = {"P"}
  Seeded = {"web"}
  Shared = {"web"}
  None = None
  Attempts = {a, b, c}
  MaxFaults = 1
  MaxTouches = 1
SPECIFICATION CommandsSpec
SYMMETRY Interchangeable
INVARIANTS TypeOK AnswersAgree
PROPERTIES ImplementsLedger ConflictsAreReal
CHECK_DEADLOCK FALSE
