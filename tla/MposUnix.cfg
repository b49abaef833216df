SPECIFICATION Spec
CONSTANTS
  NPROCS = 4
  Statuses = {100}
  Parental = TRUE
CHECK_DEADLOCK FALSE
INVARIANTS RunsRunnable BlockedAwaited
