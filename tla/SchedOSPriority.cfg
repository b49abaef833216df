SPECIFICATION Spec
CONSTANTS
  NPROCS = 4
  Algorithms = {2}
  Levels <- SomeLevels
  RUNCOUNT = 2
CHECK_DEADLOCK FALSE
INVARIANT SpinsOnlyWithoutRunnable
