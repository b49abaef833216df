SPECIFICATION Spec
CONSTANTS
  NPROCS = 4
  Algorithms = {0, 1, 2, 3, 4}
  Levels <- SomeLevels
  RUNCOUNT = 2
CHECK_DEADLOCK FALSE
INVARIANTS StopsWhenAllExited OneInside NothingLost
PROPERTIES BestIsChosen AllFinish
