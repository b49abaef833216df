SPECIFICATION AppSpec
CONSTANTS
  NPROCS = 16
  Total = 1025
  Statuses <- AppStatuses
  Parental = TRUE
CHECK_DEADLOCK FALSE
PROPERTIES AllChildrenRun EachStatusOnce
