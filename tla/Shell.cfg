SPECIFICATION Spec
CONSTANTS
  Parsed <- make_command_stream
  Texts <- SomeTexts
  Shown <- SomeShown
  InitFiles <- TwoFiles
  MaxProc = 9
  NFD = 8
  PipeCap = 1
  Emit = 2
  Tries = 2
  LogRooms = {3}
  MaxFailures = 1
CHECK_DEADLOCK FALSE
INVARIANTS CleanBetween Outcome ParsedRight
PROPERTIES LogSound AllEnd
