SPECIFICATION Spec
CONSTANTS
  Loads <- SomeLoads
  Listed <- SomeLists
  Sends <- SomeSends
  Self = "self"
  InitDisk <- Directory
  Files <- SomeFiles
  TASKBUFSIZ = 2
  MAX_FILE_SIZE = 3
  MAX_SAMPLES = 2
  MIN_RATE = 1
  MaxNames = 3
  MaxRequests = 2
  DescriptorsRunOut = FALSE
CHECK_DEADLOCK FALSE
INVARIANTS SavedWhole OwnFilesOnly HaveIsTrue UploadsBounded
