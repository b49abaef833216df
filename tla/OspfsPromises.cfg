SPECIFICATION Spec
CONSTANTS
  NBLOCKS = 8
  BORDER = 1
  NINODES = 3
  NDIRECT = 1
  NINDIRECT = 2
  BLKSIZE = 2
  DIRENTRY_SIZE = 2
  WRAP = 32
  Names <- OneName
  FirstName <- NameA
  Sizes = {0, 3, 6, 10}
  Counts <- SomeCounts
  StaleSymlink = FALSE
CHECK_DEADLOCK FALSE
PROPERTY SomePromiseKept
