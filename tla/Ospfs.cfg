SPECIFICATION Spec
CONSTANTS
  NBLOCKS = 7
  BORDER = 1
  NINODES = 4
  NDIRECT = 1
  NINDIRECT = 2
  BLKSIZE = 2
  DIRENTRY_SIZE = 2
  WRAP = 32
  Names <- SomeNames
  FirstName <- NameA
  Sizes = {0, 3, 6}
  Counts <- SomeCounts
  StaleSymlink = FALSE
CHECK_DEADLOCK FALSE
INVARIANTS TypeOK NeverShared AllAccounted FileShape ReadsExactly ListedInOrder NoForeignData LinksCounted
PROPERTIES ReturnsIfFits
