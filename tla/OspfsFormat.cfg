SPECIFICATION Spec
CONSTANTS
  Jobs <- TheJobs
  DiskSizes = {12, 16, 21, 30}
  InodeCounts = {4, 8, 14}
  CacheSizes = {6, 8, 12}
  BLKSIZE = 2
  NDIRECT = 1
  NINDIRECT = 2
  BLKINODES = 2
  BLKENTRIES = 2
  BLKBITSIZE = 8
  MAXNAMELEN = 4
  MAXSYMLINKLEN = 2
INVARIANTS ImageHoldsTree ImageAccounted FormatsIfFits
CHECK_DEADLOCK FALSE
