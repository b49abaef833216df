SPECIFICATION FairSpec
CONSTANTS
  p1 = p1 p2 = p2 p3 = p3 f1 = f1 f2 = f2 f3 = f3
  Procs = {p1, p2, p3}
  Files = {f1, f2, f3}
  Mode <- ModesWWR
  Users <- PrivateUsers
  NoProc = NoProc
  SerialIoctl = TRUE
  MaxTickets = 4
INVARIANTS TypeOK TicketsAccounted FirstInLineAwake AllClosedFree
PROPERTIES GrantedInOrder ImplementsFairLock EveryCallReturns
