SPECIFICATION Spec
CONSTANTS
  p1 = p1 p2 = p2 p3 = p3 f1 = f1 f2 = f2 f3 = f3
  Procs = {p1, p2}
  Files = {f1, f2}
  Mode <- ModesRW
  Users <- ForkUsers
  NoProc = NoProc
  SerialIoctl = TRUE
  MaxTickets = 2
INVARIANTS AllClosedFree
