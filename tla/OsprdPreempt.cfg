SPECIFICATION Spec
CONSTANTS
  p1 = p1 p2 = p2 p3 = p3 f1 = f1 f2 = f2 f3 = f3
  Procs = {p1, p2, p3}
  Files = {f1, f2, f3}
  Mode <- ModesAll
  Users <- SharedUsers
  NoProc = NoProc
  SerialIoctl = FALSE
  MaxTickets = 3
INVARIANTS ExclusiveLock WaiterHoldsNothing
PROPERTIES RefusedIsNotWriter
