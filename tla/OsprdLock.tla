----------------------------- MODULE OsprdLock -----------------------------
(***************************************************************************)
(* The ramdisk lock of RAMDisk/osprd.c: a reader/writer lock on a device,  *)
(* taken and released through osprd_ioctl on an open file, handed out in   *)
(* ticket order, and released when the last descriptor of the file closes. *)
(*                                                                         *)
(* One action is one critical section of d->mutex, or one step of the code *)
(* between critical sections (the evaluation of wait_event_interruptible's *)
(* condition, which the code runs without the mutex).                      *)
(***************************************************************************)
EXTENDS Integers, FiniteSets, FiniteSetsExt

CONSTANTS
  Procs,        \* processes (current->pid)
  Files,        \* open file descriptions (struct file) of the device
  Mode,         \* f_mode of each file: "r" (O_RDONLY), "w" (O_WRONLY), "rw"
  Users,        \* the processes that may hold a descriptor of each file
  NoProc,       \* the pid -1 of d->writer
  SerialIoctl,  \* TRUE: the kernel lets one ioctl handler run at a time up to
                \* schedule() (uniprocessor without preemption, or ->ioctl
                \* called under the big kernel lock); FALSE: only d->mutex
                \* orders the handlers
  MaxTickets    \* bound on the tickets handed out (below 2^31 in the code)

ASSUME ProcsAssumption == NoProc \notin Procs /\ IsFiniteSet(Procs)
ASSUME FilesAssumption ==
  /\ IsFiniteSet(Files) /\ Files # {}
  /\ Mode \in [Files -> {"r", "w", "rw"}]
  /\ Users \in [Files -> SUBSET Procs]
ASSUME BoundAssumption == SerialIoctl \in BOOLEAN /\ MaxTickets \in Nat

VARIABLES
  ticket_head,  \* d->ticket_head: the next ticket handed out
  ticket_tail,  \* d->ticket_tail: the ticket being served
  terminated,   \* d->terminated_tickets (sorted list, never pruned) as a set
  num_readers,  \* d->num_readers
  readers,      \* d->readers: the pids in the list
  writer,       \* d->writer
  wq,           \* d->blockq: processes on it that nothing has woken yet
  fds,          \* the processes with a descriptor of each file
  locked,       \* filp->f_flags & F_OSPRD_LOCKED
  pc,           \* where each process is in osprd_ioctl ("user": not in it)
  file,         \* argument filp of the call
  ticket,       \* local ticket
  side,         \* which of the two blocks runs: "w" (372-410) or "r" (413-458)
  walk,         \* last node can_run_ticket has visited (-1: none) outside the mutex
  queued,       \* has wait_event reached prepare_to_wait yet
  sig,          \* is a signal pending
  ret,          \* last return value of the process's ioctl
  bkl           \* the process whose handler runs, when SerialIoctl

dev   == <<ticket_head, ticket_tail, terminated, num_readers, readers, writer>>
call  == <<file, ticket>>
place == <<side, walk, queued>>
vars  == <<dev, wq, fds, locked, pc, call, place, sig, ret, bkl>>

Results  == {"none", "0", "EDEADLK", "EBUSY", "EINVAL", "ERESTARTSYS"}
Places   == {"user", "check", "loop", "cond", "walk", "store", "sleep", "intr", "try"}

Writable(f) == Mode[f] \in {"w", "rw"}
Readable(f) == Mode[f] \in {"r", "rw"}

-----------------------------------------------------------------------------
(* osprd_setup, and no process in the driver yet. *)
Init ==
  /\ ticket_head = 0 /\ ticket_tail = 0 /\ terminated = {}
  /\ num_readers = 0 /\ readers = {} /\ writer = NoProc /\ wq = {}
  /\ fds = [f \in Files |-> {}] /\ locked = [f \in Files |-> FALSE]
  /\ pc = [p \in Procs |-> "user"]
  /\ file = [p \in Procs |-> CHOOSE f \in Files : TRUE]
  /\ ticket = [p \in Procs |-> 0]
  /\ side = [p \in Procs |-> "w"] /\ walk = [p \in Procs |-> -1]
  /\ queued = [p \in Procs |-> FALSE] /\ sig = [p \in Procs |-> FALSE]
  /\ ret = [p \in Procs |-> "none"] /\ bkl = NoProc

(* Mutant of can_write: the number of readers is not looked at. *)
CanWriteOverReaders == writer = NoProc

(* The lock test of a block: can_write for "w", can_read for "r". *)
can_write == num_readers = 0 /\ writer = NoProc
can_read  == writer = NoProc
CanLock(s) == IF s = "w" THEN can_write ELSE can_read

(* ticket_tail after the loop of can_run_ticket(d, t): it moves over the   *)
(* terminated tickets below t and stops at the first other one.            *)
SkipTail(t) ==
  IF t <= ticket_tail THEN ticket_tail
  ELSE Min({n \in ticket_tail..t : n = t \/ n \notin terminated})

(* Mutant of can_run_ticket: `ticket >= d->ticket_tail`. *)
RunsAfterTail(t) == SkipTail(t) <= t

can_run_ticket(t) == SkipTail(t) = t

(* What `ticket_tail` is after `CanLock && can_run_ticket(t)`: the second  *)
(* operand, and its side effect, only when the first holds.                *)
TailAfterTest(s, t) == IF CanLock(s) THEN SkipTail(t) ELSE ticket_tail

-----------------------------------------------------------------------------
(* Handlers of two processes interleave freely unless SerialIoctl. *)
MayRun(p)   == SerialIoctl => bkl \in {NoProc, p}
KeepCpu(p)  == bkl' = IF SerialIoctl THEN p ELSE NoProc
LeaveCpu    == bkl' = NoProc

(* osprd_ioctl returns r to process p; a pending signal is delivered. *)
Return(p, r) ==
  /\ pc' = [pc EXCEPT ![p] = "user"]
  /\ ret' = [ret EXCEPT ![p] = r]
  /\ sig' = [sig EXCEPT ![p] = FALSE]
  /\ side' = [side EXCEPT ![p] = "w"]
  /\ walk' = [walk EXCEPT ![p] = -1]
  /\ queued' = [queued EXCEPT ![p] = FALSE]
  /\ wq' = wq \ {p}
  /\ LeaveCpu

(* Mutant of Refuse: the ticket is not terminated. *)
RefuseLosesTicket(p, t, r) == UNCHANGED terminated /\ Return(p, r)

(* terminate_ticket(d, ticket), then return r: no process is woken. *)
Refuse(p, t, r) ==
  /\ terminated' = terminated \cup {t}
  /\ Return(p, r)

(* `goto` another place of the handler, keeping the CPU. *)
Goto(p, place2) ==
  /\ pc' = [pc EXCEPT ![p] = place2]
  /\ KeepCpu(p)

-----------------------------------------------------------------------------
(* open(): a fresh struct file, not locked. *)
Open(p, f) ==
  /\ pc[p] = "user" /\ p \in Users[f] /\ fds[f] = {}
  /\ fds' = [fds EXCEPT ![f] = {p}]
  /\ locked' = [locked EXCEPT ![f] = FALSE]
  /\ UNCHANGED <<dev, wq, pc, call, place, sig, ret, bkl>>

(* fork(): the child q shares the struct file. *)
Fork(p, q, f) ==
  /\ pc[p] = "user" /\ pc[q] = "user"
  /\ p \in fds[f] /\ q \in Users[f] \ fds[f]
  /\ fds' = [fds EXCEPT ![f] = @ \cup {q}]
  /\ UNCHANGED <<dev, wq, locked, pc, call, place, sig, ret, bkl>>

(* Mutants of Unlock: nobody is woken; the writer becomes pid 0, not -1. *)
UnlockNoWake(p, f) ==
  /\ writer' = IF Writable(f) THEN NoProc ELSE writer
  /\ IF Readable(f) /\ p \in readers
       THEN readers' = readers \ {p} /\ num_readers' = num_readers - 1
       ELSE UNCHANGED <<readers, num_readers>>
  /\ locked' = [locked EXCEPT ![f] = FALSE]
  /\ UNCHANGED <<wq, ticket_head, ticket_tail, terminated>>

UnlockPidZero(p, f) ==
  /\ writer' = IF Writable(f) THEN 0 ELSE writer
  /\ locked' = [locked EXCEPT ![f] = FALSE]
  /\ wq' = {}
  /\ UNCHANGED <<ticket_head, ticket_tail, terminated, readers, num_readers>>

(* The common part of RELEASE and osprd_close_last on a locked file: the   *)
(* writer is cleared, or the entry of the CURRENT process taken off the    *)
(* reader list; the flag is cleared and every sleeper woken.               *)
Unlock(p, f) ==
  /\ writer' = IF Writable(f) THEN NoProc ELSE writer
  /\ IF Readable(f) /\ p \in readers
       THEN readers' = readers \ {p} /\ num_readers' = num_readers - 1
       ELSE UNCHANGED <<readers, num_readers>>
  /\ locked' = [locked EXCEPT ![f] = FALSE]
  /\ wq' = {}
  /\ UNCHANGED <<ticket_head, ticket_tail, terminated>>

(* Mutant of Close: the lock of the file is forgotten, not released. *)
CloseKeepsLock(p, f) ==
  /\ pc[p] = "user" /\ p \in fds[f]
  /\ fds' = [fds EXCEPT ![f] = @ \ {p}]
  /\ UNCHANGED <<dev, locked, wq, pc, call, place, sig, ret, bkl>>

(* close() or exit(): dropping the last descriptor runs osprd_close_last,  *)
(* which is not an ioctl and so runs whatever SerialIoctl is.              *)
Close(p, f) ==
  /\ pc[p] = "user" /\ p \in fds[f]
  /\ fds' = [fds EXCEPT ![f] = @ \ {p}]
  /\ IF fds[f] = {p} /\ locked[f] THEN Unlock(p, f) ELSE UNCHANGED <<dev, locked, wq>>
  /\ UNCHANGED <<pc, call, place, sig, ret, bkl>>

(* OSPRDIOCRELEASE. *)
Release(p, f) ==
  /\ pc[p] = "user" /\ MayRun(p) /\ p \in fds[f]
  /\ \/ /\ ~locked[f]
        /\ ret' = [ret EXCEPT ![p] = "EINVAL"]
        /\ UNCHANGED <<dev, locked, wq>>
     \/ /\ locked[f]
        /\ Unlock(p, f)
        /\ ret' = [ret EXCEPT ![p] = "0"]
  /\ UNCHANGED <<fds, pc, call, place, sig, bkl>>

-----------------------------------------------------------------------------
(* OSPRDIOCACQUIRE and OSPRDIOCTRYACQUIRE up to the first unlock: take a   *)
(* ticket, and give up at once if this process holds the write lock.       *)
TakeTicket(p, f, next, refusal) ==
  /\ pc[p] = "user" /\ MayRun(p) /\ p \in fds[f]
  /\ ticket_head < MaxTickets
  /\ ticket_head' = ticket_head + 1
  /\ file' = [file EXCEPT ![p] = f]
  /\ ticket' = [ticket EXCEPT ![p] = ticket_head]
  /\ \/ /\ writer = p
        /\ Refuse(p, ticket_head, refusal)
     \/ /\ writer # p
        /\ side' = [side EXCEPT ![p] = IF Writable(f) THEN "w" ELSE "r"]
        /\ ret' = [ret EXCEPT ![p] = "none"]
        /\ Goto(p, next)
        /\ UNCHANGED <<terminated, wq, sig, walk, queued>>
  /\ UNCHANGED <<ticket_tail, num_readers, readers, writer, fds, locked>>

Acquire(p, f)    == TakeTicket(p, f, "check", "EDEADLK")
TryAcquire(p, f) == TakeTicket(p, f, "try", "EBUSY")

(* The end of a block that got its lock: record the holder, flag the file, *)
(* serve the next ticket (waking nobody).  The "w" block of a file that is *)
(* also readable falls through to the "r" block at place `next`.           *)
Grant(p, next) ==
  /\ locked' = [locked EXCEPT ![file[p]] = TRUE]
  /\ ticket_tail' = SkipTail(ticket[p]) + 1
  /\ \/ /\ side[p] = "w"
        /\ writer' = p
        /\ UNCHANGED <<readers, num_readers>>
     \/ /\ side[p] = "r"
        /\ readers' = readers \cup {p}
        /\ num_readers' = num_readers + 1
        /\ UNCHANGED writer
  /\ \/ /\ side[p] = "w" /\ Readable(file[p])
        /\ side' = [side EXCEPT ![p] = "r"]
        /\ Goto(p, next)
        /\ UNCHANGED <<ret, sig, walk, queued, wq>>
     \/ /\ side[p] = "r" \/ ~Readable(file[p])
        /\ Return(p, "0")
  /\ UNCHANGED <<ticket_head, terminated, fds, call>>

(* Mutant of Check: no test for a read lock of one's own. *)
CheckSkipped(p) ==
  /\ pc[p] = "check" /\ MayRun(p)
  /\ Goto(p, "loop")
  /\ UNCHANGED <<dev, wq, place, sig, ret, fds, locked, call>>

(* 373-385 and 414-425: a process that already has the read lock gives up. *)
Check(p) ==
  /\ pc[p] = "check" /\ MayRun(p)
  /\ \/ /\ p \in readers
        /\ Refuse(p, ticket[p], "EDEADLK")
     \/ /\ p \notin readers
        /\ Goto(p, "loop")
        /\ UNCHANGED <<terminated, wq, place, sig, ret>>
  /\ UNCHANGED <<ticket_head, ticket_tail, num_readers, readers, writer>>
  /\ UNCHANGED <<fds, locked, call>>

(* 388-391 and 428-432: test under the mutex, and take the lock or wait. *)
Loop(p) ==
  /\ pc[p] = "loop" /\ MayRun(p)
  /\ \/ /\ CanLock(side[p]) /\ can_run_ticket(ticket[p])
        /\ Grant(p, "check")
     \/ /\ ~(CanLock(side[p]) /\ can_run_ticket(ticket[p]))
        /\ ticket_tail' = TailAfterTest(side[p], ticket[p])
        /\ Goto(p, "cond")
        /\ UNCHANGED <<ticket_head, terminated, num_readers, readers, writer>>
        /\ UNCHANGED <<wq, fds, locked, call, place, sig, ret>>

(* Mutant of Try: the writer is recorded before the tests. *)
TryWritesFirst(p) ==
  /\ pc[p] = "try" /\ MayRun(p)
  /\ writer' = IF side[p] = "w" THEN p ELSE writer
  /\ Refuse(p, ticket[p], "EBUSY")
  /\ UNCHANGED <<ticket_head, ticket_tail, num_readers, readers, fds, locked, call>>

(* TRYACQUIRE's block: both tests and the grant in one critical section. *)
Try(p) ==
  /\ pc[p] = "try" /\ MayRun(p)
  /\ \/ /\ p \notin readers /\ CanLock(side[p]) /\ can_run_ticket(ticket[p])
        /\ Grant(p, "try")
     \/ /\ \/ p \in readers /\ UNCHANGED ticket_tail
           \/ /\ p \notin readers /\ ~(CanLock(side[p]) /\ can_run_ticket(ticket[p]))
              /\ ticket_tail' = TailAfterTest(side[p], ticket[p])
        /\ Refuse(p, ticket[p], "EBUSY")
        /\ UNCHANGED <<ticket_head, num_readers, readers, writer, fds, locked, call>>

-----------------------------------------------------------------------------
(* wait_event_interruptible(blockq, CanLock && can_run_ticket), external:  *)
(* evaluate once; while false, prepare_to_wait, evaluate again, then sleep *)
(* or, if a signal is pending, give up.  Nothing here holds d->mutex.      *)
CondTrue(p) ==
  /\ walk' = [walk EXCEPT ![p] = -1]
  /\ queued' = [queued EXCEPT ![p] = FALSE]
  /\ wq' = wq \ {p}
  /\ Goto(p, "loop")

CondFalse(p) ==
  /\ walk' = [walk EXCEPT ![p] = -1]
  /\ \/ /\ ~queued[p]
        /\ queued' = [queued EXCEPT ![p] = TRUE]
        /\ wq' = wq \cup {p}
        /\ Goto(p, "cond")
     \/ /\ queued[p] /\ sig[p]
        /\ queued' = [queued EXCEPT ![p] = FALSE]
        /\ wq' = wq \ {p}
        /\ Goto(p, "intr")
     \/ /\ queued[p] /\ ~sig[p]
        /\ pc' = [pc EXCEPT ![p] = "sleep"]
        /\ LeaveCpu
        /\ UNCHANGED <<queued, wq>>

(* can_write or can_read, read without the mutex. *)
EvalLock(p) ==
  /\ pc[p] = "cond" /\ MayRun(p)
  /\ \/ /\ ~CanLock(side[p])
        /\ CondFalse(p)
     \/ /\ CanLock(side[p])
        /\ Goto(p, "walk")
        /\ UNCHANGED <<wq, walk, queued>>
  /\ UNCHANGED <<dev, fds, locked, call, side, sig, ret>>

(* One turn of can_run_ticket's loop: the next node, compared with the     *)
(* tail; at the end of the list, the final comparison.                     *)
EvalWalk(p) ==
  LET ahead == {n \in terminated : walk[p] < n /\ n < ticket[p]}
  IN /\ pc[p] = "walk" /\ MayRun(p)
     /\ \/ /\ ahead = {} /\ ticket[p] = ticket_tail
           /\ CondTrue(p)
        \/ /\ ahead = {} /\ ticket[p] # ticket_tail
           /\ CondFalse(p)
        \/ /\ ahead # {}
           /\ walk' = [walk EXCEPT ![p] = Min(ahead)]
           /\ Goto(p, IF Min(ahead) = ticket_tail THEN "store" ELSE "walk")
           /\ UNCHANGED <<wq, queued>>
     /\ UNCHANGED <<dev, fds, locked, call, side, sig, ret>>

(* d->ticket_tail++ after that comparison, still without the mutex: the    *)
(* compiler may increment memory or store the compared value plus one.     *)
EvalStore(p) ==
  /\ pc[p] = "store" /\ MayRun(p)
  /\ ticket_tail' \in {ticket_tail + 1, walk[p] + 1}
  /\ Goto(p, "walk")
  /\ UNCHANGED <<ticket_head, terminated, num_readers, readers, writer>>
  /\ UNCHANGED <<wq, fds, locked, call, place, sig, ret>>

(* schedule() returns once a wake-up or a signal took p off the queue, and *)
(* the loop prepares to wait and evaluates again.                          *)
Resume(p) ==
  /\ pc[p] = "sleep" /\ p \notin wq /\ MayRun(p)
  /\ wq' = wq \cup {p}
  /\ Goto(p, "cond")
  /\ UNCHANGED <<dev, fds, locked, call, place, sig, ret>>

(* 397-402 and 438-443: interrupted, terminate the ticket and return. *)
Interrupted(p) ==
  /\ pc[p] = "intr" /\ MayRun(p)
  /\ Refuse(p, ticket[p], "ERESTARTSYS")
  /\ UNCHANGED <<ticket_head, ticket_tail, num_readers, readers, writer>>
  /\ UNCHANGED <<fds, locked, call>>

(* A signal reaches a process that is inside ACQUIRE; it ends its sleep. *)
Signal(p) ==
  /\ pc[p] \notin {"user", "try"} /\ ~sig[p]
  /\ sig' = [sig EXCEPT ![p] = TRUE]
  /\ wq' = IF pc[p] = "sleep" THEN wq \ {p} ELSE wq
  /\ UNCHANGED <<dev, fds, locked, pc, call, place, ret, bkl>>

-----------------------------------------------------------------------------
(* The kernel's own steps for p, and the calls p may make. *)
Kernel(p) ==
  \/ Check(p) \/ Loop(p) \/ Try(p)
  \/ EvalLock(p) \/ EvalWalk(p) \/ EvalStore(p)
  \/ Resume(p) \/ Interrupted(p)

Client(p, f) ==
  \/ Open(p, f) \/ Close(p, f) \/ Release(p, f)
  \/ Acquire(p, f) \/ TryAcquire(p, f)
  \/ \E q \in Procs : Fork(p, q, f)

Next ==
  \E p \in Procs : Kernel(p) \/ Signal(p) \/ \E f \in Files : Client(p, f)

Spec == Init /\ [][Next]_vars

(* A process that holds a lock eventually releases it, and the scheduler   *)
(* eventually runs every process that can run.                             *)
Unlocks(p) == \E f \in Files : locked[f] /\ Release(p, f)

Fairness == \A p \in Procs : WF_vars(Kernel(p)) /\ WF_vars(Unlocks(p))

FairSpec == Spec /\ Fairness

-----------------------------------------------------------------------------
(* Type invariant: the device and its files, the arguments of the calls,   *)
(* the progress of the calls.                                              *)
DevOK ==
  /\ ticket_head \in Nat /\ ticket_tail \in Nat /\ terminated \in SUBSET Nat
  /\ num_readers \in Int /\ readers \in SUBSET Procs
  /\ writer \in Procs \cup {NoProc}
  /\ fds \in [Files -> SUBSET Procs] /\ locked \in [Files -> BOOLEAN]
CallOK == file \in [Procs -> Files] /\ ticket \in [Procs -> Nat]
PlaceOK ==
  /\ pc \in [Procs -> Places] /\ side \in [Procs -> {"w", "r"}]
  /\ walk \in [Procs -> Nat \cup {-1}] /\ queued \in [Procs -> BOOLEAN]
  /\ sig \in [Procs -> BOOLEAN] /\ ret \in [Procs -> Results]
  /\ wq \in SUBSET Procs /\ bkl \in Procs \cup {NoProc}
TypeOK == DevOK /\ CallOK /\ PlaceOK

(* Mutual exclusion, at the files: while a file open for writing is locked *)
(* no other file of the device is locked.  Holds however the handlers      *)
(* interleave and however files are shared, as long as none is open for    *)
(* both reading and writing.                                               *)
ExclusiveLock ==
  \A f, g \in Files : locked[f] /\ locked[g] /\ f # g => ~Writable(f) /\ ~Writable(g)

(* A request whose lock is still to be granted; the ticket of one that is  *)
(* past its write grant (the "r" block of an O_RDWR file) is spent.        *)
Live(p) == pc[p] # "user" /\ (side[p] = "w" \/ ~Writable(file[p]))

(* Ticket accounting: no number between the served ticket and the next one *)
(* is lost.  Each belongs to exactly one waiting request or is on the      *)
(* terminated list, and not both; no waiting request has been passed over. *)
(* Without this the lock hangs at a number nobody answers to.              *)
TicketsAccounted ==
  /\ \A n \in ticket_tail..(ticket_head - 1) :
        n \in terminated <=> ~\E p \in Procs : Live(p) /\ ticket[p] = n
  /\ \A p \in Procs : Live(p) => ticket_tail <= ticket[p] /\ ticket[p] < ticket_head
  /\ \A p, q \in Procs : Live(p) /\ Live(q) /\ ticket[p] = ticket[q] => p = q

(* The request first in line: no live ticket is smaller. *)
FirstInLine(p) == Live(p) /\ \A q \in Procs : Live(q) => ticket[p] <= ticket[q]

Asleep(p) == pc[p] = "sleep" /\ p \in wq

(* No lost wake-up: when nobody holds the lock and no handler is running,  *)
(* the request first in line is not asleep (terminate_ticket and the grant *)
(* of a lock wake nobody, so this rests on the order of the releases).     *)
FirstInLineAwake ==
  can_write /\ bkl = NoProc => \A p \in Procs : FirstInLine(p) => ~Asleep(p)

Rdwr(f) == Writable(f) /\ Readable(f)

(* A process that waits for the lock does not hold it, or it would wait    *)
(* for itself (the EDEADLK tests are there to rule this out): inside a     *)
(* request it never is the writer, and past the reader test never a        *)
(* reader.  A request on an O_RDWR file does wait for itself.              *)
WaiterHoldsNothing ==
  \A p \in Procs : ~Rdwr(file[p]) =>
    /\ pc[p] # "user" => writer # p
    /\ pc[p] \notin {"user", "check", "try"} => p \notin readers

(* The device's account of its locks agrees with the files': the counter   *)
(* counts the list, a writer excludes readers, each locked read-only file  *)
(* has a reader to its name, and a locked writable file has the writer.    *)
ReadLocked == {f \in Files : locked[f] /\ ~Writable(f)}
LockAccounting ==
  /\ num_readers = Cardinality(readers)
  /\ writer # NoProc => num_readers = 0
  /\ Cardinality(ReadLocked) <= num_readers
  /\ \A f \in Files : locked[f] /\ Writable(f) => writer # NoProc
  /\ \A f, g \in Files : locked[f] /\ locked[g] /\ Writable(f) /\ Writable(g) => f = g

(* Closing every descriptor frees the lock, whoever closed them. *)
AllClosedFree == (\A f \in Files : fds[f] = {}) => can_write

(* A request that is refused, or interrupted, does not leave its process   *)
(* holding the write lock (on an O_RDWR file it may: the first block has   *)
(* taken it when the second refuses).                                      *)
RefusedIsNotWriter ==
  [][\A p \in Procs : pc[p] \in {"try", "intr"} /\ pc'[p] = "user" /\ ret'[p] # "0"
        => writer' # p \/ Rdwr(file[p])]_vars

(* Requests are served in order: a request that gets its lock overtakes no *)
(* request that took a ticket earlier and still waits.                     *)
GrantedInOrder ==
  [][\A p \in Procs : (writer' = p /\ writer # p) \/ p \in readers' \ readers
        => FirstInLine(p)]_vars

(* Every call returns, provided holders release: a waiting request is      *)
(* eventually granted or refused.                                          *)
EveryCallReturns == \A p \in Procs : pc[p] # "user" ~> pc[p] = "user"

-----------------------------------------------------------------------------
(* The lock as its users see it: the requests that wait and, for each, the *)
(* ones with a smaller ticket.                                             *)
Waiting  == {p \in Procs : Live(p)}
Ahead(p) == IF Live(p) THEN {q \in Waiting : ticket[q] < ticket[p]} ELSE {}

Fair == INSTANCE FairRWLock WITH
          waiting <- Waiting, kind <- side, ahead <- [p \in Procs |-> Ahead(p)]

(* The ticket protocol implements the fair reader/writer lock: the skipped *)
(* tickets, the sleeps and the wake-ups are invisible to its users.        *)
ImplementsFairLock == Fair!Spec
=============================================================================
