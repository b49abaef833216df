# A verification project for the CS111 lab systems

The repository holds six small systems that share no code: a Linux ramdisk driver with an
advisory lock, two teaching kernels (MiniprocOS, SchedOS), a Linux file system, a peer-to-peer
file exchanger and a shell.  This directory models them in TLA+, one family of modules per
system, checks the models with TLC and proves the most important results with TLAPS.

## 1. Inventory

| System | Source | State | Operations | What is hard |
|---|---|---|---|---|
| Ramdisk lock | `RAMDisk/osprd.c` 162-615 | `ticket_head`, `ticket_tail`, `terminated_tickets`, `num_readers`, `readers`, `writer`, `blockq`, `F_OSPRD_LOCKED` of each open file | open, close, ACQUIRE, TRYACQUIRE, RELEASE | handlers of several processes, sleeping and waking, signals, files shared by fork, a condition with side effects evaluated outside the mutex |
| Ramdisk data | `RAMDisk/osprd.c` 122-156, 605-813 | the sector array | read and write requests | addressing |
| MiniprocOS | `weensyos1/mpos-kern.c` | process table, `p_state`, `p_wait`, stacks | getpid, fork, yield, exit, wait, newthread, kill | slot reuse, waiters of exited processes, waiting in a cycle |
| SchedOS | `weensyos2/schedos-kern.c` | process table, priorities, shares, scheduling algorithm | yield, exit, setpriority, setshare, print, clock interrupt | every scheduler loop must end; preemption inside the applications' spin lock |
| OSPFS | `File_System/ospfsmod.c` | bitmap, inodes, direct/indirect/doubly indirect blocks, directories | create, link, symlink, unlink, read, write, truncate, readdir | running out of blocks half way, the index arithmetic of the three block levels, link counts |
| OSPFS formatter | `File_System/ospfsformat.c` | block cache, next block and inode, hard-link list, image | getblk, putblk, storeblk, allocinode, allocdirentry, writefile, writedirectory, finishfs | a block thrown out of the cache while somebody points into it, block boundaries, the depth of the host's directories |
| P2P peer | `P2P/osppeer.c` | task buffers, tracker connection, files on disk | register, download, upload | ring buffer with unbounded positions, forked children sharing a connection, retries with the next peer |
| Shell | `Shell_Interpreter/` | lexer state, token stream, command tree, descriptors, child processes, log | tokenize, parse, execute | what a newline means depends on what the lexer remembers; which token belongs to which command; descriptor inheritance across forks, end-of-file on pipes, the status of compound commands |

The components do not interact across systems.  Inside a system they interact by procedure
call (file system, kernels), by shared memory and wait queues (ramdisk), by fork and inherited
descriptors (peer, shell).  `PROJECT.json` lists every component and, under "hazards", what can
go wrong at which line.

## 2. Plan

In the order of importance; each step adds modules, runs, hazards and theorems.

1. Ramdisk lock: `OsprdLock`, `FairRWLock` (abstract), `MCOsprdLock`, `OsprdLockProofs`,
   `OsprdSerialProofs`.  Done, with every safety property and the refinement
   proved; left: ticket wrap at 2^31, sector addressing.
2. MiniprocOS: `MposKernel`, `MposApp2`, `MposProofs`.  Done, with every safety property proved.
3. SchedOS: `SchedOS` with the five algorithms, clock interrupts and the applications,
   `SchedOSProofs`.  Done.
4. OSPFS: `OspfsBlocks`, `Ospfs`, `OspfsProofs`, and the formatter, `OspfsFormat`.  Done, with
   every safety property of the module proved; left: the text of symbolic links
   (it keeps the tail of a longer one), a writer that sleeps in `copy_from_user`, proofs about the
   formatter's cache.
5. P2P peer: `OspPeer`, `OspPeerProofs`.  Done, with every safety property proved.
6. Shell: `ShellParse`, `ShellGrammar`, `ShellExec`, `ShellMeaning`, `ShellProofs`.  Done, with
   `CleanBetween` and `LogSound` proved; parsing and meaning stay with TLC.

## 3. Ramdisk lock

### What the modules say

`OsprdLock` models `osprd_ioctl`, `osprd_open` and `osprd_close_last`.  The device structure is
six variables with the names of its fields; the locals of a running call (`file`, `ticket`) and
its position (`pc`, and `side` for which of the two blocks runs) are functions on processes.

| Action | Code |
|---|---|
| `Acquire`, `TryAcquire` (both `TakeTicket`) | the first critical section: take a ticket, refuse if this process is the writer |
| `Check` | the search of the reader list that opens each ACQUIRE block |
| `Loop` | one turn of `while (1)`: test under the mutex, take the lock (`Grant`) or go and wait |
| `EvalLock`, `EvalWalk`, `EvalStore` | the condition of `wait_event_interruptible`, evaluated without the mutex: the lock test, then one list node per step, then the increment of `ticket_tail` as a step of its own |
| `CondTrue`, `CondFalse`, `Resume`, `Signal` | the kernel's side of the wait: queue, evaluate again, sleep, wake |
| `Interrupted` | -ERESTARTSYS: terminate the ticket |
| `Try` | the single critical section of a TRYACQUIRE block |
| `Release`, `Close` (both `Unlock`) | give the lock back, wake everybody |
| `Open`, `Fork` | a new open file, a second process sharing one |

Abstractions.  The reader list and the sorted list of terminated tickets are sets (a process is
on the reader list at most once; a duplicate ticket on the list changes nothing for
`can_run_ticket`, which only compares).  `can_write` reads two fields without the mutex; the
model reads them in one step.  The critical sections are atomic: exact on a uniprocessor (the
spin lock disables preemption), and on a multiprocessor except that the unlocked increment could
also fall inside a locked section.  Reading `curr->next` just after `kfree(curr)` (lines 212,
586) is taken to yield the old pointer.  Tickets stay below 2^31, `kmalloc` succeeds, the
command is one of the three.  A process does not close a descriptor while it is inside a call on
it (no threads).

`SerialIoctl` says which kernel runs the driver.  TRUE: one ioctl handler at a time up to
`schedule()`, which is the case on a uniprocessor without kernel preemption and on kernels that
call `->ioctl` under the big kernel lock (the 2.6 kernels this driver is written for);
`osprd_close_last` is not an ioctl and always interleaves.  FALSE: only `d->mutex` orders the
handlers.

`FairRWLock` is what the comment of OSPRDIOCACQUIRE promises: one writer or several readers,
granted in the order of arrival.  No tickets, no sleeping.  `ImplementsFairLock` maps the waiting
requests and, for each, those with a smaller ticket.

### What the runs check

All instances have 2 or 3 processes and files, 2 to 4 tickets (`MaxTickets`), any number of
opens, closes, forks, releases, and a signal at any point of an ACQUIRE.  Three processes are a
holder, a waiter and one that arrives, is refused or is interrupted; three tickets are enough for
a terminated ticket between two live ones.

| Run | Kernel | Files | Result |
|---|---|---|---|
| `osprd_serial` | serial, fair | two writers, one reader | ticket accounting, no lost wake-up, order, refinement of `FairRWLock`, every call returns |
| `osprd_preempt` | mutex only | a reader file shared by fork, a writer, an O_RDWR file | exclusion; nobody waits for its own lock except on the O_RDWR file; a refused request does not become the writer |
| `osprd_shared_close` | serial | shared reader file | violated: the lock leaks when another process closes last |

With `SerialIoctl = FALSE`, `GrantedInOrder` (five tickets) and `EveryCallReturns` do not hold
either: two unlocked walks of `can_run_ticket` increment the tail for the same terminated ticket
and pass a waiting request, and a request interrupted after it moved the tail wakes nobody.  A
read grant wakes nobody, so a second reader whose turn has come sleeps until the next release.

Fairness (`Fairness`): the scheduler runs every process that can run (weak fairness of
`Kernel(p)`), and a process that holds a lock releases it (weak fairness of `Unlocks(p)`); the
second is an assumption about the clients, without which no lock is live.  No fairness is assumed
of arrivals, signals, opens or closes.

### What is proved

`OsprdLockProofs`, for every finite set of processes and files, every bound and either kernel:

* `TypeCorrect`: `TypeOK` is invariant.
* `NoSelfDeadlock`, `RefusalLeavesNothing`: `WaiterHoldsNothing` and `RefusedIsNotWriter`, with no
  condition on modes or sharing.  `HoldInv` adds to the first that only requests for the write
  lock are in the write block.
* `MutualExclusion`: without O_RDWR files (`NoRdwr`), `ExclusiveLock`.  It is not inductive:
  exclusion is about the files' flags while the code tests the device's fields.  `LockAccounting`
  ties them together: the counter counts the list, a writer excludes readers, there are at most as
  many read-locked files as readers, at most one locked writable file and only with a writer.  The
  inequality is what survives a close by the wrong process.  The accounts are kept as long as
  `GrantFits`: only requests for the read lock are granted it.

`OsprdSerialProofs`, with `SerialIoctl` (needed, see above):

* `TicketsNeverLost`: every number from tail to head belongs to exactly one waiting request or is
  terminated.  `TicketInv` adds that the tail never passes the head, that a request past its
  write grant holds a ticket below the tail, that awake handlers are alone, and that between
  comparing and incrementing the tail still is the terminated ticket compared.
* `ServedInOrder`: the action property `GrantedInOrder`, from the same invariant.

And there, with `SerialIoctl` except where it says otherwise:

* `SerialExclusion`: `ExclusiveLock` with O_RDWR files too.  `TicketInv` gives `GrantFits`: the
  write grant has spent the ticket with which the read block would be granted.
* `NoLostWakeup`: `FirstInLineAwake`.  A grant and a terminated ticket wake nobody, so what keeps
  the first in line from sleeping is how it got there.  `WalkInv` says what a walk of
  `can_run_ticket` has seen; `Awake` adds that while an interrupted request is still first in
  line and the lock is free, everybody is awake.
* `ClosingFrees`: `AllClosedFree` if no two processes share a file (`PrivateFiles`; the run
  `osprd_shared_close` shows it is needed), in a serial kernel or without O_RDWR.  `OwnInv`: every
  holder has a locked file of its own, and one only.
* `ImplementsFair`: the specification implements `FairRWLock` under the mapping of
  `ImplementsFairLock`, for private files without O_RDWR.  `MapInv` collects the invariants above.
  Each action is shown to be one abstract step or none: `Grant` and `Try` take the abstract lock,
  `Unlock` gives it back, arriving and leaving the line are the abstract request and withdrawal,
  the rest stutters.

Liveness (`EveryCallReturns`) is checked by TLC only.

## 4. MiniprocOS

`MposKernel` has one action per system call of `interrupt()`; the fields of `proc_array` are
functions on slots with the names of the fields.  `schedule` and the ends of `exit` and `do_kill`
choose `current`, the process whose next call is taken.  `Spin` is the endless loop of
`schedule()` when nothing is runnable.  `parent` and `handed` are history variables.  Stacks and
start addresses are left out: the kernel copies them (the stack in the wrong direction, line 427;
a thread's address from an uninitialized register) and never looks at them.

`MposApp2` runs `mpos-app2.c` on it: process 1 forks until the table is full, waits for slots 2,
3, ..., and again until 1025 children have run.

| Run | Instance | Result |
|---|---|---|
| `mpos_kernel` | 3 slots, waits for own children, any kill | only runnable processes run, no forgotten waiter |
| `mpos_app2` | 15 slots, 1025 children (the real sizes) | the application ends; each status is collected once |

Three usable slots are a waiter, the process it waits for, and one that reuses a slot or waits as
well.  Deadlock is not checked: `Spin` is how this system stops.  Fairness of `mpos_app2` is weak
fairness of the whole step: the processor keeps executing.

Differences from `mpos-app.h` that the model shows, from lines 187-215, 277 and 358: a wait can be
answered by the end of another process, one that reuses a slot with the waiter of its predecessor;
a zombie's status can be collected twice and its slot is never freed (line 210 compares instead of
assigning); a second waiter displaces the first; a stale waiter that has itself exited is run
again; a process may kill itself, and a refused kill returns its argument, not -1.

`MposProofs` proves, for every `NPROCS`, `RunsOnlyRunnable` (from `Table`: types, slot 0 empty,
nobody waits for itself, `RunsRunnable`; the lemmas on `schedule` use the least element of a set
of naturals, `NatMin`) and, for parental waits, `NoWaiterForgotten`.  Its inductive
strengthening `WaitInv` adds that a blocked process is the parent of the one it waits for: that is
why no second waiter can displace it and why a stale `p_wait` can only name the same parent.

About the application, for every size of the table and every number of children (`Total`):

* `AppOnKernel`: `AppSpec => Spec`, the application is one of the clients the kernel's theorems
  speak of, so both hold of it.
* `StatusesOnce`: the action property `EachStatusOnce`.  `AppInv` says where the loops of process 1
  are: in the forking loop the slots up to the last one forked hold runnable children and the others
  are empty; in the reaping loop those from `next` on do; or process 1 is blocked and the one child
  that runs is the one it waits for.  And a `p_wait`, stale or not, names nobody but process 1.

## 5. SchedOS

`SchedOS` models the kernel and its applications together.  `schedule(st)` is called with the
process states after the system call and sets `current`; each of the five algorithms is an
operator of its own (`RoundRobin`, `LowestPid`, `Priority`, `ShareTurn`, `QueueTurn`).  Algorithm
4 switches `scheduling_algorithm` to 0 or 1 for one recursive call and back, so between calls it
is constant; the value is picked in `Init`, as is the build of `schedos-1.c` (spin lock or
`sys_write`).  An application is the steps between which a clock interrupt can come: the swap of
the lock, the load of the cursor, the store of the character and the store of the cursor moved on
(in either order, which C leaves open), the release, the yield.  A failed swap changes
nothing.  An application may start with one `sys_set_*` call.

Run `schedos`: 3 applications, 2 characters each, levels -1, 1 and 2 besides the initial ones
(below, above, and an invalid queue number).  Two characters make every application contend for
the lock, yield and come back.  It shows

* `StopsWhenAllExited`: algorithms 0, 1 and 4 come to an end only when all have exited, or, for 4,
  when a queue number is invalid;
* `BestIsChosen`: what priorities and queues guarantee (shares guarantee little: with algorithm 3
  only process 1 ever runs, since shares start at 0);
* `OneInside`, `NothingLost`: the spin lock and the cursor under preemption;
* `AllFinish`: under fair clock interrupts everybody finishes with algorithms 0 and 1, and with
  algorithm 4 when the kernel prints.  With the spin lock and algorithm 2 or 4 a process that
  lowers its own level keeps the CPU (`run(current)`), takes the lock, is preempted and never
  chosen again, while the process chosen spins: priority inversion.

Run `schedos_priority` expects a violation of `SpinsOnlyWithoutRunnable`, the comment on `schedule()`
("It picks a runnable process [...]  If there are no runnable processes, it spins forever"): algorithm 2 hangs
at the first exit, because the loop at line 252 tests `pid` and advances `i`.  With
`Algorithms = {3}` in `SchedOSPriority.cfg` TLC refutes the same property: algorithm 3 hangs at once if
the clock ticks before a share is set, and whenever no runnable process has a positive share (line 282).

Fairness: the clock ticks (weak), and a process that is given the CPU again and again executes an
instruction now and then (strong fairness of its step; a quantum is a millisecond).

`SchedOSProofs` proves, for every size of the table, every `RUNCOUNT` and all five algorithms:

* `SchedulingGoesOn` (`StopsWhenAllExited`) and `PrioritiesRespected` (the action property
  `BestIsChosen`), from `KernOK`: types, the slot 0 unused, and `StopsWhenAllExited` itself.  For
  each algorithm a lemma says what its search finds (`Scheduled`); the cyclic searches need that
  the least distance from `current` is attained (`NatMin`).
* `SpinLockExcludes` (`OneInside`) and `NoCharacterLost` (`NothingLost`), from `AppInv`: `LockOK`,
  the lock is 1 exactly when one process is between its swaps; `ScreenOK`, as many cells from the
  first on are in use as characters were printed (`Drawn`), each process having its share of them;
  `CursorOK`, the cursor is `Drawn` but while a process is between its two stores, and the register
  of a process inside says where its character belongs.  That printing never leaves the screen
  needs the count: the characters printed are among `NPROCS - 1` times `RUNCOUNT`.

`AllFinish` is liveness and left to TLC.

## 6. OSPFS

`OspfsBlocks` is the disk: the inode table, the free-block bitmap (`free`), the contents of every
block read as pointers (`word`), and, in place of file contents, the file whose data a block holds
(`tag`; 0 once it is erased).  `add_block` and `remove_block` have one operator for each place a
pointer can be in.  `change_size` runs for the operation in `call`, one turn of its three loops a
step: `Grow`, `Undo`, `Shrink`; `Broken` is its -EIO return.  `add_block_fails` is the -ENOSPC
path: the disk had fewer blocks than `missing`, so the code took and erased all of them and gave
them back.

`Ospfs` adds the directory (`dirents`), the open files, `nwrites_to_crash` and the operations.
What an operation does before `change_size` is its own action, what it does after is `Return`
(`enter` for link, create and symlink).  A read changes nothing: `ospfs_read` is an operator, and
`ReadsExactly` compares it with what a read should return.  So is `ospfs_dir_readdir`; `Reading`
follows a reader with a buffer of any size through the directory.  An operation that finds the crash
counter at 0 changes nothing and is no step.

Abstractions: one directory; names of at most two characters, since two are enough for the
tail that `memcpy` without a terminating 0 leaves; sizes modulo `WRAP` instead of 2^32; a failing
`copy_to_user` or `copy_from_user` and -ENOMEM are left out; dentries are looked up anew, as
`ospfs_delete_dentry` makes Linux do.  Operations do not interleave: the kernel is not preemptible
and they do not sleep, except for a page fault in `copy_from_user`, which is not modelled (see the
hazard).  `StaleSymlink = FALSE` excludes that a symlink is given the inode of an unlinked file
that is still open: a truncation would then free the blocks that the symlink's text names, and the
accounting fails.  `lost` and `far` are history variables.

| Run | Instance | Result |
|---|---|---|
| `ospfs` | 2 files, 2 names, 6 data blocks, 1 direct and 2 indirect pointers, sizes 0, 3 and 6 (2 to a block), one entry to a directory block | block accounting, file shape, link counts, reads, directory listings, and that an operation returns if what it makes fits |
| `ospfs_promises` | 1 file that grows to 5 blocks, 7 data blocks | violated: three promises of the comments are broken in one behaviour |

The bounds.  Six blocks hold two files of two blocks, or one of three and a directory of two, so
that every failure of `add_block` happens, also in the middle of growing the directory; three
blocks a file reach the indirect block and fill it; size 3 leaves half a block.  With 2 pointers
in an indirect block the fourth block of a file is the first past it.  `CHECK_DEADLOCK FALSE`: after the
simulated crash with no file open and no name to look up nothing may be left to do.

Fairness: an operation that has begun goes on.  No caller has to begin one.

`SomePromiseKept` is a disjunction, `AlwaysReturns \/ []EveryByteHasBlock \/ []ListedOnce`, of
what three comments promise, so that a counterexample refutes each of them.  In the one TLC finds, a
reader with room for one entry is never given the second (`ListedOnce`: `f_pos` is advanced whatever
`filldir` returned, line 510); a file grows to five blocks, and the pointer of its fourth is stored over that of its second
(`EveryByteHasBlock`, line 797); and when the disk is full `change_size` gives back what it took and
tries again for ever (`AlwaysReturns`, line 1067).  Each alone is violated in the same instance.

What the comments do not say and the runs show: a read past the end fails with -EIO; a file that
is written to after its last unlink keeps blocks that the next `create` loses (`lost`); truncation
goes on after the simulated crash.  `ListedInOrder`, which passes, is what a reader of the directory
can rely on: the end is reached, nothing is listed twice or out of order, no blank entry is, and a
buffer for the whole directory is given all of it.

### What is proved of the module

`OspfsProofs`, for every disk size, number of inodes, directory entry size and block geometry:

* `LinksAreCounted` (`LinksCounted`), without a condition.  `LinkInv` adds what an operation in
  the middle of `change_size` still owes the directory: a link's inode still has its entry, and
  `unlink` has already taken both back.
* `DirectoryListed` (`ListedInOrder`), without a condition, for directories and buffers of every size.
* With `~StaleSymlink`, and for files of any size, past the indirect block too: `TypesHold`
  (`TypeOK`), `BlocksNotShared` (`NeverShared`), `NoForeignBytes` (`NoForeignData`).
* With `~StaleSymlink`, while no file is past its indirect block: `FilesInShape` (`FileShape`),
  `NoBlockLeaks` (`AllAccounted`), `ReadsWhatIsThere` (`ReadsExactly`).

The argument.  `Pts` and `Has` say of one inode what `Pointers` and `Owned` collect in a set
(`PointersAre`, `OwnedAre`).  `FsInv` is inductive: `Separate` is `NeverShared` in these terms;
`TagsOK`, `OpenOK` and `CallOK` say what the operations rely on.  Under the doubly indirect block
`add_block` and `remove_block` store and free pointers in the wrong place, and yet nothing is
shared: `Rewires` describes what any of them does to one inode (new pointers go to blocks that
were free, each to another; what is freed is no longer pointed to), and that keeps `Separate`.
`Counted` is why the pointers suffice: a file has no more blocks, by its size, than there are
blocks neither free nor another's (`Away`), so that while a block is free the size is below
`MAXFILEBLKS` and the indices stay in range, although a file may have lost sight of its blocks.
`ShapeInv` is `FileShape` and `AllAccounted` with two facts they need: the first block of the root
directory is `BORDER`, which `free_block` refuses to free, and stays; and `lost` holds data blocks
only.  `Gained` and `Spared` are what `add_block` and `remove_block` do to a file of that shape;
`Sheds` is what the other operations do.

`DirectoryListed` needs no more of the state than that the directory is a sequence of entries
(`LinkInv`); its argument is about two recursive functions, the loop of `ospfs_dir_readdir` and the
calls in a row.  `LoopExists` and `CallsExist` show that their equations have a solution, by a
least counterexample (`MinNat`) instead of an induction scheme.  `ReadOK` is what the loop does from
a position on (it lists or drops what is in use up to where it stops) and goes back from the last
position to the first; `CallsOK` is what `k` calls did and goes up with `k`.  A call that runs out of room
has listed `room` entries and moves on, never to stop at position 2: so one call per position is enough to end.
That a large enough buffer loses nothing is a count: the dropped entry and the
`room` listed before it are different positions in use.

The assumptions: `BlocksAssumption` (sizes well below 2^32 for every block there is, 2^32 a
multiple of the block size), `DiskAssumption` (no more blocks than a file's pointers lead to:
`ospfsformat` makes at most 8192, and a file has up to 65802), `SizesAssumption` (Linux refuses
negative sizes and positions), `FirstFileAssumption` (the disk has a block for its one file),
`EntryAssumption`, `NamesAssumption`, `CountsAssumption`.

### The formatter

`OspfsFormat` is `ospfsformat.c`.  The record `fs` is the program's memory and the disk: the cache
with `bno`, `type`, `busy`, `used` and the block of each slot, `nextb`, `nextinode`, the hard links.
`getblk`, `putblk`, `storeblk`, `allocinode`, `allocdirentry`, `writefile`, `addsymlink`,
`writesymlink`, `opendisk`, `finishfs` and `flushdisk` are operators from one such record to the
next; a pointer to an inode is a slot of the cache and an index, and is followed through whatever
the slot holds by then.  `abort()` makes `ok` FALSE for good.  The walk of `writedirectory` is the
state machine, with its recursion in `stack`: `Open`, `WriteFile`, `WriteSymlink`, `PassOver`,
`EnterDirectory`, `LeaveDirectory`, `Finish`.  `addname` is what `writefile` and `addsymlink` do
alike.

Blocks are functions from cells to values, absent cells being 0.  The host is little-endian
(`swizzle` changes nothing; `getblk` would swizzle a block by the type its slot had before), its
files can be read and do not change, their inode numbers fit in the `uint32_t` of `struct Hardlink`, MD5 tells contents apart, the source of a `-l` link fits
(`addsymlink` does not check it), a file given by name is a regular one.

Run `ospfs_format`: nine hosts (files that end on, before and after a block boundary, at the
largest size and beyond; hard links across directories, equal files, links of links; nested
directories with entries after each; a directory into its doubly indirect block; a name too
long; what is passed over), with and without `-c` and `-l`, on disks of 12 to 30 blocks, 4 to 14 inodes and caches of 6
to 12 slots, with 1 direct and 2 indirect pointers: small enough that blocks are thrown out all the
time, every way to give up is met, and every host fits somewhere.  `CHECK_DEADLOCK FALSE`: the
program ends.

* `ImageHoldsTree`: the image, read the way the file system module reads it, is the tree asked
  for, with the right sharing of inodes and link counts.
* `ImageAccounted`: every block has one place, and the free map marks exactly the others.
* `FormatsIfFits`: it gives up only for want of blocks (one more than it keeps, see line 505),
  inodes or cache slots (6 and 2 for each level of directories; there are 16), or for a name or
  file too long.  A name too long is not reported: `allocdirentry` returns a null pointer that its
  callers write through.

## 7. P2P peer

`OspPeer` is one peer: `main` and the children it forks, over the directory, the connection to the
tracker, and the tracker's lists (external).  A child is a record with the fields of its `task_t`;
data is counted in units numbered in the order they were sent.

| Action | Code |
|---|---|
| `MainWant`, `MainReply`, `Refused`, `ForkDownload`, `NoForkDownload` | the argument loop of `main` with `start_download`; `NoForkDownload` is a failing `fork` |
| `Connect`, `OpenDisk` | `task_download` up to the transfer: a peer that is this one, refuses or sends; one name tried per step with O_EXCL |
| `Transfer` | one round of the loop: read, sample the rate, limit the size, write (`Save`), or the end of the file |
| `TryAgain` | the label `try_again`: unlink, `task_pop_peer`, call again |
| `Announce`, `Announced` | HAVE and its answer on the connection all children share |
| `task_listen`, `Reap` | the accept loop and its `wait` once `num_req` passes the limit |
| `Request`, `Send` | `task_upload`: the request, one round of writing and reading |

`room`, `ready`, `read_to_taskbuf` and `write_from_taskbuf` are the circular buffer: positions that
only grow, taken modulo the size.  `read` and `write` move any amount from 1 to what is asked for.
`read_tracker_response` takes any number of the lines that have arrived, also another process's.

Run `osppeer`: one instance with two downloads of the same file at once (from `p`, up to 3 units,
and `q`, up to 6; the limit is 3, the buffer 2), where one of the names the second could take
exists; one that asks for a file only
it has and one nobody has, with three uploads of a four-unit file and a limit of two requests.  Three units go round
the buffer, six pass the limit, three names let the search skip a name and find the next.

* `SavedWhole`: what is saved is all that was sent, in order; uploads send the file or its beginning.
* `OwnFilesOnly`: failed attempts leave nothing, nobody removes a file that is not its own.
* `HaveIsTrue`: the tracker lists this peer only for files that are here and not being written.
* `UploadsBounded`: the limit on uploads, less the downloads whose end `wait` took for an upload's.

Bounds, kept small for TLC: MAX_FILE_SIZE, TASKBUFSIZ, 50 names (`MaxNames`), 100 requests
(`MaxRequests`), MAX_SAMPLES.  `CHECK_DEADLOCK FALSE`: a process whose reply another has read waits
for ever, and when all uploads have come nothing is left to do.

What no property covers.  The connection shared with the tracker loses replies: `main` can read a
child's "200" together with its own peers, or a child all of them; the model takes these steps and
the properties hold in spite of them, but no property can say that a reply reaches its asker.
With `DescriptorsRunOut = TRUE`, `OwnFilesOnly` fails: `open` fails with EMFILE, and `try_again`
removes a file of that name that another process made.  A peer that sends nothing, and asks for
files the tracker does not list, are left out, as are the `-b` modes.

`OspPeerProofs` proves the four properties for any number of arguments, uploads, peers and names
and any buffer:

* `UploadLimit` (`UploadsBounded`), whatever `open` does.  `CountInv`: the children alive are at
  most `num_req` less one, and one more for each download that `wait` returned in place of an
  upload.
* `TransfersWhole` (`SavedWhole`), `FilesKept` (`OwnFilesOnly`) and `HavesAreTrue` (`HaveIsTrue`)
  with `~DescriptorsRunOut`, from `PeerInv`.  `Ring` is what makes the circular buffer a queue: the
  cells from head to tail, modulo the size, hold the units of the source from head to tail, so
  positions that only grow stay within one buffer of each other.  `FilesOK` gives every name on
  the disk one owner, the child that opened it with O_EXCL, until it is saved; `HaveOK` says that
  what is announced, or on its way to the tracker, is saved.

`InputAssumption`: arguments and lists name files and peers, and before it registers the tracker
does not list this peer.

## 8. Shell

### Tokenizer and parser

`ShellParse` turns a text into commands the way the program does: `lexer_putchar` character by
character over the lexer's static variables, `parse` and the `magical_*` parsers by their scans for
the last `;` or `|` outside a compound command and for the `then`, `else`, `fi`, `do`, `done`, `)`
of the command at hand, and the loop of `make_command_stream`.  A text is a sequence of lexemes, a
word being one.  Past the last token the parser reads memory fresh from the system, where 0 is
`TOK_IF`.

`ShellGrammar` is the reference, written without looking at how the parser goes about it: the
lexemes that count, where a newline is needed or allowed, and a grammar of lists, pipelines and
elements.  `ParsedRight` says that the two agree, on the tree and on what is refused, for every
text whose layout is `Plain`.

Not `Plain`, because the program reads these differently from the grammar: a newline after `else`
(`is_reserved` leaves it out; RoyXiaTests/test-1a-ok-compound.sh:63 is refused); a script that
begins with an operator (`strchr` finds the `'\0'` of `last_c`; test-1a-ok-subshell.sh:26 on its
own is refused); a blank or comment between `|` and a newline; a comment or an empty line inside a
compound command after a `;` or newline; any token taken as a file name after `>` and a blank; a
last line of a single token, which is dropped.

### Executor

`ShellExec` runs what the parser makes of a text, or with `-t` only prints it.  The parser is its
constant `Parsed`; the run puts `make_command_stream` of `ShellParse` in its place, the proofs
assume of it only `WellFormed` (`ScriptAssumption`): subcommands of the number their type wants,
which the parser's constructors guarantee, at least one word in a simple command, and redirections
where the grammar has them.  TLC
evaluates the assumption on every text of the run.

A process is a record: its state, parent, descriptor table, the
status of every command of the tree (each process has its own copy after `fork`), and a stack of
frames, one for each active `execute_*` call, with its local variables.  A child's memory is its
parent's at the fork; a program replaces it.

| Action | Code |
|---|---|
| `Enter` | the two `open`s at the top of `execute_subshell`, `_if`, `_while`, `_until`, `_simple` |
| `execute_sequence` ... `execute_simple` | the function of that name, one disjunct per stretch between two calls of something that blocks or recurs |
| `StartChild`, `ChildExit` | what a child of a pipeline closes; `exit(command_status(...))` |
| `ForkFails` | `error(1, 0, "Fatal Error: Failed to fork")` |
| `LogLine`, `LogNewline`, `NoLog` | `write_log`: lock, line, newline, unlock; `can_write` |
| `MakeStream`, `ReadCommand`, `LastRead`, `MainReturns` | `make_command_stream`, the profile, which may not open; the loop of `main`, its log line and its result |

`Program` (external) is what scripts run: `emit` writes two units, `yes` never stops, `cat` copies,
`head` reads one unit, `hold` and `miss` succeed and fail some times.  Pipes, their ends in all
descriptor tables, SIGPIPE and end of file are modelled, since it is they that decide whether a
pipeline ends.  `ShellMeaning` is the reference: what a script means when its commands run one
after the other, as a recursive definition without processes.

Three corners of `main` and `execute_simple` are in the model as the code has them.  `main` ends with
status 1 when the profile cannot be opened (main.c:104).  With `-p` and a script without commands the
shell's own line goes to descriptor 0, because only `execute_command` sets `log_file`
(execute-command.c:152); the exit status then tells whether descriptor 0 took it (`LastRead`).  And
an `exec` that names no program, which the parser accepts, gives `execvp` a null pointer: it may
fail, and the process ends with status 127, or be the end of the process (`Fails`).

Run `shell`: eight scripts with every kind of command, one with a syntax error, one without any command and one with
`exec` on its own, with and without a profile for which the
disk has three lines of room, and at most one failing `fork`.  `PipeCap = 1` with `Emit = 2` makes
writers block; nested pipelines make descriptors pass through three generations of processes; 9
processes and 8 descriptors are never used up.  And some 2000 texts that are only parsed (`-t`):
each is one of a few scripts with nested compound commands, in which one lexeme is left out,
replaced or added; an edit moves every boundary the scans look for.

* `ParsedRight`: see above.
* `Outcome`: exit status and files are those of `ShellMeaning`, whatever the interleaving.
* `CleanBetween`: between commands `main` has no descriptor and no child left; scripts that
  redirect `:` (`ColonLeaks`) are excepted from the first half.
* `LogSound`: no line of the log is mixed with another's, and lost lines show in the exit status,
  as long as no `fork` has failed.  A shell process that cannot fork exits without waiting for the
  children it has (the left side of a pipeline); such an orphan may still lose its log line when
  `main` has written its own, and `main` then reports success.  The proof of `LogSound` led to this
  case; the script `Orphan` has it.
* `AllEnd`: every script ends and all its processes with it.

Fairness: weak fairness of a step of *some* process.  The kernel does not idle; that it is fair to
each process is not needed, because a process that is not run leaves the others blocked or done
(`yes` fills its pipe).  `CHECK_DEADLOCK FALSE`: a finished script is the end.

Known (see the hazards): `:` with redirections never closes them (line 442), which `ColonLeaks`
excepts; and a loop that runs a second time without its body running takes the body's status of the
first time (line 379), which the choice of scripts leaves out.

### What is proved

`ShellProofs`, for every set of well-formed scripts, every number of processes, descriptors,
failures and log lines, and every interleaving:

* `NothingLeftOpen`: `CleanBetween` is invariant.
* `ProfileSound`: the action property `LogSound`.

Neither is inductive.  `Inv` adds, in five parts:

* `TableOK`: every entry of the process table has a stack whose lowest frame, in `main`, is that of
  `main()`, whose other frames are of commands of the script, and whose frames below the top are at
  a call; a process that is not a shell has none.
* `Tree`, with three conjuncts.  `ChildrenAwaited`: a process that is not free is among the children
  its parent's top frame has still to wait for, so that a frame that returns has left nobody.
  `NoOrphans`: unless a `fork` has failed.  `Ranked`: there is a numbering in which parents come
  before their children; with it, if `main` awaits nobody then nobody else exists (`Alone`, by the
  least number).
* `DescriptorsKept`: beside stdin and stdout, each open descriptor of `main` is kept by exactly one
  frame of its stack (`Keeps`: the redirections of a compound or simple command between opening and
  return, the two ends of a pipe between `pipe()` and the parent's `close`s).
* `LogOK`: who is between its line and its newline has the lock; a line is lost only when there is
  no room left; and once `main` has written its own line after a loss, its `can_write` is false.

A step is of one of four kinds (`Moves`, `Forks`, `Reaps`, `Ends`), and what a kind does to the tree
is shown once (`MovesTree` ...).  Each action is then shown to be of its kind, to open or close
exactly what its frame keeps (`FdStep`, `Closes`) and, but for `LogLine` and `LogNewline`, to leave
the log alone.

## 9. Left to TLC, and left out

`PROJECT.json` lists 32 theorems; all but `AppOnKernel` state for every value
of the constants a property that a run checks on a small instance.  `tlapm` proves them from the named assumptions of the modules
that declare the constants, and TLC evaluates these assumptions on every run.  What is only
model-checked:

* liveness under fairness: `EveryCallReturns`, `AllChildrenRun`, `AllFinish`, `ReturnsIfFits`,
  `AllEnd`, and the violated `SomePromiseKept`;
* what recursion over a text or a tree computes, since the prover has no induction over data
  (a least counterexample replaces it where the recursion is over numbers): `ParsedRight`,
  `Outcome`, `ImageHoldsTree`, `ImageAccounted`, `FormatsIfFits`.
  The formatter's image is a fold over the host's tree, the parser and the meaning of a script are
  recursive over the text.

Not modelled, and why:

* Boot code, loaders, x86 support, console libraries: hardware set-up without state of its own.
* `osprd_process_request` and the set-up of the ramdisk module: one copy per request, at an offset
  of `req->sector` bytes (see the hazard); what it should do and what it does differ for every
  request but the first sector's, so no property of it holds.
* `osprdaccess.c`, the testers, `fsimgtoc.c`, `mkbootdisk.c`: tools that run to their end alone.
* MD5 (taken to tell contents apart), `alloc.c`, printing, and `old-parser.c`, which nothing calls.
* Mounting OSPFS, the text of symbolic links and the conditional ones; formatted I/O of the peer.
