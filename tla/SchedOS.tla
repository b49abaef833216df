------------------------------ MODULE SchedOS ------------------------------
(***************************************************************************)
(* The SchedOS kernel, WeensyOS/weensyos2/schedos-kern.c, with its five    *)
(* scheduling algorithms and clock interrupts, and the applications        *)
(* schedos-1.c to schedos-4.c, which print characters either with a system *)
(* call or under a spin lock (atomic_swap) of their own.                   *)
(***************************************************************************)
EXTENDS Integers, FiniteSets, FiniteSetsExt

CONSTANTS
  NPROCS,       \* size of the process table; slot 0 is never used
  Algorithms,   \* values of scheduling_algorithm to consider (0 to 4)
  Levels,       \* arguments of sys_set_priority, sys_set_share, sys_set_queue
  RUNCOUNT      \* characters each application prints

ASSUME SizeAssumption == NPROCS \in Nat /\ NPROCS > 1 /\ RUNCOUNT \in Nat /\ RUNCOUNT > 0
ASSUME LevelAssumption == Algorithms \subseteq 0..4 /\ Levels \subseteq Int

VARIABLES
  p_state, p_priority, p_share, p_share_runs, p_queue,  \* fields of proc_array
  scheduling_algorithm,
  current,      \* the running process; Spin once schedule() does not return
  locked_write, \* was schedos-1.c built with LOCKED_WRITE
  lock, cursorpos, screen,       \* shared memory
  at, i, reg    \* of each application: place, loop counter, register

levels == <<p_priority, p_share, p_queue>>
kern   == <<p_state, p_share_runs, current>>
memory == <<lock, cursorpos, screen>>
build  == <<scheduling_algorithm, locked_write>>
vars   == <<kern, levels, memory, build, at, i, reg>>

Slots == 0..(NPROCS - 1)
Pids  == 1..(NPROCS - 1)
Spin  == -1
Cells == 0..(RUNCOUNT * (NPROCS - 1) - 1)

-----------------------------------------------------------------------------
(* start().  The queue numbers are 0 for odd and 1 for even processes; the *)
(* memory at `lock` is never initialized and is taken to be zero.          *)
Init ==
  /\ p_state = [p \in Slots |-> IF p = 0 THEN "EMPTY" ELSE "RUNNABLE"]
  /\ p_priority = [p \in Slots |-> 0] /\ p_share = [p \in Slots |-> 0]
  /\ p_share_runs = [p \in Slots |-> IF p = 1 THEN 1 ELSE 0]
  /\ p_queue = [p \in Slots |-> IF p = 0 \/ p % 2 = 1 THEN 0 ELSE 1]
  /\ scheduling_algorithm \in Algorithms
  /\ current = 1
  /\ locked_write \in BOOLEAN
  /\ lock = 0 /\ cursorpos = 0 /\ screen = [c \in Cells |-> 0]
  /\ at = [p \in Slots |-> "start"] /\ i = [p \in Slots |-> 0] /\ reg = [p \in Slots |-> 0]

-----------------------------------------------------------------------------
(* schedule(), for the process states st.                                  *)
Runnable(st) == {p \in Pids : st[p] = "RUNNABLE"}
Live(st)     == {p \in Pids : st[p] \in {"RUNNABLE", "BLOCKED"}}

(* Mutant: the search ends at the end of the table. *)
Onward(pid, S, first) ==
  LET ds == {d \in first..(first + NPROCS - 1) : pid + d \in S}
  IN IF ds = {} THEN Spin ELSE pid + Min(ds)

(* The first member of S after (or from, when d starts at 0) process pid   *)
(* in cyclic order; a loop that finds none never ends.                     *)
Cyclic(pid, S, first) ==
  LET ds == {d \in first..(first + NPROCS - 1) : (pid + d) % NPROCS \in S}
  IN IF ds = {} THEN Spin ELSE (pid + Min(ds)) % NPROCS

(* Algorithm 0, round robin. *)
RoundRobin(st) == Cyclic(current, Runnable(st), 1)

(* Algorithm 1, the lowest process number first. *)
LowestPid(st) == IF Runnable(st) = {} THEN Spin ELSE Min(Runnable(st))

(* Algorithm 2, the smallest p_priority.  The loop that should skip an     *)
(* exited current process tests pid and moves i: it never ends.            *)
Priority(st) ==
  IF st[current] # "RUNNABLE" THEN Spin
  ELSE LET smallest == Min({p_priority[p] : p \in Runnable(st)})
       IN Cyclic(current, {p \in Runnable(st) : p_priority[p] <= smallest}, 1)

HasTurns(st) == {p \in Runnable(st) : p_share_runs[p] < p_share[p]}

(* Algorithm 3.  Starting with the current process, the first one with     *)
(* something left of its share runs; those passed over start afresh.       *)
ShareTurn(st) ==
  LET left   == HasTurns(st)
      second == {p \in Runnable(st) : 0 < p_share[p]}
      next   == IF left # {} THEN Cyclic(current, left, 0) ELSE Cyclic(current, second, 0)
      passed == {p \in Runnable(st) : left = {} \/ (p - current) % NPROCS < (next - current) % NPROCS}
      reset  == [p \in Slots |-> IF p \in passed THEN 0 ELSE p_share_runs[p]]
  IN /\ current' = next
     /\ p_share_runs' = IF next = Spin THEN reset ELSE [reset EXCEPT ![next] = @ + 1]
     /\ p_state' = st

(* Mutant: processes outside the current queue are not blocked. *)
QueueUnblocked(st, q) == [p \in Slots |-> IF p \in Live(st) THEN "RUNNABLE" ELSE st[p]]

(* What algorithm 4 makes of the states: the processes of queue q are      *)
(* runnable, the others blocked.                                           *)
QueueStates(st, q) ==
  [p \in Slots |-> IF p \notin Live(st) THEN st[p]
                   ELSE IF p_queue[p] = q THEN "RUNNABLE" ELSE "BLOCKED"]

(* Algorithm 4.  The smallest queue number among the living; round robin   *)
(* in queue 0, process number in queue 1, and any other number halts.      *)
QueueTurn(st) ==
  /\ UNCHANGED p_share_runs
  /\ \/ /\ Live(st) = {}
        /\ current' = Spin /\ p_state' = st
     \/ /\ Live(st) # {}
        /\ LET smallest == Min({p_queue[p] : p \in Live(st)})
           IN /\ p_state' = QueueStates(st, smallest)
              /\ current' = CASE smallest = 0 -> RoundRobin(p_state')
                              [] smallest = 1 -> LowestPid(p_state')
                              [] OTHER -> Spin

Pick(st) == CASE scheduling_algorithm = 0 -> RoundRobin(st)
              [] scheduling_algorithm = 1 -> LowestPid(st)
              [] scheduling_algorithm = 2 -> Priority(st)

schedule(st) ==
  \/ /\ scheduling_algorithm \in {0, 1, 2}
     /\ current' = Pick(st)
     /\ p_state' = st /\ UNCHANGED p_share_runs
  \/ scheduling_algorithm = 3 /\ ShareTurn(st)
  \/ scheduling_algorithm = 4 /\ QueueTurn(st)

-----------------------------------------------------------------------------
(* The applications.  A clock interrupt can come between any two steps.    *)
Top == IF locked_write THEN "try" ELSE "print"

Goto(p, place) == at' = [at EXCEPT ![p] = place]

(* An application may begin by setting the level its kernel looks at.      *)
SetLevel(p, v) ==
  \/ /\ scheduling_algorithm = 2
     /\ p_priority' = [p_priority EXCEPT ![p] = v]
     /\ UNCHANGED <<p_share, p_queue>>
  \/ /\ scheduling_algorithm = 3
     /\ p_share' = [p_share EXCEPT ![p] = v]
     /\ UNCHANGED <<p_priority, p_queue>>
  \/ /\ scheduling_algorithm = 4
     /\ p_queue' = [p_queue EXCEPT ![p] = v]
     /\ UNCHANGED <<p_priority, p_share>>

Start(p) ==
  /\ at[p] = "start"
  /\ \/ UNCHANGED levels
     \/ \E v \in Levels : SetLevel(p, v)
  /\ Goto(p, Top)
  /\ UNCHANGED <<kern, memory, build, i, reg>>

(* sys_write: the kernel stores the character and moves the cursor. *)
sys_write(p) ==
  /\ at[p] = "print"
  /\ screen' = [screen EXCEPT ![cursorpos] = p]
  /\ cursorpos' = cursorpos + 1
  /\ Goto(p, "yield")
  /\ UNCHANGED <<kern, levels, build, lock, i, reg>>

(* Mutant: the old value of the lock is not looked at. *)
LockUntested(p) ==
  /\ at[p] = "try"
  /\ lock' = 1
  /\ Goto(p, "load")
  /\ UNCHANGED <<kern, levels, build, cursorpos, screen, i, reg>>

(* atomic_swap(&lock, 1) that returns 0; while it returns 1 nothing        *)
(* changes and the application tries again.                                *)
Lock(p) ==
  /\ at[p] = "try" /\ lock = 0
  /\ lock' = 1
  /\ Goto(p, "load")
  /\ UNCHANGED <<kern, levels, build, cursorpos, screen, i, reg>>

(* *cursorpos++ = PRINTCHAR: load the cursor, then store the character and *)
(* the cursor moved on, in either order.                                   *)
Load(p) ==
  /\ at[p] = "load"
  /\ reg' = [reg EXCEPT ![p] = cursorpos]
  /\ Goto(p, "store")
  /\ UNCHANGED <<kern, levels, build, memory, i>>

StoreChar(p) ==
  /\ at[p] \in {"store", "put"}
  /\ screen' = [screen EXCEPT ![reg[p]] = p]
  /\ Goto(p, IF at[p] = "store" THEN "move" ELSE "unlock")
  /\ UNCHANGED <<kern, levels, build, lock, cursorpos, i, reg>>

StoreCursor(p) ==
  /\ at[p] \in {"store", "move"}
  /\ cursorpos' = reg[p] + 1
  /\ Goto(p, IF at[p] = "store" THEN "put" ELSE "unlock")
  /\ UNCHANGED <<kern, levels, build, lock, screen, i, reg>>

(* Mutant: the lock is not released. *)
UnlockForgotten(p) ==
  /\ at[p] = "unlock"
  /\ Goto(p, "yield")
  /\ UNCHANGED <<kern, levels, build, memory, i, reg>>

(* atomic_swap(&lock, 0). *)
Unlock(p) ==
  /\ at[p] = "unlock"
  /\ lock' = 0
  /\ Goto(p, "yield")
  /\ UNCHANGED <<kern, levels, build, cursorpos, screen, i, reg>>

(* The end of a turn of the loop. *)
sys_yield(p) ==
  /\ at[p] = "yield"
  /\ i' = [i EXCEPT ![p] = @ + 1]
  /\ Goto(p, IF i[p] + 1 < RUNCOUNT THEN Top ELSE "exit")
  /\ schedule(p_state)
  /\ UNCHANGED <<levels, build, memory, reg>>

sys_exit(p) ==
  /\ at[p] = "exit"
  /\ schedule([p_state EXCEPT ![p] = "ZOMBIE"])
  /\ UNCHANGED <<levels, build, memory, at, i, reg>>

App(p) ==
  /\ current = p
  /\ \/ Start(p) \/ sys_write(p)
     \/ Lock(p) \/ Load(p) \/ StoreChar(p) \/ StoreCursor(p) \/ Unlock(p)
     \/ sys_yield(p) \/ sys_exit(p)

(* INT_CLOCK. *)
Clock ==
  /\ current # Spin
  /\ schedule(p_state)
  /\ UNCHANGED <<levels, build, memory, at, i, reg>>

Next == Clock \/ \E p \in Pids : App(p)

(* The clock keeps ticking, and a process that gets the CPU again and      *)
(* again executes an instruction now and then.                             *)
Fairness == WF_vars(Clock) /\ \A p \in Pids : SF_vars(App(p))

Spec == Init /\ [][Next]_vars /\ Fairness

-----------------------------------------------------------------------------
(* The comment on schedule(): "It picks a runnable process, then           *)
(* context-switches to that process.  If there are no runnable processes,  *)
(* it spins forever."  It does not hold of algorithms 2 and 3.             *)
SpinsOnlyWithoutRunnable == current = Spin => Runnable(p_state) = {}

(* Algorithms 0, 1 and 4 come to an end only when every process has        *)
(* exited: none is left behind, those that algorithm 4 has blocked         *)
(* included, unless a queue number is invalid ("Only valid queue numbers   *)
(* are 0 and 1").                                                          *)
StopsWhenAllExited ==
  current = Spin /\ scheduling_algorithm \in {0, 1, 4} =>
    \/ \A p \in Pids : p_state[p] = "ZOMBIE"
    \/ scheduling_algorithm = 4 /\ \E p \in Pids : p_queue[p] \notin {0, 1}

(* Priorities are respected: whenever algorithm 2 or 4 hands over the CPU, *)
(* no living process has a smaller priority (queue number) than the one    *)
(* chosen, those that algorithm 4 had blocked earlier included.            *)
BestIsChosen ==
  [][\A p \in Pids : current' = p /\ (current # p \/ UNCHANGED at) =>
       \A q \in Live(p_state') :
         /\ scheduling_algorithm = 2 => p_priority[p] <= p_priority[q]
         /\ scheduling_algorithm = 4 => p_queue[p] <= p_queue[q]]_vars

(* The lock excludes although its holder can be preempted at any point,    *)
(* and is free when nobody is inside.                                      *)
Inside == {p \in Pids : at[p] \in {"load", "store", "move", "put", "unlock"}}
OneInside == Cardinality(Inside) = lock

(* No character is lost or overwritten: the screen holds as many           *)
(* characters of each process as it has printed, and the cursor is past    *)
(* them all, but for the one a process has not moved it past yet.          *)
Printed(p) == i[p] + (IF at[p] \in {"move", "unlock", "yield"} THEN 1 ELSE 0)
NothingLost ==
  /\ \A p \in Pids : Cardinality({c \in Cells : screen[c] = p}) = Printed(p)
  /\ \A c \in Cells : screen[c] # 0 => c < cursorpos \/ \E p \in Pids : at[p] = "move" /\ reg[p] = c

(* Every application gets to its end under round robin and under process   *)
(* priority, although lock holders are preempted; under the two queues if  *)
(* queue numbers are valid and the kernel prints.  (With the spin lock a   *)
(* process that holds it and has moved itself to queue 1 may never run     *)
(* again, while others spin.)                                              *)
AllFinish ==
  scheduling_algorithm \in {0, 1} \/ (scheduling_algorithm = 4 /\ ~locked_write) =>
    <>(\/ \A p \in Pids : p_state[p] = "ZOMBIE"
       \/ \E p \in Pids : p_queue[p] \notin {0, 1})
=============================================================================
