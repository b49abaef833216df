----------------------------- MODULE MposKernel -----------------------------
(***************************************************************************)
(* The MiniprocOS kernel, WeensyOS/weensyos1/mpos-kern.c: a table of       *)
(* processes that share memory and are scheduled cooperatively.  The       *)
(* running process makes a system call; interrupt() handles it and ends by *)
(* running some process.  One action is one system call.                   *)
(***************************************************************************)
EXTENDS Integers, FiniteSets, FiniteSetsExt

CONSTANTS
  NPROCS,     \* size of the process table; slot 0 is never used
  Statuses,   \* exit statuses the applications use
  Parental    \* TRUE: applications only wait for children of their own

ASSUME TableAssumption == NPROCS \in Nat /\ NPROCS > 1
ASSUME ClientAssumption == Statuses \subseteq Nat /\ Parental \in BOOLEAN

VARIABLES
  p_state, p_exit_status, p_wait,   \* fields of proc_array
  eax,        \* p_registers.reg_eax: argument, then result of the last call
  current,    \* the running process; Spin once schedule() loops for ever
  parent,     \* history: who created the process in a slot, 0 once it is gone
  handed      \* history: how often its exit status was handed out (up to 2)

kern == <<p_state, p_exit_status, p_wait, eax, current>>
vars == <<kern, parent, handed>>

Slots == 0..(NPROCS - 1)
Pids  == 1..(NPROCS - 1)
Spin  == -1
Alive(p) == p_state[p] \in {"RUNNABLE", "BLOCKED"}

-----------------------------------------------------------------------------
(* start(): the main application is process 1. *)
Init ==
  /\ p_state = [p \in Slots |-> IF p = 1 THEN "RUNNABLE" ELSE "EMPTY"]
  /\ p_exit_status = [p \in Slots |-> 0] /\ p_wait = [p \in Slots |-> 0]
  /\ eax = [p \in Slots |-> 0]
  /\ current = 1
  /\ parent = [p \in Slots |-> 0] /\ handed = [p \in Slots |-> 0]

(* Mutant: the search stops before it comes back to the caller. *)
ScheduleOthers(state) ==
  LET runnable == {d \in 1..(NPROCS - 1) : state[(current + d) % NPROCS] = "RUNNABLE"}
  IN current' = IF runnable = {} THEN Spin ELSE (current + Min(runnable)) % NPROCS

(* schedule(): the next runnable process in cyclic order, or loop. *)
schedule(state) ==
  LET runnable == {d \in 1..NPROCS : state[(current + d) % NPROCS] = "RUNNABLE"}
  IN current' = IF runnable = {} THEN Spin ELSE (current + Min(runnable)) % NPROCS

EmptySlots == {p \in Pids : p_state[p] = "EMPTY"}

(* What do_fork and do_thread share: the first empty slot becomes a        *)
(* runnable process whose call returns 0; p_wait is left as it was.        *)
Create(child) ==
  /\ p_state' = [p_state EXCEPT ![child] = "RUNNABLE"]
  /\ p_exit_status' = [p_exit_status EXCEPT ![child] = 0]
  /\ eax' = [eax EXCEPT ![child] = 0, ![current] = child]
  /\ parent' = [p \in Slots |-> IF p = child THEN current
                                ELSE IF parent[p] = child THEN 0 ELSE parent[p]]
  /\ handed' = [handed EXCEPT ![child] = 0]
  /\ UNCHANGED <<p_wait, current>>

CreateFails ==
  /\ EmptySlots = {}
  /\ eax' = [eax EXCEPT ![current] = -1]
  /\ UNCHANGED <<p_state, p_exit_status, p_wait, current, parent, handed>>

(* do_fork and do_thread differ in the registers and the stack the child   *)
(* starts with, which the kernel never looks at again.                     *)
do_fork ==
  \/ CreateFails
  \/ EmptySlots # {} /\ Create(Min(EmptySlots))

do_thread == do_fork

(* INT_SYS_GETPID. *)
getpid ==
  /\ eax' = [eax EXCEPT ![current] = current]
  /\ UNCHANGED <<p_state, p_exit_status, p_wait, current, parent, handed>>

(* INT_SYS_YIELD. *)
yield ==
  /\ schedule(p_state)
  /\ UNCHANGED <<p_state, p_exit_status, p_wait, eax, parent, handed>>

(* Mutant: the slot of a process that was waited for is not freed. *)
HandOverKeepsSlot(p, s, e) ==
  /\ p_state' = [p_state EXCEPT ![p] = "ZOMBIE", ![p_wait[p]] = "RUNNABLE"]
  /\ eax' = [e EXCEPT ![p_wait[p]] = s]
  /\ handed' = [handed EXCEPT ![p] = Min({2, @ + 1})]
  /\ current' = p_wait[p]

(* The process that waits for p gets the status and runs; p's slot is free. *)
HandOver(p, s, e) ==
  /\ p_state' = [p_state EXCEPT ![p_wait[p]] = "RUNNABLE", ![p] = "EMPTY"]
  /\ eax' = [e EXCEPT ![p_wait[p]] = s]
  /\ handed' = [handed EXCEPT ![p] = Min({2, @ + 1})]
  /\ current' = p_wait[p]

(* The end of process p with status s, common to exit and kill. *)
Finish(p, s, e) ==
  /\ p_exit_status' = [p_exit_status EXCEPT ![p] = s]
  /\ \/ p_wait[p] # 0 /\ HandOver(p, s, e)
     \/ /\ p_wait[p] = 0
        /\ p_state' = [p_state EXCEPT ![p] = "ZOMBIE"]
        /\ eax' = e
        /\ UNCHANGED handed
        /\ schedule(p_state')
  /\ UNCHANGED <<p_wait, parent>>

(* INT_SYS_EXIT. *)
exit(s) == Finish(current, s, [eax EXCEPT ![current] = s])

NoSuchProcess(p) == ~(0 < p /\ p < NPROCS /\ p_state[p] # "EMPTY")

(* do_kill never comes back to its return: both branches end in schedule() *)
(* or run(), so %eax still holds the argument.  A process may kill itself. *)
do_kill(p) ==
  \/ /\ NoSuchProcess(p)
     /\ eax' = [eax EXCEPT ![current] = p]
     /\ schedule(p_state)
     /\ UNCHANGED <<p_state, p_exit_status, p_wait, parent, handed>>
  \/ /\ ~NoSuchProcess(p)
     /\ Finish(p, -1, [eax EXCEPT ![current] = p])

(* Mutant: the caller blocks without leaving its number. *)
BlockUnnoticed(p) ==
  /\ p_state' = [p_state EXCEPT ![current] = "BLOCKED"]
  /\ eax' = [eax EXCEPT ![current] = p]
  /\ UNCHANGED <<p_wait, handed>>

(* The caller of sys_wait(p) blocks; p_wait holds one waiter, the last. *)
BlockOn(p) ==
  /\ p_state' = [p_state EXCEPT ![current] = "BLOCKED"]
  /\ p_wait' = [p_wait EXCEPT ![p] = current]
  /\ eax' = [eax EXCEPT ![current] = p]
  /\ UNCHANGED handed

(* INT_SYS_WAIT.  `p_state == P_EMPTY;` on line 210 compares and has no    *)
(* effect: the zombie stays.                                               *)
wait(p) ==
  /\ \/ /\ ~(~NoSuchProcess(p) /\ p # current)
        /\ eax' = [eax EXCEPT ![current] = -1]
        /\ UNCHANGED <<p_state, p_wait, handed>>
     \/ /\ ~NoSuchProcess(p) /\ p # current /\ p_state[p] = "ZOMBIE"
        /\ eax' = [eax EXCEPT ![current] = p_exit_status[p]]
        /\ handed' = [handed EXCEPT ![p] = Min({2, @ + 1})]
        /\ UNCHANGED <<p_state, p_wait>>
     \/ /\ ~NoSuchProcess(p) /\ p # current /\ p_state[p] # "ZOMBIE"
        /\ BlockOn(p)
  /\ schedule(p_state')
  /\ UNCHANGED <<p_exit_status, parent>>

-----------------------------------------------------------------------------
(* Calls an application makes: any, or only waits for its own children. *)
MayWaitFor(p) == Parental /\ ~NoSuchProcess(p) => parent[p] = current

Next ==
  /\ current # Spin
  /\ \/ do_fork \/ do_thread \/ getpid \/ yield
     \/ \E s \in Statuses : exit(s)
     \/ \E p \in 0..NPROCS : MayWaitFor(p) /\ wait(p)
     \/ \E p \in 0..NPROCS : do_kill(p)

Spec == Init /\ [][Next]_vars

-----------------------------------------------------------------------------
(* The running process is runnable, and the kernel spins only when no      *)
(* process is: exit and kill change the state of the process they were     *)
(* called from, and run a process they did not look at.                    *)
RunsRunnable ==
  IF current = Spin THEN \A p \in Slots : p_state[p] # "RUNNABLE"
  ELSE p_state[current] = "RUNNABLE"

(* No waiter is forgotten: the process a blocked process waits for (%eax   *)
(* of its call) is alive and knows who to wake.                            *)
BlockedAwaited ==
  \A q \in Slots : p_state[q] = "BLOCKED" =>
    eax[q] \in Slots /\ Alive(eax[q]) /\ p_wait[eax[q]] = q

(* The exit status of a process is handed out at most once. *)
HandedOnce == \A p \in Slots : handed[p] <= 1
=============================================================================
