----------------------------- MODULE MposProofs -----------------------------
(***************************************************************************)
(* Theorems about MposKernel and, at the end, about mpos-app2 running on   *)
(* it, for every size of the process table.                                *)
(***************************************************************************)
EXTENDS MposApp2, NatMin, TLAPS

States == {"EMPTY", "RUNNABLE", "BLOCKED", "ZOMBIE"}

LEMMA ModFacts ==
  ASSUME NEW x \in Nat, x < 2 * NPROCS
  PROVE  x % NPROCS = IF x < NPROCS THEN x ELSE x - NPROCS
BY TableAssumption

(* schedule() runs a runnable process, and spins only if there is none. *)
LEMMA ScheduleFacts ==
  ASSUME NEW state \in [Slots -> States], state[0] = "EMPTY", current \in Pids,
         schedule(state)
  PROVE  \/ current' \in Pids /\ state[current'] = "RUNNABLE"
         \/ current' = Spin /\ \A p \in Slots : state[p] # "RUNNABLE"
<1> DEFINE runnable == {d \in 1..NPROCS : state[(current + d) % NPROCS] = "RUNNABLE"}
<1>1. current \in Nat /\ current < NPROCS /\ 0 < current
  BY TableAssumption DEF Pids
<1>2. CASE runnable = {}
  <2>1. ASSUME NEW p \in Slots, state[p] = "RUNNABLE" PROVE FALSE
    <3> DEFINE d == IF p > current THEN p - current ELSE p - current + NPROCS
    <3>1. p \in Nat /\ p < NPROCS
      BY TableAssumption DEF Slots
    <3>2. d \in 1..NPROCS /\ current + d \in Nat /\ current + d < 2 * NPROCS
      BY <1>1, <3>1, TableAssumption
    <3>3. (current + d) % NPROCS = p
      BY <1>1, <3>1, <3>2, ModFacts, TableAssumption
    <3>4. d \in runnable
      BY <2>1, <3>2, <3>3
    <3> QED
      BY <1>2, <3>4
  <2> QED
    BY <1>2, <2>1 DEF schedule
<1>3. CASE runnable # {}
  <2>1. Min(runnable) \in runnable
    BY <1>3, MinNat, TableAssumption
  <2>2. current' = (current + Min(runnable)) % NPROCS
    BY <1>3 DEF schedule
  <2>3. state[current'] = "RUNNABLE" /\ Min(runnable) \in 1..NPROCS
    BY <2>1, <2>2
  <2>4. current' \in Slots
    <3>1. current + Min(runnable) \in Nat /\ current + Min(runnable) < 2 * NPROCS
      BY <1>1, <2>3, TableAssumption
    <3> DEFINE x == current + Min(runnable)
    <3> HIDE DEF runnable
    <3>2. x % NPROCS = IF x < NPROCS THEN x ELSE x - NPROCS
      BY <3>1, ModFacts
    <3> HIDE DEF x
    <3>3. x % NPROCS \in 0..(NPROCS - 1)
      BY <3>1, <3>2, TableAssumption DEF x
    <3> QED
      BY <2>2, <3>3 DEF x, Slots
  <2>5. current' # 0
    BY <2>3
  <2> QED
    BY <2>3, <2>4, <2>5, TableAssumption DEF Slots, Pids
<1> QED
  BY <1>2, <1>3

-----------------------------------------------------------------------------
(* The parts of the kernel's state that the invariants below speak of. *)
Table ==
  /\ p_state \in [Slots -> States] /\ p_state[0] = "EMPTY"
  /\ p_wait \in [Slots -> Slots] /\ \A p \in Slots : p_wait[p] # p \/ p = 0
  /\ eax \in [Slots -> Int] /\ p_exit_status \in [Slots -> Int]
  /\ parent \in [Slots -> Slots]
  /\ current \in Pids \cup {Spin}
  /\ RunsRunnable

(* Handing the CPU to schedule() keeps RunsRunnable. *)
LEMMA ScheduleRuns ==
  ASSUME current \in Pids, p_state' \in [Slots -> States], p_state'[0] = "EMPTY",
         schedule(p_state')
  PROVE  current' \in Pids \cup {Spin} /\ RunsRunnable'
<1>1. \/ current' \in Pids /\ p_state'[current'] = "RUNNABLE"
      \/ current' = Spin /\ \A p \in Slots : p_state'[p] # "RUNNABLE"
  BY ScheduleFacts
<1>2. Spin \notin Pids
  BY TableAssumption DEF Spin, Pids
<1> QED
  BY <1>1, <1>2 DEF RunsRunnable

(* The end of a process keeps the table. *)
LEMMA FinishTable ==
  ASSUME Table, current \in Pids, NEW p \in Pids, NEW s \in Int,
         NEW e \in [Slots -> Int], Finish(p, s, e)
  PROVE  Table'
<1>0. p \in Slots /\ p # 0 /\ 0 \in Slots
  BY TableAssumption DEF Pids, Slots
<1>1. /\ UNCHANGED <<p_wait, parent>> /\ p \in Slots /\ p # 0 /\ p_wait[p] \in Slots
      /\ p_exit_status' \in [Slots -> Int]
  BY <1>0 DEF Finish, HandOver, Table
<1>2. CASE p_wait[p] # 0 /\ current' = p_wait[p]
           /\ p_state' = [p_state EXCEPT ![p_wait[p]] = "RUNNABLE", ![p] = "EMPTY"]
           /\ eax' = [e EXCEPT ![p_wait[p]] = s]
  <2>1. current' \in Pids
    BY <1>1, <1>2, TableAssumption DEF Slots, Pids
  <2>2. p_state' \in [Slots -> States] /\ eax' \in [Slots -> Int]
    BY <1>1, <1>2 DEF Table, States
  <2>4. p_state'[0] = "EMPTY"
    BY <1>0, <1>1, <1>2 DEF Table
  <2>3. p_state'[current'] = "RUNNABLE" /\ current' # Spin
    BY <1>1, <1>2, <2>1, TableAssumption DEF Table, Pids, Spin
  <2> QED
    BY <1>1, <2>1, <2>2, <2>3, <2>4 DEF Table, RunsRunnable
<1>3. CASE p_state' = [p_state EXCEPT ![p] = "ZOMBIE"] /\ eax' = e /\ schedule(p_state')
  <2>1. p_state' \in [Slots -> States] /\ p_state'[0] = "EMPTY"
    BY <1>1, <1>3 DEF Table, States
  <2> QED
    BY <1>1, <1>3, <2>1, ScheduleRuns DEF Table
<1> QED
  BY <1>2, <1>3 DEF Finish, HandOver

(* Creating a process keeps it. *)
LEMMA CreateTable ==
  ASSUME Table, current \in Pids, NEW child \in Pids, p_state[child] = "EMPTY", Create(child)
  PROVE  Table'
<1>1. /\ child \in Slots /\ child # 0 /\ child \in Int /\ 0 \in Slots
      /\ current \in Slots /\ current # Spin
  BY TableAssumption DEF Pids, Slots, Spin
<1>2. p_state' \in [Slots -> States] /\ p_state'[0] = "EMPTY" /\ eax' \in [Slots -> Int]
  BY <1>1 DEF Create, Table, States
<1>3. p_state'[current] = "RUNNABLE" /\ UNCHANGED <<p_wait, current>>
  BY <1>1 DEF Create, Table, RunsRunnable
<1>4. parent' \in [Slots -> Slots] /\ p_exit_status' \in [Slots -> Int]
  BY <1>1 DEF Create, Table
<1> QED
  BY <1>1, <1>2, <1>3, <1>4 DEF Table, RunsRunnable

LEMMA EmptySlotExists ==
  ASSUME EmptySlots # {}
  PROVE  Min(EmptySlots) \in Pids /\ p_state[Min(EmptySlots)] = "EMPTY"
<1>1. EmptySlots \in SUBSET Nat
  BY TableAssumption DEF EmptySlots, Pids
<1>2. Min(EmptySlots) \in EmptySlots
  BY <1>1, MinNat
<1> QED
  BY <1>2 DEF EmptySlots

(* Every system call keeps the table. *)
LEMMA TableInductive == ASSUME Table, [Next]_vars PROVE Table'
<1> USE TableAssumption
<1>1. CASE UNCHANGED vars
  BY <1>1 DEF vars, kern, Table, RunsRunnable
<1> SUFFICES ASSUME Next PROVE Table'
  BY <1>1
<1>2. /\ current \in Pids /\ current \in Slots /\ current # 0 /\ 0 \in Slots
      /\ current \in Int /\ current # Spin
  BY DEF Next, Table, Pids, Slots, Spin
<1>3. CASE do_fork \/ do_thread
  <2>1. CASE CreateFails
    BY <1>2, <2>1 DEF CreateFails, Table, RunsRunnable
  <2>2. CASE EmptySlots # {} /\ Create(Min(EmptySlots))
    BY <1>2, <2>2, EmptySlotExists, CreateTable
  <2> QED
    BY <1>3, <2>1, <2>2 DEF do_fork, do_thread
<1>4. CASE getpid
  BY <1>2, <1>4 DEF getpid, Table, RunsRunnable
<1>5. CASE yield
  <2>1. schedule(p_state) /\ UNCHANGED <<p_state, p_exit_status, p_wait, eax, parent>>
    BY <1>5 DEF yield
  <2>2. schedule(p_state')
    BY <2>1 DEF schedule
  <2> QED
    BY <1>2, <2>1, <2>2, ScheduleRuns DEF Table
<1>6. ASSUME NEW s \in Statuses, exit(s) PROVE Table'
  <2>1. s \in Int /\ [eax EXCEPT ![current] = s] \in [Slots -> Int]
    BY <1>2, ClientAssumption DEF Table
  <2> QED
    BY <1>2, <1>6, <2>1, FinishTable DEF exit
<1>7. ASSUME NEW p \in 0..NPROCS, do_kill(p) PROVE Table'
  <2>1. p \in Int /\ [eax EXCEPT ![current] = p] \in [Slots -> Int]
    BY <1>2 DEF Table
  <2>2. CASE /\ eax' = [eax EXCEPT ![current] = p] /\ schedule(p_state)
             /\ UNCHANGED <<p_state, p_exit_status, p_wait, parent, handed>>
    <3>1. schedule(p_state')
      BY <2>2 DEF schedule
    <3> QED
      BY <1>2, <2>1, <2>2, <3>1, ScheduleRuns DEF Table
  <2>3. CASE ~NoSuchProcess(p) /\ Finish(p, -1, [eax EXCEPT ![current] = p])
    <3>1. p \in Pids
      BY <2>3 DEF NoSuchProcess, Pids
    <3>2. -1 \in Int
      OBVIOUS
    <3> QED
      BY <1>2, <2>1, <2>3, <3>1, <3>2, FinishTable, Zenon
  <2> QED
    BY <1>7, <2>2, <2>3 DEF do_kill
<1>8. ASSUME NEW p \in 0..NPROCS, wait(p) PROVE Table'
  <2>1. schedule(p_state') /\ UNCHANGED <<parent, p_exit_status>>
    BY <1>8 DEF wait, BlockOn
  <2>2. CASE UNCHANGED <<p_state, p_wait>> /\ \E x \in Int : eax' = [eax EXCEPT ![current] = x]
    BY <1>2, <2>1, <2>2, ScheduleRuns DEF Table
  <2>3. CASE /\ p_state[p] = "ZOMBIE" /\ ~NoSuchProcess(p) /\ UNCHANGED <<p_state, p_wait>>
             /\ eax' = [eax EXCEPT ![current] = p_exit_status[p]]
    <3>1. p \in Slots
      BY <2>3 DEF NoSuchProcess, Slots
    <3> QED
      BY <1>2, <2>1, <2>3, <3>1, ScheduleRuns DEF Table
  <2>4. CASE /\ ~NoSuchProcess(p) /\ p # current
             /\ p_state' = [p_state EXCEPT ![current] = "BLOCKED"]
             /\ p_wait' = [p_wait EXCEPT ![p] = current]
             /\ eax' = [eax EXCEPT ![current] = p]
    <3>1. p \in Slots /\ p \in Int /\ p # 0
      BY <2>4 DEF NoSuchProcess, Slots
    <3>2. p_state' \in [Slots -> States] /\ p_state'[0] = "EMPTY" /\ eax' \in [Slots -> Int]
      BY <1>2, <2>4, <3>1 DEF Table, States
    <3>3. p_wait' \in [Slots -> Slots] /\ \A q \in Slots : p_wait'[q] # q \/ q = 0
      BY <1>2, <2>4, <3>1 DEF Table
    <3> QED
      BY <1>2, <2>1, <3>2, <3>3, ScheduleRuns DEF Table
  <2> QED
    BY <1>8, <2>2, <2>3, <2>4 DEF wait, BlockOn
<1> QED
  BY <1>3, <1>4, <1>5, <1>6, <1>7, <1>8 DEF Next

(* Whatever the applications do, the kernel runs a runnable process, and   *)
(* it spins only when there is none.                                       *)
THEOREM RunsOnlyRunnable == Spec => []RunsRunnable
<1>1. Init => Table
  <2>1. 0 \in Slots /\ 1 \in Slots /\ 1 \in Pids /\ Spin # 1
    BY TableAssumption DEF Slots, Pids, Spin
  <2> QED
    BY <2>1 DEF Init, Table, States, RunsRunnable
<1>2. Table /\ [Next]_vars => Table'
  BY TableInductive
<1>3. Table => RunsRunnable
  BY DEF Table
<1> QED
  BY <1>1, <1>2, <1>3, PTL DEF Spec

-----------------------------------------------------------------------------
(* With applications that wait only for their children, a blocked process  *)
(* waits for a living child that knows it.                                 *)
Awaited(q) ==
  /\ eax[q] \in Slots /\ Alive(eax[q])
  /\ p_wait[eax[q]] = q /\ parent[eax[q]] = q

WaitInv == \A q \in Slots : p_state[q] = "BLOCKED" => Awaited(q)

(* The end of p, by exit or kill: whoever waited for p no longer does, and *)
(* nobody else waits for it.                                               *)
LEMMA FinishAwaited ==
  ASSUME Table, WaitInv, current \in Slots, p_state[current] = "RUNNABLE",
         NEW p \in Pids, NEW s, NEW x, Finish(p, s, [eax EXCEPT ![current] = x]),
         NEW q \in Slots, p_state'[q] = "BLOCKED"
  PROVE  Awaited(q)'
<1> DEFINE w == p_wait[p]
<1>1. UNCHANGED <<p_wait, parent>>
  BY DEF Finish, HandOver
<1>2. p \in Slots /\ w \in Slots
  BY TableAssumption DEF Table, Pids, Slots
<1>3. CASE /\ w # 0
           /\ p_state' = [p_state EXCEPT ![w] = "RUNNABLE", ![p] = "EMPTY"]
           /\ eax' = [[eax EXCEPT ![current] = x] EXCEPT ![w] = s]
  <2>1. q # w /\ q # p /\ p_state[q] = "BLOCKED"
    BY <1>2, <1>3 DEF Table
  <2>2. Awaited(q) /\ eax'[q] = eax[q]
    BY <1>3, <2>1 DEF WaitInv, Table
  <2>3. eax[q] # p
    BY <2>1, <2>2 DEF Awaited
  <2>4. Alive(eax[q])'
    BY <1>2, <1>3, <2>2, <2>3 DEF Awaited, Alive, Table
  <2> QED
    BY <1>1, <2>2, <2>4 DEF Awaited, Alive
<1>4. CASE /\ w = 0 /\ p_state' = [p_state EXCEPT ![p] = "ZOMBIE"]
           /\ eax' = [eax EXCEPT ![current] = x]
  <2>1. q # p /\ p_state[q] = "BLOCKED"
    BY <1>2, <1>4 DEF Table
  <2>2. Awaited(q) /\ eax'[q] = eax[q] /\ q # 0
    BY <1>4, <2>1 DEF WaitInv, Table
  <2>3. eax[q] # p
    BY <1>4, <2>2 DEF Awaited
  <2>4. Alive(eax[q])'
    BY <1>4, <2>2, <2>3 DEF Awaited, Alive, Table
  <2> QED
    BY <1>1, <2>2, <2>4 DEF Awaited, Alive
<1> QED
  BY <1>3, <1>4 DEF Finish, HandOver

LEMMA WaitInvInductive ==
  ASSUME Parental, Table, WaitInv, [Next]_vars
  PROVE  WaitInv'
<1> USE TableAssumption
<1>1. CASE UNCHANGED vars
  BY <1>1 DEF vars, kern, WaitInv, Awaited, Alive
<1> SUFFICES ASSUME Next PROVE WaitInv'
  BY <1>1
<1>2. /\ current \in Pids /\ current \in Slots /\ current # 0 /\ 0 \in Slots
      /\ p_state[current] = "RUNNABLE"
  BY DEF Next, Table, RunsRunnable, Pids, Slots, Spin
<1> SUFFICES ASSUME NEW q \in Slots, p_state'[q] = "BLOCKED" PROVE Awaited(q)'
  BY DEF WaitInv
<1>3. CASE do_fork \/ do_thread
  <2>1. CASE CreateFails
    BY <1>2, <2>1 DEF CreateFails, WaitInv, Awaited, Alive, Table
  <2>2. CASE EmptySlots # {} /\ Create(Min(EmptySlots))
    <3> DEFINE child == Min(EmptySlots)
    <3>1. child \in Slots /\ p_state[child] = "EMPTY"
      BY <2>2, EmptySlotExists DEF Pids, Slots
    <3>2. p_state' = [p_state EXCEPT ![child] = "RUNNABLE"] /\ UNCHANGED p_wait
      BY <2>2 DEF Create
    <3> HIDE DEF child
    <3>3. q # child /\ q # current /\ p_state[q] = "BLOCKED"
      BY <1>2, <3>1, <3>2 DEF Table
    <3>4. Awaited(q) /\ eax[q] # child
      BY <3>1, <3>3 DEF WaitInv, Awaited, Alive
    <3>5. eax'[q] = eax[q]
      BY <2>2, <3>3 DEF Create, Table, child
    <3>6. parent'[eax[q]] = q
      BY <2>2, <3>3, <3>4 DEF Create, child, Awaited
    <3>7. p_state'[eax[q]] = p_state[eax[q]]
      BY <3>2, <3>4 DEF Awaited, Table
    <3> QED
      BY <3>2, <3>4, <3>5, <3>6, <3>7 DEF Awaited, Alive
  <2> QED
    BY <1>3, <2>1, <2>2 DEF do_fork, do_thread
<1>4. CASE getpid
  BY <1>2, <1>4 DEF getpid, WaitInv, Awaited, Alive, Table
<1>5. CASE yield
  <2>1. UNCHANGED <<p_state, p_wait, eax, parent>>
    BY <1>5 DEF yield
  <2> QED
    BY <2>1 DEF WaitInv, Awaited, Alive
<1>6. ASSUME NEW s \in Statuses, exit(s) PROVE Awaited(q)'
  <2>1. current \in Pids /\ Finish(current, s, [eax EXCEPT ![current] = s])
    BY <1>2, <1>6 DEF exit
  <2> QED
    BY <1>2, <2>1, FinishAwaited
<1>8. ASSUME NEW p \in 0..NPROCS, do_kill(p) PROVE Awaited(q)'
  <2>1. CASE /\ eax' = [eax EXCEPT ![current] = p]
             /\ UNCHANGED <<p_state, p_exit_status, p_wait, parent, handed>>
    BY <1>2, <2>1 DEF WaitInv, Awaited, Alive, Table
  <2>2. CASE ~NoSuchProcess(p) /\ Finish(p, -1, [eax EXCEPT ![current] = p])
    <3>1. p \in Pids
      BY <2>2 DEF NoSuchProcess, Pids
    <3> QED
      BY <1>2, <2>2, <3>1, FinishAwaited
  <2> QED
    BY <1>8, <2>1, <2>2 DEF do_kill
<1>7. ASSUME NEW p \in 0..NPROCS, MayWaitFor(p), wait(p) PROVE Awaited(q)'
  <2>1. UNCHANGED parent
    BY <1>7 DEF wait, BlockOn
  <2>2. CASE UNCHANGED <<p_state, p_wait>>
    <3>1. q # current /\ Awaited(q)
      BY <1>2, <2>2 DEF WaitInv
    <3>2. eax'[q] = eax[q]
      BY <1>7, <3>1 DEF wait, BlockOn, Table
    <3> QED
      BY <2>1, <2>2, <3>1, <3>2 DEF Awaited, Alive
  <2>3. CASE /\ ~NoSuchProcess(p) /\ p # current /\ p_state[p] # "ZOMBIE"
             /\ p_state' = [p_state EXCEPT ![current] = "BLOCKED"]
             /\ p_wait' = [p_wait EXCEPT ![p] = current]
             /\ eax' = [eax EXCEPT ![current] = p]
    <3>1. p \in Slots /\ parent[p] = current /\ p_state[p] # "EMPTY"
      BY <1>7, <2>3 DEF NoSuchProcess, MayWaitFor, Slots
    <3>2. Alive(p)
      BY <2>3, <3>1 DEF Alive, Table, States
    <3>3. CASE q = current
      BY <1>2, <2>1, <2>3, <3>1, <3>2, <3>3 DEF Awaited, Alive, Table
    <3>4. CASE q # current
      <4>1. p_state[q] = "BLOCKED" /\ eax'[q] = eax[q]
        BY <1>2, <2>3, <3>4 DEF Table
      <4>2. Awaited(q) /\ eax[q] # p
        BY <3>1, <3>4, <4>1 DEF WaitInv, Awaited
      <4>3. p_wait'[eax[q]] = q
        BY <2>3, <3>1, <4>2 DEF Awaited, Table
      <4>4. p_state'[eax[q]] = p_state[eax[q]] \/ p_state'[eax[q]] = "BLOCKED"
        BY <2>3, <4>2 DEF Awaited, Table
      <4>5. Alive(eax[q])'
        BY <4>1, <4>2, <4>4 DEF Awaited, Alive
      <4> QED
        BY <2>1, <4>1, <4>2, <4>3, <4>5 DEF Awaited
    <3> QED
      BY <3>3, <3>4
  <2> QED
    BY <1>7, <2>2, <2>3 DEF wait, BlockOn
<1> QED
  BY <1>3, <1>4, <1>5, <1>6, <1>7, <1>8 DEF Next

(* No waiter is forgotten, for every size of the table, as long as         *)
(* applications wait for their own children.                               *)
THEOREM NoWaiterForgotten == ASSUME Parental PROVE Spec => []BlockedAwaited
<1>1. Init => Table /\ WaitInv
  <2>1. 0 \in Slots /\ 1 \in Slots /\ 1 \in Pids /\ Spin # 1
    BY TableAssumption DEF Slots, Pids, Spin
  <2> QED
    BY <2>1 DEF Init, Table, States, RunsRunnable, WaitInv
<1>2. Table /\ WaitInv /\ [Next]_vars => (Table /\ WaitInv)'
  BY TableInductive, WaitInvInductive
<1>3. WaitInv => BlockedAwaited
  BY DEF WaitInv, Awaited, BlockedAwaited
<1> QED
  BY <1>1, <1>2, <1>3, PTL DEF Spec

-----------------------------------------------------------------------------
(* mpos-app2.  schedule() called by process 1 runs the first child in the  *)
(* table, if there is one.                                                 *)
LEMMA ScheduleFirst ==
  ASSUME NEW state \in [Slots -> States], current = 1, schedule(state),
         NEW q \in Slots, q >= 2, state[q] = "RUNNABLE",
         \A p \in Slots : p >= 2 /\ p < q => state[p] # "RUNNABLE"
  PROVE  current' = q
<1> DEFINE runnable == {d \in 1..NPROCS : state[(current + d) % NPROCS] = "RUNNABLE"}
<1>1. q \in Nat /\ q < NPROCS
  BY TableAssumption DEF Slots
<1>2. (current + (q - 1)) % NPROCS = q
  BY <1>1, ModFacts, TableAssumption
<1>3. q - 1 \in runnable
  BY <1>1, <1>2, TableAssumption
<1>4. ASSUME NEW d \in runnable, d < q - 1 PROVE FALSE
  <2>1. (current + d) % NPROCS = 1 + d
    BY <1>1, <1>4, ModFacts, TableAssumption
  <2>2. 1 + d \in Slots /\ 1 + d >= 2 /\ 1 + d < q
    BY <1>1, <1>4, TableAssumption DEF Slots
  <2> QED
    BY <1>4, <2>1, <2>2
<1>5. Min(runnable) \in runnable /\ \A d \in runnable : Min(runnable) <= d
  BY <1>3, MinNat
<1>6. Min(runnable) = q - 1
  <2> DEFINE m == Min(runnable)
  <2>1. m \in runnable /\ m \in Int /\ m <= q - 1
    BY <1>3, <1>5
  <2> HIDE DEF m, runnable
  <2>2. ~(m < q - 1)
    BY <1>4, <2>1
  <2> QED
    BY <1>1, <2>1, <2>2 DEF m
<1> QED
  BY <1>2, <1>3, <1>6 DEF schedule

(* The children in the table are those in the slots from lo to hi: they    *)
(* are runnable, have not run yet, and nothing is left of any other.       *)
Kids(lo, hi) ==
  \A p \in Slots : p >= 2 =>
    IF lo <= p /\ p <= hi
    THEN p_state[p] = "RUNNABLE" /\ at[p] = "child" /\ parent[p] = 1 /\ handed[p] = 0
    ELSE p_state[p] = "EMPTY"

(* Process 1 runs, between two of its system calls. *)
MainRuns ==
  /\ current = 1
  /\ \/ at[1] \in {"outer", "exit"} /\ Kids(2, 1)
     \/ at[1] = "fork" /\ Kids(2, n_started + 1) /\ counter + n_started <= Total
     \/ at[1] = "reap" /\ Kids(next, n_started + 1) /\ counter + (n_started + 2 - next) <= Total

(* A child runs, and process 1 waits for it. *)
ChildRuns ==
  /\ current = next - 1 /\ current >= 2 /\ current <= n_started + 1
  /\ p_state[1] = "BLOCKED" /\ at[1] = "reap"
  /\ eax[1] = current /\ p_wait[current] = 1
  /\ Kids(current, n_started + 1)
  /\ counter + (n_started + 2 - current) <= Total

(* Process 1 has ended, after all its children. *)
AllEnded == current = Spin /\ Kids(2, 1)

(* Nobody but process 1 ever waits, and nobody waits for it. *)
WaitersMain == p_wait[1] = 0 /\ \A p \in Slots : p_wait[p] \in {0, 1}

AppInv ==
  /\ Table /\ WaitersMain
  /\ handed \in [Slots -> {0, 1}]
  /\ at \in [Slots -> {"outer", "fork", "reap", "child", "exit"}]
  /\ counter \in Nat /\ counter <= Total
  /\ n_started \in Nat /\ n_started <= NPROCS - 2 /\ next \in 2..NPROCS
  /\ MainRuns \/ ChildRuns \/ AllEnded

(* What the steps of the application need of the invariant. *)
LEMMA AppFacts ==
  ASSUME AppInv
  PROVE  /\ 1 \in Slots /\ 1 \in Pids /\ 0 \in Slots /\ Spin # 1 /\ NPROCS \in Nat /\ NPROCS > 1
         /\ counter \in Nat /\ n_started \in Nat /\ next \in Nat /\ next >= 2 /\ next <= NPROCS
         /\ Total \in Nat /\ counter <= Total /\ n_started <= NPROCS - 2
         /\ \A p : p \in Slots <=> p \in Nat /\ p < NPROCS
BY TableAssumption, TotalAssumption DEF AppInv, Slots, Pids, Spin

(* Steps that make no system call. *)
LEMMA AppLocal ==
  ASSUME AppInv, current # Spin, Outer \/ ForkEnough \/ ReapDone
  PROVE  AppInv'
<1> USE AppFacts
<1>1. UNCHANGED vars /\ counter' = counter
  BY DEF Outer, ForkEnough, ReapDone
<1>2. Table' /\ WaitersMain' /\ handed' \in [Slots -> {0, 1}]
  BY <1>1 DEF AppInv, Table, WaitersMain, RunsRunnable, vars, kern
<1>3. current = 1 /\ MainRuns
  BY DEF AppInv, MainRuns, ChildRuns, AllEnded, Kids, Outer, ForkEnough, ReapDone
<1>4. at' \in [Slots -> {"outer", "fork", "reap", "child", "exit"}]
  BY <1>3 DEF AppInv, Outer, ForkEnough, ReapDone
<1>5. CASE Outer
  <2>1. Kids(2, 1) /\ n_started' = 0 /\ UNCHANGED <<next, p_state, parent, handed>>
    BY <1>1, <1>3, <1>5 DEF Outer, MainRuns, vars, kern
  <2>2. Kids(2, 1)' /\ at'[1] = IF counter < Total THEN "fork" ELSE "exit"
    BY <1>3, <1>5, <2>1 DEF Outer, Kids, AppInv
  <2>3. MainRuns'
    BY <1>1, <1>3, <2>1, <2>2 DEF MainRuns, vars, kern, Kids
  <2> QED
    BY <1>1, <1>2, <1>4, <2>1, <2>3 DEF AppInv
<1>6. CASE ForkEnough
  <2>1. /\ Kids(2, n_started + 1) /\ next' = 2 /\ UNCHANGED <<n_started, p_state, parent, handed>>
        /\ counter + n_started <= Total
    BY <1>1, <1>3, <1>6 DEF ForkEnough, MainRuns, vars, kern
  <2>2. Kids(2, n_started + 1)' /\ at'[1] = IF n_started = 0 THEN "exit" ELSE "reap"
    BY <1>3, <1>6, <2>1 DEF ForkEnough, Kids, AppInv
  <2>3. MainRuns'
    BY <1>1, <1>3, <2>1, <2>2 DEF MainRuns, vars, kern, Kids
  <2> QED
    BY <1>1, <1>2, <1>4, <2>1, <2>3 DEF AppInv
<1>7. CASE ReapDone
  <2>1. Kids(next, n_started + 1) /\ next = NPROCS /\ UNCHANGED <<n_started, next, p_state, parent, handed>>
    BY <1>1, <1>3, <1>7 DEF ReapDone, MainRuns, vars, kern
  <2>2. Kids(2, 1)' /\ at'[1] = "outer"
    BY <1>3, <1>7, <2>1 DEF ReapDone, Kids, AppInv
  <2>3. MainRuns'
    BY <1>1, <1>3, <2>1, <2>2 DEF MainRuns, vars, kern, Kids
  <2> QED
    BY <1>1, <1>2, <1>4, <2>1, <2>3 DEF AppInv
<1> QED
  BY <1>5, <1>6, <1>7

(* Where the running process is tells which case of the invariant holds. *)
LEMMA AppCases ==
  ASSUME AppInv, current # Spin
  PROVE  /\ at[current] # "child" => MainRuns /\ p_state[1] = "RUNNABLE"
         /\ at[current] = "child" => ChildRuns /\ p_state[current] = "RUNNABLE" /\ current \in Slots
<1> USE AppFacts
<1>1. p_state[current] = "RUNNABLE" /\ current \in Pids
  BY DEF AppInv, Table, RunsRunnable
<1>2. ASSUME ChildRuns PROVE at[current] = "child" /\ current \in Slots
  BY <1>1, <1>2 DEF ChildRuns, Kids, Pids, Slots
<1>3. ASSUME MainRuns PROVE at[current] # "child" /\ current = 1
  BY <1>3 DEF MainRuns
<1> QED
  BY <1>1, <1>2, <1>3 DEF AppInv, AllEnded

(* Every step of the application is a system call of the kernel's          *)
(* specification, or none.                                                 *)
LEMMA AppStepIsCall ==
  ASSUME AppInv, [AppNext]_appVars
  PROVE  [Next]_vars
<1> USE AppFacts
<1>1. CASE UNCHANGED appVars
  BY <1>1 DEF appVars, vars, kern
<1> SUFFICES ASSUME AppNext PROVE [Next]_vars
  BY <1>1
<1>2. current # Spin
  BY DEF AppNext
<1>3. CASE Outer \/ ForkEnough \/ ReapDone
  BY <1>3 DEF Outer, ForkEnough, ReapDone
<1>4. CASE ForkOne
  BY <1>2, <1>4 DEF ForkOne, Next
<1>5. CASE ReapOne
  <2>1. current = 1 /\ Kids(next, n_started + 1) /\ next < NPROCS /\ wait(next)
    BY <1>2, <1>5, AppCases DEF ReapOne, MainRuns
  <2>2. next \in 0..NPROCS /\ next \in Slots
    BY <2>1
  <2>3. MayWaitFor(next)
    BY <2>1, <2>2 DEF MayWaitFor, NoSuchProcess, Kids
  <2> QED
    BY <1>2, <2>1, <2>2, <2>3 DEF Next
<1>6. CASE Child
  <2>1. counter \in Statuses /\ exit(counter)
    BY <1>6, TotalAssumption DEF Child
  <2> QED
    BY <1>2, <2>1 DEF Next
<1>7. CASE MainExit
  <2>1. 0 \in Statuses /\ exit(0)
    BY <1>7, TotalAssumption DEF MainExit
  <2> QED
    BY <1>2, <2>1 DEF Next
<1> QED
  BY <1>3, <1>4, <1>5, <1>6, <1>7 DEF AppNext

(* sys_fork fills the slots from 2 on, so the next empty one follows the   *)
(* children of this round.                                                 *)
LEMMA AppFork ==
  ASSUME AppInv, current # Spin, ForkOne, Table'
  PROVE  AppInv'
<1> USE AppFacts
<1>1. /\ current = 1 /\ at[1] = "fork" /\ Kids(2, n_started + 1) /\ counter + n_started < Total
      /\ p_state[1] = "RUNNABLE"
  BY AppCases DEF ForkOne, MainRuns
<1>2. /\ p_state \in [Slots -> States] /\ handed \in [Slots -> {0, 1}] /\ eax \in [Slots -> Int]
      /\ parent \in [Slots -> Slots]
      /\ at \in [Slots -> {"outer", "fork", "reap", "child", "exit"}]
  BY DEF AppInv, Table
<1>3. CASE CreateFails
  <2>1. /\ eax'[current] = -1 /\ UNCHANGED <<p_state, p_wait, current, parent, handed>>
    BY <1>1, <1>2, <1>3 DEF CreateFails
  <2>2. /\ UNCHANGED <<counter, n_started>> /\ next' = 2
        /\ at' = [at EXCEPT ![current] = IF n_started = 0 THEN "exit" ELSE "reap"]
    BY <2>1 DEF ForkOne
  <2>3. Kids(2, n_started + 1)' /\ at'[1] = IF n_started = 0 THEN "exit" ELSE "reap"
    BY <1>1, <1>2, <2>1, <2>2 DEF Kids
  <2>4. MainRuns'
    BY <1>1, <2>1, <2>2, <2>3 DEF MainRuns, Kids
  <2>5. WaitersMain' /\ handed' \in [Slots -> {0, 1}]
        /\ at' \in [Slots -> {"outer", "fork", "reap", "child", "exit"}]
    BY <1>1, <1>2, <2>1, <2>2 DEF AppInv, WaitersMain
  <2> QED
    BY <2>2, <2>4, <2>5 DEF AppInv
<1>4. CASE EmptySlots # {} /\ Create(Min(EmptySlots))
  <2> DEFINE c == Min(EmptySlots)
  <2>1. c \in EmptySlots /\ \A p \in EmptySlots : c <= p
    <3>1. EmptySlots \in SUBSET Nat
      BY DEF EmptySlots, Pids
    <3> QED
      BY <1>4, <3>1, MinNat
  <2> HIDE DEF c
  <2>2. c \in Pids /\ p_state[c] = "EMPTY"
    BY <2>1 DEF EmptySlots
  <2>3. c \in Nat /\ c < NPROCS /\ c >= 1
    BY <2>2 DEF Pids
  <2>4. c = n_started + 2
    <3>1. c # 1 /\ c >= n_started + 2
      BY <1>1, <2>2, <2>3 DEF Kids
    <3>2. n_started + 2 \in EmptySlots
      BY <1>1, <2>3, <3>1 DEF Kids, EmptySlots, Pids
    <3> QED
      BY <2>1, <2>3, <3>1, <3>2
  <2>5. /\ Create(c) /\ c \in Slots /\ c # 1 /\ c >= 2
    BY <1>4, <2>3, <2>4 DEF c
  <2>6. /\ p_state' = [p_state EXCEPT ![c] = "RUNNABLE"] /\ eax'[current] = c
        /\ parent' = [p \in Slots |-> IF p = c THEN 1 ELSE IF parent[p] = c THEN 0 ELSE parent[p]]
        /\ handed' = [handed EXCEPT ![c] = 0] /\ UNCHANGED <<p_wait, current>>
    BY <1>1, <1>2, <2>5 DEF Create
  <2>7. n_started' = n_started + 1 /\ at' = [at EXCEPT ![c] = "child"] /\ UNCHANGED <<counter, next>>
    BY <2>3, <2>6 DEF ForkOne
  <2>8. Kids(2, n_started + 1)'
    <3> SUFFICES ASSUME NEW p \in Slots, p >= 2
                 PROVE  IF 2 <= p /\ p <= n_started + 2
                        THEN p_state'[p] = "RUNNABLE" /\ at'[p] = "child" /\ parent'[p] = 1 /\ handed'[p] = 0
                        ELSE p_state'[p] = "EMPTY"
      BY <2>7 DEF Kids
    <3>1. CASE p = c
      BY <1>2, <2>4, <2>6, <2>7, <3>1
    <3>2. CASE p # c
      BY <1>1, <1>2, <2>4, <2>5, <2>6, <2>7, <3>2 DEF Kids
    <3> QED
      BY <3>1, <3>2
  <2>9. MainRuns'
    BY <1>1, <1>2, <2>5, <2>6, <2>7, <2>8 DEF MainRuns
  <2>10. WaitersMain' /\ handed' \in [Slots -> {0, 1}]
         /\ at' \in [Slots -> {"outer", "fork", "reap", "child", "exit"}]
    BY <1>2, <2>5, <2>6, <2>7 DEF AppInv, WaitersMain
  <2>11. n_started' \in Nat /\ n_started' <= NPROCS - 2
    BY <2>3, <2>4, <2>7
  <2> QED
    BY <2>7, <2>9, <2>10, <2>11 DEF AppInv
<1> QED
  BY <1>3, <1>4 DEF ForkOne, do_fork

(* Process 1 waits for the first child left, which is the one schedule()   *)
(* runs; when none is left, the wait fails and process 1 goes on.          *)
LEMMA AppReap ==
  ASSUME AppInv, current # Spin, ReapOne, Table'
  PROVE  AppInv'
<1> USE AppFacts
<1>1. /\ current = 1 /\ at[1] = "reap" /\ Kids(next, n_started + 1) /\ next < NPROCS
      /\ counter + (n_started + 2 - next) <= Total
      /\ p_state[1] = "RUNNABLE" /\ next \in Slots /\ next # 1
  BY AppCases DEF ReapOne, MainRuns
<1>2. /\ p_state \in [Slots -> States] /\ handed \in [Slots -> {0, 1}] /\ eax \in [Slots -> Int]
      /\ p_wait \in [Slots -> Slots] /\ p_state[0] = "EMPTY"
  BY DEF AppInv, Table
<1>3. next' = next + 1 /\ UNCHANGED <<counter, n_started, at, parent>> /\ schedule(p_state')
  BY DEF ReapOne, wait
<1>4. CASE next > n_started + 1
  <2>1. p_state[next] = "EMPTY"
    BY <1>1, <1>4 DEF Kids
  <2>2. UNCHANGED <<p_state, p_wait, handed>>
    BY <1>1, <2>1 DEF ReapOne, wait, NoSuchProcess
  <2>3. \A p \in Slots : p # 1 => p_state[p] # "RUNNABLE"
    BY <1>1, <1>2, <1>4 DEF Kids
  <2>4. current' = 1
    <3>1. schedule(p_state)
      BY <1>3, <2>2
    <3>2. \/ current' \in Pids /\ p_state[current'] = "RUNNABLE"
          \/ current' = Spin /\ \A p \in Slots : p_state[p] # "RUNNABLE"
      BY <1>1, <1>2, <3>1, ScheduleFacts
    <3> QED
      BY <1>1, <2>3, <3>2 DEF Pids, Slots
  <2>5. Kids(next, n_started + 1)'
    BY <1>1, <1>3, <1>4, <2>2 DEF Kids
  <2>6. MainRuns'
    BY <1>1, <1>3, <2>4, <2>5 DEF MainRuns
  <2> QED
    BY <1>1, <1>3, <2>2, <2>6 DEF AppInv, WaitersMain
<1>5. CASE next <= n_started + 1
  <2>1. p_state[next] = "RUNNABLE" /\ ~NoSuchProcess(next)
    BY <1>1, <1>5 DEF Kids, NoSuchProcess
  <2>2. /\ p_state' = [p_state EXCEPT ![1] = "BLOCKED"] /\ p_wait' = [p_wait EXCEPT ![next] = 1]
        /\ eax' = [eax EXCEPT ![1] = next] /\ UNCHANGED handed
    BY <1>1, <2>1 DEF ReapOne, wait, BlockOn
  <2>3. Kids(next, n_started + 1) /\ \A p \in Slots : p >= 2 => p_state'[p] = p_state[p]
    BY <1>1, <1>2, <2>2
  <2>4. current' = next
    <3>1. p_state' \in [Slots -> States]
      BY <1>2, <2>2 DEF States
    <3>2. \A p \in Slots : p >= 2 /\ p < next => p_state'[p] # "RUNNABLE"
      BY <2>3 DEF Kids
    <3>3. p_state'[next] = "RUNNABLE" /\ next >= 2
      BY <1>1, <2>1, <2>3
    <3> QED
      BY <1>1, <1>3, <3>1, <3>2, <3>3, ScheduleFirst
  <2>5. p_state'[1] = "BLOCKED" /\ eax'[1] = next /\ p_wait'[next] = 1
    BY <1>1, <1>2, <2>2
  <2>6. \A p \in Slots : p >= 2 =>
          IF next <= p /\ p <= n_started + 1
          THEN p_state'[p] = "RUNNABLE" /\ at'[p] = "child" /\ parent'[p] = 1 /\ handed'[p] = 0
          ELSE p_state'[p] = "EMPTY"
    BY <1>3, <2>2, <2>3 DEF Kids
  <2>7. ChildRuns'
    BY <1>1, <1>3, <1>5, <2>4, <2>5, <2>6 DEF ChildRuns, Kids
  <2>8. WaitersMain' /\ handed' \in [Slots -> {0, 1}] /\ next' \in 2..NPROCS
    BY <1>1, <1>2, <1>3, <2>2 DEF AppInv, WaitersMain
  <2> QED
    BY <1>3, <2>7, <2>8 DEF AppInv
<1> QED
  BY <1>4, <1>5

(* A child ends: process 1, which waits for it, gets its status and runs.  *)
LEMMA AppChild ==
  ASSUME AppInv, current # Spin, Child, Table'
  PROVE  AppInv'
<1> USE AppFacts
<1>1. ChildRuns /\ current \in Slots /\ p_wait[current] = 1 /\ current # 1 /\ current \in Nat
  BY AppCases DEF Child, ChildRuns
<1>2. /\ p_state \in [Slots -> States] /\ handed \in [Slots -> {0, 1}] /\ p_wait \in [Slots -> Slots]
  BY DEF AppInv, Table
<1>3. /\ p_state' = [p_state EXCEPT ![1] = "RUNNABLE", ![current] = "EMPTY"]
      /\ handed' = [handed EXCEPT ![current] = Min({2, @ + 1})]
      /\ current' = 1 /\ UNCHANGED <<p_wait, parent, n_started, next, at>> /\ counter' = counter + 1
  BY <1>1 DEF Child, exit, Finish, HandOver
<1>4. handed[current] = 0
  BY <1>1 DEF ChildRuns, Kids
<1>5. Min({2, 0 + 1}) = 1
  <2>1. {2, 0 + 1} \in SUBSET Nat /\ {2, 0 + 1} # {} /\ 1 \in {2, 0 + 1}
    OBVIOUS
  <2>2. Min({2, 0 + 1}) \in {2, 0 + 1} /\ \A y \in {2, 0 + 1} : Min({2, 0 + 1}) <= y
    BY <2>1, MinNat
  <2> QED
    BY <2>1, <2>2
<1>6. handed' \in [Slots -> {0, 1}] /\ \A p \in Slots : p # current => handed'[p] = handed[p]
  BY <1>1, <1>2, <1>3, <1>4, <1>5
<1>7. \A p \in Slots : p >= 2 =>
          IF next <= p /\ p <= n_started + 1
          THEN p_state'[p] = "RUNNABLE" /\ at'[p] = "child" /\ parent'[p] = 1 /\ handed'[p] = 0
          ELSE p_state'[p] = "EMPTY"
  <2> SUFFICES ASSUME NEW p \in Slots, p >= 2
               PROVE  IF next <= p /\ p <= n_started + 1
                      THEN p_state'[p] = "RUNNABLE" /\ at'[p] = "child" /\ parent'[p] = 1 /\ handed'[p] = 0
                      ELSE p_state'[p] = "EMPTY"
    OBVIOUS
  <2>1. CASE p = current
    BY <1>1, <1>2, <1>3, <2>1 DEF ChildRuns
  <2>2. CASE p # current
    <3>1. p_state'[p] = p_state[p] /\ handed'[p] = handed[p] /\ at'[p] = at[p] /\ parent'[p] = parent[p]
      BY <1>2, <1>3, <1>6, <2>2
    <3> QED
      BY <1>1, <2>2, <3>1 DEF ChildRuns, Kids
  <2> QED
    BY <2>1, <2>2
<1>8. MainRuns'
  <2>1. at'[1] = "reap" /\ current' = 1 /\ counter' + (n_started' + 2 - next') <= Total
    BY <1>1, <1>3 DEF ChildRuns
  <2>2. Kids(next, n_started + 1)'
    BY <1>3, <1>7 DEF Kids
  <2> QED
    BY <2>1, <2>2 DEF MainRuns
<1>9. counter' \in Nat /\ counter' <= Total
  BY <1>1, <1>3 DEF ChildRuns
<1> QED
  BY <1>3, <1>6, <1>8, <1>9 DEF AppInv, WaitersMain

(* Process 1 ends: nobody waits for it, and nobody is left. *)
LEMMA AppMainExit ==
  ASSUME AppInv, current # Spin, MainExit, Table'
  PROVE  AppInv'
<1> USE AppFacts
<1>1. current = 1 /\ Kids(2, 1) /\ p_wait[1] = 0
  BY AppCases DEF MainExit, MainRuns, AppInv, WaitersMain
<1>2. /\ p_state \in [Slots -> States] /\ p_state[0] = "EMPTY"
  BY DEF AppInv, Table
<1>3. /\ p_state' = [p_state EXCEPT ![1] = "ZOMBIE"] /\ schedule(p_state')
      /\ UNCHANGED <<p_wait, parent, handed, counter, n_started, next, at>>
  BY <1>1 DEF MainExit, exit, Finish, app
<1>4. /\ p_state' \in [Slots -> States] /\ p_state'[0] = "EMPTY" /\ Kids(2, 1)'
  BY <1>1, <1>2, <1>3 DEF Kids, States
<1>5. \A p \in Slots : p_state'[p] # "RUNNABLE"
  BY <1>1, <1>2, <1>3, <1>4 DEF Kids
<1>6. current' = Spin
  <2>1. \/ current' \in Pids /\ p_state'[current'] = "RUNNABLE"
        \/ current' = Spin /\ \A p \in Slots : p_state'[p] # "RUNNABLE"
    BY <1>1, <1>3, <1>4, ScheduleFacts
  <2> QED
    BY <1>5, <2>1 DEF Pids, Slots
<1> QED
  BY <1>3, <1>4, <1>6 DEF AppInv, AllEnded, WaitersMain

LEMMA AppInvInductive ==
  ASSUME AppInv, [AppNext]_appVars
  PROVE  AppInv'
<1>1. Table'
  BY AppStepIsCall, TableInductive DEF AppInv
<1>2. CASE UNCHANGED appVars
  <2>1. UNCHANGED <<p_state, p_wait, eax, current, parent, handed, counter, n_started, next, at>>
    BY <1>2 DEF appVars, vars, kern, app
  <2>2. MainRuns' = MainRuns /\ ChildRuns' = ChildRuns /\ AllEnded' = AllEnded
    BY <2>1 DEF MainRuns, ChildRuns, AllEnded, Kids
  <2> QED
    BY <1>1, <2>1, <2>2 DEF AppInv, WaitersMain
<1>3. CASE AppNext
  <2>1. current # Spin
    BY <1>3 DEF AppNext
  <2> QED
    BY <1>1, <1>3, <2>1, AppLocal, AppFork, AppReap, AppChild, AppMainExit DEF AppNext
<1> QED
  BY <1>2, <1>3

LEMMA AppInvInitial == AppInit => AppInv
<1> SUFFICES ASSUME AppInit PROVE AppInv
  OBVIOUS
<1>1. 0 \in Slots /\ 1 \in Slots /\ 1 \in Pids /\ Spin # 1
  BY TableAssumption DEF Slots, Pids, Spin
<1>2. Table
  BY <1>1 DEF AppInit, Init, Table, States, RunsRunnable
<1>3. current = 1 /\ at[1] = "outer" /\ Kids(2, 1)
  BY <1>1, TableAssumption DEF AppInit, Init, Kids, Slots
<1> QED
  BY <1>1, <1>2, <1>3, TableAssumption, TotalAssumption DEF AppInit, Init, AppInv, MainRuns, WaitersMain

(* The application is one of the clients the kernel's theorems speak of:   *)
(* all it does is system calls, and it waits for children of its own only. *)
THEOREM AppOnKernel == AppSpec => Spec
<1>1. AppInit => Init
  BY DEF AppInit
<1> QED
  BY <1>1, AppInvInitial, AppInvInductive, AppStepIsCall, PTL DEF AppSpec, Spec

(* Whatever the size of the table and however many children there are,     *)
(* process 1 is answered by the child it waits for, no child ends before   *)
(* it is waited for, and each status is handed out once.                   *)
THEOREM StatusesOnce == AppSpec => EachStatusOnce
<1> DEFINE Once == /\ p_state[1] = "BLOCKED" /\ p_state'[1] = "RUNNABLE" => current = eax[1]
                   /\ \A p \in Pids \ {1} : p_state'[p] # "ZOMBIE"
                   /\ HandedOnce
<1>1. ASSUME AppInv, AppNext, AppInv' PROVE Once
  <2>1. current # Spin
    BY <1>1 DEF AppNext
  <2>2. p_state[1] = "BLOCKED" => ChildRuns
    BY <1>1, <2>1 DEF AppInv, MainRuns, AllEnded, Table, RunsRunnable
  <2>3. ASSUME NEW p \in Pids \ {1} PROVE p_state'[p] # "ZOMBIE"
    <3>1. p \in Slots /\ p >= 2
      BY TableAssumption DEF Pids, Slots
    <3> QED
      BY <1>1, <3>1 DEF AppInv, MainRuns, ChildRuns, AllEnded, Kids
  <2>4. HandedOnce
    BY <1>1 DEF AppInv, HandedOnce
  <2> QED
    BY <2>2, <2>3, <2>4 DEF ChildRuns
<1>2. ASSUME AppInv, [AppNext]_appVars, AppInv' PROVE [Once]_appVars
  BY <1>1, <1>2
<1> QED
  BY <1>2, AppInvInitial, AppInvInductive, PTL DEF AppSpec, EachStatusOnce
=============================================================================
