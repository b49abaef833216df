--------------------------- MODULE SchedOSProofs ---------------------------
(***************************************************************************)
(* Theorems about SchedOS, for every size of the process table, every      *)
(* number of characters and all five scheduling algorithms.                *)
(***************************************************************************)
EXTENDS SchedOS, NatMin, FiniteSetTheorems, TLAPS

States == {"EMPTY", "RUNNABLE", "BLOCKED", "ZOMBIE"}

-----------------------------------------------------------------------------
(* The cyclic search finds a member of S whenever S has one. *)
LEMMA CyclicFacts ==
  ASSUME NEW pid \in Pids, NEW S \in SUBSET Pids, NEW first \in {0, 1}
  PROVE  /\ S # {} => Cyclic(pid, S, first) \in S
         /\ S = {} => Cyclic(pid, S, first) = Spin
<1> USE SizeAssumption
<1> DEFINE ds == {d \in first..(first + NPROCS - 1) : (pid + d) % NPROCS \in S}
<1>1. pid \in Nat /\ pid < NPROCS
  BY DEF Pids
<1>2. S = {} => ds = {}
  OBVIOUS
<1>3. ASSUME NEW p \in S PROVE ds # {}
  <2> DEFINE d == IF p >= pid + first THEN p - pid ELSE p - pid + NPROCS
  <2>1. p \in Nat /\ p < NPROCS
    BY DEF Pids
  <2>2. d \in first..(first + NPROCS - 1)
    BY <1>1, <2>1
  <2>3. pid + d = p \/ pid + d = p + NPROCS
    BY <1>1, <2>1
  <2>4. (pid + d) % NPROCS = p
    BY <1>1, <2>1, <2>3
  <2> QED
    BY <2>2, <2>4
<1>4. ASSUME ds # {} PROVE (pid + Min(ds)) % NPROCS \in S
  <2>1. ds \in SUBSET Nat
    OBVIOUS
  <2>2. Min(ds) \in ds
    BY <1>4, <2>1, MinNat
  <2> QED
    BY <2>2
<1> HIDE DEF ds
<1>5. Cyclic(pid, S, first) = IF ds = {} THEN Spin ELSE (pid + Min(ds)) % NPROCS
  BY DEF Cyclic, ds
<1> QED
  BY <1>2, <1>3, <1>4, <1>5

LEMMA LowestFacts ==
  ASSUME NEW st
  PROVE  /\ Runnable(st) # {} => LowestPid(st) \in Runnable(st)
         /\ Runnable(st) = {} => LowestPid(st) = Spin
<1>1. Runnable(st) \in SUBSET Nat
  BY SizeAssumption DEF Runnable, Pids
<1> QED
  BY <1>1, MinNat DEF LowestPid

(* A least level exists among processes, each of which has one. *)
LEMMA LeastLevel ==
  ASSUME NEW D \in SUBSET Pids, D # {}, NEW level, \A p \in D : level[p] \in Int
  PROVE  /\ \E p \in D : level[p] = Min({level[q] : q \in D})
         /\ \A p \in D : Min({level[q] : q \in D}) <= level[p]
<1>1. IsFiniteSet(Pids)
  BY SizeAssumption, FS_Interval DEF Pids
<1>2. IsFiniteSet(D)
  BY <1>1, FS_Subset
<1> QED
  BY <1>2, MinValue

-----------------------------------------------------------------------------
(* Process states the scheduler may be called with. *)
StatesOK(st) ==
  /\ st \in [Slots -> States]
  /\ \A p \in Pids : st[p] # "EMPTY"
  /\ scheduling_algorithm # 4 => \A p \in Pids : st[p] # "BLOCKED"

LevelsOK ==
  /\ scheduling_algorithm \in 0..4
  /\ p_priority \in [Slots -> Int] /\ p_share \in [Slots -> Int] /\ p_queue \in [Slots -> Int]

KernOK == StatesOK(p_state) /\ LevelsOK /\ current \in Pids \cup {Spin} /\ StopsWhenAllExited

(* What a call of schedule() must leave behind: its choice is sound, the   *)
(* same processes are alive, and the one chosen is the best of them.       *)
Scheduled(st) ==
  /\ current' \in Pids \cup {Spin} /\ StatesOK(p_state)' /\ StopsWhenAllExited'
  /\ Live(p_state') = Live(st)
  /\ \A p \in Pids, q \in Live(st) : current' = p =>
       /\ scheduling_algorithm = 2 => p_priority[p] <= p_priority[q]
       /\ scheduling_algorithm = 4 => p_queue[p] <= p_queue[q]

LEMMA PidsAreSlots == Pids \subseteq Slots /\ Spin \notin Pids
BY SizeAssumption DEF Pids, Slots, Spin

(* Algorithms 0 and 1. *)
LEMMA PlainTurn ==
  ASSUME NEW st, StatesOK(st), LevelsOK, current \in Pids, scheduling_algorithm \in {0, 1},
         schedule(st), UNCHANGED <<levels, build>>
  PROVE  Scheduled(st)
<1>1. current' = (IF scheduling_algorithm = 0 THEN RoundRobin(st) ELSE LowestPid(st)) /\ p_state' = st
  BY DEF schedule, Pick
<1>2. Runnable(st) \in SUBSET Pids
  BY DEF Runnable
<1>3. /\ Runnable(st) # {} => current' \in Runnable(st)
      /\ Runnable(st) = {} => current' = Spin
  BY <1>1, <1>2, CyclicFacts, LowestFacts DEF RoundRobin
<1>4. Runnable(st) = {} => \A p \in Pids : st[p] = "ZOMBIE"
  BY PidsAreSlots DEF StatesOK, States, Runnable
<1>5. current' \in Pids \cup {Spin} /\ UNCHANGED scheduling_algorithm
  BY <1>2, <1>3 DEF build
<1>6. StatesOK(p_state)'
  BY <1>1, <1>5 DEF StatesOK
<1>7. StopsWhenAllExited'
  BY <1>1, <1>2, <1>3, <1>4, <1>5, PidsAreSlots DEF StopsWhenAllExited
<1> QED
  BY <1>1, <1>5, <1>6, <1>7 DEF Scheduled

(* Algorithm 2. *)
LEMMA PriorityTurn ==
  ASSUME NEW st, StatesOK(st), LevelsOK, current \in Pids, scheduling_algorithm = 2,
         schedule(st), UNCHANGED <<levels, build>>
  PROVE  Scheduled(st)
<1>1. current' = Priority(st) /\ p_state' = st
  BY DEF schedule, Pick
<1>2. UNCHANGED scheduling_algorithm /\ StatesOK(p_state)'
  BY <1>1 DEF build, StatesOK
<1>3. CASE st[current] # "RUNNABLE"
  <2>1. current' = Spin
    BY <1>1, <1>3 DEF Priority
  <2>2. StopsWhenAllExited'
    BY <1>2 DEF StopsWhenAllExited
  <2> QED
    BY <1>1, <1>2, <2>1, <2>2, PidsAreSlots DEF Scheduled
<1>4. CASE st[current] = "RUNNABLE"
  <2> DEFINE R == Runnable(st)
             least == Min({p_priority[p] : p \in R})
             best == {p \in R : p_priority[p] <= least}
  <2>1. R \in SUBSET Pids /\ R # {} /\ \A p \in R : p_priority[p] \in Int
    BY <1>4, PidsAreSlots DEF Runnable, LevelsOK
  <2>2. (\E p \in R : p_priority[p] = least) /\ \A p \in R : least <= p_priority[p]
    <3> HIDE DEF R
    <3> QED BY <2>1, LeastLevel
  <2>3. current' = Cyclic(current, best, 1)
    BY <1>1, <1>4 DEF Priority
  <2> HIDE DEF least
  <2>4. best \in SUBSET Pids /\ best # {}
    BY <2>1, <2>2
  <2>5. current' \in best
    <3> HIDE DEF best
    <3> QED BY <2>3, <2>4, CyclicFacts
  <2>6. Live(st) = R
    BY DEF Live, Runnable, StatesOK
  <2>7. current' # Spin /\ current' \in Pids
    BY <2>4, <2>5, PidsAreSlots
  <2>8. \A q \in Live(st) : p_priority[current'] <= p_priority[q]
    BY <2>1, <2>2, <2>5, <2>6
  <2>9. StopsWhenAllExited'
    BY <2>7 DEF StopsWhenAllExited
  <2> QED
    BY <1>1, <1>2, <2>7, <2>8, <2>9 DEF Scheduled
<1> QED
  BY <1>3, <1>4

(* Algorithm 3. *)
LEMMA ShareTurnFacts ==
  ASSUME NEW st, StatesOK(st), LevelsOK, current \in Pids, scheduling_algorithm = 3,
         schedule(st), UNCHANGED <<levels, build>>
  PROVE  Scheduled(st)
<1> DEFINE left == HasTurns(st)
           second == {p \in Runnable(st) : 0 < p_share[p]}
<1>1. ShareTurn(st)
  BY DEF schedule
<1>2. /\ current' = (IF left # {} THEN Cyclic(current, left, 0) ELSE Cyclic(current, second, 0))
      /\ p_state' = st
  BY <1>1 DEF ShareTurn
<1>3. left \in SUBSET Pids /\ second \in SUBSET Pids
  BY DEF HasTurns, Runnable
<1>4. /\ UNCHANGED <<scheduling_algorithm, p_share>> /\ StatesOK(p_state)'
  BY <1>2 DEF build, levels, StatesOK
<1>5. current' \in Pids \cup {Spin}
  <2> HIDE DEF left, second
  <2> QED BY <1>2, <1>3, CyclicFacts, PidsAreSlots
<1>6. StopsWhenAllExited'
  BY <1>4 DEF StopsWhenAllExited
<1> QED
  BY <1>2, <1>4, <1>5, <1>6 DEF Scheduled

(* Algorithm 4. *)
LEMMA QueueTurnFacts ==
  ASSUME NEW st, StatesOK(st), LevelsOK, current \in Pids, scheduling_algorithm = 4,
         schedule(st), UNCHANGED <<levels, build>>
  PROVE  Scheduled(st)
<1>1. QueueTurn(st)
  BY DEF schedule
<1>2. UNCHANGED <<scheduling_algorithm, p_queue>>
  BY DEF build, levels
<1>3. CASE Live(st) = {}
  <2>1. current' = Spin /\ p_state' = st
    BY <1>1, <1>3 DEF QueueTurn
  <2>2. \A p \in Pids : st[p] = "ZOMBIE"
    BY <1>3, PidsAreSlots DEF Live, StatesOK, States
  <2>3. StatesOK(p_state)' /\ StopsWhenAllExited'
    BY <1>2, <2>1, <2>2 DEF StatesOK, StopsWhenAllExited
  <2> QED
    BY <1>3, <2>1, <2>3 DEF Scheduled
<1>4. CASE Live(st) # {}
  <2> DEFINE least == Min({p_queue[p] : p \in Live(st)})
  <2>1. Live(st) \in SUBSET Pids /\ \A p \in Live(st) : p_queue[p] \in Int
    BY PidsAreSlots DEF Live, LevelsOK
  <2>2. (\E p \in Live(st) : p_queue[p] = least) /\ \A p \in Live(st) : least <= p_queue[p]
    BY <1>4, <2>1, LeastLevel
  <2>3. /\ p_state' = QueueStates(st, least)
        /\ current' = CASE least = 0 -> RoundRobin(p_state')
                        [] least = 1 -> LowestPid(p_state')
                        [] OTHER -> Spin
    BY <1>1, <1>4 DEF QueueTurn
  <2> HIDE DEF least
  <2>4. /\ \A p \in Live(st) : p_state'[p] = IF p_queue[p] = least THEN "RUNNABLE" ELSE "BLOCKED"
        /\ \A p \in Pids \ Live(st) : p_state'[p] = st[p]
    BY <2>1, <2>3, PidsAreSlots DEF QueueStates
  <2>5. StatesOK(p_state)'
    <3>1. p_state' \in [Slots -> States]
      BY <2>3 DEF QueueStates, StatesOK, States
    <3> QED
      BY <1>2, <2>4, <3>1 DEF StatesOK
  <2>6. Live(p_state') = Live(st)
    BY <2>4 DEF Live
  <2>7. /\ Runnable(p_state') = {p \in Live(st) : p_queue[p] = least}
        /\ Runnable(p_state') # {}
    BY <2>1, <2>2, <2>4 DEF Live, Runnable
  <2>8. least \in {0, 1} => current' \in Runnable(p_state')
    <3>1. Runnable(p_state') \in SUBSET Pids
      BY DEF Runnable
    <3>2. CASE least = 0
      BY <2>3, <2>7, <3>1, <3>2, CyclicFacts DEF RoundRobin
    <3>3. CASE least = 1
      BY <2>3, <2>7, <3>3, LowestFacts
    <3> QED
      BY <3>2, <3>3
  <2>9. least \notin {0, 1} => current' = Spin
    BY <2>3
  <2>10. current' \in Pids \cup {Spin} /\ (current' \in Pids => p_queue[current'] = least)
    BY <2>1, <2>7, <2>8, <2>9, PidsAreSlots
  <2>11. StopsWhenAllExited'
    <3>1. current' = Spin => \E p \in Pids : p_queue[p] \notin {0, 1}
      BY <2>1, <2>2, <2>7, <2>8, PidsAreSlots
    <3> QED
      BY <1>2, <3>1 DEF StopsWhenAllExited
  <2> QED
    BY <2>2, <2>5, <2>6, <2>10, <2>11 DEF Scheduled
<1> QED
  BY <1>3, <1>4

LEMMA ScheduleFacts ==
  ASSUME NEW st, StatesOK(st), LevelsOK, current \in Pids, schedule(st), UNCHANGED <<levels, build>>
  PROVE  Scheduled(st)
<1>1. scheduling_algorithm \in {0, 1} \cup {2} \cup {3} \cup {4}
  BY DEF LevelsOK
<1> QED
  BY <1>1, PlainTurn, PriorityTurn, ShareTurnFacts, QueueTurnFacts

-----------------------------------------------------------------------------
AtOK == at \in [Slots -> {"start", "try", "print", "load", "store", "move", "put", "unlock", "yield", "exit"}]

LEMMA AtInvariant == Spec => []AtOK
<1>1. Init => AtOK
  BY DEF Init, AtOK
<1>2. AtOK /\ [Next]_vars => AtOK'
  BY DEF AtOK, Next, Clock, App, Start, sys_write, Lock, Load, StoreChar, StoreCursor, Unlock, sys_yield, sys_exit,
         Goto, Top, vars
<1> QED
  BY <1>1, <1>2, PTL DEF Spec

(* A step that neither schedules nor sets a level. *)
LEMMA QuietKeepsKern ==
  ASSUME KernOK, UNCHANGED <<p_state, current, levels, build>>
  PROVE  KernOK'
BY DEF KernOK, StatesOK, LevelsOK, StopsWhenAllExited, Runnable, levels, build

(* A process sets a level while it runs, so scheduling has not stopped. *)
LEMMA SetLevelKeepsKern ==
  ASSUME KernOK, NEW p \in Pids, current = p, NEW v \in Levels, SetLevel(p, v),
         UNCHANGED <<p_state, current, build>>
  PROVE  KernOK'
<1>1. /\ p_priority' \in [Slots -> Int] /\ p_share' \in [Slots -> Int]
      /\ p_queue' \in [Slots -> Int] /\ UNCHANGED scheduling_algorithm
  BY LevelAssumption DEF SetLevel, KernOK, LevelsOK, build
<1>2. current' # Spin
  BY PidsAreSlots
<1> QED
  BY <1>1, <1>2 DEF KernOK, StatesOK, LevelsOK, StopsWhenAllExited

(* The steps that call schedule(), and what they hand to it. *)
Hands(st) ==
  /\ current \in Pids /\ schedule(st) /\ UNCHANGED <<levels, build>>
  /\ st = p_state \/ \E p \in Pids : st = [p_state EXCEPT ![p] = "ZOMBIE"]

LEMMA HandsFacts ==
  ASSUME KernOK, NEW st, Hands(st)
  PROVE  KernOK' /\ Scheduled(st)
<1>1. StatesOK(st)
  BY PidsAreSlots DEF Hands, KernOK, StatesOK, States
<1>2. Scheduled(st)
  BY <1>1, ScheduleFacts DEF Hands, KernOK
<1>3. LevelsOK'
  BY DEF Hands, KernOK, LevelsOK, levels, build
<1> QED
  BY <1>2, <1>3 DEF Scheduled, KernOK

(* Every step either calls schedule() or goes on with the same process. *)
LEMMA StepKinds ==
  ASSUME KernOK, Next
  PROVE  \/ \E st : Hands(st)
         \/ \E p \in Pids : Start(p) /\ current = p
         \/ \E p \in Pids : /\ sys_write(p) \/ Lock(p) \/ Load(p) \/ StoreChar(p) \/ StoreCursor(p) \/ Unlock(p)
                            /\ UNCHANGED <<p_state, current, levels, build>>
<1>1. CASE Clock
  <2>1. Hands(p_state)
    BY <1>1 DEF Clock, Hands, KernOK
  <2> QED
    BY <2>1
<1>2. ASSUME NEW p \in Pids, current = p, sys_yield(p) PROVE Hands(p_state)
  BY <1>2 DEF sys_yield, Hands
<1>3. ASSUME NEW p \in Pids, current = p, sys_exit(p)
      PROVE  Hands([p_state EXCEPT ![p] = "ZOMBIE"])
  BY <1>3 DEF sys_exit, Hands
<1>4. ASSUME NEW p \in Pids, sys_write(p) \/ Lock(p) \/ Load(p) \/ StoreChar(p) \/ StoreCursor(p) \/ Unlock(p)
      PROVE  UNCHANGED <<p_state, current, levels, build>>
  BY <1>4 DEF sys_write, Lock, Load, StoreChar, StoreCursor, Unlock, kern
<1> QED
  BY <1>1, <1>2, <1>3, <1>4 DEF Next, App

LEMMA KernOKInductive ==
  ASSUME KernOK, [Next]_vars
  PROVE  KernOK'
<1>1. ASSUME NEW st, Hands(st) PROVE KernOK'
  BY <1>1, HandsFacts
<1>2. ASSUME NEW p \in Pids, Start(p), current = p PROVE KernOK'
  <2>1. UNCHANGED <<p_state, current, build>>
    BY <1>2 DEF Start, kern
  <2> QED
    BY <1>2, <2>1, QuietKeepsKern, SetLevelKeepsKern DEF Start
<1>3. CASE UNCHANGED vars
  BY <1>3, QuietKeepsKern DEF vars, kern
<1> QED
  BY <1>1, <1>2, <1>3, StepKinds, QuietKeepsKern

LEMMA KernInvariant == Spec => []KernOK
<1>1. Init => KernOK
  BY SizeAssumption, LevelAssumption
  DEF Init, KernOK, StatesOK, LevelsOK, StopsWhenAllExited, States, Slots, Pids, Spin
<1>2. KernOK /\ [Next]_vars => KernOK'
  BY KernOKInductive
<1> QED
  BY <1>1, <1>2, PTL DEF Spec

(* Under algorithms 0, 1 and 4, with a table of any size and whatever      *)
(* queues the processes choose, schedule() goes on finding a process until *)
(* all have exited or the least queue number is invalid.                   *)
THEOREM SchedulingGoesOn == Spec => []StopsWhenAllExited
<1>1. KernOK => StopsWhenAllExited
  BY DEF KernOK
<1> QED
  BY <1>1, KernInvariant, PTL

(* Whenever algorithm 2 or 4 hands over the CPU, the process chosen has    *)
(* the best level of all that are alive, the blocked ones included.        *)
THEOREM PrioritiesRespected == Spec => BestIsChosen
<1> DEFINE Best == \A p \in Pids : current' = p /\ (current # p \/ UNCHANGED at) =>
                     \A q \in Live(p_state') :
                       /\ scheduling_algorithm = 2 => p_priority[p] <= p_priority[q]
                       /\ scheduling_algorithm = 4 => p_queue[p] <= p_queue[q]
<1>1. ASSUME KernOK, AtOK, Next PROVE Best
  <2>1. CASE \E st : Hands(st)
    BY <1>1, <2>1, HandsFacts DEF Scheduled
  <2>2. ASSUME NEW p \in Pids, Start(p) \/ sys_write(p) \/ Lock(p) \/ Load(p) \/ StoreChar(p) \/ StoreCursor(p) \/ Unlock(p)
        PROVE  at' # at
    <3>1. at'[p] # at[p]
      BY <1>1, <2>2, PidsAreSlots
      DEF AtOK, Start, sys_write, Lock, Load, StoreChar, StoreCursor, Unlock, Goto, Top
    <3> QED
      BY <3>1
  <2>3. ASSUME NEW p \in Pids, Start(p), current = p PROVE current' = current
    BY <2>3 DEF Start, kern
  <2>4. CASE at' # at /\ current' = current
    BY <2>4
  <2> QED
    BY <1>1, <2>1, <2>2, <2>3, <2>4, StepKinds
<1> QED
  BY <1>1, KernInvariant, AtInvariant, PTL DEF Spec, BestIsChosen

-----------------------------------------------------------------------------
(* The applications: each is in the loop its build gave it, and has turns  *)
(* left exactly until it exits.                                            *)
LoopOK ==
  /\ AtOK /\ locked_write \in BOOLEAN
  /\ i \in [Slots -> Nat] /\ reg \in [Slots -> Nat]
  /\ \A p \in Pids :
       /\ at[p] \in {"try", "load", "store", "move", "put", "unlock"} => locked_write
       /\ at[p] = "print" => ~locked_write
       /\ i[p] <= RUNCOUNT /\ (i[p] = RUNCOUNT <=> at[p] = "exit")

(* One process at most is inside, and the lock says whether one is. *)
LockOK == (lock = 0 /\ Inside = {}) \/ (lock = 1 /\ \E p \in Pids : Inside = {p})

(* The characters that have been printed, numbered for each process, of    *)
(* all that ever will be.                                                  *)
Turns == Pids \X (1..RUNCOUNT)
Out   == {t \in Turns : t[2] <= Printed(t[1])}

Drawn == Cardinality(Out)

(* As many cells from the first on are in use as characters were printed,  *)
(* and each process has its share of them.                                 *)
ScreenOK ==
  /\ screen \in [Cells -> Slots]
  /\ \A c \in Cells : screen[c] # 0 <=> c < Drawn
  /\ \A p \in Pids : Cardinality({c \in Cells : screen[c] = p}) = Printed(p)

(* The cursor is past them, but while a process is between its two stores; *)
(* and what a process has in its register is where its character belongs.  *)
CursorOK ==
  /\ cursorpos \in Nat
  /\ (\A p \in Pids : at[p] \notin {"move", "put"}) => cursorpos = Drawn
  /\ \A p \in Pids :
       /\ at[p] = "store" => reg[p] = cursorpos /\ cursorpos = Drawn
       /\ at[p] = "move" => reg[p] = cursorpos /\ Drawn = reg[p] + 1
       /\ at[p] = "put" => reg[p] = Drawn /\ cursorpos = reg[p] + 1

AppInv == LoopOK /\ LockOK /\ ScreenOK /\ CursorOK

LEMMA TurnsFacts ==
  /\ IsFiniteSet(Turns) /\ Cardinality(Turns) = RUNCOUNT * (NPROCS - 1)
  /\ IsFiniteSet(Out) /\ Cardinality(Out) \in Nat
<1>1. IsFiniteSet(Pids) /\ Cardinality(Pids) = NPROCS - 1
  BY SizeAssumption, FS_Interval DEF Pids
<1>2. IsFiniteSet(1..RUNCOUNT) /\ Cardinality(1..RUNCOUNT) = RUNCOUNT
  BY SizeAssumption, FS_Interval
<1>3. IsFiniteSet(Turns) /\ Cardinality(Turns) = (NPROCS - 1) * RUNCOUNT
  BY <1>1, <1>2, FS_Product DEF Turns
<1>4. Out \in SUBSET Turns
  BY DEF Out
<1>5. IsFiniteSet(Out) /\ Cardinality(Out) \in Nat
  BY <1>3, <1>4, FS_Subset, FS_CardinalityType
<1> QED
  BY <1>3, <1>5, SizeAssumption

LEMMA CellsFinite ==
  ASSUME NEW S \in SUBSET Cells
  PROVE  IsFiniteSet(S) /\ Cardinality(S) \in Nat
<1>1. IsFiniteSet(Cells)
  BY SizeAssumption, FS_Interval DEF Cells
<1> QED
  BY <1>1, FS_Subset, FS_CardinalityType

(* A step that prints nothing, and leaves the screen alone. *)
LEMMA QuietKeepsScreen ==
  ASSUME ScreenOK, UNCHANGED screen, \A p \in Pids : Printed(p)' = Printed(p)
  PROVE  ScreenOK' /\ Drawn' = Drawn
<1>1. Out' = Out
  <2>1. \A t \in Turns : t[1] \in Pids
    BY DEF Turns
  <2> QED
    BY <2>1 DEF Out, Turns, Pids
<1>2. Drawn' = Drawn
  BY <1>1 DEF Drawn
<1> QED
  BY <1>2 DEF ScreenOK, Cells, Slots, Pids

(* A step after which the same processes are between the load of the       *)
(* cursor and the stores.                                                  *)
LEMMA QuietKeepsCursor ==
  ASSUME CursorOK, UNCHANGED cursorpos, Drawn' = Drawn,
         \A q \in Pids : at'[q] \in {"store", "move", "put"} => at'[q] = at[q] /\ reg'[q] = reg[q],
         \A q \in Pids : at[q] \in {"move", "put"} => at'[q] = at[q]
  PROVE  CursorOK'
<1>1. (\A q \in Pids : at'[q] \notin {"move", "put"}) => \A q \in Pids : at[q] \notin {"move", "put"}
  OBVIOUS
<1> QED
  BY <1>1 DEF CursorOK, Pids

(* p prints a character after those printed so far: there is room for it,  *)
(* and it falls on an unused cell.                                         *)
LEMMA PrintKeepsScreen ==
  ASSUME LoopOK, ScreenOK, NEW p \in Pids, at[p] \in {"print", "store", "put"},
         NEW next \in {"move", "unlock", "yield"}, at' = [at EXCEPT ![p] = next], UNCHANGED i,
         screen' = [screen EXCEPT ![Drawn] = p]
  PROVE  ScreenOK' /\ Drawn' = Drawn + 1
<1> DEFINE k == i[p] + 1
<1>1. p \in Slots /\ i[p] \in Nat /\ i[p] < RUNCOUNT /\ p # 0
  <2>1. p \in Slots /\ p # 0
    BY PidsAreSlots DEF Pids
  <2>2. i[p] \in Nat /\ i[p] <= RUNCOUNT /\ i[p] # RUNCOUNT
    BY <2>1 DEF LoopOK
  <2> QED
    BY <2>1, <2>2, SizeAssumption
<1>2. Printed(p) = i[p] /\ Printed(p)' = k /\ \A q \in Pids \ {p} : Printed(q)' = Printed(q)
  <2>1. at'[p] = next /\ i'[p] = i[p] /\ \A q \in Pids \ {p} : at'[q] = at[q] /\ i'[q] = i[q]
    BY <1>1, PidsAreSlots DEF LoopOK, AtOK
  <2>2. at[p] \notin {"move", "unlock", "yield"}
    OBVIOUS
  <2> QED
    BY <1>1, <2>1, <2>2 DEF Printed
<1>3. <<p, k>> \in Turns /\ <<p, k>> \notin Out
  BY <1>1, <1>2, SizeAssumption DEF Turns, Out
<1>4. Out' = Out \cup {<<p, k>>}
  <2>1. ASSUME NEW t \in Turns PROVE t[2] <= Printed(t[1])' <=> t[2] <= Printed(t[1]) \/ t = <<p, k>>
    <3>1. t[1] \in Pids /\ t[2] \in 1..RUNCOUNT /\ t = <<t[1], t[2]>>
      BY DEF Turns
    <3>2. CASE t[1] = p
      BY <1>1, <1>2, <3>1, <3>2, SizeAssumption
    <3>3. CASE t[1] # p
      BY <1>2, <3>1, <3>3
    <3> QED
      BY <3>2, <3>3
  <2>2. Out' = {t \in Turns : t[2] <= Printed(t[1])'}
    BY DEF Out, Turns, Pids
  <2> QED
    BY <1>3, <2>1, <2>2 DEF Out
<1>5. Cardinality(Out') = Drawn + 1 /\ Drawn' = Drawn + 1 /\ Drawn \in Nat
  <2>1. Cardinality(Out \cup {<<p, k>>}) = Cardinality(Out) + 1
    BY <1>3, TurnsFacts, FS_AddElement, Zenon
  <2> QED
    BY <1>4, <2>1, TurnsFacts DEF Drawn
<1>6. Drawn \in Cells
  <2>1. Out' \in SUBSET Turns
    BY <1>3, <1>4 DEF Out
  <2>2. Cardinality(Out') <= Cardinality(Turns)
    BY <2>1, TurnsFacts, FS_Subset
  <2> DEFINE total == RUNCOUNT * (NPROCS - 1)
  <2>3. total \in Int
    BY SizeAssumption
  <2>4. Drawn + 1 <= total
    BY <1>5, <2>2, TurnsFacts
  <2> HIDE DEF total
  <2>5. Drawn \in 0..(total - 1)
    BY <1>5, <2>3, <2>4
  <2> QED
    BY <2>5 DEF Cells, total
<1>7. screen[Drawn] = 0
  BY <1>5, <1>6 DEF ScreenOK
<1>8. screen' \in [Cells -> Slots]
  BY <1>1 DEF ScreenOK
<1>9. \A c \in Cells : screen'[c] # 0 <=> c < Drawn'
  <2>1. \A c \in Cells : c \in Int
    BY SizeAssumption DEF Cells
  <2> QED
    BY <1>1, <1>5, <1>6, <2>1 DEF ScreenOK
<1> DEFINE Of(s, q) == {c \in Cells : s[c] = q}
<1>10. ASSUME NEW q \in Pids PROVE Cardinality(Of(screen', q)) = Printed(q)'
  <2>1. Of(screen, q) \in SUBSET Cells
    OBVIOUS
  <2>2. IsFiniteSet(Of(screen, q))
    BY <2>1, CellsFinite
  <2>3. Cardinality(Of(screen, q)) = Printed(q)
    BY DEF ScreenOK
  <2>4. CASE q = p
    <3>1. Of(screen', q) = Of(screen, q) \cup {Drawn} /\ Drawn \notin Of(screen, q)
      BY <1>1, <1>6, <1>7, <2>4 DEF ScreenOK
    <3> HIDE DEF Of
    <3>2. Cardinality(Of(screen, q) \cup {Drawn}) = Cardinality(Of(screen, q)) + 1
      BY <2>2, <3>1, FS_AddElement, Zenon
    <3> QED
      BY <1>2, <2>3, <2>4, <3>1, <3>2
  <2>5. CASE q # p
    <3>1. q # 0
      BY DEF Pids
    <3>2. Of(screen', q) = Of(screen, q)
      BY <1>6, <1>7, <2>5, <3>1 DEF ScreenOK
    <3> QED
      BY <1>2, <2>3, <2>5, <3>2
  <2> QED
    BY <2>4, <2>5
<1> QED
  BY <1>5, <1>8, <1>9, <1>10 DEF ScreenOK, Cells, Slots, Pids

(* The moves of p from one place to the next: what the loop promises is    *)
(* kept when p stays in its loop and counts its turns.                     *)
LEMMA MoveKeepsLoop ==
  ASSUME LoopOK, NEW p \in Pids,
         NEW next \in {"try", "print", "load", "store", "move", "put", "unlock", "yield", "exit"},
         at' = [at EXCEPT ![p] = next], locked_write' = locked_write, reg' \in [Slots -> Nat],
         i' \in [Slots -> Nat], \A q \in Pids \ {p} : i'[q] = i[q],
         next \in {"try", "load", "store", "move", "put", "unlock"} => locked_write,
         next = "print" => ~locked_write,
         i'[p] <= RUNCOUNT, i'[p] = RUNCOUNT <=> next = "exit"
  PROVE  LoopOK'
<1>1. AtOK' /\ at'[p] = next /\ \A q \in Pids \ {p} : at'[q] = at[q]
  BY PidsAreSlots DEF LoopOK, AtOK, Slots
<1>2. ASSUME NEW q \in Pids
      PROVE  /\ at'[q] \in {"try", "load", "store", "move", "put", "unlock"} => locked_write'
             /\ at'[q] = "print" => ~locked_write'
             /\ i'[q] <= RUNCOUNT /\ (i'[q] = RUNCOUNT <=> at'[q] = "exit")
  <2>1. CASE q = p
    BY <1>1, <2>1
  <2>2. CASE q # p
    BY <1>1, <2>2 DEF LoopOK
  <2> QED
    BY <2>1, <2>2
<1>3. locked_write' \in BOOLEAN /\ i' \in [Slots' -> Nat] /\ reg' \in [Slots' -> Nat]
  BY DEF LoopOK, Slots
<1> QED
  BY <1>1, <1>2, <1>3 DEF LoopOK, Pids

(* A move that neither enters nor leaves the critical section. *)
LEMMA MoveKeepsLock ==
  ASSUME LoopOK, LockOK, NEW p \in Pids,
         NEW next \in {"try", "print", "load", "store", "move", "put", "unlock", "yield", "exit"},
         at' = [at EXCEPT ![p] = next], lock' = lock,
         at[p] \in {"load", "store", "move", "put", "unlock"} <=> next \in {"load", "store", "move", "put", "unlock"}
  PROVE  LockOK'
<1>1. at'[p] = next /\ \A q \in Pids \ {p} : at'[q] = at[q]
  BY PidsAreSlots DEF LoopOK, AtOK
<1>2. Inside' = Inside
  BY <1>1 DEF Inside, Pids
<1> QED
  BY <1>2 DEF LockOK, Pids

(* Whoever is inside is there alone. *)
LEMMA AloneInside ==
  ASSUME LockOK, NEW p \in Pids, at[p] \in {"load", "store", "move", "put", "unlock"}
  PROVE  \A q \in Pids \ {p} : at[q] \notin {"load", "store", "move", "put", "unlock"}
BY DEF LockOK, Inside

LEMMA StartKeepsApp ==
  ASSUME AppInv, NEW p \in Pids, Start(p)
  PROVE  AppInv'
<1>1. at[p] = "start" /\ at' = [at EXCEPT ![p] = Top] /\ UNCHANGED <<memory, build, i, reg>>
  BY DEF Start, Goto
<1>2. LoopOK /\ LockOK /\ ScreenOK /\ CursorOK
  BY DEF AppInv
<1>3. Top \in {"try", "print"} /\ (Top = "try" => locked_write) /\ (Top = "print" => ~locked_write)
  BY DEF Top
<1>4. p \in Slots /\ i[p] <= RUNCOUNT /\ i[p] # RUNCOUNT
  BY <1>1, <1>2, PidsAreSlots DEF LoopOK
<1>5. LoopOK'
  <2>1. reg' \in [Slots -> Nat] /\ i' \in [Slots -> Nat] /\ locked_write' = locked_write
    BY <1>1, <1>2 DEF LoopOK, build
  <2> QED
    BY <1>1, <1>2, <1>3, <1>4, <2>1, MoveKeepsLoop
<1>6. LockOK'
  BY <1>1, <1>2, <1>3, MoveKeepsLock DEF memory
<1>7. at'[p] = Top /\ \A q \in Pids \ {p} : at'[q] = at[q]
  BY <1>1, <1>2, PidsAreSlots DEF LoopOK, AtOK
<1>8. ScreenOK' /\ Drawn' = Drawn
  <2>1. \A q \in Pids : Printed(q)' = Printed(q)
    BY <1>1, <1>3, <1>7 DEF Printed
  <2> QED
    BY <1>1, <1>2, <2>1, QuietKeepsScreen DEF memory
<1>9. CursorOK'
  BY <1>1, <1>2, <1>3, <1>7, <1>8, QuietKeepsCursor DEF memory
<1> QED
  BY <1>5, <1>6, <1>8, <1>9 DEF AppInv

(* With the kernel's sys_write nobody uses the lock. *)
LEMMA WriteKeepsApp ==
  ASSUME AppInv, NEW p \in Pids, sys_write(p)
  PROVE  AppInv'
<1>1. /\ at[p] = "print" /\ at' = [at EXCEPT ![p] = "yield"]
      /\ lock' = lock /\ locked_write' = locked_write /\ UNCHANGED <<i, reg>>
  BY DEF sys_write, Goto, build
<1>2. LoopOK /\ LockOK /\ ScreenOK /\ CursorOK
  BY DEF AppInv
<1>3. i[p] <= RUNCOUNT /\ i[p] # RUNCOUNT
  BY <1>1, <1>2 DEF LoopOK
<1>4. LoopOK'
  <2>1. reg' \in [Slots -> Nat] /\ i' \in [Slots -> Nat]
    BY <1>1, <1>2 DEF LoopOK
  <2> QED
    BY <1>1, <1>2, <1>3, <2>1, MoveKeepsLoop
<1>5. LockOK'
  BY <1>1, <1>2, MoveKeepsLock
<1>6. \A q \in Pids : at[q] \notin {"store", "move", "put"}
  BY <1>1, <1>2 DEF LoopOK
<1>7. cursorpos = Drawn /\ cursorpos' = cursorpos + 1 /\ screen' = [screen EXCEPT ![Drawn] = p]
  BY <1>2, <1>6 DEF CursorOK, sys_write
<1>8. ScreenOK' /\ Drawn' = Drawn + 1
  BY <1>1, <1>2, <1>7, PrintKeepsScreen
<1>9. CursorOK'
  <2>1. \A q \in Pids : at'[q] \notin {"store", "move", "put"}
    BY <1>1, <1>2, <1>6, PidsAreSlots DEF LoopOK, AtOK
  <2>2. cursorpos' \in Nat /\ cursorpos' = Drawn'
    BY <1>2, <1>7, <1>8 DEF CursorOK
  <2> QED
    BY <2>1, <2>2 DEF CursorOK, Pids
<1> QED
  BY <1>4, <1>5, <1>8, <1>9 DEF AppInv

LEMMA LockKeepsApp ==
  ASSUME AppInv, NEW p \in Pids, Lock(p)
  PROVE  AppInv'
<1>1. /\ at[p] = "try" /\ at' = [at EXCEPT ![p] = "load"] /\ lock = 0 /\ lock' = 1
      /\ locked_write' = locked_write /\ UNCHANGED <<cursorpos, screen, i, reg>>
  BY DEF Lock, Goto, build
<1>2. LoopOK /\ LockOK /\ ScreenOK /\ CursorOK
  BY DEF AppInv
<1>3. i[p] <= RUNCOUNT /\ i[p] # RUNCOUNT /\ locked_write
  BY <1>1, <1>2 DEF LoopOK
<1>4. LoopOK'
  <2>1. reg' \in [Slots -> Nat] /\ i' \in [Slots -> Nat]
    BY <1>1, <1>2 DEF LoopOK
  <2> QED
    BY <1>1, <1>2, <1>3, <2>1, MoveKeepsLoop
<1>5. at'[p] = "load" /\ \A q \in Pids \ {p} : at'[q] = at[q]
  BY <1>1, <1>2, PidsAreSlots DEF LoopOK, AtOK
<1>6. LockOK'
  <2>1. Inside = {}
    BY <1>1, <1>2 DEF LockOK
  <2>2. Inside' = {p}
    BY <1>5, <2>1 DEF Inside, Pids
  <2> QED
    BY <1>1, <2>2 DEF LockOK, Pids
<1>7. ScreenOK' /\ Drawn' = Drawn
  <2>1. \A q \in Pids : Printed(q)' = Printed(q)
    BY <1>1, <1>5 DEF Printed
  <2> QED
    BY <1>1, <1>2, <2>1, QuietKeepsScreen
<1>8. CursorOK'
  BY <1>1, <1>2, <1>5, <1>7, QuietKeepsCursor
<1> QED
  BY <1>4, <1>6, <1>7, <1>8 DEF AppInv

LEMMA LoadKeepsApp ==
  ASSUME AppInv, NEW p \in Pids, Load(p)
  PROVE  AppInv'
<1>1. /\ at[p] = "load" /\ at' = [at EXCEPT ![p] = "store"] /\ lock' = lock
      /\ reg' = [reg EXCEPT ![p] = cursorpos]
      /\ locked_write' = locked_write /\ UNCHANGED <<cursorpos, screen, i>>
  BY DEF Load, Goto, build, memory
<1>2. LoopOK /\ LockOK /\ ScreenOK /\ CursorOK
  BY DEF AppInv
<1>3. i[p] <= RUNCOUNT /\ i[p] # RUNCOUNT /\ locked_write
  BY <1>1, <1>2 DEF LoopOK
<1>4. LoopOK'
  <2>1. reg' \in [Slots -> Nat] /\ i' \in [Slots -> Nat]
    BY <1>1, <1>2 DEF LoopOK, CursorOK
  <2> QED
    BY <1>1, <1>2, <1>3, <2>1, MoveKeepsLoop
<1>5. LockOK'
  BY <1>1, <1>2, MoveKeepsLock
<1>6. at'[p] = "store" /\ \A q \in Pids \ {p} : at'[q] = at[q]
  BY <1>1, <1>2, PidsAreSlots DEF LoopOK, AtOK
<1>7. ScreenOK' /\ Drawn' = Drawn
  <2>1. \A q \in Pids : Printed(q)' = Printed(q)
    BY <1>1, <1>6 DEF Printed
  <2> QED
    BY <1>1, <1>2, <2>1, QuietKeepsScreen
<1>8. CursorOK'
  <2>1. \A q \in Pids : at[q] \notin {"move", "put"}
    BY <1>1, <1>2, AloneInside
  <2>2. reg'[p] = cursorpos /\ cursorpos = Drawn
    BY <1>1, <1>2, <2>1, PidsAreSlots DEF LoopOK, CursorOK
  <2>3. \A q \in Pids \ {p} : at'[q] \notin {"store", "move", "put"}
    BY <1>1, <1>2, <1>6, AloneInside
  <2> QED
    BY <1>1, <1>2, <1>6, <1>7, <2>2, <2>3 DEF CursorOK, Pids
<1> QED
  BY <1>4, <1>5, <1>7, <1>8 DEF AppInv

(* The character falls on the next unused cell: nobody else was inside     *)
(* since p loaded the cursor.                                              *)
LEMMA StoreCharKeepsApp ==
  ASSUME AppInv, NEW p \in Pids, StoreChar(p)
  PROVE  AppInv'
<1> DEFINE next == IF at[p] = "store" THEN "move" ELSE "unlock"
<1>1. /\ at[p] \in {"store", "put"} /\ at' = [at EXCEPT ![p] = next]
      /\ lock' = lock /\ locked_write' = locked_write /\ UNCHANGED <<i, reg>>
  BY DEF StoreChar, Goto, build
<1>2. LoopOK /\ LockOK /\ ScreenOK /\ CursorOK
  BY DEF AppInv
<1>3. i[p] <= RUNCOUNT /\ i[p] # RUNCOUNT /\ locked_write
  BY <1>1, <1>2 DEF LoopOK
<1>4. next \in {"move", "unlock"} /\ (next = "move" <=> at[p] = "store")
  OBVIOUS
<1> HIDE DEF next
<1>5. LoopOK'
  <2>1. reg' \in [Slots -> Nat] /\ i' \in [Slots -> Nat]
    BY <1>1, <1>2 DEF LoopOK
  <2> QED
    BY <1>1, <1>2, <1>3, <1>4, <2>1, MoveKeepsLoop
<1>6. LockOK'
  BY <1>1, <1>2, <1>4, MoveKeepsLock
<1>7. at'[p] = next /\ \A q \in Pids \ {p} : at'[q] = at[q]
  BY <1>1, <1>2, PidsAreSlots DEF LoopOK, AtOK
<1>8. reg[p] \in Nat /\ \A q \in Pids \ {p} : at[q] \notin {"store", "move", "put"}
  BY <1>1, <1>2, AloneInside, PidsAreSlots DEF LoopOK
<1>9. reg[p] = Drawn /\ screen' = [screen EXCEPT ![Drawn] = p] /\ cursorpos' = cursorpos
  BY <1>1, <1>2 DEF CursorOK, StoreChar
<1>10. ScreenOK' /\ Drawn' = Drawn + 1
  BY <1>1, <1>2, <1>4, <1>9, PrintKeepsScreen
<1>11. CursorOK'
  <2>1. CASE at[p] = "store"
    <3>1. at'[p] = "move" /\ reg'[p] = cursorpos' /\ Drawn' = reg'[p] + 1
      BY <1>1, <1>2, <1>4, <1>7, <1>9, <1>10, <2>1 DEF CursorOK
    <3> QED
      BY <1>2, <1>7, <1>8, <1>9, <3>1 DEF CursorOK, Pids
  <2>2. CASE at[p] = "put"
    <3>1. at'[p] = "unlock" /\ cursorpos' = Drawn'
      BY <1>1, <1>2, <1>4, <1>7, <1>9, <1>10, <2>2 DEF CursorOK
    <3> QED
      BY <1>2, <1>7, <1>8, <1>9, <3>1 DEF CursorOK, Pids
  <2> QED
    BY <1>1, <2>1, <2>2
<1> QED
  BY <1>5, <1>6, <1>10, <1>11 DEF AppInv

(* The cursor moves past the one cell that p's character has fallen on, or *)
(* will.                                                                   *)
LEMMA StoreCursorKeepsApp ==
  ASSUME AppInv, NEW p \in Pids, StoreCursor(p)
  PROVE  AppInv'
<1> DEFINE next == IF at[p] = "store" THEN "put" ELSE "unlock"
<1>1. /\ at[p] \in {"store", "move"} /\ at' = [at EXCEPT ![p] = next]
      /\ lock' = lock /\ locked_write' = locked_write /\ UNCHANGED <<i, reg>>
  BY DEF StoreCursor, Goto, build
<1>2. LoopOK /\ LockOK /\ ScreenOK /\ CursorOK
  BY DEF AppInv
<1>3. i[p] <= RUNCOUNT /\ i[p] # RUNCOUNT /\ locked_write
  BY <1>1, <1>2 DEF LoopOK
<1>4. next \in {"put", "unlock"} /\ (next = "put" <=> at[p] = "store")
  OBVIOUS
<1> HIDE DEF next
<1>5. LoopOK'
  <2>1. reg' \in [Slots -> Nat] /\ i' \in [Slots -> Nat]
    BY <1>1, <1>2 DEF LoopOK
  <2> QED
    BY <1>1, <1>2, <1>3, <1>4, <2>1, MoveKeepsLoop
<1>6. LockOK'
  BY <1>1, <1>2, <1>4, MoveKeepsLock
<1>7. at'[p] = next /\ \A q \in Pids \ {p} : at'[q] = at[q]
  BY <1>1, <1>2, PidsAreSlots DEF LoopOK, AtOK
<1>8. reg[p] \in Nat /\ \A q \in Pids \ {p} : at[q] \notin {"store", "move", "put"}
  BY <1>1, <1>2, AloneInside, PidsAreSlots DEF LoopOK
<1>9. cursorpos' = reg[p] + 1 /\ cursorpos' \in Nat /\ screen' = screen
  BY <1>8 DEF StoreCursor
<1>10. ScreenOK' /\ Drawn' = Drawn
  <2>1. \A q \in Pids : Printed(q)' = Printed(q)
    BY <1>1, <1>4, <1>7 DEF Printed
  <2> QED
    BY <1>2, <1>9, <2>1, QuietKeepsScreen
<1>11. CursorOK'
  <2>1. CASE at[p] = "store"
    <3>1. at'[p] = "put" /\ reg'[p] = Drawn' /\ cursorpos' = reg'[p] + 1
      BY <1>1, <1>2, <1>4, <1>7, <1>9, <1>10, <2>1 DEF CursorOK
    <3> QED
      BY <1>7, <1>8, <1>9, <3>1 DEF CursorOK, Pids
  <2>2. CASE at[p] = "move"
    <3>1. at'[p] = "unlock" /\ cursorpos' = Drawn'
      BY <1>1, <1>2, <1>4, <1>7, <1>9, <1>10, <2>2 DEF CursorOK
    <3> QED
      BY <1>7, <1>8, <1>9, <3>1 DEF CursorOK, Pids
  <2> QED
    BY <1>1, <2>1, <2>2
<1> QED
  BY <1>5, <1>6, <1>10, <1>11 DEF AppInv

LEMMA UnlockKeepsApp ==
  ASSUME AppInv, NEW p \in Pids, Unlock(p)
  PROVE  AppInv'
<1>1. /\ at[p] = "unlock" /\ at' = [at EXCEPT ![p] = "yield"] /\ lock' = 0
      /\ locked_write' = locked_write /\ UNCHANGED <<cursorpos, screen, i, reg>>
  BY DEF Unlock, Goto, build
<1>2. LoopOK /\ LockOK /\ ScreenOK /\ CursorOK
  BY DEF AppInv
<1>3. i[p] <= RUNCOUNT /\ i[p] # RUNCOUNT
  BY <1>1, <1>2 DEF LoopOK
<1>4. LoopOK'
  <2>1. reg' \in [Slots -> Nat] /\ i' \in [Slots -> Nat]
    BY <1>1, <1>2 DEF LoopOK
  <2> QED
    BY <1>1, <1>2, <1>3, <2>1, MoveKeepsLoop
<1>5. at'[p] = "yield" /\ \A q \in Pids \ {p} : at'[q] = at[q]
  BY <1>1, <1>2, PidsAreSlots DEF LoopOK, AtOK
<1>6. LockOK'
  <2>1. Inside = {p}
    BY <1>1, <1>2 DEF LockOK, Inside
  <2>2. Inside' = {}
    BY <1>5, <2>1 DEF Inside, Pids
  <2> QED
    BY <1>1, <2>2 DEF LockOK
<1>7. ScreenOK' /\ Drawn' = Drawn
  <2>1. \A q \in Pids : Printed(q)' = Printed(q)
    BY <1>1, <1>5 DEF Printed
  <2> QED
    BY <1>1, <1>2, <2>1, QuietKeepsScreen
<1>8. CursorOK'
  BY <1>1, <1>2, <1>5, <1>7, QuietKeepsCursor
<1> QED
  BY <1>4, <1>6, <1>7, <1>8 DEF AppInv

(* The turn that was printed is counted. *)
LEMMA YieldKeepsApp ==
  ASSUME AppInv, NEW p \in Pids, sys_yield(p)
  PROVE  AppInv'
<1> DEFINE next == IF i[p] + 1 < RUNCOUNT THEN Top ELSE "exit"
<1>1. /\ at[p] = "yield" /\ at' = [at EXCEPT ![p] = next] /\ UNCHANGED <<memory, build, reg>>
      /\ i' = [i EXCEPT ![p] = @ + 1]
  BY DEF sys_yield, Goto
<1>2. LoopOK /\ LockOK /\ ScreenOK /\ CursorOK
  BY DEF AppInv
<1>3. Top \in {"try", "print"} /\ (Top = "try" => locked_write) /\ (Top = "print" => ~locked_write)
  BY DEF Top
<1>4. p \in Slots /\ i[p] \in Nat /\ i[p] <= RUNCOUNT /\ i[p] # RUNCOUNT
  BY <1>1, <1>2, PidsAreSlots DEF LoopOK
<1>5. i' \in [Slots -> Nat] /\ i'[p] = i[p] + 1 /\ \A q \in Pids \ {p} : i'[q] = i[q]
  BY <1>1, <1>2, <1>4, PidsAreSlots DEF LoopOK
<1>6. i'[p] <= RUNCOUNT /\ (i'[p] = RUNCOUNT <=> next = "exit")
  BY <1>3, <1>4, <1>5, SizeAssumption
<1>7. /\ next \in {"try", "print", "exit"}
      /\ (next = "try" => locked_write) /\ (next = "print" => ~locked_write)
  BY <1>3
<1> HIDE DEF next
<1>8. LoopOK'
  <2>1. reg' \in [Slots -> Nat] /\ locked_write' = locked_write
    BY <1>1, <1>2 DEF LoopOK, build
  <2> QED
    BY <1>1, <1>2, <1>5, <1>6, <1>7, <2>1, MoveKeepsLoop
<1>9. LockOK'
  BY <1>1, <1>2, <1>7, MoveKeepsLock DEF memory
<1>10. at'[p] = next /\ \A q \in Pids \ {p} : at'[q] = at[q]
  BY <1>1, <1>2, PidsAreSlots DEF LoopOK, AtOK
<1>11. ScreenOK' /\ Drawn' = Drawn
  <2>1. Printed(p)' = Printed(p)
    BY <1>1, <1>4, <1>5, <1>7, <1>10 DEF Printed
  <2>2. \A q \in Pids \ {p} : Printed(q)' = Printed(q)
    BY <1>5, <1>10 DEF Printed
  <2> QED
    BY <1>1, <1>2, <2>1, <2>2, QuietKeepsScreen DEF memory
<1>12. CursorOK'
  BY <1>1, <1>2, <1>7, <1>10, <1>11, QuietKeepsCursor DEF memory
<1> QED
  BY <1>8, <1>9, <1>11, <1>12 DEF AppInv

(* Clock interrupts and sys_exit, at whatever point they come, leave the   *)
(* applications where they were.                                           *)
LEMMA SwitchKeepsApp ==
  ASSUME AppInv, UNCHANGED <<memory, build, at, i, reg>>
  PROVE  AppInv'
<1>1. LoopOK' /\ LockOK'
  BY DEF AppInv, LoopOK, LockOK, AtOK, Inside, memory, build, Pids, Slots
<1>2. ScreenOK' /\ Drawn' = Drawn
  <2>1. \A q \in Pids : Printed(q)' = Printed(q)
    BY DEF Printed
  <2> QED
    BY <2>1, QuietKeepsScreen DEF AppInv, memory
<1>3. CursorOK'
  BY <1>2, QuietKeepsCursor DEF AppInv, memory
<1> QED
  BY <1>1, <1>2, <1>3 DEF AppInv

LEMMA AppInit ==
  ASSUME Init
  PROVE  AppInv
<1>1. LoopOK
  <2>1. \A p \in Pids : at[p] = "start" /\ i[p] = 0
    BY PidsAreSlots DEF Init
  <2>2. AtOK /\ locked_write \in BOOLEAN /\ i \in [Slots -> Nat] /\ reg \in [Slots -> Nat]
    BY DEF Init, AtOK
  <2> QED
    BY <2>1, <2>2, SizeAssumption DEF LoopOK
<1>2. LockOK
  BY PidsAreSlots DEF Init, LockOK, Inside
<1>3. \A p \in Pids : at[p] = "start" /\ Printed(p) = 0
  BY PidsAreSlots DEF Init, Printed
<1>4. Out = {} /\ Drawn = 0
  <2>1. Out = {}
    BY <1>3 DEF Out, Turns
  <2> QED
    BY <2>1, FS_EmptySet DEF Drawn
<1>5. screen \in [Cells -> Slots] /\ \A c \in Cells : screen[c] = 0 /\ c \in Nat
  BY SizeAssumption DEF Init, Slots, Cells
<1>6. \A p \in Pids : Cardinality({c \in Cells : screen[c] = p}) = Printed(p)
  <2>1. ASSUME NEW p \in Pids PROVE {c \in Cells : screen[c] = p} = {}
    BY <1>5 DEF Pids
  <2> QED
    BY <1>3, <2>1, FS_EmptySet
<1>7. ScreenOK
  <2>1. \A c \in Cells : screen[c] # 0 <=> c < Drawn
    BY <1>4, <1>5
  <2> QED
    BY <1>5, <1>6, <2>1 DEF ScreenOK
<1>8. CursorOK
  BY <1>3, <1>4 DEF Init, CursorOK
<1> QED
  BY <1>1, <1>2, <1>7, <1>8 DEF AppInv

LEMMA AppInvariant == Spec => []AppInv
<1>1. ASSUME AppInv, [Next]_vars PROVE AppInv'
  <2>1. CASE UNCHANGED vars
    BY <1>1, <2>1, SwitchKeepsApp DEF vars
  <2>2. CASE Clock
    BY <1>1, <2>2, SwitchKeepsApp DEF Clock
  <2>3. ASSUME NEW p \in Pids, App(p) PROVE AppInv'
    <3>1. CASE sys_exit(p)
      BY <1>1, <3>1, SwitchKeepsApp DEF sys_exit
    <3> QED
      BY <1>1, <2>3, <3>1, StartKeepsApp, WriteKeepsApp, LockKeepsApp, LoadKeepsApp,
         StoreCharKeepsApp, StoreCursorKeepsApp, UnlockKeepsApp, YieldKeepsApp DEF App
  <2> QED
    BY <1>1, <2>1, <2>2, <2>3 DEF Next
<1> QED
  BY <1>1, AppInit, PTL DEF Spec

(* schedos-1.c's spin lock excludes, for any number of processes, under    *)
(* every scheduling algorithm and with clock interrupts between any two    *)
(* instructions, and it is free whenever nobody is inside.                 *)
THEOREM SpinLockExcludes == Spec => []OneInside
<1>1. AppInv => OneInside
  <2>1. CASE lock = 0 /\ Inside = {}
    BY <2>1, FS_EmptySet DEF OneInside
  <2>2. CASE lock = 1 /\ \E p \in Pids : Inside = {p}
    BY <2>2, FS_Singleton DEF OneInside
  <2> QED
    BY <2>1, <2>2 DEF AppInv, LockOK
<1> QED
  BY <1>1, AppInvariant, PTL

(* No character is lost or overwritten, whether the kernel prints it or    *)
(* the application does under its lock.                                    *)
THEOREM NoCharacterLost == Spec => []NothingLost
<1>1. AppInv => NothingLost
  <2> SUFFICES ASSUME AppInv, NEW c \in Cells, screen[c] # 0
               PROVE  c < cursorpos \/ \E p \in Pids : at[p] = "move" /\ reg[p] = c
    BY DEF AppInv, ScreenOK, NothingLost
  <2>1. CursorOK /\ c < Drawn /\ c \in Nat /\ Drawn \in Nat
    BY SizeAssumption, TurnsFacts DEF AppInv, ScreenOK, Cells, Drawn
  <2>2. CASE \A p \in Pids : at[p] \notin {"move", "put"}
    BY <2>1, <2>2 DEF CursorOK
  <2>3. ASSUME NEW p \in Pids, at[p] = "move"
        PROVE  c < cursorpos \/ reg[p] = c
    BY <2>1, <2>3 DEF CursorOK
  <2>4. ASSUME NEW p \in Pids, at[p] = "put"
        PROVE  c < cursorpos
    BY <2>1, <2>4 DEF CursorOK
  <2> QED
    BY <2>2, <2>3, <2>4
<1> QED
  BY <1>1, AppInvariant, PTL
=============================================================================
