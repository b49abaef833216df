-------------------------- MODULE OsprdLockProofs --------------------------
(***************************************************************************)
(* Theorems about OsprdLock, for every set of processes and files, every   *)
(* bound on the tickets and, except where a hypothesis says otherwise,     *)
(* either kind of kernel.                                                  *)
(***************************************************************************)
EXTENDS OsprdLock, NatMin, FiniteSetTheorems, TLAPS

(* What the loop of can_run_ticket does to the tail: it never moves it     *)
(* back, never past the caller's ticket, and only over terminated ones.    *)
LEMMA SkipTailFacts ==
  ASSUME ticket_tail \in Nat, NEW t \in Nat
  PROVE  /\ SkipTail(t) \in Nat
         /\ ticket_tail <= SkipTail(t)
         /\ t <= ticket_tail => SkipTail(t) = ticket_tail
         /\ ticket_tail < t => SkipTail(t) <= t
         /\ \A n \in Nat : ticket_tail <= n /\ n < SkipTail(t) => n \in terminated /\ n < t
<1>1. CASE t <= ticket_tail
  BY <1>1 DEF SkipTail
<1>2. CASE ticket_tail < t
  <2> DEFINE S == {n \in ticket_tail..t : n = t \/ n \notin terminated}
  <2>1. S \in SUBSET Nat /\ t \in S
    BY <1>2
  <2>2. Min(S) \in S /\ \A y \in S : Min(S) <= y
    BY <2>1, MinNat
  <2>3. SkipTail(t) = Min(S)
    BY <1>2 DEF SkipTail
  <2> HIDE DEF S
  <2>4. /\ Min(S) \in Nat /\ ticket_tail <= Min(S) /\ Min(S) <= t
    BY <2>2, <1>2 DEF S
  <2>5. ASSUME NEW n \in Nat, ticket_tail <= n, n < Min(S)
        PROVE  n \in terminated /\ n < t
    BY <2>2, <2>4, <2>5 DEF S
  <2> QED
    BY <1>2, <2>3, <2>4, <2>5
<1> QED
  BY <1>1, <1>2

-----------------------------------------------------------------------------
(* Leaving the driver keeps the types of the progress variables. *)
LEMMA ReturnType ==
  ASSUME PlaceOK, NEW p \in Procs, NEW r \in Results, Return(p, r)
  PROVE  PlaceOK'
BY DEF PlaceOK, Return, Places, LeaveCpu

LEMMA RefuseType ==
  ASSUME DevOK, PlaceOK, NEW p \in Procs, NEW t \in Nat, NEW r \in Results, Refuse(p, t, r)
  PROVE  PlaceOK' /\ terminated' \in SUBSET Nat
<1>1. Return(p, r) /\ terminated' = terminated \cup {t}
  BY DEF Refuse
<1>2. terminated' \in SUBSET Nat
  BY <1>1 DEF DevOK
<1> QED
  BY <1>1, <1>2, ReturnType

(* Moving on inside the driver does too. *)
LEMMA GotoType ==
  ASSUME PlaceOK, NEW p \in Procs, NEW where \in Places, Goto(p, where)
  PROVE  pc' \in [Procs -> Places] /\ bkl' \in Procs \cup {NoProc}
BY DEF PlaceOK, Goto, KeepCpu

LEMMA UnlockType ==
  ASSUME DevOK, NEW p \in Procs, NEW f \in Files, Unlock(p, f), fds' \in [Files -> SUBSET Procs]
  PROVE  DevOK' /\ wq' = {}
<1>1. readers' \in SUBSET Procs /\ num_readers' \in Int
  <2>1. CASE Readable(f) /\ p \in readers
    BY <2>1 DEF Unlock, DevOK
  <2>2. CASE ~(Readable(f) /\ p \in readers)
    BY <2>2 DEF Unlock, DevOK
  <2> QED BY <2>1, <2>2
<1>2. writer' \in Procs \cup {NoProc} /\ locked' \in [Files -> BOOLEAN]
  BY DEF Unlock, DevOK
<1> QED
  BY <1>1, <1>2 DEF Unlock, DevOK

LEMMA GrantType ==
  ASSUME TypeOK, NEW p \in Procs, NEW next \in Places, Grant(p, next)
  PROVE  TypeOK'
<1>1. ticket_tail' \in Nat /\ locked' \in [Files -> BOOLEAN]
  BY SkipTailFacts DEF Grant, TypeOK, DevOK, CallOK
<1>2. /\ readers' \in SUBSET Procs /\ num_readers' \in Int
      /\ writer' \in Procs \cup {NoProc}
  <2>1. CASE side[p] = "w"
    BY <2>1 DEF Grant, TypeOK, DevOK
  <2>2. CASE side[p] = "r"
    BY <2>2 DEF Grant, TypeOK, DevOK
  <2> QED
    BY <2>1, <2>2 DEF TypeOK, PlaceOK
<1>3. PlaceOK'
  <2>1. CASE Return(p, "0")
    BY <2>1, ReturnType DEF TypeOK, Results
  <2>2. CASE /\ side' = [side EXCEPT ![p] = "r"] /\ Goto(p, next)
             /\ UNCHANGED <<ret, sig, walk, queued, wq>>
    BY <2>2, GotoType DEF TypeOK, PlaceOK
  <2> QED
    BY <2>1, <2>2 DEF Grant
<1> QED
  BY <1>1, <1>2, <1>3 DEF Grant, TypeOK, DevOK, CallOK, call

(* The two ways wait_event_interruptible's condition can come out. *)
LEMMA CondType ==
  ASSUME PlaceOK, NEW p \in Procs, CondTrue(p) \/ CondFalse(p), UNCHANGED <<side, sig, ret>>
  PROVE  PlaceOK'
<1> USE DEF Places
<1>1. CASE CondTrue(p)
  BY <1>1, GotoType DEF CondTrue, PlaceOK
<1>2. CASE CondFalse(p)
  <2> DEFINE base == walk' = [walk EXCEPT ![p] = -1]
  <2>1. CASE /\ base /\ queued' = [queued EXCEPT ![p] = TRUE] /\ wq' = wq \cup {p}
             /\ Goto(p, "cond")
    BY <2>1, GotoType DEF PlaceOK
  <2>2. CASE /\ base /\ queued' = [queued EXCEPT ![p] = FALSE] /\ wq' = wq \ {p}
             /\ Goto(p, "intr")
    BY <2>2, GotoType DEF PlaceOK
  <2>3. CASE base /\ pc' = [pc EXCEPT ![p] = "sleep"] /\ LeaveCpu /\ UNCHANGED <<queued, wq>>
    BY <2>3 DEF PlaceOK, LeaveCpu
  <2> QED
    BY <1>2, <2>1, <2>2, <2>3 DEF CondFalse
<1> QED
  BY <1>1, <1>2

(* Every variable keeps its type. *)
THEOREM TypeCorrect == Spec => []TypeOK
<1> USE ProcsAssumption, FilesAssumption, BoundAssumption
<1>1. Init => TypeOK
  BY DEF Init, TypeOK, DevOK, CallOK, PlaceOK, Places, Results
<1>2. TypeOK /\ [Next]_vars => TypeOK'
  <2> SUFFICES ASSUME TypeOK, [Next]_vars PROVE TypeOK'
    OBVIOUS
  <2>1. ASSUME NEW p \in Procs, Check(p) PROVE TypeOK'
    <3>1. CASE Refuse(p, ticket[p], "EDEADLK")
      BY <2>1, <3>1, RefuseType DEF Check, TypeOK, DevOK, CallOK, Results, call
    <3>2. CASE Goto(p, "loop") /\ UNCHANGED <<terminated, wq, place, sig, ret>>
      BY <2>1, <3>2, GotoType DEF Check, TypeOK, DevOK, CallOK, PlaceOK, Places, call, place
    <3> QED
      BY <2>1, <3>1, <3>2 DEF Check
  <2>2. ASSUME NEW p \in Procs, Loop(p) PROVE TypeOK'
    <3>1. CASE Grant(p, "check")
      BY <3>1, GrantType DEF Places
    <3>2. CASE /\ ticket_tail' = TailAfterTest(side[p], ticket[p]) /\ Goto(p, "cond")
               /\ UNCHANGED <<ticket_head, terminated, num_readers, readers, writer>>
               /\ UNCHANGED <<wq, fds, locked, call, place, sig, ret>>
      <4>1. ticket_tail' \in Nat
        BY <3>2, SkipTailFacts DEF TailAfterTest, TypeOK, DevOK, CallOK
      <4> QED
        BY <3>2, <4>1, GotoType DEF TypeOK, DevOK, CallOK, PlaceOK, Places, call, place
    <3> QED
      BY <2>2, <3>1, <3>2 DEF Loop
  <2>3. ASSUME NEW p \in Procs, Try(p) PROVE TypeOK'
    <3>1. CASE Grant(p, "try")
      BY <3>1, GrantType DEF Places
    <3>2. CASE /\ ticket_tail' \in {ticket_tail, TailAfterTest(side[p], ticket[p])}
               /\ Refuse(p, ticket[p], "EBUSY")
               /\ UNCHANGED <<ticket_head, num_readers, readers, writer, fds, locked, call>>
      <4>1. ticket_tail' \in Nat
        BY <3>2, SkipTailFacts DEF TailAfterTest, TypeOK, DevOK, CallOK
      <4> QED
        BY <3>2, <4>1, RefuseType DEF TypeOK, DevOK, CallOK, Results, call
    <3> QED
      BY <2>3, <3>1, <3>2 DEF Try
  <2>4. ASSUME NEW p \in Procs, EvalLock(p) PROVE TypeOK'
    <3>1. DevOK' /\ CallOK'
      BY <2>4 DEF EvalLock, dev, call, TypeOK, DevOK, CallOK
    <3>2. CASE CondFalse(p)
      BY <2>4, <3>1, <3>2, CondType DEF EvalLock, TypeOK
    <3>3. CASE Goto(p, "walk") /\ UNCHANGED <<wq, walk, queued>>
      BY <2>4, <3>1, <3>3, GotoType DEF EvalLock, TypeOK, PlaceOK, Places
    <3> QED
      BY <2>4, <3>2, <3>3 DEF EvalLock
  <2>5. ASSUME NEW p \in Procs, EvalWalk(p) PROVE TypeOK'
    <3> DEFINE ahead == {n \in terminated : walk[p] < n /\ n < ticket[p]}
    <3>1. ahead # {} => Min(ahead) \in Nat
      BY MinNat DEF TypeOK, DevOK
    <3>2. DevOK' /\ CallOK' /\ UNCHANGED <<side, sig, ret>>
      BY <2>5 DEF EvalWalk, dev, call, TypeOK, DevOK, CallOK
    <3>3. CASE CondTrue(p) \/ CondFalse(p)
      BY <3>2, <3>3, CondType DEF TypeOK
    <3>4. CASE /\ ahead # {} /\ walk' = [walk EXCEPT ![p] = Min(ahead)]
               /\ \E where \in Places : Goto(p, where)
               /\ UNCHANGED <<wq, queued>>
      BY <3>1, <3>2, <3>4, GotoType DEF TypeOK, PlaceOK
    <3> QED
      BY <2>5, <3>3, <3>4 DEF EvalWalk, Places
  <2>6. ASSUME NEW p \in Procs, EvalStore(p) PROVE TypeOK'
    <3>1. ticket_tail' \in Nat
      BY <2>6 DEF EvalStore, TypeOK, DevOK, PlaceOK
    <3> QED
      BY <2>6, <3>1, GotoType
      DEF EvalStore, TypeOK, DevOK, CallOK, PlaceOK, Places, call, place
  <2>7. ASSUME NEW p \in Procs, Resume(p) PROVE TypeOK'
    BY <2>7, GotoType
    DEF Resume, TypeOK, DevOK, CallOK, PlaceOK, Places, dev, call, place
  <2>8. ASSUME NEW p \in Procs, Interrupted(p) PROVE TypeOK'
    BY <2>8, RefuseType DEF Interrupted, TypeOK, DevOK, CallOK, Results, call
  <2>9. ASSUME NEW p \in Procs, Signal(p) PROVE TypeOK'
    BY <2>9 DEF Signal, TypeOK, DevOK, CallOK, PlaceOK, dev, call, place
  <2>10. ASSUME NEW p \in Procs, NEW f \in Files, Open(p, f) PROVE TypeOK'
    BY <2>10 DEF Open, TypeOK, DevOK, CallOK, PlaceOK, dev, call, place
  <2>11. ASSUME NEW p \in Procs, NEW q \in Procs, NEW f \in Files, Fork(p, q, f)
         PROVE TypeOK'
    BY <2>11 DEF Fork, TypeOK, DevOK, CallOK, PlaceOK, dev, call, place
  <2>12. ASSUME NEW p \in Procs, NEW f \in Files, Close(p, f) PROVE TypeOK'
    <3>1. fds' \in [Files -> SUBSET Procs]
      BY <2>12 DEF Close, TypeOK, DevOK
    <3>2. CASE Unlock(p, f)
      BY <2>12, <3>1, <3>2, UnlockType DEF Close, TypeOK, CallOK, PlaceOK, call, place
    <3>3. CASE UNCHANGED <<dev, locked, wq>>
      BY <2>12, <3>1, <3>3 DEF Close, TypeOK, DevOK, CallOK, PlaceOK, dev, call, place
    <3> QED
      BY <2>12, <3>2, <3>3 DEF Close
  <2>13. ASSUME NEW p \in Procs, NEW f \in Files, Release(p, f) PROVE TypeOK'
    <3>1. ret' \in [Procs -> Results]
      BY <2>13 DEF Release, TypeOK, PlaceOK, Results
    <3>2. CASE Unlock(p, f)
      BY <2>13, <3>1, <3>2, UnlockType
      DEF Release, TypeOK, DevOK, CallOK, PlaceOK, call, place
    <3>3. CASE UNCHANGED <<dev, locked, wq>>
      BY <2>13, <3>1, <3>3 DEF Release, TypeOK, DevOK, CallOK, PlaceOK, dev, call, place
    <3> QED
      BY <2>13, <3>2, <3>3 DEF Release
  <2>14. ASSUME NEW p \in Procs, NEW f \in Files, NEW next \in Places,
                NEW refusal \in Results, TakeTicket(p, f, next, refusal)
         PROVE TypeOK'
    <3>1. CallOK' /\ ticket_head' \in Nat
      BY <2>14 DEF TakeTicket, TypeOK, CallOK, DevOK
    <3>2. CASE Refuse(p, ticket_head, refusal)
      BY <2>14, <3>1, <3>2, RefuseType DEF TakeTicket, TypeOK, DevOK
    <3>3. CASE /\ side' = [side EXCEPT ![p] = IF Writable(f) THEN "w" ELSE "r"]
               /\ ret' = [ret EXCEPT ![p] = "none"]
               /\ Goto(p, next)
               /\ UNCHANGED <<terminated, wq, sig, walk, queued>>
      BY <2>14, <3>1, <3>3, GotoType DEF TakeTicket, TypeOK, DevOK, PlaceOK, Results
    <3> QED
      BY <2>14, <3>2, <3>3 DEF TakeTicket
  <2>15. ASSUME NEW p \in Procs, NEW f \in Files, Acquire(p, f) \/ TryAcquire(p, f)
         PROVE TypeOK'
    BY <2>14, <2>15 DEF Acquire, TryAcquire, Places, Results
  <2>16. CASE UNCHANGED vars
    BY <2>16 DEF vars, dev, call, place, TypeOK, DevOK, CallOK, PlaceOK
  <2> QED
    BY <2>1, <2>2, <2>3, <2>4, <2>5, <2>6, <2>7, <2>8, <2>9, <2>10, <2>11, <2>12,
       <2>13, <2>15, <2>16 DEF Next, Kernel, Client
<1> QED
  BY <1>1, <1>2, PTL DEF Spec

-----------------------------------------------------------------------------
(* What a request may hold.  No hypothesis at all: any modes, any sharing, *)
(* either kernel.                                                          *)
Busy(p) == pc[p] # "user"

(* A request in the write block asked for the write lock. *)
WriteBlock == \A p \in Procs : Busy(p) /\ side[p] = "w" => Writable(file[p])

HoldInv == WriteBlock /\ WaiterHoldsNothing

(* A step of p leaves the other requests alone and makes nobody but p a    *)
(* holder: only p has to be looked after.                                  *)
LEMMA OwnStepKeepsHold ==
  ASSUME HoldInv, NEW p \in Procs,
         \A q \in Procs : q # p =>
           pc'[q] = pc[q] /\ side'[q] = side[q] /\ file'[q] = file[q],
         writer' \in {writer, p}, readers' \subseteq readers \cup {p},
         Busy(p)' /\ side'[p] = "w" => Writable(file'[p]),
         Busy(p)' /\ ~Rdwr(file'[p]) =>
           writer' # p /\ (pc'[p] \notin {"check", "try"} => p \notin readers')
  PROVE  HoldInv'
<1>1. WriteBlock'
  <2>1. ASSUME NEW q \in Procs, q # p, Busy(q)', side'[q] = "w" PROVE Writable(file'[q])
    BY <2>1 DEF HoldInv, WriteBlock, Busy
  <2> QED
    BY <2>1 DEF WriteBlock, Writable
<1>2. ASSUME NEW q \in Procs, q # p, ~Rdwr(file'[q])
      PROVE  /\ pc'[q] # "user" => writer' # q
             /\ pc'[q] \notin {"user", "check", "try"} => q \notin readers'
  BY <1>2 DEF HoldInv, WaiterHoldsNothing
<1>3. WaiterHoldsNothing'
  BY <1>2 DEF WaiterHoldsNothing, Busy, Rdwr, Readable, Writable
<1> QED
  BY <1>1, <1>3 DEF HoldInv

(* p leaves the driver, as a holder or not. *)
LEMMA ReturnKeepsHold ==
  ASSUME TypeOK, HoldInv, NEW p \in Procs, NEW r, Return(p, r),
         writer' \in {writer, p}, readers' \subseteq readers \cup {p},
         \A q \in Procs : q # p => file'[q] = file[q]
  PROVE  HoldInv'
<1>1. pc' = [pc EXCEPT ![p] = "user"] /\ side' = [side EXCEPT ![p] = "w"]
  BY DEF Return
<1>2. ~Busy(p)' /\ \A q \in Procs : q # p => pc'[q] = pc[q] /\ side'[q] = side[q]
  BY <1>1 DEF Busy, TypeOK, PlaceOK
<1> QED
  BY <1>2, OwnStepKeepsHold

(* p moves between two places of the handler. *)
LEMMA MoveKeepsHold ==
  ASSUME TypeOK, HoldInv, NEW p \in Procs, NEW where \in Places,
         UNCHANGED <<readers, writer, file, side>>, Busy(p),
         pc' = [pc EXCEPT ![p] = where], Rdwr(file[p]) \/ p \notin readers
  PROVE  HoldInv'
<1>1. pc'[p] = where /\ \A q \in Procs : q # p => pc'[q] = pc[q]
  BY DEF TypeOK, PlaceOK
<1>2. Busy(p)' /\ side'[p] = "w" => Writable(file'[p])
  BY DEF HoldInv, WriteBlock
<1>3. ~Rdwr(file'[p]) => ~Rdwr(file[p]) /\ writer # p
  BY DEF HoldInv, WaiterHoldsNothing, Busy
<1> QED
  BY <1>1, <1>2, <1>3, OwnStepKeepsHold

(* p, past the reader test, moves on. *)
LEMMA WaitKeepsHold ==
  ASSUME TypeOK, HoldInv, NEW p \in Procs, \E where \in Places : pc' = [pc EXCEPT ![p] = where],
         UNCHANGED <<readers, writer, file, side>>, pc[p] \notin {"user", "check", "try"}
  PROVE  HoldInv'
<1>1. Rdwr(file[p]) \/ p \notin readers
  BY DEF HoldInv, WaiterHoldsNothing
<1> QED
  BY <1>1, MoveKeepsHold DEF Busy

(* Requests stay where they are, and nobody becomes a holder. *)
LEMMA QuietKeepsHold ==
  ASSUME HoldInv, UNCHANGED <<pc, side, file>>, writer' \in {writer, NoProc},
         readers' \subseteq readers
  PROVE  HoldInv'
<1>1. WriteBlock'
  BY DEF HoldInv, WriteBlock, Busy, Writable
<1>2. WaiterHoldsNothing'
  BY ProcsAssumption DEF HoldInv, WaiterHoldsNothing, Rdwr, Readable, Writable
<1> QED
  BY <1>1, <1>2 DEF HoldInv

(* p gets a lock; on an O_RDWR file it goes on to the read block. *)
LEMMA GrantKeepsHold ==
  ASSUME TypeOK, HoldInv, NEW p \in Procs, NEW next \in Places, Grant(p, next), Busy(p)
  PROVE  HoldInv'
<1>1. /\ writer' \in {writer, p} /\ readers' \subseteq readers \cup {p}
      /\ UNCHANGED file
  BY DEF Grant, call
<1>2. CASE Return(p, "0")
  BY <1>1, <1>2, ReturnKeepsHold
<1>3. CASE side[p] = "w" /\ Readable(file[p]) /\ side' = [side EXCEPT ![p] = "r"] /\ Goto(p, next)
  <2>1. side'[p] = "r" /\ \A q \in Procs : q # p => pc'[q] = pc[q] /\ side'[q] = side[q]
    BY <1>3 DEF Goto, TypeOK, PlaceOK
  <2>2. Rdwr(file'[p])
    BY <1>1, <1>3 DEF HoldInv, WriteBlock, Rdwr, Readable, Writable
  <2> QED
    BY <1>1, <2>1, <2>2, OwnStepKeepsHold
<1> QED
  BY <1>2, <1>3 DEF Grant

LEMMA CondPlaces ==
  ASSUME NEW p \in Procs, CondTrue(p) \/ CondFalse(p)
  PROVE  \E where \in Places : pc' = [pc EXCEPT ![p] = where]
BY DEF CondTrue, CondFalse, Goto, Places

(* Letting go makes nobody a holder. *)
LEMMA UnlockFrees ==
  ASSUME NEW p \in Procs, NEW f \in Files, Unlock(p, f)
  PROVE  writer' \in {writer, NoProc} /\ readers' \subseteq readers
BY DEF Unlock

LEMMA HoldInvInductive ==
  ASSUME TypeOK, HoldInv, [Next]_vars
  PROVE  HoldInv'
<1>1. ASSUME NEW p \in Procs, Check(p) PROVE HoldInv'
  <2>1. CASE Refuse(p, ticket[p], "EDEADLK")
    BY <1>1, <2>1, ReturnKeepsHold DEF Check, Refuse, call
  <2>2. CASE p \notin readers /\ Goto(p, "loop") /\ UNCHANGED place
    BY <1>1, <2>2, MoveKeepsHold DEF Check, Goto, Places, call, place, Busy
  <2> QED
    BY <1>1, <2>1, <2>2 DEF Check
<1>2. ASSUME NEW p \in Procs, Loop(p) PROVE HoldInv'
  <2>1. CASE Grant(p, "check")
    BY <1>2, <2>1, GrantKeepsHold DEF Loop, Busy, Places
  <2>2. CASE /\ Goto(p, "cond")
             /\ UNCHANGED <<ticket_head, terminated, num_readers, readers, writer>>
             /\ UNCHANGED <<wq, fds, locked, call, place, sig, ret>>
    BY <1>2, <2>2, WaitKeepsHold DEF Loop, Goto, Places, call, place
  <2> QED
    BY <1>2, <2>1, <2>2 DEF Loop
<1>3. ASSUME NEW p \in Procs, Try(p) PROVE HoldInv'
  <2>1. CASE Grant(p, "try")
    BY <1>3, <2>1, GrantKeepsHold DEF Try, Busy, Places
  <2>2. CASE /\ Refuse(p, ticket[p], "EBUSY")
             /\ UNCHANGED <<ticket_head, num_readers, readers, writer, fds, locked, call>>
    BY <2>2, ReturnKeepsHold DEF Refuse, call
  <2> QED
    BY <1>3, <2>1, <2>2 DEF Try
<1>4. ASSUME NEW p \in Procs, EvalLock(p) PROVE HoldInv'
  <2>1. \E where \in Places : pc' = [pc EXCEPT ![p] = where]
    BY <1>4, CondPlaces DEF EvalLock, Goto, Places
  <2> QED
    BY <1>4, <2>1, WaitKeepsHold DEF EvalLock, dev, call
<1>5. ASSUME NEW p \in Procs, EvalWalk(p) PROVE HoldInv'
  <2>1. \E where \in Places : pc' = [pc EXCEPT ![p] = where]
    BY <1>5, CondPlaces DEF EvalWalk, Goto, Places
  <2> QED
    BY <1>5, <2>1, WaitKeepsHold DEF EvalWalk, dev, call
<1>6. ASSUME NEW p \in Procs, EvalStore(p) \/ Resume(p) PROVE HoldInv'
  BY <1>6, WaitKeepsHold DEF EvalStore, Resume, Goto, Places, dev, call, place
<1>7. ASSUME NEW p \in Procs, Interrupted(p) PROVE HoldInv'
  BY <1>7, ReturnKeepsHold DEF Interrupted, Refuse, call
<1>8. ASSUME NEW p \in Procs, Signal(p) PROVE HoldInv'
  BY <1>8, QuietKeepsHold DEF Signal, dev, call, place
<1>9. ASSUME NEW p \in Procs, NEW f \in Files, Open(p, f) \/ \E q \in Procs : Fork(p, q, f)
      PROVE HoldInv'
  BY <1>9, QuietKeepsHold DEF Open, Fork, dev, call, place
<1>10. ASSUME NEW p \in Procs, NEW f \in Files, Close(p, f) \/ Release(p, f) PROVE HoldInv'
  <2>1. UNCHANGED <<pc, side, file>>
    BY <1>10 DEF Close, Release, call, place
  <2>2. Unlock(p, f) \/ UNCHANGED <<writer, readers>>
    BY <1>10 DEF Close, Release, dev
  <2> QED
    BY <2>1, <2>2, UnlockFrees, QuietKeepsHold
<1>11. ASSUME NEW p \in Procs, NEW f \in Files, NEW next \in {"check", "try"},
              NEW refusal, TakeTicket(p, f, next, refusal)
       PROVE HoldInv'
  <2>1. /\ UNCHANGED <<readers, writer>>
        /\ file' = [file EXCEPT ![p] = f] /\ pc[p] = "user"
    BY <1>11 DEF TakeTicket
  <2>2. file'[p] = f /\ \A q \in Procs : q # p => file'[q] = file[q]
    BY <2>1 DEF TypeOK, CallOK
  <2>3. CASE Refuse(p, ticket_head, refusal)
    BY <2>1, <2>2, <2>3, ReturnKeepsHold DEF Refuse
  <2>4. CASE /\ writer # p
             /\ side' = [side EXCEPT ![p] = IF Writable(f) THEN "w" ELSE "r"]
             /\ Goto(p, next)
    <3>1. pc'[p] = next /\ \A q \in Procs : q # p => pc'[q] = pc[q] /\ side'[q] = side[q]
      BY <2>4 DEF Goto, TypeOK, PlaceOK
    <3>2. side'[p] = "w" => Writable(file'[p])
      BY <2>2, <2>4 DEF TypeOK, PlaceOK
    <3> QED
      BY <2>1, <2>2, <2>4, <3>1, <3>2, OwnStepKeepsHold
  <2> QED
    BY <1>11, <2>3, <2>4 DEF TakeTicket
<1>12. CASE UNCHANGED vars
  BY <1>12, QuietKeepsHold DEF vars, dev, call, place
<1> QED
  BY <1>1, <1>2, <1>3, <1>4, <1>5, <1>6, <1>7, <1>8, <1>9, <1>10, <1>11, <1>12
  DEF Next, Kernel, Client, Acquire, TryAcquire

LEMMA HoldInvariant == Spec => [](TypeOK /\ HoldInv)
<1>1. Init => HoldInv
  BY DEF Init, HoldInv, WriteBlock, WaiterHoldsNothing, Busy
<1>2. TypeOK /\ HoldInv /\ [Next]_vars => HoldInv'
  BY HoldInvInductive
<1> QED
  BY <1>1, <1>2, TypeCorrect, PTL DEF Spec

(* A request never waits for a lock its own process holds (on a file that  *)
(* is not O_RDWR): the EDEADLK tests, made before the wait, cannot go      *)
(* stale during it, in either kernel and whoever shares files.             *)
THEOREM NoSelfDeadlock == Spec => []WaiterHoldsNothing
<1>1. TypeOK /\ HoldInv => WaiterHoldsNothing
  BY DEF HoldInv
<1> QED
  BY <1>1, HoldInvariant, PTL

(* A step that ends a try or an interrupted wait without the lock. *)
LEMMA RefusalStep ==
  ASSUME TypeOK, [Next]_vars, NEW p \in Procs, pc[p] \in {"try", "intr"},
         pc'[p] = "user", ret'[p] # "0"
  PROVE  writer' = writer
<1>1. ASSUME NEW q \in Procs, NEW where \in Places, pc' = [pc EXCEPT ![q] = where]
      PROVE  q = p /\ where = "user"
  BY <1>1 DEF TypeOK, PlaceOK
<1>2. ASSUME UNCHANGED pc PROVE FALSE
  BY <1>2
<1>3. ASSUME NEW q \in Procs, NEW next \in {"check", "try"}, Grant(q, next) PROVE FALSE
  <2>1. CASE Return(q, "0")
    <3>1. pc' = [pc EXCEPT ![q] = "user"] /\ ret' = [ret EXCEPT ![q] = "0"]
      BY <2>1 DEF Return
    <3>2. q = p
      BY <1>1, <3>1 DEF Places
    <3> QED
      BY <3>1, <3>2 DEF TypeOK, PlaceOK
  <2>2. CASE Goto(q, next)
    BY <1>1, <2>2 DEF Goto, Places
  <2> QED
    BY <1>3, <2>1, <2>2 DEF Grant
<1>4. ASSUME NEW q \in Procs, Loop(q) \/ Try(q) PROVE writer' = writer
  BY <1>3, <1>4 DEF Loop, Try
<1>5. ASSUME NEW q \in Procs, Kernel(q), ~Loop(q), ~Try(q) PROVE writer' = writer
  BY <1>5 DEF Kernel, Check, EvalLock, EvalWalk, EvalStore, Resume, Interrupted, dev
<1>6. ASSUME NEW q \in Procs, NEW f \in Files, Client(q, f) PROVE writer' = writer
  BY <1>2, <1>6 DEF Client, Open, Close, Release, Fork, Acquire, TryAcquire, TakeTicket
<1> QED
  BY <1>2, <1>4, <1>5, <1>6 DEF Next, Signal, vars, dev

(* A request that is refused or interrupted does not leave its process     *)
(* holding the write lock, in either kernel and whoever shares files; only *)
(* on an O_RDWR file it may.                                               *)
THEOREM RefusalLeavesNothing == Spec => RefusedIsNotWriter
<1>1. ASSUME TypeOK, HoldInv, [Next]_vars
      PROVE  [\A p \in Procs : pc[p] \in {"try", "intr"} /\ pc'[p] = "user" /\ ret'[p] # "0"
                => writer' # p \/ Rdwr(file[p])]_vars
  <2> SUFFICES ASSUME NEW p \in Procs, pc[p] \in {"try", "intr"}, pc'[p] = "user",
                      ret'[p] # "0", ~Rdwr(file[p])
               PROVE  writer' # p
    OBVIOUS
  <2>1. writer # p
    BY <1>1 DEF HoldInv, WaiterHoldsNothing
  <2> QED
    BY <1>1, <2>1, RefusalStep
<1> QED
  BY <1>1, HoldInvariant, PTL DEF Spec, RefusedIsNotWriter

-----------------------------------------------------------------------------
(* The accounts of the lock.  They are kept as long as only requests for   *)
(* the read lock are granted it, which is so without O_RDWR files, and     *)
(* (OsprdSerialProofs) under a kernel that serializes the handlers.        *)
GrantFits ==
  \A p \in Procs : Busy(p) /\ side[p] = "r" /\ can_run_ticket(ticket[p]) => ~Writable(file[p])

LEMMA FiniteHolders ==
  ASSUME DevOK
  PROVE  /\ IsFiniteSet(readers) /\ Cardinality(readers) \in Nat
         /\ IsFiniteSet(ReadLocked) /\ Cardinality(ReadLocked) \in Nat
<1>1. IsFiniteSet(readers)
  BY ProcsAssumption, FS_Subset DEF DevOK
<1>2. IsFiniteSet(ReadLocked)
  <2>1. ReadLocked \in SUBSET Files
    BY DEF ReadLocked
  <2> QED
    BY <2>1, FilesAssumption, FS_Subset
<1> QED
  BY <1>1, <1>2, FS_CardinalityType

(* While there is a writer, or no reader is counted, the list is empty. *)
LEMMA NoReaders ==
  ASSUME DevOK, LockAccounting, writer # NoProc \/ num_readers = 0
  PROVE  readers = {} /\ ReadLocked = {}
<1>1. num_readers = 0 /\ Cardinality(readers) = 0
  BY DEF LockAccounting
<1>2. Cardinality(ReadLocked) = 0
  BY <1>1, FiniteHolders DEF LockAccounting
<1> QED
  BY <1>1, <1>2, FiniteHolders, FS_EmptySet

(* A request that gets its lock keeps the accounts. *)
LEMMA GrantKeepsAccounts ==
  ASSUME TypeOK, LockAccounting, NEW p \in Procs, NEW next, Grant(p, next),
         CanLock(side[p]), side[p] = "w" <=> Writable(file[p]), side[p] = "r" => p \notin readers
  PROVE  LockAccounting'
<1> DEFINE f == file[p]
<1>1. f \in Files /\ locked' = [locked EXCEPT ![f] = TRUE]
  BY DEF TypeOK, CallOK, Grant
<1> USE FiniteHolders DEF TypeOK, DevOK
<1>2. CASE side[p] = "w"
  <2>1. writer = NoProc /\ num_readers = 0 /\ writer' = p /\ UNCHANGED <<readers, num_readers>>
    BY <1>2 DEF Grant, CanLock, can_write
  <2>2. ReadLocked' = ReadLocked
    BY <1>1, <1>2 DEF ReadLocked, Writable
  <2> QED
    BY <1>1, <2>1, <2>2, ProcsAssumption DEF LockAccounting, Writable
<1>3. CASE side[p] = "r"
  <2>1. /\ writer = NoProc /\ UNCHANGED writer
        /\ readers' = readers \cup {p} /\ num_readers' = num_readers + 1
    BY <1>3 DEF Grant, CanLock, can_read
  <2>2. ReadLocked' = ReadLocked \cup {f}
    BY <1>1, <1>3 DEF ReadLocked, Writable
  <2>3. Cardinality(readers') = Cardinality(readers) + 1
    <3>1. Cardinality(readers \cup {p}) = Cardinality(readers) + 1
      BY <1>3, FS_AddElement, Zenon
    <3> QED
      BY <2>1, <3>1
  <2>4. Cardinality(ReadLocked') \in {Cardinality(ReadLocked), Cardinality(ReadLocked) + 1}
    <3>1. Cardinality(ReadLocked \cup {f}) =
            IF f \in ReadLocked THEN Cardinality(ReadLocked) ELSE Cardinality(ReadLocked) + 1
      BY FS_AddElement, Zenon
    <3> QED
      BY <2>2, <3>1
  <2>5. \A g \in Files : locked'[g] => ~Writable(g)
    BY <1>1, <1>3, <2>1 DEF LockAccounting
  <2>6. num_readers' = Cardinality(readers') /\ Cardinality(ReadLocked') <= num_readers'
    BY <2>1, <2>3, <2>4 DEF LockAccounting
  <2> QED
    BY <2>1, <2>5, <2>6 DEF LockAccounting, Writable
<1> QED
  BY <1>2, <1>3 DEF PlaceOK

(* So does letting go, whichever process does it. *)
LEMMA UnlockKeepsAccounts ==
  ASSUME TypeOK, LockAccounting, NEW p \in Procs, NEW f \in Files, Unlock(p, f), locked[f]
  PROVE  LockAccounting'
<1>1. locked' = [locked EXCEPT ![f] = FALSE]
  BY DEF Unlock
<1> USE FiniteHolders DEF TypeOK, DevOK
<1>2. CASE Writable(f)
  <2>1. readers = {}
    BY <1>2, NoReaders DEF LockAccounting
  <2>2. writer' = NoProc /\ UNCHANGED <<readers, num_readers>>
    BY <1>2, <2>1 DEF Unlock
  <2>3. ReadLocked' = ReadLocked
    BY <1>1, <1>2 DEF ReadLocked, Writable
  <2> QED
    BY <1>1, <1>2, <2>2, <2>3 DEF LockAccounting, Writable
<1>3. CASE ~Writable(f)
  <2>1. UNCHANGED writer /\ Readable(f)
    BY <1>3, FilesAssumption DEF Unlock, Writable, Readable
  <2>2. ReadLocked' = ReadLocked \ {f} /\ f \in ReadLocked
    BY <1>1, <1>3 DEF ReadLocked, Writable
  <2>3. Cardinality(ReadLocked') = Cardinality(ReadLocked) - 1
    BY <2>2, FS_RemoveElement
  <2>4. CASE p \in readers
    <3>1. readers' = readers \ {p} /\ num_readers' = num_readers - 1
      BY <2>1, <2>4 DEF Unlock
    <3>2. Cardinality(readers') = Cardinality(readers) - 1
      BY <3>1, <2>4, FS_RemoveElement
    <3>3. Cardinality(readers) # 0
      BY <2>4, FS_EmptySet
    <3> QED
      BY <1>1, <2>1, <2>3, <3>1, <3>2, <3>3 DEF LockAccounting, Writable
  <2>5. CASE p \notin readers
    <3>1. UNCHANGED <<readers, num_readers>>
      BY <2>5 DEF Unlock
    <3> QED
      BY <1>1, <2>1, <2>3, <3>1 DEF LockAccounting, Writable
  <2> QED
    BY <2>4, <2>5
<1> QED
  BY <1>2, <1>3

(* A fresh file is not locked. *)
LEMMA OpenKeepsAccounts ==
  ASSUME TypeOK, LockAccounting, NEW p \in Procs, NEW f \in Files, Open(p, f)
  PROVE  LockAccounting'
<1>1. ReadLocked' \in SUBSET ReadLocked
  BY DEF Open, ReadLocked, Writable, TypeOK, DevOK
<1>2. Cardinality(ReadLocked') \in Nat /\ Cardinality(ReadLocked') <= Cardinality(ReadLocked)
  BY <1>1, FiniteHolders, FS_Subset, FS_CardinalityType DEF TypeOK
<1> QED
  BY <1>2, FiniteHolders DEF Open, dev, LockAccounting, Writable, TypeOK, DevOK

(* The other steps leave holders and files alone. *)
LEMMA AccountsInductive ==
  ASSUME TypeOK, HoldInv, GrantFits, LockAccounting, [Next]_vars
  PROVE  LockAccounting'
<1>1. CASE UNCHANGED <<num_readers, readers, writer, locked>>
  BY <1>1 DEF LockAccounting, ReadLocked, Writable
<1>2. ASSUME NEW p \in Procs, NEW next, Grant(p, next), Busy(p), CanLock(side[p]),
             can_run_ticket(ticket[p]), pc[p] = "loop" \/ p \notin readers
      PROVE  LockAccounting'
  <2>1. side[p] = "w" <=> Writable(file[p])
    BY <1>2 DEF GrantFits, HoldInv, WriteBlock, TypeOK, PlaceOK
  <2>2. side[p] = "r" => p \notin readers
    BY <1>2, <2>1 DEF HoldInv, WaiterHoldsNothing, Rdwr
  <2> QED
    BY <1>2, <2>1, <2>2, GrantKeepsAccounts
<1>3. ASSUME NEW p \in Procs, Loop(p) \/ Try(p) PROVE LockAccounting'
  <2>1. CASE Loop(p)
    BY <1>1, <1>2, <2>1 DEF Loop, Busy
  <2>2. CASE Try(p)
    BY <1>1, <1>2, <2>2 DEF Try, Busy
  <2> QED
    BY <1>3, <2>1, <2>2
<1>4. ASSUME NEW p \in Procs, Kernel(p), ~Loop(p), ~Try(p) PROVE LockAccounting'
  BY <1>1, <1>4 DEF Kernel, Check, EvalLock, EvalWalk, EvalStore, Resume, Interrupted, dev
<1>5. ASSUME NEW p \in Procs, NEW f \in Files, Close(p, f) \/ Release(p, f) PROVE LockAccounting'
  BY <1>1, <1>5, UnlockKeepsAccounts DEF Close, Release, dev
<1>6. ASSUME NEW p \in Procs, NEW f \in Files, Client(p, f), ~Close(p, f), ~Release(p, f)
      PROVE  LockAccounting'
  BY <1>1, <1>6, OpenKeepsAccounts DEF Client, Fork, Acquire, TryAcquire, TakeTicket, dev
<1> QED
  BY <1>1, <1>3, <1>4, <1>5, <1>6 DEF Next, Signal, vars, dev

(* No file, no reader, no writer to begin with. *)
LEMMA AccountsInit ==
  ASSUME Init
  PROVE  LockAccounting
<1>1. ReadLocked = {}
  BY DEF Init, ReadLocked
<1> QED
  BY <1>1, FS_EmptySet DEF Init, LockAccounting

(* The accounts imply mutual exclusion. *)
LEMMA AccountsExclude ==
  ASSUME DevOK, LockAccounting
  PROVE  ExclusiveLock
<1> SUFFICES ASSUME NEW f \in Files, NEW g \in Files, locked[f], locked[g], f # g, Writable(f)
             PROVE  FALSE
  BY DEF ExclusiveLock
<1>1. ~Writable(g) /\ writer # NoProc
  BY DEF LockAccounting
<1>2. ReadLocked = {}
  BY <1>1, NoReaders
<1> QED
  BY <1>1, <1>2 DEF ReadLocked

-----------------------------------------------------------------------------
NoRdwr == \A f \in Files : Mode[f] # "rw"

(* Without O_RDWR a request stays in the block of its file's mode. *)
ReadBlock == \A p \in Procs : Busy(p) /\ side[p] = "r" => ~Writable(file[p])

LEMMA ReadBlockInductive ==
  ASSUME NoRdwr, TypeOK, HoldInv, ReadBlock, [Next]_vars
  PROVE  ReadBlock'
<1>1. ASSUME NEW p \in Procs,
             \A q \in Procs : q # p =>
               pc'[q] = pc[q] /\ side'[q] = side[q] /\ file'[q] = file[q],
             Busy(p)' /\ side'[p] = "r" => ~Writable(file'[p])
      PROVE  ReadBlock'
  <2>1. ASSUME NEW q \in Procs, q # p, Busy(q)', side'[q] = "r" PROVE ~Writable(file'[q])
    BY <1>1, <2>1 DEF ReadBlock, Busy
  <2> QED
    BY <1>1, <2>1 DEF ReadBlock, Writable
<1>2. ASSUME NEW p \in Procs, NEW r, Return(p, r), UNCHANGED file \/ file' = [file EXCEPT ![p] = file'[p]]
      PROVE  ReadBlock'
  <2>1. pc' = [pc EXCEPT ![p] = "user"] /\ side' = [side EXCEPT ![p] = "w"]
    BY <1>2 DEF Return
  <2>2. \A q \in Procs : q # p => file'[q] = file[q]
    BY <1>2 DEF TypeOK, CallOK
  <2> QED
    BY <1>1, <2>1, <2>2 DEF TypeOK, PlaceOK, Busy
<1>3. ASSUME NEW p \in Procs, Busy(p), NEW where \in Places, pc' = [pc EXCEPT ![p] = where],
             UNCHANGED <<file, side>>
      PROVE  ReadBlock'
  BY <1>1, <1>3 DEF ReadBlock, TypeOK, PlaceOK
<1>4. ASSUME UNCHANGED <<pc, side, file>> PROVE ReadBlock'
  BY <1>4 DEF ReadBlock, Busy, Writable
<1>5. ASSUME NEW p \in Procs, NEW next, Grant(p, next), Busy(p) PROVE ReadBlock'
  <2>1. ~(side[p] = "w" /\ Readable(file[p]))
    BY <1>5, FilesAssumption DEF HoldInv, WriteBlock, NoRdwr, Writable, Readable, TypeOK, CallOK
  <2>2. Return(p, "0") /\ UNCHANGED file
    BY <1>5, <2>1 DEF Grant, call
  <2> QED
    BY <1>2, <2>2
<1>6. ASSUME NEW p \in Procs, Loop(p) \/ Try(p) PROVE ReadBlock'
  <2>1. CASE Loop(p)
    BY <1>3, <1>5, <2>1 DEF Loop, Busy, Goto, Places, call, place
  <2>2. CASE Try(p)
    BY <1>2, <1>5, <2>2 DEF Try, Refuse, Busy, call
  <2> QED
    BY <1>6, <2>1, <2>2
<1>7. ASSUME NEW p \in Procs, Check(p) \/ Interrupted(p) PROVE ReadBlock'
  BY <1>2, <1>3, <1>7 DEF Check, Interrupted, Refuse, Busy, Goto, Places, call, place
<1>8. ASSUME NEW p \in Procs, EvalLock(p) \/ EvalWalk(p) PROVE ReadBlock'
  <2>1. \E where \in Places : pc' = [pc EXCEPT ![p] = where]
    BY <1>8, CondPlaces DEF EvalLock, EvalWalk, Goto, Places
  <2> QED
    BY <1>3, <1>8, <2>1 DEF EvalLock, EvalWalk, Busy, call
<1>9. ASSUME NEW p \in Procs, EvalStore(p) \/ Resume(p) PROVE ReadBlock'
  BY <1>3, <1>9 DEF EvalStore, Resume, Busy, Goto, Places, call, place
<1>10. ASSUME NEW p \in Procs, NEW f \in Files, NEW next \in {"check", "try"},
              NEW refusal, TakeTicket(p, f, next, refusal)
       PROVE ReadBlock'
  <2>1. file' = [file EXCEPT ![p] = f] /\ file'[p] = f
    BY <1>10 DEF TakeTicket, TypeOK, CallOK
  <2>2. CASE Refuse(p, ticket_head, refusal)
    BY <1>2, <2>1, <2>2 DEF Refuse
  <2>3. CASE /\ side' = [side EXCEPT ![p] = IF Writable(f) THEN "w" ELSE "r"]
             /\ Goto(p, next)
    <3>1. side'[p] = "r" => ~Writable(f)
      BY <2>3 DEF TypeOK, PlaceOK
    <3> QED
      BY <1>1, <2>1, <2>3, <3>1 DEF Goto, TypeOK, PlaceOK, CallOK
  <2> QED
    BY <1>10, <2>2, <2>3 DEF TakeTicket
<1>11. ASSUME NEW p \in Procs, NEW f \in Files, Client(p, f), ~Acquire(p, f), ~TryAcquire(p, f)
       PROVE ReadBlock'
  BY <1>4, <1>11 DEF Client, Open, Close, Release, Fork, call, place
<1> QED
  BY <1>4, <1>6, <1>7, <1>8, <1>9, <1>10, <1>11
  DEF Next, Kernel, Client, Acquire, TryAcquire, Signal, vars, call, place

(* The inductive invariant behind mutual exclusion. *)
LEMMA LockInvariant ==
  ASSUME NoRdwr PROVE Spec => [](TypeOK /\ HoldInv /\ ReadBlock /\ LockAccounting)
<1>1. Init => ReadBlock /\ LockAccounting
  BY AccountsInit DEF Init, ReadBlock, Busy
<1>2. TypeOK /\ HoldInv /\ ReadBlock /\ LockAccounting /\ [Next]_vars => ReadBlock' /\ LockAccounting'
  <2>1. ReadBlock => GrantFits
    BY DEF ReadBlock, GrantFits
  <2> QED
    BY <2>1, ReadBlockInductive, AccountsInductive
<1> QED
  BY <1>1, <1>2, HoldInvariant, PTL DEF Spec

(* While a file open for writing is locked no other file is: for every     *)
(* number of processes and files, in either kernel, whoever shares files,  *)
(* through interrupted requests and closes by other processes.             *)
THEOREM MutualExclusion == ASSUME NoRdwr PROVE Spec => []ExclusiveLock
<1>1. TypeOK /\ LockAccounting => ExclusiveLock
  BY AccountsExclude DEF TypeOK
<1> QED
  BY <1>1, LockInvariant, PTL
=============================================================================
