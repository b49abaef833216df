------------------------- MODULE OsprdSerialProofs -------------------------
(***************************************************************************)
(* More about OsprdLock, mostly when the kernel runs one ioctl handler at  *)
(* a time (SerialIoctl): no ticket is lost, whatever mix of modes, shared  *)
(* files, refusals and signals; mutual exclusion with O_RDWR files too, no *)
(* lost wake-up, no lock left behind by closed files, and the fair         *)
(* reader/writer lock it implements.                                       *)
(***************************************************************************)
EXTENDS OsprdLockProofs

(* The part of the invariant about tickets: those of TicketsAccounted, and *)
(* a request past its write grant holds a ticket already served.           *)
Line ==
  /\ TicketsAccounted
  /\ ticket_tail <= ticket_head
  /\ \A n \in terminated : n < ticket_head
  /\ \A p \in Procs : Busy(p) /\ ~Live(p) => ticket[p] < ticket_tail

(* The part about control: a process inside the driver and awake is the    *)
(* one the kernel runs, and between its comparison and its increment of    *)
(* ticket_tail the tail still is the terminated ticket it compared.        *)
Alone ==
  /\ \A p \in Procs : pc[p] \notin {"user", "sleep"} => bkl = p
  /\ \A p \in Procs : pc[p] = "store" =>
        walk[p] = ticket_tail /\ walk[p] \in terminated /\ walk[p] < ticket[p]

TicketInv == Line /\ Alone /\ WriteBlock

(* The others neither join nor leave the line, nor the driver. *)
OthersStay(p) ==
  \A q \in Procs : q # p =>
    ticket'[q] = ticket[q] /\ (Live(q)' <=> Live(q)) /\ (Busy(q)' <=> Busy(q))

(* The tail moved over terminated tickets only. *)
TailSkips ==
  /\ ticket_tail' \in Nat /\ ticket_tail <= ticket_tail'
  /\ \A n \in Nat : ticket_tail <= n /\ n < ticket_tail' => n \in terminated

(* p stays where it is in the line while the tail may skip. *)
LEMMA SkipKeepsLine ==
  ASSUME TypeOK, Line, NEW p \in Procs, TailSkips, OthersStay(p),
         UNCHANGED <<ticket_head, terminated>>,
         ticket'[p] = ticket[p], Live(p)' <=> Live(p), Busy(p)' <=> Busy(p)
  PROVE  Line'
<1>1. \A q \in Procs :
        ticket'[q] = ticket[q] /\ (Live(q)' <=> Live(q)) /\ (Busy(q)' <=> Busy(q))
  BY DEF OthersStay
<1>2. \A q \in Procs : ticket[q] \in Nat
  BY DEF TypeOK, CallOK
<1>3. ticket_tail \in Nat /\ ticket_head \in Nat /\ terminated \in SUBSET Nat
  BY DEF TypeOK, DevOK
<1>4. ticket_tail' <= ticket_head'
  BY <1>3 DEF TailSkips, Line
<1>5. \A q \in Procs : Live(q) => ticket_tail' <= ticket[q]
  BY <1>2, <1>3 DEF TailSkips, Line, TicketsAccounted
<1>6. TicketsAccounted'
  BY <1>1, <1>3, <1>5 DEF TailSkips, Line, TicketsAccounted
<1> QED
  BY <1>1, <1>2, <1>3, <1>4, <1>6 DEF TailSkips, Line

(* p gives up its ticket, which goes on the terminated list. *)
LEMMA RefusalKeepsLine ==
  ASSUME TypeOK, Line, NEW p \in Procs, TailSkips, OthersStay(p),
         UNCHANGED <<ticket_head, ticket>>, Busy(p),
         terminated' = terminated \cup {ticket[p]}, ~Live(p)', ~Busy(p)'
  PROVE  Line'
<1>1. \A q \in Procs : q # p =>
        ticket'[q] = ticket[q] /\ (Live(q)' <=> Live(q)) /\ (Busy(q)' <=> Busy(q))
  BY DEF OthersStay
<1>2. \A q \in Procs : ticket[q] \in Nat
  BY DEF TypeOK, CallOK
<1>3. ticket_tail \in Nat /\ ticket_head \in Nat /\ terminated \in SUBSET Nat
  BY DEF TypeOK, DevOK
<1>4. ticket_tail' <= ticket_head'
  BY <1>3 DEF TailSkips, Line
<1>5. \A q \in Procs : Live(q) => ticket_tail' <= ticket[q]
  BY <1>2, <1>3 DEF TailSkips, Line, TicketsAccounted
<1>6. ticket[p] < ticket_head
  BY <1>2, <1>3 DEF Line, TicketsAccounted
<1>7. ASSUME NEW n \in ticket_tail'..(ticket_head' - 1)
      PROVE  n \in terminated' <=> ~\E q \in Procs : Live(q)' /\ ticket'[q] = n
  <2>1. n \in Nat /\ n \in ticket_tail..(ticket_head - 1)
    BY <1>3 DEF TailSkips
  <2>2. n \in terminated <=> ~\E q \in Procs : Live(q) /\ ticket[q] = n
    BY <2>1 DEF Line, TicketsAccounted
  <2>3. CASE n = ticket[p]
    <3>1. Live(p)
      BY <1>2, <1>3, <2>1, <2>3, <1>7 DEF Line, TailSkips
    <3>2. \A q \in Procs : Live(q) /\ ticket[q] = n => q = p
      BY <2>3, <3>1 DEF Line, TicketsAccounted
    <3> QED
      BY <1>1, <2>3, <3>2
  <2>4. CASE n # ticket[p]
    BY <1>1, <2>2, <2>4
  <2> QED
    BY <2>3, <2>4
<1>8. TicketsAccounted'
  <2>1. \A q \in Procs : Live(q)' => q # p /\ Live(q) /\ ticket'[q] = ticket[q]
    BY <1>1
  <2> QED
    BY <1>5, <1>7, <2>1 DEF Line, TicketsAccounted
<1>9. \A q \in Procs : Busy(q)' /\ ~Live(q)' => ticket'[q] < ticket_tail'
  BY <1>1, <1>2, <1>3 DEF TailSkips, Line
<1>10. \A n \in terminated' : n < ticket_head'
  BY <1>6 DEF Line
<1> QED
  BY <1>4, <1>8, <1>9, <1>10 DEF Line

(* p gets its lock: its ticket is the one served and the next is due. *)
LEMMA GrantKeepsLine ==
  ASSUME TypeOK, Line, NEW p \in Procs, OthersStay(p),
         UNCHANGED <<ticket_head, ticket, terminated>>, Live(p),
         ticket_tail' = ticket[p] + 1, ~Live(p)',
         \A n \in Nat : ticket_tail <= n /\ n < ticket[p] => n \in terminated
  PROVE  Line'
<1>1. \A q \in Procs : q # p =>
        ticket'[q] = ticket[q] /\ (Live(q)' <=> Live(q)) /\ (Busy(q)' <=> Busy(q))
  BY DEF OthersStay
<1>2. \A q \in Procs : ticket[q] \in Nat
  BY DEF TypeOK, CallOK
<1>3. ticket_tail \in Nat /\ ticket_head \in Nat /\ terminated \in SUBSET Nat
  BY DEF TypeOK, DevOK
<1>4. ticket_tail <= ticket[p] /\ ticket[p] < ticket_head
  BY DEF Line, TicketsAccounted
<1>5. \A q \in Procs : Live(q) /\ q # p => ticket_tail' <= ticket[q]
  <2> SUFFICES ASSUME NEW q \in Procs, Live(q), q # p PROVE ticket_tail' <= ticket[q]
    OBVIOUS
  <2>1. ticket[q] # ticket[p] /\ ticket_tail <= ticket[q] /\ ticket[q] < ticket_head
    BY DEF Line, TicketsAccounted
  <2>2. ticket[q] \notin terminated
    BY <1>2, <1>3, <2>1 DEF Line, TicketsAccounted
  <2> QED
    BY <1>2, <1>3, <2>1, <2>2
<1>6. ASSUME NEW n \in ticket_tail'..(ticket_head' - 1)
      PROVE  n \in terminated' <=> ~\E q \in Procs : Live(q)' /\ ticket'[q] = n
  <2>1. n \in ticket_tail..(ticket_head - 1) /\ n # ticket[p]
    BY <1>2, <1>3, <1>4
  <2>2. n \in terminated <=> ~\E q \in Procs : Live(q) /\ ticket[q] = n
    BY <2>1 DEF Line, TicketsAccounted
  <2> QED
    BY <1>1, <2>1, <2>2
<1>7. TicketsAccounted'
  <2>1. \A q \in Procs : Live(q)' => q # p /\ Live(q) /\ ticket'[q] = ticket[q]
    BY <1>1
  <2> QED
    BY <1>5, <1>6, <2>1 DEF Line, TicketsAccounted
<1>8. \A q \in Procs : Busy(q)' /\ ~Live(q)' => ticket'[q] < ticket_tail'
  BY <1>1, <1>2, <1>3, <1>4 DEF Line
<1> QED
  BY <1>2, <1>3, <1>4, <1>7, <1>8 DEF Line

(* p takes the next ticket and joins the line, or gives it up at once. *)
LEMMA JoinKeepsLine ==
  ASSUME TypeOK, Line, NEW p \in Procs, OthersStay(p), ~Busy(p), ~Live(p),
         ticket_head' = ticket_head + 1, UNCHANGED ticket_tail, ticket'[p] = ticket_head,
         \/ Live(p)' /\ UNCHANGED terminated
         \/ ~Live(p)' /\ ~Busy(p)' /\ terminated' = terminated \cup {ticket_head}
  PROVE  Line'
<1>1. \A q \in Procs : q # p =>
        ticket'[q] = ticket[q] /\ (Live(q)' <=> Live(q)) /\ (Busy(q)' <=> Busy(q))
  BY DEF OthersStay
<1>2. \A q \in Procs : ticket[q] \in Nat
  BY DEF TypeOK, CallOK
<1>3. ticket_tail \in Nat /\ ticket_head \in Nat /\ terminated \in SUBSET Nat
  BY DEF TypeOK, DevOK
<1>4. \A q \in Procs : Live(q) => ticket_tail <= ticket[q] /\ ticket[q] < ticket_head
  BY DEF Line, TicketsAccounted
<1>5. ASSUME NEW n \in ticket_tail'..(ticket_head' - 1)
      PROVE  n \in terminated' <=> ~\E q \in Procs : Live(q)' /\ ticket'[q] = n
  <2>1. CASE n = ticket_head
    <3>1. n \notin terminated
      BY <1>3, <2>1 DEF Line
    <3>2. \A q \in Procs : Live(q)' /\ ticket'[q] = n => q = p
      BY <1>1, <1>2, <1>3, <1>4, <2>1
    <3> QED
      BY <2>1, <3>1, <3>2
  <2>2. CASE n # ticket_head
    <3>1. n \in ticket_tail..(ticket_head - 1)
      BY <1>3, <2>2
    <3>2. n \in terminated <=> ~\E q \in Procs : Live(q) /\ ticket[q] = n
      BY <3>1 DEF Line, TicketsAccounted
    <3>3. n \in terminated' <=> n \in terminated
      BY <2>2
    <3> QED
      BY <1>1, <2>2, <3>2, <3>3
  <2> QED
    BY <2>1, <2>2
<1>6. TicketsAccounted'
  <2>1. \A q \in Procs : Live(q)' => ticket_tail' <= ticket'[q] /\ ticket'[q] < ticket_head'
    BY <1>1, <1>2, <1>3, <1>4 DEF Line
  <2>2. ASSUME NEW q \in Procs, NEW r \in Procs, Live(q)', Live(r)', ticket'[q] = ticket'[r]
        PROVE  q = r
    BY <1>1, <1>2, <1>3, <1>4, <2>2 DEF Line, TicketsAccounted
  <2> QED
    BY <1>5, <2>1, <2>2 DEF TicketsAccounted
<1>7. \A q \in Procs : Busy(q)' /\ ~Live(q)' => ticket'[q] < ticket_tail'
  BY <1>1 DEF Line
<1>8. \A n \in terminated' : n < ticket_head'
  <2>1. \A n \in terminated : n < ticket_head'
    BY <1>3 DEF Line
  <2>2. \A n \in terminated' : n \in terminated \/ n = ticket_head
    OBVIOUS
  <2>3. ticket_head < ticket_head'
    BY <1>3
  <2> QED
    BY <2>1, <2>2, <2>3, Zenon
<1> QED
  BY <1>3, <1>6, <1>7, <1>8 DEF Line

-----------------------------------------------------------------------------
(* What a step of p leaves alone: the other requests. *)
OnlyMoves(p) ==
  \A q \in Procs : q # p =>
    /\ pc'[q] = pc[q] /\ side'[q] = side[q] /\ walk'[q] = walk[q]
    /\ file'[q] = file[q] /\ ticket'[q] = ticket[q]

LEMMA OnlyMovesStay == ASSUME NEW p \in Procs, OnlyMoves(p) PROVE OthersStay(p)
BY DEF OnlyMoves, OthersStay, Live, Busy, Writable

(* When p may run, every other request sleeps. *)
LEMMA OthersIdle ==
  ASSUME SerialIoctl, TypeOK, Alone, NEW p \in Procs, MayRun(p)
  PROVE  \A q \in Procs : q # p => pc[q] \in {"user", "sleep"}
BY ProcsAssumption DEF MayRun, Alone

(* So a step of p only has to look after p. *)
LEMMA ControlKept ==
  ASSUME SerialIoctl, TypeOK, Alone, WriteBlock, NEW p \in Procs, MayRun(p), OnlyMoves(p),
         pc'[p] \in {"user", "sleep"} \/ bkl' = p,
         pc'[p] = "store" => /\ walk'[p] = ticket_tail' /\ walk'[p] \in terminated'
                             /\ walk'[p] < ticket'[p],
         Busy(p)' /\ side'[p] = "w" => Writable(file'[p])
  PROVE  Alone' /\ WriteBlock'
<1>1. \A q \in Procs : q # p => pc'[q] \in {"user", "sleep"}
  BY OthersIdle DEF OnlyMoves
<1>2. Alone'
  <2>1. \A q \in Procs : pc'[q] \notin {"user", "sleep"} => bkl' = q
    BY <1>1
  <2>2. \A q \in Procs : pc'[q] = "store" => q = p
    BY <1>1
  <2> QED
    BY <2>1, <2>2 DEF Alone
<1>3. ASSUME NEW q \in Procs, q # p, Busy(q)', side'[q] = "w" PROVE Writable(file'[q])
  BY <1>3 DEF OnlyMoves, WriteBlock, Busy
<1>4. WriteBlock'
  BY <1>3 DEF WriteBlock, Writable
<1> QED
  BY <1>2, <1>4

(* A step that touches none of this keeps it. *)
LEMMA QuietKeepsTicketInv ==
  ASSUME TicketInv,
         UNCHANGED <<ticket_head, ticket_tail, terminated, pc, side, file, ticket, walk, bkl>>
  PROVE  TicketInv'
BY DEF TicketInv, Line, TicketsAccounted, Alone, WriteBlock, Busy, Live, Writable

(* The tail after the two tests of a block. *)
LEMMA TestSkips ==
  ASSUME TypeOK, NEW p \in Procs,
         ticket_tail' \in {ticket_tail, TailAfterTest(side[p], ticket[p])}
  PROVE  TailSkips
BY SkipTailFacts DEF TailAfterTest, TailSkips, TypeOK, DevOK, CallOK

(* p moves on inside the handler, in the same block, with the same ticket; *)
(* the tail may skip terminated tickets.                                   *)
LEMMA MoveKeepsTicketInv ==
  ASSUME SerialIoctl, TypeOK, TicketInv, NEW p \in Procs, NEW where \in Places \ {"user"},
         Busy(p), MayRun(p), pc' = [pc EXCEPT ![p] = where],
         where = "sleep" \/ bkl' = p,
         UNCHANGED <<ticket_head, terminated, file, ticket, side>>, TailSkips,
         \A q \in Procs : q # p => walk'[q] = walk[q],
         where = "store" => /\ walk'[p] = ticket_tail' /\ walk'[p] \in terminated
                            /\ walk'[p] < ticket[p]
  PROVE  TicketInv'
<1>1. pc'[p] = where /\ \A q \in Procs : q # p => pc'[q] = pc[q]
  BY DEF TypeOK, PlaceOK
<1>2. OnlyMoves(p) /\ Busy(p)'
  BY <1>1 DEF OnlyMoves, Busy
<1>3. Live(p)' <=> Live(p)
  BY <1>1, <1>2 DEF Live, Busy, Writable
<1>4. Line'
  BY <1>2, <1>3, OnlyMovesStay, SkipKeepsLine DEF TicketInv
<1>5. Writable(file'[p]) <=> Writable(file[p])
  BY DEF Writable
<1>6. Busy(p)' /\ side'[p] = "w" => Writable(file'[p])
  BY <1>5 DEF TicketInv, WriteBlock
<1>7. Alone' /\ WriteBlock'
  BY <1>1, <1>2, <1>6, ControlKept DEF TicketInv
<1> QED
  BY <1>4, <1>7 DEF TicketInv

(* p leaves the handler without its lock. *)
LEMMA RefuseKeepsTicketInv ==
  ASSUME SerialIoctl, TypeOK, TicketInv, NEW p \in Procs, NEW r, Busy(p), MayRun(p),
         Refuse(p, ticket[p], r), UNCHANGED <<ticket_head, call>>, TailSkips
  PROVE  TicketInv'
<1>1. /\ terminated' = terminated \cup {ticket[p]}
      /\ pc' = [pc EXCEPT ![p] = "user"] /\ side' = [side EXCEPT ![p] = "w"]
      /\ walk' = [walk EXCEPT ![p] = -1]
  BY DEF Refuse, Return
<1>2. pc'[p] = "user"
  BY <1>1 DEF TypeOK, PlaceOK
<1>3. OnlyMoves(p)
  BY <1>1 DEF OnlyMoves, TypeOK, PlaceOK, call
<1>4. ~Busy(p)' /\ ~Live(p)'
  BY <1>2 DEF Busy, Live
<1>5. UNCHANGED <<ticket_head, ticket>>
  BY DEF call
<1>6. OthersStay(p) /\ Line
  BY <1>3, OnlyMovesStay DEF TicketInv
<1>7. Line'
  BY <1>1, <1>4, <1>5, <1>6, RefusalKeepsLine
<1>8. Alone' /\ WriteBlock'
  BY <1>2, <1>3, <1>4, ControlKept DEF TicketInv
<1> QED
  BY <1>7, <1>8 DEF TicketInv

(* p gets its lock.  The test can_run_ticket fails for a ticket already    *)
(* spent, so p's was still in the line.                                    *)
LEMMA GrantKeepsTicketInv ==
  ASSUME SerialIoctl, TypeOK, TicketInv, NEW p \in Procs, NEW next \in {"check", "try"},
         Busy(p), MayRun(p), can_run_ticket(ticket[p]), Grant(p, next)
  PROVE  TicketInv'
<1>1. ticket[p] \in Nat /\ ticket_tail \in Nat
  BY DEF TypeOK, CallOK, DevOK
<1>2. SkipTail(ticket[p]) = ticket[p]
  BY DEF can_run_ticket
<1>3. Live(p)
  BY <1>1, <1>2, SkipTailFacts DEF TicketInv, Line
<1>4. \A n \in Nat : ticket_tail <= n /\ n < ticket[p] => n \in terminated
  BY <1>1, <1>2, SkipTailFacts
<1>5. ticket_tail' = ticket[p] + 1 /\ UNCHANGED <<ticket_head, ticket, terminated, file>>
  BY <1>2 DEF Grant, call
<1>6. /\ OnlyMoves(p)
      /\ pc'[p] # "store" /\ (pc'[p] = "user" \/ bkl' = p)
      /\ Busy(p)' => side'[p] = "r" /\ side[p] = "w"
  <2>1. CASE Return(p, "0")
    BY <1>5, <2>1 DEF Return, OnlyMoves, Busy, TypeOK, PlaceOK
  <2>2. CASE /\ side[p] = "w" /\ side' = [side EXCEPT ![p] = "r"] /\ Goto(p, next)
             /\ UNCHANGED <<ret, sig, walk, queued, wq>>
    BY <1>5, <2>2 DEF Goto, KeepCpu, OnlyMoves, Busy, TypeOK, PlaceOK
  <2> QED
    BY <2>1, <2>2 DEF Grant
<1>7. ~Live(p)'
  BY <1>5, <1>6 DEF Live, Busy, TicketInv, WriteBlock, Writable
<1>8. OthersStay(p) /\ Line
  BY <1>6, OnlyMovesStay DEF TicketInv
<1>9. Line'
  BY <1>3, <1>4, <1>5, <1>7, <1>8, GrantKeepsLine
<1>10. Alone' /\ WriteBlock'
  BY <1>6, ControlKept DEF TicketInv
<1> QED
  BY <1>9, <1>10 DEF TicketInv

-----------------------------------------------------------------------------
(* The two outcomes of wait_event's condition move p, or put it to sleep. *)
LEMMA CondKeepsTicketInv ==
  ASSUME SerialIoctl, TypeOK, TicketInv, NEW p \in Procs, CondTrue(p) \/ CondFalse(p),
         Busy(p), MayRun(p), UNCHANGED <<dev, call, side>>
  PROVE  TicketInv'
<1>1. \E where \in Places \ {"user", "store"} :
        pc' = [pc EXCEPT ![p] = where] /\ (where = "sleep" \/ bkl' = p)
  BY DEF CondTrue, CondFalse, Goto, KeepCpu, Places
<1>2. \A q \in Procs : q # p => walk'[q] = walk[q]
  BY DEF CondTrue, CondFalse, TypeOK, PlaceOK
<1>3. TailSkips /\ UNCHANGED <<ticket_head, terminated, file, ticket, side>>
  BY DEF TailSkips, dev, call, TypeOK, DevOK
<1> QED
  BY <1>1, <1>2, <1>3, MoveKeepsTicketInv

(* Every step keeps the ticket invariant. *)
LEMMA TicketInvInductive ==
  ASSUME SerialIoctl, TypeOK, TicketInv, [Next]_vars
  PROVE  TicketInv'
<1>1. ASSUME NEW p \in Procs, Check(p) PROVE TicketInv'
  <2>1. Busy(p) /\ MayRun(p) /\ TailSkips /\ UNCHANGED <<ticket_head, call>>
    BY <1>1 DEF Check, Busy, TailSkips, TypeOK, DevOK
  <2>2. CASE Refuse(p, ticket[p], "EDEADLK")
    BY <2>1, <2>2, RefuseKeepsTicketInv
  <2>3. CASE Goto(p, "loop") /\ UNCHANGED <<terminated, wq, place, sig, ret>>
    <3>1. pc' = [pc EXCEPT ![p] = "loop"] /\ bkl' = p /\ "loop" \in Places \ {"user"}
      BY <2>3 DEF Goto, KeepCpu, Places
    <3>2. UNCHANGED <<ticket_head, terminated, file, ticket, side, walk>>
      BY <2>1, <2>3 DEF call, place
    <3> QED
      BY <2>1, <3>1, <3>2, MoveKeepsTicketInv
  <2> QED
    BY <1>1, <2>2, <2>3 DEF Check
<1>2. ASSUME NEW p \in Procs, Loop(p) PROVE TicketInv'
  <2>1. Busy(p) /\ MayRun(p)
    BY <1>2 DEF Loop, Busy
  <2>2. CASE can_run_ticket(ticket[p]) /\ Grant(p, "check")
    BY <2>1, <2>2, GrantKeepsTicketInv
  <2>3. CASE /\ ticket_tail' = TailAfterTest(side[p], ticket[p]) /\ Goto(p, "cond")
             /\ UNCHANGED <<ticket_head, terminated, num_readers, readers, writer>>
             /\ UNCHANGED <<wq, fds, locked, call, place, sig, ret>>
    <3>1. pc' = [pc EXCEPT ![p] = "cond"] /\ bkl' = p /\ "cond" \in Places \ {"user"}
      BY <2>3 DEF Goto, KeepCpu, Places
    <3>2. UNCHANGED <<ticket_head, terminated, file, ticket, side, walk>>
      BY <2>3 DEF call, place
    <3>3. TailSkips
      BY <2>3, TestSkips
    <3> QED
      BY <2>1, <3>1, <3>2, <3>3, MoveKeepsTicketInv
  <2> QED
    BY <1>2, <2>2, <2>3 DEF Loop
<1>3. ASSUME NEW p \in Procs, Try(p) PROVE TicketInv'
  <2>1. Busy(p) /\ MayRun(p)
    BY <1>3 DEF Try, Busy
  <2>2. CASE can_run_ticket(ticket[p]) /\ Grant(p, "try")
    BY <2>1, <2>2, GrantKeepsTicketInv
  <2>3. CASE /\ ticket_tail' \in {ticket_tail, TailAfterTest(side[p], ticket[p])}
             /\ Refuse(p, ticket[p], "EBUSY")
             /\ UNCHANGED <<ticket_head, num_readers, readers, writer, fds, locked, call>>
    <3>1. TailSkips /\ UNCHANGED <<ticket_head, call>>
      BY <2>3, TestSkips
    <3> QED
      BY <2>1, <2>3, <3>1, RefuseKeepsTicketInv
  <2> QED
    BY <1>3, <2>2, <2>3 DEF Try
<1>4. ASSUME NEW p \in Procs, EvalLock(p) PROVE TicketInv'
  <2>1. Busy(p) /\ MayRun(p) /\ UNCHANGED <<dev, call, side>>
    BY <1>4 DEF EvalLock, Busy
  <2>2. CASE CondFalse(p)
    BY <2>1, <2>2, CondKeepsTicketInv
  <2>3. CASE Goto(p, "walk") /\ UNCHANGED <<wq, walk, queued>>
    <3>1. pc' = [pc EXCEPT ![p] = "walk"] /\ bkl' = p /\ "walk" \in Places \ {"user"}
      BY <2>3 DEF Goto, KeepCpu, Places
    <3>2. UNCHANGED <<ticket_head, terminated, file, ticket, side, walk>> /\ TailSkips
      BY <2>1, <2>3 DEF call, dev, TailSkips, TypeOK, DevOK
    <3> QED
      BY <2>1, <3>1, <3>2, MoveKeepsTicketInv
  <2> QED
    BY <1>4, <2>2, <2>3 DEF EvalLock
<1>5. ASSUME NEW p \in Procs, EvalWalk(p) PROVE TicketInv'
  <2> DEFINE ahead == {n \in terminated : walk[p] < n /\ n < ticket[p]}
  <2>1. Busy(p) /\ MayRun(p) /\ UNCHANGED <<dev, call, side>>
    BY <1>5 DEF EvalWalk, Busy
  <2>2. CASE CondTrue(p) \/ CondFalse(p)
    BY <2>1, <2>2, CondKeepsTicketInv
  <2>3. CASE /\ ahead # {} /\ walk' = [walk EXCEPT ![p] = Min(ahead)]
             /\ Goto(p, IF Min(ahead) = ticket_tail THEN "store" ELSE "walk")
    <3> DEFINE where == IF Min(ahead) = ticket_tail THEN "store" ELSE "walk"
    <3>1. Min(ahead) \in ahead
      BY <2>3, MinNat DEF TypeOK, DevOK
    <3>2. walk'[p] = Min(ahead) /\ \A q \in Procs : q # p => walk'[q] = walk[q]
      BY <2>3 DEF TypeOK, PlaceOK
    <3>3. /\ pc' = [pc EXCEPT ![p] = where] /\ bkl' = p
          /\ where \in Places \ {"user"}
      BY <2>3 DEF Goto, KeepCpu, Places
    <3>4. UNCHANGED <<ticket_head, ticket_tail, terminated, file, ticket, side>> /\ TailSkips
      BY <2>1 DEF call, dev, TailSkips, TypeOK, DevOK
    <3>5. where = "store" => /\ walk'[p] = ticket_tail' /\ walk'[p] \in terminated
                             /\ walk'[p] < ticket[p]
      BY <3>1, <3>2, <3>4
    <3> HIDE DEF where, ahead
    <3> QED
      BY <2>1, <3>2, <3>3, <3>4, <3>5, MoveKeepsTicketInv
  <2> QED
    BY <1>5, <2>2, <2>3 DEF EvalWalk
<1>6. ASSUME NEW p \in Procs, EvalStore(p) PROVE TicketInv'
  <2>1. Busy(p) /\ MayRun(p) /\ pc[p] = "store"
    BY <1>6 DEF EvalStore, Busy
  <2>2. walk[p] = ticket_tail /\ ticket_tail \in terminated
    BY <2>1 DEF TicketInv, Alone
  <2>3. ticket_tail' = ticket_tail + 1
    BY <1>6, <2>2 DEF EvalStore
  <2>4. TailSkips
    BY <2>2, <2>3 DEF TailSkips, TypeOK, DevOK
  <2>5. pc' = [pc EXCEPT ![p] = "walk"] /\ bkl' = p /\ "walk" \in Places \ {"user"}
    BY <1>6 DEF EvalStore, Goto, KeepCpu, Places
  <2>6. UNCHANGED <<ticket_head, terminated, file, ticket, side, walk>>
    BY <1>6 DEF EvalStore, call, place
  <2> QED
    BY <2>1, <2>4, <2>5, <2>6, MoveKeepsTicketInv
<1>7. ASSUME NEW p \in Procs, Resume(p) PROVE TicketInv'
  <2>1. Busy(p) /\ MayRun(p) /\ TailSkips
    BY <1>7 DEF Resume, Busy, TailSkips, dev, TypeOK, DevOK
  <2>2. pc' = [pc EXCEPT ![p] = "cond"] /\ bkl' = p /\ "cond" \in Places \ {"user"}
    BY <1>7 DEF Resume, Goto, KeepCpu, Places
  <2>3. UNCHANGED <<ticket_head, terminated, file, ticket, side, walk>>
    BY <1>7 DEF Resume, dev, call, place
  <2> QED
    BY <2>1, <2>2, <2>3, MoveKeepsTicketInv
<1>8. ASSUME NEW p \in Procs, Interrupted(p) PROVE TicketInv'
  <2>1. Busy(p) /\ MayRun(p) /\ TailSkips /\ UNCHANGED <<ticket_head, call>>
    BY <1>8 DEF Interrupted, Busy, TailSkips, TypeOK, DevOK
  <2> QED
    BY <1>8, <2>1, RefuseKeepsTicketInv DEF Interrupted
<1>9. ASSUME NEW p \in Procs, NEW f \in Files, NEW next \in {"check", "try"},
             NEW refusal, TakeTicket(p, f, next, refusal)
      PROVE  TicketInv'
  <2>1. /\ ~Busy(p) /\ ~Live(p) /\ MayRun(p)
        /\ ticket_head' = ticket_head + 1 /\ UNCHANGED ticket_tail
        /\ file' = [file EXCEPT ![p] = f] /\ ticket' = [ticket EXCEPT ![p] = ticket_head]
    BY <1>9 DEF TakeTicket, Busy, Live
  <2>2. ticket'[p] = ticket_head /\ file'[p] = f
    BY <2>1 DEF TypeOK, CallOK
  <2>3. CASE Refuse(p, ticket_head, refusal)
    <3>1. /\ pc' = [pc EXCEPT ![p] = "user"] /\ side' = [side EXCEPT ![p] = "w"]
          /\ walk' = [walk EXCEPT ![p] = -1] /\ terminated' = terminated \cup {ticket_head}
      BY <2>3 DEF Refuse, Return
    <3>2. OnlyMoves(p) /\ pc'[p] = "user"
      BY <2>1, <3>1 DEF OnlyMoves, TypeOK, CallOK, PlaceOK
    <3>3. ~Busy(p)' /\ ~Live(p)' /\ OthersStay(p) /\ Line
      BY <3>2, OnlyMovesStay DEF Busy, Live, TicketInv
    <3>4. Line'
      BY <2>1, <2>2, <3>1, <3>3, JoinKeepsLine
    <3>5. Alone' /\ WriteBlock'
      BY <2>1, <3>2, <3>3, ControlKept DEF TicketInv
    <3> QED
      BY <3>4, <3>5 DEF TicketInv
  <2>4. CASE /\ side' = [side EXCEPT ![p] = IF Writable(f) THEN "w" ELSE "r"]
             /\ Goto(p, next) /\ UNCHANGED <<terminated, wq, sig, walk, queued>>
    <3>1. pc' = [pc EXCEPT ![p] = next] /\ bkl' = p
      BY <2>4 DEF Goto, KeepCpu
    <3>2. OnlyMoves(p) /\ pc'[p] = next /\ (side'[p] = "w" <=> Writable(f))
      BY <2>1, <2>4, <3>1 DEF OnlyMoves, TypeOK, CallOK, PlaceOK
    <3>3. Live(p)' /\ OthersStay(p) /\ Line /\ UNCHANGED terminated
      BY <2>2, <2>4, <3>2, OnlyMovesStay DEF Live, Writable, TicketInv
    <3>4. Line'
      BY <2>1, <2>2, <3>3, JoinKeepsLine
    <3>5. Alone' /\ WriteBlock'
      BY <2>1, <2>2, <3>1, <3>2, ControlKept DEF TicketInv
    <3> QED
      BY <3>4, <3>5 DEF TicketInv
  <2> QED
    BY <1>9, <2>3, <2>4 DEF TakeTicket
<1>10. ASSUME NEW p \in Procs, Signal(p) PROVE TicketInv'
  BY <1>10, QuietKeepsTicketInv DEF Signal, dev, call, place
<1>11. ASSUME NEW p \in Procs, NEW f \in Files, Open(p, f) PROVE TicketInv'
  BY <1>11, QuietKeepsTicketInv DEF Open, dev, call, place
<1>12. ASSUME NEW p \in Procs, NEW q \in Procs, NEW f \in Files, Fork(p, q, f)
       PROVE  TicketInv'
  BY <1>12, QuietKeepsTicketInv DEF Fork, dev, call, place
<1>13. ASSUME NEW p \in Procs, NEW f \in Files, Close(p, f) \/ Release(p, f)
       PROVE  TicketInv'
  <2>1. UNCHANGED <<ticket_head, ticket_tail, terminated>>
    BY <1>13 DEF Close, Release, Unlock, dev
  <2>2. UNCHANGED <<pc, side, file, ticket, walk, bkl>>
    BY <1>13 DEF Close, Release, call, place
  <2> QED
    BY <2>1, <2>2, QuietKeepsTicketInv
<1>14. CASE UNCHANGED vars
  BY <1>14, QuietKeepsTicketInv DEF vars, dev, call, place
<1> QED
  BY <1>1, <1>2, <1>3, <1>4, <1>5, <1>6, <1>7, <1>8, <1>9, <1>10, <1>11, <1>12,
     <1>13, <1>14 DEF Next, Kernel, Client, Acquire, TryAcquire

(* Under a kernel that runs one handler at a time no ticket is ever lost,  *)
(* whatever the modes of the files, the sharing, the refusals and signals. *)
THEOREM TicketsNeverLost == ASSUME SerialIoctl PROVE Spec => []TicketsAccounted
<1>1. Init => TicketInv
  BY DEF Init, TicketInv, Line, TicketsAccounted, Alone, WriteBlock, Busy, Live
<1>2. TypeOK /\ TicketInv /\ [Next]_vars => TicketInv'
  BY TicketInvInductive
<1>3. TicketInv => TicketsAccounted
  BY DEF TicketInv, Line
<1> QED
  BY <1>1, <1>2, <1>3, TypeCorrect, PTL DEF Spec

-----------------------------------------------------------------------------
(* The request that can_run_ticket lets through is first in line. *)
LEMMA RunnerIsFirst ==
  ASSUME TypeOK, Line, NEW p \in Procs, Busy(p), can_run_ticket(ticket[p])
  PROVE  FirstInLine(p)
<1>1. /\ ticket_tail \in Nat /\ ticket_head \in Nat
      /\ \A q \in Procs : ticket[q] \in Nat
  BY DEF TypeOK, CallOK, DevOK
<1>2. SkipTail(ticket[p]) = ticket[p]
  BY DEF can_run_ticket
<1>3. Live(p)
  BY <1>1, <1>2, SkipTailFacts DEF Line
<1>4. \A n \in Nat : ticket_tail <= n /\ n < ticket[p] => n \in terminated
  BY <1>1, <1>2, SkipTailFacts
<1>5. ASSUME NEW q \in Procs, Live(q), ticket[q] < ticket[p] PROVE FALSE
  <2>1. ticket_tail <= ticket[q] /\ ticket[q] < ticket_head
    BY <1>5 DEF Line, TicketsAccounted
  <2>2. ticket[q] \in ticket_tail..(ticket_head - 1) /\ ticket[q] \in terminated
    BY <1>1, <1>4, <1>5, <2>1
  <2> QED
    BY <1>5, <2>2 DEF Line, TicketsAccounted
<1> QED
  BY <1>1, <1>3, <1>5 DEF FirstInLine

(* A step that makes p a holder is the grant of p's own request. *)
LEMMA HolderWasGranted ==
  ASSUME [Next]_vars, NEW p \in Procs,
         (writer' = p /\ writer # p) \/ p \in readers' \ readers
  PROVE  Busy(p) /\ can_run_ticket(ticket[p])
<1>1. ASSUME NEW q \in Procs, NEW next, Grant(q, next) PROVE q = p
  <2>1. CASE side[q] = "w" /\ writer' = q /\ UNCHANGED <<readers, num_readers>>
    BY <2>1
  <2>2. CASE side[q] = "r" /\ readers' = readers \cup {q} /\ UNCHANGED writer
    BY <2>2
  <2> QED
    BY <1>1, <2>1, <2>2 DEF Grant
<1>2. ASSUME NEW q \in Procs, NEW f \in Files, Unlock(q, f) PROVE FALSE
  <2>1. writer' \in {writer, NoProc} /\ (readers' = readers \/ readers' = readers \ {q})
    BY <1>2 DEF Unlock
  <2> QED
    BY <2>1, ProcsAssumption
<1>3. ASSUME UNCHANGED <<writer, readers>> PROVE FALSE
  BY <1>3
<1>4. ASSUME NEW q \in Procs, Loop(q) \/ Try(q)
      PROVE  Busy(p) /\ can_run_ticket(ticket[p])
  <2>1. CASE Loop(q)
    BY <1>1, <1>3, <2>1 DEF Loop, Busy
  <2>2. CASE Try(q)
    BY <1>1, <1>3, <2>2 DEF Try, Busy
  <2> QED
    BY <1>4, <2>1, <2>2
<1>5. ASSUME NEW q \in Procs, Kernel(q), ~Loop(q), ~Try(q) PROVE FALSE
  BY <1>3, <1>5
  DEF Kernel, Check, EvalLock, EvalWalk, EvalStore, Resume, Interrupted, dev
<1>6. ASSUME NEW q \in Procs, NEW f \in Files, Close(q, f) \/ Release(q, f) PROVE FALSE
  BY <1>2, <1>3, <1>6 DEF Close, Release, dev
<1>7. ASSUME NEW q \in Procs, NEW f \in Files, NEW next, NEW refusal,
             TakeTicket(q, f, next, refusal)
      PROVE  FALSE
  BY <1>3, <1>7 DEF TakeTicket
<1>8. ASSUME NEW q \in Procs, NEW f \in Files, Client(q, f) PROVE FALSE
  BY <1>3, <1>6, <1>7, <1>8 DEF Client, Open, Fork, Acquire, TryAcquire, dev
<1>9. ASSUME NEW q \in Procs, Signal(q) PROVE FALSE
  BY <1>3, <1>9 DEF Signal, dev
<1>10. CASE UNCHANGED vars
  BY <1>3, <1>10 DEF vars, dev
<1> QED
  BY <1>4, <1>5, <1>8, <1>9, <1>10 DEF Next

(* Under the same kernel no grant overtakes an earlier request that still  *)
(* waits: point 3 of the comment on OSPRDIOCACQUIRE.                       *)
THEOREM ServedInOrder == ASSUME SerialIoctl PROVE Spec => GrantedInOrder
<1>1. Init => TicketInv
  BY DEF Init, TicketInv, Line, TicketsAccounted, Alone, WriteBlock, Busy, Live
<1>2. TypeOK /\ TicketInv /\ [Next]_vars => TicketInv'
  BY TicketInvInductive
<1>3. TypeOK /\ TicketInv /\ [Next]_vars =>
        [\A p \in Procs : (writer' = p /\ writer # p) \/ p \in readers' \ readers
            => FirstInLine(p)]_vars
  BY HolderWasGranted, RunnerIsFirst DEF TicketInv
<1> QED
  BY <1>1, <1>2, <1>3, TypeCorrect, PTL DEF Spec, GrantedInOrder

-----------------------------------------------------------------------------
(* The write grant spends the ticket of an O_RDWR request, so its read     *)
(* block is never granted.                                                 *)
LEMMA SpentTicketsNeverRun ==
  ASSUME TypeOK, TicketInv
  PROVE  GrantFits
<1> SUFFICES ASSUME NEW p \in Procs, Busy(p), side[p] = "r", can_run_ticket(ticket[p]),
                    Writable(file[p])
             PROVE  FALSE
  BY DEF GrantFits
<1>1. ticket[p] < ticket_tail
  BY DEF TicketInv, Line, Live
<1>2. ticket[p] \in Nat /\ ticket_tail \in Nat
  BY DEF TypeOK, CallOK, DevOK
<1> QED
  BY <1>1, <1>2, SkipTailFacts DEF can_run_ticket

SerialInv == TypeOK /\ HoldInv /\ TicketInv /\ LockAccounting

LEMMA SerialInvariant == ASSUME SerialIoctl PROVE Spec => []SerialInv
<1>1. Init => TicketInv
  BY DEF Init, TicketInv, Line, TicketsAccounted, Alone, WriteBlock, Busy, Live
<1>2. TypeOK /\ TicketInv /\ [Next]_vars => TicketInv'
  BY TicketInvInductive
<1>3. TypeOK /\ HoldInv /\ TicketInv /\ LockAccounting /\ [Next]_vars => LockAccounting'
  BY SpentTicketsNeverRun, AccountsInductive
<1>4. Init => LockAccounting
  BY AccountsInit
<1> QED
  BY <1>1, <1>2, <1>3, <1>4, HoldInvariant, PTL DEF Spec, SerialInv

(* Mutual exclusion again, now with files opened O_RDWR.                   *)
THEOREM SerialExclusion == ASSUME SerialIoctl PROVE Spec => []ExclusiveLock
<1>1. SerialInv => ExclusiveLock
  BY AccountsExclude DEF SerialInv, TypeOK
<1> QED
  BY <1>1, SerialInvariant, PTL

-----------------------------------------------------------------------------
(* Steps of a handler, and steps that touch neither the line nor any       *)
(* request.                                                                *)
Handles(p) == Kernel(p) \/ \E f \in Files : Acquire(p, f) \/ TryAcquire(p, f)

Idles == UNCHANGED <<ticket_head, ticket_tail, terminated, pc, side, file, ticket, walk, bkl>>

LEMMA StepKinds ==
  ASSUME [Next]_vars
  PROVE  Idles \/ \E p \in Procs : Handles(p)
<1>1. ASSUME NEW p \in Procs, NEW f \in Files, Client(p, f), ~Acquire(p, f), ~TryAcquire(p, f)
      PROVE  Idles
  <2>1. UNCHANGED <<pc, side, file, ticket, walk, bkl>>
    BY <1>1 DEF Client, Open, Close, Release, Fork, call, place
  <2>2. UNCHANGED <<ticket_head, ticket_tail, terminated>>
    BY <1>1 DEF Client, Open, Close, Release, Fork, Unlock, dev
  <2> QED
    BY <2>1, <2>2 DEF Idles
<1>2. ASSUME NEW p \in Procs, Signal(p) PROVE Idles
  BY <1>2 DEF Signal, Idles, dev, call, place
<1>3. CASE UNCHANGED vars
  BY <1>3 DEF vars, Idles, dev, call, place
<1> QED
  BY <1>1, <1>2, <1>3 DEF Next, Handles

(* How a step of p's handler ends: p goes on waiting in the same block     *)
(* with the same ticket, gives up its ticket and leaves, or gets its lock; *)
(* or p's call begins, with a new ticket.                                  *)
Leaves(p) == /\ pc' = [pc EXCEPT ![p] = "user"] /\ side' = [side EXCEPT ![p] = "w"]
             /\ walk' = [walk EXCEPT ![p] = -1] /\ UNCHANGED <<file, ticket>>
Holders   == <<num_readers, readers, writer, fds, locked>>
Waits(p)  == /\ Busy(p) /\ Busy(p)' /\ OnlyMoves(p)
             /\ UNCHANGED <<file, ticket, side, Holders>>
GivesUp(p) == Busy(p) /\ Leaves(p) /\ UNCHANGED Holders
Gets(p)   == /\ Busy(p) /\ can_run_ticket(ticket[p]) /\ CanLock(side[p])
             /\ pc[p] = "loop" \/ p \notin readers
             /\ \E next \in {"check", "try"} : Grant(p, next)
Begins(p) == \E f \in Files, next \in {"check", "try"} : \E refusal \in {"EDEADLK", "EBUSY"} :
               TakeTicket(p, f, next, refusal)

LEMMA ReturnLeaves ==
  ASSUME NEW p, NEW r, Return(p, r), UNCHANGED call
  PROVE  Leaves(p)
BY DEF Return, Leaves, call

LEMMA LeavesMoves ==
  ASSUME TypeOK, NEW p \in Procs, Leaves(p)
  PROVE  OnlyMoves(p) /\ pc'[p] = "user" /\ side'[p] = "w" /\ walk'[p] = -1
BY DEF TypeOK, PlaceOK, Leaves, OnlyMoves

LEMMA MoveWaits ==
  ASSUME TypeOK, NEW p \in Procs, Busy(p), NEW where \in Places \ {"user"},
         pc' = [pc EXCEPT ![p] = where], \A q \in Procs : q # p => walk'[q] = walk[q],
         UNCHANGED <<file, ticket, side, Holders>>
  PROVE  Waits(p) /\ pc'[p] = where
BY DEF TypeOK, PlaceOK, Waits, Busy, OnlyMoves

LEMMA CondWaits ==
  ASSUME TypeOK, NEW p \in Procs, Busy(p), CondTrue(p) \/ CondFalse(p),
         UNCHANGED <<dev, fds, locked, call, side>>
  PROVE  /\ Waits(p) /\ walk'[p] = -1 /\ pc'[p] \in {"loop", "cond", "sleep", "intr"}
         /\ ~CondFalse(p) => pc'[p] = "loop"
         /\ \A q \in Procs : q # p => (q \in wq' <=> q \in wq)
<1>1. walk' = [walk EXCEPT ![p] = -1] /\ UNCHANGED <<file, ticket, side, Holders>>
  BY DEF CondTrue, CondFalse, call, dev, Holders
<1>2. \E where \in {"loop", "cond", "sleep", "intr"} :
        pc' = [pc EXCEPT ![p] = where] /\ (~CondFalse(p) => where = "loop")
  <2>1. CASE CondTrue(p) /\ ~CondFalse(p)
    BY <2>1 DEF CondTrue, Goto
  <2>2. CASE CondFalse(p)
    BY <2>2 DEF CondFalse, Goto
  <2> QED
    BY <2>1, <2>2
<1>3. PICK where \in {"loop", "cond", "sleep", "intr"} :
        pc' = [pc EXCEPT ![p] = where] /\ (~CondFalse(p) => where = "loop")
  BY <1>2
<1>4. walk'[p] = -1 /\ \A q \in Procs : q # p => walk'[q] = walk[q]
  BY <1>1 DEF TypeOK, PlaceOK
<1>5. Waits(p) /\ pc'[p] = where
  BY <1>1, <1>3, <1>4, MoveWaits DEF Places
<1>6. \A q \in Procs : q # p => (q \in wq' <=> q \in wq)
  BY DEF CondTrue, CondFalse
<1> QED
  BY <1>3, <1>4, <1>5, <1>6

LEMMA HandlerKinds ==
  ASSUME TypeOK, NEW p \in Procs, Handles(p)
  PROVE  MayRun(p) /\ (Waits(p) \/ GivesUp(p) \/ Gets(p) \/ Begins(p))
<1>1. CASE Check(p)
  <2>1. Busy(p) /\ MayRun(p) /\ UNCHANGED <<Holders, call>>
    BY <1>1 DEF Check, Busy, Holders
  <2>2. CASE Refuse(p, ticket[p], "EDEADLK")
    BY <2>1, <2>2, ReturnLeaves DEF Refuse, GivesUp
  <2>3. CASE Goto(p, "loop") /\ UNCHANGED place
    BY <2>1, <2>3, MoveWaits DEF Goto, Places, place, call
  <2> QED
    BY <1>1, <2>1, <2>2, <2>3 DEF Check
<1>2. CASE Loop(p)
  <2>1. Busy(p) /\ MayRun(p) /\ pc[p] = "loop"
    BY <1>2 DEF Loop, Busy
  <2>2. CASE CanLock(side[p]) /\ can_run_ticket(ticket[p]) /\ Grant(p, "check")
    BY <2>1, <2>2 DEF Gets
  <2>3. CASE /\ Goto(p, "cond")
             /\ UNCHANGED <<ticket_head, terminated, num_readers, readers, writer>>
             /\ UNCHANGED <<wq, fds, locked, call, place, sig, ret>>
    BY <2>1, <2>3, MoveWaits DEF Goto, Places, place, call, Holders
  <2> QED
    BY <1>2, <2>1, <2>2, <2>3 DEF Loop
<1>3. CASE Try(p)
  <2>1. Busy(p) /\ MayRun(p)
    BY <1>3 DEF Try, Busy
  <2>2. CASE p \notin readers /\ CanLock(side[p]) /\ can_run_ticket(ticket[p]) /\ Grant(p, "try")
    BY <2>1, <2>2 DEF Gets
  <2>3. CASE /\ Refuse(p, ticket[p], "EBUSY")
             /\ UNCHANGED <<ticket_head, num_readers, readers, writer, fds, locked, call>>
    BY <2>1, <2>3, ReturnLeaves DEF Refuse, GivesUp, Holders
  <2> QED
    BY <1>3, <2>1, <2>2, <2>3 DEF Try
<1>4. CASE EvalLock(p)
  <2>1. Busy(p) /\ MayRun(p) /\ UNCHANGED <<dev, fds, locked, call, side>>
    BY <1>4 DEF EvalLock, Busy
  <2>2. CASE CondFalse(p)
    BY <2>1, <2>2, CondWaits
  <2>3. CASE Goto(p, "walk") /\ UNCHANGED <<wq, walk, queued>>
    BY <2>1, <2>3, MoveWaits DEF Goto, Places, call, dev, Holders
  <2> QED
    BY <1>4, <2>1, <2>2, <2>3 DEF EvalLock
<1>5. CASE EvalWalk(p)
  <2>1. Busy(p) /\ MayRun(p) /\ UNCHANGED <<dev, fds, locked, call, side>>
    BY <1>5 DEF EvalWalk, Busy
  <2>2. CASE CondTrue(p) \/ CondFalse(p)
    BY <2>1, <2>2, CondWaits
  <2>3. CASE \E n : walk' = [walk EXCEPT ![p] = n] /\ \E where \in {"store", "walk"} : Goto(p, where)
    <3>1. \A q \in Procs : q # p => walk'[q] = walk[q]
      BY <2>3 DEF TypeOK, PlaceOK
    <3> QED
      BY <2>1, <2>3, <3>1, MoveWaits DEF Goto, Places, call, dev, Holders
  <2> QED
    BY <1>5, <2>1, <2>2, <2>3 DEF EvalWalk
<1>6. CASE EvalStore(p)
  BY <1>6, MoveWaits DEF EvalStore, Goto, Places, Busy, place, call, Holders
<1>7. CASE Resume(p)
  BY <1>7, MoveWaits DEF Resume, Goto, Places, Busy, place, call, dev, Holders
<1>8. CASE Interrupted(p)
  BY <1>8, ReturnLeaves DEF Interrupted, Refuse, GivesUp, Busy, Holders
<1>9. ASSUME NEW f \in Files, Acquire(p, f) \/ TryAcquire(p, f) PROVE MayRun(p) /\ Begins(p)
  BY <1>9 DEF Acquire, TryAcquire, Begins, TakeTicket
<1> QED
  BY <1>1, <1>2, <1>3, <1>4, <1>5, <1>6, <1>7, <1>8, <1>9 DEF Handles, Kernel

(* Getting the lock: p leaves, unless its file is O_RDWR. *)
LEMMA GetsFacts ==
  ASSUME TypeOK, NEW p \in Procs, Gets(p)
  PROVE  /\ OnlyMoves(p) /\ UNCHANGED <<file, ticket, fds>>
         /\ Leaves(p) \/ (side[p] = "w" /\ Readable(file[p]) /\ side'[p] = "r" /\ Busy(p)' /\ walk'[p] = walk[p])
         /\ \A q \in Procs : q # p => (q \in wq' <=> q \in wq)
         /\ locked' = [locked EXCEPT ![file[p]] = TRUE]
         /\ \/ side[p] = "w" /\ writer' = p /\ UNCHANGED <<readers, num_readers>>
            \/ side[p] = "r" /\ readers' = readers \cup {p} /\ num_readers' = num_readers + 1
               /\ UNCHANGED writer
<1>1. PICK next \in {"check", "try"} : Grant(p, next)
  BY DEF Gets
<1>2. UNCHANGED <<file, ticket, fds, call>>
  BY <1>1 DEF Grant, call
<1>3. CASE Return(p, "0")
  <2>1. Leaves(p) /\ wq' = wq \ {p}
    BY <1>2, <1>3, ReturnLeaves DEF Return
  <2> QED
    BY <1>1, <1>2, <2>1, LeavesMoves DEF Grant
<1>4. CASE /\ side[p] = "w" /\ Readable(file[p]) /\ side' = [side EXCEPT ![p] = "r"] /\ Goto(p, next)
           /\ UNCHANGED <<ret, sig, walk, queued, wq>>
  <2>1. OnlyMoves(p) /\ side'[p] = "r" /\ Busy(p)'
    BY <1>2, <1>4 DEF Goto, OnlyMoves, Busy, TypeOK, PlaceOK
  <2> QED
    BY <1>1, <1>2, <1>4, <2>1 DEF Grant
<1> QED
  BY <1>1, <1>3, <1>4 DEF Grant

(* A call begins: p joins the line, or is refused as the writer. *)
LEMMA BeginsFacts ==
  ASSUME TypeOK, NEW p \in Procs, Begins(p)
  PROVE  /\ OnlyMoves(p) /\ ~Busy(p) /\ ticket'[p] = ticket_head
         /\ file'[p] \in Files /\ p \in fds[file'[p]]
         /\ UNCHANGED <<ticket_tail, Holders>>
         /\ \A q \in Procs : q # p => (q \in wq' <=> q \in wq)
         /\ \/ /\ writer = p /\ pc'[p] = "user" /\ side'[p] = "w" /\ walk'[p] = -1
            \/ /\ writer # p /\ pc'[p] \in {"check", "try"} /\ walk'[p] = walk[p]
               /\ side'[p] = IF Writable(file'[p]) THEN "w" ELSE "r"
<1>1. PICK f \in Files, next \in {"check", "try"}, refusal \in {"EDEADLK", "EBUSY"} :
        TakeTicket(p, f, next, refusal)
  BY DEF Begins
<1>2. /\ ~Busy(p) /\ p \in fds[f] /\ UNCHANGED <<ticket_tail, Holders>>
      /\ file' = [file EXCEPT ![p] = f] /\ ticket' = [ticket EXCEPT ![p] = ticket_head]
  BY <1>1 DEF TakeTicket, Busy, Holders
<1>3. /\ file'[p] = f /\ ticket'[p] = ticket_head
      /\ \A q \in Procs : q # p => file'[q] = file[q] /\ ticket'[q] = ticket[q]
  BY <1>2 DEF TypeOK, CallOK
<1>4. CASE writer = p /\ Refuse(p, ticket_head, refusal)
  <2>1. /\ pc' = [pc EXCEPT ![p] = "user"] /\ side' = [side EXCEPT ![p] = "w"]
        /\ walk' = [walk EXCEPT ![p] = -1] /\ wq' = wq \ {p}
    BY <1>4 DEF Refuse, Return
  <2>2. OnlyMoves(p) /\ pc'[p] = "user" /\ side'[p] = "w" /\ walk'[p] = -1
    BY <1>3, <2>1 DEF OnlyMoves, TypeOK, PlaceOK
  <2> QED
    BY <1>2, <1>3, <1>4, <2>1, <2>2
<1>5. CASE /\ writer # p /\ side' = [side EXCEPT ![p] = IF Writable(f) THEN "w" ELSE "r"]
           /\ Goto(p, next) /\ UNCHANGED <<terminated, wq, sig, walk, queued>>
  <2>1. /\ OnlyMoves(p) /\ pc'[p] = next /\ walk'[p] = walk[p]
        /\ side'[p] = IF Writable(f) THEN "w" ELSE "r"
    BY <1>3, <1>5 DEF Goto, OnlyMoves, TypeOK, PlaceOK
  <2> QED
    BY <1>2, <1>3, <1>5, <2>1
<1> QED
  BY <1>1, <1>4, <1>5 DEF TakeTicket

-----------------------------------------------------------------------------
(* can_run_ticket's walk over the terminated tickets, without the mutex: a *)
(* node it has passed without moving the tail is below the tail, unless a  *)
(* request that still waits is at the tail.                                *)
WalkInv ==
  \A p \in Procs :
    /\ pc[p] = "walk" => walk[p] < ticket_tail \/ ticket_tail \notin terminated
    /\ pc[p] \notin {"walk", "store"} => walk[p] = -1

LEMMA WalkInvInductive ==
  ASSUME SerialIoctl, TypeOK, TicketInv, WalkInv, [Next]_vars
  PROVE  WalkInv'
<1>1. CASE Idles
  BY <1>1 DEF Idles, WalkInv
<1> SUFFICES ASSUME NEW p \in Procs, Handles(p) PROVE WalkInv'
  BY <1>1, StepKinds
<1>2. MayRun(p) /\ Alone
  BY HandlerKinds DEF TicketInv
<1>3. \A q \in Procs : q # p => pc[q] \in {"user", "sleep"}
  BY <1>2, OthersIdle
<1>4. ASSUME OnlyMoves(p),
             pc'[p] = "walk" => walk'[p] < ticket_tail' \/ ticket_tail' \notin terminated',
             pc'[p] \notin {"walk", "store"} => walk'[p] = -1
      PROVE  WalkInv'
  BY <1>3, <1>4 DEF OnlyMoves, WalkInv
<1>5. CASE Leaves(p)
  BY <1>4, <1>5, LeavesMoves
<1>6. ASSUME Waits(p), pc[p] \notin {"walk", "store"}, pc'[p] \notin {"walk", "store"}, UNCHANGED walk
      PROVE  WalkInv'
  BY <1>4, <1>6 DEF Waits, WalkInv
<1>7. CASE EvalLock(p)
  <2>1. Busy(p) /\ UNCHANGED <<dev, fds, locked, call, side>>
    BY <1>7 DEF EvalLock, Busy
  <2>2. CASE CondFalse(p)
    BY <1>4, <2>1, <2>2, CondWaits DEF Waits
  <2>3. CASE Goto(p, "walk") /\ UNCHANGED <<wq, walk, queued>>
    <3>1. Waits(p) /\ pc'[p] = "walk"
      BY <2>1, <2>3, MoveWaits DEF Goto, Places, call, dev, Holders
    <3>2. walk[p] = -1
      BY <1>7 DEF EvalLock, WalkInv
    <3>3. walk'[p] < ticket_tail'
      BY <2>1, <2>3, <3>2 DEF dev, TypeOK, DevOK
    <3> QED
      BY <1>4, <3>1, <3>3 DEF Waits
  <2> QED
    BY <1>7, <2>2, <2>3 DEF EvalLock
<1>8. CASE EvalWalk(p)
  <2> DEFINE ahead == {n \in terminated : walk[p] < n /\ n < ticket[p]}
  <2>1. Busy(p) /\ UNCHANGED <<dev, fds, locked, call, side>>
    BY <1>8 DEF EvalWalk, Busy
  <2>2. CASE CondTrue(p) \/ CondFalse(p)
    BY <1>4, <2>1, <2>2, CondWaits DEF Waits
  <2>3. CASE /\ ahead # {} /\ walk' = [walk EXCEPT ![p] = Min(ahead)]
             /\ Goto(p, IF Min(ahead) = ticket_tail THEN "store" ELSE "walk")
    <3> DEFINE where == IF Min(ahead) = ticket_tail THEN "store" ELSE "walk"
    <3>1. Min(ahead) \in ahead /\ \A n \in ahead : Min(ahead) <= n
      BY <2>3, MinNat DEF TypeOK, DevOK
    <3>2. walk'[p] = Min(ahead) /\ \A q \in Procs : q # p => walk'[q] = walk[q]
      BY <2>3 DEF TypeOK, PlaceOK
    <3>3. Waits(p) /\ pc'[p] = where
      BY <2>1, <2>3, <3>2, MoveWaits DEF Goto, Places, call, dev, Holders
    <3>4. walk[p] < ticket_tail \/ ticket_tail \notin terminated
      BY <1>8 DEF EvalWalk, WalkInv
    <3>5. ASSUME where = "walk", ticket_tail \in terminated PROVE Min(ahead) < ticket_tail
      <4>1. ticket_tail \in Nat /\ Min(ahead) \in Nat /\ ticket[p] \in Nat /\ Min(ahead) # ticket_tail
        BY <3>1, <3>5 DEF TypeOK, DevOK, CallOK
      <4>2. ticket_tail < ticket[p] => ticket_tail \in ahead
        BY <3>4, <3>5
      <4> QED
        BY <3>1, <4>1, <4>2
    <3>6. UNCHANGED <<ticket_tail, terminated>>
      BY <2>1 DEF dev
    <3> HIDE DEF where, ahead
    <3> QED
      BY <1>4, <3>2, <3>3, <3>5, <3>6 DEF Waits, where
  <2> QED
    BY <1>8, <2>2, <2>3 DEF EvalWalk
<1>9. CASE EvalStore(p)
  <2>1. pc[p] = "store" /\ walk[p] = ticket_tail
    BY <1>2, <1>9 DEF EvalStore, Alone
  <2>2. ticket_tail' = ticket_tail + 1 /\ UNCHANGED <<walk, terminated>>
    BY <1>9, <2>1 DEF EvalStore, place
  <2>3. walk'[p] < ticket_tail'
    BY <2>1, <2>2 DEF TypeOK, DevOK
  <2>4. Waits(p) /\ pc'[p] = "walk"
    BY <1>9, MoveWaits DEF EvalStore, Goto, Places, Busy, place, call, Holders
  <2> QED
    BY <1>4, <2>3, <2>4 DEF Waits
<1>10. CASE Resume(p)
  <2>1. Waits(p) /\ pc'[p] = "cond"
    BY <1>10, MoveWaits DEF Resume, Goto, Places, Busy, place, call, dev, Holders
  <2> QED
    BY <1>6, <1>10, <2>1 DEF Resume, place
<1>11. CASE Check(p)
  <2>1. CASE Goto(p, "loop") /\ UNCHANGED place
    <3>1. Waits(p) /\ pc'[p] = "loop"
      BY <1>11, <2>1, MoveWaits DEF Check, Busy, Goto, Places, place, call, Holders
    <3> QED
      BY <1>6, <1>11, <2>1, <3>1 DEF Check, place
  <2> QED
    BY <1>5, <1>11, <2>1, ReturnLeaves DEF Check, Refuse
<1>12. CASE Gets(p) /\ pc[p] \in {"loop", "try"}
  <2>1. walk[p] = -1
    BY <1>12 DEF WalkInv
  <2>2. CASE ~Leaves(p)
    <3>1. OnlyMoves(p) /\ walk'[p] = -1
      BY <1>12, <2>1, <2>2, GetsFacts
    <3>2. pc'[p] # "walk"
      <4>1. PICK next \in {"check", "try"} : Grant(p, next)
        BY <1>12 DEF Gets
      <4>2. pc' = [pc EXCEPT ![p] = next] \/ pc' = [pc EXCEPT ![p] = "user"]
        BY <4>1 DEF Grant, Return, Goto
      <4> QED
        BY <4>2 DEF TypeOK, PlaceOK
    <3> QED
      BY <1>4, <3>1, <3>2
  <2> QED
    BY <1>5, <2>2
<1>13. CASE Loop(p)
  <2>1. CASE CanLock(side[p]) /\ can_run_ticket(ticket[p]) /\ Grant(p, "check")
    BY <1>12, <1>13, <2>1 DEF Loop, Gets, Busy
  <2>2. CASE /\ Goto(p, "cond")
             /\ UNCHANGED <<ticket_head, terminated, num_readers, readers, writer>>
             /\ UNCHANGED <<wq, fds, locked, call, place, sig, ret>>
    <3>1. Waits(p) /\ pc'[p] = "cond"
      BY <1>13, <2>2, MoveWaits DEF Loop, Busy, Goto, Places, place, call, Holders
    <3> QED
      BY <1>6, <1>13, <2>2, <3>1 DEF Loop, place
  <2> QED
    BY <1>13, <2>1, <2>2 DEF Loop
<1>14. CASE Try(p)
  <2>1. CASE p \notin readers /\ CanLock(side[p]) /\ can_run_ticket(ticket[p]) /\ Grant(p, "try")
    BY <1>12, <1>14, <2>1 DEF Try, Gets, Busy
  <2> QED
    BY <1>5, <1>14, <2>1, ReturnLeaves DEF Try, Refuse
<1>15. CASE Interrupted(p)
  BY <1>5, <1>15, ReturnLeaves DEF Interrupted, Refuse
<1>16. CASE Begins(p)
  <2>1. walk[p] = -1
    BY <1>16, BeginsFacts DEF WalkInv, Busy
  <2> QED
    BY <1>4, <1>16, <2>1, BeginsFacts
<1>17. ASSUME NEW f \in Files, Acquire(p, f) \/ TryAcquire(p, f) PROVE Begins(p)
  BY <1>17 DEF Acquire, TryAcquire, Begins
<1> QED
  BY <1>7, <1>8, <1>9, <1>10, <1>11, <1>13, <1>14, <1>15, <1>16, <1>17 DEF Handles, Kernel

-----------------------------------------------------------------------------
(* Wake-ups.  While nobody holds the lock the request first in line is not *)
(* asleep; and if it is on its way out, interrupted, nobody is: the close  *)
(* that freed the lock after it gave up has woken everybody, and nobody    *)
(* ran since.                                                              *)
Awake ==
  can_write => \A p \in Procs : FirstInLine(p) =>
    ~Asleep(p) /\ (pc[p] = "intr" => \A r \in Procs : ~Asleep(r))

(* All tickets before the first in line are terminated. *)
LEMMA FirstFacts ==
  ASSUME TypeOK, Line, NEW p \in Procs, FirstInLine(p)
  PROVE  /\ Busy(p) /\ ticket[p] \in Nat /\ ticket_tail \in Nat /\ ticket_tail <= ticket[p]
         /\ \A n \in Nat : ticket_tail <= n /\ n < ticket[p] => n \in terminated
<1>1. /\ ticket_tail \in Nat /\ ticket_head \in Nat
      /\ \A q \in Procs : ticket[q] \in Nat
  BY DEF TypeOK, CallOK, DevOK
<1>2. Live(p) /\ ticket_tail <= ticket[p] /\ ticket[p] < ticket_head
  BY DEF FirstInLine, Line, TicketsAccounted
<1>3. ASSUME NEW n \in Nat, ticket_tail <= n, n < ticket[p] PROVE n \in terminated
  <2>1. n \in ticket_tail..(ticket_head - 1)
    BY <1>1, <1>2, <1>3
  <2>2. \A q \in Procs : Live(q) => ticket[q] # n
    BY <1>1, <1>3 DEF FirstInLine
  <2> QED
    BY <2>1, <2>2 DEF Line, TicketsAccounted
<1> QED
  BY <1>1, <1>2, <1>3 DEF Live, Busy

(* So can_run_ticket lets it through, under the mutex ... *)
LEMMA FirstRuns ==
  ASSUME TypeOK, Line, NEW p \in Procs, FirstInLine(p)
  PROVE  can_run_ticket(ticket[p])
<1>1. ticket[p] \in Nat /\ ticket_tail \in Nat /\ ticket_tail <= ticket[p]
  BY FirstFacts
<1>2. CASE ticket_tail = ticket[p]
  BY <1>1, <1>2, SkipTailFacts DEF can_run_ticket
<1>3. CASE ticket_tail < ticket[p]
  <2> DEFINE S == {n \in ticket_tail..ticket[p] : n = ticket[p] \/ n \notin terminated}
  <2>1. S = {ticket[p]}
    BY <1>1, <1>3, FirstFacts
  <2>2. S \in SUBSET Nat
    BY <1>1, <2>1
  <2>3. Min(S) \in S
    BY <2>1, <2>2, MinNat
  <2> QED
    BY <1>1, <1>3, <2>1, <2>3 DEF can_run_ticket, SkipTail
<1> QED
  BY <1>1, <1>2, <1>3

(* ... and at the end of a walk without it. *)
LEMMA FirstWalks ==
  ASSUME TypeOK, Line, WalkInv, NEW p \in Procs, FirstInLine(p), pc[p] = "walk",
         {n \in terminated : walk[p] < n /\ n < ticket[p]} = {}
  PROVE  ticket[p] = ticket_tail
<1>1. ticket[p] \in Nat /\ ticket_tail \in Nat /\ ticket_tail <= ticket[p]
  BY FirstFacts
<1> SUFFICES ASSUME ticket_tail < ticket[p] PROVE FALSE
  BY <1>1
<1>2. ticket_tail \in terminated
  BY <1>1, FirstFacts
<1>3. walk[p] < ticket_tail
  BY <1>2 DEF WalkInv
<1> QED
  BY <1>2, <1>3

(* The step of a handler: what it has to do for p. *)
LEMMA HandlerKeepsAwake ==
  ASSUME SerialIoctl, TypeOK, TicketInv, Awake, NEW p \in Procs, MayRun(p), OnlyMoves(p),
         \A q \in Procs : q # p => (q \in wq' <=> q \in wq), can_write' => can_write,
         can_write /\ FirstInLine(p)' => ~Asleep(p)' /\ pc'[p] # "intr",
         can_write => \/ Live(p) => Live(p)' /\ ticket'[p] = ticket[p]
                      \/ ~FirstInLine(p)
                      \/ \A r \in Procs : ~Asleep(r)
  PROVE  Awake'
<1>1. \A q \in Procs : q # p => pc[q] \in {"user", "sleep"}
  BY OthersIdle DEF TicketInv
<1>2. \A q \in Procs : q # p =>
        ticket'[q] = ticket[q] /\ (Live(q)' <=> Live(q)) /\ (Asleep(q)' <=> Asleep(q))
        /\ pc'[q] # "intr"
  BY <1>1, OnlyMovesStay DEF OthersStay, OnlyMoves, Asleep
<1> SUFFICES ASSUME can_write', NEW q \in Procs, FirstInLine(q)'
             PROVE  ~Asleep(q)' /\ pc'[q] # "intr"
  BY DEF Awake
<1>3. CASE q = p
  BY <1>3
<1>4. CASE q # p
  <2>1. \A r \in Procs : ticket[r] \in Nat
    BY DEF TypeOK, CallOK
  <2>2. Live(q) /\ \A r \in Procs : r # p /\ Live(r) => ticket[q] <= ticket[r]
    BY <1>2, <1>4 DEF FirstInLine
  <2>3. CASE Live(p) => Live(p)' /\ ticket'[p] = ticket[p]
    <3>1. Live(p) => ticket[q] <= ticket[p]
      BY <1>2, <1>4, <2>3 DEF FirstInLine
    <3>2. FirstInLine(q)
      BY <2>2, <3>1 DEF FirstInLine
    <3> QED
      BY <1>2, <1>4, <3>2 DEF Awake
  <2>4. CASE ~FirstInLine(p)
    <3>1. Live(p) => ticket[q] <= ticket[p]
      BY <2>1, <2>2, <2>4 DEF FirstInLine
    <3>2. FirstInLine(q)
      BY <2>2, <3>1 DEF FirstInLine
    <3> QED
      BY <1>2, <1>4, <3>2 DEF Awake
  <2>5. CASE \A r \in Procs : ~Asleep(r)
    BY <1>2, <1>4, <2>5
  <2> QED
    BY <2>3, <2>4, <2>5
<1> QED
  BY <1>3, <1>4

(* Steps outside the handlers: nobody goes to sleep, and whoever frees the *)
(* lock wakes everybody.                                                   *)
LEMMA IdleKeepsAwake ==
  ASSUME Awake, Idles, wq' \subseteq wq, (can_write' => can_write) \/ wq' = {}
  PROVE  Awake'
<1>1. CASE wq' = {}
  BY <1>1 DEF Awake, Asleep
<1>2. CASE can_write' => can_write
  <2>1. \A p \in Procs : (FirstInLine(p)' <=> FirstInLine(p)) /\ (Asleep(p)' => Asleep(p))
    BY DEF Idles, FirstInLine, Live, Writable, Asleep
  <2> QED
    BY <1>2, <2>1 DEF Awake, Idles
<1> QED
  BY <1>1, <1>2

LEMMA AwakeInductive ==
  ASSUME SerialIoctl, SerialInv, WalkInv, Awake, [Next]_vars
  PROVE  Awake'
<1> USE DEF SerialInv
<1>1. Line /\ TypeOK /\ TicketInv
  BY DEF TicketInv
<1>2. can_write => readers = {}
  BY NoReaders DEF can_write, TypeOK
<1>3. ASSUME NEW p \in Procs, NEW f \in Files, Client(p, f), ~Acquire(p, f), ~TryAcquire(p, f)
      PROVE  Awake'
  <2>1. Idles
    <3>1. UNCHANGED <<pc, side, file, ticket, walk, bkl>>
      BY <1>3 DEF Client, Open, Close, Release, Fork, call, place
    <3>2. UNCHANGED <<ticket_head, ticket_tail, terminated>>
      BY <1>3 DEF Client, Open, Close, Release, Fork, Unlock, dev
    <3> QED
      BY <3>1, <3>2 DEF Idles
  <2>2. wq' = {} \/ UNCHANGED <<wq, writer, num_readers>>
    BY <1>3 DEF Client, Open, Close, Release, Fork, Unlock, dev
  <2> QED
    BY <2>1, <2>2, IdleKeepsAwake DEF can_write
<1>4. ASSUME NEW p \in Procs, Signal(p) PROVE Awake'
  <2>1. Idles /\ wq' \subseteq wq /\ UNCHANGED <<writer, num_readers>>
    BY <1>4 DEF Signal, Idles, dev, call, place
  <2> QED
    BY <2>1, IdleKeepsAwake DEF can_write
<1>5. CASE UNCHANGED vars
  <2>1. Idles /\ wq' \subseteq wq /\ UNCHANGED <<writer, num_readers>>
    BY <1>5 DEF vars, Idles, dev, call, place
  <2> QED
    BY <2>1, IdleKeepsAwake DEF can_write
<1>6. ASSUME NEW p \in Procs, Handles(p) PROVE Awake'
  <2> USE <1>1
  <2>1. MayRun(p)
    BY <1>6, HandlerKinds
  <2>2. ASSUME Waits(p), \A q \in Procs : q # p => (q \in wq' <=> q \in wq),
               can_write /\ FirstInLine(p) => pc'[p] \notin {"sleep", "intr"}
        PROVE  Awake'
    <3>1. OnlyMoves(p) /\ (Live(p)' <=> Live(p)) /\ ticket'[p] = ticket[p] /\ (can_write' <=> can_write)
      BY <2>2 DEF Waits, Live, Busy, Writable, Holders, can_write
    <3>2. FirstInLine(p)' => FirstInLine(p)
      BY <3>1, OnlyMovesStay DEF OthersStay, FirstInLine
    <3> QED
      BY <2>1, <2>2, <3>1, <3>2, HandlerKeepsAwake DEF Asleep
  <2>3. ASSUME GivesUp(p), \A q \in Procs : q # p => (q \in wq' <=> q \in wq),
               can_write => ~FirstInLine(p) \/ \A r \in Procs : ~Asleep(r)
        PROVE  Awake'
    <3>1. OnlyMoves(p) /\ pc'[p] = "user" /\ (can_write' <=> can_write)
      BY <2>3, LeavesMoves DEF GivesUp, Holders, can_write
    <3> QED
      BY <2>1, <2>3, <3>1, HandlerKeepsAwake DEF Asleep
  <2>4. CASE Gets(p)
    <3>1. ~can_write'
      <4>1. CASE writer' = p
        BY <4>1, ProcsAssumption DEF can_write
      <4>2. CASE num_readers' = num_readers + 1
        <5>1. num_readers \in Nat
          BY FiniteHolders DEF LockAccounting, TypeOK
        <5> QED
          BY <4>2, <5>1 DEF can_write
      <4> QED
        BY <2>4, <4>1, <4>2, GetsFacts
    <3> QED
      BY <3>1 DEF Awake
  <2>5. CASE Begins(p)
    <3>1. /\ OnlyMoves(p) /\ ~Live(p) /\ \A q \in Procs : q # p => (q \in wq' <=> q \in wq)
          /\ pc'[p] \in {"user", "check", "try"} /\ (can_write' <=> can_write)
      BY <2>5, BeginsFacts DEF Live, Busy, Holders, can_write
    <3> QED
      BY <2>1, <3>1, HandlerKeepsAwake DEF Asleep
  <2>6. CASE Check(p)
    <3>1. Busy(p) /\ UNCHANGED <<Holders, call>>
      BY <2>6 DEF Check, Busy, Holders
    <3>2. CASE Refuse(p, ticket[p], "EDEADLK") /\ p \in readers
      <4>1. GivesUp(p) /\ wq' = wq \ {p}
        BY <3>1, <3>2, ReturnLeaves DEF Refuse, Return, GivesUp
      <4> QED
        BY <1>2, <2>3, <3>2, <4>1
    <3>3. CASE Goto(p, "loop") /\ UNCHANGED <<place, wq>>
      <4>1. Waits(p) /\ pc'[p] = "loop"
        BY <3>1, <3>3, MoveWaits DEF Goto, Places, place, call
      <4> QED
        BY <2>2, <3>3, <4>1
    <3> QED
      BY <2>6, <3>2, <3>3 DEF Check
  <2>7. CASE Loop(p)
    <3>1. Busy(p) /\ pc[p] = "loop"
      BY <2>7 DEF Loop, Busy
    <3>2. CASE CanLock(side[p]) /\ can_run_ticket(ticket[p]) /\ Grant(p, "check")
      BY <2>4, <3>1, <3>2 DEF Gets
    <3>3. CASE /\ Goto(p, "cond")
               /\ UNCHANGED <<ticket_head, terminated, num_readers, readers, writer>>
               /\ UNCHANGED <<wq, fds, locked, call, place, sig, ret>>
      <4>1. Waits(p) /\ pc'[p] = "cond"
        BY <3>1, <3>3, MoveWaits DEF Goto, Places, place, call, Holders
      <4> QED
        BY <2>2, <3>3, <4>1
    <3> QED
      BY <2>7, <3>2, <3>3 DEF Loop
  <2>8. CASE Try(p)
    <3>1. Busy(p)
      BY <2>8 DEF Try, Busy
    <3>2. CASE p \notin readers /\ CanLock(side[p]) /\ can_run_ticket(ticket[p]) /\ Grant(p, "try")
      BY <2>4, <3>1, <3>2 DEF Gets
    <3>3. CASE /\ Refuse(p, ticket[p], "EBUSY")
               /\ UNCHANGED <<ticket_head, num_readers, readers, writer, fds, locked, call>>
               /\ p \in readers \/ ~(CanLock(side[p]) /\ can_run_ticket(ticket[p]))
      <4>1. GivesUp(p) /\ wq' = wq \ {p}
        BY <3>1, <3>3, ReturnLeaves DEF Refuse, Return, GivesUp, Holders
      <4>2. can_write => ~FirstInLine(p)
        BY <1>2, <3>3, FirstRuns DEF CanLock, can_write, can_read
      <4> QED
        BY <2>3, <4>1, <4>2
    <3> QED
      BY <2>8, <3>2, <3>3 DEF Try
  <2>9. CASE EvalLock(p)
    <3>1. Busy(p) /\ UNCHANGED <<dev, fds, locked, call, side>>
      BY <2>9 DEF EvalLock, Busy
    <3>2. CASE ~CanLock(side[p]) /\ CondFalse(p)
      <4>1. ~can_write
        BY <3>2 DEF CanLock, can_write, can_read
      <4> QED
        BY <2>2, <3>1, <3>2, <4>1, CondWaits
    <3>3. CASE Goto(p, "walk") /\ UNCHANGED <<wq, walk, queued>>
      <4>1. Waits(p) /\ pc'[p] = "walk"
        BY <3>1, <3>3, MoveWaits DEF Goto, Places, call, dev, Holders
      <4> QED
        BY <2>2, <3>3, <4>1
    <3> QED
      BY <2>9, <3>2, <3>3 DEF EvalLock
  <2>10. CASE EvalWalk(p)
    <3> DEFINE ahead == {n \in terminated : walk[p] < n /\ n < ticket[p]}
    <3>1. Busy(p) /\ pc[p] = "walk" /\ UNCHANGED <<dev, fds, locked, call, side>>
      BY <2>10 DEF EvalWalk, Busy
    <3>2. CASE CondTrue(p) /\ ~CondFalse(p)
      BY <2>2, <3>1, <3>2, CondWaits
    <3>3. CASE ahead = {} /\ ticket[p] # ticket_tail /\ CondFalse(p)
      <4>1. ~FirstInLine(p)
        BY <3>1, <3>3, FirstWalks
      <4> QED
        BY <2>2, <3>1, <3>3, <4>1, CondWaits
    <3>4. CASE /\ walk' = [walk EXCEPT ![p] = Min(ahead)] /\ UNCHANGED <<wq, queued>>
               /\ Goto(p, IF Min(ahead) = ticket_tail THEN "store" ELSE "walk")
      <4> DEFINE where == IF Min(ahead) = ticket_tail THEN "store" ELSE "walk"
      <4>1. \A q \in Procs : q # p => walk'[q] = walk[q]
        BY <3>4 DEF TypeOK, PlaceOK
      <4>2. Waits(p) /\ pc'[p] = where
        BY <3>1, <3>4, <4>1, MoveWaits DEF Goto, Places, call, dev, Holders
      <4> QED
        BY <2>2, <3>4, <4>2
    <3>5. CASE CondTrue(p) /\ CondFalse(p)
      <4>1. FALSE
        <5>1. pc' = [pc EXCEPT ![p] = "loop"]
          BY <3>5 DEF CondTrue, Goto
        <5>2. \E where \in {"cond", "intr", "sleep"} : pc' = [pc EXCEPT ![p] = where]
          BY <3>5 DEF CondFalse, Goto
        <5> QED
          BY <5>1, <5>2 DEF TypeOK, PlaceOK
      <4> QED
        BY <4>1
    <3> QED
      BY <2>10, <3>2, <3>3, <3>4, <3>5 DEF EvalWalk
  <2>11. CASE EvalStore(p)
    <3>1. Waits(p) /\ pc'[p] = "walk" /\ UNCHANGED wq
      BY <2>11, MoveWaits DEF EvalStore, Goto, Places, Busy, place, call, Holders
    <3> QED
      BY <2>2, <3>1
  <2>12. CASE Resume(p)
    <3>1. Waits(p) /\ pc'[p] = "cond" /\ wq' = wq \cup {p}
      BY <2>12, MoveWaits DEF Resume, Goto, Places, Busy, place, call, dev, Holders
    <3> QED
      BY <2>2, <3>1
  <2>13. CASE Interrupted(p)
    <3>1. GivesUp(p) /\ wq' = wq \ {p} /\ pc[p] = "intr"
      BY <2>13, ReturnLeaves DEF Interrupted, Refuse, Return, GivesUp, Busy, Holders
    <3> QED
      BY <2>3, <3>1 DEF Awake
  <2>14. ASSUME NEW f \in Files, Acquire(p, f) \/ TryAcquire(p, f) PROVE Begins(p)
    BY <2>14 DEF Acquire, TryAcquire, Begins
  <2> QED
    BY <1>6, <2>5, <2>6, <2>7, <2>8, <2>9, <2>10, <2>11, <2>12, <2>13, <2>14 DEF Handles, Kernel
<1> QED
  BY <1>3, <1>4, <1>5, <1>6 DEF Next, Handles

(* No lost wake-up: when nobody holds the lock and no handler is running,  *)
(* the request first in line is not asleep, although neither a grant nor a *)
(* terminated ticket wakes anybody; with any modes and any sharing.        *)
THEOREM NoLostWakeup == ASSUME SerialIoctl PROVE Spec => []FirstInLineAwake
<1>1. Init => WalkInv /\ Awake
  BY DEF Init, WalkInv, Awake, FirstInLine, Live
<1>2. SerialInv /\ WalkInv /\ Awake /\ [Next]_vars => WalkInv' /\ Awake'
  BY WalkInvInductive, AwakeInductive DEF SerialInv
<1>3. Awake => FirstInLineAwake
  BY DEF Awake, FirstInLineAwake
<1> QED
  BY <1>1, <1>2, <1>3, SerialInvariant, PTL DEF Spec

-----------------------------------------------------------------------------
(* Locks and the files they were taken through, when no file is shared:    *)
(* every reader has a locked read-only file of its own, and one only; the  *)
(* writer has a locked writable one; a request's file stays open.          *)
PrivateFiles == \A f \in Files : \A p, q \in Users[f] : p = q

OwnInv ==
  /\ \A f \in Files : fds[f] \subseteq Users[f]
  /\ \A p \in Procs : Busy(p) => p \in fds[file[p]]
  /\ \A p \in readers : \E f \in Files : locked[f] /\ ~Writable(f) /\ fds[f] = {p}
  /\ \A f \in Files : locked[f] /\ ~Writable(f) => \E p \in readers : fds[f] = {p}
  /\ \A f, g \in Files :
       locked[f] /\ locked[g] /\ ~Writable(f) /\ ~Writable(g) /\ fds[f] = fds[g] => f = g
  /\ writer # NoProc => \E f \in Files : locked[f] /\ Writable(f) /\ fds[f] = {writer}

LEMMA OnlyUser ==
  ASSUME PrivateFiles, OwnInv, NEW p, NEW f \in Files, p \in fds[f]
  PROVE  fds[f] = {p}
BY DEF PrivateFiles, OwnInv

(* Who releases a lock holds it. *)
LEMMA UnlockerHolds ==
  ASSUME PrivateFiles, TypeOK, LockAccounting, OwnInv, NEW p \in Procs, NEW f \in Files,
         locked[f], p \in fds[f]
  PROVE  IF Writable(f) THEN writer = p /\ readers = {} ELSE p \in readers /\ Readable(f)
<1>1. fds[f] = {p}
  BY OnlyUser
<1>2. CASE Writable(f)
  <2>1. writer # NoProc /\ \A g \in Files : locked[g] /\ Writable(g) => g = f
    BY <1>2 DEF LockAccounting
  <2>2. readers = {}
    BY <2>1, NoReaders DEF TypeOK
  <2> QED
    BY <1>1, <1>2, <2>1, <2>2 DEF OwnInv
<1>3. CASE ~Writable(f)
  BY <1>1, <1>3, FilesAssumption DEF OwnInv, Writable, Readable
<1> QED
  BY <1>2, <1>3

LEMMA UnlockKeepsOwn ==
  ASSUME PrivateFiles, TypeOK, LockAccounting, OwnInv, NEW p \in Procs, NEW f \in Files,
         locked[f], p \in fds[f], Unlock(p, f), UNCHANGED <<pc, file>>,
         \/ UNCHANGED fds
         \/ ~Busy(p) /\ fds' = [fds EXCEPT ![f] = @ \ {p}]
  PROVE  OwnInv'
<1>1. fds[f] = {p} /\ fds \in [Files -> SUBSET Procs] /\ locked' = [locked EXCEPT ![f] = FALSE]
  BY OnlyUser DEF Unlock, TypeOK, DevOK
<1>2. \A g \in Files : fds'[g] \subseteq fds[g] /\ (g # f => fds'[g] = fds[g])
  BY <1>1
<1>3. \A g \in Files : locked'[g] <=> locked[g] /\ g # f
  BY <1>1 DEF TypeOK, DevOK
<1>4. \A g \in Files : fds'[g] \subseteq Users[g]
  BY <1>2 DEF OwnInv
<1>5. \A q \in Procs : Busy(q)' => q \in fds'[file'[q]]
  <2> SUFFICES ASSUME NEW q \in Procs, Busy(q) PROVE q \in fds'[file[q]]
    BY DEF Busy
  <2>1. q \in fds[file[q]] /\ file[q] \in Files
    BY DEF OwnInv, TypeOK, CallOK
  <2>2. CASE file[q] = f
    BY <1>1, <2>1, <2>2
  <2>3. CASE file[q] # f
    BY <1>2, <2>1, <2>3
  <2> QED
    BY <2>2, <2>3
<1>6. CASE Writable(f)
  <2>1. writer = p /\ readers = {} /\ writer' = NoProc /\ readers' = {}
    BY <1>6, UnlockerHolds DEF Unlock
  <2>2. \A g \in Files : locked'[g] => Writable(g)
    BY <1>3, <2>1 DEF OwnInv
  <2> QED
    BY <1>4, <1>5, <2>1, <2>2 DEF OwnInv, Writable
<1>7. CASE ~Writable(f)
  <2>1. readers' = readers \ {p} /\ UNCHANGED writer
    BY <1>7, UnlockerHolds DEF Unlock
  <2>2. \A q \in readers' : \E g \in Files : locked'[g] /\ ~Writable(g) /\ fds'[g] = {q}
    BY <1>1, <1>2, <1>3, <2>1 DEF OwnInv
  <2>3. \A g \in Files : locked'[g] /\ ~Writable(g) => \E q \in readers' : fds'[g] = {q}
    <3> SUFFICES ASSUME NEW g \in Files, locked'[g], ~Writable(g)
                 PROVE  \E q \in readers' : fds'[g] = {q}
      OBVIOUS
    <3>1. PICK q \in readers : fds[g] = {q}
      BY <1>3 DEF OwnInv
    <3>2. q # p
      BY <1>1, <1>3, <1>7, <3>1 DEF OwnInv
    <3> QED
      BY <1>2, <1>3, <2>1, <3>1, <3>2
  <2>4. \A g, h \in Files : locked'[g] /\ locked'[h] /\ ~Writable(g) /\ ~Writable(h)
                            /\ fds'[g] = fds'[h] => g = h
    BY <1>2, <1>3 DEF OwnInv
  <2>5. writer' # NoProc => \E g \in Files : locked'[g] /\ Writable(g) /\ fds'[g] = {writer'}
    BY <1>2, <1>3, <1>7, <2>1 DEF OwnInv
  <2> QED
    BY <1>4, <1>5, <2>2, <2>3, <2>4, <2>5 DEF OwnInv, Writable
<1> QED
  BY <1>6, <1>7

LEMMA GetsKeepsOwn ==
  ASSUME PrivateFiles, TypeOK, HoldInv, GrantFits, LockAccounting, OwnInv,
         NEW p \in Procs, Gets(p)
  PROVE  OwnInv'
<1> DEFINE f == file[p]
<1>1. f \in Files /\ p \in fds[f] /\ fds[f] = {p} /\ Busy(p)
  BY OnlyUser DEF Gets, OwnInv, TypeOK, CallOK
<1>2. /\ OnlyMoves(p) /\ UNCHANGED <<file, fds>> /\ locked' = [locked EXCEPT ![f] = TRUE]
      /\ \/ side[p] = "w" /\ writer' = p /\ UNCHANGED <<readers, num_readers>>
         \/ side[p] = "r" /\ readers' = readers \cup {p} /\ UNCHANGED writer
  BY GetsFacts
<1>3. \A g \in Files : locked'[g] <=> locked[g] \/ g = f
  BY <1>1, <1>2 DEF TypeOK, DevOK
<1>4. \A q \in Procs : Busy(q)' => q \in fds'[file'[q]]
  BY <1>1, <1>2 DEF OnlyMoves, OwnInv, Busy
<1>5. CASE side[p] = "w"
  <2>1. Writable(f) /\ writer' = p /\ UNCHANGED readers
    BY <1>1, <1>2, <1>5 DEF HoldInv, WriteBlock
  <2> QED
    BY <1>1, <1>2, <1>3, <1>4, <2>1 DEF OwnInv, Writable
<1>6. CASE side[p] = "r"
  <2>1. ~Writable(f) /\ readers' = readers \cup {p} /\ UNCHANGED writer /\ CanLock(side[p])
    BY <1>1, <1>2, <1>6 DEF GrantFits, Gets
  <2>2. p \notin readers
    BY <1>1, <2>1 DEF Gets, HoldInv, WaiterHoldsNothing, Rdwr
  <2>3. writer = NoProc
    BY <1>6, <2>1 DEF CanLock, can_read
  <2>4. \A g \in Files : locked[g] /\ ~Writable(g) => fds[g] # {p}
    BY <2>2 DEF OwnInv
  <2>5. \A g, h \in Files : locked'[g] /\ locked'[h] /\ ~Writable(g) /\ ~Writable(h)
                            /\ fds[g] = fds[h] => g = h
    BY <1>1, <1>3, <2>4 DEF OwnInv
  <2>6. \A q \in readers' : \E g \in Files : locked'[g] /\ ~Writable(g) /\ fds[g] = {q}
    BY <1>1, <1>3, <2>1 DEF OwnInv
  <2>7. \A g \in Files : locked'[g] /\ ~Writable(g) => \E q \in readers' : fds[g] = {q}
    BY <1>1, <1>3, <2>1 DEF OwnInv
  <2> QED
    BY <1>2, <1>4, <2>1, <2>3, <2>5, <2>6, <2>7 DEF OwnInv, Writable
<1> QED
  BY <1>5, <1>6 DEF TypeOK, PlaceOK

(* A file appears, or goes without having been locked. *)
LEMMA FdsKeepOwn ==
  ASSUME PrivateFiles, TypeOK, OwnInv, NEW p \in Procs, NEW f \in Files,
         UNCHANGED <<pc, file, readers, writer>>, fds[f] = {} \/ ~locked[f],
         ~Busy(p), fds[f] \subseteq {p}, fds'[f] \subseteq Users[f],
         \A g \in Files : g # f => fds'[g] = fds[g] /\ locked'[g] = locked[g], ~locked'[f]
  PROVE  OwnInv'
<1>1. \A q \in Procs : Busy(q)' => q \in fds'[file'[q]]
  BY DEF OwnInv, Busy, TypeOK, CallOK
<1>2. \A g \in Files : locked'[g] => locked[g] /\ g # f /\ fds'[g] = fds[g]
  OBVIOUS
<1>3. \A g \in Files : locked[g] /\ fds[g] # {} => locked'[g] /\ fds'[g] = fds[g]
  OBVIOUS
<1>4. \A q \in readers' : \E g \in Files : locked'[g] /\ ~Writable(g) /\ fds'[g] = {q}
  BY <1>3 DEF OwnInv
<1>5. \A g \in Files : locked'[g] /\ ~Writable(g) => \E q \in readers' : fds'[g] = {q}
  BY <1>2 DEF OwnInv
<1>6. \A g, h \in Files : locked'[g] /\ locked'[h] /\ ~Writable(g) /\ ~Writable(h)
                          /\ fds'[g] = fds'[h] => g = h
  BY <1>2 DEF OwnInv
<1>7. writer' # NoProc => \E g \in Files : locked'[g] /\ Writable(g) /\ fds'[g] = {writer'}
  BY <1>3 DEF OwnInv
<1>8. \A g \in Files : fds'[g] \subseteq Users[g]
  BY DEF OwnInv
<1> QED
  BY <1>1, <1>4, <1>5, <1>6, <1>7, <1>8 DEF OwnInv, Writable

LEMMA OwnInductive ==
  ASSUME PrivateFiles, TypeOK, HoldInv, GrantFits, LockAccounting, OwnInv, [Next]_vars
  PROVE  OwnInv'
<1>1. CASE UNCHANGED <<pc, file, Holders>>
  BY <1>1 DEF OwnInv, Busy, Writable, Holders
<1>2. ASSUME NEW p \in Procs, Handles(p) PROVE OwnInv'
  <2>1. ASSUME OnlyMoves(p), UNCHANGED Holders, Busy(p)' => p \in fds[file'[p]] PROVE OwnInv'
    <3>1. \A q \in Procs : Busy(q)' => q \in fds[file'[q]]
      BY <2>1 DEF OnlyMoves, OwnInv, Busy
    <3> QED
      BY <2>1, <3>1 DEF OwnInv, Writable, Holders
  <2>2. CASE Waits(p)
    BY <2>1, <2>2 DEF Waits, OwnInv
  <2>3. CASE GivesUp(p)
    BY <2>1, <2>3, LeavesMoves DEF GivesUp, Busy
  <2>4. CASE Begins(p)
    BY <2>1, <2>4, BeginsFacts
  <2> QED
    BY <1>2, <2>2, <2>3, <2>4, GetsKeepsOwn, HandlerKinds
<1>3. ASSUME NEW p \in Procs, NEW f \in Files, Open(p, f) PROVE OwnInv'
  <2>1. /\ UNCHANGED <<pc, file, readers, writer>> /\ fds[f] = {} /\ ~Busy(p) /\ p \in Users[f]
        /\ fds' = [fds EXCEPT ![f] = {p}] /\ locked' = [locked EXCEPT ![f] = FALSE]
    BY <1>3 DEF Open, dev, call, Busy
  <2>2. /\ fds'[f] = {p} /\ ~locked'[f]
        /\ \A g \in Files : g # f => fds'[g] = fds[g] /\ locked'[g] = locked[g]
    BY <2>1 DEF TypeOK, DevOK
  <2> QED
    BY <2>1, <2>2, FdsKeepOwn
<1>4. ASSUME NEW p \in Procs, NEW f \in Files, Close(p, f) PROVE OwnInv'
  <2>1. /\ UNCHANGED <<pc, file>> /\ p \in fds[f] /\ ~Busy(p)
        /\ fds' = [fds EXCEPT ![f] = @ \ {p}] /\ fds[f] = {p}
    BY <1>4, OnlyUser DEF Close, call, Busy
  <2>2. CASE locked[f]
    BY <1>4, <2>1, <2>2, UnlockKeepsOwn DEF Close
  <2>3. CASE ~locked[f]
    <3>1. UNCHANGED <<readers, writer, locked>>
      BY <1>4, <2>3 DEF Close, dev
    <3>2. fds'[f] = {} /\ \A g \in Files : g # f => fds'[g] = fds[g]
      BY <2>1 DEF TypeOK, DevOK
    <3> QED
      BY <2>1, <2>3, <3>1, <3>2, FdsKeepOwn
  <2> QED
    BY <2>2, <2>3
<1>5. ASSUME NEW p \in Procs, NEW f \in Files, Release(p, f) PROVE OwnInv'
  <2>1. UNCHANGED <<pc, file, fds>> /\ p \in fds[f]
    BY <1>5 DEF Release, call
  <2>2. CASE locked[f] /\ Unlock(p, f)
    BY <2>1, <2>2, UnlockKeepsOwn
  <2>3. CASE UNCHANGED <<dev, locked, wq>>
    BY <1>1, <2>1, <2>3 DEF Holders, dev
  <2> QED
    BY <1>5, <2>2, <2>3 DEF Release
<1>6. ASSUME NEW p \in Procs, NEW q \in Procs, NEW f \in Files, Fork(p, q, f) PROVE OwnInv'
  BY <1>6 DEF Fork, OwnInv, PrivateFiles
<1>7. ASSUME NEW p \in Procs, Signal(p) PROVE OwnInv'
  BY <1>1, <1>7 DEF Signal, Holders, dev, call
<1>8. CASE UNCHANGED vars
  BY <1>1, <1>8 DEF vars, Holders, dev, call
<1> QED
  BY <1>2, <1>3, <1>4, <1>5, <1>6, <1>7, <1>8 DEF Next, Client, Handles

LEMMA OwnInit == Init => OwnInv
BY DEF Init, OwnInv, Busy

(* Closing every descriptor frees the lock, in either kernel, if no file   *)
(* is shared.  (A shared one may leave a reader behind: the run            *)
(* osprd_shared_close.)                                                    *)
THEOREM ClosingFrees ==
  ASSUME PrivateFiles, SerialIoctl \/ NoRdwr
  PROVE  Spec => []AllClosedFree
<1>1. Init => OwnInv
  BY OwnInit
<1>2. OwnInv /\ TypeOK /\ LockAccounting => AllClosedFree
  <2> SUFFICES ASSUME OwnInv, TypeOK, LockAccounting, \A f \in Files : fds[f] = {}
               PROVE  can_write
    BY DEF AllClosedFree
  <2>1. writer = NoProc /\ readers = {}
    BY DEF OwnInv
  <2>2. num_readers = 0
    BY <2>1, FS_EmptySet DEF LockAccounting
  <2> QED
    BY <2>1, <2>2 DEF can_write
<1>3. CASE SerialIoctl
  <2>1. SerialInv /\ OwnInv /\ [Next]_vars => OwnInv'
    BY SpentTicketsNeverRun, OwnInductive DEF SerialInv
  <2>2. SerialInv /\ OwnInv => AllClosedFree
    BY <1>2 DEF SerialInv
  <2>3. Spec => []SerialInv
    BY <1>3, SerialInvariant
  <2> QED
    BY <1>1, <2>1, <2>2, <2>3, PTL DEF Spec
<1>4. CASE NoRdwr
  <2>1. TypeOK /\ HoldInv /\ ReadBlock /\ LockAccounting /\ OwnInv /\ [Next]_vars => OwnInv'
    <3>1. ReadBlock => GrantFits
      BY DEF ReadBlock, GrantFits
    <3> QED
      BY <3>1, OwnInductive
  <2>2. Spec => [](TypeOK /\ HoldInv /\ ReadBlock /\ LockAccounting)
    BY <1>4, LockInvariant
  <2> QED
    BY <1>1, <1>2, <2>1, <2>2, PTL DEF Spec
<1> QED
  BY <1>3, <1>4

-----------------------------------------------------------------------------
(* The refinement.  Outside the driver a process is mapped to a request of *)
(* kind "w" that does not wait.                                            *)
IdleSide == \A p \in Procs : ~Busy(p) => side[p] = "w"

LEMMA IdleSideInductive ==
  ASSUME TypeOK, IdleSide, [Next]_vars
  PROVE  IdleSide'
<1>1. CASE Idles
  BY <1>1 DEF Idles, IdleSide, Busy
<1>2. ASSUME NEW p \in Procs, Handles(p) PROVE IdleSide'
  <2>1. OnlyMoves(p) /\ (~Busy(p)' => side'[p] = "w")
    BY <1>2, HandlerKinds, LeavesMoves, GetsFacts, BeginsFacts DEF Waits, GivesUp, Busy
  <2> QED
    BY <2>1 DEF OnlyMoves, IdleSide, Busy
<1> QED
  BY <1>1, <1>2, StepKinds

(* What the mapping rests on. *)
MapInv == SerialInv /\ ReadBlock /\ OwnInv /\ IdleSide

LEMMA MapInvariant ==
  ASSUME SerialIoctl, NoRdwr, PrivateFiles
  PROVE  Spec => []MapInv
<1>1. Init => OwnInv /\ IdleSide /\ ReadBlock
  BY OwnInit DEF Init, IdleSide, ReadBlock, Busy
<1>2. SerialInv /\ ReadBlock /\ OwnInv /\ IdleSide /\ [Next]_vars => ReadBlock' /\ OwnInv' /\ IdleSide'
  BY SpentTicketsNeverRun, OwnInductive, ReadBlockInductive, IdleSideInductive DEF SerialInv
<1> QED
  BY <1>1, <1>2, SerialInvariant, PTL DEF Spec, MapInv

(* Without O_RDWR a request waits for its lock as long as it is in the     *)
(* driver.                                                                 *)
LEMMA BusyIsLive ==
  ASSUME TypeOK, ReadBlock, NEW p \in Procs
  PROVE  Live(p) <=> Busy(p)
BY DEF ReadBlock, Live, Busy, TypeOK, PlaceOK

(* The line of the fair lock. *)
AheadOf == [p \in Procs |-> Ahead(p)]

(* If no request changes, neither does the fair lock's view of them. *)
LEMMA SameLine ==
  ASSUME \A p \in Procs : (Live(p)' <=> Live(p)) /\ (Live(p) => ticket'[p] = ticket[p])
  PROVE  Waiting' = Waiting /\ AheadOf' = AheadOf
<1>1. Waiting' = Waiting
  BY DEF Waiting
<1>2. \A p \in Procs : Ahead(p)' = Ahead(p)
  BY <1>1 DEF Ahead, Waiting
<1> QED
  BY <1>1, <1>2 DEF AheadOf

(* p leaves the line. *)
LEMMA LeaveLine ==
  ASSUME MapInv, MapInv', NEW p \in Procs, Busy(p), Leaves(p)
  PROVE  Fair!Leave(p)
<1>1. /\ OnlyMoves(p) /\ ~Busy(p)' /\ UNCHANGED ticket /\ side' = [side EXCEPT ![p] = "w"]
      /\ \A q \in Procs : q # p => (Live(q)' <=> Live(q))
  BY LeavesMoves, OnlyMovesStay DEF MapInv, SerialInv, Leaves, Busy, OthersStay
<1>2. Live(p) /\ ~Live(p)'
  BY <1>1, BusyIsLive DEF MapInv, SerialInv, Live, Busy
<1>3. p \in Waiting /\ Waiting' = Waiting \ {p}
  BY <1>1, <1>2 DEF Waiting
<1>4. \A q \in Procs : Ahead(q)' = IF q = p THEN {} ELSE Ahead(q) \ {p}
  <2>1. Ahead(p)' = {}
    BY <1>2 DEF Ahead
  <2>2. ASSUME NEW q \in Procs, q # p PROVE Ahead(q)' = Ahead(q) \ {p}
    BY <1>1, <1>3, <2>2 DEF Ahead, Waiting
  <2> QED
    BY <2>1, <2>2
<1>5. [q \in Procs |-> Ahead(q)]' = [q \in Procs |-> IF q = p THEN {} ELSE Ahead(q) \ {p}]
  BY <1>4
<1> QED
  BY <1>1, <1>3, <1>5 DEF Fair!Leave

LEMMA GetsIsGrant ==
  ASSUME NoRdwr, MapInv, MapInv', NEW p \in Procs, Gets(p)
  PROVE  Fair!Grant(p)
<1>1. TypeOK /\ HoldInv /\ ReadBlock /\ Line /\ LockAccounting /\ Busy(p)
  BY DEF MapInv, SerialInv, TicketInv, Gets
<1>2. Leaves(p)
  <2>1. ~(side[p] = "w" /\ Readable(file[p]))
    BY <1>1, FilesAssumption DEF HoldInv, WriteBlock, NoRdwr, Writable, Readable, TypeOK, CallOK
  <2> QED
    BY <1>1, <2>1, GetsFacts
<1>3. Fair!Leave(p)
  BY <1>1, <1>2, LeaveLine
<1>4. Ahead(p) = {}
  <2>1. FirstInLine(p) /\ \A q \in Procs : ticket[q] \in Nat
    BY <1>1, RunnerIsFirst DEF Gets, TypeOK, CallOK
  <2> QED
    BY <2>1 DEF FirstInLine, Ahead, Waiting
<1>5. writer = NoProc /\ (side[p] = "w" => readers = {})
  BY <1>1, NoReaders DEF Gets, CanLock, can_write, can_read, TypeOK
<1>6. \/ side[p] = "w" /\ writer' = p /\ UNCHANGED readers
      \/ side[p] = "r" /\ readers' = readers \cup {p} /\ UNCHANGED writer
  BY <1>1, GetsFacts
<1>7. [q \in Procs |-> Ahead(q)][p] = {}
  BY <1>4
<1> QED
  BY <1>3, <1>5, <1>6, <1>7 DEF Fair!Grant

LEMMA BeginsIsArrive ==
  ASSUME MapInv, MapInv', NEW p \in Procs, Begins(p)
  PROVE  Fair!Arrive(p) \/ UNCHANGED Fair!vars
<1>1. TypeOK /\ TypeOK' /\ Line /\ ReadBlock /\ ReadBlock' /\ IdleSide
  BY DEF MapInv, SerialInv, TicketInv
<1>2. /\ OnlyMoves(p) /\ ~Busy(p) /\ ticket'[p] = ticket_head /\ UNCHANGED <<writer, readers>>
      /\ \/ pc'[p] = "user" /\ side'[p] = "w"
         \/ pc'[p] \in {"check", "try"} /\ side'[p] \in {"w", "r"}
  BY <1>1, BeginsFacts DEF Holders
<1>3. /\ ~Live(p) /\ side[p] = "w"
      /\ \A q \in Procs : q # p =>
           ticket'[q] = ticket[q] /\ side'[q] = side[q] /\ (Live(q)' <=> Live(q))
  BY <1>1, <1>2, OnlyMovesStay DEF Live, Busy, IdleSide, OthersStay, OnlyMoves
<1>4. side \in [Procs -> {"w", "r"}] /\ side' \in [Procs -> {"w", "r"}]
  BY <1>1 DEF TypeOK, PlaceOK
<1>5. CASE pc'[p] = "user" /\ side'[p] = "w"
  <2>1. ~Live(p)'
    BY <1>5 DEF Live
  <2>2. Waiting' = Waiting /\ AheadOf' = AheadOf
    BY <1>3, <2>1, SameLine
  <2>3. side' = side
    BY <1>3, <1>4, <1>5
  <2> QED
    BY <1>2, <2>2, <2>3 DEF Fair!vars, AheadOf
<1>6. CASE pc'[p] \in {"check", "try"}
  <2>1. Live(p)'
    <3>1. Live(p)' <=> Busy(p)'
      BY <1>1, <1>4, <1>6 DEF ReadBlock, Live, Busy
    <3> QED
      BY <1>6, <3>1 DEF Busy
  <2>2. p \notin Waiting /\ Waiting' = Waiting \cup {p}
    BY <1>3, <2>1 DEF Waiting
  <2>3. \A q \in Procs : Live(q) => ticket[q] < ticket_head /\ ticket[q] \in Nat
    BY <1>1 DEF Line, TicketsAccounted, TypeOK, CallOK
  <2>4. ticket_head \in Nat
    BY <1>1 DEF TypeOK, DevOK
  <2>5. Ahead(p)' = Waiting
    <3>1. ASSUME NEW q \in Procs
          PROVE  q \in Waiting' /\ ticket'[q] < ticket'[p] <=> q \in Waiting
      <4>1. CASE q = p
        BY <1>2, <2>2, <2>4, <4>1
      <4>2. CASE q # p
        BY <1>2, <1>3, <2>2, <2>3, <4>2 DEF Waiting
      <4> QED
        BY <4>1, <4>2
    <3> QED
      BY <2>1, <3>1 DEF Ahead, Waiting
  <2>6. ASSUME NEW q \in Procs, q # p PROVE Ahead(q)' = Ahead(q)
    <3>1. CASE ~Live(q)
      BY <1>3, <2>6, <3>1 DEF Ahead
    <3>2. CASE Live(q)
      <4>1. Live(q)' /\ ticket'[q] = ticket[q] /\ ~(ticket'[p] < ticket'[q])
        BY <1>2, <1>3, <2>3, <2>4, <2>6, <3>2
      <4>2. ASSUME NEW r \in Procs
            PROVE  r \in Waiting' /\ ticket'[r] < ticket'[q] <=> r \in Waiting /\ ticket[r] < ticket[q]
        <5>1. CASE r = p
          BY <2>2, <4>1, <5>1
        <5>2. CASE r # p
          BY <1>3, <2>2, <4>1, <5>2
        <5> QED
          BY <5>1, <5>2
      <4> QED
        BY <3>2, <4>1, <4>2 DEF Ahead, Waiting
    <3> QED
      BY <3>1, <3>2
  <2>7. AheadOf' = [AheadOf EXCEPT ![p] = Waiting]
    BY <2>5, <2>6 DEF AheadOf
  <2>8. side' = [side EXCEPT ![p] = side'[p]] /\ side'[p] \in {"w", "r"}
    BY <1>3, <1>4
  <2>9. Fair!Arrive(p)
    BY <1>2, <2>2, <2>7, <2>8 DEF Fair!Arrive, AheadOf
  <2> QED
    BY <2>9
<1> QED
  BY <1>2, <1>5, <1>6

(* The fair lock's line is as it was, and so are the kinds. *)
LEMMA IdleKeepsLine ==
  ASSUME UNCHANGED <<pc, side, file, ticket>>
  PROVE  Waiting' = Waiting /\ AheadOf' = AheadOf /\ side' = side
<1>1. \A p \in Procs : (Live(p)' <=> Live(p)) /\ ticket'[p] = ticket[p]
  BY DEF Live, Writable
<1> QED
  BY <1>1, SameLine

LEMMA UnlockIsRelease ==
  ASSUME PrivateFiles, MapInv, NEW p \in Procs, NEW f \in Files, locked[f], p \in fds[f],
         Unlock(p, f), UNCHANGED <<pc, side, file, ticket>>
  PROVE  Fair!Release(p)
<1>1. \/ writer = p /\ writer' = NoProc /\ UNCHANGED readers
      \/ p \in readers /\ readers' = readers \ {p} /\ UNCHANGED writer
  <2>1. IF Writable(f) THEN writer = p /\ readers = {} ELSE p \in readers /\ Readable(f)
    BY UnlockerHolds DEF MapInv, SerialInv
  <2> QED
    BY <2>1 DEF Unlock
<1>2. Waiting' = Waiting /\ AheadOf' = AheadOf /\ side' = side
  BY IdleKeepsLine
<1> QED
  BY <1>1, <1>2 DEF Fair!Release, AheadOf

(* Every step is a step of the fair lock, or invisible. *)
LEMMA StepMaps ==
  ASSUME NoRdwr, PrivateFiles, MapInv, MapInv', [Next]_vars
  PROVE  [Fair!Next]_(Fair!vars)
<1>1. ASSUME UNCHANGED <<pc, side, file, ticket, writer, readers>> PROVE UNCHANGED Fair!vars
  BY <1>1, IdleKeepsLine DEF Fair!vars, AheadOf
<1>2. ASSUME NEW p \in Procs, Handles(p) PROVE [Fair!Next]_(Fair!vars)
  <2>1. TypeOK /\ ReadBlock
    BY DEF MapInv, SerialInv
  <2>2. CASE Waits(p)
    <3>1. /\ OthersStay(p) /\ ticket' = ticket /\ side' = side /\ UNCHANGED <<writer, readers>>
          /\ (Live(p)' <=> Live(p))
      BY <2>2, OnlyMovesStay DEF Waits, Holders, Live, Busy, Writable
    <3>2. Waiting' = Waiting /\ AheadOf' = AheadOf
      BY <3>1, SameLine DEF OthersStay
    <3> QED
      BY <3>1, <3>2 DEF Fair!vars, AheadOf
  <2>3. CASE GivesUp(p)
    <3>1. Fair!Leave(p) /\ UNCHANGED <<writer, readers>>
      BY <2>3, LeaveLine DEF GivesUp, Holders
    <3> QED
      BY <3>1 DEF Fair!Next, Fair!Withdraw
  <2>4. CASE Gets(p)
    BY <2>4, GetsIsGrant DEF Fair!Next
  <2>5. CASE Begins(p)
    BY <2>5, BeginsIsArrive DEF Fair!Next
  <2> QED
    BY <1>2, <2>1, <2>2, <2>3, <2>4, <2>5, HandlerKinds
<1>3. ASSUME NEW p \in Procs, NEW f \in Files, Close(p, f) \/ Release(p, f)
      PROVE  [Fair!Next]_(Fair!vars)
  <2>1. UNCHANGED <<pc, side, file, ticket>> /\ p \in fds[f]
    BY <1>3 DEF Close, Release, call, place
  <2>2. CASE locked[f] /\ Unlock(p, f)
    BY <2>1, <2>2, UnlockIsRelease DEF Fair!Next
  <2>3. CASE UNCHANGED <<writer, readers>>
    BY <1>1, <2>1, <2>3
  <2> QED
    BY <1>3, <2>2, <2>3 DEF Close, Release, dev
<1>4. ASSUME NEW p \in Procs, NEW f \in Files, Open(p, f) \/ \E q \in Procs : Fork(p, q, f)
      PROVE  [Fair!Next]_(Fair!vars)
  BY <1>1, <1>4 DEF Open, Fork, dev, call, place
<1>5. ASSUME NEW p \in Procs, Signal(p) PROVE [Fair!Next]_(Fair!vars)
  BY <1>1, <1>5 DEF Signal, dev, call, place
<1>6. CASE UNCHANGED vars
  BY <1>1, <1>6 DEF vars, dev, call, place
<1> QED
  BY <1>2, <1>3, <1>4, <1>5, <1>6 DEF Next, Client, Handles

(* The ticket protocol implements the fair reader/writer lock, for every   *)
(* set of processes and private files without O_RDWR, refusals, signals    *)
(* and closes included: what the comment on OSPRDIOCACQUIRE promises.      *)
THEOREM ImplementsFair ==
  ASSUME SerialIoctl, NoRdwr, PrivateFiles
  PROVE  Spec => ImplementsFairLock
<1>1. Init => Fair!Init
  <2> SUFFICES ASSUME Init PROVE Fair!Init
    OBVIOUS
  <2>1. \A p \in Procs : ~Live(p)
    BY DEF Init, Live
  <2>2. Waiting = {} /\ [p \in Procs |-> Ahead(p)] = [p \in Procs |-> {}]
    BY <2>1 DEF Waiting, Ahead
  <2> QED
    BY <2>2 DEF Init, Fair!Init
<1>2. MapInv /\ MapInv' /\ [Next]_vars => [Fair!Next]_(Fair!vars)
  BY StepMaps
<1> QED
  BY <1>1, <1>2, MapInvariant, PTL DEF Spec, ImplementsFairLock, Fair!Spec
=============================================================================
