--------------------------- MODULE OspPeerProofs ---------------------------
(***************************************************************************)
(* The peer keeps its promises for any number of arguments, uploads, peers *)
(* and files, and for a task buffer of any size.  Two inductive            *)
(* invariants: CountInv, about main's count of requests, and PeerInv,      *)
(* about the children, their buffers and the directory they share.         *)
(***************************************************************************)
EXTENDS OspPeer, NatMin, SequenceTheorems, TLAPS

(* Remainders. *)
LEMMA ModRange ==
  ASSUME NEW x \in Nat, NEW b \in Nat \ {0}
  PROVE  x % b \in 0..(b - 1)
OBVIOUS

LEMMA DivMod ==
  ASSUME NEW x \in Nat, NEW b \in Nat \ {0}
  PROVE  x \div b \in Int /\ x = b * (x \div b) + (x % b)
OBVIOUS

LEMMA SmallMultiple ==
  ASSUME NEW b \in Nat \ {0}, NEW k \in Int, b * k < b, -b < b * k
  PROVE  k = 0
OBVIOUS

LEMMA ModUnique ==
  ASSUME NEW b \in Nat \ {0}, NEW x \in Nat, NEW q \in Int, NEW r \in 0..(b - 1), x = b * q + r
  PROVE  x % b = r
<1> DEFINE q2 == x \div b   r2 == x % b
<1>1. q2 \in Int /\ r2 \in 0..(b - 1) /\ x = b * q2 + r2
  BY DivMod, ModRange
<1> HIDE DEF q2, r2
<1>3. b * (q2 - q) = r - r2
  BY <1>1
<1>2. q2 - q = 0
  BY <1>1, <1>3, SmallMultiple
<1> QED
  BY <1>1, <1>2, <1>3 DEF r2

LEMMA ModPlus ==
  ASSUME NEW b \in Nat \ {0}, NEW x \in Nat, NEW i \in Nat, (x % b) + i < b
  PROVE  (x + i) % b = (x % b) + i
<1> DEFINE q == x \div b   r == x % b
<1>1. q \in Int /\ r \in 0..(b - 1) /\ x = b * q + r
  BY DivMod, ModRange
<1> HIDE DEF q, r
<1>2. x + i = b * q + (r + i) /\ r + i \in 0..(b - 1)
  BY <1>1 DEF r
<1>3. x + i \in Nat
  OBVIOUS
<1> QED
  BY <1>1, <1>2, <1>3, ModUnique DEF r

LEMMA ModWrap ==
  ASSUME NEW b \in Nat \ {0}, NEW x \in Nat, NEW i \in Nat, i < b, (x % b) + i >= b
  PROVE  (x + i) % b = (x % b) + i - b
<1> DEFINE q == x \div b   r == x % b
<1>1. q \in Int /\ r \in 0..(b - 1) /\ x = b * q + r
  BY DivMod, ModRange
<1> HIDE DEF q, r
<1>2. x + i = b * (q + 1) + (r + i - b) /\ r + i - b \in 0..(b - 1)
  BY <1>1 DEF r
<1>3. x + i \in Nat /\ q + 1 \in Int
  BY <1>1
<1> QED
  BY <1>1, <1>2, <1>3, ModUnique DEF r

LEMMA ModTurn ==
  ASSUME NEW b \in Nat \ {0}, NEW x \in Nat
  PROVE  (x + b) % b = x % b
<1> DEFINE q == x \div b   r == x % b
<1>1. q \in Int /\ r \in 0..(b - 1) /\ x = b * q + r
  BY DivMod, ModRange
<1> HIDE DEF q, r
<1>2. x + b = b * (q + 1) + r /\ x + b \in Nat /\ q + 1 \in Int
  BY <1>1
<1> QED
  BY <1>1, <1>2, ModUnique DEF r

(* The cell of the i-th unit in the buffer. *)
Slot(i) == i % TASKBUFSIZ

LEMMA SlotRange ==
  ASSUME NEW x \in Nat
  PROVE  Slot(x) \in 0..(TASKBUFSIZ - 1)
BY SizeAssumption, ModRange DEF Slot

LEMMA SlotPlus ==
  ASSUME NEW x \in Nat, NEW i \in Nat, i < TASKBUFSIZ
  PROVE  Slot(x + i) = IF Slot(x) + i < TASKBUFSIZ THEN Slot(x) + i ELSE Slot(x) + i - TASKBUFSIZ
<1> DEFINE b == TASKBUFSIZ
<1>1. b \in Nat \ {0}
  BY SizeAssumption
<1>2. x % b \in 0..(b - 1) /\ i < b
  BY <1>1, ModRange
<1> HIDE DEF b
<1>3. CASE (x % b) + i < b
  <2>1. (x + i) % b = (x % b) + i
    BY <1>1, <1>3, ModPlus
  <2> QED
    BY <2>1, <1>3 DEF Slot, b
<1>4. CASE (x % b) + i >= b
  <2>1. (x + i) % b = (x % b) + i - b
    BY <1>1, <1>2, <1>4, ModWrap
  <2>2. ~((x % b) + i < b)
    BY <1>1, <1>2, <1>4
  <2> QED
    BY <2>1, <2>2 DEF Slot, b
<1> QED
  BY <1>1, <1>2, <1>3, <1>4

LEMMA SlotTurn ==
  ASSUME NEW x \in Nat
  PROVE  Slot(x + TASKBUFSIZ) = Slot(x)
BY SizeAssumption, ModTurn DEF Slot

(* Units less than a buffer apart have different cells. *)
LEMMA SlotDiffer ==
  ASSUME NEW x \in Nat, NEW y \in Nat, x < y, y < x + TASKBUFSIZ
  PROVE  Slot(x) # Slot(y)
<1> DEFINE i == y - x
<1>1. TASKBUFSIZ \in Nat \ {0}
  BY SizeAssumption
<1>2. i \in Nat /\ 0 < i /\ i < TASKBUFSIZ /\ y = x + i
  BY <1>1
<1>3. Slot(x) \in 0..(TASKBUFSIZ - 1)
  BY SlotRange
<1> HIDE DEF i
<1>4. Slot(x + i) = IF Slot(x) + i < TASKBUFSIZ THEN Slot(x) + i ELSE Slot(x) + i - TASKBUFSIZ
  BY <1>2, SlotPlus
<1> QED
  BY <1>1, <1>2, <1>3, <1>4

-----------------------------------------------------------------------------
(* The task buffer as a window on a sequence: what was read and not yet    *)
(* written is src[head + 1] .. src[tail], each unit in its cell.           *)
Buffer == [buf : [0..(TASKBUFSIZ - 1) -> Nat], head : Nat, tail : Nat]
Window(t) == t \in Buffer /\ t.head <= t.tail /\ t.tail <= t.head + TASKBUFSIZ
Ring(t, src) ==
  /\ Window(t) /\ t.tail <= Len(src)
  /\ \A i \in t.head..(t.tail - 1) : t.buf[Slot(i)] = src[i + 1]

LEMMA Positions ==
  ASSUME NEW t, Window(t)
  PROVE  headpos(t) = Slot(t.head) /\ tailpos(t) = Slot(t.tail)
BY DEF headpos, tailpos, Slot

(* A read or a write stays within the array, and within what is free or    *)
(* what is there.                                                          *)
LEMMA Fits ==
  ASSUME NEW t, Window(t)
  PROVE  /\ Slot(t.head) \in 0..(TASKBUFSIZ - 1) /\ Slot(t.tail) \in 0..(TASKBUFSIZ - 1)
         /\ room(t) \in Nat /\ t.tail + room(t) <= t.head + TASKBUFSIZ
         /\ Slot(t.tail) + room(t) <= TASKBUFSIZ
         /\ ready(t) \in Nat /\ t.head + ready(t) <= t.tail
         /\ Slot(t.head) + ready(t) <= TASKBUFSIZ
         /\ t.head = t.tail => room(t) > 0
<1> DEFINE B == TASKBUFSIZ  h == t.head  n == t.tail - t.head  p == Slot(h)  q == Slot(t.tail)
<1>1. B \in Nat \ {0}
  BY SizeAssumption
<1>2. h \in Nat /\ t.tail \in Nat /\ n \in 0..B /\ t.tail = h + n
  BY <1>1 DEF Window, Buffer
<1>3. p \in 0..(B - 1) /\ q \in 0..(B - 1)
  BY <1>2, SlotRange
<1>4. (h = t.tail) <=> (n = 0)
  BY <1>2
<1>5. room(t) = (IF n = 0 \/ p < q THEN B - q ELSE p - q)
  BY <1>4, Positions DEF room
<1>6. ready(t) = (IF n = 0 THEN 0 ELSE IF p < q THEN q - p ELSE B - p)
  BY <1>4, Positions DEF ready
<1>7. CASE n = B
  <2>1. q = p
    BY <1>2, <1>7, SlotTurn DEF B
  <2> HIDE DEF B, h, n, p, q
  <2> QED
    BY <1>1, <1>2, <1>3, <1>4, <1>5, <1>6, <1>7, <2>1 DEF B, p, q, h
<1>8. CASE n < B
  <2> HIDE DEF n, h
  <2>1. Slot(h + n) = IF Slot(h) + n < TASKBUFSIZ THEN Slot(h) + n ELSE Slot(h) + n - TASKBUFSIZ
    BY <1>2, <1>8, SlotPlus DEF B
  <2>2. q = IF p + n < B THEN p + n ELSE p + n - B
    BY <1>2, <2>1
  <2> HIDE DEF B, p, q
  <2> QED
    BY <1>1, <1>2, <1>3, <1>4, <1>5, <1>6, <1>8, <2>2 DEF B, p, q, h
<1> QED
  BY <1>1, <1>2, <1>7, <1>8

(* What comes in goes to free cells, in order. *)
LEMMA RingRead ==
  ASSUME NEW t, NEW src \in Seq(Nat), Ring(t, src),
         NEW k \in Nat, k <= room(t), t.tail + k <= Len(src)
  PROVE  LET r == read_to_taskbuf(t, src, t.tail, k)
         IN Ring(r, src) /\ r.head = t.head /\ r.tail = t.tail + k
<1> DEFINE q == Slot(t.tail)  h == t.head  e == t.tail
           F == [i \in 0..(TASKBUFSIZ - 1) |-> IF i \in q..(q + k - 1) THEN src[e + 1 + i - q] ELSE t.buf[i]]
           r == [t EXCEPT !.tail = @ + k, !.buf = F]
<1>1. TASKBUFSIZ \in Nat \ {0}
  BY SizeAssumption
<1>2. t \in Buffer /\ h \in Nat /\ e \in Nat /\ DOMAIN t.buf = 0..(TASKBUFSIZ - 1) /\ Window(t)
  BY DEF Ring, Window, Buffer
<1>3. q \in 0..(TASKBUFSIZ - 1) /\ q + room(t) <= TASKBUFSIZ /\ e + room(t) <= h + TASKBUFSIZ /\ room(t) \in Nat
  BY Fits, <1>2
<1>4. q + k <= TASKBUFSIZ /\ e + k <= h + TASKBUFSIZ /\ h <= e /\ e + k <= Len(src) /\ Len(src) \in Nat
  <2> HIDE DEF q, h, e
  <2>1. q + k <= TASKBUFSIZ /\ e + k <= h + TASKBUFSIZ
    BY <1>1, <1>2, <1>3
  <2> QED
    BY <2>1, LenProperties DEF Ring, Window, h, e
<1>5. read_to_taskbuf(t, src, t.tail, k) = r
  BY <1>2, Positions DEF read_to_taskbuf
<1>15. q = Slot(e) /\ t.head = h /\ t.tail = e /\ \A i \in h..(e - 1) : t.buf[Slot(i)] = src[i + 1]
  BY DEF Ring
<1> HIDE DEF q, h, e
<1>6. ASSUME NEW i \in 0..(TASKBUFSIZ - 1) PROVE F[i] \in Nat
  <2>1. CASE i \in q..(q + k - 1)
    <3>1. e + 1 + i - q \in 1..Len(src)
      BY <1>1, <1>2, <1>3, <1>4, <2>1
    <3>2. src[e + 1 + i - q] \in Nat
      BY <3>1, ElementOfSeq
    <3> QED
      BY <3>2, <2>1
  <2>2. CASE i \notin q..(q + k - 1)
    BY <1>2, <2>2 DEF Buffer
  <2> QED
    BY <2>1, <2>2
<1>7. F \in [0..(TASKBUFSIZ - 1) -> Nat]
  BY <1>6
<1>8. r \in Buffer /\ r.head = h /\ r.tail = e + k /\ r.buf = F
  <2> HIDE DEF F
  <2>1. e + k \in Nat
    BY <1>2
  <2>2. r = [t EXCEPT !.tail = e + k, !.buf = F]
    BY <1>15
  <2> QED BY <1>2, <1>7, <1>15, <2>1, <2>2 DEF Buffer
<1> HIDE DEF r
<1>9. Window(r)
  <2> HIDE DEF F
  <2> QED BY <1>1, <1>2, <1>4, <1>8 DEF Window
<1>10. ASSUME NEW i \in h..(e - 1) PROVE F[Slot(i)] = src[i + 1]
  <2>1. i \in Nat /\ Slot(i) \in 0..(TASKBUFSIZ - 1)
    BY <1>2, SlotRange
  <2>2. ASSUME NEW m \in 0..(k - 1) PROVE Slot(i) # q + m
    <3>1. e + m \in Nat /\ i < e + m /\ e + m < i + TASKBUFSIZ /\ m \in Nat /\ m < TASKBUFSIZ
      BY <1>1, <1>2, <1>3, <1>4, <2>1
    <3>2. Slot(e + m) = q + m
      <4>1. Slot(e + m) = IF q + m < TASKBUFSIZ THEN q + m ELSE q + m - TASKBUFSIZ
        BY <1>2, <1>15, <3>1, SlotPlus
      <4>2. q + m < TASKBUFSIZ
        BY <1>1, <1>3, <1>4
      <4> QED
        BY <4>1, <4>2
    <3>3. Slot(i) # Slot(e + m)
      BY <2>1, <3>1, SlotDiffer
    <3> QED
      BY <3>2, <3>3
  <2>3. Slot(i) \notin q..(q + k - 1)
    <3> SUFFICES ASSUME Slot(i) \in q..(q + k - 1) PROVE FALSE
      OBVIOUS
    <3>1. Slot(i) - q \in 0..(k - 1) /\ Slot(i) = q + (Slot(i) - q)
      BY <1>1, <1>3, <2>1
    <3> QED
      BY <2>2, <3>1
  <2>4. F[Slot(i)] = t.buf[Slot(i)]
    BY <2>1, <2>3
  <2> QED
    BY <2>4, <1>15
<1>11. ASSUME NEW i \in e..(e + k - 1) PROVE F[Slot(i)] = src[i + 1]
  <2> DEFINE m == i - e
  <2>1. m \in 0..(k - 1) /\ i = e + m /\ m \in Nat /\ m < TASKBUFSIZ /\ q + m < TASKBUFSIZ
    BY <1>1, <1>2, <1>3, <1>4
  <2> HIDE DEF m
  <2>2. Slot(e + m) = IF q + m < TASKBUFSIZ THEN q + m ELSE q + m - TASKBUFSIZ
    BY <1>2, <1>15, <2>1, SlotPlus
  <2>3. Slot(i) = q + m
    BY <2>1, <2>2
  <2> DEFINE c == q + m
  <2>4. c \in 0..(TASKBUFSIZ - 1) /\ c \in q..(q + k - 1) /\ e + 1 + c - q = i + 1
    BY <1>1, <1>2, <1>3, <2>1
  <2> HIDE DEF c
  <2>5. F[c] = src[e + 1 + c - q]
    BY <2>4
  <2> QED
    BY <2>3, <2>4, <2>5 DEF c
<1> HIDE DEF F
<1>12. ASSUME NEW i \in h..(e + k - 1) PROVE F[Slot(i)] = src[i + 1]
  <2>1. i \in h..(e - 1) \/ i \in e..(e + k - 1)
    BY <1>2
  <2>2. CASE i \in h..(e - 1)
    BY <1>10, <2>2
  <2>3. CASE i \in e..(e + k - 1)
    BY <1>11, <2>3
  <2> QED
    BY <2>1, <2>2, <2>3
<1>13. \A i \in r.head..(r.tail - 1) : r.buf[Slot(i)] = src[i + 1]
  <2>1. r.head..(r.tail - 1) = h..(e + k - 1) /\ r.buf = F
    BY <1>2, <1>8
  <2> QED
    BY <1>12, <2>1, Zenon
<1>14. r.tail <= Len(src)
  BY <1>4, <1>8
<1> QED
  BY <1>5, <1>8, <1>9, <1>13, <1>14 DEF Ring, h, e

(* What goes out is what is next. *)
LEMMA RingWrite ==
  ASSUME NEW t, NEW src \in Seq(Nat), Ring(t, src), NEW j \in 0..ready(t)
  PROVE  LET w == write_from_taskbuf(t, j)
         IN /\ Ring(w.t, src) /\ w.t.head = t.head + j /\ w.t.tail = t.tail
            /\ t.head + j <= t.tail
            /\ w.out = [i \in 1..j |-> src[t.head + i]]
<1> DEFINE w == write_from_taskbuf(t, j)  p == Slot(t.head)  h == t.head  e == t.tail
<1>1. TASKBUFSIZ \in Nat \ {0}
  BY SizeAssumption
<1>2. t \in Buffer /\ h \in Nat /\ e \in Nat /\ Window(t) /\ h <= e /\ e <= h + TASKBUFSIZ
  BY DEF Ring, Window, Buffer
<1>3. p \in 0..(TASKBUFSIZ - 1) /\ ready(t) \in Nat /\ p + ready(t) <= TASKBUFSIZ /\ h + ready(t) <= e
  BY Fits, <1>2
<1>4. j \in Nat /\ p + j <= TASKBUFSIZ /\ h + j <= e
  <2> HIDE DEF p, h, e
  <2> QED BY <1>1, <1>2, <1>3
<1>5. /\ w.t = [t EXCEPT !.head = h + j]
      /\ w.out = [i \in 1..j |-> t.buf[p + i - 1]]
  BY <1>2, Positions DEF write_from_taskbuf
<1>15. p = Slot(h) /\ t.head = h /\ t.tail = e /\ \A i \in h..(e - 1) : t.buf[Slot(i)] = src[i + 1]
  BY DEF Ring
<1>16. e <= Len(src)
  BY DEF Ring
<1> HIDE DEF p, h, e
<1>6. w.t \in Buffer /\ w.t.head = h + j /\ w.t.tail = e /\ w.t.buf = t.buf
  <2> HIDE DEF w
  <2>1. h + j \in Nat
    BY <1>2, <1>4
  <2> QED BY <1>2, <1>5, <1>15, <2>1 DEF Buffer
<1> HIDE DEF w
<1>7. Ring(w.t, src)
  <2>1. Window(w.t)
    BY <1>1, <1>2, <1>4, <1>6 DEF Window
  <2>2. \A i \in (h + j)..(e - 1) : i \in h..(e - 1)
    BY <1>2, <1>4
  <2> QED
    BY <1>6, <1>15, <1>16, <2>1, <2>2 DEF Ring
<1>8. ASSUME NEW i \in 1..j PROVE t.buf[p + i - 1] = src[h + i]
  <2> DEFINE m == i - 1
  <2>1. m \in Nat /\ p + m < TASKBUFSIZ /\ h + m \in h..(e - 1) /\ m < TASKBUFSIZ
    BY <1>1, <1>2, <1>3, <1>4
  <2>2. h + m + 1 = h + i /\ p + m = p + i - 1
    BY <1>2, <1>3
  <2> HIDE DEF m
  <2>3. Slot(h + m) = IF p + m < TASKBUFSIZ THEN p + m ELSE p + m - TASKBUFSIZ
    BY <1>2, <1>15, <2>1, SlotPlus
  <2>4. t.buf[Slot(h + m)] = src[h + m + 1]
    BY <2>1, <1>15
  <2> QED
    BY <2>1, <2>2, <2>3, <2>4
<1>9. [i \in 1..j |-> t.buf[p + i - 1]] = [i \in 1..j |-> src[h + i]]
  BY <1>8
<1> QED
  BY <1>4, <1>5, <1>6, <1>7, <1>9, <1>15 DEF w

(* The first h units of a sequence, then the next j. *)
LEMMA Extend ==
  ASSUME NEW src \in Seq(Nat), NEW h \in Nat, NEW j \in Nat, h + j <= Len(src)
  PROVE  [i \in 1..h |-> src[i]] \o [i \in 1..j |-> src[h + i]] = [i \in 1..(h + j) |-> src[i]]
OBVIOUS

-----------------------------------------------------------------------------
(* The inductive invariant: what each process has, related to the          *)
(* directory it shares with the others.                                    *)
Peers == DOMAIN Sends \cup {Self}
Line == Peers \cup {OK, Error}
Kept == Saved \cup {"transfer"}
File == [on : BOOLEAN, owner : Nat, data : Seq(Nat)]
Task == [pc : {"none", "start", "failed", "open"} \cup Kept, file : Files \cup {""}, peers : Seq(Peers),
         len : Nat, got : Nat, t : Buffer, total : Nat, name : Names \cup {NoName},
         samples : Seq(Nat), lines : Seq(Line)]
Upload == [pc : {"none", "request", "send", "done", "broken"}, t : Buffer,
           name : Names \cup {NoName}, read : Nat, sent : Seq(Nat)]

LoadOK == load \in [args : Seq(Files), uploads : Nat]
MainOK ==
  /\ main \in [pc : {"want", "reply", "wait"}, arg : Nat \ {0}, num_req : Nat, lines : Seq(Line),
              reaped : SUBSET ({"down", "up"} \X Nat)]
  /\ main.pc = "reply" => main.arg <= Len(load.args)
NetOK ==
  /\ requests \in Seq([cmd : {"WANT", "HAVE"}, file : Files])
  /\ replies \in Seq(Line) /\ known \in [Files -> Seq(Peers)]

(* A download under way has in its file what it has written, in its buffer *)
(* what it has read beyond that, and the file is its own.                  *)
ChildOK(d, r, dk) ==
  /\ r \in Task
  /\ r.pc # "none" => r.file \in Files
  /\ r.pc \in {"none", "start", "failed"} => r.name = NoName
  /\ r.pc \in {"start", "open"} => r.t = EmptyBuf /\ r.got = 0 /\ r.total = 0
  /\ r.pc \in Kept \cup {"open"} => r.name \in Names /\ r.name[1] = r.file
  /\ r.pc \in Kept => dk[r.name].on /\ dk[r.name].owner = d
  /\ r.pc = "transfer" =>
       /\ Ring(r.t, Units(r.len)) /\ r.got = r.t.tail /\ r.total = r.t.head
       /\ dk[r.name].data = Units(r.total) /\ r.samples # <<>>
  /\ r.pc \in Saved => r.len > 0 /\ dk[r.name].data = Units(r.len)

FilesOK ==
  /\ down \in [Downs -> Task] /\ disk \in [Names -> File]
  /\ \A d \in Downs : ChildOK(d, down[d], disk) /\ (d >= main.arg => down[d].pc = "none")
  /\ OwnFilesOnly

(* The file f is here whole, and no process will change it. *)
Settled(f) == <<f, 0>> \in DOMAIN InitDisk \/ \E d \in Downs : down[d].pc \in Saved /\ down[d].name = <<f, 0>>
Whole == {f \in Files : Settled(f)}

HaveOK ==
  /\ \A i \in DOMAIN requests : requests[i].cmd = "HAVE" => requests[i].file \in Whole
  /\ \A f \in Files : Self \in ToSet(known[f]) => f \in Whole

(* An upload has sent the units before its buffer's head. *)
UpOK(r, dk) ==
  /\ r \in Upload
  /\ r.pc \in {"none", "request"} => r = [NoUpload EXCEPT !.pc = r.pc]
  /\ r.pc \in {"send", "done"} => r.name # NoName
  /\ r.name # NoName =>
       /\ \E f \in Files : r.name = <<f, 0>> /\ Settled(f)
       /\ Ring(r.t, dk[r.name].data) /\ r.read = r.t.tail
       /\ r.sent = [i \in 1..r.t.head |-> dk[r.name].data[i]]
       /\ r.pc = "done" => r.t.head = Len(dk[r.name].data)
UpsOK == up \in [Ups -> Upload] /\ \A u \in Ups : UpOK(up[u], disk)

(* num_req counts the uploads not yet reaped, from 1, except that a reaped *)
(* download is counted for one.                                            *)
Alive == {u \in Ups : up[u].pc # "none" /\ <<"up", u>> \notin main.reaped}
ReapedDowns == {z \in main.reaped : z[1] = "down"}
CountOK ==
  /\ main.num_req \in 1..(MaxRequests + 1) /\ (main.pc = "wait" <=> main.num_req = MaxRequests + 1)
  /\ IsFiniteSet(main.reaped)
  /\ Cardinality(Alive) <= main.num_req - 1 + Cardinality(ReapedDowns)

PeerInv == LoadOK /\ MainOK /\ NetOK /\ FilesOK /\ HaveOK /\ UpsOK

LEMMA NamesOf ==
  ASSUME NEW f \in Files
  PROVE  <<f, 0>> \in Names /\ <<f, 0>> # NoName
<1>1. MaxNames \in Nat \ {0}
  BY SizeAssumption
<1>2. f # ""
  BY InputAssumption, Zenon
<1>3. <<f, 0>> \in Names
  BY <1>1 DEF Names
<1>4. <<f, 0>>[1] # NoName[1]
  BY <1>2 DEF NoName
<1> QED
  BY <1>3, <1>4

LEMMA NoNameIsNone == NoName \notin Names
<1>1. "" \notin Files
  BY InputAssumption, Zenon
<1> QED
  BY <1>1 DEF Names, NoName

LEMMA UnitsSeq ==
  ASSUME NEW n \in Nat
  PROVE  /\ Units(n) \in Seq(Nat) /\ Len(Units(n)) = n
         /\ \A i \in 1..n : Units(n)[i] = i
BY DEF Units

LEMMA EmptyBufOK == EmptyBuf \in Buffer
BY SizeAssumption DEF EmptyBuf, Buffer

LEMMA NoTaskOK == NoTask \in Task
<1>1. <<>> \in Seq(Peers) /\ <<>> \in Seq(Nat) /\ <<>> \in Seq(Line)
  BY EmptySeq
<1> QED
  BY <1>1, EmptyBufOK DEF NoTask, Task

LEMMA NoUploadOK == NoUpload \in Upload
BY EmptyBufOK, EmptySeq DEF NoUpload, Upload

(* An empty buffer is a window on the beginning of anything. *)
LEMMA EmptyRing ==
  ASSUME NEW src \in Seq(Nat)
  PROVE  Ring(EmptyBuf, src)
<1>1. EmptyBuf.head = 0 /\ EmptyBuf.tail = 0 /\ Len(src) \in Nat
  BY LenProperties DEF EmptyBuf
<1> QED
  BY <1>1, EmptyBufOK, SizeAssumption DEF Ring, Window

LEMMA PeerInit == Init => PeerInv
<1> SUFFICES ASSUME Init PROVE PeerInv
  OBVIOUS
<1>1. LoadOK
  BY InputAssumption DEF Init, LoadOK
<1>2. MainOK
  BY EmptySeq DEF Init, MainOK
<1>3. NetOK
  <2>1. requests \in Seq([cmd : {"WANT", "HAVE"}, file : Files]) /\ replies \in Seq(Line)
    BY EmptySeq DEF Init
  <2>2. ASSUME NEW f \in Files PROVE known[f] \in Seq(Peers)
    <3>1. Listed[f] \in Seq(DOMAIN Sends \ {Self})
      BY InputAssumption
    <3>2. Listed[f] \in Seq(Peers)
      BY <3>1, SeqMonotonic DEF Peers
    <3>3. Append(Listed[f], Self) \in Seq(Peers)
      BY <3>2, AppendProperties DEF Peers
    <3> QED
      BY <3>2, <3>3 DEF Init
  <2>3. known \in [Files -> Seq(Peers)]
    BY <2>2 DEF Init
  <2> QED
    BY <2>1, <2>3 DEF NetOK
<1>4. FilesOK
  <2>1. down \in [Downs -> Task]
    BY NoTaskOK DEF Init
  <2>2. ASSUME NEW n \in Names
        PROVE  disk[n] \in File /\ (disk[n].on <=> n \in DOMAIN InitDisk) /\ disk[n].owner = 0
    <3>1. n \in DOMAIN InitDisk => Units(InitDisk[n]) \in Seq(Nat)
      BY InputAssumption, UnitsSeq
    <3>2. disk[n] = [on |-> n \in DOMAIN InitDisk, owner |-> 0,
                     data |-> IF n \in DOMAIN InitDisk THEN Units(InitDisk[n]) ELSE <<>>]
      BY DEF Init
    <3>3. (n \in DOMAIN InitDisk) \in BOOLEAN
      OBVIOUS
    <3>4. (IF n \in DOMAIN InitDisk THEN Units(InitDisk[n]) ELSE <<>>) \in Seq(Nat)
      BY <3>1, EmptySeq
    <3>5. disk[n] \in File
      BY <3>2, <3>3, <3>4 DEF File
    <3>6. disk[n].owner = 0
      BY <3>2
    <3>7. disk[n].on <=> n \in DOMAIN InitDisk
      <4>1. disk[n].on = (n \in DOMAIN InitDisk)
        BY <3>2
      <4> QED
        BY <4>1
    <3> QED
      BY <3>5, <3>6, <3>7
  <2>3. disk \in [Names -> File]
    BY <2>2 DEF Init
  <2>4. ASSUME NEW d \in Downs PROVE ChildOK(d, down[d], disk) /\ down[d].pc = "none"
    <3>1. down[d] = NoTask
      BY DEF Init
    <3>2. NoTask.pc = "none" /\ NoTask.name = NoName
      BY DEF NoTask
    <3> QED
      BY <3>1, <3>2, NoTaskOK DEF ChildOK, Kept, Saved
  <2>5. OwnFilesOnly
    BY <2>2 DEF OwnFilesOnly
  <2> QED
    BY <2>1, <2>3, <2>4, <2>5 DEF FilesOK
<1>5. HaveOK
  <2>1. ASSUME NEW f \in Files, Self \in ToSet(known[f]) PROVE Settled(f)
    <3> SUFFICES ASSUME <<f, 0>> \notin DOMAIN InitDisk PROVE FALSE
      BY DEF Settled
    <3>1. known[f] = Listed[f]
      BY DEF Init
    <3>2. Listed[f] \in Seq(DOMAIN Sends \ {Self})
      BY InputAssumption
    <3>3. ToSet(Listed[f]) \subseteq DOMAIN Sends \ {Self}
      BY <3>2 DEF ToSet
    <3> QED
      BY <2>1, <3>1, <3>3
  <2>2. DOMAIN requests = {}
    BY DEF Init
  <2> QED
    BY <2>1, <2>2 DEF HaveOK, Whole
<1>6. UpsOK
  <2>1. up \in [Ups -> Upload]
    BY NoUploadOK DEF Init
  <2>2. ASSUME NEW u \in Ups PROVE UpOK(up[u], disk)
    <3>1. up[u] = NoUpload
      BY DEF Init
    <3>2. NoUpload.pc = "none" /\ NoUpload.name = NoName /\ NoUpload = [NoUpload EXCEPT !.pc = NoUpload.pc]
      BY DEF NoUpload
    <3> QED
      BY <3>1, <3>2, NoUploadOK DEF UpOK
  <2> QED
    BY <2>1, <2>2 DEF UpsOK
<1> QED
  BY <1>1, <1>2, <1>3, <1>4, <1>5, <1>6 DEF PeerInv

-----------------------------------------------------------------------------
(* What a child promises the others: it changes no file but one of its own *)
(* or one that was not there, and has no other file than the one it names. *)
Touches(d, r) ==
  /\ disk' \in [Names -> File]
  /\ \A n \in Names : \/ disk'[n] = disk[n]
                      \/ /\ ~disk[n].on \/ disk[n].owner = d
                         /\ disk'[n].on => disk'[n].owner = d
  /\ \A n \in Names : disk'[n].on /\ disk'[n].owner = d => r.name = n /\ r.pc \in Kept
ChildTurn(d, r) ==
  /\ Set(d, r) /\ ChildOK(d, r, disk') /\ Touches(d, r)
  /\ down[d].pc \in Saved => r.pc \in Saved /\ r.name = down[d].name /\ disk' = disk
ChildStep(d, r) == down[d].pc # "none" /\ ChildTurn(d, r)

(* Settled files stay settled, with the data they have. *)
SettledStays == \A f \in Files : Settled(f) => Settled(f)' /\ disk'[<<f, 0>>] = disk[<<f, 0>>]

LEMMA OwnedBy ==
  ASSUME FilesOK, NEW d \in Downs, NEW n \in Names, disk[n].on, disk[n].owner = d
  PROVE  n \notin DOMAIN InitDisk /\ down[d].name = n /\ down[d].pc \in Kept
<1>1. d # 0
  BY DEF Downs
<1> QED
  BY <1>1 DEF FilesOK, OwnFilesOnly, Kept

LEMMA ChildFrame ==
  ASSUME NEW e, NEW r, NEW dk, NEW dk2, ChildOK(e, r, dk), r.pc \in Kept => dk2[r.name] = dk[r.name]
  PROVE  ChildOK(e, r, dk2)
BY DEF ChildOK, Kept

LEMMA FilesStep ==
  ASSUME LoadOK, MainOK, FilesOK, NEW d \in Downs, NEW r, ChildTurn(d, r),
         UNCHANGED load, main'.arg \in Nat, main'.arg >= main.arg, d < main'.arg
  PROVE  FilesOK' /\ SettledStays
<1>1. Downs' = Downs /\ d # 0 /\ r \in Task
  BY DEF Downs, ChildTurn, ChildOK
<1>2. down' = [down EXCEPT ![d] = r] /\ down'[d] = r /\ \A e \in Downs : e # d => down'[e] = down[e]
  BY DEF FilesOK, ChildTurn, Set
<1>3. down' \in [Downs' -> Task] /\ disk' \in [Names -> File]
  BY <1>1, <1>2 DEF FilesOK, ChildTurn, Touches
<1>4. ASSUME NEW e \in Downs, e # d, down[e].pc \in Kept
      PROVE  down[e].name \in Names /\ disk'[down[e].name] = disk[down[e].name]
  <2>1. down[e].name \in Names /\ disk[down[e].name].on /\ disk[down[e].name].owner = e
    BY <1>4 DEF FilesOK, ChildOK
  <2> QED
    BY <2>1, <1>4 DEF ChildTurn, Touches
<1>5. ASSUME NEW e \in Downs PROVE ChildOK(e, down'[e], disk')
  <2>1. CASE e = d
    BY <1>2, <2>1 DEF ChildTurn
  <2>2. CASE e # d
    <3>1. ChildOK(e, down[e], disk)
      BY DEF FilesOK
    <3>2. ChildOK(e, down[e], disk')
      BY <3>1, <1>4, <2>2, ChildFrame
    <3> QED
      BY <1>2, <2>2, <3>2
  <2> QED
    BY <2>1, <2>2
<1>6. ASSUME NEW e \in Downs, e >= main'.arg PROVE down'[e].pc = "none"
  <2>1. e # d /\ e >= main.arg
    BY <1>6 DEF Downs, MainOK, LoadOK
  <2> QED
    BY <1>2, <2>1 DEF FilesOK
<1>7. ASSUME NEW n \in Names, n \in DOMAIN InitDisk PROVE disk'[n] = disk[n] /\ disk[n].on /\ disk[n].owner = 0
  BY <1>1, <1>7 DEF FilesOK, OwnFilesOnly, ChildTurn, Touches
<1>8. ASSUME NEW n \in Names, disk'[n].on, n \notin DOMAIN InitDisk
      PROVE  disk'[n].owner \in Downs /\ down'[disk'[n].owner].name = n /\ down'[disk'[n].owner].pc \in Kept
  <2>1. CASE disk'[n].owner = d
    BY <1>2, <1>8, <2>1 DEF ChildTurn, Touches
  <2>2. CASE disk'[n].owner # d
    <3>1. disk'[n] = disk[n]
      BY <1>8, <2>2 DEF ChildTurn, Touches
    <3>2. disk[n].owner \in Downs /\ down[disk[n].owner].name = n /\ down[disk[n].owner].pc \in Kept
      BY <1>8, <3>1 DEF FilesOK, OwnFilesOnly, Kept
    <3> QED
      BY <1>2, <2>2, <3>1, <3>2
  <2> QED
    BY <2>1, <2>2
<1>9. OwnFilesOnly'
  BY <1>1, <1>7, <1>8 DEF OwnFilesOnly, Kept, Saved
<1>10. FilesOK'
  BY <1>1, <1>3, <1>5, <1>6, <1>9 DEF FilesOK
<1>11. ASSUME NEW f \in Files, Settled(f) PROVE Settled(f)' /\ disk'[<<f, 0>>] = disk[<<f, 0>>]
  <2>1. CASE <<f, 0>> \in DOMAIN InitDisk
    BY <2>1, <1>7, NamesOf DEF Settled
  <2>2. CASE \E e \in Downs : down[e].pc \in Saved /\ down[e].name = <<f, 0>>
    <3>1. PICK e \in Downs : down[e].pc \in Saved /\ down[e].name = <<f, 0>>
      BY <2>2
    <3>2. down'[e].pc \in Saved /\ down'[e].name = <<f, 0>>
      BY <1>2, <3>1 DEF ChildTurn
    <3>3. disk'[<<f, 0>>] = disk[<<f, 0>>]
      BY <1>4, <3>1 DEF ChildTurn, Kept
    <3> QED
      BY <1>1, <3>1, <3>2, <3>3 DEF Settled
  <2> QED
    BY <2>1, <2>2, <1>11 DEF Settled
<1> QED
  BY <1>10, <1>11 DEF SettledStays

LEMMA UpsFrame ==
  ASSUME LoadOK, UpsOK, SettledStays, UNCHANGED <<load, up>>
  PROVE  UpsOK'
<1>1. Ups' = Ups
  BY DEF Ups
<1>2. ASSUME NEW u \in Ups PROVE UpOK(up[u], disk)'
  <2> DEFINE r == up[u]
  <2>1. UpOK(r, disk)
    BY DEF UpsOK
  <2>2. CASE r.name = NoName
    BY <2>1, <2>2 DEF UpOK
  <2>3. CASE r.name # NoName
    <3>1. PICK f \in Files : r.name = <<f, 0>> /\ Settled(f)
      BY <2>1, <2>3 DEF UpOK
    <3>2. Settled(f)' /\ disk'[r.name] = disk[r.name]
      BY <3>1 DEF SettledStays
    <3> QED
      BY <2>1, <3>1, <3>2 DEF UpOK
  <2> QED
    BY <2>2, <2>3
<1> QED
  BY <1>1, <1>2 DEF UpsOK

(* Steps of a child that leave the directory alone. *)
LEMMA QuietStep ==
  ASSUME FilesOK, NEW d \in Downs, NEW r, down[d].pc # "none", Set(d, r), UNCHANGED disk,
         ChildOK(d, r, disk),
         down[d].pc \in Kept => r.pc \in Kept /\ r.name = down[d].name,
         down[d].pc \in Saved => r.pc \in Saved
  PROVE  ChildStep(d, r)
<1>1. Touches(d, r)
  BY OwnedBy DEF Touches, FilesOK
<1> QED
  BY <1>1 DEF ChildStep, ChildTurn, Kept

LEMMA FreshOK ==
  ASSUME NEW r \in Task, NEW pc \in {"start", "failed"}, r.file \in Files, NEW d, NEW dk
  PROVE  /\ Fresh(r, pc) \in Task /\ Fresh(r, pc).pc = pc /\ Fresh(r, pc).name = NoName
         /\ Fresh(r, pc).peers = r.peers /\ ChildOK(d, Fresh(r, pc), dk)
<1> DEFINE q == Fresh(r, pc)
<1>1. r.file \in Files \cup {""} /\ r.peers \in Seq(Peers)
  BY DEF Task
<1>2. q \in Task
  BY <1>1, NoTaskOK DEF Fresh, Task
<1>3. /\ q.pc = pc /\ q.file = r.file /\ q.name = NoName /\ q.t = EmptyBuf /\ q.got = 0 /\ q.total = 0
      /\ q.peers = r.peers
  BY DEF Fresh, NoTask
<1> QED
  BY <1>2, <1>3 DEF ChildOK, Kept, Saved

LEMMA PopOK ==
  ASSUME NEW r \in Task, r.file \in Files, NEW d, NEW dk
  PROVE  task_pop_peer(r).pc = "start" /\ task_pop_peer(r).name = NoName /\ ChildOK(d, task_pop_peer(r), dk)
<1> DEFINE f == Fresh(r, "start")  q == task_pop_peer(r)  ps == IF r.peers = <<>> THEN <<>> ELSE Tail(r.peers)
<1>1. f \in Task /\ f.pc = "start" /\ f.name = NoName /\ ChildOK(d, f, dk)
  BY FreshOK
<1>2. ps \in Seq(Peers)
  <2>1. r.peers \in Seq(Peers)
    BY DEF Task
  <2> QED
    BY <2>1, EmptySeq, HeadTailProperties
<1>3. q = [f EXCEPT !.peers = ps]
  BY DEF task_pop_peer
<1> HIDE DEF f, ps, q
<1>4. /\ q \in Task /\ q.pc = f.pc /\ q.name = f.name /\ q.file = f.file /\ q.t = f.t
      /\ q.got = f.got /\ q.total = f.total
  BY <1>1, <1>2, <1>3 DEF Task
<1> QED
  BY <1>1, <1>4 DEF ChildOK, Kept, Saved, q

(* Giving up a peer removes only a file of this download, or none. *)
LEMMA TryAgainStep ==
  ASSUME FilesOK, NEW d \in Downs, NEW r \in Task, TryAgain(d, r),
         r.name = down[d].name, r.file \in Files, down[d].pc \in {"start", "open", "transfer"},
         \/ r.name = NoName
         \/ r.name \in Names /\ (~disk[r.name].on \/ disk[r.name].owner = d)
  PROVE  ChildStep(d, task_pop_peer(r)) /\ UNCHANGED <<load, main, up, requests, replies, known>>
<1> DEFINE q == task_pop_peer(r)  n0 == r.name
<1>1. q.pc = "start" /\ ChildOK(d, q, disk')
  BY PopOK
<1>2. disk \in [Names -> File]
  BY DEF FilesOK
<1>3. Touches(d, q)
  <2>1. CASE n0 = NoName
    <3>1. disk' = disk
      BY <2>1 DEF TryAgain
    <3>2. \A n \in Names : ~(disk[n].on /\ disk[n].owner = d)
      <4>1. \A n \in Names : n # NoName
        BY NoNameIsNone
      <4> QED
        BY <2>1, <4>1, OwnedBy
    <3> QED
      BY <1>2, <3>1, <3>2 DEF Touches
  <2>2. CASE n0 \in Names
    <3> DEFINE off == [on |-> FALSE, owner |-> 0, data |-> <<>>]
    <3>1. n0 # NoName
      BY <2>2, NoNameIsNone
    <3>2. disk' = [disk EXCEPT ![n0] = off]
      BY <3>1 DEF TryAgain, unlinked
    <3>3. off \in File /\ off.on = FALSE
      BY EmptySeq DEF File
    <3> HIDE DEF off
    <3>4. disk' \in [Names -> File] /\ disk'[n0] = off /\ \A n \in Names : n # n0 => disk'[n] = disk[n]
      BY <1>2, <2>2, <3>2, <3>3
    <3>5. ~disk[n0].on \/ disk[n0].owner = d
      BY <3>1
    <3>6. \A n \in Names : ~(disk'[n].on /\ disk'[n].owner = d)
      BY <3>3, <3>4, OwnedBy
    <3> QED
      BY <3>3, <3>4, <3>5, <3>6 DEF Touches
  <2> QED
    BY <2>1, <2>2
<1>4. down[d].pc \notin Saved /\ down[d].pc # "none"
  BY DEF Saved
<1> QED
  BY <1>1, <1>3, <1>4 DEF ChildStep, ChildTurn, TryAgain

-----------------------------------------------------------------------------
(* The steps of task_download, one by one. *)
Moves(d) == (\E r : ChildStep(d, r)) /\ UNCHANGED <<load, main, up>>

LEMMA ConnectMoves ==
  ASSUME FilesOK, NEW d \in Downs, Connect(d)
  PROVE  Moves(d) /\ UNCHANGED <<requests, replies, known>>
<1> DEFINE r == down[d]
<1>1. r \in Task /\ ChildOK(d, r, disk) /\ r.pc = "start"
  BY DEF FilesOK, Connect
<1>2. r.file \in Files /\ r.name = NoName /\ r.t = EmptyBuf /\ r.got = 0 /\ r.total = 0
  BY <1>1 DEF ChildOK
<1>3. r.pc \notin Kept /\ r.pc \notin Saved
  BY <1>1 DEF Kept, Saved
<1>4. CASE r.peers = <<>> /\ Only(d, Fresh(r, "failed"))
  <2>1. ChildOK(d, Fresh(r, "failed"), disk)
    BY <1>1, <1>2, FreshOK
  <2>2. ChildStep(d, Fresh(r, "failed"))
    BY <1>1, <1>3, <1>4, <2>1, QuietStep DEF Only
  <2> QED
    BY <1>4, <2>2 DEF Only, Moves
<1>5. CASE r.peers # <<>> /\ TryAgain(d, r)
  <2>1. ChildStep(d, task_pop_peer(r)) /\ UNCHANGED <<load, main, up, requests, replies, known>>
    BY <1>1, <1>2, <1>5, TryAgainStep
  <2> QED
    BY <2>1 DEF Moves
<1>6. ASSUME r.peers # <<>>, Head(r.peers) # Self, NEW n \in 0..Sends[Head(r.peers)],
             Only(d, [r EXCEPT !.pc = "open", !.len = n, !.name = <<r.file, 0>>])
      PROVE  Moves(d) /\ UNCHANGED <<requests, replies, known>>
  <2> DEFINE q == [r EXCEPT !.pc = "open", !.len = n, !.name = <<r.file, 0>>]
  <2>1. n \in Nat
    <3>1. r.peers \in Seq(Peers)
      BY <1>1 DEF Task
    <3>2. Head(r.peers) \in Peers
      BY <3>1, <1>6, HeadTailProperties
    <3>3. Head(r.peers) \in DOMAIN Sends
      BY <3>2, <1>6 DEF Peers
    <3>4. Sends[Head(r.peers)] \in Nat
      BY <3>3, InputAssumption
    <3> QED
      BY <3>4
  <2>2. <<r.file, 0>> \in Names /\ <<r.file, 0>>[1] = r.file
    BY <1>2, NamesOf
  <2>3. /\ q \in Task /\ q.pc = "open" /\ q.name = <<r.file, 0>> /\ q.file = r.file
        /\ q.t = r.t /\ q.got = r.got /\ q.total = r.total
    BY <1>1, <2>1, <2>2 DEF Task
  <2> HIDE DEF q
  <2>4. ChildOK(d, q, disk)
    BY <1>2, <2>2, <2>3 DEF ChildOK, Kept, Saved
  <2>5. Set(d, q) /\ UNCHANGED <<load, main, up, disk, requests, replies, known>>
    BY <1>6 DEF Only, q
  <2>6. ChildStep(d, q)
    BY <1>1, <1>3, <2>4, <2>5, QuietStep
  <2> QED
    BY <2>5, <2>6 DEF Moves
<1> QED
  BY <1>4, <1>5, <1>6 DEF Connect

LEMMA NextName ==
  ASSUME NEW n \in Names, n[2] + 1 < MaxNames
  PROVE  [n EXCEPT ![2] = @ + 1] \in Names /\ [n EXCEPT ![2] = @ + 1][1] = n[1]
<1>1. MaxNames \in Nat \ {0}
  BY SizeAssumption
<1> QED
  BY <1>1 DEF Names

LEMMA OpenDiskMoves ==
  ASSUME ~DescriptorsRunOut, FilesOK, NEW d \in Downs, OpenDisk(d)
  PROVE  Moves(d) /\ UNCHANGED <<requests, replies, known>>
<1> DEFINE r == down[d]  n == r.name
<1>1. r \in Task /\ ChildOK(d, r, disk) /\ r.pc = "open" /\ disk \in [Names -> File]
  BY DEF FilesOK, OpenDisk
<1>2. r.file \in Files /\ n \in Names /\ n[1] = r.file /\ r.t = EmptyBuf /\ r.got = 0 /\ r.total = 0
  BY <1>1 DEF ChildOK
<1>3. r.pc \notin Kept /\ r.pc \notin Saved
  BY <1>1 DEF Kept, Saved
<1>4. CASE /\ ~disk[n].on
           /\ disk' = [disk EXCEPT ![n] = [on |-> TRUE, owner |-> d, data |-> <<>>]]
           /\ Set(d, [r EXCEPT !.pc = "transfer", !.samples = [i \in 1..MAX_SAMPLES |-> 8 * MIN_RATE]])
           /\ UNCHANGED <<load, main, up, requests, replies, known>>
  <2> DEFINE new == [on |-> TRUE, owner |-> d, data |-> <<>>]
             sm == [i \in 1..MAX_SAMPLES |-> 8 * MIN_RATE]
             q == [r EXCEPT !.pc = "transfer", !.samples = sm]
  <2>1. new \in File /\ new.on /\ new.owner = d /\ new.data = <<>>
    BY EmptySeq DEF File, Downs
  <2>2. sm \in Seq(Nat) /\ sm # <<>>
    <3>1. MAX_SAMPLES \in Nat \ {0} /\ MIN_RATE \in Nat
      BY SizeAssumption
    <3>2. 8 * MIN_RATE \in Nat
      BY <3>1
    <3>3. sm \in Seq(Nat) /\ Len(sm) = MAX_SAMPLES
      BY <3>1, <3>2
    <3> QED
      BY <3>1, <3>3, EmptySeq
  <2> HIDE DEF new, sm
  <2>3. /\ q \in Task /\ q.pc = "transfer" /\ q.name = n /\ q.file = r.file /\ q.samples = sm
        /\ q.t = r.t /\ q.got = r.got /\ q.total = r.total /\ q.len \in Nat
    BY <1>1, <2>2 DEF Task, Kept
  <2>4. Set(d, q)
    BY <1>4 DEF sm
  <2> HIDE DEF q
  <2>5. disk' \in [Names -> File] /\ disk'[n] = new /\ \A m \in Names : m # n => disk'[m] = disk[m]
    BY <1>1, <1>2, <1>4, <2>1 DEF new
  <2>6. ChildOK(d, q, disk')
    <3>1. Ring(q.t, Units(q.len)) /\ q.got = q.t.tail /\ q.total = q.t.head
      <4>1. Ring(EmptyBuf, Units(q.len))
        BY <2>3, EmptyRing, UnitsSeq
      <4>2. EmptyBuf.head = 0 /\ EmptyBuf.tail = 0
        BY DEF EmptyBuf
      <4> QED
        BY <1>2, <2>3, <4>1, <4>2
    <3>2. Units(q.total) = <<>>
      BY <1>2, <2>3 DEF Units
    <3>3. q.pc \in Kept /\ q.pc \notin Saved
      BY <2>3 DEF Kept, Saved
    <3> QED
      BY <1>2, <2>1, <2>2, <2>3, <2>5, <3>1, <3>2, <3>3 DEF ChildOK
  <2>7. \A m \in Names : disk'[m].on /\ disk'[m].owner = d => m = n
    BY <1>3, <2>5, OwnedBy
  <2>8. Touches(d, q)
    BY <1>4, <2>1, <2>3, <2>5, <2>7 DEF Touches, Kept
  <2>9. ChildStep(d, q)
    BY <1>1, <1>3, <2>4, <2>6, <2>8 DEF ChildStep, ChildTurn
  <2> QED
    BY <1>4, <2>9 DEF Moves
<1>5. CASE disk[n].on /\ n[2] + 1 < MaxNames /\ Only(d, [r EXCEPT !.name[2] = @ + 1])
  <2> DEFINE n2 == [n EXCEPT ![2] = @ + 1]  q == [r EXCEPT !.name = n2]
  <2>1. n2 \in Names /\ n2[1] = n[1]
    BY <1>2, <1>5, NextName
  <2>2. Only(d, q)
    BY <1>5
  <2> HIDE DEF n2
  <2>3. /\ q \in Task /\ q.pc = "open" /\ q.name = n2 /\ q.file = r.file
        /\ q.t = r.t /\ q.got = r.got /\ q.total = r.total
    BY <1>1, <2>1 DEF Task
  <2> HIDE DEF q
  <2>4. ChildOK(d, q, disk)
    BY <1>2, <2>1, <2>3 DEF ChildOK, Kept, Saved
  <2>5. ChildStep(d, q)
    BY <1>1, <1>3, <2>2, <2>4, QuietStep DEF Only
  <2> QED
    BY <2>2, <2>5 DEF Moves, Only
<1>6. CASE disk[n].on /\ Only(d, Fresh(r, "failed"))
  <2>1. ChildOK(d, Fresh(r, "failed"), disk)
    BY <1>1, <1>2, FreshOK
  <2>2. ChildStep(d, Fresh(r, "failed"))
    BY <1>1, <1>3, <1>6, <2>1, QuietStep DEF Only
  <2> QED
    BY <1>6, <2>2 DEF Only, Moves
<1>7. CASE ~disk[n].on /\ TryAgain(d, r)
  <2>1. ChildStep(d, task_pop_peer(r)) /\ UNCHANGED <<load, main, up, requests, replies, known>>
    BY <1>1, <1>2, <1>7, TryAgainStep
  <2> QED
    BY <2>1 DEF Moves
<1> QED
  BY <1>4, <1>5, <1>6, <1>7 DEF OpenDisk

(* A read leaves the file alone and fills the buffer with what comes next. *)
LEMMA ReadOK ==
  ASSUME FilesOK, NEW d \in Downs, down[d].pc = "transfer",
         NEW k \in Nat, k <= room(down[d].t), k <= down[d].len - down[d].got
  PROVE  LET r == down[d]
             q == sampled([r EXCEPT !.t = read_to_taskbuf(r.t, Units(r.len), r.got, k), !.got = @ + k], k)
         IN ChildOK(d, q, disk) /\ q.pc = "transfer" /\ q.name = r.name
<1> DEFINE r == down[d]  t2 == read_to_taskbuf(r.t, Units(r.len), r.got, k)
           a == [r EXCEPT !.t = t2, !.got = @ + k]  q == sampled(a, k)
<1>1. r \in Task /\ ChildOK(d, r, disk)
  BY DEF FilesOK
<1>2. /\ r.file \in Files /\ r.name \in Names /\ r.name[1] = r.file /\ disk[r.name].on /\ disk[r.name].owner = d
      /\ Ring(r.t, Units(r.len)) /\ r.got = r.t.tail /\ r.total = r.t.head
      /\ disk[r.name].data = Units(r.total) /\ r.samples # <<>>
  BY <1>1 DEF ChildOK, Kept
<1>3. r.len \in Nat /\ r.got \in Nat /\ r.got + k \in Nat /\ r.got + k <= r.len
  <2>1. r.len \in Nat /\ r.got \in Nat
    BY <1>1 DEF Task
  <2> QED
    BY <2>1
<1>4. Ring(t2, Units(r.len)) /\ t2.head = r.t.head /\ t2.tail = r.t.tail + k
  <2> DEFINE src == Units(r.len)
  <2>1. src \in Seq(Nat) /\ Len(src) = r.len
    BY <1>3, UnitsSeq
  <2>2. r.t.tail + k <= Len(src)
    BY <1>2, <1>3, <2>1
  <2>3. Ring(r.t, src) /\ t2 = read_to_taskbuf(r.t, src, r.t.tail, k)
    BY <1>2
  <2> HIDE DEF src, t2
  <2>4. Ring(t2, src) /\ t2.head = r.t.head /\ t2.tail = r.t.tail + k
    BY <2>1, <2>2, <2>3, RingRead
  <2> QED
    BY <2>4 DEF src
<1>5. t2 \in Buffer
  BY <1>4 DEF Ring, Window
<1> HIDE DEF t2
<1>6. /\ a \in Task /\ a.pc = "transfer" /\ a.name = r.name /\ a.file = r.file /\ a.len = r.len /\ a.t = t2
      /\ a.got = r.got + k /\ a.total = r.total /\ a.samples = r.samples
  BY <1>1, <1>3, <1>5 DEF Task
<1> HIDE DEF a
<1>7. Append(Tail(a.samples), k) \in Seq(Nat) /\ Append(Tail(a.samples), k) # <<>>
  <2>1. a.samples \in Seq(Nat) /\ a.samples # <<>>
    BY <1>2, <1>6 DEF Task
  <2>2. Tail(a.samples) \in Seq(Nat)
    BY <2>1, HeadTailProperties
  <2> QED
    BY <2>2, AppendProperties
<1>8. q = [a EXCEPT !.samples = Append(Tail(a.samples), k)]
  BY DEF sampled
<1> HIDE DEF q
<1>9. /\ q \in Task /\ q.pc = "transfer" /\ q.name = r.name /\ q.file = r.file /\ q.len = r.len /\ q.t = t2
      /\ q.got = r.got + k /\ q.total = r.total /\ q.samples # <<>>
  BY <1>6, <1>7, <1>8 DEF Task
<1>10. ChildOK(d, q, disk)
  BY <1>2, <1>4, <1>9 DEF ChildOK, Kept, Saved
<1> QED
  BY <1>9, <1>10 DEF q, a, t2

(* The write puts at the end of the file what comes after it. *)
LEMMA SaveMoves ==
  ASSUME FilesOK, NEW d \in Downs, down[d].pc = "transfer", NEW r, NEW k, Save(d, r, k),
         ChildOK(d, r, disk), r.pc = "transfer", r.name = down[d].name
  PROVE  Moves(d) /\ UNCHANGED <<requests, replies, known>>
<1>1. /\ r \in Task /\ r.file \in Files /\ r.name \in Names /\ r.name[1] = r.file /\ disk[r.name].on /\ disk[r.name].owner = d
      /\ Ring(r.t, Units(r.len)) /\ r.got = r.t.tail /\ r.total = r.t.head
      /\ disk[r.name].data = Units(r.total) /\ r.samples # <<>> /\ disk \in [Names -> File]
  BY DEF ChildOK, Kept, FilesOK
<1>2. CASE TryAgain(d, r)
  <2>1. ChildStep(d, task_pop_peer(r)) /\ UNCHANGED <<load, main, up, requests, replies, known>>
    BY <1>1, <1>2, TryAgainStep
  <2> QED
    BY <2>1 DEF Moves
<1>3. ASSUME NEW j \in 1..ready(r.t),
             LET w == write_from_taskbuf(r.t, j)
             IN /\ Set(d, [r EXCEPT !.t = w.t, !.total = @ + j])
                /\ disk' = IF disk[r.name].owner # d THEN disk ELSE [disk EXCEPT ![r.name].data = @ \o w.out],
             UNCHANGED <<load, main, up, requests, replies, known>>
      PROVE  Moves(d) /\ UNCHANGED <<requests, replies, known>>
  <2> DEFINE w == write_from_taskbuf(r.t, j)  src == Units(r.len)  q == [r EXCEPT !.t = w.t, !.total = @ + j]
             n == r.name  f2 == [disk[n] EXCEPT !.data = @ \o w.out]
  <2>1. r.len \in Nat /\ r.total \in Nat /\ r.t.tail \in Nat
    BY <1>1 DEF Task, Buffer
  <2>2. src \in Seq(Nat) /\ Len(src) = r.len
    BY <2>1, UnitsSeq
  <2>3. j \in 0..ready(r.t) /\ j \in Nat
    <3>1. ready(r.t) \in Nat
      BY <1>1, Fits DEF Ring
    <3> QED
      BY <3>1
  <2>4. /\ Ring(w.t, src) /\ w.t.head = r.t.head + j /\ w.t.tail = r.t.tail /\ r.t.head + j <= r.t.tail
        /\ w.out = [i \in 1..j |-> src[r.t.head + i]]
    BY <1>1, <2>2, <2>3, RingWrite
  <2>5. r.total + j <= r.len /\ r.total + j \in Nat /\ w.out = [i \in 1..j |-> src[r.total + i]]
    <3>1. r.t.tail <= Len(src)
      BY <1>1 DEF Ring
    <3> QED
      BY <1>1, <2>1, <2>2, <2>3, <2>4, <3>1
  <2>6. Units(r.total) \o w.out = Units(r.total + j)
    <3>1. \A i \in 1..r.len : src[i] = i
      BY <2>1, UnitsSeq
    <3> HIDE DEF src
    <3>2. Units(r.total) = [i \in 1..r.total |-> src[i]]
      BY <2>1, <2>3, <2>5, <3>1 DEF Units
    <3>3. Units(r.total + j) = [i \in 1..(r.total + j) |-> src[i]]
      BY <2>1, <2>3, <2>5, <3>1 DEF Units
    <3>4. [i \in 1..r.total |-> src[i]] \o [i \in 1..j |-> src[r.total + i]] = [i \in 1..(r.total + j) |-> src[i]]
      <4>1. src \in Seq(Nat) /\ r.total \in Nat /\ j \in Nat /\ r.total + j <= Len(src)
        BY <2>1, <2>2, <2>3, <2>5
      <4> QED
        BY <4>1, Extend, Zenon
    <3> QED
      BY <2>5, <3>2, <3>3, <3>4
  <2>7. f2 \in File /\ f2.on /\ f2.owner = d /\ f2.data = Units(r.total + j)
    <3>1. Units(r.total + j) \in Seq(Nat)
      BY <2>5, UnitsSeq
    <3>2. disk[n] \in File
      BY <1>1
    <3>3. f2 = [disk[n] EXCEPT !.data = Units(r.total + j)]
      BY <1>1, <2>6
    <3> HIDE DEF f2, w
    <3> QED
      BY <1>1, <3>1, <3>2, <3>3 DEF File
  <2>8. disk' = [disk EXCEPT ![n] = f2]
    BY <1>1, <1>3
  <2>9. Set(d, q)
    BY <1>3
  <2> HIDE DEF w, f2, src
  <2>10. disk' \in [Names -> File] /\ disk'[n] = f2 /\ \A m \in Names : m # n => disk'[m] = disk[m]
    BY <1>1, <2>7, <2>8
  <2>11. w.t \in Buffer
    BY <2>4 DEF Ring, Window
  <2>12. /\ q \in Task /\ q.pc = "transfer" /\ q.name = n /\ q.file = r.file /\ q.len = r.len /\ q.t = w.t
         /\ q.got = r.got /\ q.total = r.total + j /\ q.samples = r.samples
    BY <1>1, <2>5, <2>11 DEF Task
  <2> HIDE DEF q
  <2>13. ChildOK(d, q, disk')
    <3>1. Ring(q.t, Units(q.len)) /\ q.got = q.t.tail /\ q.total = q.t.head
      BY <1>1, <2>4, <2>12 DEF src
    <3> QED
      BY <1>1, <2>7, <2>10, <2>12, <3>1 DEF ChildOK, Kept, Saved
  <2>14. \A m \in Names : disk'[m].on /\ disk'[m].owner = d => m = n
    BY <2>10, OwnedBy
  <2>15. Touches(d, q)
    BY <1>1, <2>7, <2>10, <2>12, <2>14 DEF Touches, Kept
  <2>16. ChildStep(d, q)
    BY <2>9, <2>13, <2>15 DEF ChildStep, ChildTurn, Saved
  <2> QED
    BY <1>3, <2>16 DEF Moves
<1> QED
  BY <1>2, <1>3 DEF Save

LEMMA TransferMoves ==
  ASSUME FilesOK, NEW d \in Downs, Transfer(d)
  PROVE  Moves(d) /\ UNCHANGED <<requests, replies, known>>
<1> DEFINE r == down[d]  left == r.len - r.got
<1>1. r \in Task /\ ChildOK(d, r, disk) /\ r.pc = "transfer"
  BY DEF FilesOK, Transfer
<1>2. /\ r.file \in Files /\ r.name \in Names /\ r.name[1] = r.file /\ disk[r.name].on /\ disk[r.name].owner = d
      /\ Ring(r.t, Units(r.len)) /\ r.got = r.t.tail /\ r.total = r.t.head
      /\ disk[r.name].data = Units(r.total) /\ r.samples # <<>>
  BY <1>1 DEF ChildOK, Kept
<1>3. r.len \in Nat /\ r.got \in Nat /\ r.t.head \in Nat /\ r.t.tail \in Nat /\ r.t.tail <= r.len
  <2>1. r.len \in Nat /\ r.got \in Nat /\ r.t.head \in Nat /\ r.t.tail \in Nat
    BY <1>1 DEF Task, Buffer
  <2> QED
    BY <2>1, <1>2, UnitsSeq DEF Ring
<1>4. room(r.t) \in Nat
  BY <1>2, Fits DEF Ring
<1>5. CASE TryAgain(d, r)
  <2>1. ChildStep(d, task_pop_peer(r)) /\ UNCHANGED <<load, main, up, requests, replies, known>>
    BY <1>1, <1>2, <1>5, TryAgainStep
  <2> QED
    BY <2>1 DEF Moves
<1>6. ASSUME NEW k \in 1..(Least(room(r.t), left)),
             Save(d, sampled([r EXCEPT !.t = read_to_taskbuf(r.t, Units(r.len), r.got, k), !.got = @ + k], k), k)
      PROVE  Moves(d) /\ UNCHANGED <<requests, replies, known>>
  <2> DEFINE q == sampled([r EXCEPT !.t = read_to_taskbuf(r.t, Units(r.len), r.got, k), !.got = @ + k], k)
  <2>1. k \in Nat /\ k <= room(r.t) /\ k <= left
    BY <1>3, <1>4 DEF Least
  <2>2. ChildOK(d, q, disk) /\ q.pc = "transfer" /\ q.name = r.name
    BY <1>1, <2>1, ReadOK
  <2> QED
    BY <1>1, <1>6, <2>2, SaveMoves
<1>7. CASE Save(d, sampled(r, 0), 0)
  <2> DEFINE q == sampled(r, 0)  sm == Append(Tail(r.samples), 0)
  <2>1. sm \in Seq(Nat) /\ sm # <<>>
    <3>1. r.samples \in Seq(Nat)
      BY <1>1 DEF Task
    <3>2. Tail(r.samples) \in Seq(Nat)
      BY <1>2, <3>1, HeadTailProperties
    <3>3. 0 \in Nat
      OBVIOUS
    <3> QED
      BY <3>2, <3>3, AppendProperties, Zenon
  <2>2. q = [r EXCEPT !.samples = sm]
    BY DEF sampled
  <2> HIDE DEF q, sm
  <2>3. /\ q \in Task /\ q.pc = "transfer" /\ q.name = r.name /\ q.file = r.file /\ q.len = r.len /\ q.t = r.t
        /\ q.got = r.got /\ q.total = r.total /\ q.samples # <<>>
    BY <1>1, <2>1, <2>2 DEF Task
  <2>4. ChildOK(d, q, disk)
    BY <1>2, <2>3 DEF ChildOK, Kept, Saved
  <2>5. Save(d, q, 0)
    BY <1>7 DEF q
  <2> QED
    BY <1>1, <2>3, <2>4, <2>5, SaveMoves
<1>8. CASE Ended(r.t, left) /\ r.total # 0 /\ Only(d, [r EXCEPT !.pc = "got"])
  <2> DEFINE q == [r EXCEPT !.pc = "got"]
  <2>1. q \in Task /\ q.pc = "got" /\ q.name = r.name /\ q.file = r.file /\ q.len = r.len
    BY <1>1 DEF Task, Kept, Saved
  <2>2. r.total = r.len /\ r.len > 0
    BY <1>2, <1>3, <1>8 DEF Ended
  <2>3. Only(d, q)
    BY <1>8
  <2> HIDE DEF q
  <2>4. q.pc \in Saved /\ q.pc \in Kept /\ r.pc \in Kept /\ r.pc \notin Saved
    BY <1>1, <2>1 DEF Saved, Kept
  <2>5. ChildOK(d, q, disk)
    BY <1>2, <2>1, <2>2, <2>4 DEF ChildOK
  <2>6. ChildStep(d, q)
    BY <1>1, <2>1, <2>3, <2>4, <2>5, QuietStep DEF Only
  <2> QED
    BY <2>3, <2>6 DEF Moves, Only
<1> QED
  BY <1>5, <1>6, <1>7, <1>8 DEF Transfer

-----------------------------------------------------------------------------
(* The connection to the tracker. *)
Req == [cmd : {"WANT", "HAVE"}, file : Files]

LEMMA HaveFrame ==
  ASSUME HaveOK, SettledStays, UNCHANGED known
  PROVE  /\ Whole \subseteq Whole'
         /\ \A i \in DOMAIN requests : requests[i].cmd = "HAVE" => requests[i].file \in Whole'
         /\ \A f \in Files : Self \in ToSet(known'[f]) => f \in Whole'
<1>1. Whole \subseteq Whole'
  BY DEF SettledStays, Whole
<1> QED
  BY <1>1 DEF HaveOK

LEMMA MovesFiles ==
  ASSUME PeerInv, NEW d \in Downs, Moves(d)
  PROVE  LoadOK' /\ MainOK' /\ FilesOK' /\ UpsOK' /\ SettledStays
<1>1. PICK r : ChildStep(d, r)
  BY DEF Moves
<1>2. FilesOK' /\ SettledStays
  <2>1. LoadOK /\ MainOK /\ FilesOK /\ UNCHANGED <<load, main>> /\ down[d].pc # "none" /\ ChildTurn(d, r)
    BY <1>1 DEF Moves, PeerInv, ChildStep
  <2>2. main.arg \in Nat /\ ~(d >= main.arg)
    BY <2>1 DEF MainOK, FilesOK
  <2>3. d \in Nat
    BY DEF Downs
  <2> QED
    BY <2>1, <2>2, <2>3, FilesStep
<1>3. UpsOK'
  BY <1>2, UpsFrame DEF Moves, PeerInv
<1>4. LoadOK' /\ MainOK'
  BY DEF Moves, PeerInv, LoadOK, MainOK
<1> QED
  BY <1>2, <1>3, <1>4

LEMMA QuietMoves ==
  ASSUME PeerInv, NEW d \in Downs, Moves(d), UNCHANGED <<requests, replies, known>>
  PROVE  PeerInv'
<1>1. LoadOK' /\ MainOK' /\ FilesOK' /\ UpsOK' /\ SettledStays
  BY MovesFiles
<1>2. NetOK'
  BY DEF PeerInv, NetOK
<1>3. HaveOK'
  BY <1>1, HaveFrame DEF PeerInv, HaveOK
<1> QED
  BY <1>1, <1>2, <1>3 DEF PeerInv

(* Whoever reads takes lines from the front. *)
LEMMA ReadLinesOK ==
  ASSUME NetOK, NEW k \in 1..Len(replies)
  PROVE  ReadLines(k) \in Seq(Line) /\ SubSeq(replies, k + 1, Len(replies)) \in Seq(Line)
<1>1. replies \in Seq(Line) /\ Len(replies) \in Nat
  BY LenProperties DEF NetOK
<1> QED
  BY <1>1 DEF ReadLines

LEMMA AnnounceStep ==
  ASSUME PeerInv, NEW d \in Downs, Announce(d)
  PROVE  PeerInv'
<1> DEFINE r == down[d]
<1>1. r \in Task /\ ChildOK(d, r, disk) /\ r.pc = "got" /\ FilesOK
  BY DEF PeerInv, FilesOK, Announce
<1>2. r.pc \in Saved /\ r.pc \in Kept
  BY <1>1 DEF Saved, Kept
<1>3. r.name \in Names /\ r.name[1] = r.file /\ r.file \in Files
  BY <1>1, <1>2 DEF ChildOK
<1>4. ASSUME NEW q, q \in Task, q.pc \in Saved, q.name = r.name, q.file = r.file, q.len = r.len, Set(d, q)
      PROVE  Moves(d)
  <2>1. q.pc \in Kept /\ q.pc \notin {"none", "start", "failed", "open", "transfer"}
    BY <1>4 DEF Kept, Saved
  <2>2. ChildOK(d, q, disk)
    BY <1>1, <1>2, <1>4, <2>1 DEF ChildOK
  <2>3. UNCHANGED <<load, main, up, disk>>
    BY DEF Announce
  <2>4. ChildStep(d, q)
    BY <1>1, <1>2, <1>4, <2>1, <2>2, <2>3, QuietStep
  <2> QED
    BY <2>3, <2>4 DEF Moves
<1>5. CASE HasOwnName(r)
  <2> DEFINE q == [r EXCEPT !.pc = "reply", !.lines = <<>>]  h == [cmd |-> "HAVE", file |-> r.file]
  <2>1. <<>> \in Seq(Line)
    BY EmptySeq
  <2>2. q \in Task /\ q.pc \in Saved /\ q.name = r.name /\ q.file = r.file /\ q.len = r.len
    BY <1>1, <2>1 DEF Task, Kept, Saved
  <2>3. Set(d, q) /\ requests' = Append(requests, h) /\ UNCHANGED <<load, replies, known>>
    BY <1>5 DEF Announce
  <2> HIDE DEF q
  <2>4. Moves(d)
    BY <1>4, <2>2, <2>3
  <2>5. LoadOK' /\ MainOK' /\ FilesOK' /\ UpsOK' /\ SettledStays
    BY <2>4, MovesFiles
  <2>6. h \in Req /\ h.file = r.file
    BY <1>3 DEF Req
  <2>7. r.file \in Whole'
    <3>1. down'[d] = q
      BY <1>1, <2>3 DEF Set, FilesOK
    <3>2. r.name = <<r.file, 0>>
      BY <1>3, <1>5 DEF HasOwnName, Names
    <3>3. Downs' = Downs
      BY <2>3 DEF Downs
    <3> QED
      BY <1>3, <2>2, <3>1, <3>2, <3>3 DEF Settled, Whole
  <2>8. requests \in Seq(Req)
    BY DEF PeerInv, NetOK, Req
  <2> HIDE DEF h
  <2>9. requests' \in Seq(Req)
    BY <2>3, <2>6, <2>8
  <2>10. NetOK'
    BY <2>3, <2>9 DEF PeerInv, NetOK, Req
  <2>11. HaveOK'
    <3>1. ASSUME NEW i \in DOMAIN requests', requests'[i].cmd = "HAVE" PROVE requests'[i].file \in Whole'
      <4>1. (i \in DOMAIN requests /\ requests'[i] = requests[i]) \/ requests'[i] = h
        BY <2>3, <2>6, <2>8
      <4> QED
        BY <2>3, <2>5, <2>6, <2>7, <3>1, <4>1, HaveFrame DEF PeerInv
    <3> QED
      BY <2>3, <2>5, <3>1, HaveFrame DEF PeerInv, HaveOK
  <2> QED
    BY <2>5, <2>10, <2>11 DEF PeerInv
<1>6. CASE ~HasOwnName(r)
  <2> DEFINE q == [r EXCEPT !.pc = "saved"]
  <2>1. q \in Task /\ q.pc \in Saved /\ q.name = r.name /\ q.file = r.file /\ q.len = r.len
    BY <1>1 DEF Task, Kept, Saved
  <2>2. Set(d, q) /\ UNCHANGED <<requests, replies, known>>
    BY <1>6 DEF Announce
  <2> HIDE DEF q
  <2>3. Moves(d)
    BY <1>4, <2>1, <2>2
  <2> QED
    BY <2>2, <2>3, QuietMoves
<1> QED
  BY <1>5, <1>6

LEMMA AnnouncedStep ==
  ASSUME PeerInv, NEW d \in Downs, Announced(d)
  PROVE  PeerInv'
<1> DEFINE r == down[d]
<1>1. r \in Task /\ ChildOK(d, r, disk) /\ r.pc = "reply" /\ FilesOK /\ NetOK
  BY DEF PeerInv, FilesOK, Announced
<1>2. PICK k \in 1..Len(replies) :
        /\ Set(d, [r EXCEPT !.lines = r.lines \o ReadLines(k), !.pc = IF Complete(r.lines \o ReadLines(k)) THEN "saved" ELSE @])
        /\ replies' = SubSeq(replies, k + 1, Len(replies))
  BY DEF Announced
<1> DEFINE ls == r.lines \o ReadLines(k)  pc == IF Complete(ls) THEN "saved" ELSE r.pc
           q == [r EXCEPT !.lines = ls, !.pc = pc]
<1>3. ls \in Seq(Line)
  <2>1. r.lines \in Seq(Line) /\ ReadLines(k) \in Seq(Line)
    BY <1>1, ReadLinesOK DEF Task
  <2> QED
    BY <2>1, ConcatProperties
<1>4. Set(d, q)
  BY <1>2
<1>5. pc \in Saved
  BY <1>1 DEF Saved
<1> HIDE DEF ls, pc
<1>6. q \in Task /\ q.pc \in Saved /\ q.name = r.name /\ q.file = r.file /\ q.len = r.len
  BY <1>1, <1>3, <1>5 DEF Task, Kept
<1> HIDE DEF q
<1>7. r.pc \in Saved /\ r.pc \in Kept
  BY <1>1 DEF Saved, Kept
<1>8. q.pc \in Kept /\ q.pc \notin {"none", "start", "failed", "open", "transfer"}
  BY <1>6 DEF Kept, Saved
<1>9. ChildOK(d, q, disk)
  BY <1>1, <1>6, <1>7, <1>8 DEF ChildOK
<1>10. UNCHANGED <<load, main, up, disk, requests, known>>
  BY DEF Announced
<1>11. ChildStep(d, q)
  BY <1>1, <1>4, <1>6, <1>7, <1>8, <1>9, <1>10, QuietStep
<1>12. LoadOK' /\ MainOK' /\ FilesOK' /\ UpsOK' /\ SettledStays
  BY <1>10, <1>11, MovesFiles DEF Moves
<1>13. NetOK'
  BY <1>1, <1>2, <1>10, ReadLinesOK DEF NetOK
<1>14. HaveOK'
  BY <1>10, <1>12, HaveFrame DEF PeerInv, HaveOK
<1> QED
  BY <1>12, <1>13, <1>14 DEF PeerInv

(* Steps that change neither the directory nor the downloads. *)
LEMMA FilesFrame ==
  ASSUME LoadOK, MainOK, FilesOK, UNCHANGED <<load, down, disk>>
  PROVE  SettledStays /\ (main'.arg \in Nat /\ main'.arg >= main.arg => FilesOK')
<1>1. Downs' = Downs
  BY DEF Downs
<1>2. SettledStays
  BY <1>1 DEF SettledStays, Settled
<1>3. OwnFilesOnly'
  BY <1>1 DEF FilesOK, OwnFilesOnly
<1>4. ASSUME main'.arg \in Nat, main'.arg >= main.arg, NEW d \in Downs, d >= main'.arg
      PROVE  down[d].pc = "none"
  <2>1. d >= main.arg
    BY <1>4 DEF MainOK, Downs
  <2> QED
    BY <2>1 DEF FilesOK
<1> QED
  BY <1>1, <1>2, <1>3, <1>4 DEF FilesOK

LEMMA TrackerStep ==
  ASSUME PeerInv, Tracker
  PROVE  PeerInv'
<1> DEFINE r == Head(requests)
<1>1. requests \in Seq(Req) /\ requests # <<>> /\ replies \in Seq(Line) /\ known \in [Files -> Seq(Peers)]
  BY DEF PeerInv, NetOK, Tracker, Req
<1>2. r \in Req /\ r = requests[1] /\ 1 \in DOMAIN requests
  BY <1>1
<1>3. /\ requests' = Tail(requests) /\ requests' \in Seq(Req)
      /\ \A i \in DOMAIN requests' : i + 1 \in DOMAIN requests /\ requests'[i] = requests[i + 1]
  BY <1>1 DEF Tracker
<1>4. r.file \in Files /\ r.cmd \in {"WANT", "HAVE"}
  BY <1>2 DEF Req
<1>5. UNCHANGED <<load, main, down, up, disk>>
  BY DEF Tracker
<1>6. LoadOK' /\ MainOK' /\ FilesOK' /\ SettledStays /\ UpsOK'
  <2>1. LoadOK' /\ MainOK'
    BY <1>5 DEF PeerInv, LoadOK, MainOK
  <2>2. FilesOK' /\ SettledStays
    BY <1>5, FilesFrame DEF PeerInv, MainOK
  <2> QED
    BY <1>5, <2>1, <2>2, UpsFrame DEF PeerInv
<1>7. OK \in Line /\ Error \in Line /\ Self \in Peers /\ Peers \subseteq Line
  BY DEF Line, Peers
<1>8. Whole' = Whole
  BY <1>5 DEF Whole, Settled, Downs
<1>9. \A i \in DOMAIN requests' : requests'[i].cmd = "HAVE" => requests'[i].file \in Whole'
  BY <1>3, <1>8 DEF PeerInv, HaveOK
<1>10. CASE r.cmd = "WANT"
  <2> DEFINE ls == IF known[r.file] = <<>> THEN <<Error>> ELSE Append(known[r.file], OK)
  <2>1. replies' = replies \o ls /\ known' = known
    BY <1>10 DEF Tracker
  <2>2. ls \in Seq(Line)
    <3>1. <<Error>> \in Seq(Line)
      BY <1>7
    <3>2. known[r.file] \in Seq(Line)
      BY <1>1, <1>4, <1>7, SeqMonotonic
    <3>3. Append(known[r.file], OK) \in Seq(Line)
      BY <1>7, <3>2, AppendProperties
    <3> QED
      BY <3>1, <3>3
  <2> HIDE DEF ls
  <2>3. replies' \in Seq(Line)
    BY <1>1, <2>1, <2>2, ConcatProperties
  <2>4. NetOK'
    BY <1>1, <1>3, <2>1, <2>3 DEF NetOK, Req
  <2>5. HaveOK'
    BY <1>8, <1>9, <2>1 DEF PeerInv, HaveOK
  <2> QED
    BY <1>6, <2>4, <2>5 DEF PeerInv
<1>11. CASE r.cmd # "WANT"
  <2> DEFINE ks == IF Self \in ToSet(known[r.file]) THEN known[r.file] ELSE Append(known[r.file], Self)
  <2>1. replies' = Append(replies, OK) /\ known' = [known EXCEPT ![r.file] = ks]
    BY <1>11 DEF Tracker
  <2>2. ks \in Seq(Peers)
    BY <1>1, <1>4, <1>7, AppendProperties
  <2> HIDE DEF ks
  <2>3. known' \in [Files -> Seq(Peers)] /\ \A f \in Files : f # r.file => known'[f] = known[f]
    BY <1>1, <2>1, <2>2
  <2>4. replies' \in Seq(Line)
    BY <1>1, <1>7, <2>1, AppendProperties
  <2>5. NetOK'
    BY <1>3, <2>3, <2>4 DEF NetOK, Req
  <2>6. r.file \in Whole
    BY <1>2, <1>4, <1>11 DEF PeerInv, HaveOK
  <2>7. HaveOK'
    BY <1>8, <1>9, <2>3, <2>6 DEF PeerInv, HaveOK
  <2> QED
    BY <1>6, <2>5, <2>7 DEF PeerInv
<1> QED
  BY <1>10, <1>11

-----------------------------------------------------------------------------
(* The main process. *)
MainType == [pc : {"want", "reply", "wait"}, arg : Nat \ {0}, num_req : Nat, lines : Seq(Line),
             reaped : SUBSET ({"down", "up"} \X Nat)]

(* The first terminator of a complete answer; what is before it are peers. *)
LEMMA SplitPosOK ==
  ASSUME NEW ls \in Seq(Line), Complete(ls)
  PROVE  /\ SplitPos(ls) \in DOMAIN ls /\ Terminator(ls[SplitPos(ls)])
         /\ \A j \in 1..(SplitPos(ls) - 1) : ls[j] \in Peers
<1> DEFINE S == {i \in DOMAIN ls : Terminator(ls[i])}  m == Min(S)
<1>1. DOMAIN ls = 1..Len(ls) /\ Len(ls) \in Nat
  BY LenProperties
<1>2. S \in SUBSET Nat /\ S # {}
  BY <1>1 DEF Complete
<1>3. m \in S /\ \A y \in S : m <= y
  <2> HIDE DEF S
  <2> QED BY <1>2, MinNat
<1> HIDE DEF m
<1>4. \A j \in 1..(m - 1) : ~Terminator(ls[j])
  BY <1>1, <1>3
<1>5. m \in DOMAIN ls /\ Terminator(ls[m]) /\ \A j \in 1..(m - 1) : ~Terminator(ls[j])
  BY <1>3, <1>4
<1> DEFINE p == SplitPos(ls)
<1>6. p \in DOMAIN ls /\ Terminator(ls[p]) /\ \A j \in 1..(p - 1) : ~Terminator(ls[j])
  <2> DEFINE P(i) == Terminator(ls[i]) /\ \A j \in 1..(i - 1) : ~Terminator(ls[j])
  <2>1. \E i \in DOMAIN ls : P(i)
    BY <1>5
  <2>2. p = CHOOSE i \in DOMAIN ls : P(i)
    BY DEF SplitPos
  <2> HIDE DEF P, p
  <2>3. p \in DOMAIN ls /\ P(p)
    BY <2>1, <2>2, Zenon
  <2> QED
    BY <2>3 DEF P
<1> HIDE DEF p
<1>7. ASSUME NEW j \in 1..(p - 1) PROVE ls[j] \in Peers
  <2>1. j \in DOMAIN ls
    BY <1>1, <1>6
  <2>2. ls[j] \in Line
    BY <2>1
  <2> QED
    BY <1>6, <2>2 DEF Line, Terminator
<1> QED
  BY <1>6, <1>7 DEF p

LEMMA PushedPeers ==
  ASSUME NEW ls \in Seq(Line), Complete(ls)
  PROVE  Reverse(SubSeq(ls, 1, SplitPos(ls) - 1)) \in Seq(Peers)
<1> DEFINE p == SplitPos(ls)  q == SubSeq(ls, 1, p - 1)
<1>1. p \in 1..Len(ls) /\ Len(ls) \in Nat /\ \A j \in 1..(p - 1) : ls[j] \in Peers
  BY SplitPosOK, LenProperties
<1> HIDE DEF p
<1>2. q = [i \in 1..(p - 1) |-> ls[i]]
  BY <1>1
<1>3. q \in Seq(Peers) /\ Len(q) = p - 1
  <2>1. p - 1 \in Nat
    BY <1>1
  <2> HIDE DEF q
  <2> QED BY <1>1, <1>2, <2>1
<1> HIDE DEF q
<1>4. \A i \in 1..Len(q) : q[Len(q) - i + 1] \in Peers
  <2>1. Len(q) \in Nat
    BY <1>3, LenProperties
  <2>2. \A i \in 1..Len(q) : Len(q) - i + 1 \in 1..Len(q)
    BY <2>1
  <2> QED
    BY <1>3, <2>2, ElementOfSeq
<1>5. Reverse(q) \in Seq(Peers)
  <2>1. Len(q) \in Nat
    BY <1>3, LenProperties
  <2> QED BY <1>4, <2>1 DEF Reverse
<1> QED
  BY <1>5 DEF q, p

(* Steps of main that touch only its own record and the connection. *)
LEMMA MainFrame ==
  ASSUME PeerInv, UNCHANGED <<load, down, up, disk, known>>, MainOK', main'.arg >= main.arg,
         requests' \in Seq(Req), replies' \in Seq(Line),
         \A i \in DOMAIN requests' : requests'[i].cmd = "HAVE" => requests'[i].file \in Whole
  PROVE  PeerInv'
<1>1. LoadOK'
  BY DEF PeerInv, LoadOK
<1>2. FilesOK' /\ SettledStays
  BY FilesFrame DEF PeerInv, MainOK
<1>3. UpsOK'
  BY <1>2, UpsFrame DEF PeerInv
<1>4. NetOK'
  BY DEF PeerInv, NetOK, Req
<1>5. HaveOK'
  BY <1>2, HaveFrame DEF PeerInv, HaveOK
<1> QED
  BY <1>1, <1>2, <1>3, <1>4, <1>5 DEF PeerInv

LEMMA StartDownloadStep ==
  ASSUME PeerInv, StartDownload
  PROVE  PeerInv'
<1>1. /\ main \in MainType /\ requests \in Seq(Req) /\ replies \in Seq(Line) /\ NetOK
      /\ load.args \in Seq(Files) /\ Len(load.args) \in Nat
      /\ \A i \in DOMAIN requests : requests[i].cmd = "HAVE" => requests[i].file \in Whole
  BY LenProperties DEF PeerInv, MainOK, MainType, NetOK, Req, LoadOK, HaveOK
<1>2. main.arg \in Nat \ {0} /\ main.lines \in Seq(Line)
  BY <1>1 DEF MainType
<1>3. CASE MainWant
  <2> DEFINE w == [cmd |-> "WANT", file |-> load.args[main.arg]]
  <2>1. load.args[main.arg] \in Files
    BY <1>1, <1>2, <1>3, ElementOfSeq DEF MainWant
  <2>2. w \in Req /\ w.cmd # "HAVE"
    BY <2>1 DEF Req
  <2>3. requests' = Append(requests, w)
    BY <1>3 DEF MainWant
  <2> HIDE DEF w
  <2>4. requests' \in Seq(Req)
    BY <1>1, <2>2, <2>3
  <2>5. \A i \in DOMAIN requests' : requests'[i].cmd = "HAVE" => requests'[i].file \in Whole
    BY <1>1, <2>2, <2>3
  <2>6. main' = [main EXCEPT !.pc = "reply", !.lines = <<>>] /\ main.arg <= Len(load.args)
    BY <1>3 DEF MainWant
  <2>7. <<>> \in Seq(Line)
    BY EmptySeq
  <2>8. main' \in MainType /\ main'.arg = main.arg
    BY <1>1, <2>6, <2>7 DEF MainType
  <2>9. UNCHANGED <<load, down, up, disk, replies, known>>
    BY <1>3 DEF MainWant
  <2>10. MainOK' /\ main'.arg >= main.arg
    BY <1>2, <2>6, <2>8, <2>9 DEF MainOK, MainType
  <2> QED
    BY <1>1, <2>4, <2>5, <2>9, <2>10, MainFrame
<1>4. CASE MainReply
  <2>1. PICK k \in 1..Len(replies) :
          /\ main' = [main EXCEPT !.lines = main.lines \o ReadLines(k)]
          /\ replies' = SubSeq(replies, k + 1, Len(replies))
    BY <1>4 DEF MainReply
  <2>2. main.lines \o ReadLines(k) \in Seq(Line) /\ replies' \in Seq(Line)
    BY <1>1, <1>2, <2>1, ReadLinesOK, ConcatProperties
  <2>3. main' \in MainType /\ main'.arg = main.arg /\ main'.pc = main.pc
    BY <1>1, <2>1, <2>2 DEF MainType
  <2>4. UNCHANGED <<load, down, up, disk, requests, known>>
    BY <1>4 DEF MainReply
  <2>5. MainOK' /\ main'.arg >= main.arg
    BY <1>2, <2>3, <2>4 DEF MainOK, MainType, PeerInv
  <2> QED
    BY <1>1, <2>2, <2>4, <2>5, MainFrame
<1>5. main' = NextArg => MainOK' /\ main'.arg = main.arg + 1
  <2> SUFFICES ASSUME main' = NextArg PROVE MainOK' /\ main'.arg = main.arg + 1
    OBVIOUS
  <2>1. <<>> \in Seq(Line)
    BY EmptySeq
  <2>2. main' = [main EXCEPT !.pc = "want", !.arg = main.arg + 1, !.lines = <<>>]
    BY DEF NextArg
  <2>3. main.arg + 1 \in Nat \ {0}
    BY <1>2
  <2>4. main' \in MainType /\ main'.arg = main.arg + 1 /\ main'.pc = "want"
    BY <1>1, <2>1, <2>2, <2>3 DEF MainType
  <2> QED
    BY <2>4 DEF MainOK, MainType
<1>6. CASE Refused \/ NoForkDownload
  <2>1. main' = NextArg /\ UNCHANGED <<load, down, up, disk, requests, replies, known>>
    BY <1>6 DEF Refused, NoForkDownload
  <2>2. MainOK' /\ main'.arg >= main.arg
    BY <1>2, <1>5, <2>1
  <2> QED
    BY <1>1, <2>1, <2>2, MainFrame
<1>7. CASE ForkDownload
  <2> DEFINE d == main.arg  ps == Reverse(SubSeq(main.lines, 1, SplitPos(main.lines) - 1))
             f == load.args[d]
             r == [NoTask EXCEPT !.pc = "start", !.file = f, !.peers = ps]
  <2>1. /\ main.pc = "reply" /\ Complete(main.lines) /\ main' = NextArg /\ Set(d, r)
        /\ UNCHANGED <<load, up, disk, requests, replies, known>>
    BY <1>7 DEF ForkDownload, Accepted, Set
  <2>2. d \in Downs /\ f \in Files
    <3>1. d <= Len(load.args)
      BY <2>1 DEF PeerInv, MainOK
    <3>2. d \in 1..Len(load.args)
      BY <1>1, <1>2, <3>1
    <3> QED
      BY <1>1, <3>2, ElementOfSeq DEF Downs
  <2>3. down[d].pc = "none"
    <3>1. d >= main.arg
      BY <1>2
    <3> QED
      BY <2>2, <3>1 DEF PeerInv, FilesOK
  <2>4. ps \in Seq(Peers)
    BY <1>2, <2>1, PushedPeers
  <2> HIDE DEF ps, f
  <2>5. /\ r \in Task /\ r.pc = "start" /\ r.file = f /\ r.name = NoName /\ r.t = EmptyBuf
        /\ r.got = 0 /\ r.total = 0
    <3>1. f \in Files \cup {""} /\ "start" \in {"none", "start", "failed", "open"} \cup Kept
      BY <2>2
    <3>2. r \in Task
      BY <2>4, <3>1, NoTaskOK DEF Task
    <3>3. /\ r.pc = "start" /\ r.file = f /\ r.name = NoName /\ r.t = EmptyBuf
          /\ r.got = 0 /\ r.total = 0
      BY DEF NoTask
    <3> QED
      BY <3>2, <3>3
  <2> HIDE DEF r
  <2>6. ChildOK(d, r, disk')
    BY <2>2, <2>5 DEF ChildOK, Kept, Saved
  <2>7. Touches(d, r)
    <3>1. \A n \in Names : ~(disk[n].on /\ disk[n].owner = d)
      <4>1. down[d].pc \notin Kept
        BY <2>3 DEF Kept, Saved
      <4> QED
        BY <2>2, <4>1, OwnedBy DEF PeerInv
    <3> QED
      BY <2>1, <3>1 DEF Touches, PeerInv, FilesOK
  <2>8. ChildTurn(d, r)
    BY <2>1, <2>3, <2>6, <2>7 DEF ChildTurn, Saved
  <2>9. MainOK' /\ main'.arg = d + 1
    BY <1>5, <2>1
  <2>10. FilesOK' /\ SettledStays
    <3>1. main'.arg \in Nat /\ main'.arg >= main.arg /\ d < main'.arg
      BY <1>2, <2>9
    <3> QED
      BY <2>1, <2>2, <2>8, <3>1, FilesStep DEF PeerInv
  <2>11. UpsOK'
    BY <2>1, <2>10, UpsFrame DEF PeerInv
  <2>12. NetOK' /\ LoadOK'
    BY <2>1 DEF PeerInv, NetOK, LoadOK
  <2>13. HaveOK'
    BY <2>1, <2>10, HaveFrame DEF PeerInv, HaveOK
  <2> QED
    BY <2>9, <2>10, <2>11, <2>12, <2>13 DEF PeerInv
<1> QED
  BY <1>3, <1>4, <1>6, <1>7 DEF StartDownload

LEMMA ListenStep ==
  ASSUME PeerInv, task_listen
  PROVE  PeerInv'
<1>1. main \in MainType /\ main.pc = "want" /\ main.arg \in Nat /\ main.num_req \in Nat
  BY DEF PeerInv, MainOK, MainType, task_listen, Listening
<1>2. UNCHANGED <<load, down, disk, requests, replies, known>> /\ main' = Counted(main)
  BY DEF task_listen
<1>3. main' \in MainType /\ main'.pc \in {"want", "wait"} /\ main'.arg = main.arg
  <2> DEFINE pc == IF main.num_req + 1 > MaxRequests THEN "wait" ELSE main.pc
  <2>1. main' = [main EXCEPT !.num_req = main.num_req + 1, !.pc = pc]
    BY <1>2 DEF Counted
  <2>2. pc \in {"want", "wait"} /\ main.num_req + 1 \in Nat
    BY <1>1
  <2> HIDE DEF pc
  <2> QED
    BY <1>1, <2>1, <2>2 DEF MainType
<1>4. MainOK' /\ LoadOK' /\ NetOK'
  BY <1>2, <1>3 DEF PeerInv, MainOK, MainType, LoadOK, NetOK
<1>5. FilesOK' /\ SettledStays
  <2>1. main'.arg \in Nat /\ main'.arg >= main.arg
    BY <1>1, <1>3
  <2> QED
    BY <1>2, <2>1, FilesFrame DEF PeerInv
<1>6. HaveOK'
  BY <1>2, <1>5, HaveFrame DEF PeerInv, HaveOK
<1>7. UpsOK'
  <2>1. CASE up' = up
    BY <1>2, <1>5, <2>1, UpsFrame DEF PeerInv
  <2>2. ASSUME NEW u \in Ups, up[u].pc = "none", up' = [up EXCEPT ![u].pc = "request"] PROVE UpsOK'
    <3>1. up \in [Ups -> Upload] /\ Ups' = Ups
      BY <1>2 DEF PeerInv, UpsOK, Ups
    <3>2. UpOK(up[u], disk)
      BY DEF PeerInv, UpsOK
    <3>3. up[u] = [NoUpload EXCEPT !.pc = up[u].pc]
      BY <2>2, <3>2 DEF UpOK
    <3>4. up[u] = NoUpload
      BY <2>2, <3>3 DEF NoUpload
    <3> DEFINE q == [NoUpload EXCEPT !.pc = "request"]
    <3>5. q \in Upload /\ q.pc = "request" /\ q.name = NoName
      <4>1. q \in Upload
        BY NoUploadOK DEF Upload
      <4> QED
        BY <4>1 DEF NoUpload
    <3>6. up' = [up EXCEPT ![u] = q]
      BY <2>2, <3>1, <3>4
    <3>7. UpOK(q, disk)'
      BY <3>5 DEF UpOK
    <3> HIDE DEF q
    <3>8. up' \in [Ups' -> Upload] /\ up'[u] = q /\ \A v \in Ups : v # u => up'[v] = up[v]
      BY <3>1, <3>5, <3>6
    <3>9. ASSUME NEW v \in Ups PROVE UpOK(up[v], disk)'
      <4>1. CASE v = u
        BY <3>7, <3>8, <4>1
      <4>2. CASE v # u
        <5>1. UpOK(up[v], disk)
          BY DEF PeerInv, UpsOK
        <5>2. up'[v] = up[v] /\ disk' = disk /\ load' = load /\ down' = down
          BY <1>2, <3>8, <4>2
        <5> QED
          BY <5>1, <5>2 DEF UpOK, Settled, Downs
      <4> QED
        BY <4>1, <4>2
    <3> QED
      BY <3>1, <3>8, <3>9 DEF UpsOK
  <2> QED
    BY <2>1, <2>2 DEF task_listen
<1> QED
  BY <1>4, <1>5, <1>6, <1>7 DEF PeerInv

LEMMA ReapStep ==
  ASSUME PeerInv, CountOK, Reap
  PROVE  PeerInv'
<1>1. main \in MainType /\ main.arg \in Nat /\ main.num_req \in Nat /\ MaxRequests \in Nat \ {0}
  BY SizeAssumption DEF PeerInv, MainOK, MainType
<1>2. UNCHANGED <<load, down, up, disk, requests, replies, known>> /\ main.pc = "wait"
  BY DEF Reap
<1>3. main.num_req - 1 \in Nat
  BY <1>1, <1>2 DEF CountOK
<1> DEFINE m == [main EXCEPT !.pc = "want", !.num_req = main.num_req - 1]
<1>4. m \in MainType /\ m.pc = "want" /\ m.arg = main.arg /\ m.reaped = main.reaped
  BY <1>1, <1>3 DEF MainType
<1> HIDE DEF m
<1>5. main' \in MainType /\ main'.pc = "want" /\ main'.arg = main.arg
  <2>1. CASE main' = m
    BY <1>4, <2>1
  <2>2. ASSUME NEW z \in Zombies, main' = [m EXCEPT !.reaped = @ \cup {z}]
        PROVE  main' \in MainType /\ main'.pc = "want" /\ main'.arg = main.arg
    <3>1. z \in {"down", "up"} \X Nat
      BY DEF Zombies, Downs, Ups
    <3>2. m.reaped \cup {z} \in SUBSET ({"down", "up"} \X Nat)
      BY <1>4, <3>1 DEF MainType
    <3> QED
      BY <1>4, <2>2, <3>2 DEF MainType
  <2> QED
    BY <2>1, <2>2 DEF Reap, m
<1>6. MainOK' /\ main'.arg >= main.arg
  BY <1>1, <1>2, <1>5 DEF MainOK, MainType
<1> QED
  BY <1>2, <1>6, MainFrame DEF PeerInv, NetOK, Req, HaveOK

-----------------------------------------------------------------------------
(* The uploads. *)
LEMMA UploadFrame ==
  ASSUME PeerInv, NEW u \in Ups, NEW r, SetUp(u, r), UpOK(r, disk)
  PROVE  PeerInv'
<1>1. UNCHANGED <<load, main, down, disk, requests, replies, known>> /\ up' = [up EXCEPT ![u] = r]
  BY DEF SetUp
<1>2. LoadOK' /\ MainOK' /\ NetOK'
  BY <1>1 DEF PeerInv, LoadOK, MainOK, NetOK
<1>3. FilesOK' /\ SettledStays
  BY <1>1, FilesFrame DEF PeerInv, MainOK
<1>4. HaveOK'
  BY <1>1, <1>3, HaveFrame DEF PeerInv, HaveOK
<1>5. r \in Upload
  BY DEF UpOK
<1>6. up \in [Ups -> Upload] /\ Ups' = Ups
  BY <1>1 DEF PeerInv, UpsOK, Ups
<1>7. up' \in [Ups' -> Upload] /\ up'[u] = r /\ \A v \in Ups : v # u => up'[v] = up[v]
  BY <1>1, <1>5, <1>6
<1>8. ASSUME NEW v \in Ups PROVE UpOK(up[v], disk)'
  <2>1. UpOK(up'[v], disk)
    BY <1>7 DEF PeerInv, UpsOK
  <2>2. disk' = disk /\ load' = load /\ down' = down
    BY <1>1
  <2> QED
    BY <2>1, <2>2 DEF UpOK, Settled, Downs
<1>9. UpsOK'
  BY <1>6, <1>7, <1>8 DEF UpsOK
<1> QED
  BY <1>2, <1>3, <1>4, <1>9 DEF PeerInv

LEMMA RequestStep ==
  ASSUME PeerInv, NEW u \in Ups, Request(u)
  PROVE  PeerInv'
<1> DEFINE r == up[u]
<1>1. r \in Upload /\ UpOK(r, disk) /\ r.pc = "request"
  BY DEF PeerInv, UpsOK, Request
<1>2. r = [NoUpload EXCEPT !.pc = "request"]
  BY <1>1 DEF UpOK
<1>3. r.name = NoName /\ r.t = EmptyBuf /\ r.read = 0 /\ r.sent = <<>>
  BY <1>2 DEF NoUpload
<1>4. CASE SetUp(u, [r EXCEPT !.pc = "broken"])
  <2> DEFINE q == [r EXCEPT !.pc = "broken"]
  <2>1. q \in Upload /\ q.pc = "broken" /\ q.name = r.name
    BY <1>1 DEF Upload
  <2> HIDE DEF q
  <2>2. UpOK(q, disk)
    BY <1>3, <2>1 DEF UpOK
  <2> QED
    BY <1>4, <2>2, UploadFrame DEF q
<1>5. ASSUME NEW f \in Files, Self \in ToSet(known[f]), SetUp(u, [r EXCEPT !.pc = "send", !.name = <<f, 0>>])
      PROVE  PeerInv'
  <2> DEFINE q == [r EXCEPT !.pc = "send", !.name = <<f, 0>>]  data == disk[<<f, 0>>].data
  <2>1. <<f, 0>> \in Names /\ <<f, 0>> # NoName
    BY NamesOf
  <2>2. /\ q \in Upload /\ q.pc = "send" /\ q.name = <<f, 0>> /\ q.t = r.t /\ q.read = r.read
        /\ q.sent = r.sent
    BY <1>1, <2>1 DEF Upload
  <2> HIDE DEF q
  <2>3. Settled(f)
    BY <1>5 DEF PeerInv, HaveOK, Whole
  <2>4. data \in Seq(Nat)
    BY <2>1 DEF PeerInv, FilesOK, File
  <2>5. Ring(EmptyBuf, data) /\ EmptyBuf.tail = 0 /\ EmptyBuf.head = 0
    BY <2>4, EmptyRing DEF EmptyBuf
  <2>6. [i \in 1..0 |-> data[i]] = <<>>
    OBVIOUS
  <2>7. UpOK(q, disk)
    BY <1>3, <2>1, <2>2, <2>3, <2>5, <2>6 DEF UpOK
  <2> QED
    BY <1>5, <2>7, UploadFrame DEF q
<1> QED
  BY <1>4, <1>5 DEF Request

LEMMA SendStep ==
  ASSUME PeerInv, NEW u \in Ups, Send(u)
  PROVE  PeerInv'
<1> DEFINE r == up[u]  data == disk[r.name].data  h == r.t.head
<1>1. r \in Upload /\ UpOK(r, disk) /\ r.pc = "send"
  BY DEF PeerInv, UpsOK, Send
<1>2. /\ r.name # NoName /\ Ring(r.t, data) /\ r.read = r.t.tail
      /\ r.sent = [i \in 1..h |-> data[i]]
  BY <1>1 DEF UpOK
<1>3. PICK f \in Files : r.name = <<f, 0>> /\ Settled(f)
  BY <1>1, <1>2 DEF UpOK
<1>4. data \in Seq(Nat) /\ Len(data) \in Nat
  <2>1. r.name \in Names
    BY <1>3, NamesOf
  <2>2. disk[r.name] \in File
    BY <2>1 DEF PeerInv, FilesOK
  <2> QED
    BY <2>2, LenProperties DEF File
<1>5. h \in Nat /\ r.t.tail \in Nat /\ r.read \in Nat /\ r.t.tail <= Len(data)
  BY <1>1, <1>2 DEF Upload, Buffer, Ring
<1>6. ready(r.t) \in Nat
  BY <1>2, Fits DEF Ring
<1>7. CASE SetUp(u, [r EXCEPT !.pc = "broken"])
  <2> DEFINE q == [r EXCEPT !.pc = "broken"]
  <2>1. q \in Upload /\ q.pc = "broken" /\ q.name = r.name /\ q.t = r.t /\ q.read = r.read /\ q.sent = r.sent
    BY <1>1 DEF Upload
  <2> HIDE DEF q
  <2>2. UpOK(q, disk)
    BY <1>2, <1>3, <2>1 DEF UpOK
  <2> QED
    BY <1>7, <2>2, UploadFrame DEF q
<1>8. ASSUME NEW j \in Least(1, ready(r.t))..ready(r.t),
             LET w == write_from_taskbuf(r.t, j)
                 left == Len(data) - r.read
                 after == [r EXCEPT !.t = w.t, !.sent = @ \o w.out]
             IN \/ \E k \in 1..Least(room(w.t), left) :
                     SetUp(u, [after EXCEPT !.t = read_to_taskbuf(w.t, data, r.read, k), !.read = @ + k])
                \/ /\ Least(room(w.t), left) = 0
                   /\ SetUp(u, [after EXCEPT !.pc = IF w.t.head = w.t.tail THEN "done" ELSE @])
      PROVE  PeerInv'
  <2> DEFINE w == write_from_taskbuf(r.t, j)
             left == Len(data) - r.read
             after == [r EXCEPT !.t = w.t, !.sent = @ \o w.out]
  <2>1. j \in 0..ready(r.t) /\ j \in Nat
    BY <1>6 DEF Least
  <2>2. /\ Ring(w.t, data) /\ w.t.head = h + j /\ w.t.tail = r.t.tail /\ h + j <= r.t.tail
        /\ w.out = [i \in 1..j |-> data[h + i]]
    BY <1>2, <1>4, <2>1, RingWrite
  <2>3. r.sent \o w.out = [i \in 1..(h + j) |-> data[i]]
    <3> HIDE DEF data, w, h
    <3>1. h + j <= Len(data)
      BY <1>4, <1>5, <2>1, <2>2 DEF h
    <3>2. [i \in 1..h |-> data[i]] \o [i \in 1..j |-> data[h + i]] = [i \in 1..(h + j) |-> data[i]]
      BY <1>4, <1>5, <2>1, <3>1, Extend, Zenon
    <3> QED
      BY <1>2, <2>2, <3>2
  <2>4. [i \in 1..(h + j) |-> data[i]] \in Seq(Nat)
    <3>1. \A i \in 1..(h + j) : data[i] \in Nat
      <4> HIDE DEF data, h
      <4>1. h + j <= Len(data) /\ h + j \in Nat
        BY <1>4, <1>5, <2>1, <2>2
      <4>2. \A i \in 1..(h + j) : i \in 1..Len(data)
        BY <1>4, <4>1
      <4> QED
        BY <1>4, <4>2, ElementOfSeq
    <3>2. h + j \in Nat
      BY <1>5, <2>1
    <3> QED
      BY <3>1, <3>2
  <2>5. w.t \in Buffer /\ room(w.t) \in Nat /\ (w.t.head = w.t.tail => room(w.t) > 0)
    BY <2>2, Fits DEF Ring, Window
  <2> HIDE DEF w
  <2>6. /\ after \in Upload /\ after.pc = "send" /\ after.name = r.name /\ after.t = w.t /\ after.read = r.read
        /\ after.sent = [i \in 1..w.t.head |-> data[i]]
    <3>1. after = [r EXCEPT !.t = w.t, !.sent = [i \in 1..(h + j) |-> data[i]]]
      BY <2>3
    <3> DEFINE sq == [i \in 1..(h + j) |-> data[i]]
    <3> HIDE DEF sq, after
    <3>2. after = [r EXCEPT !.t = w.t, !.sent = sq] /\ sq \in Seq(Nat)
      BY <3>1, <2>4 DEF sq
    <3>3. after \in Upload /\ after.pc = "send" /\ after.name = r.name /\ after.t = w.t /\ after.read = r.read /\ after.sent = sq
      BY <1>1, <2>5, <3>2 DEF Upload
    <3> QED
      BY <2>2, <3>3 DEF sq
  <2> HIDE DEF after
  <2>7. ASSUME NEW k \in 1..Least(room(w.t), left),
               SetUp(u, [after EXCEPT !.t = read_to_taskbuf(w.t, data, r.read, k), !.read = @ + k])
        PROVE  PeerInv'
    <3> DEFINE t2 == read_to_taskbuf(w.t, data, r.read, k)  q == [after EXCEPT !.t = t2, !.read = @ + k]
    <3>1. k \in Nat /\ k <= room(w.t) /\ k <= left
      BY <1>4, <1>5, <2>5 DEF Least
    <3>2. w.t.tail + k <= Len(data) /\ r.read = w.t.tail
      BY <1>2, <1>4, <1>5, <2>2, <3>1
    <3>3. Ring(t2, data) /\ t2.head = w.t.head /\ t2.tail = w.t.tail + k
      BY <1>4, <2>2, <3>1, <3>2, RingRead
    <3>4. t2 \in Buffer /\ r.read + k \in Nat
      BY <1>5, <3>1, <3>3 DEF Ring, Window
    <3> HIDE DEF t2
    <3>5. /\ q \in Upload /\ q.pc = "send" /\ q.name = r.name /\ q.t = t2 /\ q.read = r.read + k
          /\ q.sent = after.sent
      BY <2>6, <3>4 DEF Upload
    <3>6. SetUp(u, q)
      BY <2>7 DEF t2
    <3> HIDE DEF q
    <3>7. UpOK(q, disk)
      BY <1>2, <1>3, <2>6, <3>2, <3>3, <3>5 DEF UpOK
    <3> QED
      BY <3>6, <3>7, UploadFrame
  <2>8. ASSUME Least(room(w.t), left) = 0,
               SetUp(u, [after EXCEPT !.pc = IF w.t.head = w.t.tail THEN "done" ELSE @])
        PROVE  PeerInv'
    <3> DEFINE pc == IF w.t.head = w.t.tail THEN "done" ELSE after.pc  q == [after EXCEPT !.pc = pc]
    <3>1. pc \in {"send", "done"}
      BY <2>6
    <3>2. SetUp(u, q)
      BY <2>8
    <3>3. pc = "done" => w.t.head = Len(data)
      <4> SUFFICES ASSUME w.t.head = w.t.tail PROVE w.t.head = Len(data)
        BY <2>6
      <4>1. left = 0
        BY <2>5, <2>8 DEF Least
      <4>2. r.read = r.t.tail /\ w.t.tail = r.t.tail
        BY <1>2, <2>2
      <4> HIDE DEF data
      <4> QED
        BY <1>4, <1>5, <4>1, <4>2
    <3> HIDE DEF pc
    <3>4. /\ q \in Upload /\ q.pc = pc /\ q.name = r.name /\ q.t = w.t /\ q.read = r.read
          /\ q.sent = after.sent
      BY <2>6, <3>1 DEF Upload
    <3> HIDE DEF q
    <3>5. UpOK(q, disk)
      BY <1>2, <1>3, <2>2, <2>6, <3>1, <3>3, <3>4 DEF UpOK
    <3> QED
      BY <3>2, <3>5, UploadFrame
  <2> QED
    BY <1>8, <2>7, <2>8 DEF w, after
<1> QED
  BY <1>7, <1>8 DEF Send

-----------------------------------------------------------------------------
(* Counting the uploads.  The records of main and of the uploads are only  *)
(* as typed as the count needs, so that it holds whatever open() does.     *)
Shape ==
  /\ DOMAIN main = {"pc", "arg", "num_req", "lines", "reaped"}
  /\ DOMAIN up = Ups /\ \A u \in Ups : DOMAIN up[u] = {"pc", "t", "name", "read", "sent"}
CountInv == LoadOK /\ Shape /\ CountOK

LEMMA AliveFinite ==
  ASSUME LoadOK
  PROVE  IsFiniteSet(Alive) /\ Cardinality(Alive) \in Nat
<1>1. load.uploads \in Nat
  BY DEF LoadOK
<1>2. IsFiniteSet(Ups)
  BY <1>1, FS_Interval DEF Ups
<1>3. Alive \subseteq Ups
  BY DEF Alive
<1> QED
  BY <1>2, <1>3, FS_Subset, FS_CardinalityType

LEMMA DownsFinite ==
  ASSUME IsFiniteSet(main.reaped)
  PROVE  IsFiniteSet(ReapedDowns) /\ Cardinality(ReapedDowns) \in Nat
<1>1. ReapedDowns \subseteq main.reaped
  BY DEF ReapedDowns
<1> QED
  BY <1>1, FS_Subset, FS_CardinalityType

LEMMA CountInit == Init => CountInv
<1> SUFFICES ASSUME Init PROVE CountInv
  OBVIOUS
<1>1. LoadOK
  BY InputAssumption DEF Init, LoadOK
<1>2. Shape
  BY DEF Init, Shape, NoUpload
<1>3. main.reaped = {} /\ main.num_req = 1 /\ main.pc = "want"
  BY DEF Init
<1>4. Alive = {} /\ ReapedDowns = {}
  <2>1. \A u \in Ups : up[u].pc = "none"
    BY DEF Init, NoUpload
  <2> QED
    BY <1>3, <2>1 DEF Alive, ReapedDowns
<1>5. Cardinality(Alive) = 0 /\ Cardinality(ReapedDowns) = 0 /\ IsFiniteSet(main.reaped)
  BY <1>3, <1>4, FS_EmptySet
<1>6. MaxRequests \in Nat \ {0}
  BY SizeAssumption
<1>7. CountOK
  BY <1>3, <1>5, <1>6 DEF CountOK
<1> QED
  BY <1>1, <1>2, <1>7 DEF CountInv

(* Steps that neither start nor reap an upload. *)
LEMMA CountFrame ==
  ASSUME CountInv, UNCHANGED load, Shape', main'.num_req = main.num_req, main'.reaped = main.reaped,
         main'.pc = "wait" <=> main.pc = "wait",
         \A u \in Ups : up'[u].pc = "none" <=> up[u].pc = "none"
  PROVE  CountInv'
<1>1. Ups' = Ups /\ LoadOK'
  BY DEF CountInv, LoadOK, Ups
<1>2. Alive' = Alive /\ ReapedDowns' = ReapedDowns
  BY <1>1 DEF Alive, ReapedDowns
<1> QED
  BY <1>1, <1>2 DEF CountInv, CountOK

LEMMA CountMain ==
  ASSUME CountInv, StartDownload
  PROVE  CountInv'
<1>1. DOMAIN main = {"pc", "arg", "num_req", "lines", "reaped"} /\ Shape
  BY DEF CountInv, Shape
<1>2. UNCHANGED <<load, up>>
  BY DEF StartDownload, MainWant, MainReply, Refused, ForkDownload, NoForkDownload
<1>3. /\ DOMAIN main' = DOMAIN main /\ main'.num_req = main.num_req /\ main'.reaped = main.reaped
      /\ main.pc # "wait" /\ main'.pc # "wait"
  <2>1. CASE MainWant
    BY <1>1, <2>1 DEF MainWant
  <2>2. CASE MainReply
    <3>1. PICK ls : main' = [main EXCEPT !.lines = ls]
      BY <2>2 DEF MainReply
    <3> QED
      BY <1>1, <2>2, <3>1 DEF MainReply
  <2>3. CASE main.pc = "reply" /\ main' = NextArg
    BY <1>1, <2>3 DEF NextArg
  <2> QED
    BY <2>1, <2>2, <2>3 DEF StartDownload, Refused, ForkDownload, NoForkDownload, Accepted
<1>4. Shape'
  BY <1>1, <1>2, <1>3 DEF Shape, Ups
<1> QED
  BY <1>2, <1>3, <1>4, CountFrame

LEMMA CountListen ==
  ASSUME CountInv, task_listen
  PROVE  CountInv'
<1>1. DOMAIN main = {"pc", "arg", "num_req", "lines", "reaped"} /\ Shape /\ CountOK /\ LoadOK /\ main.pc = "want"
  BY DEF CountInv, Shape, task_listen, Listening
<1>2. MaxRequests \in Nat \ {0} /\ main.num_req \in 1..MaxRequests
  BY <1>1, SizeAssumption DEF CountOK
<1>3. /\ DOMAIN main' = DOMAIN main /\ main'.num_req = main.num_req + 1 /\ main'.reaped = main.reaped
      /\ main'.pc = IF main.num_req + 1 > MaxRequests THEN "wait" ELSE "want"
  BY <1>1 DEF task_listen, Counted
<1>4. Ups' = Ups /\ LoadOK'
  BY <1>1 DEF task_listen, LoadOK, Ups
<1>5. PICK u \in Ups : up[u].pc = "none" /\ (up' = [up EXCEPT ![u].pc = "request"] \/ up' = up)
  BY DEF task_listen
<1>6. DOMAIN up' = Ups /\ (\A v \in Ups : DOMAIN up'[v] = DOMAIN up[v]) /\ \A v \in Ups : v # u => up'[v] = up[v]
  BY <1>1, <1>5 DEF Shape
<1>7. Shape'
  BY <1>1, <1>3, <1>4, <1>6 DEF Shape
<1>8. ReapedDowns' = ReapedDowns
  BY <1>3 DEF ReapedDowns
<1>9. Cardinality(Alive') <= Cardinality(Alive) + 1 /\ Cardinality(Alive) \in Nat /\ Cardinality(Alive') \in Nat
  <2>1. Alive' \subseteq Alive \cup {u}
    BY <1>3, <1>4, <1>6 DEF Alive
  <2>2. IsFiniteSet(Alive) /\ Cardinality(Alive) \in Nat
    BY <1>1, AliveFinite
  <2> DEFINE A == Alive \cup {u}
  <2>3. IsFiniteSet(A) /\ Cardinality(A) <= Cardinality(Alive) + 1 /\ Cardinality(A) \in Nat
    <3>1. IsFiniteSet(A) /\ Cardinality(A) = (IF u \in Alive THEN Cardinality(Alive) ELSE Cardinality(Alive) + 1)
      BY <2>2, FS_AddElement
    <3> QED
      BY <2>2, <3>1
  <2>4. Cardinality(Alive') <= Cardinality(A) /\ Cardinality(Alive') \in Nat
    <3> HIDE DEF A
    <3>1. Alive' \subseteq A
      BY <2>1 DEF A
    <3> QED
      BY <2>3, <3>1, FS_Subset, FS_CardinalityType
  <2> HIDE DEF A
  <2> QED
    BY <2>2, <2>3, <2>4
<1>10. Cardinality(ReapedDowns) \in Nat
  BY <1>1, DownsFinite DEF CountOK
<1>11. CountOK'
  BY <1>1, <1>2, <1>3, <1>8, <1>9, <1>10 DEF CountOK
<1> QED
  BY <1>4, <1>7, <1>11 DEF CountInv

LEMMA CountReap ==
  ASSUME CountInv, Reap
  PROVE  CountInv'
<1>1. DOMAIN main = {"pc", "arg", "num_req", "lines", "reaped"} /\ Shape /\ CountOK /\ LoadOK /\ main.pc = "wait"
  BY DEF CountInv, Shape, Reap
<1>2. MaxRequests \in Nat \ {0} /\ main.num_req = MaxRequests + 1
  BY <1>1, SizeAssumption DEF CountOK
<1>3. UNCHANGED <<load, up>> /\ Ups' = Ups /\ LoadOK'
  BY <1>1 DEF Reap, LoadOK, Ups
<1>4. /\ IsFiniteSet(Alive) /\ Cardinality(Alive) \in Nat
      /\ IsFiniteSet(ReapedDowns) /\ Cardinality(ReapedDowns) \in Nat
  BY <1>1, AliveFinite, DownsFinite DEF CountOK
<1>5. ASSUME Forked \subseteq main.reaped, main' = [main EXCEPT !.pc = "want", !.num_req = @ - 1]
      PROVE  CountInv'
  <2>1. main'.reaped = main.reaped /\ main'.num_req = MaxRequests /\ main'.pc = "want" /\ DOMAIN main' = DOMAIN main
    BY <1>1, <1>2, <1>5
  <2>2. Alive = {}
    BY <1>5 DEF Alive, Forked
  <2>3. Alive' = {} /\ ReapedDowns' = ReapedDowns
    BY <1>3, <2>1, <2>2 DEF Alive, ReapedDowns
  <2>4. Shape'
    BY <1>1, <1>3, <2>1 DEF Shape
  <2>5. Cardinality(Alive') = 0
    BY <2>3, FS_EmptySet
  <2>6. CountOK'
    BY <1>1, <1>2, <1>4, <2>1, <2>3, <2>5 DEF CountOK
  <2> QED
    BY <1>3, <2>4, <2>6 DEF CountInv
<1>6. ASSUME NEW z \in Zombies \ main.reaped,
             main' = [main EXCEPT !.pc = "want", !.num_req = @ - 1, !.reaped = @ \cup {z}]
      PROVE  CountInv'
  <2>1. main'.reaped = main.reaped \cup {z} /\ main'.num_req = MaxRequests /\ main'.pc = "want" /\ DOMAIN main' = DOMAIN main
    BY <1>1, <1>2, <1>6
  <2>2. Shape'
    BY <1>1, <1>3, <2>1 DEF Shape
  <2>3. IsFiniteSet(main'.reaped)
    BY <1>1, <2>1, FS_AddElement DEF CountOK
  <2>4. ASSUME NEW d \in Downs, z = <<"down", d>>
        PROVE  Cardinality(Alive') = Cardinality(Alive) /\ Cardinality(ReapedDowns') = Cardinality(ReapedDowns) + 1
    <3>1. \A u \in Ups : <<"up", u>> # z
      BY <2>4
    <3>2. Alive' = Alive
      BY <1>3, <2>1, <3>1 DEF Alive
    <3>3. ReapedDowns' = ReapedDowns \cup {z} /\ z \notin ReapedDowns
      BY <2>1, <2>4 DEF ReapedDowns
    <3> QED
      BY <1>4, <3>2, <3>3, FS_AddElement
  <2>5. ASSUME NEW u \in Ups, up[u].pc \in {"done", "broken"}, z = <<"up", u>>
        PROVE  Cardinality(Alive') = Cardinality(Alive) - 1 /\ Cardinality(ReapedDowns') = Cardinality(ReapedDowns)
    <3>1. ReapedDowns' = ReapedDowns
      BY <2>1, <2>5 DEF ReapedDowns
    <3>2. u \in Alive
      BY <2>5 DEF Alive
    <3>3. Alive' = Alive \ {u}
      BY <1>3, <2>1, <2>5 DEF Alive
    <3> QED
      BY <1>4, <3>1, <3>2, <3>3, FS_RemoveElement
  <2>6. (\E d \in Downs : z = <<"down", d>>) \/ (\E u \in Ups : up[u].pc \in {"done", "broken"} /\ z = <<"up", u>>)
    BY DEF Zombies
  <2>7. CountOK'
    <3>1. \/ Cardinality(Alive') = Cardinality(Alive) /\ Cardinality(ReapedDowns') = Cardinality(ReapedDowns) + 1
          \/ Cardinality(Alive') = Cardinality(Alive) - 1 /\ Cardinality(ReapedDowns') = Cardinality(ReapedDowns)
      BY <2>4, <2>5, <2>6
    <3> QED
      BY <1>1, <1>2, <1>4, <2>1, <2>3, <3>1 DEF CountOK
  <2> QED
    BY <1>3, <2>2, <2>7 DEF CountInv
<1>7. \/ Forked \subseteq main.reaped /\ main' = [main EXCEPT !.pc = "want", !.num_req = @ - 1]
      \/ \E z \in Zombies \ main.reaped : main' = [main EXCEPT !.pc = "want", !.num_req = @ - 1, !.reaped = @ \cup {z}]
  <2> DEFINE m == [main EXCEPT !.pc = "want", !.num_req = @ - 1]
  <2>1. m.reaped = main.reaped
    BY <1>1
  <2>2. \A x : [m EXCEPT !.reaped = x] = [main EXCEPT !.pc = "want", !.num_req = @ - 1, !.reaped = x]
    BY <1>1
  <2> QED
    BY <2>1, <2>2 DEF Reap
<1> QED
  BY <1>5, <1>6, <1>7

LEMMA CountUpload ==
  ASSUME CountInv, NEW u \in Ups, task_upload(u)
  PROVE  CountInv'
<1>1. Shape /\ up[u].pc # "none" /\ DOMAIN up[u] = {"pc", "t", "name", "read", "sent"}
  BY DEF CountInv, Shape, task_upload, Request, Send
<1>2. \E r : DOMAIN r = DOMAIN up[u] /\ r.pc # "none" /\ SetUp(u, r)
  <2>1. CASE Request(u)
    <3>1. CASE SetUp(u, [up[u] EXCEPT !.pc = "broken"])
      <4> DEFINE q == [up[u] EXCEPT !.pc = "broken"]
      <4>1. DOMAIN q = DOMAIN up[u] /\ q.pc # "none"
        BY <1>1
      <4> QED
        BY <3>1, <4>1
    <3>2. ASSUME NEW f, SetUp(u, [up[u] EXCEPT !.pc = "send", !.name = <<f, 0>>])
          PROVE  \E r : DOMAIN r = DOMAIN up[u] /\ r.pc # "none" /\ SetUp(u, r)
      <4> DEFINE q == [up[u] EXCEPT !.pc = "send", !.name = <<f, 0>>]
      <4>1. DOMAIN q = DOMAIN up[u] /\ q.pc # "none"
        BY <1>1
      <4> QED
        BY <3>2, <4>1
    <3> QED
      BY <2>1, <3>1, <3>2 DEF Request
  <2>2. CASE Send(u)
    <3>1. CASE SetUp(u, [up[u] EXCEPT !.pc = "broken"])
      <4> DEFINE q == [up[u] EXCEPT !.pc = "broken"]
      <4>1. DOMAIN q = DOMAIN up[u] /\ q.pc # "none"
        BY <1>1
      <4> QED
        BY <3>1, <4>1
    <3>2. ASSUME NEW t1, NEW s1, NEW t2, NEW k,
                 SetUp(u, [[up[u] EXCEPT !.t = t1, !.sent = s1] EXCEPT !.t = t2, !.read = @ + k])
          PROVE  \E r : DOMAIN r = DOMAIN up[u] /\ r.pc # "none" /\ SetUp(u, r)
      <4> DEFINE q == [[up[u] EXCEPT !.t = t1, !.sent = s1] EXCEPT !.t = t2, !.read = @ + k]
      <4>1. DOMAIN q = DOMAIN up[u] /\ q.pc # "none"
        BY <1>1
      <4> QED
        BY <3>2, <4>1
    <3>3. ASSUME NEW t1, NEW s1, NEW b,
                 SetUp(u, [[up[u] EXCEPT !.t = t1, !.sent = s1] EXCEPT !.pc = IF b THEN "done" ELSE @])
          PROVE  \E r : DOMAIN r = DOMAIN up[u] /\ r.pc # "none" /\ SetUp(u, r)
      <4> DEFINE q == [[up[u] EXCEPT !.t = t1, !.sent = s1] EXCEPT !.pc = IF b THEN "done" ELSE @]
      <4>1. DOMAIN q = DOMAIN up[u] /\ q.pc # "none"
        BY <1>1
      <4> QED
        BY <3>3, <4>1
    <3> QED
      BY <2>2, <3>1, <3>2, <3>3 DEF Send
  <2> QED
    BY <2>1, <2>2 DEF task_upload
<1>3. PICK r : DOMAIN r = DOMAIN up[u] /\ r.pc # "none" /\ SetUp(u, r)
  BY <1>2
<1>4. UNCHANGED <<load, main>> /\ up' = [up EXCEPT ![u] = r]
  BY <1>3 DEF SetUp
<1>5. DOMAIN up' = Ups /\ up'[u] = r /\ \A v \in Ups : v # u => up'[v] = up[v]
  BY <1>1, <1>4 DEF Shape
<1>6. Ups' = Ups
  BY <1>4 DEF Ups
<1>7. Shape'
  BY <1>1, <1>3, <1>4, <1>5, <1>6 DEF Shape
<1> QED
  BY <1>1, <1>3, <1>4, <1>5, <1>7, CountFrame

LEMMA CountNext ==
  ASSUME CountInv, [Next]_vars
  PROVE  CountInv'
<1>1. CASE Tracker \/ (\E d \in Downs : task_download(d)) \/ UNCHANGED vars
  <2>1. UNCHANGED <<load, main, up>>
    <3>1. CASE Tracker \/ UNCHANGED vars
      BY <3>1 DEF Tracker, vars
    <3>2. ASSUME NEW d \in Downs, task_download(d) PROVE UNCHANGED <<load, main, up>>
      BY <3>2 DEF task_download, Connect, OpenDisk, Transfer, Save, Announce, Announced, Only, TryAgain
    <3> QED
      BY <1>1, <3>1, <3>2
  <2>2. Shape'
    BY <2>1 DEF CountInv, Shape, Ups
  <2> QED
    BY <2>1, <2>2, CountFrame
<1> QED
  BY <1>1, CountMain, CountListen, CountReap, CountUpload DEF Next

LEMMA PeerNext ==
  ASSUME ~DescriptorsRunOut, PeerInv, CountInv, [Next]_vars
  PROVE  PeerInv'
<1>1. CASE Tracker
  BY <1>1, TrackerStep
<1>2. CASE StartDownload
  BY <1>2, StartDownloadStep
<1>3. CASE task_listen
  BY <1>3, ListenStep
<1>4. CASE Reap
  BY <1>4, ReapStep DEF CountInv
<1>5. ASSUME NEW d \in Downs, task_download(d) PROVE PeerInv'
  <2>1. CASE Connect(d)
    BY <2>1, ConnectMoves, QuietMoves DEF PeerInv
  <2>2. CASE OpenDisk(d)
    BY <2>2, OpenDiskMoves, QuietMoves DEF PeerInv
  <2>3. CASE Transfer(d)
    BY <2>3, TransferMoves, QuietMoves DEF PeerInv
  <2>4. CASE Announce(d)
    BY <2>4, AnnounceStep
  <2>5. CASE Announced(d)
    BY <2>5, AnnouncedStep
  <2> QED
    BY <1>5, <2>1, <2>2, <2>3, <2>4, <2>5 DEF task_download
<1>6. ASSUME NEW u \in Ups, task_upload(u) PROVE PeerInv'
  BY <1>6, RequestStep, SendStep DEF task_upload
<1>7. CASE UNCHANGED vars
  <2>1. MainOK' /\ main'.arg >= main.arg
    BY <1>7 DEF PeerInv, MainOK, LoadOK, vars
  <2> QED
    BY <1>7, <2>1, MainFrame DEF PeerInv, NetOK, Req, HaveOK, vars
<1> QED
  BY <1>1, <1>2, <1>3, <1>4, <1>5, <1>6, <1>7 DEF Next

(* While main accepts connections, the uploads it has forked and not       *)
(* waited for are fewer than MaxRequests, apart from those that stand in   *)
(* for downloads it has waited for (the counting in main's loop and        *)
(* wait()), whatever happens to files.                                     *)
THEOREM UploadLimit == Spec => []UploadsBounded
<1>1. CountInv => UploadsBounded
  <2> SUFFICES ASSUME CountInv, main.pc # "wait"
               PROVE  Cardinality(Alive) <= MaxRequests - 1 + Cardinality(ReapedDowns)
    BY DEF UploadsBounded, Alive, ReapedDowns
  <2>1. Cardinality(Alive) \in Nat /\ Cardinality(ReapedDowns) \in Nat /\ MaxRequests \in Nat \ {0}
    BY SizeAssumption, AliveFinite, DownsFinite DEF CountInv, CountOK
  <2> QED
    BY <2>1 DEF CountInv, CountOK
<1>2. CountInv /\ [Next]_vars => CountInv'
  BY CountNext
<1> QED
  BY <1>1, <1>2, CountInit, PTL DEF Spec

LEMMA PeerInvariant ==
  ASSUME ~DescriptorsRunOut
  PROVE  Spec => []PeerInv
<1>1. Init => PeerInv /\ CountInv
  BY PeerInit, CountInit
<1>2. PeerInv /\ CountInv /\ [Next]_vars => (PeerInv /\ CountInv)'
  BY PeerNext, CountNext
<1> QED
  BY <1>1, <1>2, PTL DEF Spec

(* No download overwrites, removes or leaves behind a file that is not its *)
(* own (task_download's loop over names and its unlink), as long as open() *)
(* fails only because a file exists or cannot be made.                     *)
THEOREM FilesKept ==
  ASSUME ~DescriptorsRunOut
  PROVE  Spec => []OwnFilesOnly
<1>1. PeerInv => OwnFilesOnly
  BY DEF PeerInv, FilesOK
<1> QED
  BY <1>1, PeerInvariant, PTL

(* What the tracker lists this peer for is here and whole: the HAVE of a   *)
(* download names a file no process changes any more.                      *)
THEOREM HavesAreTrue ==
  ASSUME ~DescriptorsRunOut
  PROVE  Spec => []HaveIsTrue
<1>1. PeerInv => HaveIsTrue
  <2> SUFFICES ASSUME PeerInv, NEW f \in Files, Self \in ToSet(known[f])
               PROVE  /\ disk[<<f, 0>>].on
                      /\ \A d \in Downs : down[d].pc = "transfer" => down[d].name # <<f, 0>>
    BY DEF HaveIsTrue
  <2>1. Settled(f) /\ FilesOK /\ <<f, 0>> \in Names
    BY NamesOf DEF PeerInv, HaveOK, Whole
  <2>2. ASSUME NEW d \in Downs, down[d].pc = "transfer", down[d].name = <<f, 0>>
        PROVE  disk[<<f, 0>>].owner = d /\ d # 0
    <3>1. d # 0
      BY DEF Downs
    <3>2. ChildOK(d, down[d], disk) /\ down[d].pc \in Kept
      BY <2>1, <2>2 DEF FilesOK, Kept
    <3>3. disk[down[d].name].owner = d
      BY <3>2 DEF ChildOK
    <3> QED
      BY <2>2, <3>1, <3>3
  <2>3. CASE <<f, 0>> \in DOMAIN InitDisk
    BY <2>1, <2>2, <2>3 DEF FilesOK, OwnFilesOnly
  <2>4. ASSUME NEW e \in Downs, down[e].pc \in Saved, down[e].name = <<f, 0>>
        PROVE  /\ disk[<<f, 0>>].on
               /\ \A d \in Downs : down[d].pc = "transfer" => down[d].name # <<f, 0>>
    <3>1. disk[<<f, 0>>].on /\ disk[<<f, 0>>].owner = e
      BY <2>1, <2>4 DEF FilesOK, ChildOK, Kept
    <3>2. down[e].pc # "transfer"
      BY <2>4 DEF Saved
    <3> QED
      BY <2>2, <3>1, <3>2
  <2> QED
    BY <2>1, <2>3, <2>4 DEF Settled
<1> QED
  BY <1>1, PeerInvariant, PTL

(* A download that ended well has saved all its peer sent, in order; an    *)
(* upload has sent a beginning of its file, all of it if it ended well     *)
(* (read_to_taskbuf and write_from_taskbuf around the circular buffer).    *)
THEOREM TransfersWhole ==
  ASSUME ~DescriptorsRunOut
  PROVE  Spec => []SavedWhole
<1>1. PeerInv => SavedWhole
  <2> SUFFICES ASSUME PeerInv PROVE SavedWhole
    OBVIOUS
  <2>1. ASSUME NEW d \in Downs, down[d].pc \in Saved
        PROVE  LET f == disk[down[d].name] IN
               f.on /\ f.owner = d /\ f.data = Units(down[d].len) /\ f.data # <<>>
    <3> DEFINE r == down[d]
    <3>1. ChildOK(d, r, disk) /\ r \in Task
      BY DEF PeerInv, FilesOK
    <3>2. disk[r.name].on /\ disk[r.name].owner = d /\ disk[r.name].data = Units(r.len) /\ r.len > 0
      BY <2>1, <3>1 DEF ChildOK, Kept
    <3>3. r.len \in Nat
      BY <3>1 DEF Task
    <3>4. Len(Units(r.len)) = r.len
      BY <3>3, UnitsSeq
    <3>5. Units(r.len) # <<>>
      BY <3>2, <3>3, <3>4, EmptySeq
    <3> QED
      BY <3>2, <3>5
  <2>2. ASSUME NEW u \in Ups, up[u].pc \in {"send", "done", "broken"}, up[u].name # NoName
        PROVE  /\ IsPrefix(up[u].sent, disk[up[u].name].data)
               /\ up[u].pc = "done" => up[u].sent = disk[up[u].name].data
    <3> DEFINE r == up[u]  data == disk[r.name].data  h == r.t.head
    <3>1. UpOK(r, disk) /\ r \in Upload
      BY DEF PeerInv, UpsOK
    <3>2. /\ Ring(r.t, data) /\ r.sent = [i \in 1..h |-> data[i]] /\ (r.pc = "done" => h = Len(data))
          /\ \E f \in Files : r.name = <<f, 0>>
      BY <2>2, <3>1 DEF UpOK
    <3>3. data \in Seq(Nat) /\ Len(data) \in Nat
      <4>1. r.name \in Names
        BY <3>2, NamesOf
      <4>2. disk[r.name] \in File
        BY <4>1 DEF PeerInv, FilesOK
      <4> QED
        BY <4>2, LenProperties DEF File
    <3>4. h \in Nat /\ h <= Len(data)
      BY <3>2, <3>3 DEF Ring, Window, Buffer
    <3> HIDE DEF data, h
    <3>5. r.sent \in Seq(Nat) /\ Len(r.sent) = h
      <4>1. \A i \in 1..h : i \in 1..Len(data)
        BY <3>3, <3>4
      <4>2. \A i \in 1..h : data[i] \in Nat
        BY <3>3, <4>1, ElementOfSeq
      <4> QED
        BY <3>2, <3>4, <4>2
    <3>6. SubSeq(r.sent, 1, h) = [i \in 1..h |-> data[i]]
      BY <3>2, <3>4, <3>5
    <3>7. SubSeq(data, 1, h) = [i \in 1..h |-> data[i]]
      BY <3>3, <3>4
    <3>8. IsPrefix(r.sent, data)
      BY <3>4, <3>5, <3>6, <3>7 DEF IsPrefix
    <3>9. h = Len(data) => r.sent = data
      BY <3>2, <3>3, <3>4
    <3> QED
      BY <3>2, <3>8, <3>9 DEF data
  <2> QED
    BY <2>1, <2>2 DEF SavedWhole
<1> QED
  BY <1>1, PeerInvariant, PTL
=============================================================================
