------------------------------ MODULE OspPeer ------------------------------
(***************************************************************************)
(* The file-sharing peer of P2P/osppeer.c: a main process that asks the    *)
(* tracker for peers and forks a child for each download, then one for     *)
(* each upload; the children share its directory and, for their HAVE       *)
(* messages, its connection to the tracker.  Data is counted in units,     *)
(* which are numbered so that their order shows; tracker and peers are     *)
(* external.  The evil modes are left out.                                 *)
(***************************************************************************)
EXTENDS Integers, Sequences, FiniteSets, SequencesExt

CONSTANTS
  Loads,         \* [args, uploads]: files to download, bound on uploads
  Listed,        \* the peers the tracker knows for each file, in order
  Sends,         \* units each peer has to send
  Self,          \* this peer
  InitDisk,      \* files in the directory at the start: name -> units
  Files,
  TASKBUFSIZ, MAX_FILE_SIZE, MAX_SAMPLES, MIN_RATE,
  MaxNames,      \* 50: names tried for a downloaded file
  MaxRequests,   \* 100: requests after which main waits for a child
  DescriptorsRunOut  \* may open() fail although the file exists?

ASSUME SizeAssumption ==
  /\ {TASKBUFSIZ, MAX_SAMPLES, MaxNames, MaxRequests} \subseteq Nat \ {0}
  /\ {MAX_FILE_SIZE, MIN_RATE} \subseteq Nat /\ DescriptorsRunOut \in BOOLEAN

(* The arguments and the tracker's lists name files and peers; "" stands   *)
(* for no file; before this peer registers, the tracker does not list it.  *)
ASSUME InputAssumption ==
  /\ Loads \subseteq [args : Seq(Files), uploads : Nat] /\ "" \notin Files
  /\ Sends \in [DOMAIN Sends -> Nat] /\ Listed \in [Files -> Seq(DOMAIN Sends \ {Self})]
  /\ InitDisk \in [DOMAIN InitDisk -> Nat]

VARIABLES
  load, main,
  down,      \* the download children, by argument
  up,        \* the upload children
  disk,      \* the directory
  requests, replies,  \* lines on the connection to the tracker
  known      \* the tracker's lists of peers

vars == <<load, main, down, up, disk, requests, replies, known>>

Names == Files \X (0..(MaxNames - 1))   \* <<f, 0>> is f, <<f, i>> is f~i~
Downs == 1..Len(load.args)
Ups   == 1..load.uploads
OK    == "200"
Error == "500"
NoName == <<"", 0>>
Least(a, b) == IF a < b THEN a ELSE b
Units(n) == [i \in 1..n |-> i]

EmptyBuf == [buf |-> [i \in 0..(TASKBUFSIZ - 1) |-> 0], head |-> 0, tail |-> 0]
NoTask == [pc |-> "none", file |-> "", peers |-> <<>>, len |-> 0, got |-> 0, t |-> EmptyBuf,
  total |-> 0, name |-> NoName, samples |-> <<>>, lines |-> <<>>]
NoUpload == [pc |-> "none", t |-> EmptyBuf, name |-> NoName, read |-> 0, sent |-> <<>>]

(* Connected, listening and with the files of the directory registered:    *)
(* start_tracker, start_listen and register_files are over.                *)
Init ==
  /\ load \in Loads
  /\ main = [pc |-> "want", arg |-> 1, num_req |-> 1, lines |-> <<>>, reaped |-> {}]
  /\ down = [d \in Downs |-> NoTask] /\ up = [u \in Ups |-> NoUpload]
  /\ disk = [n \in Names |-> [on |-> n \in DOMAIN InitDisk, owner |-> 0,
              data |-> IF n \in DOMAIN InitDisk THEN Units(InitDisk[n]) ELSE <<>>]]
  /\ requests = <<>> /\ replies = <<>>
  /\ known = [f \in Files |-> IF <<f, 0>> \in DOMAIN InitDisk THEN Append(Listed[f], Self) ELSE Listed[f]]

-----------------------------------------------------------------------------
(* The task buffer.  head and tail only grow; a full buffer has room 0,    *)
(* and reading 0 bytes looks like the end of the file.                     *)
headpos(t) == t.head % TASKBUFSIZ
tailpos(t) == t.tail % TASKBUFSIZ

room(t) == IF t.head = t.tail \/ headpos(t) < tailpos(t)
           THEN TASKBUFSIZ - tailpos(t) ELSE headpos(t) - tailpos(t)
ready(t) == IF t.head = t.tail THEN 0
            ELSE IF headpos(t) < tailpos(t) THEN tailpos(t) - headpos(t) ELSE TASKBUFSIZ - headpos(t)

(* k units of src that follow the from-th one come into the buffer. *)
read_to_taskbuf(t, src, from, k) ==
  [t EXCEPT !.tail = @ + k, !.buf = [i \in DOMAIN t.buf |->
     IF i \in tailpos(t)..(tailpos(t) + k - 1) THEN src[from + 1 + i - tailpos(t)] ELSE t.buf[i]]]
(* k units leave it. *)
write_from_taskbuf(t, k) ==
  [t |-> [t EXCEPT !.head = @ + k], out |-> [i \in 1..k |-> t.buf[headpos(t) + i - 1]]]

-----------------------------------------------------------------------------
(* The tracker (external) answers the requests on the connection in order. *)
Tracker ==
  /\ requests # <<>>
  /\ LET r == Head(requests)
     IN IF r.cmd = "WANT"
        THEN /\ replies' = replies \o (IF known[r.file] = <<>> THEN <<Error>> ELSE Append(known[r.file], OK))
             /\ UNCHANGED known
        ELSE /\ replies' = Append(replies, OK)
             /\ known' = [known EXCEPT ![r.file] = IF Self \in ToSet(@) THEN @ ELSE Append(@, Self)]
  /\ requests' = Tail(requests)
  /\ UNCHANGED <<load, main, down, up, disk>>

(* read_tracker_response: whoever reads the connection takes some of the   *)
(* lines in it, and is done when it has seen a terminator line.            *)
Terminator(l) == l \in {OK, Error}
Complete(lines) == \E i \in DOMAIN lines : Terminator(lines[i])
SplitPos(lines) == CHOOSE i \in DOMAIN lines :
  Terminator(lines[i]) /\ \A j \in 1..(i - 1) : ~Terminator(lines[j])
ReadLines(k) == SubSeq(replies, 1, k)

(* main: start_download.  The peers are pushed on the list one by one. *)
MainWant ==
  /\ main.pc = "want" /\ main.arg <= Len(load.args)
  /\ requests' = Append(requests, [cmd |-> "WANT", file |-> load.args[main.arg]])
  /\ main' = [main EXCEPT !.pc = "reply", !.lines = <<>>]
  /\ UNCHANGED <<load, down, up, disk, replies, known>>
MainReply ==
  /\ main.pc = "reply" /\ ~Complete(main.lines)
  /\ \E k \in 1..Len(replies) :
       /\ main' = [main EXCEPT !.lines = @ \o ReadLines(k)]
       /\ replies' = SubSeq(replies, k + 1, Len(replies))
  /\ UNCHANGED <<load, down, up, disk, requests, known>>
NextArg == [main EXCEPT !.pc = "want", !.arg = @ + 1, !.lines = <<>>]
Refused == /\ main.pc = "reply" /\ Complete(main.lines)
           /\ main.lines[SplitPos(main.lines)] = Error
           /\ main' = NextArg
           /\ UNCHANGED <<load, down, up, disk, requests, replies, known>>
Accepted == /\ main.pc = "reply" /\ Complete(main.lines)
            /\ main.lines[SplitPos(main.lines)] = OK
ForkDownload ==
  /\ Accepted /\ main' = NextArg
  /\ down' = [down EXCEPT ![main.arg] = [NoTask EXCEPT !.pc = "start", !.file = load.args[main.arg],
       !.peers = Reverse(SubSeq(main.lines, 1, SplitPos(main.lines) - 1))]]
  /\ UNCHANGED <<load, up, disk, requests, replies, known>>
NoForkDownload == /\ Accepted /\ main' = NextArg
                  /\ UNCHANGED <<load, down, up, disk, requests, replies, known>>
StartDownload == MainWant \/ MainReply \/ Refused \/ ForkDownload \/ NoForkDownload

-----------------------------------------------------------------------------
(* task_download, for child d.                                             *)
Set(d, r) == down' = [down EXCEPT ![d] = r]
Only(d, r) == Set(d, r) /\ UNCHANGED <<load, main, up, disk, requests, replies, known>>
Fresh(r, pc) == [NoTask EXCEPT !.pc = pc, !.file = r.file, !.peers = r.peers]

(* task_pop_peer after unlinking the file. *)
task_pop_peer(r) == [Fresh(r, "start") EXCEPT !.peers = IF r.peers = <<>> THEN <<>> ELSE Tail(r.peers)]
unlinked(n) == [disk EXCEPT ![n] = [on |-> FALSE, owner |-> 0, data |-> <<>>]]

(* Mutant: the file stays. *)
TryAgainKeeps(d, r) == Only(d, task_pop_peer(r))

TryAgain(d, r) ==
  /\ Set(d, task_pop_peer(r))
  /\ disk' = IF r.name = NoName THEN disk ELSE unlinked(r.name)
  /\ UNCHANGED <<load, main, up, requests, replies, known>>

Connect(d) ==
  LET r == down[d]
  IN /\ r.pc = "start"
     /\ \/ r.peers = <<>> /\ Only(d, Fresh(r, "failed"))
        \/ r.peers # <<>> /\ TryAgain(d, r)           \* it is this peer, or refuses
        \/ /\ r.peers # <<>> /\ Head(r.peers) # Self  \* it will send len units
           /\ \E n \in 0..Sends[Head(r.peers)] :
                Only(d, [r EXCEPT !.pc = "open", !.len = n, !.name = <<r.file, 0>>])

(* One round of the loop that looks for a free name. *)
OpenDisk(d) ==
  LET r == down[d]  n == r.name
  IN /\ r.pc = "open"
     /\ \/ /\ ~disk[n].on
           /\ disk' = [disk EXCEPT ![n] = [on |-> TRUE, owner |-> d, data |-> <<>>]]
           /\ Set(d, [r EXCEPT !.pc = "transfer", !.samples = [i \in 1..MAX_SAMPLES |-> 8 * MIN_RATE]])
           /\ UNCHANGED <<load, main, up, requests, replies, known>>
        \/ /\ disk[n].on
           /\ Only(d, IF n[2] + 1 < MaxNames THEN [r EXCEPT !.name[2] = @ + 1] ELSE Fresh(r, "failed"))
        \/ /\ ~disk[n].on \/ DescriptorsRunOut        \* any error but EEXIST
           /\ TryAgain(d, r)

(* The rate is an average over the last reads; the oldest sample goes. *)
sampled(r, k) == [r EXCEPT !.samples = Append(Tail(@), k)]
TooSlow(r) == FoldLeft(+, 0, r.samples) \div MAX_SAMPLES < MIN_RATE

(* What the buffer already holds is not counted. *)
TooLarge(r, k) == r.total + k > MAX_FILE_SIZE

(* The second half of a round: k units were read, r has them sampled. *)
Save(d, r, k) ==
  \/ (TooSlow(r) \/ TooLarge(r, k)) /\ TryAgain(d, r)
  \/ ~TooSlow(r) /\ ~TooLarge(r, k) /\ TryAgain(d, r) \* disk write error
  \/ /\ ~TooSlow(r) /\ ~TooLarge(r, k)
     /\ \E j \in 1..ready(r.t) :
          LET w == write_from_taskbuf(r.t, j)
          IN /\ Set(d, [r EXCEPT !.t = w.t, !.total = @ + j])
             /\ disk' = IF disk[r.name].owner # d THEN disk
                        ELSE [disk EXCEPT ![r.name].data = @ \o w.out]
     /\ UNCHANGED <<load, main, up, requests, replies, known>>

(* read() gave nothing: the end of the file if the buffer is empty too.    *)
(* Mutant: whatever the buffer holds. *)
EndedEarly(t, left) == left = 0 \/ room(t) = 0
Ended(t, left) == left = 0 /\ t.head = t.tail

Transfer(d) ==
  LET r == down[d]  left == r.len - r.got
  IN /\ r.pc = "transfer"
     /\ \/ TryAgain(d, r)                             \* peer read error
        \/ \E k \in 1..(Least(room(r.t), left)) :
             Save(d, sampled([r EXCEPT !.t = read_to_taskbuf(r.t, Units(r.len), r.got, k), !.got = @ + k], k), k)
        \/ /\ (room(r.t) = 0 \/ left = 0) /\ ~Ended(r.t, left)
           /\ Save(d, sampled(r, 0), 0)
        \/ /\ Ended(r.t, left)
           /\ IF r.total = 0 THEN TryAgain(d, r) ELSE Only(d, [r EXCEPT !.pc = "got"])

(* The tracker is told, on the shared connection, of a file that got its   *)
(* own name.                                                               *)
(* Mutant: it is told of every file. *)
IsPublic(r) == TRUE
HasOwnName(r) == r.name[2] = 0

Announce(d) ==
  LET r == down[d]
  IN /\ r.pc = "got"
     /\ IF HasOwnName(r)
        THEN /\ requests' = Append(requests, [cmd |-> "HAVE", file |-> r.file])
             /\ Set(d, [r EXCEPT !.pc = "reply", !.lines = <<>>])
        ELSE /\ Set(d, [r EXCEPT !.pc = "saved"]) /\ UNCHANGED requests
     /\ UNCHANGED <<load, main, up, disk, replies, known>>
Announced(d) ==
  LET r == down[d]
  IN /\ r.pc = "reply"
     /\ \E k \in 1..Len(replies) :
          LET ls == r.lines \o ReadLines(k)
          IN /\ Set(d, [r EXCEPT !.lines = ls, !.pc = IF Complete(ls) THEN "saved" ELSE @])
             /\ replies' = SubSeq(replies, k + 1, Len(replies))
     /\ UNCHANGED <<load, main, up, disk, requests, known>>
task_download(d) == Connect(d) \/ OpenDisk(d) \/ Transfer(d) \/ Announce(d) \/ Announced(d)

-----------------------------------------------------------------------------
(* main's loop over connections and the children it waits for.             *)
Zombies == {<<"down", d>> : d \in {x \in Downs : down[x].pc \in {"failed", "saved"}}}
           \cup {<<"up", u>> : u \in {x \in Ups : up[x].pc \in {"done", "broken"}}}
Forked == {<<"down", d>> : d \in {x \in Downs : down[x].pc # "none"}}
          \cup {<<"up", u>> : u \in {x \in Ups : up[x].pc # "none"}}
Listening == main.pc = "want" /\ main.arg > Len(load.args)

(* Mutant: main counts down without waiting. *)
CountedOnly(m) == [m EXCEPT !.num_req = IF @ + 1 > MaxRequests THEN @ ELSE @ + 1]
Counted(m) == [m EXCEPT !.num_req = @ + 1, !.pc = IF m.num_req + 1 > MaxRequests THEN "wait" ELSE @]

task_listen ==
  /\ Listening
  /\ \E u \in Ups :
       /\ up[u].pc = "none" /\ \A v \in 1..(u - 1) : up[v].pc # "none"
       /\ \/ up' = [up EXCEPT ![u].pc = "request"]
          \/ up' = up                                 \* fork failed
  /\ main' = Counted(main)
  /\ UNCHANGED <<load, down, disk, requests, replies, known>>
Reap ==
  /\ main.pc = "wait"
  /\ LET m == [main EXCEPT !.pc = "want", !.num_req = @ - 1]
     IN \/ \E z \in Zombies \ main.reaped : main' = [m EXCEPT !.reaped = @ \cup {z}]
        \/ Forked \subseteq main.reaped /\ main' = m  \* no child: wait() returns -1
  /\ UNCHANGED <<load, down, up, disk, requests, replies, known>>

(* task_upload, for child u: the request is for a file the tracker says is *)
(* here, or is refused; then rounds of writing and reading.                *)
SetUp(u, r) == /\ up' = [up EXCEPT ![u] = r]
               /\ UNCHANGED <<load, main, down, disk, requests, replies, known>>
Request(u) ==
  /\ up[u].pc = "request"
  /\ \/ SetUp(u, [up[u] EXCEPT !.pc = "broken"])
     \/ \E f \in Files : /\ Self \in ToSet(known[f]) /\ disk[<<f, 0>>].on
                         /\ SetUp(u, [up[u] EXCEPT !.pc = "send", !.name = <<f, 0>>])
Send(u) ==
  LET r == up[u]  data == disk[r.name].data
  IN /\ r.pc = "send"
     /\ \/ SetUp(u, [r EXCEPT !.pc = "broken"])       \* read or write error
        \/ \E j \in Least(1, ready(r.t))..ready(r.t) :
             LET w == write_from_taskbuf(r.t, j)
                 left == Len(data) - r.read
                 after == [r EXCEPT !.t = w.t, !.sent = @ \o w.out]
             IN \/ \E k \in 1..Least(room(w.t), left) :
                     SetUp(u, [after EXCEPT !.t = read_to_taskbuf(w.t, data, r.read, k), !.read = @ + k])
                \/ /\ Least(room(w.t), left) = 0
                   /\ SetUp(u, [after EXCEPT !.pc = IF w.t.head = w.t.tail THEN "done" ELSE @])
task_upload(u) == Request(u) \/ Send(u)

Next == \/ Tracker \/ StartDownload \/ task_listen \/ Reap
        \/ \E d \in Downs : task_download(d)
        \/ \E u \in Ups : task_upload(u)
Spec == Init /\ [][Next]_vars

-----------------------------------------------------------------------------
(* A download that ended well has on disk, in order, all that its peer     *)
(* sent, through a circular buffer smaller than the file and with reads    *)
(* and writes of any size; an upload that ended well has sent all of its   *)
(* file, and a broken one the beginning of it.                             *)
Saved == {"got", "reply", "saved"}
SavedWhole ==
  /\ \A d \in Downs : down[d].pc \in Saved => LET f == disk[down[d].name] IN
       f.on /\ f.owner = d /\ f.data = Units(down[d].len) /\ f.data # <<>>
  /\ \A u \in Ups : up[u].pc \in {"send", "done", "broken"} /\ up[u].name # NoName =>
       /\ IsPrefix(up[u].sent, disk[up[u].name].data)
       /\ up[u].pc = "done" => up[u].sent = disk[up[u].name].data

(* The directory holds the files it held at the start and one file for     *)
(* each download that is under way or ended well: nothing partial is left  *)
(* of the peers that failed, and no download removes a file that is not    *)
(* its own ("If the filename already exists, save the file in a name like  *)
(* foo.txt~1~").                                                           *)
OwnFilesOnly ==
  \A n \in Names :
    /\ n \in DOMAIN InitDisk => disk[n].on /\ disk[n].owner = 0
    /\ disk[n].on /\ n \notin DOMAIN InitDisk =>
         LET d == disk[n].owner IN d \in Downs /\ down[d].name = n /\ down[d].pc \in Saved \cup {"transfer"}

(* The tracker sends others to this peer only for files that are here      *)
(* whole: no download under way has the name.                              *)
HaveIsTrue ==
  \A f \in Files : Self \in ToSet(known[f]) =>
    /\ disk[<<f, 0>>].on
    /\ \A d \in Downs : down[d].pc = "transfer" => down[d].name # <<f, 0>>

(* "wait for processes to finish before spawning another if processes      *)
(* exceed 100": while main accepts connections there are fewer than that   *)
(* many upload processes, not counting those that stand in for downloads   *)
(* whose end it took for theirs.                                           *)
UploadsBounded ==
  main.pc # "wait" =>
    LET uploads == {u \in Ups : up[u].pc # "none" /\ <<"up", u>> \notin main.reaped}
        downs == {z \in main.reaped : z[1] = "down"}
    IN Cardinality(uploads) <= MaxRequests - 1 + Cardinality(downs)
=============================================================================
