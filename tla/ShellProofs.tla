---------------------------- MODULE ShellProofs ----------------------------
(***************************************************************************)
(* Theorems about ShellExec, for every script the parser may build, every  *)
(* number of processes and descriptors, and every interleaving.            *)
(***************************************************************************)
EXTENDS ShellExec, NatMin, TLAPS

(* The shapes of frames, stacks and entries of the process table. *)
FrameFields == {"c", "pc", "in", "out", "pid", "fd", "code", "logs"}
ProcFields == {"st", "parent", "stack", "fds", "status", "prog", "code", "can_write"}
IsFrame(f) == DOMAIN f = FrameFields /\ {1, 2} \subseteq DOMAIN f.pid /\ {1, 2} \subseteq DOMAIN f.fd
IsProc(r) == DOMAIN r = ProcFields
IsTable(fds) == fds = [i \in 0..(NFD - 1) |-> fds[i]]
IsStack(s) ==
  /\ Len(s) \in Nat /\ s = [k \in 1..Len(s) |-> s[k]]
  /\ \A k \in 1..Len(s) : IsFrame(s[k])

(* The children a frame has still to wait for. *)
TypeOf(f) == script.node[f.c].type
WaitsFor(f, k) ==
  \/ k = 1 /\ TypeOf(f) = "PIPE" /\ f.pc \in {"fork_r", "parent", "wait"}
  \/ k = 2 /\ TypeOf(f) = "PIPE" /\ f.pc \in {"parent", "wait", "wait_r"}
  \/ k = 1 /\ TypeOf(f) \in {"SUBSHELL", "SIMPLE"} /\ f.pc = "wait"
Waits(f) == {q \in {f.pid[1], f.pid[2]} : f.c # 0 /\ \E k \in {1, 2} : WaitsFor(f, k) /\ q = f.pid[k]}

(* The frame f of main(), and of a call of recursive_execute. *)
MainFrameOK(f) == f.c = 0 /\ f.pc \in {"make", "read", "log", "newline", "fin"} /\ (f.pc = "make" \/ script.ok)
CallFrameOK(f) ==
  /\ f.c \in DOMAIN script.node /\ f.pc \notin {"make", "read"} /\ script.ok /\ Waits(f) \subseteq Pids

(* Where the frames below the top are. *)
Calling == {"read", "second", "after", "branch", "then", "else", "test", "run"}

StackOK(p, s) ==
  /\ IsStack(s)
  /\ \A k \in 1..Len(s) : IF p = Main /\ k = Len(s) THEN MainFrameOK(s[k]) ELSE CallFrameOK(s[k])
  /\ \A k \in 2..Len(s) : s[k].pc \in Calling
  /\ \A k \in 1..Len(s) : s[k].pc = "start" => p # Main

EntryOK(p, r) ==
  /\ IsProc(r) /\ StackOK(p, r.stack)
  /\ r.st \in {"free", "shell", "prog", "zombie"} /\ (r.st # "shell" => r.stack = <<>>)
  /\ r.parent \in Pids \cup {0} /\ IsTable(r.fds)
  /\ r.can_write \in BOOLEAN /\ (r.can_write => profiling)
  /\ p = Main => r.parent = 0 /\ r.st # "free" /\ (r.st = "shell" => r.stack # <<>>)

TableOK ==
  /\ script.ok => WellFormed(script)
  /\ profiling \in BOOLEAN /\ failures \in Nat /\ DOMAIN proc = Pids
  /\ \A p \in Pids : EntryOK(p, proc[p])

(* The children a process has still to wait for: its frames below the top  *)
(* have none.                                                              *)
Awaits(r) == IF r.st = "shell" /\ r.stack # <<>> THEN Waits(r.stack[1]) ELSE {}

ChildrenAwaited ==
  \A q \in Pids : proc[q].st # "free" /\ proc[q].parent # 0 => q \in Awaits(proc[proc[q].parent])

(* Only the children of a process that could not fork become orphans. *)
NoOrphans ==
  failures = 0 => \A q \in Pids \ {Main} : proc[q].st # "free" => proc[q].parent # 0

(* Parents come before their children. *)
Ranked == \E rank \in [Pids -> Nat] : \A q \in Pids :
  proc[q].st # "free" /\ proc[q].parent # 0 => rank[proc[q].parent] < rank[q]

(* The descriptors a frame has opened and has to close. *)
Keeps(f) == {i \in 0..(NFD - 1) : f.c # 0 /\
  \/ /\ TypeOf(f) \in {"SUBSHELL", "IF", "WHILE", "UNTIL", "SIMPLE"} /\ f.pc # "enter"
     /\ \/ script.node[f.c].in # "" /\ i = f.in
        \/ script.node[f.c].out # "" /\ i = f.out
  \/ TypeOf(f) = "PIPE" /\ f.pc \in {"fork_r", "parent"} /\ i \in {f.fd[1], f.fd[2]}}

(* With the stack s, a table of descriptors holds what main() started with *)
(* and what one frame each keeps.                                          *)
FdsOK(s, fds) ==
  /\ fds[0] = <<Tty, "r">> /\ fds[1] = <<Tty, "w">>
  /\ \A k \in 1..Len(s) : \A i \in Keeps(s[k]) :
       i > 1 /\ fds[i] # Closed /\ \A l \in 1..Len(s) : i \in Keeps(s[l]) => l = k
  /\ \A i \in 2..(NFD - 1) : fds[i] = Closed \/ \E k \in 1..Len(s) : i \in Keeps(s[k])

DescriptorsKept ==
  proc[Main].st = "shell" => ColonLeaks \/ FdsOK(proc[Main].stack, proc[Main].fds)

(* The log: who is between its line and its newline has the lock, and once *)
(* main() has written its own line nobody is left who could lose one.      *)
Newline(r) == r.st = "shell" /\ r.stack # <<>> /\ r.stack[1].pc = "newline"
LogLast(r) == r.st = "shell" /\ r.stack # <<>> /\ r.stack[1].c = 0 /\ r.stack[1].pc \in {"newline", "fin"}
LogOK ==
  /\ DOMAIN log = {"room", "open", "lost", "lock"}
  /\ {log.open, log.lost} \subseteq BOOLEAN /\ log.room \in Nat /\ log.lock \in Pids \cup {0}
  /\ log.open <=> log.lock # 0
  /\ \A p \in Pids : Newline(proc[p]) <=> log.lock = p
  /\ log.lost => log.room = 0 /\ profiling
  /\ LogLast(proc[Main]) /\ log.lost /\ failures = 0 => ~proc[Main].can_write

-----------------------------------------------------------------------------
(* Stacks. *)
LEMMA StackIsSeq ==
  ASSUME NEW s, IsStack(s)
  PROVE  s \in Seq({s[k] : k \in 1..Len(s)})
<1> DEFINE S == {s[k] : k \in 1..Len(s)}
<1>1. s \in [1..Len(s) -> S] /\ Len(s) \in Nat
  BY DEF IsStack
<1> QED
  BY <1>1

LEMMA NoFrames == IsStack(<<>>) /\ Len(<<>>) = 0
BY DEF IsStack

LEMMA TopReplaced ==
  ASSUME NEW s, IsStack(s), s # <<>>, NEW f, IsFrame(f)
  PROVE  /\ IsStack(<<f>> \o Tail(s)) /\ Len(<<f>> \o Tail(s)) = Len(s) /\ Len(s) >= 1
         /\ (<<f>> \o Tail(s))[1] = f
         /\ \A k \in 2..Len(s) : (<<f>> \o Tail(s))[k] = s[k]
<1> DEFINE S == {s[k] : k \in 1..Len(s)} \cup {f}
           t == <<f>> \o Tail(s)
<1>1. s \in Seq(S) /\ <<f>> \in Seq(S) /\ Len(s) \in Nat
  <2>1. s \in Seq({s[k] : k \in 1..Len(s)})
    BY StackIsSeq
  <2> QED
    BY <2>1
<1>2. Tail(s) \in Seq(S) /\ Len(Tail(s)) = Len(s) - 1 /\ Len(s) >= 1
      /\ \A k \in 1..(Len(s) - 1) : Tail(s)[k] = s[k + 1]
  BY <1>1
<1>3. t \in Seq(S) /\ Len(t) = Len(s)
  BY <1>1, <1>2
<1>4. t[1] = f /\ \A k \in 2..Len(s) : t[k] = s[k]
  BY <1>1, <1>2
<1>5. t = [k \in 1..Len(t) |-> t[k]]
  BY <1>3
<1>6. \A k \in 1..Len(t) : IsFrame(t[k])
  <2> SUFFICES ASSUME NEW k \in 1..Len(t) PROVE IsFrame(t[k])
    OBVIOUS
  <2>1. CASE k = 1
    BY <1>4, <2>1
  <2>2. CASE k # 1
    BY <1>1, <1>3, <1>4, <2>2 DEF IsStack
  <2> QED
    BY <2>1, <2>2
<1> QED
  BY <1>2, <1>3, <1>4, <1>5, <1>6 DEF IsStack

LEMMA TopCalls ==
  ASSUME NEW s, IsStack(s), s # <<>>, NEW f, IsFrame(f), NEW g, IsFrame(g)
  PROVE  /\ IsStack(<<g, f>> \o Tail(s)) /\ Len(<<g, f>> \o Tail(s)) = Len(s) + 1 /\ Len(s) >= 1
         /\ (<<g, f>> \o Tail(s))[1] = g /\ (<<g, f>> \o Tail(s))[2] = f
         /\ \A k \in 3..(Len(s) + 1) : (<<g, f>> \o Tail(s))[k] = s[k - 1]
<1> DEFINE S == {s[k] : k \in 1..Len(s)} \cup {f, g}
           t == <<g, f>> \o Tail(s)
<1>1. s \in Seq(S) /\ <<g, f>> \in Seq(S) /\ Len(s) \in Nat
  <2>1. s \in Seq({s[k] : k \in 1..Len(s)})
    BY StackIsSeq
  <2> QED
    BY <2>1
<1>2. Tail(s) \in Seq(S) /\ Len(Tail(s)) = Len(s) - 1 /\ Len(s) >= 1
      /\ \A k \in 1..(Len(s) - 1) : Tail(s)[k] = s[k + 1]
  BY <1>1
<1>3. t \in Seq(S) /\ Len(t) = Len(s) + 1
  BY <1>1, <1>2
<1>4. t[1] = g /\ t[2] = f /\ \A k \in 3..(Len(s) + 1) : t[k] = s[k - 1]
  BY <1>1, <1>2
<1>5. t = [k \in 1..Len(t) |-> t[k]]
  BY <1>3
<1>6. \A k \in 1..Len(t) : IsFrame(t[k])
  <2> SUFFICES ASSUME NEW k \in 1..Len(t) PROVE IsFrame(t[k])
    OBVIOUS
  <2>1. CASE k \in {1, 2}
    BY <1>4, <2>1
  <2>2. CASE k \notin {1, 2}
    <3>1. k \in 3..(Len(s) + 1) /\ k - 1 \in 1..Len(s)
      BY <1>1, <1>3, <2>2
    <3> QED
      BY <1>4, <3>1 DEF IsStack
  <2> QED
    BY <2>1, <2>2
<1> QED
  BY <1>2, <1>3, <1>4, <1>5, <1>6 DEF IsStack

LEMMA TopPopped ==
  ASSUME NEW s, IsStack(s), s # <<>>
  PROVE  /\ IsStack(Tail(s)) /\ Len(Tail(s)) = Len(s) - 1 /\ Len(s) >= 1 /\ Head(s) = s[1]
         /\ \A k \in 1..(Len(s) - 1) : Tail(s)[k] = s[k + 1]
<1> DEFINE S == {s[k] : k \in 1..Len(s)}
<1>1. s \in Seq(S) /\ Len(s) \in Nat
  BY StackIsSeq DEF IsStack
<1>2. Tail(s) \in Seq(S) /\ Len(Tail(s)) = Len(s) - 1 /\ Len(s) >= 1 /\ Head(s) = s[1]
      /\ \A k \in 1..(Len(s) - 1) : Tail(s)[k] = s[k + 1]
  BY <1>1
<1>3. Tail(s) = [k \in 1..Len(Tail(s)) |-> Tail(s)[k]]
  <2>1. \A t \in Seq(S) : t = [k \in 1..Len(t) |-> t[k]]
    OBVIOUS
  <2> QED
    BY <1>2, <2>1, Zenon
<1>4. ASSUME NEW k \in 1..Len(Tail(s)) PROVE IsFrame(Tail(s)[k])
  <2>1. k + 1 \in 1..Len(s) /\ Tail(s)[k] = s[k + 1]
    BY <1>1, <1>2
  <2> QED
    BY <2>1 DEF IsStack
<1> QED
  BY <1>1, <1>2, <1>3, <1>4 DEF IsStack
-----------------------------------------------------------------------------
(* The frame a process works on: main's own has no command. *)
LEMMA TopFacts ==
  ASSUME TableOK, NEW p \in Pids, proc[p].st = "shell", proc[p].stack # <<>>
  PROVE  /\ IsProc(proc[p]) /\ IsStack(proc[p].stack) /\ IsTable(proc[p].fds)
         /\ Top(p) = proc[p].stack[1] /\ Len(proc[p].stack) >= 1 /\ IsFrame(Top(p))
         /\ Top(p).c = 0 => MainFrameOK(Top(p)) /\ p = Main /\ Len(proc[p].stack) = 1
         /\ Top(p).c # 0 => CallFrameOK(Top(p)) /\ WellFormed(script)
                            /\ (p # Main \/ Len(proc[p].stack) > 1)
<1> DEFINE s == proc[p].stack
<1>1. EntryOK(p, proc[p])
  BY DEF TableOK
<1>2. IsProc(proc[p]) /\ IsStack(s) /\ IsTable(proc[p].fds)
      /\ \A k \in 1..Len(s) : IF p = Main /\ k = Len(s) THEN MainFrameOK(s[k]) ELSE CallFrameOK(s[k])
  BY <1>1 DEF EntryOK, StackOK
<1>3. Len(s) >= 1 /\ Top(p) = s[1] /\ Len(s) \in Nat
  BY <1>2, TopPopped DEF Top, IsStack
<1>4. IsFrame(Top(p)) /\ (p = Main /\ Len(s) = 1 => MainFrameOK(Top(p)))
      /\ (~(p = Main /\ Len(s) = 1) => CallFrameOK(Top(p)))
  <2>1. 1 \in 1..Len(s)
    BY <1>3
  <2>2. IsFrame(s[1])
    BY <1>2, <2>1 DEF IsStack
  <2>3. IF p = Main /\ 1 = Len(s) THEN MainFrameOK(s[1]) ELSE CallFrameOK(s[1])
    BY <1>2, <2>1
  <2> QED
    BY <1>3, <2>2, <2>3
<1>5. CallFrameOK(Top(p)) => Top(p).c # 0 /\ WellFormed(script)
  BY DEF CallFrameOK, TableOK, WellFormed
<1>6. MainFrameOK(Top(p)) => Top(p).c = 0
  BY DEF MainFrameOK
<1>7. ~(Len(s) = 1) => Len(s) > 1
  <2>1. \A n \in Nat : n >= 1 /\ n # 1 => n > 1
    OBVIOUS
  <2> QED
    BY <1>3, <2>1, Zenon
<1> QED
  <2>1. Top(p).c = 0 <=> p = Main /\ Len(s) = 1
    BY <1>4, <1>5, <1>6, Zenon
  <2> QED
    BY <1>2, <1>3, <1>4, <1>5, <1>7, <2>1, Zenon

LEMMA NodeFacts ==
  ASSUME WellFormed(script), NEW c \in DOMAIN script.node
  PROVE  /\ c # 0 /\ \A k \in 1..Len(script.node[c].kids) : Kid(c, k) \in DOMAIN script.node
         /\ Len(script.node[c].kids) \in Arity(script.node[c].type)
         /\ script.node[c].type \in {"SEQUENCE", "PIPE"} => script.node[c].in = "" /\ script.node[c].out = ""
<1> DEFINE n == script.node[c]
<1>1. n.kids \in Seq(DOMAIN script.node) /\ Len(n.kids) \in Arity(n.type) /\ c # 0
      /\ (n.type \in {"SEQUENCE", "PIPE"} => n.in = "" /\ n.out = "")
  <2>1. \A m \in {script.node[x] : x \in DOMAIN script.node} :
          /\ m.kids \in Seq(DOMAIN script.node) /\ Len(m.kids) \in Arity(m.type)
          /\ m.type \in {"SEQUENCE", "PIPE"} => m.in = "" /\ m.out = ""
    BY Zenon DEF WellFormed
  <2>2. n \in {script.node[x] : x \in DOMAIN script.node} /\ c # 0
    BY DEF WellFormed
  <2> QED
    BY <2>1, <2>2, Zenon
<1>2. \A ks \in Seq(DOMAIN script.node) : \A k \in 1..Len(ks) : ks[k] \in DOMAIN script.node
  OBVIOUS
<1>3. \A k \in 1..Len(n.kids) : Kid(c, k) \in DOMAIN script.node
  BY <1>1, <1>2, Zenon DEF Kid
<1> QED
  BY <1>1, <1>3, Zenon

LEMMA Arities ==
  ASSUME NEW type, NEW n \in Arity(type)
  PROVE  /\ type \in {"SUBSHELL"} => n = 1
         /\ type \in {"SEQUENCE", "PIPE", "WHILE", "UNTIL"} => n = 2
         /\ type \in {"IF"} => n \in {2, 3}
BY DEF Arity

-----------------------------------------------------------------------------
(* What becomes of the entry of a process p that goes on as r: f is its    *)
(* frame afterwards, g the frame of a command it has called.               *)
GoesOn(p, r) ==
  /\ IsProc(r) /\ r.st = "shell" /\ r.parent = proc[p].parent /\ IsTable(r.fds)
  /\ r.can_write \in BOOLEAN /\ (r.can_write => profiling) /\ script.ok
SameFrame(p, f) ==
  /\ IsFrame(f) /\ f.c = Top(p).c /\ f.pc # "start"
  /\ f.c = 0 => f.pc \in {"read", "log", "newline", "fin"}
  /\ f.c # 0 => f.pc \notin {"make", "read"} /\ Waits(f) \subseteq Pids
GoesTo(p, r, f) == GoesOn(p, r) /\ SameFrame(p, f) /\ r.stack = <<f>> \o Tail(proc[p].stack)
CallsTo(p, r, f, g) ==
  /\ GoesOn(p, r) /\ SameFrame(p, f) /\ r.stack = <<g, f>> \o Tail(proc[p].stack)
  /\ f.pc \in Calling /\ IsFrame(g) /\ g.pc = "enter" /\ g.c \in DOMAIN script.node
ReturnsTo(p, r) == GoesOn(p, r) /\ r.stack = Tail(proc[p].stack) /\ Top(p).c # 0

LEMMA WaitsNone ==
  ASSUME NEW f, f.pc \notin {"fork_r", "parent", "wait", "wait_r"}
  PROVE  Waits(f) = {}
BY DEF Waits, WaitsFor

LEMMA EntryGoesOn ==
  ASSUME TableOK, NEW p \in Pids, proc[p].st = "shell", NEW r, GoesOn(p, r), StackOK(p, r.stack),
         p = Main => r.stack # <<>>
  PROVE  EntryOK(p, r)
<1>1. EntryOK(p, proc[p])
  BY DEF TableOK
<1> QED
  BY <1>1 DEF EntryOK, GoesOn

LEMMA GoesEntry ==
  ASSUME TableOK, NEW p \in Pids, proc[p].st = "shell", proc[p].stack # <<>>, NEW r, NEW f, GoesTo(p, r, f)
  PROVE  /\ EntryOK(p, r) /\ r.stack # <<>> /\ r.stack[1] = f /\ Len(r.stack) = Len(proc[p].stack)
         /\ \A k \in 2..Len(proc[p].stack) : r.stack[k] = proc[p].stack[k]
<1> DEFINE s == proc[p].stack  t == r.stack
<1>1. StackOK(p, s)
  BY DEF TableOK, EntryOK
<1>2. IsStack(t) /\ Len(t) = Len(s) /\ Len(s) >= 1 /\ t[1] = f /\ \A k \in 2..Len(s) : t[k] = s[k]
  BY <1>1, TopReplaced DEF GoesTo, SameFrame, StackOK
<1>3. t # <<>>
  BY <1>2, NoFrames
<1>4. /\ Top(p).c = 0 => p = Main /\ Len(s) = 1
      /\ Top(p).c # 0 => CallFrameOK(Top(p)) /\ (p # Main \/ Len(s) > 1)
  BY TopFacts
<1>5. /\ f.c = 0 => MainFrameOK(f) /\ p = Main /\ Len(s) = 1
      /\ f.c # 0 => CallFrameOK(f) /\ (p # Main \/ Len(s) > 1)
  BY <1>4 DEF GoesTo, GoesOn, SameFrame, MainFrameOK, CallFrameOK
<1>6. ASSUME NEW k \in 1..Len(t)
      PROVE  IF p = Main /\ k = Len(t) THEN MainFrameOK(t[k]) ELSE CallFrameOK(t[k])
  <2>1. CASE k = 1
    BY <1>2, <1>5, <2>1
  <2>2. CASE k # 1
    <3>1. k \in 2..Len(s) /\ k \in 1..Len(s)
      BY <1>2, <2>2 DEF IsStack
    <3> QED
      BY <1>1, <1>2, <3>1 DEF StackOK
  <2> QED
    BY <2>1, <2>2
<1>7. ASSUME NEW k \in 2..Len(t) PROVE t[k].pc \in Calling
  BY <1>1, <1>2 DEF StackOK
<1>8. ASSUME NEW k \in 1..Len(t), t[k].pc = "start" PROVE p # Main
  <2>1. k # 1
    BY <1>2, <1>8 DEF GoesTo, SameFrame
  <2>2. k \in 2..Len(s) /\ k \in 1..Len(s)
    BY <1>2, <2>1 DEF IsStack
  <2> QED
    BY <1>1, <1>2, <1>8, <2>2 DEF StackOK
<1>9. StackOK(p, t)
  BY <1>2, <1>6, <1>7, <1>8 DEF StackOK
<1> QED
  BY <1>2, <1>3, <1>9, EntryGoesOn DEF GoesTo

LEMMA CallsEntry ==
  ASSUME TableOK, NEW p \in Pids, proc[p].st = "shell", proc[p].stack # <<>>,
         NEW r, NEW f, NEW g, CallsTo(p, r, f, g)
  PROVE  /\ EntryOK(p, r) /\ r.stack # <<>> /\ r.stack[1] = g /\ r.stack[2] = f
         /\ Len(r.stack) = Len(proc[p].stack) + 1
         /\ \A k \in 3..(Len(proc[p].stack) + 1) : r.stack[k] = proc[p].stack[k - 1]
<1> DEFINE s == proc[p].stack  t == r.stack
<1>1. StackOK(p, s)
  BY DEF TableOK, EntryOK
<1>2. IsStack(t) /\ Len(t) = Len(s) + 1 /\ Len(s) >= 1 /\ t[1] = g /\ t[2] = f
      /\ \A k \in 3..(Len(s) + 1) : t[k] = s[k - 1]
  BY <1>1, TopCalls DEF CallsTo, SameFrame, StackOK
<1>3. t # <<>>
  BY <1>2, NoFrames
<1>4. /\ Top(p).c = 0 => p = Main /\ Len(s) = 1
      /\ Top(p).c # 0 => CallFrameOK(Top(p)) /\ (p # Main \/ Len(s) > 1)
  BY TopFacts
<1>5. /\ f.c = 0 => MainFrameOK(f) /\ p = Main /\ Len(s) = 1
      /\ f.c # 0 => CallFrameOK(f) /\ (p # Main \/ Len(s) > 1)
      /\ CallFrameOK(g)
  BY <1>4, WaitsNone DEF CallsTo, GoesOn, SameFrame, MainFrameOK, CallFrameOK
<1>6. ASSUME NEW k \in 1..Len(t)
      PROVE  IF p = Main /\ k = Len(t) THEN MainFrameOK(t[k]) ELSE CallFrameOK(t[k])
  <2>1. CASE k = 1
    BY <1>2, <1>5, <2>1
  <2>2. CASE k = 2
    BY <1>2, <1>5, <2>2
  <2>3. CASE k \notin {1, 2}
    <3>1. k \in 3..(Len(s) + 1) /\ k - 1 \in 1..Len(s) /\ (k = Len(t) <=> k - 1 = Len(s))
      BY <1>2, <2>3 DEF IsStack
    <3> QED
      BY <1>1, <1>2, <3>1 DEF StackOK
  <2> QED
    BY <2>1, <2>2, <2>3
<1>7. ASSUME NEW k \in 2..Len(t) PROVE t[k].pc \in Calling
  <2>1. CASE k = 2
    BY <1>2, <2>1 DEF CallsTo
  <2>2. CASE k # 2
    <3>1. k \in 3..(Len(s) + 1) /\ k - 1 \in 2..Len(s)
      BY <1>2, <2>2 DEF IsStack
    <3> QED
      BY <1>1, <1>2, <3>1 DEF StackOK
  <2> QED
    BY <2>1, <2>2
<1>8. ASSUME NEW k \in 1..Len(t), t[k].pc = "start" PROVE p # Main
  <2>1. k # 1 /\ k # 2
    BY <1>2, <1>8 DEF CallsTo, SameFrame
  <2>2. k \in 3..(Len(s) + 1) /\ k - 1 \in 1..Len(s)
    BY <1>2, <2>1 DEF IsStack
  <2> QED
    BY <1>1, <1>2, <1>8, <2>2 DEF StackOK
<1>9. StackOK(p, t)
  BY <1>2, <1>6, <1>7, <1>8 DEF StackOK
<1> QED
  BY <1>2, <1>3, <1>9, EntryGoesOn DEF CallsTo

LEMMA ReturnsEntry ==
  ASSUME TableOK, NEW p \in Pids, proc[p].st = "shell", proc[p].stack # <<>>, NEW r, ReturnsTo(p, r)
  PROVE  /\ EntryOK(p, r) /\ Len(r.stack) = Len(proc[p].stack) - 1 /\ Len(proc[p].stack) >= 1
         /\ \A k \in 1..(Len(proc[p].stack) - 1) : r.stack[k] = proc[p].stack[k + 1]
         /\ r.stack # <<>> => r.stack[1] = proc[p].stack[2] /\ r.stack[1].pc \in Calling
<1> DEFINE s == proc[p].stack  t == r.stack
<1>1. StackOK(p, s)
  BY DEF TableOK, EntryOK
<1>2. IsStack(t) /\ Len(t) = Len(s) - 1 /\ Len(s) >= 1 /\ Len(s) \in Nat
      /\ \A k \in 1..(Len(s) - 1) : t[k] = s[k + 1]
  BY <1>1, TopPopped DEF ReturnsTo, StackOK, IsStack
<1>3. p = Main => t # <<>>
  <2>1. p = Main => Len(s) > 1
    BY TopFacts DEF ReturnsTo
  <2> QED
    BY <1>2, <2>1, NoFrames
<1>4. ASSUME NEW k \in 1..Len(t)
      PROVE  IF p = Main /\ k = Len(t) THEN MainFrameOK(t[k]) ELSE CallFrameOK(t[k])
  <2>1. k \in 1..(Len(s) - 1) /\ k + 1 \in 1..Len(s) /\ (k = Len(t) <=> k + 1 = Len(s))
    BY <1>2
  <2> QED
    BY <1>1, <1>2, <2>1 DEF StackOK
<1>5. ASSUME NEW k \in 1..Len(t) PROVE t[k].pc \in Calling
  <2>1. k \in 1..(Len(s) - 1) /\ k + 1 \in 2..Len(s)
    BY <1>2
  <2> QED
    BY <1>1, <1>2, <2>1 DEF StackOK
<1>6. StackOK(p, t)
  <2>1. \A k \in 2..Len(t) : k \in 1..Len(t)
    BY <1>2
  <2>2. "start" \notin Calling
    BY DEF Calling
  <2> QED
    BY <1>2, <1>4, <1>5, <2>1, <2>2 DEF StackOK
<1>7. ASSUME t # <<>> PROVE 1 \in 1..Len(t) /\ 1 \in 1..(Len(s) - 1)
  <2>1. Len(t) >= 1
    BY <1>2, <1>7, TopPopped
  <2> QED
    BY <1>2, <2>1
<1>8. t # <<>> => t[1] = s[2] /\ t[1].pc \in Calling
  BY <1>2, <1>5, <1>7
<1> QED
  BY <1>2, <1>3, <1>6, <1>8, EntryGoesOn DEF ReturnsTo

-----------------------------------------------------------------------------
(* The kinds of steps a process p takes: it goes on by itself, forks q,    *)
(* reaps q, or ends.                                                       *)
Alive(p) == proc[p].st \in {"shell", "prog"}
Moves(p) ==
  /\ Alive(p) /\ DOMAIN proc' = Pids /\ (\A q \in Pids \ {p} : proc'[q] = proc[q]) /\ failures' = failures
  /\ EntryOK(p, proc'[p]) /\ proc'[p].st \in {"shell", "prog"} /\ proc'[p].parent = proc[p].parent
  /\ Awaits(proc[p]) \subseteq Awaits(proc'[p])
Forks(p, q) ==
  /\ Alive(p) /\ proc[q].st = "free" /\ failures' = failures
  /\ proc' = [proc EXCEPT ![p] = proc'[p], ![q] = proc'[q]]
  /\ EntryOK(p, proc'[p]) /\ proc'[p].st = "shell" /\ proc'[p].parent = proc[p].parent
  /\ EntryOK(q, proc'[q]) /\ proc'[q].st # "free" /\ proc'[q].parent = p
  /\ Awaits(proc[p]) \cup {q} \subseteq Awaits(proc'[p])
Reaps(p, q) ==
  /\ Alive(p) /\ proc[q].st = "zombie" /\ proc[q].parent = p /\ failures' = failures
  /\ proc' = [proc EXCEPT ![q] = NoProc, ![p] = proc'[p]]
  /\ EntryOK(p, proc'[p]) /\ proc'[p].st = "shell" /\ proc'[p].parent = proc[p].parent
  /\ Awaits(proc[p]) \ {q} \subseteq Awaits(proc'[p])
Ends(p) ==
  /\ Alive(p) /\ \E raw : proc' = ended(p, raw)
  /\ \/ failures' = failures /\ Awaits(proc[p]) = {}
     \/ failures' = failures + 1

SameScript == UNCHANGED <<asked, script>>
Tree == ChildrenAwaited /\ NoOrphans /\ Ranked

LEMMA PrimedEntries ==
  ASSUME SameScript
  PROVE  /\ \A p : EntryOK(p, proc[p])' <=> EntryOK(p, proc'[p])
         /\ \A p : Awaits(proc[p])' = Awaits(proc'[p])
         /\ WellFormed(script)' <=> WellFormed(script)
<1> USE DEF SameScript, asked
<1>1. ASSUME NEW p PROVE EntryOK(p, proc[p])' <=> EntryOK(p, proc'[p])
  <2>1. ASSUME NEW k PROVE Waits(proc[p].stack[k])' = Waits(proc'[p].stack[k])
    BY DEF Waits, WaitsFor, TypeOf
  <2>2. ASSUME NEW k
        PROVE  /\ CallFrameOK(proc[p].stack[k])' <=> CallFrameOK(proc'[p].stack[k])
               /\ MainFrameOK(proc[p].stack[k])' <=> MainFrameOK(proc'[p].stack[k])
    BY <2>1, Zenon DEF MainFrameOK, CallFrameOK
  <2> QED
    BY <2>2, Zenon DEF EntryOK, StackOK
<1>2. ASSUME NEW p PROVE Awaits(proc[p])' = Awaits(proc'[p])
  BY DEF Awaits, Waits, WaitsFor, TypeOf
<1>3. WellFormed(script)' <=> WellFormed(script)
  BY Zenon DEF WellFormed
<1> QED
  BY <1>1, <1>2, <1>3

Zombie(m, raw) == [NoProc EXCEPT !.st = "zombie", !.parent = m, !.code = raw]

LEMMA ZombieOK ==
  ASSUME NEW p \in Pids, NEW m \in Pids \cup {0}, NEW raw, p = Main => m = 0
  PROVE  /\ EntryOK(p, Zombie(m, raw)) /\ Zombie(m, raw).st = "zombie" /\ Zombie(m, raw).parent = m
         /\ Zombie(m, raw).code = raw
<1> DEFINE r == Zombie(m, raw)
<1>1. IsProc(r) /\ r.st = "zombie" /\ r.parent = m /\ r.stack = <<>> /\ r.can_write = FALSE
      /\ r.fds = [i \in 0..(NFD - 1) |-> Closed] /\ r.code = raw
  BY DEF Zombie, NoProc, IsProc, ProcFields
<1>2. IsTable(r.fds)
  BY <1>1 DEF IsTable
<1>3. StackOK(p, <<>>)
  BY NoFrames DEF StackOK
<1> HIDE DEF r
<1>4. EntryOK(p, r)
  BY <1>1, <1>2, <1>3 DEF EntryOK
<1> QED
  BY <1>1, <1>4 DEF r

LEMMA FreeOK ==
  ASSUME NEW p \in Pids, p # Main
  PROVE  NoProc.st = "free" /\ EntryOK(p, NoProc)
<1>1. NoProc.st = "free" /\ NoProc.stack = <<>> /\ NoProc.can_write = FALSE /\ NoProc.parent = 0
      /\ IsProc(NoProc) /\ IsTable(NoProc.fds)
  BY DEF NoProc, IsProc, IsTable, ProcFields
<1>2. StackOK(p, <<>>)
  BY NoFrames DEF StackOK
<1> QED
  BY <1>1, <1>2 DEF EntryOK

LEMMA TableKept ==
  ASSUME TableOK, SameScript, failures' \in Nat, NEW S \in SUBSET Pids,
         DOMAIN proc' = Pids, \A q \in Pids \ S : proc'[q] = proc[q],
         \A q \in S : EntryOK(q, proc'[q])
  PROVE  TableOK'
<1>1. \A q \in Pids : EntryOK(q, proc'[q])
  BY DEF TableOK
<1>2. \A q \in Pids : EntryOK(q, proc[q])'
  BY <1>1, PrimedEntries
<1>3. (script.ok => WellFormed(script))' /\ profiling' \in BOOLEAN
  BY PrimedEntries DEF TableOK, SameScript, asked
<1> QED
  BY <1>2, <1>3 DEF TableOK

(* The tree of processes, in terms of the table afterwards. *)
LEMMA TreeKept ==
  ASSUME SameScript,
         \A q \in Pids : proc'[q].st # "free" /\ proc'[q].parent # 0 => q \in Awaits(proc'[proc'[q].parent]),
         failures' = 0 => \A q \in Pids \ {Main} : proc'[q].st # "free" => proc'[q].parent # 0,
         NEW rank \in [Pids -> Nat], \A q \in Pids :
           proc'[q].st # "free" /\ proc'[q].parent # 0 => rank[proc'[q].parent] < rank[q]
  PROVE  Tree'
<1>1. ChildrenAwaited'
  BY PrimedEntries DEF ChildrenAwaited
<1>2. NoOrphans' /\ Ranked'
  BY DEF NoOrphans, Ranked, Pids, Main
<1> QED
  BY <1>1, <1>2 DEF Tree

LEMMA MovesTree ==
  ASSUME TableOK, Tree, SameScript, NEW p \in Pids, Moves(p)
  PROVE  TableOK' /\ Tree' /\ (p # Main => proc'[Main] = proc[Main])
<1>1. DOMAIN proc' = Pids /\ \A q \in Pids \ {p} : proc'[q] = proc[q]
  BY DEF Moves, TableOK
<1>2. TableOK'
  BY <1>1, TableKept DEF Moves, TableOK
<1>3. PICK rank \in [Pids -> Nat] :
        \A q \in Pids : proc[q].st # "free" /\ proc[q].parent # 0 => rank[proc[q].parent] < rank[q]
  BY DEF Tree, Ranked
<1>4. ASSUME NEW q \in Pids
      PROVE  (proc'[q].st # "free" <=> proc[q].st # "free") /\ proc'[q].parent = proc[q].parent
             /\ Awaits(proc[q]) \subseteq Awaits(proc'[q])
  BY <1>1 DEF Moves, Alive
<1>5. ASSUME NEW q \in Pids, proc'[q].st # "free", proc'[q].parent # 0
      PROVE  q \in Awaits(proc'[proc'[q].parent])
  <2>1. proc[q].parent \in Pids
    BY <1>4, <1>5 DEF TableOK, EntryOK
  <2> QED
    BY <1>4, <1>5, <2>1 DEF Tree, ChildrenAwaited
<1>6. Tree'
  BY <1>3, <1>4, <1>5, TreeKept DEF Tree, NoOrphans, Moves
<1>7. Main \in Pids
  BY BoundsAssumption DEF Main, Pids
<1> QED
  BY <1>1, <1>2, <1>6, <1>7

LEMMA ForksTree ==
  ASSUME TableOK, Tree, SameScript, NEW p \in Pids, NEW q \in Pids, Forks(p, q)
  PROVE  TableOK' /\ Tree' /\ (p # Main => proc'[Main] = proc[Main])
<1>1. DOMAIN proc' = Pids /\ \A x \in Pids \ {p, q} : proc'[x] = proc[x]
  BY DEF Forks, TableOK
<1>2. TableOK'
  BY <1>1, TableKept DEF Forks, TableOK
<1>3. PICK rank \in [Pids -> Nat] :
        \A x \in Pids : proc[x].st # "free" /\ proc[x].parent # 0 => rank[proc[x].parent] < rank[x]
  BY DEF Tree, Ranked
<1>4. Awaits(proc[q]) = {} /\ p # q
  BY DEF Forks, Awaits, Alive
<1>5. ASSUME NEW x \in Pids, proc[x].st # "free", proc[x].parent # 0
      PROVE  proc[x].parent \in Pids \ {q} /\ x \in Awaits(proc[proc[x].parent]) /\ x # q
  BY <1>4, <1>5 DEF Tree, ChildrenAwaited, TableOK, EntryOK, Forks
<1>6. ASSUME NEW x \in Pids, proc'[x].st # "free", proc'[x].parent # 0
      PROVE  x \in Awaits(proc'[proc'[x].parent])
  <2>1. CASE x = q
    BY <1>4, <2>1 DEF Forks
  <2>2. CASE x # q
    <3>1. proc[x].st # "free" /\ proc'[x].parent = proc[x].parent
      BY <1>1, <1>6, <2>2 DEF Forks, Alive
    <3>2. Awaits(proc[proc[x].parent]) \subseteq Awaits(proc'[proc[x].parent])
      BY <1>1, <1>5, <1>6, <3>1 DEF Forks
    <3> QED
      BY <1>5, <1>6, <3>1, <3>2
  <2> QED
    BY <2>1, <2>2
<1>7. failures' = 0 => \A x \in Pids \ {Main} : proc'[x].st # "free" => proc'[x].parent # 0
  <2> SUFFICES ASSUME failures' = 0, NEW x \in Pids \ {Main}, proc'[x].st # "free" PROVE proc'[x].parent # 0
    OBVIOUS
  <2>1. p # 0
    BY DEF Pids
  <2> QED
    BY <1>1, <2>1 DEF Tree, NoOrphans, Forks, Alive
<1> DEFINE rank2 == [x \in Pids |-> IF x = q THEN rank[p] + 1 ELSE rank[x]]
<1>8. rank2 \in [Pids -> Nat]
  OBVIOUS
<1>9. ASSUME NEW x \in Pids, proc'[x].st # "free", proc'[x].parent # 0
      PROVE  rank2[proc'[x].parent] < rank2[x]
  <2>1. CASE x = q
    BY <1>4, <2>1 DEF Forks
  <2>2. CASE x # q
    <3>1. proc[x].st # "free" /\ proc'[x].parent = proc[x].parent
      BY <1>1, <1>9, <2>2 DEF Forks, Alive
    <3> QED
      BY <1>3, <1>5, <1>9, <2>2, <3>1
  <2> QED
    BY <2>1, <2>2
<1> HIDE DEF rank2
<1>10. Tree'
  BY <1>6, <1>7, <1>8, <1>9, TreeKept
<1>11. Main \in Pids /\ proc[Main].st # "free"
  BY BoundsAssumption DEF Main, Pids, TableOK, EntryOK
<1> QED
  BY <1>1, <1>2, <1>10, <1>11 DEF Forks

LEMMA ReapsTree ==
  ASSUME TableOK, Tree, SameScript, NEW p \in Pids, NEW q \in Pids, Reaps(p, q)
  PROVE  TableOK' /\ Tree' /\ (p # Main => proc'[Main] = proc[Main])
<1>1. DOMAIN proc' = Pids /\ p # q /\ proc'[q] = NoProc /\ \A x \in Pids \ {p, q} : proc'[x] = proc[x]
  BY DEF Reaps, TableOK, Alive
<1>2. Main \in Pids /\ q # Main
  BY BoundsAssumption DEF Main, Pids, TableOK, EntryOK, Reaps
<1>3. NoProc.st = "free" /\ EntryOK(q, NoProc)
  BY <1>2, FreeOK
<1>4. TableOK'
  BY <1>1, <1>3, TableKept DEF Reaps, TableOK
<1>5. PICK rank \in [Pids -> Nat] :
        \A x \in Pids : proc[x].st # "free" /\ proc[x].parent # 0 => rank[proc[x].parent] < rank[x]
  BY DEF Tree, Ranked
<1>6. ASSUME NEW x \in Pids, proc'[x].st # "free"
      PROVE  x # q /\ proc[x].st # "free" /\ proc'[x].parent = proc[x].parent
  BY <1>1, <1>3, <1>6 DEF Reaps, Alive
<1>7. ASSUME NEW x \in Pids, proc'[x].st # "free", proc'[x].parent # 0
      PROVE  x \in Awaits(proc'[proc'[x].parent])
  <2>1. Awaits(proc[q]) = {}
    BY DEF Awaits, Reaps
  <2>2. proc[x].parent \in Pids \ {q} /\ x \in Awaits(proc[proc[x].parent])
    BY <1>6, <1>7, <2>1 DEF Tree, ChildrenAwaited, TableOK, EntryOK
  <2>3. CASE proc[x].parent = p
    BY <1>6, <1>7, <2>2, <2>3 DEF Reaps
  <2>4. CASE proc[x].parent # p
    BY <1>1, <1>6, <1>7, <2>2, <2>4
  <2> QED
    BY <2>3, <2>4
<1>8. Tree'
  <2>1. \A x \in Pids : proc'[x].st # "free" /\ proc'[x].parent # 0 => rank[proc'[x].parent] < rank[x]
    BY <1>5, <1>6
  <2>2. failures' = 0 => \A x \in Pids \ {Main} : proc'[x].st # "free" => proc'[x].parent # 0
    BY <1>6 DEF Tree, NoOrphans, Reaps
  <2> QED
    BY <1>7, <2>1, <2>2, TreeKept
<1> QED
  BY <1>1, <1>2, <1>4, <1>8

(* The children of a process that ends are left to init. *)
LEMMA EndedEntries ==
  ASSUME TableOK, Ranked, NEW p \in Pids, Alive(p), NEW raw, proc' = ended(p, raw), NEW q \in Pids
  PROVE  /\ EntryOK(q, proc'[q])
         /\ proc'[q].st # "free" => proc[q].st # "free" \/ q = p
         /\ proc'[q].parent \in {0, proc[q].parent} /\ proc'[q].parent # p
         /\ q # p /\ proc[q].st # "zombie" => Awaits(proc'[q]) = Awaits(proc[q])
         /\ proc'[q].parent = 0 /\ proc'[q].st # "free" => q = Main \/ proc[q].parent \in {0, p}
         /\ q # p /\ proc[q].parent # p => proc'[q] = proc[q]
<1>1. EntryOK(q, proc[q]) /\ EntryOK(p, proc[p])
  BY DEF TableOK
<1>2. proc'[q] = CASE q = p -> IF p # Main /\ proc[p].parent = 0 THEN NoProc
                       ELSE [NoProc EXCEPT !.st = "zombie", !.parent = proc[p].parent, !.code = raw]
           [] proc[q].parent = p -> IF proc[q].st = "zombie" THEN NoProc ELSE [proc[q] EXCEPT !.parent = 0]
           [] OTHER -> proc[q]
  BY DEF ended
<1>3. p # 0 /\ NoProc.parent = 0
  BY DEF Pids, NoProc
<1>4. proc[p].parent # p
  <2>1. PICK rank \in [Pids -> Nat] :
          \A x \in Pids : proc[x].st # "free" /\ proc[x].parent # 0 => rank[proc[x].parent] < rank[x]
    BY DEF Ranked
  <2> QED
    BY <1>3, <2>1 DEF Alive
<1>5. CASE q = p /\ p # Main /\ proc[p].parent = 0
  <2>1. proc'[q] = NoProc
    BY <1>2, <1>5, <1>4
  <2>2. EntryOK(q, NoProc) /\ NoProc.st = "free"
    BY <1>5, FreeOK
  <2> QED
    BY <1>3, <1>5, <2>1, <2>2
<1>6. CASE q = p /\ ~(p # Main /\ proc[p].parent = 0)
  <2> DEFINE r == Zombie(proc[p].parent, raw)
  <2>1. proc'[q] = r
    BY <1>2, <1>6, <1>4 DEF Zombie
  <2>2. proc[p].parent \in Pids \cup {0} /\ (p = Main => proc[p].parent = 0)
    BY <1>1 DEF EntryOK
  <2>3. EntryOK(p, r) /\ r.st = "zombie" /\ r.parent = proc[p].parent
    BY <2>2, ZombieOK
  <2> QED
    BY <1>6, <1>4, <2>1, <2>2, <2>3
<1>7. CASE q # p /\ proc[q].parent = p /\ proc[q].st = "zombie"
  <2>1. proc'[q] = NoProc
    BY <1>2, <1>7
  <2>2. q # Main
    BY <1>1, <1>3, <1>7 DEF EntryOK
  <2> QED
    BY <1>3, <1>7, <2>1, <2>2, FreeOK
<1>8. CASE q # p /\ proc[q].parent = p /\ proc[q].st # "zombie"
  <2>1. proc'[q] = [proc[q] EXCEPT !.parent = 0]
    BY <1>2, <1>8
  <2> DEFINE r == [proc[q] EXCEPT !.parent = 0]
  <2>2. IsProc(r) /\ r.st = proc[q].st /\ r.stack = proc[q].stack /\ r.fds = proc[q].fds
        /\ r.can_write = proc[q].can_write /\ r.parent = 0
    BY <1>1 DEF EntryOK, IsProc, ProcFields
  <2>3. EntryOK(q, r)
    BY <1>1, <2>2 DEF EntryOK
  <2>4. Awaits(r) = Awaits(proc[q])
    BY <2>2 DEF Awaits
  <2> QED
    BY <1>3, <1>8, <2>1, <2>2, <2>3, <2>4
<1>9. CASE q # p /\ proc[q].parent # p
  <2>1. proc'[q] = proc[q]
    BY <1>2, <1>9
  <2> QED
    BY <1>1, <1>9, <2>1
<1> QED
  BY <1>5, <1>6, <1>7, <1>8, <1>9

LEMMA EndsTree ==
  ASSUME TableOK, Tree, SameScript, NEW p \in Pids, Ends(p)
  PROVE  TableOK' /\ Tree' /\ (p # Main => proc'[Main] = proc[Main])
<1>1. PICK raw : proc' = ended(p, raw)
  BY DEF Ends
<1>2. DOMAIN proc' = Pids /\ failures' \in Nat /\ (failures' = 0 => failures = 0 /\ Awaits(proc[p]) = {})
  BY <1>1 DEF ended, Ends, TableOK
<1>3. TableOK'
  BY <1>1, <1>2, EndedEntries, TableKept DEF Tree, Ends
<1>4. PICK rank \in [Pids -> Nat] :
        \A x \in Pids : proc[x].st # "free" /\ proc[x].parent # 0 => rank[proc[x].parent] < rank[x]
  BY DEF Tree, Ranked
<1>5. ASSUME NEW q \in Pids, proc'[q].st # "free"
      PROVE  proc[q].st # "free" /\ proc'[q].parent # p /\ proc'[q].parent \in {0, proc[q].parent}
  BY <1>1, <1>5, EndedEntries DEF Tree, Ends, Alive
<1>6. ASSUME NEW q \in Pids, proc'[q].st # "free", proc'[q].parent # 0
      PROVE  q \in Awaits(proc'[proc'[q].parent]) /\ proc'[q].parent = proc[q].parent
  <2> DEFINE m == proc[q].parent
  <2>1. proc'[q].parent = m /\ m # p /\ m \in Pids /\ q \in Awaits(proc[m])
    BY <1>5, <1>6 DEF Tree, ChildrenAwaited, TableOK, EntryOK
  <2>2. proc[m].st # "zombie"
    BY <2>1 DEF Awaits
  <2>3. Awaits(proc'[m]) = Awaits(proc[m])
    BY <1>1, <2>1, <2>2, EndedEntries DEF Tree, Ends
  <2> QED
    BY <2>1, <2>3
<1>7. failures' = 0 => \A q \in Pids \ {Main} : proc'[q].st # "free" => proc'[q].parent # 0
  <2> SUFFICES ASSUME failures' = 0, NEW q \in Pids \ {Main}, proc'[q].st # "free", proc'[q].parent = 0
               PROVE  FALSE
    OBVIOUS
  <2>1. proc[q].parent \in {0, p} /\ proc[q].st # "free"
    BY <1>1, <1>5, EndedEntries DEF Tree, Ends
  <2>2. proc[q].parent # 0
    BY <1>2, <2>1 DEF Tree, NoOrphans
  <2>3. q \in Awaits(proc[p])
    BY <2>1, <2>2 DEF Tree, ChildrenAwaited
  <2> QED
    BY <1>2, <2>3
<1>8. Tree'
  <2>1. \A q \in Pids : proc'[q].st # "free" /\ proc'[q].parent # 0 => rank[proc'[q].parent] < rank[q]
    BY <1>4, <1>5, <1>6
  <2> QED
    BY <1>6, <1>7, <2>1, TreeKept
<1>9. Main \in Pids /\ proc[Main].parent # p
  BY BoundsAssumption DEF Main, Pids, TableOK, EntryOK
<1> QED
  BY <1>1, <1>3, <1>8, <1>9, EndedEntries DEF Tree, Ends

-----------------------------------------------------------------------------
(* Descriptors: the table F becomes G as the top frame f becomes g, or as  *)
(* it returns.                                                             *)
FdStep(f, g, F, G) == \A i \in 0..(NFD - 1) :
  /\ i \in Keeps(g) => (i \in Keeps(f) /\ G[i] = F[i]) \/ (F[i] = Closed /\ G[i] # Closed)
  /\ i \notin Keeps(g) /\ i \in Keeps(f) => G[i] = Closed
  /\ i \notin Keeps(g) \cup Keeps(f) => G[i] = F[i]
Closes(f, F, G) == \A i \in 0..(NFD - 1) : G[i] = IF i \in Keeps(f) THEN Closed ELSE F[i]

LEMMA KeepsRange == \A f : Keeps(f) \subseteq 0..(NFD - 1)
BY DEF Keeps

LEMMA StdNotClosed ==
  /\ <<Tty, "r">> # Closed /\ <<Tty, "w">> # Closed /\ 0 \in 0..(NFD - 1) /\ 1 \in 0..(NFD - 1)
  /\ \A o, m : m \in {"r", "w"} => <<o, m>> # Closed
<1>1. ASSUME NEW o, NEW m \in {"r", "w"} PROVE <<o, m>> # Closed
  <2>1. <<o, m>>[2] = m /\ <<0, "">>[2] = "" /\ m # ""
    OBVIOUS
  <2> QED
    BY <2>1, Zenon DEF Closed
<1>2. 0 \in 0..(NFD - 1) /\ 1 \in 0..(NFD - 1)
  BY BoundsAssumption
<1> QED
  BY <1>1, <1>2

LEMMA FdsGoes ==
  ASSUME NEW s, NEW t, NEW F, NEW G, FdsOK(s, F), Len(s) \in Nat, Len(s) >= 1, Len(t) = Len(s),
         \A k \in 2..Len(s) : t[k] = s[k], FdStep(s[1], t[1], F, G)
  PROVE  FdsOK(t, G)
<1>0. 1 \in 1..Len(s)
  OBVIOUS
<1>1. ASSUME NEW k \in 1..Len(s), k # 1 PROVE t[k] = s[k]
  <2>1. k \in 2..Len(s)
    BY <1>1
  <2> QED
    BY <2>1
<1>2. ASSUME NEW k \in 1..Len(s), NEW i \in Keeps(s[k])
      PROVE  i > 1 /\ F[i] # Closed /\ \A l \in 1..Len(s) : i \in Keeps(s[l]) => l = k
  BY DEF FdsOK
<1>3. G[0] = <<Tty, "r">> /\ G[1] = <<Tty, "w">>
  <2>1. 0 \notin Keeps(s[1]) /\ 1 \notin Keeps(s[1])
    <3>1. \A i \in Keeps(s[1]) : i > 1
      BY <1>0, <1>2
    <3>2. ~(0 > 1) /\ ~(1 > 1)
      OBVIOUS
    <3> QED
      BY <3>1, <3>2, Zenon
  <2>2. F[0] = <<Tty, "r">> /\ F[1] = <<Tty, "w">>
    BY DEF FdsOK
  <2>3. F[0] # Closed /\ F[1] # Closed /\ 0 \in 0..(NFD - 1) /\ 1 \in 0..(NFD - 1)
    BY <2>2, StdNotClosed
  <2>4. G[0] = F[0] /\ G[1] = F[1]
    BY <2>1, <2>3 DEF FdStep
  <2> QED
    BY <2>2, <2>4
<1>4. ASSUME NEW k \in 1..Len(t), NEW i \in Keeps(t[k])
      PROVE  i > 1 /\ G[i] # Closed /\ \A l \in 1..Len(t) : i \in Keeps(t[l]) => l = k
  <2>0. i \in 0..(NFD - 1)
    BY KeepsRange
  <2>1. CASE k = 1
    <3>1. CASE i \in Keeps(s[1])
      <4>1. i > 1 /\ G[i] # Closed
        BY <1>0, <1>2, <2>0, <2>1, <3>1 DEF FdStep
      <4>2. ASSUME NEW l \in 1..Len(t), i \in Keeps(t[l]), l # 1 PROVE FALSE
        BY <1>0, <1>1, <1>2, <3>1, <4>2
      <4> QED
        BY <2>1, <4>1, <4>2
    <3>2. CASE i \notin Keeps(s[1])
      <4>1. F[i] = Closed /\ G[i] # Closed
        BY <2>0, <2>1, <3>2 DEF FdStep
      <4>2. i > 1
        <5>1. F[0] # Closed /\ F[1] # Closed
          BY StdNotClosed DEF FdsOK
        <5> QED
          BY <2>0, <4>1, <5>1
      <4>3. ASSUME NEW l \in 1..Len(t), i \in Keeps(t[l]), l # 1 PROVE FALSE
        BY <1>1, <1>2, <4>1, <4>3
      <4> QED
        BY <2>1, <4>1, <4>2, <4>3
    <3> QED
      BY <3>1, <3>2
  <2>2. CASE k # 1
    <3>1. i \in Keeps(s[k]) /\ i > 1 /\ F[i] # Closed
      BY <1>1, <1>2, <2>2
    <3>2. i \notin Keeps(s[1])
      BY <1>0, <1>2, <2>2, <3>1
    <3>3. i \notin Keeps(t[1]) /\ G[i] = F[i]
      BY <2>0, <3>1, <3>2 DEF FdStep
    <3>4. ASSUME NEW l \in 1..Len(t), i \in Keeps(t[l]) PROVE l = k
      <4>1. l # 1
        BY <3>3, <3>4
      <4> QED
        BY <1>1, <1>2, <3>1, <3>4, <4>1
    <3> QED
      BY <3>1, <3>3, <3>4
  <2> QED
    BY <2>1, <2>2
<1>5. ASSUME NEW i \in 2..(NFD - 1), G[i] # Closed
      PROVE  \E k \in 1..Len(t) : i \in Keeps(t[k])
  <2>1. CASE i \in Keeps(t[1])
    BY <1>0, <2>1
  <2>2. CASE i \notin Keeps(t[1])
    <3>1. i \in 0..(NFD - 1)
      OBVIOUS
    <3>2. i \notin Keeps(s[1]) /\ F[i] = G[i]
      BY <1>5, <2>2, <3>1 DEF FdStep
    <3>3. PICK k \in 1..Len(s) : i \in Keeps(s[k])
      BY <1>5, <3>2 DEF FdsOK
    <3>4. t[k] = s[k]
      BY <1>1, <3>2, <3>3
    <3> QED
      BY <3>3, <3>4
  <2> QED
    BY <2>1, <2>2
<1> QED
  BY <1>3, <1>4, <1>5 DEF FdsOK

LEMMA FdsCalls ==
  ASSUME NEW s, NEW t, NEW F, FdsOK(s, F), Len(s) \in Nat, Len(s) >= 1, Len(t) = Len(s) + 1,
         \A k \in 3..(Len(s) + 1) : t[k] = s[k - 1], Keeps(t[1]) = {}, Keeps(t[2]) = Keeps(s[1])
  PROVE  FdsOK(t, F)
<1>1. ASSUME NEW k \in 1..Len(t), k # 1 PROVE k - 1 \in 1..Len(s) /\ Keeps(t[k]) = Keeps(s[k - 1])
  <2>1. CASE k = 2
    BY <2>1
  <2>2. CASE k # 2
    <3>1. k \in 3..(Len(s) + 1) /\ k - 1 \in 1..Len(s)
      BY <1>1, <2>2
    <3> QED
      BY <3>1
  <2> QED
    BY <2>1, <2>2
<1>2. ASSUME NEW k \in 1..Len(t), NEW i \in Keeps(t[k])
      PROVE  i > 1 /\ F[i] # Closed /\ \A l \in 1..Len(t) : i \in Keeps(t[l]) => l = k
  <2>1. k # 1
    OBVIOUS
  <2>2. k - 1 \in 1..Len(s) /\ i \in Keeps(s[k - 1])
    BY <1>1, <2>1
  <2>3. i > 1 /\ F[i] # Closed /\ \A l \in 1..Len(s) : i \in Keeps(s[l]) => l = k - 1
    BY <2>2 DEF FdsOK
  <2>4. ASSUME NEW l \in 1..Len(t), i \in Keeps(t[l]) PROVE l = k
    <3>1. l # 1
      BY <2>4
    <3>2. l - 1 \in 1..Len(s) /\ i \in Keeps(s[l - 1])
      BY <1>1, <2>4, <3>1
    <3>3. l - 1 = k - 1
      BY <2>3, <3>2
    <3> QED
      BY <3>3
  <2> QED
    BY <2>3, <2>4
<1>3. ASSUME NEW i \in 2..(NFD - 1), F[i] # Closed
      PROVE  \E k \in 1..Len(t) : i \in Keeps(t[k])
  <2>1. PICK k \in 1..Len(s) : i \in Keeps(s[k])
    BY <1>3 DEF FdsOK
  <2>2. k + 1 \in 1..Len(t) /\ k + 1 # 1 /\ (k + 1) - 1 = k
    OBVIOUS
  <2> QED
    BY <1>1, <2>1, <2>2
<1> QED
  BY <1>2, <1>3 DEF FdsOK

LEMMA FdsReturns ==
  ASSUME NEW s, NEW t, NEW F, NEW G, FdsOK(s, F), Len(s) \in Nat, Len(s) >= 1, Len(t) = Len(s) - 1,
         \A k \in 1..(Len(s) - 1) : t[k] = s[k + 1], Closes(s[1], F, G)
  PROVE  FdsOK(t, G)
<1>0. 1 \in 1..Len(s)
  OBVIOUS
<1>1. ASSUME NEW k \in 1..Len(s), NEW i \in Keeps(s[k])
      PROVE  i > 1 /\ F[i] # Closed /\ \A l \in 1..Len(s) : i \in Keeps(s[l]) => l = k
  BY DEF FdsOK
<1>2. G[0] = <<Tty, "r">> /\ G[1] = <<Tty, "w">>
  <2>1. 0 \notin Keeps(s[1]) /\ 1 \notin Keeps(s[1])
    <3>1. \A i \in Keeps(s[1]) : i > 1
      BY <1>0, <1>1
    <3>2. ~(0 > 1) /\ ~(1 > 1)
      OBVIOUS
    <3> QED
      BY <3>1, <3>2, Zenon
  <2>2. F[0] = <<Tty, "r">> /\ F[1] = <<Tty, "w">>
    BY DEF FdsOK
  <2>3. G[0] = F[0] /\ G[1] = F[1]
    BY <2>1, StdNotClosed DEF Closes
  <2> QED
    BY <2>2, <2>3
<1>3. ASSUME NEW k \in 1..Len(t), NEW i \in Keeps(t[k])
      PROVE  i > 1 /\ G[i] # Closed /\ \A l \in 1..Len(t) : i \in Keeps(t[l]) => l = k
  <2>1. k + 1 \in 1..Len(s) /\ i \in Keeps(s[k + 1]) /\ k + 1 # 1 /\ i \in 0..(NFD - 1)
    BY KeepsRange
  <2>2. i > 1 /\ F[i] # Closed /\ \A l \in 1..Len(s) : i \in Keeps(s[l]) => l = k + 1
    BY <1>1, <2>1
  <2>3. G[i] = F[i]
    BY <1>0, <2>1, <2>2 DEF Closes
  <2>4. ASSUME NEW l \in 1..Len(t), i \in Keeps(t[l]) PROVE l = k
    <3>1. l + 1 \in 1..Len(s) /\ i \in Keeps(s[l + 1])
      BY <2>4
    <3>2. l + 1 = k + 1
      BY <2>2, <3>1
    <3> QED
      BY <3>2
  <2> QED
    BY <2>2, <2>3, <2>4
<1>4. ASSUME NEW i \in 2..(NFD - 1), G[i] # Closed
      PROVE  \E k \in 1..Len(t) : i \in Keeps(t[k])
  <2>1. i \in 0..(NFD - 1)
    OBVIOUS
  <2>2. i \notin Keeps(s[1]) /\ F[i] # Closed
    BY <1>4, <2>1 DEF Closes
  <2>3. PICK k \in 1..Len(s) : i \in Keeps(s[k])
    BY <2>2 DEF FdsOK
  <2>4. k # 1 /\ k - 1 \in 1..(Len(s) - 1) /\ (k - 1) + 1 = k
    BY <2>2, <2>3
  <2> QED
    BY <2>3, <2>4
<1> QED
  BY <1>2, <1>3, <1>4 DEF FdsOK

-----------------------------------------------------------------------------
(* What a step of p does to the invariants: its kind, main's descriptors,  *)
(* and that the log is left alone.                                         *)
Kept(r) == r.st = "shell" => ColonLeaks \/ FdsOK(r.stack, r.fds)
Quiet(r, r2) ==
  /\ Newline(r2) <=> Newline(r)
  /\ LogLast(r2) => ~r2.can_write \/ (LogLast(r) /\ (r2.can_write => r.can_write))
Effect(p) ==
  /\ Moves(p) \/ (\E q \in Pids : Forks(p, q) \/ Reaps(p, q)) \/ Ends(p)
  /\ p = Main => Kept(proc'[p])
QuietStep == log' = log /\ \A q \in Pids : Quiet(proc[q], proc'[q])

(* p may go on as r. *)
Fits(p, r) ==
  /\ EntryOK(p, r) /\ r.st \in {"shell", "prog"} /\ r.parent = proc[p].parent /\ (p = Main => Kept(r))
  /\ Quiet(proc[p], r)

LEMMA AwaitsTop ==
  ASSUME TableOK, NEW p \in Pids, proc[p].st = "shell", proc[p].stack # <<>>
  PROVE  Awaits(proc[p]) = Waits(Top(p))
BY TopFacts DEF Awaits

LEMMA GoesFits ==
  ASSUME TableOK, DescriptorsKept, NEW p \in Pids, NEW pc, At(p, pc), pc # "newline", NEW r, NEW f,
         GoesTo(p, r, f), f.pc # "newline", f.c = 0 /\ f.pc = "fin" => ~r.can_write,
         p = Main => ColonLeaks \/ FdStep(Top(p), f, proc[p].fds, r.fds)
  PROVE  Fits(p, r) /\ Awaits(r) = Waits(f)
<1>1. proc[p].st = "shell" /\ proc[p].stack # <<>> /\ Top(p).pc = pc
  BY DEF At
<1>2. /\ EntryOK(p, r) /\ r.stack # <<>> /\ r.stack[1] = f /\ Len(r.stack) = Len(proc[p].stack)
      /\ \A k \in 2..Len(proc[p].stack) : r.stack[k] = proc[p].stack[k]
  BY <1>1, GoesEntry
<1>3. IsStack(proc[p].stack) /\ Top(p) = proc[p].stack[1] /\ Len(proc[p].stack) >= 1
  BY <1>1, TopFacts
<1>4. r.st = "shell" /\ r.parent = proc[p].parent
  BY DEF GoesTo, GoesOn
<1>5. p = Main => Kept(r)
  <2>1. CASE ColonLeaks
    BY <2>1 DEF Kept
  <2>2. CASE ~ColonLeaks /\ p = Main
    <3>1. FdsOK(proc[p].stack, proc[p].fds) /\ FdStep(proc[p].stack[1], r.stack[1], proc[p].fds, r.fds)
      BY <1>1, <1>2, <1>3, <2>2 DEF DescriptorsKept
    <3>2. FdsOK(r.stack, r.fds)
      BY <1>2, <1>3, <3>1, FdsGoes DEF IsStack
    <3> QED
      BY <3>2 DEF Kept
  <2> QED
    BY <2>1, <2>2
<1>6. Quiet(proc[p], r)
  BY <1>1, <1>2, <1>3 DEF Quiet, Newline, LogLast
<1>7. Awaits(r) = Waits(f)
  BY <1>2, <1>4 DEF Awaits
<1> QED
  BY <1>2, <1>4, <1>5, <1>6, <1>7 DEF Fits

LEMMA CallsFits ==
  ASSUME TableOK, DescriptorsKept, NEW p \in Pids, NEW pc, At(p, pc), pc # "newline", NEW r, NEW f, NEW g,
         CallsTo(p, r, f, g), r.fds = proc[p].fds, Keeps(g) = {}, Keeps(f) = Keeps(Top(p))
  PROVE  Fits(p, r)
<1>1. proc[p].st = "shell" /\ proc[p].stack # <<>> /\ Top(p).pc = pc
  BY DEF At
<1>2. /\ EntryOK(p, r) /\ r.stack # <<>> /\ r.stack[1] = g /\ r.stack[2] = f
      /\ Len(r.stack) = Len(proc[p].stack) + 1
      /\ \A k \in 3..(Len(proc[p].stack) + 1) : r.stack[k] = proc[p].stack[k - 1]
  BY <1>1, CallsEntry
<1>3. IsStack(proc[p].stack) /\ Top(p) = proc[p].stack[1] /\ Len(proc[p].stack) >= 1
  BY <1>1, TopFacts
<1>4. r.st = "shell" /\ r.parent = proc[p].parent /\ g.pc = "enter"
  BY DEF CallsTo, GoesOn
<1>5. p = Main => Kept(r)
  <2>1. CASE ColonLeaks
    BY <2>1 DEF Kept
  <2>2. CASE ~ColonLeaks /\ p = Main
    <3>1. FdsOK(proc[p].stack, proc[p].fds)
      BY <1>1, <2>2 DEF DescriptorsKept
    <3>2. FdsOK(r.stack, r.fds)
      BY <1>2, <1>3, <3>1, FdsCalls DEF IsStack
    <3> QED
      BY <3>2 DEF Kept
  <2> QED
    BY <2>1, <2>2
<1>6. Quiet(proc[p], r)
  BY <1>1, <1>2, <1>3, <1>4 DEF Quiet, Newline, LogLast
<1> QED
  BY <1>2, <1>4, <1>5, <1>6 DEF Fits

LEMMA ReturnsFits ==
  ASSUME TableOK, DescriptorsKept, NEW p \in Pids, NEW pc, At(p, pc), pc # "newline", NEW r,
         ReturnsTo(p, r), ColonLeaks \/ Closes(Top(p), proc[p].fds, r.fds)
  PROVE  Fits(p, r)
<1>1. proc[p].st = "shell" /\ proc[p].stack # <<>> /\ Top(p).pc = pc
  BY DEF At
<1>2. /\ EntryOK(p, r) /\ Len(r.stack) = Len(proc[p].stack) - 1 /\ Len(proc[p].stack) >= 1
      /\ \A k \in 1..(Len(proc[p].stack) - 1) : r.stack[k] = proc[p].stack[k + 1]
      /\ r.stack # <<>> => r.stack[1] = proc[p].stack[2] /\ r.stack[1].pc \in Calling
  BY <1>1, ReturnsEntry
<1>3. IsStack(proc[p].stack) /\ Top(p) = proc[p].stack[1]
  BY <1>1, TopFacts
<1>4. r.st = "shell" /\ r.parent = proc[p].parent
  BY DEF ReturnsTo, GoesOn
<1>5. p = Main => Kept(r)
  <2>1. CASE ColonLeaks
    BY <2>1 DEF Kept
  <2>2. CASE ~ColonLeaks /\ p = Main
    <3>1. FdsOK(proc[p].stack, proc[p].fds) /\ Closes(proc[p].stack[1], proc[p].fds, r.fds)
      BY <1>1, <1>3, <2>2 DEF DescriptorsKept
    <3>2. FdsOK(r.stack, r.fds)
      BY <1>2, <1>3, <3>1, FdsReturns DEF IsStack
    <3> QED
      BY <3>2 DEF Kept
  <2> QED
    BY <2>1, <2>2
<1>6. Quiet(proc[p], r)
  <2>1. "newline" \notin Calling /\ "fin" \notin Calling
    BY DEF Calling
  <2>2. ~Newline(proc[p])
    BY <1>1, <1>3 DEF Newline
  <2>3. ~Newline(r) /\ ~LogLast(r)
    BY <1>2, <2>1 DEF Newline, LogLast
  <2> QED
    BY <2>2, <2>3 DEF Quiet
<1> QED
  BY <1>2, <1>4, <1>5, <1>6 DEF Fits

LEMMA QuietSelf == \A r : Quiet(r, r)
BY DEF Quiet

(* p goes on as r, by itself. *)
LEMMA LocalStep ==
  ASSUME TableOK, NEW p \in Pids, Alive(p), NEW r, proc' = [proc EXCEPT ![p] = r], failures' = failures,
         log' = log, Fits(p, r), Awaits(proc[p]) \subseteq Awaits(r)
  PROVE  Effect(p) /\ QuietStep
<1>1. DOMAIN proc' = Pids /\ proc'[p] = r /\ \A q \in Pids \ {p} : proc'[q] = proc[q]
  BY DEF TableOK
<1>2. Moves(p)
  BY <1>1 DEF Moves, Fits
<1>3. QuietStep
  BY <1>1, QuietSelf DEF QuietStep, Fits
<1> QED
  BY <1>1, <1>2, <1>3 DEF Effect, Fits

LEMMA NewPidFree ==
  ASSUME TableOK, ~NoFree
  PROVE  NewPid \in Pids /\ proc[NewPid].st = "free" /\ NewPid # Main
<1> DEFINE S == {p \in Pids : proc[p].st = "free"}
<1>1. S \in SUBSET Nat /\ S # {}
  BY DEF NoFree, Pids
<1>2. NewPid \in S
  BY <1>1, MinNat, Zenon DEF NewPid
<1> QED
  BY <1>2 DEF TableOK, EntryOK

(* p forks the process ch and goes on as r, waiting for it. *)
LEMMA ForkStep ==
  ASSUME TableOK, NEW p \in Pids, proc[p].st = "shell", ~NoFree, NEW r, NEW ch, proc' = forked(p, r, ch),
         failures' = failures, log' = log, Fits(p, r), r.st = "shell",
         Awaits(proc[p]) \cup {NewPid} \subseteq Awaits(r),
         EntryOK(NewPid, ch), ch.st # "free", ch.parent = p, ~Newline(ch), ~LogLast(ch)
  PROVE  Effect(p) /\ QuietStep
<1>1. NewPid \in Pids /\ proc[NewPid].st = "free" /\ NewPid # p
  BY NewPidFree
<1>2. proc'[p] = r /\ proc'[NewPid] = ch /\ \A q \in Pids \ {p, NewPid} : proc'[q] = proc[q]
  BY <1>1 DEF TableOK, forked
<1>3. Forks(p, NewPid)
  BY <1>1, <1>2 DEF Forks, Fits, Alive, forked
<1>4. Quiet(proc[NewPid], ch)
  BY <1>1 DEF Quiet, Newline
<1>5. QuietStep
  BY <1>2, <1>4, QuietSelf DEF QuietStep, Fits
<1> QED
  BY <1>1, <1>2, <1>3, <1>5 DEF Effect, Fits

(* p reaps its child q. *)
LEMMA ReapStep ==
  ASSUME TableOK, NEW p \in Pids, proc[p].st = "shell", NEW q \in Pids, proc[q].st = "zombie",
         proc[q].parent = p, NEW r, proc' = [proc EXCEPT ![q] = NoProc, ![p] = r],
         failures' = failures, log' = log, Fits(p, r), r.st = "shell", Awaits(proc[p]) \ {q} \subseteq Awaits(r)
  PROVE  Effect(p) /\ QuietStep
<1>1. p # q /\ proc'[p] = r /\ proc'[q] = NoProc /\ \A x \in Pids \ {p, q} : proc'[x] = proc[x]
  BY DEF TableOK
<1>2. Reaps(p, q)
  BY <1>1 DEF Reaps, Fits, Alive
<1>3. Quiet(proc[q], NoProc)
  BY DEF Quiet, Newline, LogLast, NoProc
<1>4. QuietStep
  BY <1>1, <1>3, QuietSelf DEF QuietStep, Fits
<1> QED
  BY <1>1, <1>2, <1>4 DEF Effect, Fits

(* p ends, with nobody left to wait for or because it could not fork. *)
LEMMA EndStep ==
  ASSUME TableOK, Ranked, NEW p \in Pids, Alive(p), NEW raw, proc' = ended(p, raw), log' = log,
         \/ failures' = failures /\ Awaits(proc[p]) = {}
         \/ failures' = failures + 1,
         ~Newline(proc[p])
  PROVE  Effect(p) /\ QuietStep
<1>1. Ends(p)
  BY DEF Ends
<1>2. ASSUME NEW q \in Pids PROVE Quiet(proc[q], proc'[q])
  <2>0. NoProc.st = "free"
    BY DEF NoProc
  <2>1. proc[p].parent # p
    <3>1. PICK rank \in [Pids -> Nat] :
            \A x \in Pids : proc[x].st # "free" /\ proc[x].parent # 0 => rank[proc[x].parent] < rank[x]
      BY DEF Ranked
    <3> QED
      BY <3>1 DEF Alive, Pids
  <2>2. CASE q = p
    <3>1. proc'[q] = NoProc \/ proc'[q] = Zombie(proc[p].parent, raw)
      BY <2>1, <2>2 DEF ended, Zombie
    <3>2. Zombie(proc[p].parent, raw).st = "zombie"
      BY DEF Zombie, NoProc
    <3> QED
      BY <2>0, <2>2, <3>1, <3>2 DEF Quiet, Newline, LogLast
  <2>3. CASE q # p /\ proc[q].parent = p
    <3>1. IsProc(proc[q])
      BY DEF TableOK, EntryOK
    <3>2. CASE proc[q].st = "zombie"
      <4>1. proc'[q] = NoProc
        BY <2>3, <3>2 DEF ended
      <4> QED
        BY <2>0, <3>2, <4>1 DEF Quiet, Newline, LogLast
    <3>3. CASE proc[q].st # "zombie"
      <4> DEFINE r == [proc[q] EXCEPT !.parent = 0]
      <4>1. proc'[q] = r
        BY <2>3, <3>3 DEF ended
      <4>2. r.st = proc[q].st /\ r.stack = proc[q].stack /\ r.can_write = proc[q].can_write
        BY <3>1 DEF IsProc, ProcFields
      <4> HIDE DEF r
      <4> QED
        BY <4>1, <4>2 DEF Quiet, Newline, LogLast
    <3> QED
      BY <3>2, <3>3
  <2>4. CASE q # p /\ proc[q].parent # p
    <3>1. proc'[q] = proc[q]
      BY <2>4 DEF ended
    <3> QED
      BY <3>1, QuietSelf
  <2> QED
    BY <2>2, <2>3, <2>4
<1>3. p = Main => Kept(proc'[p])
  <2> SUFFICES ASSUME p = Main PROVE proc'[p].st # "shell"
    BY DEF Kept
  <2>1. proc[p].parent = 0 /\ p # 0
    BY DEF TableOK, EntryOK, Pids
  <2>2. proc'[p] = Zombie(proc[p].parent, raw)
    BY <2>1 DEF ended, Zombie
  <2>3. Zombie(proc[p].parent, raw).st = "zombie"
    BY DEF Zombie, NoProc
  <2> QED
    BY <2>2, <2>3
<1> QED
  BY <1>1, <1>2, <1>3 DEF Effect, QuietStep

-----------------------------------------------------------------------------
(* The steps of a process, one by one. *)
LEMMA AtFacts ==
  ASSUME TableOK, NEW p \in Pids, NEW pc, At(p, pc)
  PROVE  /\ proc[p].st = "shell" /\ proc[p].stack # <<>> /\ Top(p).pc = pc /\ Top(p) = proc[p].stack[1]
         /\ IsFrame(Top(p)) /\ IsProc(proc[p]) /\ IsTable(proc[p].fds)
         /\ proc[p].can_write \in BOOLEAN /\ (proc[p].can_write => profiling)
         /\ pc # "make" => script.ok /\ WellFormed(script)
         /\ Top(p).c = 0 => pc \in {"make", "read", "log", "newline", "fin"} /\ p = Main
         /\ Top(p).c # 0 => pc \notin {"make", "read"} /\ Top(p).c \in DOMAIN script.node
                            /\ Waits(Top(p)) \subseteq Pids
         /\ Awaits(proc[p]) = Waits(Top(p)) /\ (Newline(proc[p]) <=> pc = "newline")
         /\ pc = "start" => p # Main
<1>1. proc[p].st = "shell" /\ proc[p].stack # <<>> /\ Top(p).pc = pc
  BY DEF At
<1>2. proc[p].can_write \in BOOLEAN /\ (proc[p].can_write => profiling)
  BY DEF TableOK, EntryOK
<1>3. Top(p).c = 0 => pc \in {"make", "read", "log", "newline", "fin"} /\ (pc = "make" \/ script.ok) /\ p = Main
  BY <1>1, TopFacts DEF MainFrameOK
<1>4. Top(p).c # 0 => pc \notin {"make", "read"} /\ Top(p).c \in DOMAIN script.node /\ script.ok
                    /\ Waits(Top(p)) \subseteq Pids
  BY <1>1, TopFacts DEF CallFrameOK
<1>5. script.ok => WellFormed(script)
  BY DEF TableOK
<1>6. Top(p) = proc[p].stack[1] /\ IsFrame(Top(p)) /\ IsProc(proc[p]) /\ IsTable(proc[p].fds)
  BY <1>1, TopFacts
<1>7. Newline(proc[p]) <=> pc = "newline"
  BY <1>1, <1>6 DEF Newline
<1>8. pc = "start" => p # Main
  <2>1. StackOK(p, proc[p].stack) /\ 1 \in 1..Len(proc[p].stack)
    BY <1>1, TopFacts DEF TableOK, EntryOK, IsStack
  <2> QED
    BY <1>1, <1>6, <2>1 DEF StackOK
<1> QED
  BY <1>1, <1>2, <1>3, <1>4, <1>5, <1>6, <1>7, <1>8, AwaitsTop

goto_fds(p, f, G) == [goto(p, f) EXCEPT !.fds = G]

LEMMA GotoIs ==
  ASSUME TableOK, NEW p \in Pids, NEW pc, At(p, pc), pc # "make", NEW f, SameFrame(p, f), NEW G, IsTable(G)
  PROVE  /\ GoesTo(p, goto(p, f), f) /\ goto(p, f).fds = proc[p].fds /\ goto(p, f).can_write = proc[p].can_write
         /\ GoesTo(p, goto_fds(p, f, G), f) /\ goto_fds(p, f, G).fds = G
         /\ goto_fds(p, f, G).can_write = proc[p].can_write
<1> DEFINE r == goto(p, f)  q == goto_fds(p, f, G)  s == <<f>> \o Tail(proc[p].stack)
<1>1. IsProc(proc[p]) /\ IsTable(proc[p].fds) /\ proc[p].st = "shell" /\ script.ok
      /\ proc[p].can_write \in BOOLEAN /\ (proc[p].can_write => profiling)
  BY AtFacts
<1>2. r = [proc[p] EXCEPT !.stack = s]
  BY DEF goto
<1>3. q = [r EXCEPT !.fds = G]
  BY DEF goto_fds
<1> HIDE DEF r, q, s
<1>4. IsProc(r) /\ r.st = "shell" /\ r.parent = proc[p].parent /\ r.fds = proc[p].fds
      /\ r.can_write = proc[p].can_write /\ r.stack = s
  BY <1>1, <1>2 DEF IsProc, ProcFields
<1>5. IsProc(q) /\ q.st = "shell" /\ q.parent = proc[p].parent /\ q.fds = G
      /\ q.can_write = proc[p].can_write /\ q.stack = s
  BY <1>3, <1>4 DEF IsProc, ProcFields
<1>6. GoesOn(p, r) /\ GoesOn(p, q)
  BY <1>1, <1>4, <1>5 DEF GoesOn
<1> QED
  BY <1>4, <1>5, <1>6 DEF GoesTo, r, q, s

(* F becomes G when the descriptors in S are opened, or closed. *)
OpensAt(F, G, S) == IsTable(G) /\ \A i \in 0..(NFD - 1) :
  IF i \in S THEN F[i] = Closed /\ G[i] # Closed ELSE G[i] = F[i]
OpenRecord == {"fd", "fds", "obj", "file"}

(* open() takes a free descriptor, or none. *)
LEMMA OpenFacts ==
  ASSUME NEW k, DOMAIN k = OpenRecord, IsTable(k.fds), NEW name, NEW kind, NEW mode, mode = "r" \/ mode = "w"
  PROVE  /\ DOMAIN open(k, name, kind, mode) = OpenRecord
         /\ OpensAt(k.fds, open(k, name, kind, mode).fds, {open(k, name, kind, mode).fd})
<1> DEFINE o == open(k, name, kind, mode)
<1>1. CASE FreeFds(k.fds) = {} \/ (kind = "in" /\ k.file[name] = -1)
  <2>1. o = [k EXCEPT !.fd = -1]
    BY <1>1 DEF open
  <2>2. DOMAIN o = OpenRecord /\ o.fd = -1 /\ o.fds = k.fds
    BY <2>1 DEF OpenRecord
  <2>3. \A i \in 0..(NFD - 1) : i # -1
    BY BoundsAssumption
  <2> HIDE DEF o
  <2>4. OpensAt(k.fds, o.fds, {o.fd})
    BY <2>2, <2>3 DEF OpensAt
  <2> QED
    BY <2>2, <2>4 DEF o
<1>2. CASE ~(FreeFds(k.fds) = {} \/ (kind = "in" /\ k.file[name] = -1))
  <2> DEFINE j == Min(FreeFds(k.fds))  x == Spare(k.fds)
  <2>1. j \in 0..(NFD - 1) /\ k.fds[j] = Closed
    <3>1. FreeFds(k.fds) \in SUBSET (0..(NFD - 1)) /\ FreeFds(k.fds) # {}
      BY <1>2 DEF FreeFds, IsTable
    <3>2. 0..(NFD - 1) \subseteq Nat
      BY BoundsAssumption
    <3>3. j \in FreeFds(k.fds)
      BY <3>1, <3>2, MinNat
    <3> QED
      BY <3>1, <3>3 DEF FreeFds
  <2>2. o = [fd |-> j, fds |-> [k.fds EXCEPT ![j] = <<x, mode>>],
             obj |-> [k.obj EXCEPT ![x] = [kind |-> kind, name |-> name, n |-> 0]],
             file |-> IF kind = "out" THEN [k.file EXCEPT ![name] = 0] ELSE k.file]
    BY <1>2, Zenon DEF open
  <2>3. <<x, mode>> # Closed
    BY StdNotClosed
  <2> HIDE DEF o, j, x
  <2>4. DOMAIN o = OpenRecord /\ o.fd = j /\ o.fds = [k.fds EXCEPT ![j] = <<x, mode>>]
    BY <2>2 DEF OpenRecord
  <2>5. IsTable(o.fds) /\ \A i \in 0..(NFD - 1) : o.fds[i] = IF i = j THEN <<x, mode>> ELSE k.fds[i]
    BY <2>4 DEF IsTable
  <2>6. OpensAt(k.fds, o.fds, {o.fd})
    BY <2>1, <2>3, <2>4, <2>5 DEF OpensAt
  <2> QED
    BY <2>4, <2>6 DEF o
<1> QED
  BY <1>1, <1>2

(* The descriptors the redirections of a command n opened. *)
Opened(n, in, out) ==
  {i \in 0..(NFD - 1) : (n.in # "" /\ i = in) \/ (n.out # "" /\ i = out)}
Redirecting == {"SUBSHELL", "IF", "WHILE", "UNTIL", "SIMPLE"}

LEMMA KeepsOpened ==
  ASSUME NEW f, f.c # 0, TypeOf(f) \in Redirecting, f.pc # "enter"
  PROVE  Keeps(f) = Opened(script.node[f.c], f.in, f.out)
BY DEF Keeps, Redirecting, Opened

LEMMA KeepsNone ==
  ASSUME NEW f, \/ f.c = 0
                \/ f.pc = "enter"
                \/ TypeOf(f) = "SEQUENCE"
                \/ TypeOf(f) = "PIPE" /\ f.pc \notin {"fork_r", "parent"}
  PROVE  Keeps(f) = {}
BY DEF Keeps

LEMMA RedirectFacts ==
  ASSUME NEW p \in Pids, IsTable(proc[p].fds), NEW f
  PROVE  OpensAt(proc[p].fds, redirect(p, f).k.fds,
                 Opened(script.node[f.c], redirect(p, f).in, redirect(p, f).out))
<1> DEFINE n == script.node[f.c]  F == proc[p].fds
           k0 == [fd |-> -1, fds |-> F, obj |-> obj, file |-> file]
           k1 == IF n.in = "" THEN [k0 EXCEPT !.fd = f.in] ELSE open(k0, n.in, "in", "r")
           k2 == IF n.out = "" THEN [k1 EXCEPT !.fd = f.out] ELSE open(k1, n.out, "out", "w")
<1>1. redirect(p, f) = [k |-> k2, in |-> k1.fd, out |-> k2.fd]
  BY DEF redirect
<1>2. DOMAIN k0 = OpenRecord /\ k0.fds = F
  BY DEF OpenRecord
<1> HIDE DEF k0
<1>3. DOMAIN k1 = OpenRecord /\ OpensAt(F, k1.fds, {i \in {k1.fd} : n.in # ""})
  <2>1. CASE n.in = ""
    <3>1. k1 = [k0 EXCEPT !.fd = f.in]
      BY <2>1
    <3>2. DOMAIN k1 = OpenRecord /\ k1.fds = F
      BY <1>2, <3>1 DEF OpenRecord
    <3> HIDE DEF k1
    <3> QED
      BY <2>1, <3>2 DEF OpensAt
  <2>2. CASE n.in # ""
    <3>1. k1 = open(k0, n.in, "in", "r")
      BY <2>2
    <3> HIDE DEF k1
    <3>2. DOMAIN k1 = OpenRecord /\ OpensAt(k0.fds, k1.fds, {k1.fd})
      BY <1>2, <3>1, OpenFacts
    <3> QED
      BY <1>2, <2>2, <3>2 DEF OpensAt
  <2> QED
    BY <2>1, <2>2
<1> HIDE DEF k1
<1>4. DOMAIN k2 = OpenRecord /\ OpensAt(k1.fds, k2.fds, {i \in {k2.fd} : n.out # ""})
  <2>0. IsTable(k1.fds)
    BY <1>3 DEF OpensAt
  <2>1. CASE n.out = ""
    <3>1. k2 = [k1 EXCEPT !.fd = f.out]
      BY <2>1
    <3>2. DOMAIN k2 = OpenRecord /\ k2.fds = k1.fds
      BY <1>3, <3>1 DEF OpenRecord
    <3> HIDE DEF k2
    <3> QED
      BY <2>0, <2>1, <3>2 DEF OpensAt
  <2>2. CASE n.out # ""
    <3>1. k2 = open(k1, n.out, "out", "w")
      BY <2>2
    <3> HIDE DEF k2
    <3>2. DOMAIN k2 = OpenRecord /\ OpensAt(k1.fds, k2.fds, {k2.fd})
      BY <1>3, <2>0, <3>1, OpenFacts
    <3> QED
      BY <2>2, <3>2 DEF OpensAt
  <2> QED
    BY <2>1, <2>2
<1> HIDE DEF k2, F
<1>5. redirect(p, f).k = k2 /\ redirect(p, f).in = k1.fd /\ redirect(p, f).out = k2.fd
  BY <1>1
<1>6. OpensAt(F, k2.fds, Opened(n, k1.fd, k2.fd))
  BY <1>3, <1>4 DEF OpensAt, Opened
<1> QED
  BY <1>5, <1>6 DEF F

Core == TableOK /\ DescriptorsKept /\ Ranked /\ next \in Nat \ {0}

LEMMA EnterStep ==
  ASSUME Core, NEW p \in Pids, Enter(p)
  PROVE  Effect(p) /\ QuietStep
<1> USE DEF Core
<1> DEFINE f == Top(p)  d == redirect(p, f)  F == proc[p].fds
           g == [f EXCEPT !.pc = "run", !.in = d.in, !.out = d.out]
           r == goto_fds(p, g, d.k.fds)
<1>1. At(p, "enter") /\ TypeOf(f) \in Redirecting
  BY DEF Enter, TypeOf, Redirecting
<1>2. f.pc = "enter" /\ f.c # 0 /\ IsFrame(f) /\ IsTable(F) /\ script.ok
  BY <1>1, AtFacts
<1>3. proc' = [proc EXCEPT ![p] = r] /\ failures' = failures /\ log' = log
  BY DEF Enter, goto_fds
<1>4. OpensAt(F, d.k.fds, Opened(script.node[f.c], d.in, d.out))
  BY <1>2, RedirectFacts
<1> HIDE DEF d
<1>5. IsFrame(g) /\ g.c = f.c /\ g.pc = "run" /\ g.in = d.in /\ g.out = d.out
  BY <1>2 DEF IsFrame, FrameFields
<1> HIDE DEF g
<1>6. SameFrame(p, g) /\ IsTable(d.k.fds)
  BY <1>2, <1>4, <1>5, WaitsNone DEF SameFrame, OpensAt
<1>7. GoesTo(p, r, g) /\ r.fds = d.k.fds
  BY <1>1, <1>6, GotoIs
<1>8. FdStep(f, g, F, d.k.fds)
  <2>1. Keeps(f) = {}
    BY <1>2, KeepsNone
  <2>2. TypeOf(g) \in Redirecting
    BY <1>1, <1>5 DEF TypeOf
  <2>3. Keeps(g) = Opened(script.node[f.c], d.in, d.out)
    BY <1>2, <1>5, <2>2, KeepsOpened
  <2> QED
    BY <1>4, <2>1, <2>3 DEF FdStep, OpensAt
<1>9. Waits(f) = {} /\ Awaits(proc[p]) = Waits(f)
  BY <1>1, <1>2, WaitsNone, AtFacts
<1> HIDE DEF r
<1>10. Fits(p, r)
  BY <1>1, <1>2, <1>5, <1>7, <1>8, GoesFits
<1> QED
  BY <1>2, <1>3, <1>9, <1>10, LocalStep, AtFacts, <1>1 DEF Alive

(* A call of recursive_execute for the command c. *)
LEMMA CallStep ==
  ASSUME Core, NEW p \in Pids, NEW pc, At(p, pc), pc \notin {"make", "newline"}, NEW to, NEW c \in DOMAIN script.node,
         proc' = [proc EXCEPT ![p] = call(p, to, c)], failures' = failures, log' = log,
         pc \notin {"fork_r", "parent", "wait", "wait_r"}, to \in Calling, Top(p).c = 0 <=> to = "read",
         \/ Top(p).c = 0
         \/ TypeOf(Top(p)) = "SEQUENCE"
         \/ TypeOf(Top(p)) \in Redirecting /\ pc # "enter"
  PROVE  Effect(p) /\ QuietStep
<1> USE DEF Core
<1> DEFINE f == Top(p)  g == [f EXCEPT !.pc = to]  h == Frame(c, f.in, f.out)
           t == <<h, g>> \o Tail(proc[p].stack)  r == [proc[p] EXCEPT !.stack = t]
<1>1. f.pc = pc /\ IsFrame(f) /\ IsProc(proc[p]) /\ IsTable(proc[p].fds) /\ script.ok /\ proc[p].st = "shell"
      /\ proc[p].can_write \in BOOLEAN /\ (proc[p].can_write => profiling) /\ Awaits(proc[p]) = Waits(f)
  BY AtFacts
<1>2. call(p, to, c) = r
  BY DEF call
<1>3. IsFrame(g) /\ g.c = f.c /\ g.pc = to /\ g.in = f.in /\ g.out = f.out
  BY <1>1 DEF IsFrame, FrameFields
<1>4. IsFrame(h) /\ h.c = c /\ h.pc = "enter"
  BY DEF IsFrame, FrameFields, Frame
<1> HIDE DEF g, h, t
<1>5. IsProc(r) /\ r.st = "shell" /\ r.parent = proc[p].parent /\ r.fds = proc[p].fds
      /\ r.can_write = proc[p].can_write /\ r.stack = t
  BY <1>1 DEF IsProc, ProcFields
<1> HIDE DEF r
<1>6. SameFrame(p, g)
  BY <1>3, WaitsNone DEF SameFrame, Calling
<1>7. CallsTo(p, r, g, h)
  BY <1>1, <1>3, <1>4, <1>5, <1>6 DEF CallsTo, GoesOn, t
<1>8. Keeps(g) = Keeps(f)
  <2>1. CASE f.c = 0
    BY <1>3, <2>1, KeepsNone
  <2>2. CASE TypeOf(f) = "SEQUENCE"
    <3>1. TypeOf(g) = "SEQUENCE"
      BY <1>3, <2>2 DEF TypeOf
    <3> QED
      BY <2>2, <3>1, KeepsNone
  <2>3. CASE f.c # 0 /\ TypeOf(f) \in Redirecting /\ pc # "enter"
    <3>1. TypeOf(g) \in Redirecting /\ g.pc # "enter"
      BY <1>3, <2>3 DEF TypeOf, Calling
    <3> QED
      BY <1>1, <1>3, <2>3, <3>1, KeepsOpened
  <2> QED
    BY <2>1, <2>2, <2>3
<1>9. Keeps(h) = {} /\ Waits(f) = {}
  BY <1>1, <1>4, KeepsNone, WaitsNone
<1>10. Fits(p, r)
  BY <1>5, <1>7, <1>8, <1>9, CallsFits
<1> QED
  BY <1>1, <1>2, <1>9, <1>10, LocalStep DEF Alive

ClosesAt(F, G, S) == IsTable(G) /\ \A i \in 0..(NFD - 1) : G[i] = IF i \in S THEN Closed ELSE F[i]

LEMMA CloseFacts ==
  ASSUME NEW F, IsTable(F), NEW j
  PROVE  ClosesAt(F, close(F, j), {j})
BY DEF ClosesAt, close, IsTable

(* What an execute_* closes before it returns. *)
LEMMA ClosedFacts ==
  ASSUME NEW p, IsTable(proc[p].fds), NEW f, f.c # 0,
         \/ TypeOf(f) \in Redirecting /\ f.pc # "enter"
         \/ Keeps(f) = {} /\ script.node[f.c].in = "" /\ script.node[f.c].out = ""
  PROVE  IsTable(closed(p, f)) /\ Closes(f, proc[p].fds, closed(p, f))
<1> DEFINE n == script.node[f.c]  F == proc[p].fds
           G == IF n.in = "" THEN F ELSE close(F, f.in)
           H == IF n.out = "" THEN G ELSE close(G, f.out)
<1>1. closed(p, f) = H
  BY DEF closed
<1>2. ClosesAt(F, G, {i \in {f.in} : n.in # ""})
  <2>1. CASE n.in = ""
    BY <2>1 DEF ClosesAt
  <2>2. CASE n.in # ""
    <3>1. G = close(F, f.in)
      BY <2>2
    <3> HIDE DEF G
    <3>2. ClosesAt(F, G, {f.in})
      BY <3>1, CloseFacts
    <3> QED
      BY <2>2, <3>2 DEF ClosesAt
  <2> QED
    BY <2>1, <2>2
<1> HIDE DEF G
<1>3. ClosesAt(G, H, {i \in {f.out} : n.out # ""})
  <2>0. IsTable(G)
    BY <1>2 DEF ClosesAt
  <2>1. CASE n.out = ""
    BY <2>0, <2>1 DEF ClosesAt
  <2>2. CASE n.out # ""
    <3>1. H = close(G, f.out)
      BY <2>2
    <3> HIDE DEF H
    <3>2. ClosesAt(G, H, {f.out})
      BY <2>0, <3>1, CloseFacts
    <3> QED
      BY <2>2, <3>2 DEF ClosesAt
  <2> QED
    BY <2>1, <2>2
<1> HIDE DEF H, F
<1>4. Keeps(f) = Opened(n, f.in, f.out)
  <2>1. CASE TypeOf(f) \in Redirecting /\ f.pc # "enter"
    BY <2>1, KeepsOpened
  <2>2. CASE Keeps(f) = {} /\ n.in = "" /\ n.out = ""
    BY <2>2 DEF Opened
  <2> QED
    BY <2>1, <2>2
<1>5. Closes(f, F, H)
  BY <1>2, <1>3, <1>4 DEF Closes, ClosesAt, Opened
<1>6. IsTable(H)
  BY <1>3 DEF ClosesAt
<1> QED
  BY <1>1, <1>5, <1>6 DEF F

LEMMA ReturnStep ==
  ASSUME Core, NEW p \in Pids, NEW pc, At(p, pc), Top(p).c # 0,
         pc \notin {"newline", "fork_r", "parent", "wait", "wait_r"},
         NEW r, proc' = [proc EXCEPT ![p] = r], failures' = failures, log' = log,
         IsProc(r), r.st = "shell", r.parent = proc[p].parent, r.can_write = proc[p].can_write,
         r.stack = Tail(proc[p].stack), IsTable(r.fds), ColonLeaks \/ Closes(Top(p), proc[p].fds, r.fds)
  PROVE  Effect(p) /\ QuietStep
<1> USE DEF Core
<1>1. Top(p).pc = pc /\ script.ok /\ proc[p].st = "shell" /\ proc[p].can_write \in BOOLEAN
      /\ (proc[p].can_write => profiling) /\ Awaits(proc[p]) = Waits(Top(p))
  BY AtFacts
<1>2. ReturnsTo(p, r)
  BY <1>1 DEF ReturnsTo, GoesOn
<1>3. Fits(p, r) /\ Waits(Top(p)) = {}
  BY <1>1, <1>2, ReturnsFits, WaitsNone
<1> QED
  BY <1>1, <1>3, LocalStep DEF Alive

LEMMA ReturnFacts ==
  ASSUME NEW p, IsProc(proc[p]), NEW status
  PROVE  LET r == return(p, status)
         IN /\ IsProc(r) /\ r.st = proc[p].st /\ r.parent = proc[p].parent /\ r.can_write = proc[p].can_write
            /\ r.stack = Tail(proc[p].stack) /\ r.fds = closed(p, Top(p))
BY DEF return, IsProc, ProcFields

LEMMA RunsFacts ==
  ASSUME TableOK, NEW p \in Pids, NEW type, NEW pc, Runs(p, type, pc)
  PROVE  /\ At(p, pc) /\ Top(p).c # 0 /\ TypeOf(Top(p)) = type /\ Top(p).c \in DOMAIN script.node
         /\ \A k \in 1..Len(script.node[Top(p).c].kids) : Kid(Top(p).c, k) \in DOMAIN script.node
         /\ Len(script.node[Top(p).c].kids) \in Arity(type) /\ script.ok
         /\ type \in {"SEQUENCE", "PIPE"} => script.node[Top(p).c].in = "" /\ script.node[Top(p).c].out = ""
<1>1. At(p, pc) /\ Top(p).c # 0 /\ script.node[Top(p).c].type = type
  BY DEF Runs
<1>2. Top(p).c \in DOMAIN script.node /\ WellFormed(script) /\ script.ok
  BY <1>1, AtFacts
<1> QED
  BY <1>1, <1>2, NodeFacts DEF TypeOf

LEMMA LocalIs ==
  ASSUME NEW p, NEW r, Local(p, r)
  PROVE  proc' = [proc EXCEPT ![p] = r] /\ failures' = failures /\ log' = log
BY DEF Local

(* An execute_* returns, having closed what it opened. *)
LEMMA LocalReturn ==
  ASSUME Core, NEW p \in Pids, NEW type, NEW pc, Runs(p, type, pc), NEW status, Local(p, return(p, status)),
         type = "SEQUENCE" \/ type \in Redirecting, pc # "enter",
         pc \notin {"newline", "fork_r", "parent", "wait", "wait_r"}
  PROVE  Effect(p) /\ QuietStep
<1> USE DEF Core
<1> DEFINE f == Top(p)  r == return(p, status)
<1>1. At(p, pc) /\ f.c # 0 /\ TypeOf(f) = type
      /\ (type = "SEQUENCE" => script.node[f.c].in = "" /\ script.node[f.c].out = "")
  BY RunsFacts
<1>2. f.pc = pc /\ IsProc(proc[p]) /\ IsTable(proc[p].fds) /\ proc[p].st = "shell"
  BY <1>1, AtFacts
<1>3. IsTable(closed(p, f)) /\ Closes(f, proc[p].fds, closed(p, f))
  BY <1>1, <1>2, ClosedFacts, KeepsNone
<1>4. IsProc(r) /\ r.st = proc[p].st /\ r.parent = proc[p].parent /\ r.can_write = proc[p].can_write
      /\ r.stack = Tail(proc[p].stack) /\ r.fds = closed(p, Top(p))
  BY <1>2, ReturnFacts
<1>5. proc' = [proc EXCEPT ![p] = r] /\ failures' = failures /\ log' = log
  BY LocalIs
<1> HIDE DEF r
<1> QED
  BY <1>1, <1>2, <1>3, <1>4, <1>5, ReturnStep

LEMMA KidFacts ==
  ASSUME TableOK, NEW p \in Pids, NEW type, NEW pc, Runs(p, type, pc)
  PROVE  /\ type \in {"SEQUENCE", "PIPE", "WHILE", "UNTIL", "IF", "SUBSHELL"} => Kid(Top(p).c, 1) \in DOMAIN script.node
         /\ type \in {"SEQUENCE", "PIPE", "WHILE", "UNTIL", "IF"} => Kid(Top(p).c, 2) \in DOMAIN script.node
         /\ Len(script.node[Top(p).c].kids) = 3 => Kid(Top(p).c, 3) \in DOMAIN script.node
<1> DEFINE n == Len(script.node[Top(p).c].kids)
<1>1. n \in Arity(type) /\ \A k \in 1..n : Kid(Top(p).c, k) \in DOMAIN script.node
  BY RunsFacts
<1>2. /\ type \in {"SUBSHELL"} => n = 1
      /\ type \in {"SEQUENCE", "PIPE", "WHILE", "UNTIL"} => n = 2
      /\ type \in {"IF"} => n \in {2, 3}
  BY <1>1, Arities, Zenon
<1> HIDE DEF n
<1>3. /\ type \in {"SEQUENCE", "PIPE", "WHILE", "UNTIL", "IF", "SUBSHELL"} => 1 \in 1..n
      /\ type \in {"SEQUENCE", "PIPE", "WHILE", "UNTIL", "IF"} => 2 \in 1..n
      /\ n = 3 => 3 \in 1..n
  BY <1>2
<1> QED
  BY <1>1, <1>3 DEF n

(* An execute_* calls recursive_execute for its subcommand x. *)
LEMMA LocalCall ==
  ASSUME Core, NEW p \in Pids, NEW type, NEW pc, Runs(p, type, pc), NEW to, NEW x \in DOMAIN script.node,
         Local(p, call(p, to, x)), type = "SEQUENCE" \/ (type \in Redirecting /\ pc # "enter"),
         pc \notin {"newline", "fork_r", "parent", "wait", "wait_r"},
         to \in {"second", "after", "branch", "then", "else", "test", "run"}
  PROVE  Effect(p) /\ QuietStep
<1>1. At(p, pc) /\ Top(p).c # 0 /\ TypeOf(Top(p)) = type
  BY RunsFacts DEF Core
<1>2. pc # "make"
  BY <1>1, AtFacts DEF Core
<1>3. to \in Calling /\ to # "read"
  BY DEF Calling
<1> QED
  BY <1>1, <1>2, <1>3, CallStep, LocalIs

LEMMA SequenceStep ==
  ASSUME Core, NEW p \in Pids, execute_sequence(p)
  PROVE  Effect(p) /\ QuietStep
<1> DEFINE c == Top(p).c  S == "SEQUENCE"
<1>1. CASE Runs(p, S, "enter") /\ Local(p, call(p, "second", Kid(c, 1)))
  <2>1. Kid(c, 1) \in DOMAIN script.node
    BY <1>1, KidFacts DEF Core
  <2> QED
    BY <1>1, <2>1, LocalCall
<1>2. CASE Runs(p, S, "second") /\ Local(p, call(p, "after", Kid(c, 2)))
  <2>1. Kid(c, 2) \in DOMAIN script.node
    BY <1>2, KidFacts DEF Core
  <2> QED
    BY <1>2, <2>1, LocalCall
<1>3. CASE Runs(p, S, "after") /\ Local(p, return(p, proc[p].status[Kid(c, 2)]))
  BY <1>3, LocalReturn
<1> QED
  BY <1>1, <1>2, <1>3 DEF execute_sequence

LEMMA IfStep ==
  ASSUME Core, NEW p \in Pids, execute_if(p)
  PROVE  Effect(p) /\ QuietStep
<1> DEFINE c == Top(p).c  cond == proc[p].status[Kid(c, 1)]
<1>0. "IF" \in Redirecting
  BY DEF Redirecting
<1>1. CASE Runs(p, "IF", "run") /\ Local(p, call(p, "branch", Kid(c, 1)))
  <2>1. Kid(c, 1) \in DOMAIN script.node
    BY <1>1, KidFacts DEF Core
  <2> QED
    BY <1>0, <1>1, <2>1, LocalCall
<1>2. CASE Runs(p, "IF", "branch") /\ Local(p, call(p, "then", Kid(c, 2)))
  <2>1. Kid(c, 2) \in DOMAIN script.node
    BY <1>2, KidFacts DEF Core
  <2> QED
    BY <1>0, <1>2, <2>1, LocalCall
<1>3. CASE Runs(p, "IF", "branch") /\ Len(script.node[c].kids) = 3 /\ Local(p, call(p, "else", Kid(c, 3)))
  <2>1. Kid(c, 3) \in DOMAIN script.node
    BY <1>3, KidFacts DEF Core
  <2> QED
    BY <1>0, <1>3, <2>1, LocalCall
<1>4. CASE Runs(p, "IF", "branch") /\ Local(p, return(p, cond))
  BY <1>0, <1>4, LocalReturn
<1>5. CASE Runs(p, "IF", "then") /\ Local(p, return(p, proc[p].status[Kid(c, 2)]))
  BY <1>0, <1>5, LocalReturn
<1>6. CASE Runs(p, "IF", "else") /\ Local(p, return(p, proc[p].status[Kid(c, 3)]))
  BY <1>0, <1>6, LocalReturn
<1> QED
  BY <1>1, <1>2, <1>3, <1>4, <1>5, <1>6 DEF execute_if

LEMMA LoopStep ==
  ASSUME Core, NEW p \in Pids, execute_loop(p)
  PROVE  Effect(p) /\ QuietStep
<1> DEFINE c == Top(p).c  cond == proc[p].status[Kid(c, 1)]
<1>1. PICK type \in {"WHILE", "UNTIL"} :
        \/ Runs(p, type, "run") /\ Local(p, call(p, "test", Kid(c, 1)))
        \/ Runs(p, type, "test") /\ Local(p, call(p, "run", Kid(c, 2)))
        \/ Runs(p, type, "test") /\ Local(p, return(p, loop_status(proc[p].status[Kid(c, 2)], cond)))
  BY DEF execute_loop
<1>2. type \in Redirecting /\ type \in {"SEQUENCE", "PIPE", "WHILE", "UNTIL", "IF"}
  BY DEF Redirecting
<1>3. CASE Runs(p, type, "run") /\ Local(p, call(p, "test", Kid(c, 1)))
  <2>1. Kid(c, 1) \in DOMAIN script.node
    BY <1>2, <1>3, KidFacts DEF Core
  <2> QED
    BY <1>2, <1>3, <2>1, LocalCall
<1>4. CASE Runs(p, type, "test") /\ Local(p, call(p, "run", Kid(c, 2)))
  <2>1. Kid(c, 2) \in DOMAIN script.node
    BY <1>2, <1>4, KidFacts DEF Core
  <2> QED
    BY <1>2, <1>4, <2>1, LocalCall
<1>5. CASE Runs(p, type, "test") /\ Local(p, return(p, loop_status(proc[p].status[Kid(c, 2)], cond)))
  BY <1>2, <1>5, LocalReturn
<1> QED
  BY <1>1, <1>3, <1>4, <1>5

-----------------------------------------------------------------------------
(* Steps of the frame on top. *)
LEMMA FdSame == ASSUME NEW f, NEW g, Keeps(g) = Keeps(f), NEW F PROVE FdStep(f, g, F, F)
BY DEF FdStep

LEMMA FdOpens ==
  ASSUME NEW f, NEW g, NEW F, NEW G, Keeps(f) = {}, OpensAt(F, G, Keeps(g))
  PROVE  FdStep(f, g, F, G)
BY DEF FdStep, OpensAt

LEMMA FdCloses ==
  ASSUME NEW f, NEW g, NEW F, NEW G, Keeps(g) = {}, ClosesAt(F, G, Keeps(f))
  PROVE  FdStep(f, g, F, G)
BY DEF FdStep, ClosesAt

LEMMA GoStep ==
  ASSUME Core, NEW p \in Pids, NEW pc, At(p, pc), pc \notin {"make", "newline"}, NEW f, SameFrame(p, f),
         f.pc # "newline", f.c = 0 /\ f.pc = "fin" => ~proc[p].can_write,
         NEW G, IsTable(G), p = Main => FdStep(Top(p), f, proc[p].fds, G), Waits(Top(p)) \subseteq Waits(f),
         proc' = [proc EXCEPT ![p] = goto_fds(p, f, G)], failures' = failures, log' = log
  PROVE  Effect(p) /\ QuietStep
<1> USE DEF Core
<1> DEFINE r == goto_fds(p, f, G)
<1>1. GoesTo(p, r, f) /\ r.fds = G /\ r.can_write = proc[p].can_write
  BY GotoIs
<1> HIDE DEF r
<1>2. Fits(p, r) /\ Awaits(r) = Waits(f)
  BY <1>1, GoesFits
<1>3. proc[p].st = "shell" /\ Awaits(proc[p]) = Waits(Top(p))
  BY AtFacts
<1> QED
  BY <1>2, <1>3, LocalStep DEF r, Alive

LEMMA GoStepSame ==
  ASSUME Core, NEW p \in Pids, NEW pc, At(p, pc), pc \notin {"make", "newline"}, NEW f, SameFrame(p, f),
         f.pc # "newline", f.c = 0 /\ f.pc = "fin" => ~proc[p].can_write,
         Keeps(f) = Keeps(Top(p)), Waits(Top(p)) \subseteq Waits(f),
         proc' = [proc EXCEPT ![p] = goto(p, f)], failures' = failures, log' = log
  PROVE  Effect(p) /\ QuietStep
<1> USE DEF Core
<1> DEFINE r == goto(p, f)
<1>1. IsTable(proc[p].fds)
  BY AtFacts
<1>2. GoesTo(p, r, f) /\ r.fds = proc[p].fds /\ r.can_write = proc[p].can_write
  BY <1>1, GotoIs
<1> HIDE DEF r
<1>3. FdStep(Top(p), f, proc[p].fds, r.fds)
  BY <1>2, FdSame
<1>4. Fits(p, r) /\ Awaits(r) = Waits(f)
  BY <1>2, <1>3, GoesFits
<1>5. proc[p].st = "shell" /\ Awaits(proc[p]) = Waits(Top(p))
  BY AtFacts
<1> QED
  BY <1>4, <1>5, LocalStep DEF r, Alive

LEMMA OneFrame ==
  ASSUME NEW f, IsFrame(f)
  PROVE  IsStack(<<f>>) /\ Len(<<f>>) = 1 /\ <<f>>[1] = f /\ <<f>> # <<>>
<1>1. Len(<<f>>) = 1 /\ <<f>>[1] = f /\ <<f>> # <<>>
  OBVIOUS
<1>2. <<f>> = [k \in 1..1 |-> <<f>>[k]]
  OBVIOUS
<1> QED
  BY <1>1, <1>2 DEF IsStack

(* The child of a fork that goes on executing the command c. *)
LEMMA ChildOK ==
  ASSUME TableOK, NEW p \in Pids, NEW pc, At(p, pc), pc # "make", ~NoFree, NEW fds, IsTable(fds),
         NEW c \in DOMAIN script.node, NEW in, NEW out, NEW unused
  PROVE  LET ch == child(p, fds, c, in, out, unused)
         IN EntryOK(NewPid, ch) /\ ch.st # "free" /\ ch.parent = p /\ ~Newline(ch) /\ ~LogLast(ch)
<1> DEFINE f == [Frame(c, in, out) EXCEPT !.pc = "start", !.fd[1] = unused]
           ch == [proc[p] EXCEPT !.parent = p, !.fds = fds, !.stack = <<f>>]
<1>1. child(p, fds, c, in, out, unused) = ch
  BY DEF child
<1>2. IsProc(proc[p]) /\ proc[p].st = "shell" /\ script.ok /\ WellFormed(script)
      /\ proc[p].can_write \in BOOLEAN /\ (proc[p].can_write => profiling)
  BY AtFacts
<1>3. IsFrame(f) /\ f.c = c /\ f.pc = "start"
  BY DEF Frame, IsFrame, FrameFields
<1> HIDE DEF f
<1>4. c # 0
  BY <1>2, NodeFacts
<1>5. IsStack(<<f>>) /\ Len(<<f>>) = 1 /\ <<f>>[1] = f /\ <<f>> # <<>>
  BY <1>3, OneFrame
<1>6. NewPid \in Pids /\ NewPid # Main
  BY NewPidFree
<1>7. IsProc(ch) /\ ch.st = "shell" /\ ch.parent = p /\ ch.fds = fds /\ ch.stack = <<f>>
      /\ ch.can_write = proc[p].can_write
  BY <1>2 DEF IsProc, ProcFields
<1> HIDE DEF ch
<1>8. StackOK(NewPid, <<f>>)
  <2>1. CallFrameOK(f)
    BY <1>2, <1>3, WaitsNone DEF CallFrameOK
  <2> QED
    BY <1>5, <1>6, <2>1 DEF StackOK
<1>9. EntryOK(NewPid, ch)
  BY <1>2, <1>6, <1>7, <1>8 DEF EntryOK
<1>10. ~Newline(ch) /\ ~LogLast(ch)
  BY <1>3, <1>4, <1>5, <1>7 DEF Newline, LogLast
<1> QED
  BY <1>1, <1>7, <1>9, <1>10

(* The frame on top forks ch. *)
LEMMA ForkGoes ==
  ASSUME Core, NEW p \in Pids, NEW pc, At(p, pc), pc \notin {"make", "newline"}, Top(p).c # 0, ~NoFree,
         NEW f, SameFrame(p, f), f.pc # "newline", NEW r, GoesTo(p, r, f),
         FdStep(Top(p), f, proc[p].fds, r.fds), Waits(Top(p)) \cup {NewPid} \subseteq Waits(f),
         NEW ch, EntryOK(NewPid, ch), ch.st # "free", ch.parent = p, ~Newline(ch), ~LogLast(ch),
         proc' = forked(p, r, ch), failures' = failures, log' = log
  PROVE  Effect(p) /\ QuietStep
<1> USE DEF Core
<1>1. Fits(p, r) /\ Awaits(r) = Waits(f)
  BY GoesFits DEF SameFrame
<1>2. proc[p].st = "shell" /\ Awaits(proc[p]) = Waits(Top(p)) /\ r.st = "shell"
  BY AtFacts DEF GoesTo, GoesOn
<1> QED
  BY <1>1, <1>2, ForkStep

-----------------------------------------------------------------------------
(* execute_pipe *)
LEMMA PipeLeftStep ==
  ASSUME Core, NEW p \in Pids, PipeLeft(p)
  PROVE  Effect(p) /\ QuietStep
<1> USE DEF Core
<1> DEFINE f == Top(p)  fds == proc[p].fds
           i == Min(FreeFds(fds))  j == Min(FreeFds(fds) \ {i})  o == Spare(fds)
           both == [fds EXCEPT ![i] = <<o, "r">>, ![j] = <<o, "w">>]
           g == [f EXCEPT !.pc = "fork_r", !.fd = <<i, j>>, !.pid[1] = NewPid]
           r == goto_fds(p, g, both)
           ch == child(p, both, Kid(f.c, 1), f.in, j, i)
<1>1. Runs(p, "PIPE", "enter") /\ ~NoFree /\ FreeFds(fds) \ {i} # {}
  BY DEF PipeLeft
<1>2. proc' = forked(p, r, ch) /\ failures' = failures /\ log' = log
  BY DEF PipeLeft, goto_fds
<1>3. At(p, "enter") /\ f.c # 0 /\ TypeOf(f) = "PIPE" /\ Kid(f.c, 1) \in DOMAIN script.node
  BY <1>1, RunsFacts, KidFacts
<1>4. f.pc = "enter" /\ IsFrame(f) /\ IsTable(fds)
  BY <1>3, AtFacts
<1>5. i \in 0..(NFD - 1) /\ j \in 0..(NFD - 1) /\ i # j /\ fds[i] = Closed /\ fds[j] = Closed
  <2>1. FreeFds(fds) \in SUBSET (0..(NFD - 1)) /\ 0..(NFD - 1) \subseteq Nat
    BY <1>4, BoundsAssumption DEF FreeFds, IsTable
  <2>2. i \in FreeFds(fds)
    BY <1>1, <2>1, MinNat
  <2>3. j \in FreeFds(fds) \ {i}
    <3> DEFINE S == FreeFds(fds) \ {i}
    <3>1. S \in SUBSET Nat /\ S # {}
      BY <1>1, <2>1
    <3> HIDE DEF S
    <3>2. Min(S) \in S
      BY <3>1, MinNat
    <3> QED
      BY <3>2 DEF S
  <2> QED
    BY <2>1, <2>2, <2>3 DEF FreeFds
<1>6. <<o, "r">> # Closed /\ <<o, "w">> # Closed
  BY StdNotClosed
<1> HIDE DEF i, j, o
<1>7. OpensAt(fds, both, {i, j})
  BY <1>4, <1>5, <1>6 DEF OpensAt, IsTable
<1>8. IsTable(both)
  BY <1>7 DEF OpensAt
<1> HIDE DEF both
<1>9. IsFrame(g) /\ g.c = f.c /\ g.pc = "fork_r" /\ g.fd[1] = i /\ g.fd[2] = j /\ g.pid[1] = NewPid
  BY <1>4 DEF IsFrame, FrameFields
<1>10. NewPid \in Pids
  BY <1>1, NewPidFree
<1> HIDE DEF g
<1>11. TypeOf(g) = "PIPE" /\ Waits(g) = {NewPid} /\ Keeps(g) = {i, j}
  <2>1. TypeOf(g) = "PIPE"
    BY <1>3, <1>9 DEF TypeOf
  <2>2. \A k \in {1, 2} : WaitsFor(g, k) <=> k = 1
    BY <1>9, <2>1 DEF WaitsFor
  <2>3. Waits(g) = {NewPid}
    BY <1>3, <1>9, <2>2 DEF Waits
  <2>4. Keeps(g) = {i, j}
    BY <1>3, <1>5, <1>9, <2>1 DEF Keeps
  <2> QED
    BY <2>1, <2>3, <2>4
<1>12. Waits(f) = {} /\ Keeps(f) = {}
  BY <1>4, WaitsNone, KeepsNone
<1>13. SameFrame(p, g)
  BY <1>3, <1>9, <1>10, <1>11 DEF SameFrame
<1>14. GoesTo(p, r, g) /\ r.fds = both
  BY <1>3, <1>8, <1>13, GotoIs
<1>15. FdStep(f, g, fds, both)
  BY <1>7, <1>11, <1>12, FdOpens
<1>16. EntryOK(NewPid, ch) /\ ch.st # "free" /\ ch.parent = p /\ ~Newline(ch) /\ ~LogLast(ch)
  BY <1>1, <1>3, <1>8, ChildOK
<1> HIDE DEF r, ch
<1> QED
  BY <1>1, <1>2, <1>3, <1>9, <1>11, <1>12, <1>13, <1>14, <1>15, <1>16, ForkGoes

LEMMA PipeRightStep ==
  ASSUME Core, NEW p \in Pids, PipeRight(p)
  PROVE  Effect(p) /\ QuietStep
<1> USE DEF Core
<1> DEFINE f == Top(p)
           g == [f EXCEPT !.pc = "parent", !.pid[2] = NewPid]
           r == goto(p, g)
           ch == child(p, proc[p].fds, Kid(f.c, 2), f.fd[1], f.out, f.fd[2])
<1>1. Runs(p, "PIPE", "fork_r") /\ ~NoFree
  BY DEF PipeRight
<1>2. proc' = forked(p, r, ch) /\ failures' = failures /\ log' = log
  BY DEF PipeRight
<1>3. At(p, "fork_r") /\ f.c # 0 /\ TypeOf(f) = "PIPE" /\ Kid(f.c, 2) \in DOMAIN script.node
  BY <1>1, RunsFacts, KidFacts
<1>4. f.pc = "fork_r" /\ IsFrame(f) /\ IsTable(proc[p].fds) /\ Waits(f) \subseteq Pids
  BY <1>3, AtFacts
<1>5. IsFrame(g) /\ g.c = f.c /\ g.pc = "parent" /\ g.fd = f.fd /\ g.pid[1] = f.pid[1] /\ g.pid[2] = NewPid
  BY <1>4 DEF IsFrame, FrameFields
<1>6. NewPid \in Pids
  BY <1>1, NewPidFree
<1> HIDE DEF g
<1>7. TypeOf(g) = "PIPE"
  BY <1>3, <1>5 DEF TypeOf
<1>8. Waits(f) = {f.pid[1]}
  <2>1. \A k \in {1, 2} : WaitsFor(f, k) <=> k = 1
    BY <1>3, <1>4 DEF WaitsFor
  <2> QED
    BY <1>3, <2>1 DEF Waits
<1>9. Waits(g) = {f.pid[1], NewPid}
  <2>1. \A k \in {1, 2} : WaitsFor(g, k)
    BY <1>5, <1>7 DEF WaitsFor
  <2> QED
    BY <1>3, <1>5, <2>1 DEF Waits
<1>10. Keeps(g) = Keeps(f)
  BY <1>3, <1>4, <1>5, <1>7 DEF Keeps
<1>11. SameFrame(p, g)
  BY <1>3, <1>4, <1>5, <1>6, <1>8, <1>9 DEF SameFrame
<1>12. GoesTo(p, r, g) /\ r.fds = proc[p].fds
  BY <1>3, <1>4, <1>11, GotoIs
<1>13. EntryOK(NewPid, ch) /\ ch.st # "free" /\ ch.parent = p /\ ~Newline(ch) /\ ~LogLast(ch)
  BY <1>1, <1>3, <1>4, ChildOK
<1> HIDE DEF r, ch
<1>14. FdStep(f, g, proc[p].fds, r.fds)
  BY <1>10, <1>12, FdSame
<1> QED
  BY <1>1, <1>2, <1>3, <1>5, <1>8, <1>9, <1>11, <1>12, <1>13, <1>14, ForkGoes

LEMMA ParentStep ==
  ASSUME Core, NEW p \in Pids, Runs(p, "PIPE", "parent"),
         Local(p, [goto(p, [Top(p) EXCEPT !.pc = "wait"]) EXCEPT !.fds = parent_closes(@, Top(p).fd)])
  PROVE  Effect(p) /\ QuietStep
<1> USE DEF Core
<1> DEFINE f == Top(p)  F == proc[p].fds  g == [f EXCEPT !.pc = "wait"]  G == parent_closes(F, f.fd)
<1>1. At(p, "parent") /\ f.c # 0 /\ TypeOf(f) = "PIPE"
  BY RunsFacts
<1>2. f.pc = "parent" /\ IsFrame(f) /\ IsTable(F) /\ Waits(f) \subseteq Pids
  BY <1>1, AtFacts
<1>3. IsFrame(g) /\ g.c = f.c /\ g.pc = "wait" /\ g.fd = f.fd /\ g.pid = f.pid
  BY <1>2 DEF IsFrame, FrameFields
<1>4. goto(p, g).fds = F
  <2>1. IsProc(proc[p])
    BY <1>1, AtFacts
  <2> QED
    BY <2>1 DEF goto, IsProc, ProcFields
<1>5. proc' = [proc EXCEPT ![p] = goto_fds(p, g, G)] /\ failures' = failures /\ log' = log
  BY <1>4, LocalIs, Zenon DEF goto_fds
<1> HIDE DEF g
<1>6. TypeOf(g) = "PIPE"
  BY <1>1, <1>3 DEF TypeOf
<1>7. Waits(g) = Waits(f)
  <2>1. \A k \in {1, 2} : WaitsFor(g, k) /\ WaitsFor(f, k)
    BY <1>1, <1>2, <1>3, <1>6 DEF WaitsFor
  <2> QED
    BY <1>1, <1>3, <2>1 DEF Waits
<1>8. Keeps(g) = {}
  BY <1>3, <1>6, KeepsNone
<1>9. ClosesAt(F, G, Keeps(f))
  <2> DEFINE H == close(F, f.fd[1])
  <2>1. ClosesAt(F, H, {f.fd[1]})
    BY <1>2, CloseFacts
  <2>2. IsTable(H)
    BY <2>1 DEF ClosesAt
  <2>3. ClosesAt(H, G, {f.fd[2]})
    BY <2>2, CloseFacts DEF parent_closes
  <2> HIDE DEF H, G, F
  <2>4. ClosesAt(F, G, {f.fd[1], f.fd[2]})
    BY <2>1, <2>3 DEF ClosesAt
  <2>5. \A x \in 0..(NFD - 1) : x \in Keeps(f) <=> x \in {f.fd[1], f.fd[2]}
    BY <1>1, <1>2 DEF Keeps
  <2> QED
    BY <2>4, <2>5 DEF ClosesAt
<1>10. SameFrame(p, g) /\ IsTable(G)
  BY <1>1, <1>2, <1>3, <1>7, <1>9 DEF SameFrame, ClosesAt
<1>11. FdStep(f, g, F, G)
  BY <1>8, <1>9, FdCloses
<1> HIDE DEF G
<1> QED
  BY <1>1, <1>3, <1>5, <1>7, <1>10, <1>11, GoStep

(* wait4() for the k-th child: to is where the frame goes on. *)
LEMMA WaitStep ==
  ASSUME Core, NEW p \in Pids, NEW type, NEW pc, Runs(p, type, pc), NEW k \in {1, 2}, NEW to, NEW lines,
         Wait(p, k, to, lines),
         \/ type = "PIPE" /\ pc = "wait" /\ k = 1 /\ to = "wait_r"
         \/ type = "PIPE" /\ pc = "wait_r" /\ k = 2 /\ to = "log"
         \/ type \in {"SUBSHELL", "SIMPLE"} /\ pc = "wait" /\ k = 1 /\ to = "log"
  PROVE  Effect(p) /\ QuietStep
<1> USE DEF Core
<1> DEFINE f == Top(p)  q == f.pid[k]
           g == [f EXCEPT !.pc = to, !.code = wait_status(proc[q].code), !.logs = lines]
           r == goto(p, g)
<1>1. At(p, pc) /\ f.c # 0 /\ TypeOf(f) = type
  BY RunsFacts
<1>2. f.pc = pc /\ IsFrame(f) /\ IsTable(proc[p].fds) /\ Waits(f) \subseteq Pids /\ proc[p].st = "shell"
      /\ Awaits(proc[p]) = Waits(f)
  BY <1>1, AtFacts
<1>3. proc[q].st = "zombie" /\ proc[q].parent = p /\ proc' = [proc EXCEPT ![q] = NoProc, ![p] = r]
      /\ failures' = failures /\ log' = log
  BY DEF Wait
<1>4. IsFrame(g) /\ g.c = f.c /\ g.pc = to /\ g.in = f.in /\ g.out = f.out /\ g.pid = f.pid
  BY <1>2 DEF IsFrame, FrameFields
<1> HIDE DEF g
<1>5. TypeOf(g) = type
  BY <1>1, <1>4 DEF TypeOf
<1>6. q \in Pids
  <2>1. WaitsFor(f, k)
    BY <1>1, <1>2 DEF WaitsFor
  <2>2. q \in Waits(f)
    BY <1>1, <2>1 DEF Waits
  <2> QED
    BY <1>2, <2>2
<1>7. Waits(f) \ {q} \subseteq Waits(g) /\ Waits(g) \subseteq Waits(f)
  <2>1. \A l \in {1, 2} : WaitsFor(f, l) /\ l # k => WaitsFor(g, l)
    BY <1>1, <1>2, <1>4, <1>5 DEF WaitsFor
  <2>2. \A l \in {1, 2} : WaitsFor(g, l) => WaitsFor(f, l)
    BY <1>1, <1>2, <1>4, <1>5 DEF WaitsFor
  <2> QED
    BY <1>1, <1>4, <2>1, <2>2 DEF Waits
<1>8. Keeps(g) = Keeps(f)
  <2>1. CASE type = "PIPE"
    <3>1. Keeps(g) = {} /\ Keeps(f) = {}
      BY <1>1, <1>2, <1>4, <1>5, <2>1, KeepsNone
    <3> QED
      BY <3>1
  <2>2. CASE type \in {"SUBSHELL", "SIMPLE"}
    <3>1. type \in Redirecting /\ f.pc # "enter" /\ g.pc # "enter"
      BY <1>2, <1>4, <2>2 DEF Redirecting
    <3> QED
      BY <1>1, <1>4, <1>5, <3>1, KeepsOpened
  <2> QED
    BY <2>1, <2>2
<1>9. SameFrame(p, g)
  BY <1>1, <1>2, <1>4, <1>7 DEF SameFrame
<1>10. GoesTo(p, r, g) /\ r.fds = proc[p].fds
  BY <1>1, <1>2, <1>9, GotoIs
<1>11. r.st = "shell"
  BY <1>10 DEF GoesTo, GoesOn
<1> HIDE DEF r
<1>12. FdStep(f, g, proc[p].fds, r.fds)
  BY <1>8, <1>10, FdSame
<1>13. Fits(p, r) /\ Awaits(r) = Waits(g)
  BY <1>1, <1>4, <1>10, <1>12, GoesFits
<1> QED
  BY <1>2, <1>3, <1>6, <1>7, <1>11, <1>13, ReapStep

LEMMA PipeStep ==
  ASSUME Core, NEW p \in Pids, execute_pipe(p)
  PROVE  Effect(p) /\ QuietStep
<1> USE DEF Core
<1> DEFINE x == Top(p).code  r == [return(p, x) EXCEPT !.status[Kid(Top(p).c, 2)] = x]
<1>1. CASE PipeLeft(p) \/ PipeRight(p)
  BY <1>1, PipeLeftStep, PipeRightStep
<1>2. CASE /\ Runs(p, "PIPE", "parent")
           /\ Local(p, [goto(p, [Top(p) EXCEPT !.pc = "wait"]) EXCEPT !.fds = parent_closes(@, Top(p).fd)])
  BY <1>2, ParentStep
<1>3. CASE Runs(p, "PIPE", "wait") /\ Wait(p, 1, "wait_r", 0)
  BY <1>3, WaitStep
<1>4. CASE Runs(p, "PIPE", "wait_r") /\ Wait(p, 2, "log", 2)
  BY <1>4, WaitStep
<1>5. CASE Runs(p, "PIPE", "fin") /\ Local(p, r)
  <2>1. At(p, "fin") /\ Top(p).c # 0 /\ TypeOf(Top(p)) = "PIPE"
        /\ script.node[Top(p).c].in = "" /\ script.node[Top(p).c].out = ""
    BY <1>5, RunsFacts
  <2>2. Top(p).pc = "fin" /\ IsProc(proc[p]) /\ IsTable(proc[p].fds) /\ proc[p].st = "shell"
    BY <2>1, AtFacts
  <2>3. Keeps(Top(p)) = {}
    BY <2>1, <2>2, KeepsNone
  <2>4. IsTable(closed(p, Top(p))) /\ Closes(Top(p), proc[p].fds, closed(p, Top(p)))
    BY <2>1, <2>2, <2>3, ClosedFacts
  <2>5. IsProc(r) /\ r.st = proc[p].st /\ r.parent = proc[p].parent /\ r.can_write = proc[p].can_write
        /\ r.stack = Tail(proc[p].stack) /\ r.fds = closed(p, Top(p))
    <3> DEFINE q == return(p, x)
    <3>1. IsProc(q) /\ q.st = proc[p].st /\ q.parent = proc[p].parent /\ q.can_write = proc[p].can_write
          /\ q.stack = Tail(proc[p].stack) /\ q.fds = closed(p, Top(p))
      BY <2>2, ReturnFacts
    <3> HIDE DEF q
    <3>2. r = [q EXCEPT !.status[Kid(Top(p).c, 2)] = x]
      BY DEF q
    <3> HIDE DEF r
    <3> QED
      BY <3>1, <3>2 DEF IsProc, ProcFields
  <2>6. proc' = [proc EXCEPT ![p] = r] /\ failures' = failures /\ log' = log
    BY <1>5, LocalIs
  <2> HIDE DEF r
  <2> QED
    BY <2>1, <2>2, <2>4, <2>5, <2>6, ReturnStep
<1> QED
  BY <1>1, <1>2, <1>3, <1>4, <1>5 DEF execute_pipe

LEMMA SubshellStep ==
  ASSUME Core, NEW p \in Pids, execute_subshell(p)
  PROVE  Effect(p) /\ QuietStep
<1> USE DEF Core
<1>1. CASE Runs(p, "SUBSHELL", "wait") /\ Wait(p, 1, "log", 1)
  BY <1>1, WaitStep
<1>2. CASE Runs(p, "SUBSHELL", "fin") /\ Local(p, return(p, Top(p).code))
  BY <1>2, LocalReturn DEF Redirecting
<1>3. CASE ~(Runs(p, "SUBSHELL", "wait") \/ Runs(p, "SUBSHELL", "fin"))
  <2> DEFINE f == Top(p)  g == [f EXCEPT !.pc = "wait", !.pid[1] = NewPid]  r == goto(p, g)
             ch == child(p, proc[p].fds, Kid(f.c, 1), f.in, f.out, -1)
  <2>1. Runs(p, "SUBSHELL", "run") /\ ~NoFree /\ proc' = forked(p, r, ch) /\ failures' = failures /\ log' = log
    BY <1>3 DEF execute_subshell
  <2>2. At(p, "run") /\ f.c # 0 /\ TypeOf(f) = "SUBSHELL" /\ Kid(f.c, 1) \in DOMAIN script.node
    BY <2>1, RunsFacts, KidFacts
  <2>3. f.pc = "run" /\ IsFrame(f) /\ IsTable(proc[p].fds)
    BY <2>2, AtFacts
  <2>4. IsFrame(g) /\ g.c = f.c /\ g.pc = "wait" /\ g.in = f.in /\ g.out = f.out /\ g.pid[1] = NewPid
    BY <2>3 DEF IsFrame, FrameFields
  <2>5. NewPid \in Pids
    BY <2>1, NewPidFree
  <2> HIDE DEF g
  <2>6. TypeOf(g) = "SUBSHELL"
    BY <2>2, <2>4 DEF TypeOf
  <2>7. Waits(f) = {} /\ Waits(g) = {NewPid}
    <3>1. \A k \in {1, 2} : WaitsFor(g, k) <=> k = 1
      BY <2>4, <2>6 DEF WaitsFor
    <3> QED
      BY <2>2, <2>3, <2>4, <3>1, WaitsNone DEF Waits
  <2>8. Keeps(g) = Keeps(f)
    BY <2>2, <2>3, <2>4, <2>6, KeepsOpened DEF Redirecting
  <2>9. SameFrame(p, g)
    BY <2>2, <2>4, <2>5, <2>7 DEF SameFrame
  <2>10. GoesTo(p, r, g) /\ r.fds = proc[p].fds
    BY <2>2, <2>3, <2>9, GotoIs
  <2>11. EntryOK(NewPid, ch) /\ ch.st # "free" /\ ch.parent = p /\ ~Newline(ch) /\ ~LogLast(ch)
    BY <2>1, <2>2, <2>3, ChildOK
  <2> HIDE DEF r, ch
  <2>12. FdStep(f, g, proc[p].fds, r.fds)
    BY <2>8, <2>10, FdSame
  <2> QED
    BY <2>1, <2>2, <2>4, <2>7, <2>9, <2>10, <2>11, <2>12, ForkGoes
<1> QED
  <2>1. Runs(p, "SUBSHELL", "wait") => ~Runs(p, "SUBSHELL", "fin") /\ ~Runs(p, "SUBSHELL", "run")
    BY DEF Runs, At
  <2>2. Runs(p, "SUBSHELL", "fin") => ~Runs(p, "SUBSHELL", "run")
    BY DEF Runs, At
  <2> QED
    BY <1>1, <1>2, <1>3, <2>1, <2>2 DEF execute_subshell

-----------------------------------------------------------------------------
(* execute_simple, and the programs *)
LEMMA ProgOK ==
  ASSUME NEW q \in Pids, NEW r, IsProc(r), IsTable(r.fds), r.parent \in Pids \cup {0}, q = Main => r.parent = 0,
         r.can_write \in BOOLEAN, r.can_write => profiling, NEW f, NEW word, word # "missing"
  PROVE  EntryOK(q, execvp(r, f, word)) /\ execvp(r, f, word).st = "prog"
         /\ execvp(r, f, word).parent = r.parent
<1> DEFINE G == dup2(dup2(r.fds, f.in, 0), f.out, 1)
           g == [name |-> word, todo |-> IF word = "emit" THEN Emit ELSE 0]
           x == [r EXCEPT !.st = "prog", !.stack = <<>>, !.status = <<>>, !.fds = G, !.prog = g]
<1>1. execvp(r, f, word) = x
  BY DEF execvp
<1>2. ASSUME NEW F, IsTable(F), NEW i, NEW std PROVE IsTable(dup2(F, i, std))
  BY <1>2 DEF dup2, IsTable
<1>3. IsTable(G)
  BY <1>2
<1> HIDE DEF G, g
<1>4. IsProc(x) /\ x.st = "prog" /\ x.stack = <<>> /\ x.parent = r.parent /\ x.fds = G
      /\ x.can_write = r.can_write
  BY DEF IsProc, ProcFields
<1> HIDE DEF x
<1>5. StackOK(q, <<>>)
  BY NoFrames DEF StackOK
<1>6. EntryOK(q, x)
  BY <1>3, <1>4, <1>5 DEF EntryOK
<1> QED
  BY <1>1, <1>4, <1>6

LEMMA KeepsSame ==
  ASSUME NEW f, NEW g, g.c = f.c, g.in = f.in, g.out = f.out,
         {f.pc, g.pc} \cap {"enter", "fork_r", "parent"} = {}
  PROVE  Keeps(g) = Keeps(f)
BY DEF Keeps, TypeOf

LEMMA ColonStep ==
  ASSUME Core, NEW p \in Pids, Runs(p, "SIMPLE", "run"),
         Local(p, goto(p, [Top(p) EXCEPT !.pc = "log", !.logs = 1]))
  PROVE  Effect(p) /\ QuietStep
<1> USE DEF Core
<1> DEFINE f == Top(p)  g == [f EXCEPT !.pc = "log", !.logs = 1]
<1>1. At(p, "run") /\ f.c # 0
  BY RunsFacts
<1>2. f.pc = "run" /\ IsFrame(f)
  BY <1>1, AtFacts
<1>3. IsFrame(g) /\ g.c = f.c /\ g.pc = "log" /\ g.in = f.in /\ g.out = f.out
  BY <1>2 DEF IsFrame, FrameFields
<1> HIDE DEF g
<1>4. Waits(f) = {} /\ Waits(g) = {} /\ Keeps(g) = Keeps(f)
  BY <1>2, <1>3, WaitsNone, KeepsSame
<1>5. SameFrame(p, g)
  BY <1>1, <1>3, <1>4 DEF SameFrame
<1>6. proc' = [proc EXCEPT ![p] = goto(p, g)] /\ failures' = failures /\ log' = log
  BY LocalIs DEF g
<1> QED
  BY <1>1, <1>3, <1>4, <1>5, <1>6, GoStepSame

LEMMA ExecStep ==
  ASSUME Core, NEW p \in Pids, Runs(p, "SIMPLE", "run"), NEW word,
         (\E raw \in Fails(word) : Exit(p, raw)) \/ (Fails(word) = {} /\ Local(p, execvp(proc[p], Top(p), word)))
  PROVE  Effect(p) /\ QuietStep
<1> USE DEF Core
<1>1. At(p, "run") /\ Top(p).c # 0
  BY RunsFacts
<1>2. /\ Top(p).pc = "run" /\ proc[p].st = "shell" /\ Awaits(proc[p]) = Waits(Top(p)) /\ ~Newline(proc[p])
      /\ IsProc(proc[p]) /\ IsTable(proc[p].fds)
      /\ proc[p].can_write \in BOOLEAN /\ (proc[p].can_write => profiling)
  BY <1>1, AtFacts
<1>3. Awaits(proc[p]) = {} /\ Alive(p)
  BY <1>2, WaitsNone DEF Alive
<1>4. CASE \E raw \in Fails(word) : Exit(p, raw)
  <2>1. PICK raw : Exit(p, raw)
    BY <1>4
  <2>2. proc' = ended(p, raw) /\ failures' = failures /\ log' = log
    BY <2>1 DEF Exit
  <2> QED
    BY <1>2, <1>3, <2>2, EndStep
<1>5. CASE Fails(word) = {} /\ Local(p, execvp(proc[p], Top(p), word))
  <2> DEFINE r == execvp(proc[p], Top(p), word)
  <2>0. word # "missing"
    BY <1>5 DEF Fails
  <2>1. proc[p].parent \in Pids \cup {0} /\ (p = Main => proc[p].parent = 0)
    BY DEF TableOK, EntryOK
  <2>2. EntryOK(p, r) /\ r.st = "prog" /\ r.parent = proc[p].parent
    BY <1>2, <2>0, <2>1, ProgOK
  <2>3. proc' = [proc EXCEPT ![p] = r] /\ failures' = failures /\ log' = log
    BY <1>5, LocalIs
  <2> HIDE DEF r
  <2>4. Quiet(proc[p], r)
    BY <1>2, <2>2 DEF Quiet, Newline, LogLast
  <2>5. Fits(p, r)
    BY <2>2, <2>4 DEF Fits, Kept
  <2> QED
    BY <1>3, <2>3, <2>5, LocalStep
<1> QED
  BY <1>4, <1>5

LEMMA SpawnStep ==
  ASSUME Core, NEW p \in Pids, Runs(p, "SIMPLE", "run"), ~NoFree, NEW word, failures' = failures, log' = log,
         proc' = forked(p, goto(p, [Top(p) EXCEPT !.pc = "wait", !.pid[1] = NewPid]),
                        execvp([proc[p] EXCEPT !.parent = p], Top(p), word))
  PROVE  Effect(p) /\ QuietStep
<1> USE DEF Core
<1> DEFINE f == Top(p)  g == [f EXCEPT !.pc = "wait", !.pid[1] = NewPid]  r == goto(p, g)
           x == [proc[p] EXCEPT !.parent = p]  ch == execvp(x, f, word)
<1>1. At(p, "run") /\ f.c # 0 /\ TypeOf(f) = "SIMPLE"
  BY RunsFacts
<1>2. /\ f.pc = "run" /\ IsFrame(f) /\ IsTable(proc[p].fds) /\ IsProc(proc[p])
      /\ proc[p].can_write \in BOOLEAN /\ (proc[p].can_write => profiling)
  BY <1>1, AtFacts
<1>3. IsFrame(g) /\ g.c = f.c /\ g.pc = "wait" /\ g.in = f.in /\ g.out = f.out /\ g.pid[1] = NewPid
  BY <1>2 DEF IsFrame, FrameFields
<1>4. NewPid \in Pids /\ NewPid # Main
  BY NewPidFree
<1> HIDE DEF g
<1>5. TypeOf(g) = "SIMPLE"
  BY <1>1, <1>3 DEF TypeOf
<1>6. Waits(f) = {} /\ Waits(g) = {NewPid}
  <2>1. \A k \in {1, 2} : WaitsFor(g, k) <=> k = 1
    BY <1>3, <1>5 DEF WaitsFor
  <2> QED
    BY <1>1, <1>2, <1>3, <2>1, WaitsNone DEF Waits
<1>7. Keeps(g) = Keeps(f)
  BY <1>2, <1>3, KeepsSame
<1>8. SameFrame(p, g)
  BY <1>1, <1>3, <1>4, <1>6 DEF SameFrame
<1>9. GoesTo(p, r, g) /\ r.fds = proc[p].fds
  BY <1>1, <1>2, <1>8, GotoIs
<1>10. IsProc(x) /\ x.fds = proc[p].fds /\ x.parent = p /\ x.can_write = proc[p].can_write
  BY <1>2 DEF IsProc, ProcFields
<1>11. EntryOK(NewPid, ch) /\ ch.st # "free" /\ ch.parent = p /\ ~Newline(ch) /\ ~LogLast(ch)
  <2>1. CASE word = "missing"
    <3>1. ch = Zombie(p, exited(127))
      BY <1>10, <2>1, Zenon DEF execvp, Zombie
    <3> HIDE DEF ch
    <3>2. EntryOK(NewPid, ch) /\ ch.st = "zombie" /\ ch.parent = p
      BY <1>4, <3>1, ZombieOK
    <3> QED
      BY <3>2 DEF Newline, LogLast
  <2>2. CASE word # "missing"
    <3> HIDE DEF x
    <3>1. EntryOK(NewPid, ch) /\ ch.st = "prog" /\ ch.parent = p
      BY <1>2, <1>4, <1>10, <2>2, ProgOK
    <3> QED
      BY <3>1 DEF Newline, LogLast
  <2> QED
    BY <2>1, <2>2
<1>12. proc' = forked(p, r, ch)
  BY DEF g
<1> HIDE DEF r, ch
<1>13. FdStep(f, g, proc[p].fds, r.fds)
  BY <1>7, <1>9, FdSame
<1> QED
  BY <1>1, <1>3, <1>6, <1>8, <1>9, <1>11, <1>12, <1>13, ForkGoes

LEMMA ColonReturnStep ==
  ASSUME Core, NEW p \in Pids, Runs(p, "SIMPLE", "fin"), IsColon(script.node[Top(p).c]),
         Local(p, [return(p, 0) EXCEPT !.fds = proc[p].fds])
  PROVE  Effect(p) /\ QuietStep
<1> USE DEF Core
<1> DEFINE f == Top(p)  n == script.node[f.c]  q == return(p, 0)  r == [q EXCEPT !.fds = proc[p].fds]
<1>1. At(p, "fin") /\ f.c # 0 /\ TypeOf(f) = "SIMPLE" /\ f.c \in DOMAIN script.node
  BY RunsFacts
<1>2. f.pc = "fin" /\ IsProc(proc[p]) /\ IsTable(proc[p].fds) /\ proc[p].st = "shell"
  BY <1>1, AtFacts
<1>3. proc' = [proc EXCEPT ![p] = r] /\ failures' = failures /\ log' = log
  BY LocalIs
<1>4. IsProc(q) /\ q.st = proc[p].st /\ q.parent = proc[p].parent /\ q.can_write = proc[p].can_write
      /\ q.stack = Tail(proc[p].stack)
  BY <1>2, ReturnFacts
<1> HIDE DEF q
<1>5. IsProc(r) /\ r.st = proc[p].st /\ r.parent = proc[p].parent /\ r.can_write = proc[p].can_write
      /\ r.stack = Tail(proc[p].stack) /\ r.fds = proc[p].fds
  BY <1>4 DEF IsProc, ProcFields
<1> HIDE DEF r
<1>6. ColonLeaks \/ Closes(f, proc[p].fds, proc[p].fds)
  <2>1. n.in # "" \/ n.out # "" => ColonLeaks
    BY <1>1 DEF ColonLeaks, TypeOf
  <2>2. n.in = "" /\ n.out = "" => Keeps(f) = {}
    BY <1>1 DEF Keeps
  <2> QED
    BY <2>1, <2>2 DEF Closes
<1> QED
  BY <1>1, <1>2, <1>3, <1>5, <1>6, ReturnStep

LEMMA SimpleStep ==
  ASSUME Core, NEW p \in Pids, execute_simple(p)
  PROVE  Effect(p) /\ QuietStep
<1> DEFINE f == Top(p)  n == script.node[f.c]
<1>1. CASE Runs(p, "SIMPLE", "run") /\ Local(p, goto(p, [f EXCEPT !.pc = "log", !.logs = 1]))
  BY <1>1, ColonStep
<1>2. CASE /\ Runs(p, "SIMPLE", "run")
           /\ \/ \E raw \in Fails(Word(n)) : Exit(p, raw)
              \/ Fails(Word(n)) = {} /\ Local(p, execvp(proc[p], f, Word(n)))
  BY <1>2, ExecStep
<1>3. CASE /\ Runs(p, "SIMPLE", "run") /\ ~NoFree
           /\ proc' = forked(p, goto(p, [f EXCEPT !.pc = "wait", !.pid[1] = NewPid]),
                             execvp([proc[p] EXCEPT !.parent = p], f, Word(n)))
           /\ failures' = failures /\ log' = log
  BY <1>3, SpawnStep
<1>4. CASE Runs(p, "SIMPLE", "wait") /\ Wait(p, 1, "log", 1)
  BY <1>4, WaitStep
<1>5. CASE Runs(p, "SIMPLE", "fin") /\ Local(p, return(p, f.code))
  BY <1>5, LocalReturn DEF Redirecting
<1>6. CASE Runs(p, "SIMPLE", "fin") /\ IsColon(n) /\ Local(p, [return(p, 0) EXCEPT !.fds = proc[p].fds])
  BY <1>6, ColonReturnStep
<1> QED
  BY <1>1, <1>2, <1>3, <1>4, <1>5, <1>6 DEF execute_simple

-----------------------------------------------------------------------------
(* The other steps of the shell *)
LEMMA StartStep ==
  ASSUME Core, NEW p \in Pids, StartChild(p)
  PROVE  Effect(p) /\ QuietStep
<1> USE DEF Core
<1> DEFINE f == Top(p)  g == [f EXCEPT !.pc = "enter", !.fd[1] = -1]
           F == proc[p].fds  G == close(F, f.fd[1])
<1>1. At(p, "start") /\ Local(p, [goto(p, g) EXCEPT !.fds = close(goto(p, g).fds, f.fd[1])])
  BY DEF StartChild
<1>2. f.pc = "start" /\ p # Main /\ IsFrame(f) /\ IsTable(F) /\ f.c # 0 /\ IsProc(proc[p])
  BY <1>1, AtFacts
<1>3. IsFrame(g) /\ g.c = f.c /\ g.pc = "enter"
  BY <1>2 DEF IsFrame, FrameFields
<1> HIDE DEF g
<1>4. goto(p, g).fds = F
  BY <1>2 DEF goto, IsProc, ProcFields
<1>5. proc' = [proc EXCEPT ![p] = goto_fds(p, g, G)] /\ failures' = failures /\ log' = log
  BY <1>1, <1>4, LocalIs, Zenon DEF goto_fds
<1>6. IsTable(G)
  BY <1>2, CloseFacts DEF ClosesAt
<1>7. Waits(f) = {} /\ Waits(g) = {}
  BY <1>2, <1>3, WaitsNone
<1>8. SameFrame(p, g)
  BY <1>2, <1>3, <1>7 DEF SameFrame
<1> HIDE DEF G
<1> QED
  BY <1>1, <1>2, <1>3, <1>5, <1>6, <1>7, <1>8, GoStep

LEMMA ChildExitStep ==
  ASSUME Core, NEW p \in Pids, ChildExit(p)
  PROVE  Effect(p) /\ QuietStep
<1>1. proc[p].st = "shell" /\ proc[p].stack = <<>>
      /\ proc' = ended(p, exited(proc[p].code)) /\ failures' = failures /\ log' = log
  BY DEF ChildExit, Exit
<1>2. Alive(p) /\ Awaits(proc[p]) = {} /\ ~Newline(proc[p])
  BY <1>1 DEF Alive, Awaits, Newline
<1> QED
  BY <1>1, <1>2, EndStep DEF Core

(* A step of main() itself, which has nobody to wait for. *)
LEMMA MainEndStep ==
  ASSUME Core, NEW p \in Pids, NEW pc, At(p, pc), pc # "newline", Top(p).c = 0, NEW raw, Exit(p, raw)
  PROVE  Effect(p) /\ QuietStep
<1>1. proc[p].st = "shell" /\ Awaits(proc[p]) = Waits(Top(p)) /\ ~Newline(proc[p])
  BY AtFacts DEF Core
<1>2. Waits(Top(p)) = {} /\ Alive(p)
  BY <1>1 DEF Waits, Alive
<1>3. proc' = ended(p, raw) /\ failures' = failures /\ log' = log
  BY DEF Exit
<1> QED
  BY <1>1, <1>2, <1>3, EndStep DEF Core

LEMMA MakeStep ==
  ASSUME Core, NEW p \in Pids, MakeStream(p)
  PROVE  Effect(p) /\ QuietStep
<1> USE DEF Core
<1>1. At(p, "make")
  BY DEF MakeStream
<1>2. Top(p).c = 0 /\ IsFrame(Top(p)) /\ IsProc(proc[p]) /\ IsTable(proc[p].fds) /\ proc[p].st = "shell"
      /\ Awaits(proc[p]) = Waits(Top(p))
  BY <1>1, AtFacts
<1> DEFINE made == [goto(p, [Top(p) EXCEPT !.pc = "read"]) EXCEPT
                       !.status = [c \in DOMAIN script.node |-> -1], !.can_write = profiling]
<1>3. CASE Exit(p, exited(1))
  BY <1>1, <1>2, <1>3, MainEndStep
<1>4. CASE script.ok /\ Local(p, made)
  <2> DEFINE f == Top(p)  g == [f EXCEPT !.pc = "read"]
             x == [c \in DOMAIN script.node |-> -1]
             r == [goto(p, g) EXCEPT !.status = x, !.can_write = profiling]
             s == <<g>> \o Tail(proc[p].stack)
  <2>1. proc' = [proc EXCEPT ![p] = r] /\ failures' = failures /\ log' = log
    BY <1>4, LocalIs
  <2>2. IsFrame(g) /\ g.c = f.c /\ g.pc = "read"
    BY <1>2 DEF IsFrame, FrameFields
  <2> HIDE DEF g, x
  <2>3. r = [[proc[p] EXCEPT !.stack = s] EXCEPT !.status = x, !.can_write = profiling]
    BY DEF goto
  <2> HIDE DEF r, s
  <2>4. IsProc(r) /\ r.st = "shell" /\ r.parent = proc[p].parent /\ r.fds = proc[p].fds
        /\ r.can_write = profiling /\ r.stack = s
    BY <1>2, <2>3 DEF IsProc, ProcFields
  <2>5. SameFrame(p, g)
    BY <1>2, <2>2 DEF SameFrame
  <2>6. GoesTo(p, r, g)
    BY <1>2, <1>4, <2>4, <2>5 DEF GoesTo, GoesOn, TableOK, s
  <2>7. Keeps(g) = Keeps(f)
    BY <1>2, <2>2, KeepsNone
  <2>8. FdStep(f, g, proc[p].fds, r.fds)
    BY <2>4, <2>7, FdSame
  <2>9. Fits(p, r)
    BY <1>1, <2>2, <2>6, <2>8, GoesFits
  <2>10. Waits(f) = {}
    BY <1>2 DEF Waits
  <2> QED
    BY <1>2, <2>1, <2>9, <2>10, LocalStep DEF Alive
<1> QED
  BY <1>3, <1>4, Zenon DEF MakeStream

(* The steps that only move the frame to "log" or past it. *)
LEMMA LogMoveStep ==
  ASSUME Core, NEW p \in Pids, NEW pc \in {"read", "log"}, At(p, pc), NEW to \in {"log", "fin"}, NEW lines,
         to = "fin" => ~proc[p].can_write, Local(p, goto(p, [Top(p) EXCEPT !.pc = to, !.logs = lines]))
  PROVE  Effect(p) /\ QuietStep
<1> USE DEF Core
<1> DEFINE f == Top(p)  g == [f EXCEPT !.pc = to, !.logs = lines]
<1>1. f.pc = pc /\ IsFrame(f)
  BY AtFacts
<1>2. IsFrame(g) /\ g.c = f.c /\ g.pc = to /\ g.in = f.in /\ g.out = f.out
  BY <1>1 DEF IsFrame, FrameFields
<1> HIDE DEF g
<1>3. Waits(f) = {} /\ Waits(g) = {} /\ Keeps(g) = Keeps(f)
  BY <1>1, <1>2, WaitsNone, KeepsSame
<1>4. SameFrame(p, g)
  BY <1>2, <1>3 DEF SameFrame
<1>5. proc' = [proc EXCEPT ![p] = goto(p, g)] /\ failures' = failures /\ log' = log
  BY LocalIs DEF g
<1> QED
  BY <1>2, <1>3, <1>4, <1>5, GoStepSame

LEMMA NoLogStep ==
  ASSUME Core, NEW p \in Pids, NoLog(p)
  PROVE  Effect(p) /\ QuietStep
BY LogMoveStep DEF NoLog

LEMMA LastReadStep ==
  ASSUME Core, NEW p \in Pids, LastRead(p)
  PROVE  Effect(p) /\ QuietStep
<1>1. At(p, "read") /\ Top(p).c = 0
  BY AtFacts DEF LastRead, Core
<1>2. CASE \E status \in {0, 1} : Exit(p, exited(status))
  <2>1. PICK raw : Exit(p, raw)
    BY <1>2
  <2> QED
    BY <1>1, <2>1, MainEndStep
<1>3. CASE Local(p, goto(p, [Top(p) EXCEPT !.pc = "log", !.logs = 1]))
  BY <1>1, <1>3, LogMoveStep
<1> QED
  BY <1>2, <1>3, Zenon DEF LastRead

LEMMA ReadStep ==
  ASSUME Core, NEW p \in Pids, ReadCommand(p)
  PROVE  Effect(p) /\ QuietStep
<1> USE DEF Core
<1>1. At(p, "read") /\ next <= Len(script.top) /\ failures' = failures /\ log' = log
  BY DEF ReadCommand
<1>2. Top(p).c = 0 /\ WellFormed(script) /\ proc[p].st = "shell" /\ p = Main
  BY <1>1, AtFacts
<1>3. CASE print_tree
  <2>1. proc' = proc
    BY <1>3 DEF ReadCommand
  <2>2. EntryOK(p, proc[p]) /\ DOMAIN proc = Pids
    BY DEF TableOK
  <2>3. Moves(p)
    BY <1>1, <1>2, <2>1, <2>2 DEF Moves, Alive
  <2>4. Kept(proc[p])
    BY <1>2 DEF Kept, DescriptorsKept
  <2> QED
    BY <1>1, <2>1, <2>3, <2>4, QuietSelf DEF Effect, QuietStep
<1>4. CASE ~print_tree
  <2>1. proc' = [proc EXCEPT ![p] = call(p, "read", script.top[next])]
    BY <1>4 DEF ReadCommand
  <2>2. script.top[next] \in DOMAIN script.node
    <3>1. script.top \in Seq(DOMAIN script.node)
      BY <1>2 DEF WellFormed
    <3>2. \A s \in Seq(DOMAIN script.node) : \A k \in Nat \ {0} : k <= Len(s) => s[k] \in DOMAIN script.node
      OBVIOUS
    <3> QED
      BY <1>1, <3>1, <3>2
  <2> DEFINE to == "read"
  <2>3. to \in Calling /\ to \notin {"make", "newline"} /\ to \notin {"fork_r", "parent", "wait", "wait_r"}
        /\ (Top(p).c = 0 <=> to = "read")
    BY <1>2 DEF Calling
  <2>4. At(p, to) /\ proc' = [proc EXCEPT ![p] = call(p, to, script.top[next])]
    BY <1>1, <2>1
  <2> HIDE DEF to
  <2> QED
    BY <1>1, <1>2, <2>2, <2>3, <2>4, CallStep
<1> QED
  BY <1>3, <1>4

LEMMA MainReturnsStep ==
  ASSUME Core, NEW p \in Pids, MainReturns(p)
  PROVE  Effect(p) /\ QuietStep
BY MainEndStep DEF MainReturns

-----------------------------------------------------------------------------
(* The programs: they go on, having more or less to do, or end. *)
LEMMA ProgFacts ==
  ASSUME TableOK, NEW p \in Pids, proc[p].st = "prog"
  PROVE  Alive(p) /\ Awaits(proc[p]) = {} /\ ~Newline(proc[p])
BY DEF Alive, Awaits, Newline

LEMMA ProgEnds ==
  ASSUME Core, NEW p \in Pids, proc[p].st = "prog", NEW raw, proc' = ended(p, raw), log' = log, failures' = failures
  PROVE  Effect(p) /\ QuietStep
BY ProgFacts, EndStep DEF Core

LEMMA ProgGoes ==
  ASSUME Core, NEW p \in Pids, proc[p].st = "prog", NEW todo,
         proc' = [proc EXCEPT ![p] = [proc[p] EXCEPT !.prog.todo = todo]], log' = log, failures' = failures
  PROVE  Effect(p) /\ QuietStep
<1> USE DEF Core
<1> DEFINE x == [proc[p].prog EXCEPT !.todo = todo]  r == [proc[p] EXCEPT !.prog = x]
<1>1. EntryOK(p, proc[p])
  BY DEF TableOK
<1>2. proc' = [proc EXCEPT ![p] = r]
  OBVIOUS
<1> HIDE DEF x
<1>3. IsProc(r) /\ r.st = "prog" /\ r.parent = proc[p].parent /\ r.stack = proc[p].stack /\ r.fds = proc[p].fds
      /\ r.can_write = proc[p].can_write
  BY <1>1 DEF EntryOK, IsProc, ProcFields
<1> HIDE DEF r
<1>4. EntryOK(p, r)
  BY <1>1, <1>3 DEF EntryOK
<1>5. Quiet(proc[p], r)
  BY <1>3 DEF Quiet, Newline, LogLast
<1>6. Fits(p, r)
  BY <1>3, <1>4, <1>5 DEF Fits, Kept
<1> QED
  BY <1>2, <1>6, ProgFacts, LocalStep

LEMMA WriteStep ==
  ASSUME Core, NEW p \in Pids, proc[p].st = "prog", NEW todo, write(p, todo)
  PROVE  Effect(p) /\ QuietStep
<1> DEFINE r == [proc[p] EXCEPT !.prog.todo = todo]
<1>1. \/ proc' = [proc EXCEPT ![p] = r] /\ log' = log /\ failures' = failures
      \/ proc' = ended(p, SIGPIPE) /\ log' = log /\ failures' = failures
  BY Zenon DEF write, Local, Exit
<1> QED
  BY <1>1, ProgEnds, ProgGoes

LEMMA ProgramStep ==
  ASSUME Core, NEW p \in Pids, proc[p].st = "prog", Program(p)
  PROVE  Effect(p) /\ QuietStep
<1>1. CASE ProgExit(p)
  <2>1. PICK raw : Exit(p, raw)
    BY <1>1, Zenon DEF ProgExit
  <2>2. proc' = ended(p, raw) /\ log' = log /\ failures' = failures
    BY <2>1 DEF Exit
  <2> QED
    BY <2>2, ProgEnds
<1>2. CASE ProgAgain(p)
  <2>1. \E raw : proc' = ended(p, raw) /\ log' = log /\ failures' = failures
    BY <1>2, Zenon DEF ProgAgain
  <2> QED
    BY <2>1, ProgEnds
<1>3. CASE ProgWrite(p)
  <2>1. PICK todo : write(p, todo)
    BY <1>3, Zenon DEF ProgWrite
  <2> QED
    BY <2>1, WriteStep
<1>4. CASE ProgRead(p)
  <2> DEFINE r == [proc[p] EXCEPT !.prog.todo = 1]
  <2>1. \/ proc' = ended(p, exited(0)) /\ log' = log /\ failures' = failures
        \/ proc' = [proc EXCEPT ![p].prog.todo = 1] /\ log' = log /\ failures' = failures
    BY <1>4, Zenon DEF ProgRead, Exit
  <2>2. [proc EXCEPT ![p].prog.todo = 1] = [proc EXCEPT ![p] = r]
    OBVIOUS
  <2> QED
    BY <2>1, <2>2, ProgEnds, ProgGoes
<1> QED
  BY <1>1, <1>2, <1>3, <1>4 DEF Program

(* fork() fails. *)
LEMMA ForkFailsStep ==
  ASSUME Core, NEW p \in Pids, ForkFails(p)
  PROVE  Effect(p) /\ QuietStep
<1>1. \E pc \in {"enter", "fork_r", "run"} : At(p, pc)
  BY DEF ForkFails, Forking, Runs
<1>2. Alive(p) /\ ~Newline(proc[p])
  BY <1>1, AtFacts DEF Core, Alive
<1>3. proc' = ended(p, exited(1)) /\ failures' = failures + 1 /\ log' = log
  BY DEF ForkFails
<1> QED
  BY <1>2, <1>3, EndStep DEF Core

-----------------------------------------------------------------------------
(* The two writes of write_log. *)
GoesSame(p, r, f) ==
  /\ proc[p].st = "shell" /\ proc[p].stack # <<>> /\ GoesTo(p, r, f) /\ Keeps(f) = Keeps(Top(p))
  /\ r.fds = proc[p].fds /\ Waits(Top(p)) \subseteq Waits(f)
  /\ proc' = [proc EXCEPT ![p] = r] /\ failures' = failures
LEMMA GoesEffect ==
  ASSUME Core, NEW p \in Pids, NEW f, NEW r, GoesSame(p, r, f)
  PROVE  /\ Effect(p) /\ proc'[p] = r /\ \A q \in Pids \ {p} : proc'[q] = proc[q]
         /\ r.st = "shell" /\ r.stack # <<>> /\ r.stack[1] = f
<1> USE DEF Core, GoesSame
<1>1. proc[p].st = "shell" /\ proc[p].stack # <<>> /\ Top(p) = proc[p].stack[1] /\ Awaits(proc[p]) = Waits(Top(p))
  BY TopFacts, AwaitsTop
<1>2. /\ EntryOK(p, r) /\ r.stack # <<>> /\ r.stack[1] = f /\ Len(r.stack) = Len(proc[p].stack)
      /\ \A k \in 2..Len(proc[p].stack) : r.stack[k] = proc[p].stack[k]
  BY <1>1, GoesEntry
<1>3. IsStack(proc[p].stack) /\ Len(proc[p].stack) >= 1
  BY <1>1, TopFacts
<1>4. r.st = "shell" /\ r.parent = proc[p].parent
  BY DEF GoesTo, GoesOn
<1>5. DOMAIN proc' = Pids /\ proc'[p] = r /\ \A q \in Pids \ {p} : proc'[q] = proc[q]
  BY DEF TableOK
<1>6. Awaits(r) = Waits(f)
  BY <1>2, <1>4 DEF Awaits
<1>7. Moves(p)
  BY <1>1, <1>2, <1>4, <1>5, <1>6 DEF Moves, Alive
<1>8. p = Main => Kept(r)
  <2>1. CASE ColonLeaks
    BY <2>1 DEF Kept
  <2>2. CASE ~ColonLeaks /\ p = Main
    <3>1. FdsOK(proc[p].stack, proc[p].fds) /\ FdStep(proc[p].stack[1], r.stack[1], proc[p].fds, r.fds)
      BY <1>1, <1>2, <2>2, FdSame DEF DescriptorsKept
    <3>2. FdsOK(r.stack, r.fds)
      BY <1>2, <1>3, <3>1, FdsGoes DEF IsStack
    <3> QED
      BY <3>2 DEF Kept
  <2> QED
    BY <2>1, <2>2
<1> QED
  BY <1>2, <1>4, <1>5, <1>7, <1>8 DEF Effect

(* When main() itself logs, and no fork has failed, it is alone. *)
LEMMA Alone ==
  ASSUME TableOK, Tree, failures = 0, Awaits(proc[Main]) = {}, NEW p \in Pids \ {Main}
  PROVE  proc[p].st = "free"
<1> SUFFICES ASSUME proc[p].st # "free" PROVE FALSE
  OBVIOUS
<1>1. PICK rank \in [Pids -> Nat] :
        \A x \in Pids : proc[x].st # "free" /\ proc[x].parent # 0 => rank[proc[x].parent] < rank[x]
  BY DEF Tree, Ranked
<1> DEFINE S == {rank[q] : q \in {q \in Pids \ {Main} : proc[q].st # "free"}}
<1>2. S \in SUBSET Nat /\ S # {}
  OBVIOUS
<1>3. Min(S) \in S /\ \A y \in S : Min(S) <= y
  BY <1>2, MinNat
<1>4. PICK q \in Pids \ {Main} : proc[q].st # "free" /\ rank[q] = Min(S)
  BY <1>3
<1> DEFINE m == proc[q].parent
<1>5. m # 0 /\ m \in Pids
  BY <1>4 DEF Tree, NoOrphans, TableOK, EntryOK
<1>6. q \in Awaits(proc[m]) /\ rank[m] < rank[q]
  BY <1>1, <1>4, <1>5 DEF Tree, ChildrenAwaited
<1>7. m # Main /\ proc[m].st # "free"
  BY <1>6 DEF Awaits
<1>8. rank[m] \in S
  BY <1>5, <1>7
<1> HIDE DEF S
<1>9. rank[q] <= rank[m] /\ rank[q] \in Nat /\ rank[m] \in Nat
  BY <1>3, <1>4, <1>5, <1>8
<1> QED
  BY <1>6, <1>9

LEMMA LogLineStep ==
  ASSUME Core, Tree, LogOK, NEW p \in Pids, LogLine(p)
  PROVE  Effect(p) /\ (SameScript => LogOK')
<1> USE DEF Core
<1> DEFINE f == Top(p)  g == [f EXCEPT !.pc = "newline"]  b == log.room > 0
           r == [goto(p, g) EXCEPT !.can_write = b]
<1>1. At(p, "log") /\ proc[p].can_write /\ log.lock = 0 /\ failures' = failures
      /\ proc' = [proc EXCEPT ![p] = r]
  BY DEF LogLine, CanLock
<1>2. f.pc = "log" /\ IsFrame(f) /\ IsProc(proc[p]) /\ IsTable(proc[p].fds) /\ proc[p].st = "shell" /\ script.ok
      /\ profiling /\ f = proc[p].stack[1] /\ proc[p].stack # <<>>
  BY <1>1, AtFacts
<1>3. IsFrame(g) /\ g.c = f.c /\ g.pc = "newline" /\ g.in = f.in /\ g.out = f.out
  BY <1>2 DEF IsFrame, FrameFields
<1> HIDE DEF g
<1>4. Waits(f) = {} /\ Waits(g) = {} /\ Waits(f) \subseteq Waits(g) /\ Keeps(g) = Keeps(f)
  BY <1>2, <1>3, WaitsNone, KeepsSame
<1>5. SameFrame(p, g)
  BY <1>3, <1>4 DEF SameFrame
<1>6. IsProc(r) /\ r.st = "shell" /\ r.parent = proc[p].parent /\ r.fds = proc[p].fds
      /\ r.can_write = b /\ r.stack = <<g>> \o Tail(proc[p].stack)
  BY <1>2 DEF goto, IsProc, ProcFields
<1> HIDE DEF r
<1>7. b \in BOOLEAN /\ log.room \in Nat
  BY DEF LogOK
<1>8. GoesTo(p, r, g)
  BY <1>2, <1>5, <1>6, <1>7 DEF GoesTo, GoesOn
<1>9. /\ Effect(p) /\ proc'[p] = r /\ \A q \in Pids \ {p} : proc'[q] = proc[q]
      /\ r.stack # <<>> /\ r.stack[1] = g
  <2>1. proc' = [proc EXCEPT ![p] = r] /\ failures' = failures
    BY <1>1
  <2>2. Keeps(g) = Keeps(Top(p)) /\ Waits(Top(p)) \subseteq Waits(g)
    BY <1>4
  <2>3. proc[p].st = "shell" /\ proc[p].stack # <<>> /\ r.fds = proc[p].fds /\ GoesTo(p, r, g)
    BY <1>2, <1>6, <1>8
  <2>4. GoesSame(p, r, g)
    BY <2>1, <2>2, <2>3 DEF GoesSame
  <2> QED
    BY <2>4, GoesEffect
<1>10. DOMAIN log' = {"room", "open", "lost", "lock"} /\ log'.open = TRUE /\ log'.lock = p
       /\ (log'.lost <=> log.lost \/ log.room = 0) /\ log'.lost \in BOOLEAN
       /\ log'.room = (IF log.room = 0 THEN 0 ELSE log.room - 1)
  BY DEF LogLine, LogOK
<1>11. log'.lost => log.room = 0 /\ log'.room = 0
  BY <1>10 DEF LogOK
<1>12. \A q \in Pids : Newline(proc'[q]) <=> log'.lock = q
  <2> TAKE q \in Pids
  <2>1. CASE q = p
    BY <1>3, <1>6, <1>9, <1>10, <2>1 DEF Newline
  <2>2. CASE q # p
    <3>1. ~Newline(proc[q])
      BY <1>1 DEF LogOK, Pids
    <3> QED
      BY <1>9, <1>10, <2>2, <3>1
  <2> QED
    BY <2>1, <2>2
<1>13. LogLast(proc'[Main]) /\ log'.lost /\ failures' = 0 => ~proc'[Main].can_write
  <2> SUFFICES ASSUME LogLast(proc'[Main]), log'.lost, failures' = 0 PROVE ~proc'[Main].can_write
    OBVIOUS
  <2>1. CASE p = Main
    <3>1. ~b
      BY <1>7, <1>11
    <3> QED
      BY <1>6, <1>9, <2>1, <3>1, Zenon
  <2>2. CASE p # Main
    <3>1. Main \in Pids
      BY BoundsAssumption DEF Main, Pids
    <3>2. LogLast(proc[Main])
      BY <1>9, <2>2, <3>1
    <3>3. Awaits(proc[Main]) = {}
      BY <3>2 DEF LogLast, Awaits, Waits
    <3>4. proc[p].st = "free"
      BY <1>1, <2>2, <3>3, Alone
    <3> QED
      BY <1>2, <3>4
  <2> QED
    BY <2>1, <2>2
<1>14. \A q \in Pids : q # 0
  BY DEF Pids
<1>15. log'.room \in Nat
  BY <1>7, <1>10
<1>16. ASSUME SameScript PROVE LogOK'
  <2>1. \A q \in Pids : Newline(proc[q])' <=> (log.lock = q)'
    BY <1>12 DEF Newline
  <2>2. LogLast(proc[Main])' <=> LogLast(proc'[Main])
    BY DEF LogLast, Main
  <2>3. profiling'
    BY <1>2, <1>16 DEF SameScript, asked
  <2>4. (LogLast(proc[Main]) /\ log.lost /\ failures = 0 => ~proc[Main].can_write)'
    BY <1>13, <2>2 DEF Main
  <2> QED
    BY <1>10, <1>11, <1>14, <1>15, <2>1, <2>3, <2>4 DEF LogOK, Pids
<1> QED
  BY <1>9, <1>16

LEMMA LogNewlineStep ==
  ASSUME Core, LogOK, NEW p \in Pids, LogNewline(p)
  PROVE  Effect(p) /\ (SameScript => LogOK')
<1> USE DEF Core
<1> DEFINE f == Top(p)  to == IF f.logs > 1 THEN "log" ELSE "fin"
           g == [f EXCEPT !.logs = @ - 1, !.pc = to]  r == goto(p, g)
<1>1. At(p, "newline") /\ failures' = failures /\ proc' = [proc EXCEPT ![p] = r]
      /\ log' = [log EXCEPT !.open = FALSE, !.lock = 0]
  BY DEF LogNewline
<1>2. f.pc = "newline" /\ IsFrame(f) /\ IsTable(proc[p].fds) /\ proc[p].st = "shell" /\ f = proc[p].stack[1]
      /\ Newline(proc[p]) /\ proc[p].stack # <<>>
  BY <1>1, AtFacts
<1>3. to \in {"log", "fin"}
  OBVIOUS
<1> HIDE DEF to
<1>4. IsFrame(g) /\ g.c = f.c /\ g.pc = to /\ g.in = f.in /\ g.out = f.out
  BY <1>2 DEF IsFrame, FrameFields
<1> HIDE DEF g
<1>5. Waits(f) = {} /\ Waits(g) = {} /\ Waits(f) \subseteq Waits(g) /\ Keeps(g) = Keeps(f)
  BY <1>2, <1>3, <1>4, WaitsNone, KeepsSame
<1>6. SameFrame(p, g)
  BY <1>3, <1>4, <1>5 DEF SameFrame
<1>7. GoesTo(p, r, g) /\ r.fds = proc[p].fds /\ r.can_write = proc[p].can_write
  BY <1>1, <1>2, <1>6, GotoIs
<1> HIDE DEF r
<1>8. /\ Effect(p) /\ proc'[p] = r /\ \A q \in Pids \ {p} : proc'[q] = proc[q]
      /\ r.stack # <<>> /\ r.stack[1] = g
  <2>1. proc' = [proc EXCEPT ![p] = r] /\ failures' = failures
    BY <1>1
  <2>2. Keeps(g) = Keeps(Top(p)) /\ Waits(Top(p)) \subseteq Waits(g)
    BY <1>5
  <2>3. proc[p].st = "shell" /\ proc[p].stack # <<>> /\ r.fds = proc[p].fds /\ GoesTo(p, r, g)
    BY <1>2, <1>7
  <2>4. GoesSame(p, r, g)
    BY <2>1, <2>2, <2>3 DEF GoesSame
  <2> QED
    BY <2>4, GoesEffect
<1>9. DOMAIN log' = {"room", "open", "lost", "lock"} /\ log'.open = FALSE /\ log'.lock = 0
      /\ log'.lost = log.lost /\ log'.room = log.room
  BY <1>1 DEF LogOK
<1>10. log.lock = p
  BY <1>2 DEF LogOK
<1>11. \A q \in Pids : Newline(proc'[q]) <=> log'.lock = q
  <2> TAKE q \in Pids
  <2>0. q # 0
    BY DEF Pids
  <2>1. CASE q = p
    BY <1>3, <1>4, <1>8, <1>9, <2>0, <2>1 DEF Newline
  <2>2. CASE q # p
    <3>1. ~Newline(proc[q])
      BY <1>10, <2>2 DEF LogOK
    <3> QED
      BY <1>8, <1>9, <2>0, <2>2, <3>1
  <2> QED
    BY <2>1, <2>2
<1>12. LogLast(proc'[Main]) => LogLast(proc[Main]) /\ proc'[Main].can_write = proc[Main].can_write
  <2>1. CASE p = Main
    BY <1>2, <1>4, <1>7, <1>8, <2>1 DEF LogLast
  <2>2. CASE p # Main
    <3>1. Main \in Pids
      BY BoundsAssumption DEF Main, Pids
    <3> QED
      BY <1>8, <2>2, <3>1
  <2> QED
    BY <2>1, <2>2
<1>13. ASSUME SameScript PROVE LogOK'
  <2>1. \A q \in Pids : Newline(proc[q])' <=> (log.lock = q)'
    BY <1>11 DEF Newline
  <2>2. LogLast(proc[Main])' <=> LogLast(proc'[Main])
    BY DEF LogLast, Main
  <2>3. profiling' = profiling
    BY <1>13 DEF SameScript, asked
  <2>4. (LogLast(proc[Main]) /\ log.lost /\ failures = 0 => ~proc[Main].can_write)'
    BY <1>1, <1>9, <1>12, <2>2 DEF Main, LogOK
  <2> QED
    BY <1>9, <2>1, <2>3, <2>4 DEF LogOK, Pids
<1> QED
  BY <1>8, <1>13

-----------------------------------------------------------------------------
(* The inductive invariant. *)
Inv == TableOK /\ Tree /\ DescriptorsKept /\ next \in Nat \ {0} /\ LogOK

LEMMA InvCore == Inv => Core /\ Tree /\ LogOK
BY DEF Inv, Core, Tree

LEMMA StepEffect ==
  ASSUME Inv, NEW p \in Pids, Step(p) \/ ForkFails(p)
  PROVE  Effect(p) /\ (QuietStep \/ LogLine(p) \/ LogNewline(p))
<1>1. Core /\ Tree /\ LogOK
  BY InvCore
<1>2. CASE ForkFails(p)
  BY <1>1, <1>2, ForkFailsStep
<1>3. CASE proc[p].st = "prog" /\ Program(p)
  BY <1>1, <1>3, ProgramStep
<1>4. CASE Shell(p)
  <2>1. recursive_execute(p) => Effect(p) /\ QuietStep
    BY <1>1, SequenceStep, PipeStep, SubshellStep, IfStep, LoopStep, SimpleStep, Zenon DEF recursive_execute
  <2>2. Enter(p) \/ StartChild(p) \/ ChildExit(p) \/ MakeStream(p) \/ NoLog(p) \/ ReadCommand(p) \/ LastRead(p)
          \/ MainReturns(p) => Effect(p) /\ QuietStep
    BY <1>1, EnterStep, StartStep, ChildExitStep, MakeStep, NoLogStep, ReadStep, LastReadStep, MainReturnsStep, Zenon
  <2>3. LogLine(p) \/ LogNewline(p) => Effect(p)
    BY <1>1, LogLineStep, LogNewlineStep, Zenon
  <2> QED
    BY <1>4, <2>1, <2>2, <2>3, Zenon DEF Shell, Logging
<1> QED
  BY <1>2, <1>3, <1>4, Zenon DEF Step

(* What every action leaves alone. *)
LEMMA StepFrame ==
  ASSUME NEW p, Step(p) \/ ForkFails(p)
  PROVE  SameScript /\ (next' = next \/ next' = next + 1)
<1> DEFINE K == SameScript /\ next' = next
<1>1. \A r : Local(p, r) => K
  BY DEF Local, SameScript
<1>2. \A raw : Exit(p, raw) => K
  BY DEF Exit, SameScript
<1>3. \A k, pc, n : Wait(p, k, pc, n) => K
  BY DEF Wait, SameScript
<1>4. execute_sequence(p) => K
  BY <1>1, Zenon DEF execute_sequence
<1>5. execute_pipe(p) => K
  <2>1. PipeLeft(p) => K
    BY DEF PipeLeft, SameScript
  <2>2. PipeRight(p) => K
    BY DEF PipeRight, SameScript
  <2> HIDE DEF K
  <2> QED
    BY <1>1, <1>3, <2>1, <2>2, Zenon DEF execute_pipe
<1>6. execute_subshell(p) => K
  <2>1. UNCHANGED <<asked, script, obj, file, next, log, tries, failures>> => K
    BY DEF SameScript
  <2> HIDE DEF K
  <2> QED
    BY <1>1, <1>3, <2>1, Zenon DEF execute_subshell
<1>7. execute_if(p) => K
  <2> HIDE DEF K
  <2> QED
    BY <1>1, Zenon DEF execute_if
<1>8. execute_loop(p) => K
  <2> HIDE DEF K
  <2> QED
    BY <1>1, Zenon DEF execute_loop
<1>9. execute_simple(p) => K
  <2>1. UNCHANGED <<asked, script, obj, file, next, log, tries, failures>> => K
    BY DEF SameScript
  <2> HIDE DEF K
  <2> QED
    BY <1>1, <1>2, <1>3, <2>1, Zenon DEF execute_simple
<1>10. Enter(p) \/ LogLine(p) \/ LogNewline(p) \/ ForkFails(p) => K
  BY DEF Enter, LogLine, LogNewline, ForkFails, SameScript
<1>11. StartChild(p) \/ ChildExit(p) \/ MakeStream(p) \/ NoLog(p) \/ LastRead(p) \/ MainReturns(p) => K
  <2> HIDE DEF K
  <2> QED
    BY <1>1, <1>2, Zenon DEF StartChild, ChildExit, MakeStream, NoLog, LastRead, MainReturns
<1>12. ReadCommand(p) => SameScript /\ next' = next + 1
  BY DEF ReadCommand, SameScript
<1>13. Program(p) => K
  <2>1. \A n : write(p, n) => K
    <3>1. UNCHANGED <<asked, script, obj, next, log, tries, failures>>
          \/ UNCHANGED <<asked, script, file, next, log, tries, failures>> => K
      BY DEF SameScript
    <3> HIDE DEF K
    <3> QED
      BY <1>1, <1>2, <3>1, Zenon DEF write
  <2>2. ProgAgain(p) => K
    BY DEF ProgAgain, SameScript
  <2>3. UNCHANGED <<asked, script, file, next, log, tries, failures>> => K
    BY DEF SameScript
  <2> HIDE DEF K
  <2>4. ProgExit(p) \/ ProgWrite(p) \/ ProgRead(p) => K
    BY <1>2, <2>1, <2>3, Zenon DEF ProgExit, ProgWrite, ProgRead
  <2> QED
    BY <2>2, <2>4 DEF Program
<1> HIDE DEF K
<1>14. K \/ (SameScript /\ next' = next + 1)
  BY <1>4, <1>5, <1>6, <1>7, <1>8, <1>9, <1>10, <1>11, <1>12, <1>13, Zenon
     DEF Step, Shell, recursive_execute, Logging
<1> QED
  BY <1>14, Zenon DEF K

LEMMA KeptPrimed ==
  ASSUME SameScript, Kept(proc'[Main])
  PROVE  DescriptorsKept'
<1>1. (ColonLeaks' <=> ColonLeaks) /\ \A s, F : FdsOK(s, F)' <=> FdsOK(s, F)
  BY DEF SameScript, ColonLeaks, FdsOK, Keeps, TypeOf, IsColon
<1>2. Kept(proc[Main])'
  BY <1>1 DEF Kept, Main
<1> QED
  BY <1>2 DEF DescriptorsKept, Kept

LEMMA EffectKept ==
  ASSUME TableOK, Tree, SameScript, NEW p \in Pids, Effect(p), DescriptorsKept
  PROVE  TableOK' /\ Tree' /\ DescriptorsKept' /\ (failures' = 0 => failures = 0)
<1>1. TableOK' /\ Tree' /\ (p # Main => proc'[Main] = proc[Main])
  <2>1. CASE Moves(p)
    BY <2>1, MovesTree
  <2>2. CASE \E q \in Pids : Forks(p, q) \/ Reaps(p, q)
    BY <2>2, ForksTree, ReapsTree
  <2>3. CASE Ends(p)
    BY <2>3, EndsTree
  <2> QED
    BY <2>1, <2>2, <2>3 DEF Effect
<1>2. failures' = failures \/ failures' = failures + 1
  BY DEF Effect, Moves, Forks, Reaps, Ends
<1>3. failures' = 0 => failures = 0
  BY <1>2 DEF TableOK
<1>4. Kept(proc'[Main])
  BY <1>1 DEF Effect, Kept, DescriptorsKept
<1> QED
  BY <1>1, <1>3, <1>4, KeptPrimed

LEMMA QuietKept ==
  ASSUME LogOK, SameScript, QuietStep, failures' = 0 => failures = 0
  PROVE  LogOK'
<1>1. Main \in Pids
  BY BoundsAssumption DEF Main, Pids
<1>2. log' = log /\ profiling' = profiling /\ \A q \in Pids : Quiet(proc[q], proc'[q])
  BY DEF QuietStep, SameScript, asked
<1>3. \A q \in Pids : Newline(proc[q])' <=> (log.lock = q)'
  <2> TAKE q \in Pids
  <2>1. Newline(proc'[q]) <=> Newline(proc[q])
    BY <1>2 DEF Quiet
  <2>2. Newline(proc[q]) <=> log.lock = q
    BY DEF LogOK
  <2> QED
    BY <1>2, <2>1, <2>2 DEF Newline
<1>4. LogLast(proc'[Main]) /\ log.lost /\ failures' = 0 => ~proc'[Main].can_write
  BY <1>1, <1>2 DEF Quiet, LogOK
<1>5. (LogLast(proc[Main]) /\ log.lost /\ failures = 0 => ~proc[Main].can_write)'
  BY <1>2, <1>4 DEF LogLast, Main
<1> QED
  BY <1>2, <1>3, <1>5 DEF LogOK, Pids

LEMMA InvNext ==
  ASSUME Inv, [Next]_vars
  PROVE  Inv'
<1>1. CASE UNCHANGED vars
  <2>1. SameScript /\ proc' = proc /\ next' = next /\ log' = log /\ failures' = failures
    BY <1>1 DEF vars, SameScript
  <2>2. TableOK'
    BY <2>1, TableKept DEF Inv, TableOK
  <2>3. PICK rank \in [Pids -> Nat] :
          \A q \in Pids : proc[q].st # "free" /\ proc[q].parent # 0 => rank[proc[q].parent] < rank[q]
    BY DEF Inv, Tree, Ranked
  <2>4. Tree'
    BY <2>1, <2>3, TreeKept DEF Inv, Tree, ChildrenAwaited, NoOrphans
  <2>5. Kept(proc'[Main])
    BY <2>1 DEF Inv, DescriptorsKept, Kept
  <2>6. QuietStep
    BY <2>1, QuietSelf DEF QuietStep
  <2> QED
    BY <2>1, <2>2, <2>4, <2>5, <2>6, KeptPrimed, QuietKept DEF Inv
<1>2. CASE Next
  <2>1. PICK p \in Pids : Step(p) \/ ForkFails(p)
    BY <1>2 DEF Next, Work
  <2>2. Effect(p) /\ (QuietStep \/ LogLine(p) \/ LogNewline(p))
    BY <2>1, StepEffect
  <2>3. SameScript /\ (next' = next \/ next' = next + 1)
    BY <2>1, StepFrame
  <2>4. Core /\ Tree /\ LogOK /\ TableOK /\ DescriptorsKept
    BY InvCore DEF Inv
  <2>5. TableOK' /\ Tree' /\ DescriptorsKept' /\ (failures' = 0 => failures = 0)
    BY <2>2, <2>3, <2>4, EffectKept
  <2>6. LogOK'
    BY <2>2, <2>3, <2>4, <2>5, QuietKept, LogLineStep, LogNewlineStep
  <2>7. next' \in Nat \ {0}
    BY <2>3 DEF Inv
  <2> QED
    BY <2>5, <2>6, <2>7 DEF Inv
<1> QED
  BY <1>1, <1>2

LEMMA InvInit == Init => Inv
<1> SUFFICES ASSUME Init PROVE Inv
  OBVIOUS
<1> DEFINE r == [NoProc EXCEPT !.st = "shell", !.stack = <<MainFrame>>, !.fds = InitFds]
<1>1. Main \in Pids
  BY BoundsAssumption DEF Main, Pids
<1>2. DOMAIN proc = Pids /\ proc[Main] = r /\ \A q \in Pids \ {Main} : proc[q] = NoProc
  BY <1>1 DEF Init
<1>3. IsProc(r) /\ r.st = "shell" /\ r.parent = 0 /\ r.stack = <<MainFrame>> /\ r.fds = InitFds
      /\ r.can_write = FALSE
  BY DEF NoProc, IsProc, ProcFields
<1> HIDE DEF r
<1>4. IsFrame(MainFrame) /\ MainFrame.c = 0 /\ MainFrame.pc = "make"
  BY DEF MainFrame, Frame, IsFrame, FrameFields
<1>5. IsStack(r.stack) /\ Len(r.stack) = 1 /\ r.stack[1] = MainFrame /\ r.stack # <<>>
  BY <1>3, <1>4 DEF IsStack
<1>6. StackOK(Main, r.stack)
  BY <1>4, <1>5 DEF StackOK, MainFrameOK
<1>7. IsTable(InitFds)
  BY DEF IsTable, InitFds
<1>8. EntryOK(Main, r)
  BY <1>3, <1>5, <1>6, <1>7 DEF EntryOK
<1>9. \A q \in Pids : EntryOK(q, proc[q])
  BY <1>2, <1>8, FreeOK
<1>10. profiling \in BOOLEAN /\ failures = 0 /\ next = 1 /\ (script.ok => WellFormed(script))
  BY ScriptAssumption DEF Init
<1>11. TableOK
  BY <1>2, <1>9, <1>10 DEF TableOK
<1>12. NoProc.st = "free"
  BY DEF NoProc
<1>13. \A q \in Pids : proc[q].st # "free" => q = Main /\ proc[q].parent = 0
  BY <1>2, <1>3, <1>12
<1>14. Ranked
  <2>1. [q \in Pids |-> 0] \in [Pids -> Nat]
    OBVIOUS
  <2> QED
    BY <1>13, <2>1 DEF Ranked
<1>15. Tree
  BY <1>13, <1>14 DEF Tree, ChildrenAwaited, NoOrphans
<1>16. FdsOK(r.stack, r.fds)
  <2>1. Keeps(MainFrame) = {}
    BY <1>4 DEF Keeps
  <2>2. InitFds[0] = <<Tty, "r">> /\ InitFds[1] = <<Tty, "w">> /\ \A i \in 2..(NFD - 1) : InitFds[i] = Closed
    BY BoundsAssumption DEF InitFds
  <2> QED
    BY <1>3, <1>5, <2>1, <2>2 DEF FdsOK
<1>17. DescriptorsKept
  BY <1>2, <1>16 DEF DescriptorsKept
<1>18. DOMAIN log = {"room", "open", "lost", "lock"} /\ log.open = FALSE /\ log.lost = FALSE /\ log.lock = 0
       /\ log.room \in Nat
  <2>1. PICK n \in IF profiling THEN LogRooms ELSE {0} :
          log = [room |-> n, open |-> FALSE, lost |-> FALSE, lock |-> 0]
    BY DEF Init
  <2>2. n \in Nat
    BY <2>1, BoundsAssumption
  <2> QED
    BY <2>1, <2>2
<1>19. \A q \in Pids : ~Newline(proc[q]) /\ q # 0
  BY <1>2, <1>3, <1>4, <1>5, <1>12 DEF Newline, Pids
<1>20. LogOK
  BY <1>18, <1>19 DEF LogOK
<1> QED
  BY <1>10, <1>11, <1>15, <1>17, <1>20 DEF Inv

LEMMA SpecInv == Spec => []Inv
<1>1. Inv /\ [Next]_vars => Inv'
  BY InvNext
<1> QED
  BY <1>1, InvInit, PTL DEF Spec

-----------------------------------------------------------------------------
LEMMA InvClean == Inv => CleanBetween
<1> SUFFICES ASSUME Inv, At(Main, "read")
             PROVE  /\ ColonLeaks \/ proc[Main].fds = InitFds
                    /\ \A q \in Pids : proc[q].st # "free" => proc[q].parent # Main
  BY DEF CleanBetween
<1>1. Main \in Pids /\ TableOK
  BY BoundsAssumption DEF Inv, Main, Pids
<1>2. proc[Main].st = "shell" /\ proc[Main].stack # <<>> /\ Top(Main).c = 0 /\ Top(Main) = proc[Main].stack[1]
      /\ Awaits(proc[Main]) = Waits(Top(Main)) /\ IsTable(proc[Main].fds)
  BY <1>1, AtFacts
<1>3. ColonLeaks \/ proc[Main].fds = InitFds
  <2> SUFFICES ASSUME ~ColonLeaks PROVE proc[Main].fds = InitFds
    OBVIOUS
  <2> DEFINE F == proc[Main].fds  s == proc[Main].stack
  <2>1. FdsOK(s, F) /\ Len(s) = 1
    BY <1>1, <1>2, TopFacts DEF Inv, DescriptorsKept
  <2>2. Keeps(s[1]) = {}
    BY <1>2 DEF Keeps
  <2>3. F[0] = <<Tty, "r">> /\ F[1] = <<Tty, "w">> /\ \A i \in 2..(NFD - 1) : F[i] = Closed
    BY <2>1, <2>2 DEF FdsOK
  <2> HIDE DEF F
  <2>4. ASSUME NEW i \in 0..(NFD - 1) PROVE F[i] = InitFds[i]
    BY <2>3, BoundsAssumption DEF InitFds
  <2>5. F = [i \in 0..(NFD - 1) |-> F[i]] /\ InitFds = [i \in 0..(NFD - 1) |-> InitFds[i]]
    BY <1>2 DEF IsTable, InitFds, F
  <2> HIDE DEF InitFds
  <2> QED
    BY <2>4, <2>5 DEF F
<1>4. ASSUME NEW q \in Pids, proc[q].st # "free", proc[q].parent = Main PROVE FALSE
  <2>1. q \in Awaits(proc[Main])
    BY <1>4 DEF Inv, Tree, ChildrenAwaited, Main
  <2> QED
    BY <1>2, <2>1 DEF Waits
<1> QED
  BY <1>3, <1>4

(* Between two commands of a script main() has exactly the descriptors it  *)
(* started with and no child it has not waited for, whatever the script    *)
(* is and whichever of its processes fail to open, to exec or to fork; a   *)
(* script that redirects `:' keeps the second half.  About execute_* in    *)
(* execute-command.c, each of which has to close and reap on every path.   *)
THEOREM NothingLeftOpen == Spec => []CleanBetween
BY SpecInv, InvClean, PTL

(* The body of LogSound. *)
LogStepOK ==
  /\ log.open /\ log' # log => LogNewline(log.lock)
  /\ At(Main, "fin") /\ Top(Main).c = 0 /\ log.lost /\ failures = 0 /\ proc'[Main].st = "zombie"
       => wait_status(proc'[Main].code) = 1

LEMMA OthersStep ==
  ASSUME Inv, NEW p \in Pids \ {Main}, Step(p) \/ ForkFails(p)
  PROVE  proc'[Main] = proc[Main]
<1>1. Effect(p) /\ SameScript
  BY StepEffect, StepFrame
<1> QED
  BY <1>1, MovesTree, ForksTree, ReapsTree, EndsTree DEF Effect, Inv

(* At the end of main() it can only return. *)
LEMMA MainOnlyReturns ==
  ASSUME TableOK, At(Main, "fin"), Top(Main).c = 0, Step(Main) \/ ForkFails(Main)
  PROVE  MainReturns(Main)
<1>1. \A type, pc : ~Runs(Main, type, pc)
  BY DEF Runs
<1>2. \A pc : At(Main, pc) => pc = "fin"
  BY DEF At
<1>3. proc[Main].st = "shell" /\ proc[Main].stack # <<>>
  BY DEF At
<1>4. ~ForkFails(Main)
  BY <1>1 DEF ForkFails, Forking
<1>5. ~recursive_execute(Main)
  BY <1>1, Zenon DEF recursive_execute, execute_sequence, execute_pipe, PipeLeft, PipeRight, execute_subshell,
     execute_if, execute_loop, execute_simple
<1>6. ~At(Main, "enter") /\ ~At(Main, "start") /\ ~At(Main, "make") /\ ~At(Main, "log") /\ ~At(Main, "newline")
      /\ ~At(Main, "read")
  BY <1>2
<1>7. ~Enter(Main) /\ ~StartChild(Main) /\ ~ChildExit(Main) /\ ~MakeStream(Main) /\ ~Logging(Main)
      /\ ~ReadCommand(Main) /\ ~LastRead(Main)
  BY <1>3, <1>6, Zenon DEF Enter, StartChild, ChildExit, MakeStream, Logging, LogLine, LogNewline, NoLog,
     ReadCommand, LastRead
<1>8. Shell(Main)
  BY <1>3, <1>4 DEF Step
<1> QED
  BY <1>5, <1>7, <1>8, Zenon DEF Shell

LEMMA LogStepKept ==
  ASSUME Inv, [Next]_vars
  PROVE  [LogStepOK]_vars
<1> SUFFICES ASSUME Next PROVE LogStepOK
  OBVIOUS
<1>1. PICK p \in Pids : Step(p) \/ ForkFails(p)
  BY DEF Next, Work
<1>2. QuietStep \/ LogLine(p) \/ LogNewline(p)
  BY <1>1, StepEffect
<1>3. TableOK /\ LogOK
  BY DEF Inv
<1>4. ASSUME log.open, log' # log PROVE LogNewline(log.lock)
  <2>1. ~QuietStep
    BY <1>4 DEF QuietStep
  <2>2. ~LogLine(p)
    BY <1>3, <1>4 DEF LogLine, CanLock, LogOK
  <2>3. LogNewline(p)
    BY <1>2, <2>1, <2>2
  <2>4. Newline(proc[p])
    BY <1>3, <2>3, AtFacts DEF LogNewline
  <2>5. log.lock = p
    BY <1>3, <2>4 DEF LogOK
  <2> QED
    BY <2>3, <2>5
<1>5. ASSUME At(Main, "fin"), Top(Main).c = 0, log.lost, failures = 0, proc'[Main].st = "zombie"
      PROVE  wait_status(proc'[Main].code) = 1
  <2>1. Main \in Pids
    BY BoundsAssumption DEF Main, Pids
  <2>2. proc[Main].st = "shell" /\ proc[Main].stack # <<>> /\ Top(Main) = proc[Main].stack[1]
        /\ Top(Main).pc = "fin"
    BY <1>3, <1>5, <2>1, AtFacts
  <2>3. p = Main
    BY <1>1, <1>5, <2>2, OthersStep
  <2>4. MainReturns(Main)
    BY <1>1, <1>3, <1>5, <2>3, MainOnlyReturns
  <2>5. profiling /\ ~proc[Main].can_write
    BY <1>3, <1>5, <2>2 DEF LogOK, LogLast
  <2>6. main_status(proc[Main]) = 1
    BY <2>5 DEF main_status
  <2>7. proc' = ended(Main, exited(1))
    BY <2>4, <2>6 DEF MainReturns, Exit
  <2>8. proc[Main].parent = 0 /\ Main # 0
    BY <1>3, <2>1 DEF TableOK, EntryOK, Main
  <2>9. proc'[Main] = Zombie(proc[Main].parent, exited(1))
    BY <2>1, <2>7, <2>8 DEF ended, Zombie
  <2>10. proc'[Main].code = exited(1)
    BY <2>1, <2>8, <2>9, ZombieOK
  <2> QED
    BY <2>10 DEF exited, wait_status
<1> QED
  BY <1>4, <1>5 DEF LogStepOK

(* The lines of the profile are written one by one, and a shell that could *)
(* not write one of them says so in its exit status, for every script and  *)
(* every interleaving.  About write_log and the end of main(): each        *)
(* process keeps its own can_write, and main's own is the one that counts. *)
THEOREM ProfileSound == Spec => LogSound
<1>1. Inv /\ [Next]_vars => [LogStepOK]_vars
  BY LogStepKept
<1> QED
  BY <1>1, SpecInv, PTL DEF Spec, LogSound, LogStepOK
=============================================================================
