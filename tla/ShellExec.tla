----------------------------- MODULE ShellExec -----------------------------
(***************************************************************************)
(* The command interpreter of Shell_Interpreter/execute-command.c, run by  *)
(* main.c: processes with their descriptors, exit statuses and stacks of   *)
(* execute_* calls, the pipes and files they share, and the log of times.  *)
(* Data is counted in units; the programs a script runs are external.      *)
(***************************************************************************)
EXTENDS Integers, Sequences, FiniteSets, FiniteSetsExt

CONSTANTS
  Parsed(_),   \* the commands make_command_stream finds in a text, see ShellParse
  Texts,       \* texts of scripts to run
  Shown,       \* texts of scripts to print, with the option -t
  InitFiles,   \* units in each file, -1 for a file that does not exist
  MaxProc,     \* bound on processes existing at once
  NFD,         \* size of a descriptor table; 0 and 1 are stdin and stdout
  PipeCap,     \* units a pipe holds
  Emit,        \* units the program "emit" writes
  Tries,       \* bound on the times a test program keeps a loop going
  LogRooms,    \* log lines that fit on the disk
  MaxFailures  \* bound on fork failures

ASSUME BoundsAssumption ==
  /\ {MaxProc, PipeCap} \subseteq Nat \ {0} /\ NFD \in Nat /\ NFD > 1
  /\ {Emit, Tries, MaxFailures} \subseteq Nat /\ LogRooms \subseteq Nat

(* What the parser builds: trees of numbered commands, with subcommands as *)
(* their type wants them, and redirections where the grammar has them.     *)
Arity(type) ==
  CASE type = "SIMPLE" -> {0} [] type = "SUBSHELL" -> {1} [] type = "IF" -> {2, 3}
    [] type \in {"SEQUENCE", "PIPE", "WHILE", "UNTIL"} -> {2} [] OTHER -> {}
WellFormed(s) ==
  /\ 0 \notin DOMAIN s.node /\ s.top \in Seq(DOMAIN s.node)
  /\ \A n \in {s.node[c] : c \in DOMAIN s.node} :
       /\ n.kids \in Seq(DOMAIN s.node) /\ Len(n.kids) \in Arity(n.type)
       /\ n.type = "SIMPLE" => n.words # <<>>
       /\ n.type \in {"SEQUENCE", "PIPE"} => n.in = "" /\ n.out = ""
ASSUME ScriptAssumption == \A t \in Texts \cup Shown : Parsed(t).ok => WellFormed(Parsed(t))

VARIABLES
  text, print_tree, profiling,  \* what main was asked to do
  script,   \* the commands make_command_stream found: [ok, node, top]
  proc,     \* process table
  obj,      \* open file descriptions: pipes and opened files
  file,     \* units in each file
  next,     \* main: number of the next command
  log,      \* [room, open, lost, lock]: the -p file and its lock
  tries, failures

asked == <<text, print_tree, profiling>>
vars == <<asked, script, proc, obj, file, next, log, tries, failures>>

Pids   == 1..MaxProc
Main   == 1
Objs   == 1..(MaxProc + 2)
Closed == <<0, "">>
Tty    == 0         \* stdin at its end, or stdout to a terminal

Kid(c, k) == script.node[c].kids[k]

(* A simple command: is it `:' or `exec', and the program it names, "" for *)
(* an `exec' that names none.                                              *)
IsColon(n) == n.words[1] = ":"
IsExec(n) == n.words[1] = "exec"
Word(n)   == IF n.words = <<"exec">> THEN "" ELSE n.words[IF IsExec(n) THEN 2 ELSE 1]

(* A call of recursive_execute and the local variables of its execute_*:   *)
(* children's pids, pipe ends, the status wait4 gave, log lines to write.  *)
Frame(c, in, out) == [c |-> c, pc |-> "enter", in |-> in, out |-> out,
  pid |-> <<0, 0>>, fd |-> <<-1, -1>>, code |-> 0, logs |-> 0]
MainFrame == [Frame(0, -1, -1) EXCEPT !.pc = "make"]

NoProc == [st |-> "free", parent |-> 0, stack |-> <<>>, fds |-> [i \in 0..(NFD - 1) |-> Closed],
  status |-> <<>>, prog |-> [name |-> "", todo |-> 0], code |-> 0, can_write |-> FALSE]
InitFds == [i \in 0..(NFD - 1) |->
  CASE i = 0 -> <<Tty, "r">> [] i = 1 -> <<Tty, "w">> [] OTHER -> Closed]

(* main() with its options, when make_command_stream is about to return;   *)
(* -t and -p together are left out.                                        *)
Init ==
  /\ \/ text \in Texts /\ profiling \in BOOLEAN /\ print_tree = FALSE
     \/ text \in Shown /\ profiling = FALSE /\ print_tree = TRUE
  /\ script = Parsed(text)
  /\ proc = [p \in Pids |-> IF p # Main THEN NoProc ELSE
       [NoProc EXCEPT !.st = "shell", !.stack = <<MainFrame>>, !.fds = InitFds]]
  /\ obj = [o \in Objs |-> [kind |-> "free", name |-> "", n |-> 0]]
  /\ file = InitFiles
  /\ next = 1
  /\ log \in {[room |-> r, open |-> FALSE, lost |-> FALSE, lock |-> 0] :
               r \in IF profiling THEN LogRooms ELSE {0}}
  /\ tries = 0 /\ failures = 0

-----------------------------------------------------------------------------
(* Descriptors.  An object is open as long as some table refers to it.     *)
Holds(fds, o, mode) == \E i \in DOMAIN fds : fds[i] = <<o, mode>>
Open(o, mode) == \E p \in Pids : Holds(proc[p].fds, o, mode)
Spare(fds) == Min({o \in Objs : \A m \in {"r", "w"} : ~Open(o, m) /\ ~Holds(fds, o, m)})
FreeFds(fds) == {i \in DOMAIN fds : fds[i] = Closed}
close(fds, i) == IF i \in DOMAIN fds THEN [fds EXCEPT ![i] = Closed] ELSE fds

(* open() of a redirection; -1 when the table is full or, for reading, the *)
(* file does not exist.  k holds the process's table, obj and file.        *)
open(k, name, kind, mode) ==
  IF FreeFds(k.fds) = {} \/ (kind = "in" /\ k.file[name] = -1) THEN [k EXCEPT !.fd = -1]
  ELSE LET i == Min(FreeFds(k.fds))  o == Spare(k.fds)
       IN [fd |-> i, fds |-> [k.fds EXCEPT ![i] = <<o, mode>>],
           obj |-> [k.obj EXCEPT ![o] = [kind |-> kind, name |-> name, n |-> 0]],
           file |-> IF kind = "out" THEN [k.file EXCEPT ![name] = 0] ELSE k.file]

(* The redirections at the top of execute_subshell, _if, _while, _until    *)
(* and _simple, for the frame f of process p; the last two are the         *)
(* descriptors the command goes on with.                                   *)
redirect(p, f) ==
  LET n  == script.node[f.c]
      k0 == [fd |-> -1, fds |-> proc[p].fds, obj |-> obj, file |-> file]
      k1 == IF n.in = "" THEN [k0 EXCEPT !.fd = f.in] ELSE open(k0, n.in, "in", "r")
      k2 == IF n.out = "" THEN [k1 EXCEPT !.fd = f.out] ELSE open(k1, n.out, "out", "w")
  IN [k |-> k2, in |-> k1.fd, out |-> k2.fd]

-----------------------------------------------------------------------------
(* Calls and returns within a process.                                     *)
Top(p) == Head(proc[p].stack)
At(p, pc) == proc[p].st = "shell" /\ proc[p].stack # <<>> /\ Top(p).pc = pc
Runs(p, type, pc) == At(p, pc) /\ Top(p).c # 0 /\ script.node[Top(p).c].type = type

goto(p, f) == [proc[p] EXCEPT !.stack = <<f>> \o Tail(@)]
call(p, pc, c) ==
  LET f == Top(p) IN [proc[p] EXCEPT
    !.stack = <<Frame(c, f.in, f.out), [f EXCEPT !.pc = pc]>> \o Tail(@)]

(* Mutant: the files are left open. *)
closed_not(p, f) == proc[p].fds

closed(p, f) ==
  LET n == script.node[f.c]
      fds == IF n.in = "" THEN proc[p].fds ELSE close(proc[p].fds, f.in)
  IN IF n.out = "" THEN fds ELSE close(fds, f.out)

(* The end of an execute_*: status, closing, return.  code is where the    *)
(* exit(command_status(...)) of a child finds its status.                  *)
return(p, status) == [proc[p] EXCEPT
  !.stack = Tail(@), !.status[Top(p).c] = status, !.code = status, !.fds = closed(p, Top(p))]

Local(p, r) == /\ proc' = [proc EXCEPT ![p] = r]
               /\ UNCHANGED <<asked, script, obj, file, next, log, tries, failures>>

Enter(p) ==
  /\ At(p, "enter") /\ script.node[Top(p).c].type \in {"SUBSHELL", "IF", "WHILE", "UNTIL", "SIMPLE"}
  /\ LET f == Top(p)  r == redirect(p, f)
     IN /\ proc' = [proc EXCEPT ![p] =
             [goto(p, [f EXCEPT !.pc = "run", !.in = r.in, !.out = r.out]) EXCEPT !.fds = r.k.fds]]
        /\ obj' = r.k.obj /\ file' = r.k.file
  /\ UNCHANGED <<asked, script, next, log, tries, failures>>

-----------------------------------------------------------------------------
(* Processes: fork(), exit(), wait4().                                     *)
NoFree == \A p \in Pids : proc[p].st # "free"
NewPid == Min({p \in Pids : proc[p].st = "free"})

(* child is what the new process does differently from its parent. *)
forked(p, me, child) == [proc EXCEPT ![p] = me, ![NewPid] = child]

(* A process ends with the wait status raw; init reaps what has no parent. *)
ended(p, raw) == [q \in Pids |->
  CASE q = p -> IF p # Main /\ proc[p].parent = 0 THEN NoProc
                ELSE [NoProc EXCEPT !.st = "zombie", !.parent = proc[p].parent, !.code = raw]
    [] proc[q].parent = p -> IF proc[q].st = "zombie" THEN NoProc ELSE [proc[q] EXCEPT !.parent = 0]
    [] OTHER -> proc[q]]
exited(n) == (n % 256) * 256

Exit(p, raw) == /\ proc' = ended(p, raw)
                /\ UNCHANGED <<asked, script, obj, file, next, log, tries, failures>>

(* WEXITSTATUS of a process that exited, WTERMSIG of one that was killed. *)
wait_status(raw) == IF raw % 128 = 0 THEN raw \div 256 ELSE raw % 128

(* wait4() for the k-th child, which goes on at pc with lines to log. *)
Wait(p, k, pc, lines) ==
  LET f == Top(p)  q == f.pid[k]
  IN /\ proc[q].st = "zombie" /\ proc[q].parent = p
     /\ proc' = [proc EXCEPT ![q] = NoProc, ![p] =
          goto(p, [f EXCEPT !.pc = pc, !.code = wait_status(proc[q].code), !.logs = lines])]
     /\ UNCHANGED <<asked, script, obj, file, next, log, tries, failures>>

(* error(1, 0, "Fatal Error: Failed to fork") wherever the shell forks. *)
Forking(p) ==
  \/ Runs(p, "PIPE", "enter") \/ Runs(p, "PIPE", "fork_r") \/ Runs(p, "SUBSHELL", "run")
  \/ Runs(p, "SIMPLE", "run") /\ ~IsColon(script.node[Top(p).c]) /\ ~IsExec(script.node[Top(p).c])
ForkFails(p) ==
  /\ Forking(p) /\ failures < MaxFailures
  /\ failures' = failures + 1 /\ proc' = ended(p, exited(1))
  /\ UNCHANGED <<asked, script, obj, file, next, log, tries>>

-----------------------------------------------------------------------------
execute_sequence(p) ==
  \/ Runs(p, "SEQUENCE", "enter") /\ Local(p, call(p, "second", Kid(Top(p).c, 1)))
  \/ Runs(p, "SEQUENCE", "second") /\ Local(p, call(p, "after", Kid(Top(p).c, 2)))
  \/ Runs(p, "SEQUENCE", "after") /\ Local(p, return(p, proc[p].status[Kid(Top(p).c, 2)]))

(* execute_pipe: a child starts by closing the pipe end it does not use.   *)
child(p, fds, c, in, out, unused) == [proc[p] EXCEPT !.parent = p, !.fds = fds,
  !.stack = <<[Frame(c, in, out) EXCEPT !.pc = "start", !.fd[1] = unused]>>]

(* pipe() is taken to find two descriptors: NFD bounds what scripts open. *)
PipeLeft(p) ==
  LET f == Top(p)  fds == proc[p].fds
      i == Min(FreeFds(fds))  j == Min(FreeFds(fds) \ {i})  o == Spare(fds)
      both == [fds EXCEPT ![i] = <<o, "r">>, ![j] = <<o, "w">>]
  IN /\ Runs(p, "PIPE", "enter") /\ ~NoFree /\ FreeFds(fds) \ {i} # {}
     /\ obj' = [obj EXCEPT ![o] = [kind |-> "pipe", name |-> "", n |-> 0]]
     /\ proc' = forked(p,
          [goto(p, [f EXCEPT !.pc = "fork_r", !.fd = <<i, j>>, !.pid[1] = NewPid]) EXCEPT !.fds = both],
          child(p, both, Kid(f.c, 1), f.in, j, i))
     /\ UNCHANGED <<asked, script, file, next, log, tries, failures>>

PipeRight(p) ==
  LET f == Top(p)
  IN /\ Runs(p, "PIPE", "fork_r") /\ ~NoFree
     /\ proc' = forked(p, goto(p, [f EXCEPT !.pc = "parent", !.pid[2] = NewPid]),
          child(p, proc[p].fds, Kid(f.c, 2), f.fd[1], f.out, f.fd[2]))
     /\ UNCHANGED <<asked, script, obj, file, next, log, tries, failures>>

StartChild(p) ==
  LET f == Top(p)
  IN /\ At(p, "start")
     /\ Local(p, [goto(p, [f EXCEPT !.pc = "enter", !.fd[1] = -1]) EXCEPT !.fds = close(@, f.fd[1])])

(* Mutant: the writing end is forgotten. *)
parent_keeps(fds, fd) == close(fds, fd[1])

(* The parent closes both ends, waits for both children, logs both. *)
parent_closes(fds, fd) == close(close(fds, fd[1]), fd[2])

execute_pipe(p) ==
  \/ PipeLeft(p) \/ PipeRight(p)
  \/ /\ Runs(p, "PIPE", "parent")
     /\ Local(p, [goto(p, [Top(p) EXCEPT !.pc = "wait"]) EXCEPT !.fds = parent_closes(@, Top(p).fd)])
  \/ Runs(p, "PIPE", "wait") /\ Wait(p, 1, "wait_r", 0)
  \/ Runs(p, "PIPE", "wait_r") /\ Wait(p, 2, "log", 2)
  \/ /\ Runs(p, "PIPE", "fin")
     /\ LET s == Top(p).code
        IN Local(p, [return(p, s) EXCEPT !.status[Kid(Top(p).c, 2)] = s])

execute_subshell(p) ==
  \/ /\ Runs(p, "SUBSHELL", "run") /\ ~NoFree
     /\ LET f == Top(p)
        IN proc' = forked(p, goto(p, [f EXCEPT !.pc = "wait", !.pid[1] = NewPid]),
             child(p, proc[p].fds, Kid(f.c, 1), f.in, f.out, -1))
     /\ UNCHANGED <<asked, script, obj, file, next, log, tries, failures>>
  \/ Runs(p, "SUBSHELL", "wait") /\ Wait(p, 1, "log", 1)
  \/ Runs(p, "SUBSHELL", "fin") /\ Local(p, return(p, Top(p).code))

execute_if(p) ==
  LET c == Top(p).c  cond == proc[p].status[Kid(c, 1)]
  IN \/ Runs(p, "IF", "run") /\ Local(p, call(p, "branch", Kid(c, 1)))
     \/ Runs(p, "IF", "branch") /\ cond = 0 /\ Local(p, call(p, "then", Kid(c, 2)))
     \/ /\ Runs(p, "IF", "branch") /\ cond # 0
        /\ Local(p, IF Len(script.node[c].kids) = 3 THEN call(p, "else", Kid(c, 3)) ELSE return(p, cond))
     \/ Runs(p, "IF", "then") /\ Local(p, return(p, proc[p].status[Kid(c, 2)]))
     \/ Runs(p, "IF", "else") /\ Local(p, return(p, proc[p].status[Kid(c, 3)]))

(* execute_while and execute_until: after the body the do-while tests the  *)
(* same status of the conditional again and goes round.                    *)
Continues(type, cond) == IF type = "WHILE" THEN cond = 0 ELSE cond # 0

(* Mutant: the conditional's status. *)
loop_status_cond(body, cond) == cond

loop_status(body, cond) == IF body # -1 THEN body ELSE cond

execute_loop(p) ==
  LET c == Top(p).c  cond == proc[p].status[Kid(c, 1)]
  IN \E type \in {"WHILE", "UNTIL"} :
       \/ Runs(p, type, "run") /\ Local(p, call(p, "test", Kid(c, 1)))
       \/ Runs(p, type, "test") /\ Continues(type, cond) /\ Local(p, call(p, "run", Kid(c, 2)))
       \/ /\ Runs(p, type, "test") /\ ~Continues(type, cond)
          /\ Local(p, return(p, loop_status(proc[p].status[Kid(c, 2)], cond)))

(* How a process ends that cannot exec: with status 127; but an `exec' on  *)
(* its own hands execvp() a null pointer, which may be the end of it.      *)
SIGSEGV == 11
Fails(word) ==
  CASE word = "missing" -> {exited(127)} [] word = "" -> {exited(127), SIGSEGV} [] OTHER -> {}

(* dup2() of the redirections, then execvp(): the process is the program   *)
(* word now, or, forked for it, ends with status 127.                      *)
dup2(fds, i, std) == IF i = -1 THEN fds ELSE [fds EXCEPT ![std] = fds[i]]
execvp(r, f, word) ==
  IF word = "missing" THEN [NoProc EXCEPT !.st = "zombie", !.parent = r.parent, !.code = exited(127)]
  ELSE [r EXCEPT !.st = "prog", !.stack = <<>>, !.status = <<>>,
         !.fds = dup2(dup2(@, f.in, 0), f.out, 1),
         !.prog = [name |-> word, todo |-> IF word = "emit" THEN Emit ELSE 0]]

execute_simple(p) ==
  LET f == Top(p)  n == script.node[f.c]
  IN \/ /\ Runs(p, "SIMPLE", "run") /\ IsColon(n)
        /\ Local(p, goto(p, [f EXCEPT !.pc = "log", !.logs = 1]))
     \/ /\ Runs(p, "SIMPLE", "run") /\ IsExec(n)
        /\ \/ \E raw \in Fails(Word(n)) : Exit(p, raw)
           \/ Fails(Word(n)) = {} /\ Local(p, execvp(proc[p], f, Word(n)))
     \/ /\ Runs(p, "SIMPLE", "run") /\ ~IsColon(n) /\ ~IsExec(n) /\ ~NoFree
        /\ proc' = forked(p, goto(p, [f EXCEPT !.pc = "wait", !.pid[1] = NewPid]),
                     execvp([proc[p] EXCEPT !.parent = p], f, Word(n)))
        /\ UNCHANGED <<asked, script, obj, file, next, log, tries, failures>>
     \/ Runs(p, "SIMPLE", "wait") /\ Wait(p, 1, "log", 1)
     \/ Runs(p, "SIMPLE", "fin") /\ ~IsColon(n) /\ Local(p, return(p, f.code))
     \/ /\ Runs(p, "SIMPLE", "fin") /\ IsColon(n)   \* returns without closing
        /\ Local(p, [return(p, 0) EXCEPT !.fds = proc[p].fds])

ChildExit(p) == /\ proc[p].st = "shell" /\ proc[p].stack = <<>>
                /\ Exit(p, exited(proc[p].code))

-----------------------------------------------------------------------------
(* Mutant: no lock. *)
CanLockAlways(l) == TRUE

(* write_log: the line and its newline are two writes under a file lock;   *)
(* a line that does not fit makes this process stop logging.               *)
CanLock(l) == l.lock = 0

LogLine(p) ==
  /\ At(p, "log") /\ proc[p].can_write /\ CanLock(log)
  /\ log' = [room |-> IF log.room = 0 THEN 0 ELSE log.room - 1, open |-> TRUE,
             lost |-> log.lost \/ log.room = 0, lock |-> p]
  /\ proc' = [proc EXCEPT ![p] =
       [goto(p, [Top(p) EXCEPT !.pc = "newline"]) EXCEPT !.can_write = log.room > 0]]
  /\ UNCHANGED <<asked, script, obj, file, next, tries, failures>>

LogNewline(p) ==
  /\ At(p, "newline")
  /\ log' = [log EXCEPT !.open = FALSE, !.lock = 0]
  /\ proc' = [proc EXCEPT ![p] = goto(p, [Top(p) EXCEPT !.logs = @ - 1,
                                            !.pc = IF Top(p).logs > 1 THEN "log" ELSE "fin"])]
  /\ UNCHANGED <<asked, script, obj, file, next, tries, failures>>

NoLog(p) == /\ At(p, "log") /\ ~proc[p].can_write
            /\ Local(p, goto(p, [Top(p) EXCEPT !.pc = "fin", !.logs = 0]))

(* main: after a syntax error, or if it cannot open the profile, it ends   *)
(* before any command has run; then its loop over the commands and what it *)
(* returns.                                                                *)
MakeStream(p) ==
  /\ At(p, "make")
  /\ \/ (~script.ok \/ profiling) /\ Exit(p, exited(1))
     \/ /\ script.ok
        /\ Local(p, [goto(p, [Top(p) EXCEPT !.pc = "read"]) EXCEPT
                     !.status = [c \in DOMAIN script.node |-> -1], !.can_write = profiling])

ReadCommand(p) ==
  /\ At(p, "read") /\ next <= Len(script.top)
  /\ next' = next + 1
  /\ proc' = IF print_tree THEN proc ELSE [proc EXCEPT ![p] = call(p, "read", script.top[next])]
  /\ UNCHANGED <<asked, script, obj, file, log, tries, failures>>

(* Only execute_command tells write_log the profile.  Without commands the *)
(* line of main, which is alone then, goes to descriptor 0, and main ends  *)
(* according to whether that could be written.                             *)
LastRead(p) ==
  /\ At(p, "read") /\ next > Len(script.top)
  /\ \/ script.top = <<>> /\ profiling /\ \E status \in {0, 1} : Exit(p, exited(status))
     \/ /\ script.top # <<>> \/ ~profiling
        /\ Local(p, goto(p, [Top(p) EXCEPT !.pc = "log", !.logs = 1]))

main_status(r) ==
  IF profiling /\ ~r.can_write THEN 1
  ELSE IF print_tree \/ script.top = <<>> THEN 0 ELSE r.status[script.top[Len(script.top)]]

MainReturns(p) == At(p, "fin") /\ Top(p).c = 0 /\ Exit(p, exited(main_status(proc[p])))

-----------------------------------------------------------------------------
(* Programs.  "hold" succeeds and "miss" fails for a while; "emit" writes  *)
(* some units, "yes" for ever, "cat" copies, "head" reads one unit.        *)
SIGPIPE == 13
Is(p, names) == proc[p].st = "prog" /\ proc[p].prog.name \in names

ProgExit(p) ==
  \/ Is(p, {"true"}) /\ Exit(p, exited(0))
  \/ Is(p, {"false"}) /\ Exit(p, exited(1))
  \/ Is(p, {"emit"}) /\ proc[p].prog.todo = 0 /\ Exit(p, exited(0))
  \/ Is(p, {"hold"}) /\ Exit(p, exited(1))
  \/ Is(p, {"miss"}) /\ Exit(p, exited(0))
ProgAgain(p) ==
  /\ Is(p, {"hold", "miss"}) /\ tries < Tries
  /\ tries' = tries + 1
  /\ proc' = ended(p, exited(IF Is(p, {"hold"}) THEN 0 ELSE 1))
  /\ UNCHANGED <<asked, script, obj, file, next, log, failures>>

write(p, todo) ==
  LET o == proc[p].fds[1][1]  r == [proc[p] EXCEPT !.prog.todo = todo]
  IN IF o = Tty THEN Local(p, r)
     ELSE \/ /\ obj[o].kind = "out"
             /\ file' = [file EXCEPT ![obj[o].name] = @ + 1] /\ proc' = [proc EXCEPT ![p] = r]
             /\ UNCHANGED <<asked, script, obj, next, log, tries, failures>>
          \/ /\ obj[o].kind = "pipe" /\ Open(o, "r") /\ obj[o].n < PipeCap
             /\ obj' = [obj EXCEPT ![o].n = @ + 1] /\ proc' = [proc EXCEPT ![p] = r]
             /\ UNCHANGED <<asked, script, file, next, log, tries, failures>>
          \/ obj[o].kind = "pipe" /\ ~Open(o, "r") /\ Exit(p, SIGPIPE)
ProgWrite(p) ==
  \/ Is(p, {"emit", "cat"}) /\ proc[p].prog.todo > 0 /\ write(p, proc[p].prog.todo - 1)
  \/ Is(p, {"yes"}) /\ write(p, 0)

(* A unit to read, or the end of the input. *)
Readable(o) == o # Tty /\ \/ obj[o].kind = "pipe" /\ obj[o].n > 0
                          \/ obj[o].kind = "in" /\ obj[o].n < file[obj[o].name]
AtEnd(o) == o = Tty \/ (~Readable(o) /\ ~Open(o, "w"))
ProgRead(p) ==
  LET o == proc[p].fds[0][1]
  IN /\ Is(p, {"cat", "head"}) /\ proc[p].prog.todo = 0
     /\ \/ /\ Readable(o)
           /\ obj' = [obj EXCEPT ![o].n = IF obj[o].kind = "pipe" THEN @ - 1 ELSE @ + 1]
           /\ proc' = IF Is(p, {"head"}) THEN ended(p, exited(0))
                      ELSE [proc EXCEPT ![p].prog.todo = 1]
           /\ UNCHANGED <<asked, script, file, next, log, tries, failures>>
        \/ AtEnd(o) /\ Exit(p, exited(0))
Program(p) == ProgExit(p) \/ ProgAgain(p) \/ ProgWrite(p) \/ ProgRead(p)

-----------------------------------------------------------------------------
recursive_execute(p) ==
  \/ execute_sequence(p) \/ execute_pipe(p) \/ execute_subshell(p)
  \/ execute_if(p) \/ execute_loop(p) \/ execute_simple(p)
Logging(p) == LogLine(p) \/ LogNewline(p) \/ NoLog(p)
Shell(p) ==
  \/ Enter(p) \/ recursive_execute(p) \/ StartChild(p) \/ ChildExit(p)
  \/ MakeStream(p) \/ Logging(p) \/ ReadCommand(p) \/ LastRead(p) \/ MainReturns(p)
Step(p) == \/ proc[p].st = "shell" /\ Shell(p)
           \/ proc[p].st = "prog" /\ Program(p)
Work == \E p \in Pids : Step(p)
Next == Work \/ \E p \in Pids : ForkFails(p)

(* The kernel does not idle while a process can go on; that it runs each   *)
(* of them is not needed.                                                  *)
Spec == Init /\ [][Next]_vars /\ WF_vars(Work)

-----------------------------------------------------------------------------
(* A `:' with a redirection, which execute_simple opens and does not close. *)
ColonLeaks == \E n \in {script.node[c] : c \in DOMAIN script.node} :
  n.type = "SIMPLE" /\ IsColon(n) /\ (n.in # "" \/ n.out # "")

(* Between two commands of the script main has no descriptor more than it  *)
(* started with and no child it has not waited for: execute_* closed what  *)
(* they opened and reaped whom they forked.                                *)
CleanBetween ==
  At(Main, "read") => /\ ColonLeaks \/ proc[Main].fds = InitFds
                      /\ \A q \in Pids : proc[q].st # "free" => proc[q].parent # Main

(* The profile.  Between a process's line and its newline nobody else      *)
(* writes to it ("Lock file to prevent interweaving").  And when main()    *)
(* returns after any process failed to write its line, the shell's exit    *)
(* status is 1: can_write is each process's own, but a disk that was full  *)
(* for a child is full for main's own line, and nobody logs after that.    *)
(* (A process that could not fork leaves behind children that may.)        *)
LogSound ==
  [][/\ log.open /\ log' # log => LogNewline(log.lock)
     /\ At(Main, "fin") /\ Top(Main).c = 0 /\ log.lost /\ failures = 0 /\ proc'[Main].st = "zombie"
          => wait_status(proc'[Main].code) = 1]_vars

(* Every script comes to an end, with no process left behind waiting for a *)
(* pipe: all descriptors of it get closed.                                 *)
AllEnd == <>[](\A p \in Pids : IF p = Main THEN proc[p].st = "zombie" ELSE proc[p].st = "free")
=============================================================================
