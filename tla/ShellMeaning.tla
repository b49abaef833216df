--------------------------- MODULE ShellMeaning ----------------------------
(***************************************************************************)
(* What a script means when its commands run one after the other, and that *)
(* the processes, pipes and descriptors of ShellExec amount to that.       *)
(***************************************************************************)
EXTENDS ShellExec, ShellGrammar

(* The outcome of a command: its status, the units it leaves unread and    *)
(* the ones it writes, the files, the tries used up, and whether exec has  *)
(* replaced the shell.                                                     *)
Result(status, rest, out, world, gone) ==
  [status |-> status, rest |-> rest, out |-> out, world |-> world, gone |-> gone]

Many == 9     \* what "yes" writes, as far as "head" can tell

Ran(word, inp, w) ==
  CASE word = "true"    -> {Result(0, inp, 0, w, FALSE)}
    [] word = "false"   -> {Result(1, inp, 0, w, FALSE)}
    [] word = ":"       -> {Result(0, inp, 0, w, FALSE)}
    [] word = "missing" -> {Result(127, inp, 0, w, FALSE)}
    [] word = ""        -> {Result(status, inp, 0, w, FALSE) : status \in {127, SIGSEGV}}
    [] word = "emit"    -> {Result(0, inp, Emit, w, FALSE)}
    [] word = "yes"     -> {Result(0, inp, Many, w, FALSE)}
    [] word = "cat"     -> {Result(0, 0, inp, w, FALSE)}
    [] word = "head"    -> {Result(0, IF inp = 0 THEN 0 ELSE inp - 1, 0, w, FALSE)}
    [] OTHER -> LET again == IF word = "hold" THEN 0 ELSE 1
                IN {Result(1 - again, inp, 0, w, FALSE)} \cup
                   IF w.tries = Tries THEN {}
                   ELSE {Result(again, inp, 0, [w EXCEPT !.tries = @ + 1], FALSE)}

RECURSIVE Meaning(_, _, _)

(* b after a, unless a replaced the shell. *)
Then(a, c) == IF a.gone THEN {a}
              ELSE {[b EXCEPT !.out = @ + a.out] : b \in Meaning(c, a.rest, a.world)}

(* A loop, which has the status of the last run of its body, or of its     *)
(* conditional if it never ran.                                            *)
RECURSIVE Looped(_, _, _)
Looped(c, sofar, body) ==
  UNION {IF a.gone THEN {a}
         ELSE IF ~Continues(script.node[c].type, a.status)
         THEN {[a EXCEPT !.status = IF body = -1 THEN @ ELSE body]}
         ELSE UNION {IF b.gone THEN {b} ELSE Looped(c, b, b.status) : b \in Then(a, Kid(c, 2))}
         : a \in Then(sofar, Kid(c, 1))}

Body(c, inp, w) ==
  LET n == script.node[c]
  IN CASE n.type = "SIMPLE" -> {[r EXCEPT !.gone = IsExec(n)] : r \in Ran(Word(n), inp, w)}
       [] n.type = "SEQUENCE" -> UNION {Then(a, Kid(c, 2)) : a \in Meaning(Kid(c, 1), inp, w)}
       [] n.type = "SUBSHELL" -> {[r EXCEPT !.gone = FALSE] : r \in Meaning(Kid(c, 1), inp, w)}
       [] n.type = "PIPE" -> UNION {{[b EXCEPT !.rest = a.rest, !.gone = FALSE]
                               : b \in Meaning(Kid(c, 2), a.out, a.world)} : a \in Meaning(Kid(c, 1), inp, w)}
       [] n.type = "IF" -> UNION {IF a.gone THEN {a} ELSE IF a.status = 0 THEN Then(a, Kid(c, 2))
                               ELSE IF Len(n.kids) = 3 THEN Then(a, Kid(c, 3)) ELSE {a}
                               : a \in Meaning(Kid(c, 1), inp, w)}
       [] OTHER -> Looped(c, Result(0, inp, 0, w, FALSE), -1)

(* A command with its redirections: the file instead of the input, and the *)
(* output into the file.  A file that does not exist reads like /dev/null. *)
Meaning(c, inp, w) ==
  LET n  == script.node[c]
      own == IF n.in = "" THEN inp ELSE IF w.file[n.in] = -1 THEN 0 ELSE w.file[n.in]
      w1  == IF n.out = "" THEN w ELSE [w EXCEPT !.file[n.out] = 0]
  IN {LET r1 == IF n.in = "" THEN r ELSE [r EXCEPT !.rest = inp]
      IN IF n.out = "" THEN r1 ELSE [r1 EXCEPT !.world.file[n.out] = r.out, !.out = 0]
      : r \in Body(c, own, w1)}

RECURSIVE Commands(_, _)
Commands(k, w) ==
  UNION {IF r.gone \/ k = Len(script.top) THEN {r} ELSE Commands(k + 1, r.world)
         : r \in Meaning(script.top[k], 0, w)}

(* Whatever the interleaving of a script's processes, its exit status and  *)
(* what it leaves in the files are those of running it command by command: *)
(* every pipe, redirection and status in execute-command.c goes where it   *)
(* belongs.  A script with a syntax error anywhere, or only printed, does  *)
(* nothing, and neither does one whose profile cannot be opened, with      *)
(* status 1.  (A failed fork or a full log changes the status.)            *)
Outcome ==
  proc[Main].st = "zombie" /\ failures = 0 /\ ~log.lost =>
    IF ~script.ok \/ print_tree \/ script.top = <<>> \/ (profiling /\ next = 1)
    THEN /\ wait_status(proc[Main].code) \in
              IF ~script.ok \/ (script.top # <<>> /\ ~print_tree) THEN {1}
              ELSE IF profiling THEN {0, 1} ELSE {0}
         /\ file = InitFiles
    ELSE \E r \in Commands(1, [file |-> InitFiles, tries |-> 0]) :
         wait_status(proc[Main].code) = r.status /\ file = r.world.file /\ tries = r.world.tries

(* The commands found in a text are the ones it is meant to be, and a text *)
(* that is not a script is refused: the lexer's running state and the      *)
(* parser's scans for the last `;' or `|', or the `then', `else', `fi' or  *)
(* `done' of the command at hand, amount to the grammar.  For layouts that *)
(* are Plain.                                                              *)
ParsedRight == At(Main, "make") /\ Plain(text) => ReadAsMeant(text, script)
=============================================================================
