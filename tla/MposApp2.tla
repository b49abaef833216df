------------------------------ MODULE MposApp2 ------------------------------
(***************************************************************************)
(* mpos-app2.c on top of the kernel: process 1 starts Total children, as   *)
(* many at a time as the table holds, and waits for slots 2, 3, ... to     *)
(* make room; each child counts itself and exits with its number.  The     *)
(* processes share the globals; `p` lives in %eax.                         *)
(***************************************************************************)
EXTENDS MposKernel

CONSTANT Total      \* 1025 in the code

ASSUME TotalAssumption == Total \in Nat /\ 0..Total \subseteq Statuses

VARIABLES
  counter,    \* the shared counter
  n_started,  \* children of this round
  at,         \* where each process is: "outer", "fork", "reap", "child" or "exit"
  next        \* p of the for loop: the slot to wait for

app     == <<counter, n_started, next, at>>
appVars == <<vars, app>>

AppInit ==
  /\ Init
  /\ counter = 0 /\ n_started = 0 /\ next = 2
  /\ at = [p \in Slots |-> "outer"]

(* The outer while. *)
Outer ==
  /\ at[current] = "outer"
  /\ at' = [at EXCEPT ![current] = IF counter < Total THEN "fork" ELSE "exit"]
  /\ n_started' = 0
  /\ UNCHANGED <<vars, counter, next>>

(* One turn of the inner while: the child comes out of sys_fork at once in *)
(* run_child.                                                              *)
ForkOne ==
  /\ at[current] = "fork" /\ counter + n_started < Total
  /\ do_fork
  /\ \/ /\ eax'[current] > 0
        /\ n_started' = n_started + 1
        /\ at' = [at EXCEPT ![eax'[current]] = "child"]
        /\ UNCHANGED <<counter, next>>
     \/ /\ eax'[current] = -1
        /\ at' = [at EXCEPT ![current] = IF n_started = 0 THEN "exit" ELSE "reap"]
        /\ next' = 2
        /\ UNCHANGED <<counter, n_started>>

(* The inner while ends because enough children were started. *)
ForkEnough ==
  /\ at[current] = "fork" /\ counter + n_started >= Total
  /\ at' = [at EXCEPT ![current] = IF n_started = 0 THEN "exit" ELSE "reap"]
  /\ next' = 2
  /\ UNCHANGED <<vars, counter, n_started>>

(* One turn of the for loop that waits for the slots. *)
ReapOne ==
  /\ at[current] = "reap" /\ next < NPROCS
  /\ wait(next)
  /\ next' = next + 1
  /\ UNCHANGED <<counter, n_started, at>>

ReapDone ==
  /\ at[current] = "reap" /\ next = NPROCS
  /\ at' = [at EXCEPT ![current] = "outer"]
  /\ UNCHANGED <<vars, counter, n_started, next>>

(* run_child. *)
Child ==
  /\ at[current] = "child"
  /\ counter' = counter + 1
  /\ exit(counter)
  /\ UNCHANGED <<n_started, next, at>>

(* sys_exit(0) of process 1. *)
MainExit ==
  /\ at[current] = "exit"
  /\ exit(0)
  /\ UNCHANGED app

AppNext ==
  /\ current # Spin
  /\ Outer \/ ForkOne \/ ForkEnough \/ ReapOne \/ ReapDone \/ Child \/ MainExit

AppSpec == AppInit /\ [][AppNext]_appVars /\ WF_appVars(AppNext)

-----------------------------------------------------------------------------
(* The application finishes: all Total children run, although the table    *)
(* holds fewer, and process 1 gets to its exit.                            *)
AllChildrenRun == <>(counter = Total /\ p_state[1] = "ZOMBIE")

(* The order of the waits keeps clear of the kernel's stale p_wait and of  *)
(* its immortal zombies: process 1 is only ever answered by the child it   *)
(* waits for, and each child's status is handed out once, to it.           *)
EachStatusOnce ==
  [][/\ p_state[1] = "BLOCKED" /\ p_state'[1] = "RUNNABLE" => current = eax[1]
     /\ \A p \in Pids \ {1} : p_state'[p] # "ZOMBIE"
     /\ HandedOnce]_appVars
=============================================================================
