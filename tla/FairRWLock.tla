----------------------------- MODULE FairRWLock -----------------------------
(***************************************************************************)
(* What the ramdisk lock promises (comment of OSPRDIOCACQUIRE in           *)
(* RAMDisk/osprd.c): one writer or any number of readers, and requests     *)
(* granted in the order they were made.  No tickets, no queue of sleepers. *)
(***************************************************************************)
CONSTANTS Procs, NoProc

VARIABLES
  writer,   \* the process that holds the write lock, or NoProc
  readers,  \* the processes that hold a read lock
  waiting,  \* the processes with a request that is neither granted nor withdrawn
  kind,     \* what each of them asks for: "w" or "r"
  ahead     \* the waiting requests made before each request

vars == <<writer, readers, waiting, kind, ahead>>

Init ==
  /\ writer = NoProc /\ readers = {} /\ waiting = {}
  /\ kind = [p \in Procs |-> "w"]
  /\ ahead = [p \in Procs |-> {}]

(* A request joins behind every request that waits. *)
Arrive(p) ==
  /\ p \notin waiting
  /\ waiting' = waiting \cup {p}
  /\ \E k \in {"w", "r"} : kind' = [kind EXCEPT ![p] = k]
  /\ ahead' = [ahead EXCEPT ![p] = waiting]
  /\ UNCHANGED <<writer, readers>>

(* A request leaves the line. *)
Leave(p) ==
  /\ p \in waiting
  /\ waiting' = waiting \ {p}
  /\ kind' = [kind EXCEPT ![p] = "w"]
  /\ ahead' = [q \in Procs |-> IF q = p THEN {} ELSE ahead[q] \ {p}]

(* The request first in line is granted when the lock allows it. *)
Grant(p) ==
  /\ ahead[p] = {} /\ writer = NoProc
  /\ \/ kind[p] = "w" /\ readers = {} /\ writer' = p /\ UNCHANGED readers
     \/ kind[p] = "r" /\ readers' = readers \cup {p} /\ UNCHANGED writer
  /\ Leave(p)

(* A request is refused or interrupted. *)
Withdraw(p) ==
  /\ Leave(p)
  /\ UNCHANGED <<writer, readers>>

(* A holder lets go. *)
Release(p) ==
  /\ \/ writer = p /\ writer' = NoProc /\ UNCHANGED readers
     \/ p \in readers /\ readers' = readers \ {p} /\ UNCHANGED writer
  /\ UNCHANGED <<waiting, kind, ahead>>

Next == \E p \in Procs : Arrive(p) \/ Grant(p) \/ Withdraw(p) \/ Release(p)

Spec == Init /\ [][Next]_vars
=============================================================================
