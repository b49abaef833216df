----------------------------- MODULE MCSchedOS -----------------------------
(* A small instance of SchedOS for TLC. *)
EXTENDS SchedOS

(* Higher and lower than the initial levels, and an invalid queue number. *)
SomeLevels == {-1, 1, 2}
=============================================================================
