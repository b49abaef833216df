----------------------------- MODULE MCMposApp2 -----------------------------
(* A small instance of MposApp2 for TLC. *)
EXTENDS MposApp2

AppStatuses == 0..Total
=============================================================================
