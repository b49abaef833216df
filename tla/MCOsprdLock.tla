---------------------------- MODULE MCOsprdLock ----------------------------
(* Small instances of OsprdLock for TLC. *)
EXTENDS OsprdLock, TLC

CONSTANTS p1, p2, p3, f1, f2, f3

(* Which process opens which file, and how. *)
PrivateUsers == (f1 :> {p1}) @@ (f2 :> {p2}) @@ (f3 :> {p3})
SharedUsers  == (f1 :> {p1, p2}) @@ (f2 :> {p2}) @@ (f3 :> {p3})
ForkUsers    == (f1 :> {p1, p2}) @@ (f2 :> {p2})

ModesWWR == (f1 :> "w") @@ (f2 :> "w") @@ (f3 :> "r")
ModesAll == (f1 :> "r") @@ (f2 :> "w") @@ (f3 :> "rw")
ModesRW  == (f1 :> "r") @@ (f2 :> "w")
=============================================================================
