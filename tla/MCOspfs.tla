------------------------------ MODULE MCOspfs ------------------------------
(* Names for the instances of Ospfs: of one and of two characters.         *)
EXTENDS Ospfs

SomeNames == {<<"a">>, <<"a", "b">>}
OneName   == {<<"a">>}
NameA     == <<"a">>
SomeCounts == {1}
=============================================================================
