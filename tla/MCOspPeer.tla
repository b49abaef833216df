----------------------------- MODULE MCOspPeer -----------------------------
(* A small instance of OspPeer for TLC. *)
EXTENDS OspPeer, TLC

SomeFiles == {"a", "b", "c"}
(* p sends up to three units, q too many; "b" is here only, "c" nowhere. *)
SomeLists == ("a" :> <<"p", "q">>) @@ ("b" :> <<>>) @@ ("c" :> <<>>)
SomeSends == ("p" :> 3) @@ ("q" :> 6)
(* One of the names for a second "a" is taken. *)
Directory == (<<"b", 0>> :> 4) @@ (<<"a", 1>> :> 1)
SomeLoads == {[args |-> <<"a", "a">>, uploads |-> 0], [args |-> <<"b", "c">>, uploads |-> 3]}
=============================================================================
