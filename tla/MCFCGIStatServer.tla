-------------------------- MODULE MCFCGIStatServer --------------------------
(* FCGIStatServer on small instances. *)
EXTENDS FCGIStatServer, TLC

CONSTANTS u1, n2, n3

MCUser == {u1}
MCIdle == {Nobody}
AllUp == [n \in Name |-> "up"]
Newcomers == Permutations({n2, n3})
MCReport == {AllUp}
=============================================================================
