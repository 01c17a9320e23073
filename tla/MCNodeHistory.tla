--------------------------- MODULE MCNodeHistory ---------------------------
(* NodeHistory on small instances. *)
EXTENDS NodeHistory, TLC

CONSTANTS u1, u2

MCUser == {u1, u2}
OneUser == {u1}
Desktop(u) == [local |-> {}, remote |-> {<<"R", u>>}]
Shell(u) == [local |-> {}, remote |-> {<<"S", u>>}]
Seat(u) == [local |-> {u}, remote |-> {}]
MCSessions == {Nobody, Desktop(u1), Shell(u1), Seat(u1)}
MCIdle == {Nobody}
Symmetry == Permutations(Name) \cup Permutations(Worker)
=============================================================================
