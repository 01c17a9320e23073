---------------------------- MODULE MCNodeTable ----------------------------
(* NodeTable on small instances. *)
EXTENDS NodeTable

CONSTANTS u1, u2

MCUser == {u1, u2}
OneUser == {u1}
Session(u) == [local |-> {}, remote |-> {<<"R", u>>}]
MCIdle == {Nobody}
MCSessions == {Nobody, Session(u1)}
=============================================================================
