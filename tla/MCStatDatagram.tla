--------------------------- MODULE MCStatDatagram ---------------------------
(* StatDatagram on small instances. *)
EXTENDS StatDatagram, TLC

CONSTANTS u1, u2, tty2, tty3, c1, c2, c3, c4

Seat(u, g, t) == [login |-> u, remote |-> FALSE, gui |-> g, rdsk |-> FALSE, vnc |-> FALSE, vt |-> t]
Ssh(u) == [login |-> u, remote |-> TRUE, gui |-> "no", rdsk |-> FALSE, vnc |-> FALSE, vt |-> tty3]
RDSK(u) == [Ssh(u) EXCEPT !.gui = "X", !.rdsk = TRUE, !.vnc = TRUE]
VNC(u) == [Ssh(u) EXCEPT !.vnc = TRUE]

MCUser == {u1, u2}
MCVT == {tty2, tty3}
MCSession == {c1, c2, c3, c4}
MCThreeSessions == {c1, c2, c3}
Identifiers == Permutations(MCSession)
MCKind == {Seat(u1, "X", tty2), Seat(u2, "W", tty3), RDSK(u1), VNC(u2)}
MCTwoKinds == {Seat(u1, "X", tty2), Ssh(u1)}

\* Every name and type has bytes of its own.
MCWeight == (u1 :> 3) @@ (u2 :> 5) @@ (NoUser :> 0)
              @@ ("0" :> 0) @@ (" " :> 1) @@ ("X" :> 2) @@ ("W" :> 4)
              @@ ("R" :> 6) @@ ("V" :> 7) @@ ("S" :> 8) @@ ("own" :> 0)
=============================================================================
