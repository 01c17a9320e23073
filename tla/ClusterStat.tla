----------------------------- MODULE ClusterStat -----------------------------
(***************************************************************************)
(* The whole system: the clients on their computers, a network that loses, *)
(* doubles and reorders datagrams, the batch system, and the server with   *)
(* its table, which is lost whenever the server stops or crashes and is    *)
(* started again.  The two commands only set and take back marks on an     *)
(* entry; they are left to NodeHistory.                                    *)
(***************************************************************************)
EXTENDS NodeTable

CONSTANTS
  MaxCopies, MaxFlight,
  MaxRestarts  \* bound of the model: how often the server is started again

ASSUME ClusterAssumption ==
  /\ MaxCopies \in Nat \ {0} /\ MaxFlight \in Nat /\ MaxRestarts \in Nat
  /\ Nobody \in Activity

VARIABLES on, unit, pc, terminated, dtg, spoke, sent, restarts

hosts == <<on, unit, pc, terminated, dtg, spoke, sent>>
server == <<nodes, cmd, restarts>>
cvars == <<nodes, cmd, now, restarts, on, unit, pc, terminated, dtg, spoke, sent>>

Client == INSTANCE StatClient WITH Host <- Name

CInit == Init /\ Client!Init /\ restarts = 0

-----------------------------------------------------------------------------

HostStep(h) == Client!Environment(h) /\ UNCHANGED server
ClientStep(h) == Client!ClientStep(h) /\ UNCHANGED server

\* A copy of a datagram arrives.
Deliver(m) ==
  /\ m \in sent
  /\ RegisterNode(m.node, m.dtg)
  /\ sent' = sent \ {m}
  /\ UNCHANGED <<on, unit, pc, terminated, dtg, spoke, restarts>>

\* It does not, because the network or the socket's buffer drops it or no
\* server listens.
Lose(m) ==
  /\ m \in sent
  /\ sent' = sent \ {m}
  /\ UNCHANGED <<now, on, unit, pc, terminated, dtg, spoke, server>>

\* The batch system may say anything of any node.
Poll(report) == UpdateNodePowerStatus(report) /\ UNCHANGED <<hosts, restarts>>

Truth == [h \in Name |-> IF on[h] THEN "up" ELSE "down"]

\* No entry has a mark here, so what a listing writes depends neither on its
\* reader nor on what it finds outside the table.
List(u, t) ==
  /\ RemoteAccessList(u, t, [n \in Known |-> [live |-> FALSE]])
  /\ UNCHANGED <<hosts, restarts>>

\* The server starts again with what its configuration says.
Restart ==
  /\ restarts < MaxRestarts
  /\ restarts' = restarts + 1
  /\ nodes' = [n \in Configured |-> NewNode]
  /\ cmd' = [w \in Worker |-> NoCommand]
  /\ UNCHANGED <<now, hosts>>

CTick == Tick /\ UNCHANGED <<hosts, restarts>>

CNext ==
  \/ \E h \in Name : HostStep(h) \/ ClientStep(h)
  \/ \E m \in sent : Deliver(m) \/ Lose(m)
  \/ \E S \in SUBSET Name : \E report \in [S -> PowerStat] : Poll(report)
  \/ \E u \in User, t \in Epoch .. now : List(u, t)
  \/ Restart
  \/ CTick

\* A client that runs goes on (the sleep ends, subprocesses return); of the
\* datagrams of a node that keeps sending some arrive; the batch system tells
\* the truth again and again.  Power, stops, restarts and losses owe nothing.
Fairness ==
  /\ \A h \in Name : WF_cvars(ClientStep(h))
  /\ \A h \in Name : SF_cvars(\E m \in sent : m.node = h /\ Deliver(m))
  /\ WF_cvars(Poll(Truth))

CSpec == CInit /\ [][CNext]_cvars
CFairSpec == CSpec /\ Fairness

-----------------------------------------------------------------------------
(* Properties *)

ClusterTypeOK ==
  /\ TypeOK
  /\ Client!TypeOK
  /\ restarts \in 0 .. MaxRestarts
  /\ \A h \in Name : spoke[h] <= now

ShownUsable(h, u, env) == h \in Known /\ ListStatus(nodes[h], now, u, env) \in Usable

\* A node that anybody is shown as usable had a client running within the
\* freshness limit, and the clock error beyond it: whatever the network did to
\* its datagrams, whoever restarted what, and whether the node went down with
\* or without a word.
ListedWasRunning ==
  \A h \in Name, u \in User, env \in Env :
    ShownUsable(h, u, env) => now - spoke[h] <= FreshSkew + ClockAhead

\* A node whose service runs from some time on is listed as usable again and
\* again, after any restarts of the server and of the node, any losses and any
\* old datagrams or notices, with nothing done at the node; if the table has
\* room for every node.
ComesBack ==
  Cardinality(Name) <= MaxNodes => \A h \in Name :
    <>[](unit[h] = "active" /\ ~terminated[h]) =>
      []<>(\A u \in User, env \in Env : ShownUsable(h, u, env))

\* A service that is told to stop, or whose client fails, comes to its end: the
\* loop sees the signal and the run for the notice is no loop.
ServiceEnds ==
  \A h \in Name : unit[h] = "stopping" \/ terminated[h] ~> unit[h] \in {"dead", "inactive"}

\* Once the service has ended, because it was told to or because its client
\* failed, the computer measures no further report before its next boot: all
\* that is still filled is the notice, so only older word can overtake it.
NoticeIsLast ==
  [][\A h \in Name :
       dtg'[h] # dtg[h] /\ dtg'[h] # Client!Empty /\ unit[h] # "active" => dtg'[h].down]_cvars

-----------------------------------------------------------------------------
(* The inductive invariant behind ListedWasRunning *)

\* No datagram, in a client, on its way or in the table, is younger than the
\* last one filled.
NoYounger ==
  /\ \A h \in Name : dtg[h].ts <= spoke[h] + ClockAhead
  /\ \A m \in sent : m.dtg.ts <= spoke[m.node] + ClockAhead
  /\ \A n \in Known : nodes[n].basic.ts <= spoke[n] + ClockAhead

ClusterInv == ClusterTypeOK /\ NoYounger
=============================================================================
