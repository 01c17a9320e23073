----------------------------- MODULE NodeTable -----------------------------
(***************************************************************************)
(* The server's node table (CFCGIStatServer::Nodes) under its handlers,    *)
(* each taken as one atomic step: datagrams of the clients, power reports  *)
(* of the batch system, listings, and the two commands a user can run on a *)
(* node.  A command is two steps, the mark before the script is run and    *)
(* the return of the script, since the script runs without the mutex.      *)
(*                                                                         *)
(* FCGIStatServer.tla splits the handlers into what the threads really do  *)
(* and is checked to implement this specification.                         *)
(***************************************************************************)
EXTENDS CompNode, FiniteSets

CONSTANTS
  Name,        \* short host names
  Configured,  \* the names under config/nodes in the server's XML file
  MaxNodes,    \* config/setup maxnodes
  Worker,      \* threads that serve FastCGI requests
  Activity,    \* what clients may report, a subset of Activities
  Epoch,       \* the server's clock when it starts
  MaxTime,     \* bound of the model: the clock stops here
  ClockAhead   \* how far the clock of a client may be ahead of the server's

\* The clock is in seconds since 1970: its start is later than any skew, so a
\* blank entry is always silent.
ASSUME TableAssumption ==
  /\ IsFiniteSet(Name) /\ Configured \subseteq Name
  /\ Activity \subseteq Activities
  /\ MaxNodes \in Nat
  /\ Epoch \in Nat /\ MaxTime \in Nat /\ ClockAhead \in Nat /\ Epoch <= MaxTime
  /\ Epoch > FreshSkew /\ Epoch > DownSkew

VARIABLES
  nodes,  \* from the registered names to their entries
  cmd,    \* the script each worker waits for, if any
  now     \* the server's clock

vars == <<nodes, cmd, now>>

Known == DOMAIN nodes
\* Mutant: off by one.
Full_Above == Cardinality(Known) > MaxNodes
Full == Cardinality(Known) = MaxNodes

Command == [kind : {"wake", "vnc"}, node : Name]
NoCommand == [kind |-> "none"]

Message == {d \in [ts : Epoch .. now + ClockAhead, down : BOOLEAN, who : Activity] :
              d.down => d.who = Nobody}

TypeOK ==
  /\ Known \subseteq Name
  /\ nodes \in [Known -> Node]
  /\ cmd \in [Worker -> Command \cup {NoCommand}]
  /\ \A w \in Worker : cmd[w] # NoCommand => cmd[w].node \in Known
  /\ now \in Epoch .. MaxTime

Init ==
  /\ nodes = [n \in Configured |-> NewNode]
  /\ cmd = [w \in Worker |-> NoCommand]
  /\ now = Epoch

-----------------------------------------------------------------------------
(* Datagrams: RegisterNode.  A client is believed whatever its time stamp, *)
(* so the datagrams may arrive late, twice or in any order.                *)

\* Mutant: the time of arrival is taken for that of the measurement.
Refresh_Arrival(n, d) ==
  /\ n \in Known
  /\ nodes' = [nodes EXCEPT ![n] = Hear(@, [d EXCEPT !.ts = now])]

Refresh(n, d) ==
  /\ n \in Known
  /\ nodes' = [nodes EXCEPT ![n] = Hear(@, d)]

\* Mutant: no limit.
Register_NoLimit(n, d) ==
  /\ n \notin Known
  /\ nodes' = [m \in Known \cup {n} |-> IF m = n THEN Hear(NewNode, d) ELSE nodes[m]]

Register(n, d) ==
  /\ n \notin Known
  /\ ~Full
  /\ nodes' = [m \in Known \cup {n} |-> IF m = n THEN Hear(NewNode, d) ELSE nodes[m]]

Reject(n) ==
  /\ n \notin Known
  /\ Full
  /\ UNCHANGED nodes

RegisterNode(n, d) ==
  /\ Refresh(n, d) \/ Register(n, d) \/ Reject(n)
  /\ UNCHANGED <<cmd, now>>

-----------------------------------------------------------------------------
(* Power reports: UpdateNodePowerStatus walks the batch system's answer and *)
(* passes over the nodes that are not registered.                           *)

UpdateNodePowerStatus(report) ==
  /\ nodes' = [n \in Known |->
                 IF n \in DOMAIN report THEN [nodes[n] EXCEPT !.powerStat = report[n]]
                 ELSE nodes[n]]
  /\ UNCHANGED <<cmd, now>>

-----------------------------------------------------------------------------
(* Requests *)

WakeOnLAN(w, n, t) ==
  /\ cmd[w] = NoCommand
  /\ n \in Known
  /\ nodes' = [nodes EXCEPT ![n] = MarkPowerOn(@, t)]
  /\ cmd' = [cmd EXCEPT ![w] = [kind |-> "wake", node |-> n]]
  /\ UNCHANGED now

\* Mutant: a command for a node that is not registered.
StartVNC_Unchecked(w, n, t) ==
  /\ cmd[w] = NoCommand
  /\ cmd' = [cmd EXCEPT ![w] = [kind |-> "vnc", node |-> n]]
  /\ UNCHANGED <<nodes, now>>

StartVNC(w, n, t) ==
  /\ cmd[w] = NoCommand
  /\ n \in Known
  /\ nodes' = [nodes EXCEPT ![n] = MarkStartVNC(@, t)]
  /\ cmd' = [cmd EXCEPT ![w] = [kind |-> "vnc", node |-> n]]
  /\ UNCHANGED now

CommandFails(w) ==
  /\ cmd[w] # NoCommand
  /\ nodes' = [nodes EXCEPT ![cmd[w].node] = Unmark(@, cmd[w].kind)]
  /\ cmd' = [cmd EXCEPT ![w] = NoCommand]
  /\ UNCHANGED now

CommandSucceeds(w) ==
  /\ cmd[w] # NoCommand
  /\ cmd' = [cmd EXCEPT ![w] = NoCommand]
  /\ UNCHANGED <<nodes, now>>

\* The remote access list for user u: t is the time read before the first
\* entry, sockets what the handler finds of u's sockets on each node; his flags
\* decide about what is shown and not about what is written.
\* The seat lists and the debug page change nothing and are no action.
RemoteAccessList(u, t, sockets) ==
  /\ nodes' = [n \in Known |-> Listed(nodes[n], t, u, sockets[n])]
  /\ UNCHANGED <<cmd, now>>

-----------------------------------------------------------------------------

Tick ==
  /\ now < MaxTime
  /\ now' = now + 1
  /\ UNCHANGED <<nodes, cmd>>

Next ==
  \/ \E n \in Name, d \in Message : RegisterNode(n, d)
  \/ \E S \in SUBSET Name : \E report \in [S -> PowerStat] : UpdateNodePowerStatus(report)
  \/ \E w \in Worker, n \in Name, t \in Epoch .. now : WakeOnLAN(w, n, t) \/ StartVNC(w, n, t)
  \/ \E w \in Worker : CommandFails(w) \/ CommandSucceeds(w)
  \/ \E u \in User, t \in Epoch .. now, sockets \in [Known -> [live : BOOLEAN]] : RemoteAccessList(u, t, sockets)
  \/ Tick

Spec == Init /\ [][Next]_vars

-----------------------------------------------------------------------------
(* Properties *)

\* The table never grows beyond maxnodes if the configured nodes fit: the
\* registration compares the two for equality only.
TableBounded ==
  Cardinality(Configured) <= MaxNodes => Cardinality(Known) <= MaxNodes

\* Once the table holds maxnodes nodes or more, no datagram registers another
\* ("too many nodes - skiping new registration").
LimitHolds ==
  [][Cardinality(Known) >= MaxNodes => DOMAIN nodes' = Known]_vars

\* The three pages, read at one moment, never contradict each other about a
\* node that the remote access list lets someone use: its seats are listed as
\* up, and so it is on the debug page.
PagesAgree ==
  \A n \in Known, u \in User, env \in Env :
    ListStatus(nodes[n], now, u, env) \in Usable =>
      /\ SeatListStatus(nodes[n], now) = "up"
      /\ DebugStatus(nodes[n], now) = "up"

\* The remote access list is a page somebody loads, and yet it writes to the
\* table.  What it writes changes the next reading of anybody in two cases
\* only: a node listed down whose power report says up falls back to
\* maintenance once forgotten, and the mark of a starting desktop goes when
\* the reader's own desktop on that node is live.
ListingDisturbs ==
  \A n \in Known, u, v \in User, env \in [live : BOOLEAN], env2 \in Env :
    LET nd     == nodes[n]
        before == ListStatus(nd, now, v, env2)
        after  == ListStatus(Listed(nd, now, u, env), now, v, env2)
    IN  after # before =>
          \/ before = "down" /\ after = "maintenance" /\ nd.powerStat = "up"
          \/ before = "startvnc" /\ Connected(nd, u, env)
=============================================================================
