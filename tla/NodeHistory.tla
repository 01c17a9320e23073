---------------------------- MODULE NodeHistory ----------------------------
(***************************************************************************)
(* NodeTable with three history variables: what the server last heard of   *)
(* each node from the node itself and from the batch system, and the last  *)
(* wake command that nothing has called off.  They are never read by an    *)
(* action; they let the listings be compared with what was said.           *)
(***************************************************************************)
EXTENDS NodeTable

VARIABLES
  heard,     \* the last datagram of each node, Blank before the first
  reported,  \* the last power report of each node
  woken      \* the last wake: its worker, its time, and whether no other
             \* worker's wake of the node has failed since; or Never

history == <<heard, reported, woken>>
hvars == <<nodes, cmd, now, heard, reported, woken>>

Never == [at |-> 0]
Wake == [at : Nat, by : Worker, kept : BOOLEAN]

HistoryTypeOK ==
  /\ heard \in [Name -> Datagram]
  /\ reported \in [Name -> PowerStat]
  /\ woken \in [Name -> Wake \cup {Never}]

HInit ==
  /\ Init
  /\ heard = [n \in Name |-> Blank]
  /\ reported = [n \in Name |-> "unknown"]
  /\ woken = [n \in Name |-> Never]

\* A datagram from the node ends its wake: it is running.
HRegisterNode(n, d) ==
  /\ RegisterNode(n, d)
  /\ heard' = [heard EXCEPT ![n] = d]
  /\ woken' = [woken EXCEPT ![n] = Never]
  /\ UNCHANGED reported

\* So does a report that takes it into maintenance.
HUpdateNodePowerStatus(report) ==
  /\ UpdateNodePowerStatus(report)
  /\ reported' = [n \in Name |-> IF n \in DOMAIN report THEN report[n] ELSE reported[n]]
  /\ woken' = [n \in Name |->
                 IF n \in DOMAIN report /\ report[n] \in {"maintenance", "unknown"}
                 THEN Never ELSE woken[n]]
  /\ UNCHANGED heard

HWakeOnLAN(w, n, t) ==
  /\ WakeOnLAN(w, n, t)
  /\ woken' = [woken EXCEPT ![n] = IF InMaintenance(nodes[n]) THEN Never
                                   ELSE [at |-> t, by |-> w, kept |-> TRUE]]
  /\ UNCHANGED <<heard, reported>>

HStartVNC(w, n, t) == StartVNC(w, n, t) /\ UNCHANGED history

\* A failed wake calls off the one it made, but not that of another worker.
HCommandFails(w) ==
  /\ CommandFails(w)
  /\ LET n == cmd[w].node
     IN  woken' = IF cmd[w].kind = "wake" /\ woken[n] # Never
                  THEN [woken EXCEPT ![n] = IF @.by = w THEN Never
                                            ELSE [@ EXCEPT !.kept = FALSE]]
                  ELSE woken
  /\ UNCHANGED <<heard, reported>>

HCommandSucceeds(w) == CommandSucceeds(w) /\ UNCHANGED history
HRemoteAccessList(u, t, sockets) == RemoteAccessList(u, t, sockets) /\ UNCHANGED history
HTick == Tick /\ UNCHANGED history

HNext ==
  \/ \E n \in Name, d \in Message : HRegisterNode(n, d)
  \/ \E S \in SUBSET Name : \E report \in [S -> PowerStat] : HUpdateNodePowerStatus(report)
  \/ \E w \in Worker, n \in Name, t \in Epoch .. now :
       HWakeOnLAN(w, n, t) \/ HStartVNC(w, n, t)
  \/ \E w \in Worker : HCommandFails(w) \/ HCommandSucceeds(w)
  \/ \E u \in User, t \in Epoch .. now, sockets \in [Known -> [live : BOOLEAN]] : HRemoteAccessList(u, t, sockets)
  \/ HTick

HSpec == HInit /\ [][HNext]_hvars

-----------------------------------------------------------------------------
(* Properties *)

\* A node is listed as usable only on fresh and consistent word of it: its
\* last datagram is at most FreshSkew old and no shutdown notice, and the last
\* power report says it is up.  The table keeps both in fields that every
\* handler may clear, and compares their ages in five places.
UsableIsHeard ==
  \A n \in Known, u \in User, env \in Env :
    ListStatus(nodes[n], now, u, env) \in Usable =>
      /\ now - heard[n].ts <= FreshSkew
      /\ ~heard[n].down
      /\ reported[n] = "up"

\* A node with a user at its seat or in a remote desktop is never offered to
\* anyone else for a new desktop.
OccupiedNotOffered ==
  \A n \in Known, u \in User, env \in Env :
    ListStatus(nodes[n], now, u, env) \in Offered =>
      /\ heard[n].who.local = {}
      /\ \A s \in heard[n].who.remote : s[1] = "S"

\* The window of the last wake is open, and nothing called it off.
InForce(n) == woken[n] # Never /\ now - woken[n].at < DownSkew

\* A wake that nothing called off is shown to everyone for the whole window,
\* however often the node is listed and whatever commands run and fail, except
\* that another worker's failing wake of the same node takes its mark.
WakeShown ==
  \A n \in Known, u \in User, env \in Env :
    InForce(n) /\ woken[n].kept => ListStatus(nodes[n], now, u, env) = "poweron"

Marked(n) ==
  /\ nodes[n].inPowerOnMode
  /\ nodes[n].powerOnTime = woken[n].at
  /\ ~InMaintenance(nodes[n])

\* The wake command of another worker on the same node fails.
OthersFailure(n) ==
  \E w \in Worker : HCommandFails(w) /\ cmd[w] = [kind |-> "wake", node |-> n] /\ w # woken[n].by

\* A wake in force has its mark, unless it had lost it before or loses it to the
\* failure of another worker's wake of the node, which takes back a mark it did
\* not set.
MarkKept ==
  [][\A n \in Known' :
       InForce(n)' => \/ Marked(n)'
                      \/ /\ n \in Known /\ InForce(n)
                         /\ ~Marked(n) \/ OthersFailure(n)]_hvars

\* Once a node has said that it shuts down, word from before that does not
\* make it usable again ("keep node in maintenance during poweroff procedure").
NoticeKept ==
  [][\A n \in Known, u \in User, env \in Env :
       heard[n].down /\ heard'[n].ts < heard[n].ts =>
         ListStatus(nodes'[n], now', u, env) \notin Usable]_hvars

-----------------------------------------------------------------------------
(* The inductive invariant behind them *)

\* An entry holds what was last heard or nothing, and the last power report
\* unless it was registered after it.
EntryIsHeard ==
  \A n \in Known :
    /\ nodes[n].basic \in {Blank, heard[n]}
    /\ nodes[n].powerStat \in {"unknown", reported[n]}

\* A wake in force has its mark, unless another worker's failure took it.
WakeIsMarked == \A n \in Known : InForce(n) /\ woken[n].kept => Marked(n)

HistoryInv == TypeOK /\ HistoryTypeOK /\ EntryIsHeard

WakeInv == HistoryInv /\ WakeIsMarked
=============================================================================
