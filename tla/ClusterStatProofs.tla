------------------------- MODULE ClusterStatProofs -------------------------
(***************************************************************************)
(* Proofs about the whole system: whoever is shown a node as usable is     *)
(* shown one that had a client running a short while ago.                  *)
(***************************************************************************)
EXTENDS ClusterStat, NodeTableProofs

-----------------------------------------------------------------------------
(* The computers *)

\* An empty datagram is one that reports nobody.
LEMMA EmptyType == Client!Empty \in Client!Reports
BY ClusterAssumption DEF Client!Empty, Client!Reports

\* A datagram that has just been filled, a report or a notice.
LEMMA FilledType ==
  ASSUME now \in Nat, NEW ts \in now .. now + ClockAhead
  PROVE  /\ \A who \in Activity : [ts |-> ts, down |-> FALSE, who |-> who] \in Client!Reports
         /\ [ts |-> ts, down |-> TRUE, who |-> Nobody] \in Client!Reports
<1>1. ts \in Nat
  BY TableAssumption
<1> QED
  BY <1>1, ClusterAssumption DEF Client!Reports

\* The end of a process leaves everything in its type.
LEMMA EndTypes ==
  ASSUME Client!TypeOK, NEW h \in Name, Client!ProcessEnds(h)
  PROVE  /\ terminated' \in [Name -> BOOLEAN]
         /\ unit' \in [Name -> {"inactive", "active", "stopping", "dead"}]
         /\ pc' \in [Name -> Client!Label]
         /\ dtg' \in [Name -> Client!Reports]
BY EmptyType DEF Client!TypeOK, Client!ProcessEnds, Client!Label

\* What the network takes is what the client filled.
LEMMA SentTypes ==
  ASSUME Client!TypeOK, NEW h \in Name, Client!Transmit(h)
  PROVE  sent' \subseteq [node : Name, dtg : Client!Reports, copy : Nat]
<1>1. PICK n \in 1 .. MaxCopies :
        sent' \in {sent, sent \cup {[node |-> h, dtg |-> dtg[h], copy |-> i] : i \in 1 .. n}}
  BY DEF Client!Transmit
<1>2. 1 .. n \subseteq Nat
  BY ClusterAssumption
<1> QED
  BY <1>1, <1>2 DEF Client!TypeOK

\* Every step at a computer keeps its types.
LEMMA HostTypes ==
  ASSUME Client!TypeOK, now \in Nat, NEW h \in Name,
         Client!Environment(h) \/ Client!ClientStep(h)
  PROVE  Client!TypeOK'
<1> USE DEF Client!TypeOK, Client!Label, Client!Goto
<1>1. CASE Client!PowerOn(h)
  BY <1>1 DEF Client!PowerOn
<1>2. CASE Client!PowerOff(h)
  BY <1>2, EmptyType DEF Client!PowerOff
<1>3. CASE Client!Stop(h)
  <2>1. CASE pc[h] = "begin"
    BY <1>3, <2>1, EndTypes DEF Client!Stop
  <2>2. CASE pc[h] # "begin"
    BY <1>3, <2>2 DEF Client!Stop
  <2> QED
    BY <2>1, <2>2
<1>4. CASE Client!Begin(h)
  BY <1>4 DEF Client!Begin
<1>5. CASE Client!Measure(h)
  BY <1>5, FilledType DEF Client!Measure
<1>6. CASE Client!Notice(h)
  BY <1>6, FilledType DEF Client!Notice
<1>7. CASE Client!NoHostName(h) \/ Client!SendFails(h)
  BY <1>7, EndTypes DEF Client!NoHostName, Client!SendFails
<1>8. CASE Client!SendReport(h)
  BY <1>8, SentTypes DEF Client!SendReport
<1>9. CASE Client!SendNotice(h)
  BY <1>9, SentTypes, EndTypes DEF Client!SendNotice
<1>10. CASE Client!LoopTest(h)
  BY <1>10, EndTypes DEF Client!LoopTest
<1> QED
  BY <1>1, <1>2, <1>3, <1>4, <1>5, <1>6, <1>7, <1>8, <1>9, <1>10
     DEF Client!Environment, Client!ClientStep

\* The last word of a computer is none older than what it sends.
HostAges ==
  /\ \A h \in Name : spoke[h] <= now
  /\ \A h \in Name : dtg[h].ts <= spoke[h] + ClockAhead
  /\ \A m \in sent : m.dtg.ts <= spoke[m.node] + ClockAhead

\* Nor does it become older by a step at the computer.
LEMMA HostAgesStep ==
  ASSUME Client!TypeOK, HostAges, now \in Nat, now' = now, NEW h \in Name,
         Client!Environment(h) \/ Client!ClientStep(h)
  PROVE  HostAges' /\ \A g \in Name : spoke[g] <= spoke'[g]
<1> USE DEF HostAges
<1>0. ClockAhead \in Nat
  BY TableAssumption
<1>t. /\ spoke \in [Name -> Nat] /\ dtg \in [Name -> Client!Reports]
      /\ \A m \in sent : m.node \in Name /\ m.dtg.ts \in Nat
      /\ \A g \in Name : dtg[g].ts \in Nat
  BY DEF Client!TypeOK, Client!Reports
<1>1. CASE /\ spoke' = spoke /\ sent' = sent
           /\ dtg' = dtg \/ dtg' = [dtg EXCEPT ![h] = Client!Empty]
  BY <1>0, <1>1, <1>t DEF Client!Empty
<1>2. ASSUME NEW d, d.ts \in now .. now + ClockAhead, dtg' = [dtg EXCEPT ![h] = d],
             spoke' = [spoke EXCEPT ![h] = now], sent' = sent
      PROVE  HostAges' /\ \A g \in Name : spoke[g] <= spoke'[g]
  BY <1>0, <1>2, <1>t
<1>3. CASE /\ spoke' = spoke /\ Client!Transmit(h)
           /\ dtg' = dtg \/ dtg' = [dtg EXCEPT ![h] = Client!Empty]
  <2>1. PICK n \in 1 .. MaxCopies :
          sent' \in {sent, sent \cup {[node |-> h, dtg |-> dtg[h], copy |-> i] : i \in 1 .. n}}
    BY <1>3 DEF Client!Transmit
  <2>2. \A m \in sent' : m \in sent \/ (m.node = h /\ m.dtg = dtg[h])
    BY <2>1
  <2> QED
    BY <1>0, <1>3, <1>t, <2>2 DEF Client!Empty
<1>4. \/ /\ spoke' = spoke /\ sent' = sent
         /\ dtg' = dtg \/ dtg' = [dtg EXCEPT ![h] = Client!Empty]
      \/ Client!Measure(h) \/ Client!Notice(h)
      \/ /\ spoke' = spoke /\ Client!Transmit(h)
         /\ dtg' = dtg \/ dtg' = [dtg EXCEPT ![h] = Client!Empty]
  BY DEF Client!Environment, Client!ClientStep, Client!PowerOn, Client!PowerOff, Client!Stop,
         Client!Begin, Client!NoHostName, Client!SendReport, Client!SendNotice,
         Client!SendFails, Client!LoopTest, Client!ProcessEnds
<1>5. CASE Client!Measure(h)
  <2>1. PICK ts \in now .. now + ClockAhead, who \in Activity :
          dtg' = [dtg EXCEPT ![h] = [ts |-> ts, down |-> FALSE, who |-> who]]
    BY <1>5 DEF Client!Measure
  <2> DEFINE d == [ts |-> ts, down |-> FALSE, who |-> who]
  <2>2. d.ts \in now .. now + ClockAhead /\ dtg' = [dtg EXCEPT ![h] = d]
    BY <2>1
  <2>3. spoke' = [spoke EXCEPT ![h] = now] /\ sent' = sent
    BY <1>5 DEF Client!Measure
  <2> QED
    BY <1>2, <2>2, <2>3
<1>6. CASE Client!Notice(h)
  <2>1. PICK ts \in now .. now + ClockAhead :
          dtg' = [dtg EXCEPT ![h] = [ts |-> ts, down |-> TRUE, who |-> Nobody]]
    BY <1>6 DEF Client!Notice
  <2> DEFINE d == [ts |-> ts, down |-> TRUE, who |-> Nobody]
  <2>2. d.ts \in now .. now + ClockAhead /\ dtg' = [dtg EXCEPT ![h] = d]
    BY <2>1
  <2>3. spoke' = [spoke EXCEPT ![h] = now] /\ sent' = sent
    BY <1>6 DEF Client!Notice
  <2> QED
    BY <1>2, <2>2, <2>3
<1> QED
  BY <1>1, <1>3, <1>4, <1>5, <1>6

-----------------------------------------------------------------------------
(* The runs of the service *)

\* Where the client's process can be in each state of the service: the run that
\* reports never comes to the notice, the run after it never to a report.
ServiceOrder ==
  \A h \in Name :
    CASE unit[h] = "active" -> pc[h] \in {"begin", "measure", "send", "sleep"}
      [] unit[h] = "stopping" -> pc[h] \in {"begin", "notice", "sendNotice"}
      [] unit[h] \in {"inactive", "dead"} -> pc[h] = "off"

LEMMA ServiceStep ==
  ASSUME Client!TypeOK, ServiceOrder, NEW h \in Name,
         Client!Environment(h) \/ Client!ClientStep(h)
  PROVE  ServiceOrder'
<1> DEFINE Fits(u, l) == \/ u = "active" /\ l \in {"begin", "measure", "send", "sleep"}
                         \/ u = "stopping" /\ l \in {"begin", "notice", "sendNotice"}
                         \/ u \in {"inactive", "dead"} /\ l = "off"
<1>0. /\ unit \in [Name -> {"inactive", "active", "stopping", "dead"}]
      /\ pc \in [Name -> Client!Label]
  BY DEF Client!TypeOK
<1>1. \A g \in Name : Fits(unit[g], pc[g])
  BY <1>0 DEF ServiceOrder
<1>2. ASSUME NEW u, NEW l, Fits(u, l),
             (unit' = unit /\ u = unit[h]) \/ unit' = [unit EXCEPT ![h] = u],
             (pc' = pc /\ l = pc[h]) \/ pc' = [pc EXCEPT ![h] = l]
      PROVE  ServiceOrder'
  BY <1>0, <1>1, <1>2 DEF ServiceOrder
<1>3. Fits(unit[h], pc[h])
  BY <1>1
<1> HIDE <1>1
<1>4. CASE Client!ProcessEnds(h) /\ pc[h] # "off"
  <2> DEFINE u == IF unit[h] = "active" THEN "stopping" ELSE "dead"
             l == IF unit[h] = "active" THEN "begin" ELSE "off"
  <2>1. Fits(u, l) /\ unit' = [unit EXCEPT ![h] = u] /\ pc' = [pc EXCEPT ![h] = l]
    BY <1>4 DEF Client!ProcessEnds
  <2> QED
    BY <1>2, <2>1
<1> USE DEF Client!Goto
<1>5. CASE Client!PowerOn(h)
  BY <1>2, <1>5 DEF Client!PowerOn
<1>6. CASE Client!PowerOff(h)
  BY <1>2, <1>6 DEF Client!PowerOff
<1>7. CASE Client!Stop(h)
  BY <1>2, <1>3, <1>4, <1>7 DEF Client!Stop
<1>8. CASE Client!Begin(h)
  BY <1>2, <1>3, <1>8 DEF Client!Begin, Client!Options, Client!Service, Client!StopPost
<1>9. CASE Client!Measure(h) \/ Client!Notice(h) \/ Client!SendReport(h)
  BY <1>2, <1>3, <1>9 DEF Client!Measure, Client!Notice, Client!SendReport
<1>10. CASE Client!NoHostName(h) \/ Client!SendNotice(h) \/ Client!SendFails(h)
  BY <1>4, <1>10 DEF Client!NoHostName, Client!SendNotice, Client!SendFails
<1>11. CASE Client!LoopTest(h)
  BY <1>2, <1>3, <1>4, <1>11
     DEF Client!LoopTest, Client!Options, Client!Service, Client!StopPost
<1> QED
  BY <1>5, <1>6, <1>7, <1>8, <1>9, <1>10, <1>11 DEF Client!Environment, Client!ClientStep

\* So a datagram that is filled by another run than the service's is a notice.
LEMMA NoticeStep ==
  ASSUME Client!TypeOK, ServiceOrder, NEW h \in Name,
         Client!Environment(h) \/ Client!ClientStep(h)
  PROVE  \A g \in Name :
           dtg'[g] # dtg[g] /\ dtg'[g] # Client!Empty /\ unit[g] # "active" => dtg'[g].down
<1>0. dtg \in [Name -> Client!Reports] /\ unit[h] \in {"inactive", "active", "stopping", "dead"}
  BY DEF Client!TypeOK
<1>1. CASE dtg' = dtg \/ dtg' = [dtg EXCEPT ![h] = Client!Empty]
  BY <1>0, <1>1
<1>2. CASE Client!Measure(h)
  <2>1. unit[h] = "active"
    BY <1>0, <1>2 DEF Client!Measure, ServiceOrder
  <2>2. \A g \in Name \ {h} : dtg'[g] = dtg[g]
    BY <1>0, <1>2 DEF Client!Measure
  <2> QED
    BY <2>1, <2>2
<1>3. CASE Client!Notice(h)
  <2>1. PICK ts \in now .. now + ClockAhead :
          dtg' = [dtg EXCEPT ![h] = [ts |-> ts, down |-> TRUE, who |-> Nobody]]
    BY <1>3 DEF Client!Notice
  <2> QED
    BY <1>0, <2>1
<1>4. \/ dtg' = dtg \/ dtg' = [dtg EXCEPT ![h] = Client!Empty]
      \/ Client!Measure(h) \/ Client!Notice(h)
  BY DEF Client!Environment, Client!ClientStep, Client!PowerOn, Client!PowerOff, Client!Stop,
         Client!Begin, Client!NoHostName, Client!SendReport, Client!SendNotice,
         Client!SendFails, Client!LoopTest, Client!ProcessEnds
<1> QED
  BY <1>1, <1>2, <1>3, <1>4

-----------------------------------------------------------------------------
(* The table *)

\* An entry holds a datagram no younger than the last word of its computer.
TableAges == \A n \in Known : nodes[n].basic.ts <= spoke[n] + ClockAhead

LEMMA ClusterParts ==
  ClusterInv <=> TypeOK /\ Client!TypeOK /\ restarts \in 0 .. MaxRestarts /\ HostAges /\ TableAges
BY DEF ClusterInv, ClusterTypeOK, NoYounger, HostAges, TableAges

LEMMA ClusterInit == CInit => ClusterInv
<1> SUFFICES ASSUME CInit PROVE ClusterInv
  OBVIOUS
<1> USE DEF CInit, Client!Init
<1>1. TypeOK /\ now \in Nat
  BY TypeInit, TableAssumption DEF Init
<1>2. Client!TypeOK
  BY EmptyType DEF Client!TypeOK, Client!Label
<1>3. HostAges
  BY <1>1, TableAssumption DEF HostAges, Client!Empty
<1>4. TableAges
  BY TableAssumption DEF TableAges, Init, Known, NewNode, Blank
<1> QED
  BY <1>1, <1>2, <1>3, <1>4, ClusterAssumption, ClusterParts

\* What happens outside the computers leaves them and what they said alone.
LEMMA HostsUnchanged ==
  ASSUME ClusterInv, UNCHANGED <<on, unit, pc, terminated, dtg, spoke>>, sent' \subseteq sent,
         now' = now \/ now' = now + 1
  PROVE  Client!TypeOK' /\ HostAges'
<1>1. now \in Nat /\ \A h \in Name : spoke[h] \in Nat
  BY ClusterParts, TableAssumption DEF TypeOK, Client!TypeOK
<1>2. Client!TypeOK'
  BY ClusterParts DEF Client!TypeOK
<1>3. HostAges'
  BY <1>1, ClusterParts DEF HostAges
<1> QED
  BY <1>2, <1>3

\* A step of the table's own that keeps what was heard, or forgets it.
LEMMA TableKeeps ==
  ASSUME ClusterInv, spoke' = spoke, Known' = Known,
         \A n \in Known : nodes'[n].basic \in {Blank, nodes[n].basic}
  PROVE  TableAges'
<1>1. Known \subseteq Name /\ (\A h \in Name : spoke[h] \in Nat) /\ ClockAhead \in Nat
  BY ClusterParts, TableAssumption DEF TypeOK, Client!TypeOK
<1> QED
  BY <1>1, ClusterParts DEF TableAges, Blank

LEMMA ClusterStep == ClusterInv /\ [CNext]_cvars => ClusterInv'
<1> SUFFICES ASSUME ClusterInv, [CNext]_cvars PROVE ClusterInv'
  OBVIOUS
<1>0. /\ TypeOK /\ Client!TypeOK /\ restarts \in 0 .. MaxRestarts /\ HostAges /\ TableAges
      /\ now \in Nat /\ ClockAhead \in Nat /\ Known \subseteq Name
  BY ClusterParts, TableAssumption DEF TypeOK
<1>p. ASSUME TypeOK', Client!TypeOK', restarts' \in 0 .. MaxRestarts, HostAges', TableAges'
      PROVE  ClusterInv'
  BY <1>p DEF ClusterInv, ClusterTypeOK, NoYounger, HostAges, TableAges
<1>1. CASE UNCHANGED cvars
  <2>1. UNCHANGED vars /\ Known' = Known
    BY <1>1 DEF cvars, vars, Known
  <2>2. TypeOK'
    BY <1>0, <2>1, TypeStep
  <2>3. TableAges'
    BY <1>1, <2>1, TableKeeps DEF cvars
  <2> QED
    BY <1>0, <1>1, <2>2, <2>3, HostsUnchanged, <1>p DEF cvars
<1>2. ASSUME NEW h \in Name, HostStep(h) \/ ClientStep(h)
      PROVE  ClusterInv'
  <2>1. Client!Environment(h) \/ Client!ClientStep(h)
    BY <1>2 DEF HostStep, ClientStep
  <2>2. UNCHANGED server /\ now' = now
    BY <1>2 DEF HostStep, ClientStep, Client!Environment, Client!ClientStep,
         Client!PowerOn, Client!PowerOff, Client!Stop, Client!Begin, Client!Measure,
         Client!Notice, Client!NoHostName, Client!SendReport, Client!SendNotice,
         Client!SendFails, Client!LoopTest
  <2>3. Client!TypeOK' /\ HostAges' /\ \A g \in Name : spoke[g] <= spoke'[g]
    BY <1>0, <2>1, <2>2, HostTypes, HostAgesStep
  <2>4. TypeOK'
    BY <1>0, <2>2, TypeStep DEF server, vars
  <2>5. TableAges'
    <3>1. \A n \in Known : nodes[n].basic.ts \in Nat /\ spoke[n] \in Nat /\ spoke'[n] \in Nat
      BY <1>0, <2>3 DEF TypeOK, Node, Datagram, Client!TypeOK
    <3> QED
      BY <1>0, <2>2, <2>3, <3>1 DEF TableAges, server, Known
  <2> QED
    BY <1>0, <2>2, <2>3, <2>4, <2>5, <1>p DEF server
<1>3. ASSUME NEW m \in sent, Deliver(m)
      PROVE  ClusterInv'
  <2>1. /\ m.node \in Name /\ m.dtg \in Datagram
        /\ m.dtg.ts <= spoke[m.node] + ClockAhead
    BY <1>0, TableAssumption DEF Client!TypeOK, Client!Reports, Datagram, HostAges
  <2>2. TypeOK'
    BY <1>0, <1>3, <2>1, RegisterType DEF Deliver
  <2>3. now' = now /\ sent' \subseteq sent /\ restarts' = restarts /\ spoke' = spoke
    BY <1>3 DEF Deliver, RegisterNode
  <2>4. TableAges'
    <3>1. ASSUME NEW n \in Known'
          PROVE  nodes'[n].basic.ts <= spoke[n] + ClockAhead
      <4>1. CASE Refresh(m.node, m.dtg)
        BY <1>0, <2>1, <4>1 DEF Refresh, Hear, Known, TableAges, TypeOK, Node
      <4>2. CASE Register(m.node, m.dtg)
        BY <1>0, <2>1, <4>2 DEF Register, Hear, Known, TableAges, NewNode
      <4>3. CASE Reject(m.node)
        BY <1>0, <4>3 DEF Reject, Known, TableAges
      <4> QED
        BY <1>3, <4>1, <4>2, <4>3 DEF Deliver, RegisterNode
    <3> QED
      BY <2>3, <3>1 DEF TableAges
  <2> QED
    BY <1>0, <1>3, <2>2, <2>3, <2>4, HostsUnchanged, <1>p DEF Deliver
<1>4. ASSUME NEW m \in sent, Lose(m)
      PROVE  ClusterInv'
  <2>1. UNCHANGED vars /\ Known' = Known /\ UNCHANGED <<spoke, restarts>> /\ sent' \subseteq sent
    BY <1>4 DEF Lose, server, vars, Known
  <2>2. TypeOK'
    BY <1>0, <2>1, TypeStep
  <2>3. TableAges'
    BY <2>1, TableKeeps DEF vars
  <2> QED
    BY <1>0, <1>4, <2>1, <2>2, <2>3, HostsUnchanged, <1>p DEF Lose, vars
<1>5. ASSUME NEW S \in SUBSET Name, NEW report \in [S -> PowerStat], Poll(report)
      PROVE  ClusterInv'
  <2>1. UpdateNodePowerStatus(report) /\ UNCHANGED <<hosts, restarts>>
    BY <1>5 DEF Poll
  <2>2. TypeOK'
    BY <1>0, <2>1, TypeStep DEF Next
  <2>3. \A n \in Known : nodes'[n].basic = nodes[n].basic
    BY <1>0, <2>1 DEF UpdateNodePowerStatus, Known, TypeOK, Node
  <2>4. Known' = Known /\ now' = now
    BY <2>1 DEF UpdateNodePowerStatus, Known
  <2>5. TableAges'
    BY <2>1, <2>3, <2>4, TableKeeps DEF hosts
  <2> QED
    BY <1>0, <2>1, <2>2, <2>4, <2>5, HostsUnchanged, <1>p DEF hosts
<1>6. ASSUME NEW u \in User, NEW t \in Epoch .. now, List(u, t)
      PROVE  ClusterInv'
  <2> DEFINE env == [live |-> FALSE]
             sockets == [n \in Known |-> env]
  <2>1. RemoteAccessList(u, t, sockets) /\ UNCHANGED <<hosts, restarts>>
    BY <1>6 DEF List
  <2>2. sockets \in [Known -> [live : BOOLEAN]]
    OBVIOUS
  <2>3. TypeOK'
    BY <1>0, <2>1, <2>2, TypeStep DEF Next
  <2>4. \A n \in Known : nodes'[n].basic \in {Blank, nodes[n].basic}
    <3>1. \A n \in Known : nodes[n] \in Node /\ nodes'[n] = Listed(nodes[n], t, u, env)
      BY <1>0, <2>1 DEF RemoteAccessList, TypeOK
    <3> QED
      BY <3>1, ListedKeeps
  <2>5. Known' = Known /\ now' = now
    BY <2>1 DEF RemoteAccessList, Known
  <2>6. TableAges'
    BY <2>1, <2>4, <2>5, TableKeeps DEF hosts
  <2> QED
    BY <1>0, <2>1, <2>3, <2>5, <2>6, HostsUnchanged, <1>p DEF hosts
<1>7. CASE Restart
  <2>1. Known' = Configured /\ \A n \in Configured : nodes'[n] = NewNode
    BY <1>7 DEF Restart, Known
  <2>2. TypeOK'
    BY <1>0, <1>7, <2>1, NewNodeType, TableAssumption DEF Restart, TypeOK, Known
  <2>3. TableAges'
    BY <1>0, <1>7, <2>1, TableAssumption
       DEF Restart, hosts, TableAges, NewNode, Blank, Client!TypeOK
  <2> QED
    BY <1>0, <1>7, <2>2, <2>3, HostsUnchanged, <1>p, ClusterAssumption
       DEF Restart, hosts
<1>8. CASE CTick
  <2>1. Tick /\ UNCHANGED <<hosts, restarts>> /\ now' = now + 1
    BY <1>8 DEF CTick, Tick
  <2>2. TypeOK'
    BY <1>0, <2>1, TypeStep DEF Next
  <2>3. Known' = Known /\ nodes' = nodes
    BY <2>1 DEF Tick, Known
  <2>4. TableAges'
    BY <2>1, <2>3, TableKeeps DEF hosts
  <2> QED
    BY <1>0, <2>1, <2>2, <2>4, HostsUnchanged, <1>p DEF hosts
<1> QED
  BY <1>1, <1>2, <1>3, <1>4, <1>5, <1>6, <1>7, <1>8 DEF CNext

\* The types of the whole system, and that nothing in it, in a client, on the
\* network or in the table, is younger than the last word of its computer.
THEOREM Cluster == CSpec => []ClusterInv
<1> QED
  BY ClusterInit, ClusterStep, PTL DEF CSpec

\* Whoever is shown a node as usable is shown one whose client spoke within the
\* freshness limit and the error of its clock: for any network, any number of
\* restarts and of computers.
THEOREM Running == CSpec => []ListedWasRunning
<1>1. ClusterInv => ListedWasRunning
  <2> SUFFICES ASSUME ClusterInv, NEW h \in Name, NEW u \in User, NEW env \in Env,
                      ShownUsable(h, u, env)
               PROVE  now - spoke[h] <= FreshSkew + ClockAhead
    BY DEF ListedWasRunning
  <2> DEFINE nd == nodes[h]
  <2>1. /\ nd \in Node /\ nd.basic.ts \in Nat /\ now \in Nat /\ spoke[h] \in Nat
        /\ nd.basic.ts <= spoke[h] + ClockAhead
    BY ClusterParts, TableAssumption
       DEF ShownUsable, TypeOK, Node, Datagram, TableAges, Client!TypeOK
  <2>2. Answering(nd, now)
    BY UsableIsAnswering DEF ShownUsable
  <2>3. nd.powerStat = "up"
    BY <2>1, <2>2 DEF Answering, InMaintenance, PoweringOff, Node, PowerStat
  <2>4. now - nd.basic.ts <= FreshSkew
    BY <2>1, <2>2, <2>3, SkewAssumption DEF Answering, Age
  <2> QED
    BY <2>1, <2>4, SkewAssumption, TableAssumption
<1> QED
  BY <1>1, Cluster, PTL

-----------------------------------------------------------------------------
(* The table of the whole system is that of NodeTable *)

\* A datagram is filled before it is sent: what is on its way was measured after
\* the server's first start.
Filled ==
  /\ \A h \in Name : pc[h] \in {"send", "sendNotice"} => dtg[h].ts >= Epoch
  /\ \A m \in sent : m.dtg.ts >= Epoch

LEMMA FilledStep == ClusterInv /\ Filled /\ [CNext]_cvars => Filled'
<1> SUFFICES ASSUME ClusterInv, Filled, [CNext]_cvars PROVE Filled'
  OBVIOUS
<1>0. /\ Client!TypeOK /\ now \in Nat /\ Epoch <= now /\ Epoch \in Nat /\ ClockAhead \in Nat
      /\ pc \in [Name -> Client!Label] /\ dtg \in [Name -> Client!Reports]
  BY ClusterParts, TableAssumption DEF TypeOK, Client!TypeOK
<1>1. CASE UNCHANGED <<pc, dtg>> /\ sent' \subseteq sent
  BY <1>1 DEF Filled
<1>2. CASE UNCHANGED cvars \/ Restart \/ CTick
  BY <1>1, <1>2 DEF cvars, Restart, CTick, hosts
<1>3. CASE \/ \E m \in sent : Deliver(m) \/ Lose(m)
           \/ \E S \in SUBSET Name : \E report \in [S -> PowerStat] : Poll(report)
           \/ \E u \in User, t \in Epoch .. now : List(u, t)
  BY <1>1, <1>3 DEF Deliver, Lose, Poll, List, hosts
<1>4. ASSUME NEW h \in Name, HostStep(h) \/ ClientStep(h)
      PROVE  Filled'
  <2> USE DEF Client!Goto
  <2>1. CASE /\ sent' = sent
             /\ \/ pc' = pc /\ dtg' = dtg
                \/ \E label \in Client!Label \ {"send", "sendNotice"} :
                     /\ pc' = [pc EXCEPT ![h] = label]
                     /\ dtg' = dtg \/ dtg' = [dtg EXCEPT ![h] = Client!Empty]
    BY <1>0, <2>1 DEF Filled
  <2>2. CASE Client!Environment(h)
    BY <2>1, <2>2 DEF Client!Environment, Client!PowerOn, Client!PowerOff, Client!Stop,
         Client!ProcessEnds, Client!Label
  <2>3. CASE Client!Begin(h) \/ Client!NoHostName(h) \/ Client!SendFails(h) \/ Client!LoopTest(h)
    BY <2>1, <2>3 DEF Client!Begin, Client!NoHostName, Client!SendFails, Client!LoopTest,
         Client!ProcessEnds, Client!Label
  <2>4. CASE Client!Measure(h) \/ Client!Notice(h)
    <3>1. PICK d, label : /\ d.ts \in now .. now + ClockAhead
                          /\ dtg' = [dtg EXCEPT ![h] = d] /\ pc' = [pc EXCEPT ![h] = label]
      <4>1. CASE Client!Measure(h)
        <5>1. PICK ts \in now .. now + ClockAhead, who \in Activity :
                dtg' = [dtg EXCEPT ![h] = [ts |-> ts, down |-> FALSE, who |-> who]]
          BY <4>1 DEF Client!Measure
        <5> WITNESS [ts |-> ts, down |-> FALSE, who |-> who], "send"
        <5> QED
          BY <4>1, <5>1 DEF Client!Measure
      <4>2. CASE Client!Notice(h)
        <5>1. PICK ts \in now .. now + ClockAhead :
                dtg' = [dtg EXCEPT ![h] = [ts |-> ts, down |-> TRUE, who |-> Nobody]]
          BY <4>2 DEF Client!Notice
        <5> WITNESS [ts |-> ts, down |-> TRUE, who |-> Nobody], "sendNotice"
        <5> QED
          BY <4>2, <5>1 DEF Client!Notice
      <4> QED
        BY <2>4, <4>1, <4>2
    <3>2. sent' = sent
      BY <2>4 DEF Client!Measure, Client!Notice
    <3>3. d.ts \in Int /\ d.ts >= Epoch
      BY <1>0, <3>1
    <3> QED
      BY <1>0, <3>1, <3>2, <3>3 DEF Filled
  <2>5. CASE Client!SendReport(h) \/ Client!SendNotice(h)
    <3>1. PICK n \in 1 .. MaxCopies :
            sent' \in {sent, sent \cup {[node |-> h, dtg |-> dtg[h], copy |-> i] : i \in 1 .. n}}
      BY <2>5 DEF Client!SendReport, Client!SendNotice, Client!Transmit
    <3>2. dtg[h].ts >= Epoch
      BY <2>5 DEF Client!SendReport, Client!SendNotice, Filled
    <3>3. \A m \in sent' : m.dtg.ts >= Epoch
      BY <3>1, <3>2 DEF Filled
    <3>4. \E label \in Client!Label \ {"send", "sendNotice"} :
            /\ pc' = [pc EXCEPT ![h] = label]
            /\ dtg' = dtg \/ dtg' = [dtg EXCEPT ![h] = Client!Empty]
      BY <2>5 DEF Client!SendReport, Client!SendNotice, Client!ProcessEnds, Client!Label
    <3> QED
      BY <1>0, <3>3, <3>4 DEF Filled
  <2> QED
    BY <1>4, <2>2, <2>3, <2>4, <2>5 DEF HostStep, ClientStep, Client!ClientStep
<1> QED
  BY <1>2, <1>3, <1>4 DEF CNext

LEMMA FilledHolds == CSpec => [](ClusterInv /\ Filled)
<1>1. CInit => Filled
  BY DEF CInit, Client!Init, Filled
<1> QED
  BY <1>1, ClusterInit, ClusterStep, FilledStep, PTL DEF CSpec

\* What is on its way is one of the messages NodeTable takes.
LEMMA SentIsMessage ==
  ASSUME ClusterInv, Filled, NEW m \in sent
  PROVE  m.node \in Name /\ m.dtg \in Message
<1>1. /\ m.node \in Name /\ m.dtg \in Client!Reports /\ m.dtg.ts \in Nat
      /\ spoke[m.node] \in Nat /\ now \in Nat /\ ClockAhead \in Nat /\ Epoch \in Nat
  BY ClusterParts, TableAssumption DEF TypeOK, Client!TypeOK, Client!Reports
<1>2. spoke[m.node] <= now /\ m.dtg.ts <= spoke[m.node] + ClockAhead /\ m.dtg.ts >= Epoch
  BY <1>1, ClusterParts DEF HostAges, Filled
<1>3. m.dtg.ts \in Epoch .. now + ClockAhead
  BY <1>1, <1>2
<1> QED
  BY <1>1, <1>3 DEF Message, Client!Reports

\* Whatever the computers, the network and the batch system do is a step of the
\* table or leaves it alone, until the server is started again.
LEMMA ServerStep ==
  ASSUME ClusterInv, Filled, [CNext]_cvars
  PROVE  [Next]_vars \/ Restart
<1>1. CASE UNCHANGED cvars
  BY <1>1 DEF cvars, vars
<1>2. ASSUME NEW h \in Name, HostStep(h) \/ ClientStep(h)
      PROVE  UNCHANGED vars
  BY <1>2 DEF HostStep, ClientStep, Client!Environment, Client!ClientStep,
     Client!PowerOn, Client!PowerOff, Client!Stop, Client!Begin, Client!Measure,
     Client!Notice, Client!NoHostName, Client!SendReport, Client!SendNotice,
     Client!SendFails, Client!LoopTest, server, vars
<1>3. ASSUME NEW m \in sent, Deliver(m)
      PROVE  Next
  BY <1>3, SentIsMessage DEF Deliver, Next
<1>4. ASSUME NEW m \in sent, Lose(m)
      PROVE  UNCHANGED vars
  BY <1>4 DEF Lose, server, vars
<1>5. CASE \E S \in SUBSET Name : \E report \in [S -> PowerStat] : Poll(report)
  BY <1>5 DEF Poll, Next
<1>6. ASSUME NEW u \in User, NEW t \in Epoch .. now, List(u, t)
      PROVE  Next
  <2>1. [n \in Known |-> [live |-> FALSE]] \in [Known -> [live : BOOLEAN]]
    OBVIOUS
  <2> QED
    BY <1>6, <2>1 DEF List, Next
<1>7. CASE CTick
  BY <1>7 DEF CTick, Next
<1> QED
  BY <1>1, <1>2, <1>3, <1>4, <1>5, <1>6, <1>7 DEF CNext

\* Between two starts of the server the table goes through what NodeTable says.
THEOREM ServerRuns == CSpec => [][[Next]_vars \/ Restart]_cvars
<1>1. ASSUME ClusterInv, Filled, [CNext]_cvars
      PROVE  [[Next]_vars \/ Restart]_cvars
  BY <1>1, ServerStep
<1> QED
  BY <1>1, FilledHolds, PTL DEF CSpec

\* So all that is proved of the table's states holds through every restart: it
\* stays within maxnodes, the pages agree, and a listing disturbs the next in
\* two cases only.
THEOREM TableThroughRestarts == CSpec => [](TableBounded /\ PagesAgree /\ ListingDisturbs)
<1>1. CInit => TableBounded
  BY DEF CInit, Init, TableBounded, Known
<1>2. ASSUME ClusterInv, Filled, TableBounded, [CNext]_cvars
      PROVE  TableBounded'
  <2>1. TypeOK
    BY <1>2, ClusterParts
  <2>2. CASE Restart
    BY <2>2 DEF Restart, TableBounded, Known
  <2> QED
    BY <1>2, <2>1, <2>2, ServerStep, BoundStep
<1>3. ClusterInv => PagesAgree /\ ListingDisturbs
  BY ClusterParts, AgreementState, DisturbanceState
<1> QED
  BY <1>1, <1>2, <1>3, FilledHolds, PTL DEF CSpec

-----------------------------------------------------------------------------
(* The last word of a boot *)

\* NoticeIsLast: whatever ends the service, and whenever, no report follows the
\* notice before the next boot.
THEOREM LastWord == CSpec => NoticeIsLast
<1>1. CInit => ServiceOrder
  BY DEF CInit, Client!Init, ServiceOrder
<1>2. ASSUME [CNext]_cvars
      PROVE  \/ UNCHANGED <<unit, pc, dtg>>
             \/ \E h \in Name : Client!Environment(h) \/ Client!ClientStep(h)
  BY <1>2 DEF CNext, cvars, HostStep, ClientStep, Deliver, Lose, Poll, List, Restart, CTick, hosts
<1>3. ASSUME ClusterInv, ServiceOrder, [CNext]_cvars
      PROVE  ServiceOrder'
  <2>1. CASE UNCHANGED <<unit, pc, dtg>>
    BY <1>3, <2>1 DEF ServiceOrder
  <2> QED
    BY <1>2, <1>3, <2>1, ClusterParts, ServiceStep
<1>4. ASSUME ClusterInv, ServiceOrder, [CNext]_cvars
      PROVE  [\A h \in Name : dtg'[h] # dtg[h] /\ dtg'[h] # Client!Empty /\ unit[h] # "active"
                                => dtg'[h].down]_cvars
  BY <1>2, <1>4, ClusterParts, NoticeStep
<1> QED
  BY <1>1, <1>3, <1>4, Cluster, PTL DEF CSpec, NoticeIsLast
=============================================================================
