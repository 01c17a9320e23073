------------------------ MODULE FCGIStatServerProofs ------------------------
(***************************************************************************)
(* Proofs about the threads: the mutex is always handed back, and whatever *)
(* they do implements the atomic handlers of NodeTable.                    *)
(***************************************************************************)
EXTENDS FCGIStatServer, CompNodeProofs, FiniteSetTheorems

\* The threads and the mark of a free mutex are all different.
LEMMA Distinct ==
  /\ Stat \in Thread /\ Batch \in Thread /\ Worker \subseteq Thread
  /\ Stat \notin Worker /\ Batch \notin Worker /\ Free \notin Thread /\ Stat # Batch
BY ServerAssumption DEF Thread, Stat, Batch, Free

-----------------------------------------------------------------------------
(* The mutex *)

LockInv == DOMAIN pc = Thread /\ LockDiscipline

\* The mutex is taken only by a thread about to enter and given back by the
\* step that leaves.
LEMMA LockStep == LockInv /\ [Next]_vars => LockInv'
<1> SUFFICES ASSUME LockInv, [Next]_vars PROVE LockInv'
  OBVIOUS
<1> USE Distinct DEF LockInv, LockDiscipline, Inside, Goto, At
<1>1. CASE UNCHANGED vars
  BY <1>1 DEF vars
<1>2. ASSUME NEW th \in Thread, Lock(th)
      PROVE  LockInv'
  BY <1>2 DEF Lock, Wants
<1>3. ASSUME NEW n \in Name, NEW d \in Message, ReceiveDatagram(n, d)
      PROVE  LockInv'
  BY <1>3 DEF ReceiveDatagram
<1>4. CASE StatStep
  BY <1>4 DEF StatStep, RefreshNode, BeginInsert, EndInsert, TooManyNodes, Done
<1>5. ASSUME NEW report \in Report, FetchReport(report)
      PROVE  LockInv'
  BY <1>5 DEF FetchReport
<1>6. CASE UpdateNodePowerStatus
  BY <1>6 DEF UpdateNodePowerStatus, Done
<1>7. ASSUME NEW w \in Worker, Request(w)
      PROVE  LockInv'
  BY <1>7 DEF Request, RequestList, RequestPage, RequestCommand
<1>8. ASSUME NEW w \in Worker, WorkerStep(w)
      PROVE  LockInv'
  BY <1>8 DEF WorkerStep, Page, CheckNode, Crash, MarkNode, UnmarkNode, ScriptReturns, List, Done
<1>9. CASE Tick \/ Halted
  BY <1>9 DEF Tick, Halted, vars
<1> QED
  BY <1>1, <1>2, <1>3, <1>4, <1>5, <1>6, <1>7, <1>8, <1>9 DEF Next

\* Whoever is inside a critical section holds the mutex, and nobody leaves it
\* locked.
THEOREM Locking == Spec => []LockDiscipline
<1>1. Init => LockInv
  BY Distinct DEF Init, LockInv, LockDiscipline, Inside
<1>2. LockInv => LockDiscipline
  BY DEF LockInv
<1> QED
  BY <1>1, <1>2, LockStep, PTL DEF Spec

-----------------------------------------------------------------------------
(* Types *)

\* A message is a datagram.
LEMMA MessageType ==
  ASSUME now \in Nat, NEW d \in Message
  PROVE  d \in Datagram
<1>1. Epoch .. now + ClockAhead \subseteq Nat
  BY ServerAssumption
<1> QED
  BY <1>1, ServerAssumption DEF Message, Datagram

\* As time passes jobs keep their types.
LEMMA JobsAge ==
  ASSUME now \in Nat, now' \in Nat, now <= now'
  PROVE  /\ DatagramJob \subseteq DatagramJob'
         /\ ReportJob' = ReportJob
         /\ ListJob \subseteq ListJob'
         /\ CommandJob \subseteq CommandJob'
<1>1. /\ Epoch .. now \subseteq Epoch .. now'
      /\ Epoch .. now + ClockAhead \subseteq Epoch .. now' + ClockAhead
  BY ServerAssumption
<1>2. Message \subseteq Message'
  BY <1>1 DEF Message
<1> QED
  BY <1>1, <1>2 DEF DatagramJob, ReportJob, ListJob, CommandJob

\* The first state has the right type.
LEMMA TypeInit == Init => TypeOK
<1> SUFFICES ASSUME Init PROVE TypeOK
  OBVIOUS
<1>1. now \in Epoch .. MaxTime /\ Configured \subseteq Name
  BY ServerAssumption DEF Init
<1> QED
  BY <1>1, NewNodeType, Distinct
     DEF Init, TypeOK, Known, StatLabel, BatchLabel, WorkerLabel, Commanding, Listing

\* The part of TypeOK about the threads, for a step that moves one thread.
LEMMA OthersStay ==
  ASSUME TypeOK, NEW th \in Thread, NEW label, NEW j, Known \subseteq Known', now' = now,
         pc' = [pc EXCEPT ![th] = label], job' \in {job, [job EXCEPT ![th] = j]}
  PROVE  /\ DOMAIN pc' = Thread /\ DOMAIN job' = Thread
         /\ pc'[th] = label
         /\ th # Stat => /\ pc'[Stat] \in StatLabel
                         /\ pc'[Stat] # "idle" => job'[Stat] \in DatagramJob'
         /\ th # Batch => /\ pc'[Batch] \in BatchLabel
                          /\ pc'[Batch] # "idle" => job'[Batch] \in ReportJob'
         /\ \A w \in Worker \ {th} :
              /\ pc'[w] \in WorkerLabel
              /\ pc'[w] \in Commanding \cup {"check"} => job'[w] \in CommandJob'
              /\ pc'[w] \in Commanding => job'[w].node \in Known'
              /\ pc'[w] \in Listing => job'[w] \in ListJob' \cup CommandJob'
<1>1. now \in Nat
  BY ServerAssumption DEF TypeOK
<1>2. /\ DatagramJob \subseteq DatagramJob' /\ ReportJob' = ReportJob
      /\ ListJob \subseteq ListJob' /\ CommandJob \subseteq CommandJob'
  BY <1>1, JobsAge
<1> QED
  BY <1>2, Distinct DEF TypeOK

\* Every step keeps the types.
LEMMA TypeStep == TypeOK /\ [Next]_vars => TypeOK'
<1> SUFFICES ASSUME TypeOK, [Next]_vars PROVE TypeOK'
  OBVIOUS
<1>0. now \in Nat /\ now \in Epoch .. now
  BY ServerAssumption DEF TypeOK
<1> USE Distinct
<1>1. CASE UNCHANGED vars
  BY <1>1 DEF vars, TypeOK, Known, DatagramJob, ReportJob, ListJob, CommandJob, Message
<1>2. ASSUME NEW th \in Thread, Lock(th)
      PROVE  TypeOK'
  <2> DEFINE label == Wants[pc[th]]
             j == [job[th] EXCEPT !.at = now]
  <2>1. /\ Known' = Known /\ now' = now /\ UNCHANGED <<nodes, up>> /\ mutex' = th
        /\ pc' = [pc EXCEPT ![th] = label]
        /\ job' = IF pc[th] = "wantList" THEN [job EXCEPT ![th] = j] ELSE job
    BY <1>2 DEF Lock, Goto, Known
  <2>2. pc[th] \in DOMAIN Wants
    BY <1>2 DEF Lock
  <2>3. CASE th = Stat
    <3>1. pc[th] = "wantWrite" /\ label = "write"
      BY <2>2, <2>3 DEF TypeOK, StatLabel, Wants
    <3> QED
      BY <2>1, <2>3, <3>1, OthersStay DEF TypeOK, StatLabel, DatagramJob, Message
  <2>4. CASE th = Batch
    <3>1. pc[th] = "wantReport" /\ label = "report"
      BY <2>2, <2>4 DEF TypeOK, BatchLabel, Wants
    <3> QED
      BY <2>1, <2>4, <3>1, OthersStay DEF TypeOK, BatchLabel, ReportJob
  <2>5. CASE th \in Worker /\ pc[th] = "wantList"
    <3>1. label = "list"
      BY <2>5 DEF Wants
    <3>2. j \in ListJob' \cup CommandJob'
      BY <1>0, <2>1, <2>5 DEF TypeOK, Listing, ListJob, CommandJob
    <3> QED
      BY <2>1, <2>5, <3>1, <3>2, OthersStay DEF TypeOK, WorkerLabel, Commanding, Listing
  <2>6. CASE th \in Worker /\ pc[th] # "wantList"
    <3>1. \/ pc[th] = "wantMark" /\ label = "mark"
          \/ pc[th] = "wantPage" /\ label = "page"
      BY <2>2, <2>6 DEF TypeOK, WorkerLabel, Commanding, Listing, Wants
    <3> QED
      BY <2>1, <2>6, <3>1, OthersStay
         DEF TypeOK, WorkerLabel, Commanding, Listing, CommandJob
  <2> QED
    BY <2>3, <2>4, <2>5, <2>6 DEF Thread
<1>3. ASSUME NEW n \in Name, NEW d \in Message, ReceiveDatagram(n, d)
      PROVE  TypeOK'
  <2> DEFINE j == [kind |-> "datagram", node |-> n, dtg |-> d]
  <2>1. /\ Known' = Known /\ UNCHANGED <<nodes, now, mutex, up>>
        /\ pc' = [pc EXCEPT ![Stat] = "wantWrite"]
        /\ job' = [job EXCEPT ![Stat] = j]
    BY <1>3 DEF ReceiveDatagram, Goto, Known
  <2>2. j \in DatagramJob'
    BY <2>1 DEF DatagramJob, Message
  <2> QED
    BY <2>1, <2>2, OthersStay DEF TypeOK, StatLabel
<1>4. CASE StatStep
  <2>1. CASE BeginInsert
    <3>1. /\ Known' = Known /\ UNCHANGED <<nodes, now, mutex, job, up>>
          /\ pc' = [pc EXCEPT ![Stat] = "insert"] /\ pc[Stat] = "write"
      BY <2>1 DEF BeginInsert, Goto, Known, At
    <3> QED
      BY <3>1, OthersStay DEF TypeOK, StatLabel, DatagramJob, Message
  <2>2. CASE RefreshNode \/ EndInsert \/ TooManyNodes
    <3>1. job[Stat] \in DatagramJob
      BY <2>2 DEF TypeOK, RefreshNode, EndInsert, TooManyNodes, At
    <3>2. Hear(NewNode, job[Stat].dtg) \in Node /\ \A nd \in Node : Hear(nd, job[Stat].dtg) \in Node
      BY <1>0, <3>1, NewNodeType, MessageType, EntryTypes DEF DatagramJob
    <3>3. /\ Known \subseteq Known' /\ Known' \subseteq Name /\ nodes' \in [Known' -> Node]
      BY <2>2, <3>1, <3>2
         DEF TypeOK, RefreshNode, EndInsert, TooManyNodes, DatagramJob, Known
    <3>4. /\ UNCHANGED <<now, up>> /\ mutex' = Free
          /\ pc' = [pc EXCEPT ![Stat] = "idle"] /\ job' = [job EXCEPT ![Stat] = NoJob]
      BY <2>2 DEF RefreshNode, EndInsert, TooManyNodes, Done, Goto
    <3> QED
      BY <3>3, <3>4, OthersStay DEF TypeOK, StatLabel
  <2> QED
    BY <1>4, <2>1, <2>2 DEF StatStep
<1>5. ASSUME NEW report \in Report, FetchReport(report)
      PROVE  TypeOK'
  <2> DEFINE j == [kind |-> "report", report |-> report]
  <2>1. /\ Known' = Known /\ UNCHANGED <<nodes, now, mutex, up>>
        /\ pc' = [pc EXCEPT ![Batch] = "wantReport"]
        /\ job' = [job EXCEPT ![Batch] = j]
    BY <1>5 DEF FetchReport, Goto, Known
  <2>2. j \in ReportJob'
    BY DEF ReportJob
  <2> QED
    BY <2>1, <2>2, OthersStay DEF TypeOK, BatchLabel
<1>6. CASE UpdateNodePowerStatus
  <2> DEFINE report == job[Batch].report
  <2>1. job[Batch] \in ReportJob
    BY <1>6 DEF UpdateNodePowerStatus, TypeOK, At
  <2>2. PICK S \in SUBSET Name : report \in [S -> PowerStat]
    BY <2>1, ServerAssumption DEF ReportJob
  <2>3. \A n \in Known : (IF n \in DOMAIN report THEN [nodes[n] EXCEPT !.powerStat = report[n]]
                          ELSE nodes[n]) \in Node
    BY <2>2 DEF TypeOK, Node
  <2>4. Known' = Known /\ nodes' \in [Known -> Node]
    BY <1>6, <2>3 DEF UpdateNodePowerStatus, Known
  <2>5. /\ UNCHANGED <<now, up>> /\ mutex' = Free
        /\ pc' = [pc EXCEPT ![Batch] = "idle"] /\ job' = [job EXCEPT ![Batch] = NoJob]
    BY <1>6 DEF UpdateNodePowerStatus, Done, Goto
  <2> QED
    BY <2>4, <2>5, OthersStay DEF TypeOK, BatchLabel
<1>7. ASSUME NEW w \in Worker, Request(w)
      PROVE  TypeOK'
  <2>1. Known' = Known /\ UNCHANGED <<nodes, now, mutex, up>>
    BY <1>7 DEF Request, RequestList, RequestPage, RequestCommand, Known
  <2>2. ASSUME NEW u \in User, RequestList(w, u)
        PROVE  TypeOK'
    <3> DEFINE j == [kind |-> "list", user |-> u, at |-> now]
    <3>1. pc' = [pc EXCEPT ![w] = "wantList"] /\ job' = [job EXCEPT ![w] = j]
      BY <2>2 DEF RequestList, Goto
    <3>2. j \in ListJob'
      BY <1>0, <2>1 DEF ListJob
    <3> QED
      BY <2>1, <3>1, <3>2, OthersStay DEF TypeOK, WorkerLabel, Commanding, Listing
  <2>3. CASE RequestPage(w)
    <3>1. pc' = [pc EXCEPT ![w] = "wantPage"] /\ job' = job
      BY <2>3 DEF RequestPage, Goto
    <3> QED
      BY <2>1, <3>1, OthersStay DEF TypeOK, WorkerLabel, Commanding, Listing
  <2>4. ASSUME NEW u \in User, NEW kind \in {"wake", "vnc"}, NEW n \in Asked,
               RequestCommand(w, u, kind, n)
        PROVE  TypeOK'
    <3> DEFINE j == [kind |-> kind, user |-> u, node |-> n, at |-> now]
    <3>1. pc' = [pc EXCEPT ![w] = "check"] /\ job' = [job EXCEPT ![w] = j]
      BY <2>4 DEF RequestCommand, Goto
    <3>2. j \in CommandJob'
      BY <1>0, <2>1 DEF CommandJob
    <3> QED
      BY <2>1, <3>1, <3>2, OthersStay DEF TypeOK, WorkerLabel, Commanding, Listing
  <2> QED
    BY <1>7, <2>2, <2>3, <2>4 DEF Request
<1>8. ASSUME NEW w \in Worker, WorkerStep(w)
      PROVE  TypeOK'
  <2> USE DEF WorkerLabel, Commanding, Listing
  <2>1. CASE Page(w)
    <3>1. /\ Known' = Known /\ UNCHANGED <<nodes, now, up>> /\ mutex' = Free
          /\ pc' = [pc EXCEPT ![w] = "idle"] /\ job' = [job EXCEPT ![w] = NoJob]
      BY <2>1 DEF Page, Done, Goto, Known
    <3> QED
      BY <3>1, OthersStay DEF TypeOK
  <2>2. CASE CheckNode(w)
    <3> DEFINE j == [job[w] EXCEPT !.at = now]
    <3>1. /\ Known' = Known /\ UNCHANGED <<nodes, now, mutex, up>>
          /\ pc' = [pc EXCEPT ![w] = "wantMark"] /\ job' = [job EXCEPT ![w] = j]
          /\ pc[w] = "check" /\ job[w].node \in Known
      BY <2>2 DEF CheckNode, Goto, Known, At
    <3>2. j \in CommandJob' /\ j.node \in Known
      BY <1>0, <3>1 DEF TypeOK, CommandJob
    <3> QED
      BY <3>1, <3>2, OthersStay DEF TypeOK
  <2>3. CASE Crash(w)
    BY <2>3 DEF Crash, TypeOK, Known, DatagramJob, ReportJob, ListJob, CommandJob, Message
  <2>4. CASE MarkNode(w)
    <3>1. /\ pc[w] = "mark" /\ UNCHANGED <<now, job, up>> /\ mutex' = Free
          /\ pc' = [pc EXCEPT ![w] = "script"]
          /\ nodes' = [nodes EXCEPT ![job[w].node] = Mark(@, job[w].kind, job[w].at)]
      BY <2>4 DEF MarkNode, Goto, At
    <3>2. job[w] \in CommandJob /\ job[w].node \in Known
      BY <3>1 DEF TypeOK
    <3>3. job[w].at \in Nat
      BY <3>2, ServerAssumption DEF CommandJob
    <3>4. Mark(nodes[job[w].node], job[w].kind, job[w].at) \in Node
      BY <3>2, <3>3, EntryTypes DEF TypeOK, Mark
    <3>5. Known' = Known /\ nodes' \in [Known -> Node]
      BY <3>1, <3>2, <3>4 DEF TypeOK, Known
    <3>6. CommandJob' = CommandJob
      BY <3>1 DEF CommandJob
    <3> QED
      BY <3>1, <3>2, <3>5, <3>6, OthersStay DEF TypeOK
  <2>5. CASE UnmarkNode(w)
    <3>1. /\ pc[w] = "unmark" /\ UNCHANGED <<now, mutex, job, up>>
          /\ pc' = [pc EXCEPT ![w] = "wantList"]
          /\ nodes' = [nodes EXCEPT ![job[w].node] = Unmark(@, job[w].kind)]
      BY <2>5 DEF UnmarkNode, Goto, At
    <3>2. job[w] \in CommandJob /\ job[w].node \in Known
      BY <3>1 DEF TypeOK
    <3>3. Unmark(nodes[job[w].node], job[w].kind) \in Node
      BY <3>2, EntryTypes DEF TypeOK
    <3>4. Known' = Known /\ nodes' \in [Known -> Node]
      BY <3>1, <3>2, <3>3 DEF TypeOK, Known
    <3>5. CommandJob' = CommandJob
      BY <3>1 DEF CommandJob
    <3> QED
      BY <3>1, <3>2, <3>4, <3>5, OthersStay DEF TypeOK
  <2>6. ASSUME NEW ok \in BOOLEAN, ScriptReturns(w, ok)
        PROVE  TypeOK'
    <3> DEFINE label == IF ok THEN "wantList" ELSE "unmark"
    <3>1. /\ Known' = Known /\ UNCHANGED <<nodes, now, mutex, job, up>>
          /\ pc' = [pc EXCEPT ![w] = label] /\ pc[w] = "script"
      BY <2>6 DEF ScriptReturns, Goto, Known, At
    <3>2. label \in {"wantList", "unmark"}
      OBVIOUS
    <3>3. CommandJob' = CommandJob
      BY <3>1 DEF CommandJob
    <3> QED
      BY <3>1, <3>2, <3>3, OthersStay DEF TypeOK
  <2>7. ASSUME NEW sockets \in [Known -> [live : BOOLEAN]], List(w, sockets)
        PROVE  TypeOK'
    <3>1. \A n \in Known : Listed(nodes[n], job[w].at, job[w].user, sockets[n]) \in Node
      BY ListedType DEF TypeOK
    <3>2. Known' = Known /\ nodes' \in [Known -> Node]
      BY <2>7, <3>1 DEF List, Known
    <3>3. /\ UNCHANGED <<now, up>> /\ mutex' = Free
          /\ pc' = [pc EXCEPT ![w] = "idle"] /\ job' = [job EXCEPT ![w] = NoJob]
      BY <2>7 DEF List, Done, Goto
    <3> QED
      BY <3>2, <3>3, OthersStay DEF TypeOK
  <2> QED
    BY <1>8, <2>1, <2>2, <2>3, <2>4, <2>5, <2>6, <2>7 DEF WorkerStep
<1>9. CASE Tick
  <2>1. now' = now + 1 /\ now' \in Epoch .. MaxTime /\ now' \in Nat /\ Known' = Known
        /\ UNCHANGED <<nodes, mutex, pc, job, up>>
    BY <1>0, <1>9, ServerAssumption DEF Tick, TypeOK, Known
  <2>2. /\ DatagramJob \subseteq DatagramJob' /\ ReportJob' = ReportJob
        /\ ListJob \subseteq ListJob' /\ CommandJob \subseteq CommandJob'
    BY <1>0, <2>1, JobsAge
  <2> QED
    BY <2>1, <2>2 DEF TypeOK
<1>10. CASE Halted
  BY <1>10, <1>1 DEF Halted
<1> QED
  BY <1>1, <1>2, <1>3, <1>4, <1>5, <1>6, <1>7, <1>8, <1>9, <1>10 DEF Next

\* Each thread works on what its label needs, and a command past its check
\* works on a node that is registered and stays so.
THEOREM Types == Spec => []TypeOK
<1> QED
  BY TypeInit, TypeStep, PTL DEF Spec

-----------------------------------------------------------------------------
(* Refinement of NodeTable *)

Scripting == {"script", "unmark"}

\* A step of a thread that neither starts nor ends a script.
LEMMA SameRunning ==
  ASSUME TypeOK, NEW th \in Thread, NEW label, NEW j,
         pc' = [pc EXCEPT ![th] = label], job' \in {job, [job EXCEPT ![th] = j]},
         th \in Worker => pc[th] \notin Scripting /\ label \notin Scripting
  PROVE  Running' = Running
BY Distinct DEF TypeOK, Running, Scripting

\* The first state is one of NodeTable.
LEMMA TableInit == Init => Table!Init
<1>1. Table!NewNode = NewNode
  BY DEF Table!NewNode, NewNode, Table!Blank, Blank, Table!Nobody, Nobody
<1> QED
  BY <1>1, Distinct DEF Init, Table!Init, Running, Table!NoCommand

\* NodeTable's own copy of the library counts as this module's does.
LEMMA SameSize == ASSUME NEW S PROVE Table!Cardinality(S) = Cardinality(S)
BY DEF Table!Cardinality, Cardinality

LEMMA SameFull == Table!Full <=> Full
BY SameSize DEF Table!Full, Table!Known, Full, Known

\* So the bound of NodeTable is one on this table.
LEMMA SameBound ==
  Table!TableBounded <=> (Cardinality(Configured) <= MaxNodes => Cardinality(Known) <= MaxNodes)
BY SameSize DEF Table!TableBounded, Table!Known, Known

\* Nor does its copy of the entry differ.
LEMMA SameEntry ==
  /\ Table!NewNode = NewNode
  /\ Table!PowerStat = PowerStat
  /\ Table!Env = Env
  /\ Table!Message = Message
  /\ \A nd, d : Table!Hear(nd, d) = Hear(nd, d)
  /\ \A nd, t, u, env : Table!Listed(nd, t, u, env) = Listed(nd, t, u, env)
<1>1. Table!NewNode = NewNode
  BY DEF Table!NewNode, NewNode, Table!Blank, Blank, Table!Nobody, Nobody
<1>2. Table!PowerStat = PowerStat /\ Table!Env = Env
  BY DEF Table!PowerStat, PowerStat, Table!Env, Env
<1>3. Table!Message = Message
  BY DEF Table!Message, Message, Table!Nobody, Nobody
<1>4. \A nd, d : Table!Hear(nd, d) = Hear(nd, d)
  BY DEF Table!Hear, Hear
<1>5. ASSUME NEW nd, NEW t, NEW u, NEW env
      PROVE  Table!Listed(nd, t, u, env) = Listed(nd, t, u, env)
  <2>1. Table!Clear(nd) = Clear(nd)
    BY <1>1 DEF Table!Clear, Clear
  <2>2. /\ Table!InMaintenance(nd) <=> InMaintenance(nd)
        /\ Table!PoweringOn(nd, t) <=> PoweringOn(nd, t)
        /\ Table!PoweringOff(nd, t) <=> PoweringOff(nd, t)
        /\ Table!Silent(nd, t) <=> Silent(nd, t)
        /\ Table!Answering(nd, t) <=> Answering(nd, t)
    BY DEF Table!InMaintenance, InMaintenance, Table!PoweringOn, PoweringOn,
           Table!PoweringOff, PoweringOff, Table!Silent, Silent, Table!Answering, Answering,
           Table!Age, Age
  <2>3. /\ Table!StartingVNC(nd, t) = StartingVNC(nd, t)
        /\ Table!Connected(nd, u, env) = Connected(nd, u, env)
    BY DEF Table!StartingVNC, StartingVNC, Table!Connected, Connected
  <2> QED
    BY <2>1, <2>2, <2>3 DEF Table!Listed, Listed
<1> QED
  BY <1>1, <1>2, <1>3, <1>4, <1>5

\* While the UDP server is inserting a node nobody else can register it or
\* take the last place.
InsertFits == pc[Stat] = "insert" => job[Stat].node \notin Known /\ ~Full

\* InsertFits is kept: only the UDP server changes which names are known.
LEMMA InsertStep == TypeOK /\ InsertFits /\ [Next]_vars => InsertFits'
<1> SUFFICES ASSUME TypeOK, InsertFits, [Next]_vars, pc'[Stat] = "insert"
             PROVE  job'[Stat].node \notin Known' /\ ~Full'
  BY DEF InsertFits
<1>1. CASE BeginInsert
  BY <1>1 DEF BeginInsert, Known, Full
<1>2. CASE pc[Stat] = "insert" /\ job'[Stat] = job[Stat] /\ Known' = Known
  BY <1>2 DEF InsertFits, Full
<1>3. CASE UNCHANGED vars \/ Tick \/ Halted
  BY <1>2, <1>3 DEF vars, Tick, Halted, Known
<1>4. ASSUME NEW th \in Thread, Lock(th)
      PROVE  job'[Stat].node \notin Known' /\ ~Full'
  <2>1. th # Stat
    BY <1>4, Distinct DEF Lock, Goto, TypeOK, StatLabel, Wants
  <2> QED
    BY <1>2, <1>4, <2>1, Distinct DEF Lock, Goto, TypeOK, Known
<1>5. ASSUME NEW n \in Name, NEW d \in Message, ReceiveDatagram(n, d)
      PROVE  FALSE
  BY <1>5, Distinct DEF ReceiveDatagram, Goto, TypeOK
<1>6. CASE RefreshNode \/ EndInsert \/ TooManyNodes
  BY <1>6, Distinct DEF RefreshNode, EndInsert, TooManyNodes, Done, Goto, TypeOK
<1>7. ASSUME NEW report \in Report, FetchReport(report)
      PROVE  job'[Stat].node \notin Known' /\ ~Full'
  BY <1>2, <1>7, Distinct DEF FetchReport, Goto, TypeOK, Known
<1>8. CASE UpdateNodePowerStatus
  BY <1>2, <1>8, Distinct DEF UpdateNodePowerStatus, Done, Goto, TypeOK, Known
<1>9. ASSUME NEW w \in Worker, Request(w) \/ WorkerStep(w)
      PROVE  job'[Stat].node \notin Known' /\ ~Full'
  <2>1. CASE Request(w)
    BY <1>2, <2>1, Distinct
       DEF Request, RequestList, RequestPage, RequestCommand, Goto, TypeOK, Known
  <2>2. CASE WorkerStep(w)
    BY <1>2, <2>2, Distinct
       DEF WorkerStep, Page, CheckNode, Crash, MarkNode, UnmarkNode, ScriptReturns, List,
           Done, Goto, TypeOK, Known
  <2> QED
    BY <1>9, <2>1, <2>2
<1> QED
  BY <1>1, <1>3, <1>4, <1>5, <1>6, <1>7, <1>8, <1>9 DEF Next, StatStep

\* Every step of a thread is a step of NodeTable or leaves the table, the
\* scripts and the clock alone.
LEMMA TableStep == TypeOK /\ InsertFits /\ [Next]_vars => [Table!Next]_(Table!vars)
<1> SUFFICES ASSUME TypeOK, InsertFits, [Next]_vars PROVE [Table!Next]_(Table!vars)
  OBVIOUS
<1> USE Distinct
<1>known. Table!Known = Known
  BY DEF Table!Known, Known
<1>running. DOMAIN Running = Worker
  BY DEF Running
<1>1. CASE UNCHANGED vars
  BY <1>1 DEF vars, Table!vars, Running
<1>2. ASSUME NEW th \in Thread, Lock(th)
      PROVE  UNCHANGED Table!vars
  <2> DEFINE label == Wants[pc[th]]
             j == [job[th] EXCEPT !.at = now]
  <2>1. /\ UNCHANGED <<nodes, now>>
        /\ pc' = [pc EXCEPT ![th] = label]
        /\ job' \in {job, [job EXCEPT ![th] = j]}
        /\ pc[th] \in DOMAIN Wants
    BY <1>2 DEF Lock, Goto
  <2>2. pc[th] \notin Scripting /\ label \notin Scripting
    BY <2>1 DEF Wants, Scripting
  <2>3. Running' = Running
    BY <2>1, <2>2, SameRunning
  <2> QED
    BY <2>1, <2>3 DEF Table!vars
<1>3. ASSUME NEW n \in Name, NEW d \in Message, ReceiveDatagram(n, d)
      PROVE  UNCHANGED Table!vars
  <2>1. Running' = Running
    BY <1>3, SameRunning DEF ReceiveDatagram, Goto
  <2> QED
    BY <1>3, <2>1 DEF ReceiveDatagram, Table!vars
<1>4. CASE StatStep
  <2> DEFINE n == job[Stat].node
             d == job[Stat].dtg
  <2>1. CASE BeginInsert
    <3>1. Running' = Running
      BY <2>1, SameRunning DEF BeginInsert, Goto
    <3> QED
      BY <2>1, <3>1 DEF BeginInsert, Table!vars
  <2>2. CASE RefreshNode \/ EndInsert \/ TooManyNodes
    <3>1. Running' = Running /\ now' = now
      BY <2>2, SameRunning DEF RefreshNode, EndInsert, TooManyNodes, Done, Goto
    <3>2. n \in Name /\ d \in Table!Message
      BY <2>2, SameEntry
         DEF RefreshNode, EndInsert, TooManyNodes, At, TypeOK, DatagramJob
    <3>3. CASE RefreshNode
      <4>1. Table!Refresh(n, d)
        BY <3>3, <1>known, SameEntry DEF RefreshNode, Table!Refresh
      <4> QED
        BY <3>1, <3>2, <4>1 DEF Table!Next, Table!RegisterNode
    <3>4. CASE TooManyNodes
      <4>1. Table!Reject(n)
        BY <3>4, <1>known, SameFull DEF TooManyNodes, Table!Reject
      <4> QED
        BY <3>1, <3>2, <4>1 DEF Table!Next, Table!RegisterNode
    <3>5. CASE EndInsert
      <4>1. n \notin Known /\ ~Full
        BY <3>5 DEF EndInsert, At, InsertFits
      <4>2. Table!Register(n, d)
        BY <3>5, <4>1, <1>known, SameFull, SameEntry DEF EndInsert, Table!Register
      <4> QED
        BY <3>1, <3>2, <4>2 DEF Table!Next, Table!RegisterNode
    <3> QED
      BY <2>2, <3>3, <3>4, <3>5
  <2> QED
    BY <1>4, <2>1, <2>2 DEF StatStep
<1>5. ASSUME NEW report \in Report, FetchReport(report)
      PROVE  UNCHANGED Table!vars
  <2>1. Running' = Running
    BY <1>5, SameRunning DEF FetchReport, Goto
  <2> QED
    BY <1>5, <2>1 DEF FetchReport, Table!vars
<1>6. CASE UpdateNodePowerStatus
  <2> DEFINE report == job[Batch].report
  <2>1. Running' = Running /\ now' = now
    BY <1>6, SameRunning DEF UpdateNodePowerStatus, Done, Goto
  <2>2. report \in Report
    BY <1>6 DEF UpdateNodePowerStatus, At, TypeOK, ReportJob
  <2>3. PICK S \in SUBSET Name : report \in [S -> Table!PowerStat]
    BY <2>2, SameEntry, ServerAssumption
  <2>4. Table!UpdateNodePowerStatus(report)
    BY <1>6, <2>1, <1>known DEF UpdateNodePowerStatus, Table!UpdateNodePowerStatus
  <2> QED
    BY <2>3, <2>4 DEF Table!Next
<1>7. ASSUME NEW w \in Worker, Request(w)
      PROVE  UNCHANGED Table!vars
  <2>1. Running' = Running
    <3>1. pc[w] = "idle"
      BY <1>7 DEF Request, RequestList, RequestPage, RequestCommand, At
    <3>2. PICK label, j : /\ pc' = [pc EXCEPT ![w] = label]
                          /\ job' \in {job, [job EXCEPT ![w] = j]}
                          /\ label \in {"wantList", "wantPage", "check"}
      BY <1>7 DEF Request, RequestList, RequestPage, RequestCommand, Goto
    <3> QED
      BY <3>1, <3>2, SameRunning DEF Scripting
  <2> QED
    BY <1>7, <2>1 DEF Request, RequestList, RequestPage, RequestCommand, Table!vars
<1>8. ASSUME NEW w \in Worker, WorkerStep(w)
      PROVE  [Table!Next]_(Table!vars)
  <2> DEFINE n == job[w].node
  <2>1. CASE Page(w) \/ CheckNode(w) \/ Crash(w)
    <3>1. CASE Crash(w)
      BY <3>1 DEF Crash, Table!vars, Running
    <3>2. CASE Page(w) \/ CheckNode(w)
      <4>1. Running' = Running
        BY <3>2, SameRunning DEF Page, CheckNode, Done, Goto, At, Scripting
      <4> QED
        BY <3>2, <4>1 DEF Page, CheckNode, Done, Table!vars
    <3> QED
      BY <2>1, <3>1, <3>2
  <2>2. CASE MarkNode(w)
    <3>1. job[w] \in CommandJob /\ n \in Known /\ n \in Name
      BY <2>2 DEF MarkNode, At, TypeOK, Commanding
    <3>2. Running[w] = Table!NoCommand
      BY <2>2 DEF MarkNode, At, Running, Table!NoCommand
    <3>3. Running' = [Running EXCEPT ![w] = [kind |-> job[w].kind, node |-> n]]
      BY <2>2 DEF MarkNode, Goto, Running, TypeOK
    <3>4. job[w].kind = "wake" => Table!WakeOnLAN(w, n, job[w].at)
      BY <2>2, <3>1, <3>2, <3>3, <1>known
         DEF MarkNode, Table!WakeOnLAN, Mark, MarkPowerOn, Table!MarkPowerOn
    <3>5. job[w].kind = "vnc" => Table!StartVNC(w, n, job[w].at)
      BY <2>2, <3>1, <3>2, <3>3, <1>known
         DEF MarkNode, Table!StartVNC, Mark, MarkStartVNC, Table!MarkStartVNC
    <3>6. job[w].kind \in {"wake", "vnc"} /\ job[w].at \in Epoch .. now
      BY <3>1 DEF CommandJob
    <3> QED
      BY <3>1, <3>4, <3>5, <3>6 DEF Table!Next
  <2>3. CASE UnmarkNode(w)
    <3>1. Running[w] = [kind |-> job[w].kind, node |-> n]
      BY <2>3 DEF UnmarkNode, At, Running
    <3>2. Running[w] # Table!NoCommand
      <4>1. job[w].kind # "none"
        BY <2>3 DEF UnmarkNode, At, TypeOK, Commanding, CommandJob
      <4> QED
        BY <3>1, <4>1 DEF Table!NoCommand
    <3>3. Running' = [Running EXCEPT ![w] = Table!NoCommand]
      BY <2>3 DEF UnmarkNode, Goto, Running, TypeOK, Table!NoCommand
    <3>4. Table!CommandFails(w)
      BY <2>3, <3>1, <3>2, <3>3 DEF UnmarkNode, Table!CommandFails, Unmark, Table!Unmark
    <3> QED
      BY <3>4 DEF Table!Next
  <2>4. ASSUME NEW ok \in BOOLEAN, ScriptReturns(w, ok)
        PROVE  [Table!Next]_(Table!vars)
    <3>1. CASE ok
      <4>1. Running[w] # Table!NoCommand
        <5>1. job[w].kind # "none" /\ Running[w] = [kind |-> job[w].kind, node |-> n]
          BY <2>4 DEF ScriptReturns, At, TypeOK, Commanding, CommandJob, Running
        <5> QED
          BY <5>1 DEF Table!NoCommand
      <4>2. Running' = [Running EXCEPT ![w] = Table!NoCommand]
        BY <2>4, <3>1 DEF ScriptReturns, Goto, Running, TypeOK, Table!NoCommand
      <4>3. Table!CommandSucceeds(w)
        BY <2>4, <4>1, <4>2 DEF ScriptReturns, Table!CommandSucceeds
      <4> QED
        BY <4>3 DEF Table!Next
    <3>2. CASE ~ok
      <4>1. Running' = Running
        BY <2>4, <3>2 DEF ScriptReturns, At, Goto, Running, TypeOK
      <4> QED
        BY <2>4, <4>1 DEF ScriptReturns, Table!vars
    <3> QED
      BY <3>1, <3>2
  <2>5. ASSUME NEW sockets \in [Known -> [live : BOOLEAN]], List(w, sockets)
        PROVE  Table!Next
    <3>1. job[w].user \in User /\ job[w].at \in Epoch .. now
      BY <2>5 DEF List, At, TypeOK, Listing, ListJob, CommandJob
    <3>2. Running' = Running /\ now' = now
      BY <2>5, SameRunning DEF List, Done, Goto, At, Scripting
    <3>3. sockets \in [Table!Known -> [live : BOOLEAN]]
      BY <1>known, SameEntry
    <3>4. Table!RemoteAccessList(job[w].user, job[w].at, sockets)
      BY <2>5, <3>2, <1>known, SameEntry DEF List, Table!RemoteAccessList
    <3> QED
      BY <3>1, <3>3, <3>4 DEF Table!Next
  <2> QED
    BY <1>8, <2>1, <2>2, <2>3, <2>4, <2>5 DEF WorkerStep
<1>9. CASE Tick
  BY <1>9 DEF Tick, Table!Next, Table!Tick, Running
<1>10. CASE Halted
  BY <1>1, <1>10 DEF Halted
<1> QED
  BY <1>1, <1>2, <1>3, <1>4, <1>5, <1>6, <1>7, <1>8, <1>9, <1>10 DEF Next

\* The threads implement the atomic handlers, so what is proved of NodeTable
\* holds of the table they share.
THEOREM Refinement == Spec => ImplementsTable
<1>1. Init => InsertFits
  BY Distinct DEF Init, InsertFits
<1> QED
  BY <1>1, TypeInit, TypeStep, InsertStep, TableInit, TableStep, PTL
     DEF Spec, ImplementsTable, Table!Spec

-----------------------------------------------------------------------------
(* The server's life *)

\* The configured nodes are never forgotten.
Loaded == Configured \subseteq Known

LifeInv == TypeOK /\ InsertFits /\ Loaded /\ ServerKeepsRunning

\* A lookup goes wrong only for a name outside the configuration or beside an
\* insertion, and what is inserted is such a name.  After that nothing moves.
LEMMA LifeStep == LifeInv /\ [Next]_vars => Loaded' /\ ServerKeepsRunning'
<1> SUFFICES ASSUME LifeInv, [Next]_vars PROVE Loaded' /\ ServerKeepsRunning'
  OBVIOUS
<1> USE DEF LifeInv
<1>1. ASSUME Known' = Known \/ EndInsert, up, up' = up
      PROVE  Loaded' /\ ServerKeepsRunning'
  BY <1>1 DEF EndInsert, Loaded, ServerKeepsRunning, Known
<1>2. CASE UNCHANGED vars \/ Tick \/ Halted
  BY <1>2 DEF vars, Tick, Halted, Known, Loaded, ServerKeepsRunning
<1>3. ASSUME NEW th \in Thread, Lock(th)
      PROVE  Loaded' /\ ServerKeepsRunning'
  BY <1>1, <1>3 DEF Lock, Known
<1>4. ASSUME NEW n \in Name, NEW d \in Message, ReceiveDatagram(n, d)
      PROVE  Loaded' /\ ServerKeepsRunning'
  BY <1>1, <1>4 DEF ReceiveDatagram, At, Known
<1>5. CASE StatStep
  BY <1>1, <1>5 DEF StatStep, RefreshNode, BeginInsert, EndInsert, TooManyNodes, Done, At, Known
<1>6. CASE UpdateNodePowerStatus \/ \E report \in Report : FetchReport(report)
  BY <1>1, <1>6 DEF UpdateNodePowerStatus, FetchReport, Done, At, Known
<1>7. ASSUME NEW w \in Worker, Crash(w)
      PROVE  Loaded' /\ ServerKeepsRunning'
  <2>1. Name \subseteq Configured => pc[w] = "check" /\ job[w].node \notin Name
    <3> SUFFICES ASSUME Name \subseteq Configured
                 PROVE  pc[w] = "check" /\ job[w].node \notin Name
      OBVIOUS
    <3>1. Known = Name
      BY DEF Loaded, TypeOK
    <3>2. pc[Stat] # "insert"
      BY <3>1 DEF TypeOK, InsertFits, DatagramJob
    <3> QED
      BY <1>7, <3>1, <3>2 DEF Crash, At
  <2> QED
    BY <1>7, <2>1 DEF Crash, Loaded, ServerKeepsRunning, Known
<1>8. ASSUME NEW w \in Worker, Request(w) \/ WorkerStep(w), ~Crash(w)
      PROVE  Loaded' /\ ServerKeepsRunning'
  BY <1>1, <1>8 DEF Request, RequestList, RequestPage, RequestCommand,
     WorkerStep, Page, CheckNode, MarkNode, UnmarkNode, ScriptReturns, List, Done, At, Known
<1> QED
  BY <1>2, <1>3, <1>4, <1>5, <1>6, <1>7, <1>8 DEF Next

\* ServerKeepsRunning: with every node of the cluster configured no datagram, and
\* no request for one of the nodes, brings the server down, in whatever order
\* they come.
THEOREM KeepsRunning == Spec => []ServerKeepsRunning
<1>1. Init => LifeInv
  BY TypeInit, Distinct DEF Init, LifeInv, InsertFits, Loaded, ServerKeepsRunning, Known
<1>2. LifeInv /\ [Next]_vars => LifeInv'
  BY TypeStep, InsertStep, LifeStep DEF LifeInv
<1>3. LifeInv => ServerKeepsRunning
  BY DEF LifeInv
<1> QED
  BY <1>1, <1>2, <1>3, PTL DEF Spec

-----------------------------------------------------------------------------
(* What NodeTable promises of its table, of the table the threads share *)

\* What the pages show of an entry does not depend on who reads the table.
LEMMA SamePages ==
  /\ Table!Usable = Usable
  /\ \A nd, t : /\ Table!SeatListStatus(nd, t) = SeatListStatus(nd, t)
                /\ Table!DebugStatus(nd, t) = DebugStatus(nd, t)
  /\ \A nd, u, env : Table!Connected(nd, u, env) = Connected(nd, u, env)
  /\ \A nd, t, u, env : Table!ListStatus(nd, t, u, env) = ListStatus(nd, t, u, env)
<1>1. ASSUME NEW nd, NEW t
      PROVE  /\ Table!InMaintenance(nd) <=> InMaintenance(nd)
             /\ Table!Age(nd, t) = Age(nd, t)
             /\ Table!PoweringOn(nd, t) <=> PoweringOn(nd, t)
             /\ Table!PoweringOff(nd, t) <=> PoweringOff(nd, t)
             /\ Table!Answering(nd, t) <=> Answering(nd, t)
             /\ Table!StartingVNC(nd, t) = StartingVNC(nd, t)
  BY DEF Table!InMaintenance, InMaintenance, Table!PoweringOn, PoweringOn,
         Table!PoweringOff, PoweringOff, Table!Answering, Answering, Table!Age, Age,
         Table!StartingVNC, StartingVNC
<1>2. ASSUME NEW nd, NEW t
      PROVE  /\ Table!SeatListStatus(nd, t) = SeatListStatus(nd, t)
             /\ Table!DebugStatus(nd, t) = DebugStatus(nd, t)
  BY <1>1 DEF Table!SeatListStatus, SeatListStatus, Table!DebugStatus, DebugStatus
<1>3. ASSUME NEW nd, NEW u, NEW env
      PROVE  Table!Connected(nd, u, env) = Connected(nd, u, env)
  BY DEF Table!Connected, Connected
<1>4. ASSUME NEW nd, NEW t, NEW u, NEW env
      PROVE  Table!ListStatus(nd, t, u, env) = ListStatus(nd, t, u, env)
  <2>1. Table!Occupied(nd.basic.who) <=> Occupied(nd.basic.who)
    BY DEF Table!Occupied, Occupied
  <2>2. Table!SeatStatus(nd, t, u, env) = SeatStatus(nd, t, u, env)
    BY <1>1, <1>3, <2>1 DEF Table!SeatStatus, SeatStatus
  <2>3. Table!Silent(nd, t) <=> Silent(nd, t)
    BY <1>1 DEF Table!Silent, Silent
  <2> QED
    BY <1>1, <2>2, <2>3 DEF Table!ListStatus, ListStatus
<1> QED
  BY <1>2, <1>3, <1>4 DEF Table!Usable, Usable

\* Only an insertion changes which names are known, of a new one and below the
\* limit.
LEMMA KnownGrows ==
  ASSUME TypeOK, InsertFits, [Next]_vars
  PROVE  \/ Known' = Known
         \/ ~Full /\ \E n \in Name \ Known : Known' = Known \cup {n}
<1>1. CASE EndInsert
  <2>1. /\ job[Stat].node \in Name \ Known /\ ~Full
        /\ Known' = Known \cup {job[Stat].node}
    BY <1>1 DEF EndInsert, At, InsertFits, TypeOK, DatagramJob, Known
  <2> QED
    BY <2>1
<1>2. CASE UNCHANGED vars \/ Tick \/ Halted
  BY <1>2 DEF vars, Tick, Halted, Known
<1>3. CASE \/ \E th \in Thread : Lock(th)
           \/ \E n \in Name, d \in Message : ReceiveDatagram(n, d)
  BY <1>3 DEF Lock, ReceiveDatagram, Known
<1>4. CASE RefreshNode \/ BeginInsert \/ TooManyNodes
  BY <1>4 DEF RefreshNode, BeginInsert, TooManyNodes, Known
<1>5. CASE UpdateNodePowerStatus \/ \E report \in Report : FetchReport(report)
  BY <1>5 DEF UpdateNodePowerStatus, FetchReport, Known
<1>6. ASSUME NEW w \in Worker, Request(w) \/ WorkerStep(w)
      PROVE  Known' = Known
  BY <1>6 DEF Request, RequestList, RequestPage, RequestCommand,
     WorkerStep, Page, CheckNode, Crash, MarkNode, UnmarkNode, ScriptReturns, List, Known
<1> QED
  BY <1>1, <1>2, <1>3, <1>4, <1>5, <1>6 DEF Next, StatStep

\* The bound of NodeTable is kept although the size is compared in one step and
\* the entry made in a later one.
LEMMA BoundStep ==
  ASSUME TypeOK, InsertFits, Table!TableBounded, [Next]_vars
  PROVE  Table!TableBounded'
<1> SUFFICES ASSUME Cardinality(Configured) <= MaxNodes
             PROVE  Cardinality(Known') <= MaxNodes
  BY SameSize DEF Table!TableBounded, Table!Known, Known
<1>1. IsFiniteSet(Known) /\ MaxNodes \in Nat
  BY ServerAssumption, FS_Subset DEF TypeOK
<1>2. Cardinality(Known) \in Nat /\ Cardinality(Known) <= MaxNodes
  BY <1>1, SameBound, FS_CardinalityType
<1>3. CASE Known' = Known
  BY <1>2, <1>3
<1>4. ASSUME ~Full, NEW n \in Name \ Known, Known' = Known \cup {n}
      PROVE  Cardinality(Known') <= MaxNodes
  <2>1. Cardinality(Known') = Cardinality(Known) + 1
    BY <1>1, <1>4, FS_AddElement
  <2> QED
    BY <1>1, <1>2, <1>4, <2>1 DEF Full
<1> QED
  BY <1>3, <1>4, KnownGrows

\* In every state of the right type the pages agree and a listing disturbs what
\* ListingDisturbs says.
LEMMA PagesState == TypeOK => Table!PagesAgree /\ Table!ListingDisturbs
<1> SUFFICES ASSUME TypeOK PROVE Table!PagesAgree /\ Table!ListingDisturbs
  OBVIOUS
<1>1. /\ Table!Known = Known /\ Table!Env = Env
      /\ \A nd, t, u, env : Table!Listed(nd, t, u, env) = Listed(nd, t, u, env)
  BY SameEntry DEF Table!Known, Known
<1>2. \A n \in Known : nodes[n] \in Node
  BY DEF TypeOK
<1>3. now \in Nat /\ now > DownSkew /\ now > FreshSkew
  BY ServerAssumption, SkewAssumption DEF TypeOK
<1>4. Table!PagesAgree
  BY <1>1, <1>2, <1>3, SamePages, UsableIsUp DEF Table!PagesAgree
<1>5. Table!ListingDisturbs
  BY <1>1, <1>2, <1>3, SamePages, ListingChanges DEF Table!ListingDisturbs
<1> QED
  BY <1>4, <1>5

\* The table the threads share stays within maxnodes, its pages never contradict
\* each other and a listing disturbs the next one in two cases only, however the
\* threads interleave.
THEOREM TableKept == Spec => [](Table!TableBounded /\ Table!PagesAgree /\ Table!ListingDisturbs)
<1>1. Init => InsertFits /\ Table!TableBounded
  BY Distinct, SameBound DEF Init, InsertFits, Known
<1> QED
  BY <1>1, TypeInit, TypeStep, InsertStep, BoundStep, PagesState, PTL DEF Spec

\* A full table admits nobody, although the check and the insertion are two
\* steps between which other threads run.
THEOREM TableLimited ==
  ASSUME Cardinality(Configured) <= MaxNodes
  PROVE  Spec => [][Cardinality(Known) >= MaxNodes => Known' = Known]_vars
<1>1. ASSUME TypeOK, InsertFits, Table!TableBounded, [Next]_vars
      PROVE  [Cardinality(Known) >= MaxNodes => Known' = Known]_vars
  <2>1. Cardinality(Known) \in Nat /\ MaxNodes \in Nat
    BY <1>1, ServerAssumption, FS_Subset, FS_CardinalityType DEF TypeOK
  <2>2. Cardinality(Known) >= MaxNodes => Full
    BY <1>1, <2>1, SameBound DEF Full
  <2> QED
    BY <1>1, <2>2, KnownGrows
<1>2. Init => InsertFits
  BY Distinct DEF Init, InsertFits
<1> QED
  BY <1>1, <1>2, TableKept, TypeInit, TypeStep, InsertStep, PTL DEF Spec
=============================================================================
