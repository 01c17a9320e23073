--------------------------- MODULE FCGIStatServer ---------------------------
(***************************************************************************)
(* The threads of the server around the node table: the UDP server that    *)
(* registers datagrams, the batch system watcher that fetches power        *)
(* reports, and the workers that serve FastCGI requests.  The table is     *)
(* guarded by NodesMutex, except where the code does not take it: the      *)
(* check before a command, which looks the node up with operator[], and    *)
(* the flag a failed script resets.                                        *)
(*                                                                         *)
(* Each thread is at a label.  A step at a label that holds the mutex ends *)
(* with the unlock, since nothing can be seen between the two.             *)
(***************************************************************************)
EXTENDS CompNode, FiniteSets

CONSTANTS
  Name, Configured, MaxNodes, Worker, Activity, Epoch, MaxTime, ClockAhead,
  Report, \* answers of the batch system: from some names to their power status
  Asked   \* the names requests name: any word of letters and digits

Stat == "StatServer"
Batch == "BatchSystem"
Thread == {Stat, Batch} \cup Worker
Free == "free"

ASSUME ServerAssumption ==
  /\ IsFiniteSet(Name) /\ Configured \subseteq Name
  /\ Activity \subseteq Activities
  /\ {MaxNodes, Epoch, MaxTime, ClockAhead} \subseteq Nat /\ Epoch <= MaxTime
  /\ Epoch > FreshSkew /\ Epoch > DownSkew
  /\ {Stat, Batch, Free} \cap Worker = {}
  /\ \A report \in Report : \E S \in SUBSET Name : report \in [S -> PowerStat]

VARIABLES
  nodes,  \* the table
  now,    \* the clock
  mutex,  \* the holder of NodesMutex, or Free
  pc,     \* where each thread is
  job,    \* what each thread works on
  up      \* the process has not crashed

vars == <<nodes, now, mutex, pc, job, up>>

Known == DOMAIN nodes
Full == Cardinality(Known) = MaxNodes

Message == {d \in [ts : Epoch .. now + ClockAhead, down : BOOLEAN, who : Activity] :
              d.down => d.who = Nobody}

\* From the label at which a thread waits for the mutex to the one it gets to.
Wants == [wantWrite |-> "write", wantReport |-> "report", wantMark |-> "mark",
          wantList |-> "list", wantPage |-> "page"]
Inside == {"write", "insert", "report", "mark", "list", "page"}

StatLabel == {"idle", "wantWrite", "write", "insert"}
BatchLabel == {"idle", "wantReport", "report"}
Commanding == {"wantMark", "mark", "script", "unmark"}
Listing == {"wantList", "list"}
WorkerLabel == {"idle", "wantPage", "page", "check"} \cup Commanding \cup Listing

DatagramJob == [kind : {"datagram"}, node : Name, dtg : Message]
ReportJob == [kind : {"report"}, report : Report]
ListJob == [kind : {"list"}, user : User, at : Epoch .. now]
CommandJob == [kind : {"wake", "vnc"}, user : User, node : Asked, at : Epoch .. now]
NoJob == [kind |-> "none"]

\* Mutant: the configured nodes are not loaded.
Init_NoNodes ==
  /\ nodes = [n \in {} |-> NewNode]
  /\ now = Epoch
  /\ mutex = Free
  /\ pc = [th \in Thread |-> "idle"]
  /\ job = [th \in Thread |-> NoJob]
  /\ up = TRUE

Init ==
  /\ nodes = [n \in Configured |-> NewNode]
  /\ now = Epoch
  /\ mutex = Free
  /\ pc = [th \in Thread |-> "idle"]
  /\ job = [th \in Thread |-> NoJob]
  /\ up = TRUE

Goto(th, label) == pc' = [pc EXCEPT ![th] = label]

At(th, label) == up /\ pc[th] = label

Lock(th) ==
  /\ up
  /\ pc[th] \in DOMAIN Wants
  /\ mutex = Free
  /\ mutex' = th
  /\ Goto(th, Wants[pc[th]])
  /\ job' = IF pc[th] = "wantList" THEN [job EXCEPT ![th].at = now] ELSE job
  /\ UNCHANGED <<nodes, now, up>>

\* The rest of a step that ends a critical section and the thread's work.
Done(th) ==
  /\ mutex' = Free
  /\ Goto(th, "idle")
  /\ job' = [job EXCEPT ![th] = NoJob]
  /\ UNCHANGED <<now, up>>

-----------------------------------------------------------------------------
(* CStatServer::ExecuteThread and RegisterNode *)

ReceiveDatagram(n, d) ==
  /\ At(Stat, "idle")
  /\ Goto(Stat, "wantWrite")
  /\ job' = [job EXCEPT ![Stat] = [kind |-> "datagram", node |-> n, dtg |-> d]]
  /\ UNCHANGED <<nodes, now, mutex, up>>

\* Mutant: a datagram does not end a wake.
RefreshNode_KeepsMark ==
  /\ At(Stat, "write")
  /\ job[Stat].node \in Known
  /\ nodes' = [nodes EXCEPT ![job[Stat].node].basic = job[Stat].dtg]
  /\ Done(Stat)

RefreshNode ==
  /\ At(Stat, "write")
  /\ job[Stat].node \in Known
  /\ nodes' = [nodes EXCEPT ![job[Stat].node] = Hear(@, job[Stat].dtg)]
  /\ Done(Stat)

\* std::map rewires its tree while it inserts.
BeginInsert ==
  /\ At(Stat, "write")
  /\ job[Stat].node \notin Known
  /\ ~Full
  /\ Goto(Stat, "insert")
  /\ UNCHANGED <<nodes, now, mutex, job, up>>

EndInsert ==
  /\ At(Stat, "insert")
  /\ nodes' = [n \in Known \cup {job[Stat].node} |->
                 IF n = job[Stat].node THEN Hear(NewNode, job[Stat].dtg) ELSE nodes[n]]
  /\ Done(Stat)

\* Mutant: the early return keeps the mutex.
TooManyNodes_NoUnlock ==
  /\ At(Stat, "write")
  /\ job[Stat].node \notin Known
  /\ Full
  /\ Goto(Stat, "idle")
  /\ UNCHANGED <<nodes, now, mutex, job, up>>

TooManyNodes ==
  /\ At(Stat, "write")
  /\ job[Stat].node \notin Known
  /\ Full
  /\ UNCHANGED nodes
  /\ Done(Stat)

-----------------------------------------------------------------------------
(* CBatchSystemWatcher::ExecuteThread and UpdateNodePowerStatus; a fetch    *)
(* that fails brings nothing and is no step.                                *)

FetchReport(report) ==
  /\ At(Batch, "idle")
  /\ Goto(Batch, "wantReport")
  /\ job' = [job EXCEPT ![Batch] = [kind |-> "report", report |-> report]]
  /\ UNCHANGED <<nodes, now, mutex, up>>

UpdateNodePowerStatus ==
  /\ At(Batch, "report")
  /\ LET report == job[Batch].report
     IN  nodes' = [n \in Known |->
                     IF n \in DOMAIN report THEN [nodes[n] EXCEPT !.powerStat = report[n]]
                     ELSE nodes[n]]
  /\ Done(Batch)

-----------------------------------------------------------------------------
(* AcceptRequest and the request handlers *)

RequestList(w, u) ==
  /\ At(w, "idle")
  /\ Goto(w, "wantList")
  /\ job' = [job EXCEPT ![w] = [kind |-> "list", user |-> u, at |-> now]]
  /\ UNCHANGED <<nodes, now, mutex, up>>

\* Mutant: a page keeps the mutex.
Page_NoUnlock(w) ==
  /\ At(w, "page")
  /\ Goto(w, "idle")
  /\ UNCHANGED <<nodes, now, mutex, job, up>>

\* The seat lists and the debug page only read.
RequestPage(w) ==
  /\ At(w, "idle")
  /\ Goto(w, "wantPage")
  /\ UNCHANGED <<nodes, now, mutex, job, up>>

Page(w) == At(w, "page") /\ UNCHANGED nodes /\ Done(w)

\* That the name is a word is all that is asked of it before the check.
RequestCommand(w, u, kind, n) ==
  /\ At(w, "idle")
  /\ Goto(w, "check")
  /\ job' = [job EXCEPT ![w] = [kind |-> kind, user |-> u, node |-> n, at |-> now]]
  /\ UNCHANGED <<nodes, now, mutex, up>>

\* Mutant: the check lets an unregistered node through.
CheckNode_Unregistered(w) ==
  /\ At(w, "check")
  /\ Goto(w, "wantMark")
  /\ job' = [job EXCEPT ![w].at = now]
  /\ UNCHANGED <<nodes, now, mutex, up>>

\* CanPowerUp and CanStartRDSK say yes to every registered node, and the time
\* of the mark is read.
CheckNode(w) ==
  /\ At(w, "check")
  /\ job[w].node \in Known
  /\ Goto(w, "wantMark")
  /\ job' = [job EXCEPT ![w].at = now]
  /\ UNCHANGED <<nodes, now, mutex, up>>

\* Of an unregistered node operator[] makes a null entry that is then
\* dereferenced; during an insertion the lookup is a data race.
Crash(w) ==
  /\ At(w, "check")
  /\ job[w].node \notin Known \/ pc[Stat] = "insert"
  /\ up' = FALSE
  /\ UNCHANGED <<nodes, now, mutex, pc, job>>

MarkNode(w) ==
  /\ At(w, "mark")
  /\ nodes' = [nodes EXCEPT ![job[w].node] = Mark(@, job[w].kind, job[w].at)]
  /\ mutex' = Free
  /\ Goto(w, "script")
  /\ UNCHANGED <<now, job, up>>

\* system() returns and the list is sent, after the mark is taken back if the
\* script failed.
ScriptReturns(w, ok) ==
  /\ At(w, "script")
  /\ Goto(w, IF ok THEN "wantList" ELSE "unmark")
  /\ UNCHANGED <<nodes, now, mutex, job, up>>

\* Mutant: the mark of the other command goes too.
UnmarkNode_Both(w) ==
  /\ At(w, "unmark")
  /\ nodes' = [nodes EXCEPT ![job[w].node] = Unmark(Unmark(@, "wake"), "vnc")]
  /\ Goto(w, "wantList")
  /\ UNCHANGED <<now, mutex, job, up>>

\* Without the mutex.
UnmarkNode(w) ==
  /\ At(w, "unmark")
  /\ nodes' = [nodes EXCEPT ![job[w].node] = Unmark(@, job[w].kind)]
  /\ Goto(w, "wantList")
  /\ UNCHANGED <<now, mutex, job, up>>

\* All entries at once: the one access that can come between two of them is
\* UnmarkNode of another worker, which touches a single entry.
List(w, sockets) ==
  /\ At(w, "list")
  /\ nodes' = [n \in Known |-> Listed(nodes[n], job[w].at, job[w].user, sockets[n])]
  /\ Done(w)

-----------------------------------------------------------------------------

Tick ==
  /\ now < MaxTime
  /\ now' = now + 1
  /\ UNCHANGED <<nodes, mutex, pc, job, up>>

\* Nothing restarts the process.
Halted == ~up /\ UNCHANGED vars

StatStep == RefreshNode \/ BeginInsert \/ EndInsert \/ TooManyNodes

WorkerStep(w) ==
  \/ Page(w) \/ CheckNode(w) \/ Crash(w) \/ MarkNode(w) \/ UnmarkNode(w)
  \/ \E ok \in BOOLEAN : ScriptReturns(w, ok)
  \/ \E sockets \in [Known -> [live : BOOLEAN]] : List(w, sockets)

Request(w) ==
  \/ \E u \in User : RequestList(w, u)
  \/ RequestPage(w)
  \/ \E u \in User, kind \in {"wake", "vnc"}, n \in Asked : RequestCommand(w, u, kind, n)

Next ==
  \/ \E th \in Thread : Lock(th)
  \/ \E n \in Name, d \in Message : ReceiveDatagram(n, d)
  \/ StatStep
  \/ \E report \in Report : FetchReport(report)
  \/ UpdateNodePowerStatus
  \/ \E w \in Worker : Request(w) \/ WorkerStep(w)
  \/ Tick
  \/ Halted

\* Threads run, scripts return, and a thread that keeps asking for the mutex
\* gets it; clients, users and the batch system owe nothing.
Fairness ==
  /\ \A th \in Thread : SF_vars(Lock(th))
  /\ WF_vars(StatStep)
  /\ WF_vars(UpdateNodePowerStatus)
  /\ \A w \in Worker : WF_vars(WorkerStep(w))

Spec == Init /\ [][Next]_vars
FairSpec == Spec /\ Fairness

-----------------------------------------------------------------------------
(* Properties *)

TypeOK ==
  /\ Known \subseteq Name /\ nodes \in [Known -> Node]
  /\ now \in Epoch .. MaxTime
  /\ mutex \in Thread \cup {Free}
  /\ up \in BOOLEAN
  /\ DOMAIN pc = Thread /\ DOMAIN job = Thread
  /\ pc[Stat] \in StatLabel
  /\ pc[Stat] # "idle" => job[Stat] \in DatagramJob
  /\ pc[Batch] \in BatchLabel
  /\ pc[Batch] # "idle" => job[Batch] \in ReportJob
  /\ \A w \in Worker :
       /\ pc[w] \in WorkerLabel
       /\ pc[w] \in Commanding \cup {"check"} => job[w] \in CommandJob
       /\ pc[w] \in Commanding => job[w].node \in Known
       /\ pc[w] \in Listing => job[w] \in ListJob \cup CommandJob

\* Whoever is inside a critical section holds the mutex, so no two threads are,
\* and no path leaves the mutex locked behind it, the early return of a full
\* table included.
LockDiscipline == \A th \in Thread : pc[th] \in Inside <=> mutex = th

\* With every node of the cluster under config/nodes nothing is ever inserted, so
\* that the check before a command, which does not take the mutex, races with no
\* insertion: what brings the server down is then a request for a name that no
\* node has, and nothing else.
ServerKeepsRunning ==
  Name \subseteq Configured /\ ~up =>
    \E w \in Worker : pc[w] = "check" /\ job[w].node \notin Name

\* Every request is answered, every datagram is dealt with and every power
\* report is taken in, unless the server crashes.
EveryoneServed == \A th \in Thread : pc[th] # "idle" ~> pc[th] = "idle" \/ ~up

\* What the threads do to the table, in whatever order they get at it, is what
\* the atomic handlers of NodeTable may do.
Running ==
  [w \in Worker |->
     IF pc[w] \in {"script", "unmark"} THEN [kind |-> job[w].kind, node |-> job[w].node]
     ELSE [kind |-> "none"]]

Table == INSTANCE NodeTable WITH cmd <- Running

ImplementsTable == Table!Spec
=============================================================================
