---------------------------- MODULE PBSProServer ----------------------------
(***************************************************************************)
(* The connection to the batch system (CPBSProServer, the static object    *)
(* PBSPro) and the thread that polls it (CBatchSystemWatcher): choosing    *)
(* and loading the batch system's library, connecting, asking for the      *)
(* hosts, walking through the answer, releasing what was taken; and what   *)
(* the main thread does to both, up to the destruction of the static       *)
(* object.                                                                 *)
(***************************************************************************)
EXTENDS PBSProAttr, FiniteSets

CONSTANTS
  Garbage,       \* what memory may hold
  Libraries,     \* PBSProLibNames, a sequence: the symbols each library has
  MaxConnections \* connections the batch system's library can hold

Symbol == {"connect", "disconnect", "stathost", "statfree", "other"}

ASSUME ConnectionAssumption ==
  /\ Libraries \in Seq(SUBSET Symbol)
  /\ MaxConnections \in Nat \ {0}
  /\ Garbage \subseteq Int

VARIABLES
  bound,    \* the symbols the program may call
  main,     \* what the main thread is about to do
  flag,     \* ThreadTerminated
  pc,       \* where the thread is
  ServerID, \* the connection; 0 or -1 if there is none
  open,     \* the connections the library holds
  lost,     \* history: those of them that pbs_disconnect failed to close
  answer,   \* the answer the library lent, empty if none
  at,       \* p_node_attrs: the place in it
  table,    \* what the node table keeps of the batch system
  before    \* history: during a walk, the table when it began

vars == <<bound, main, flag, pc, ServerID, open, lost, answer, at, table, before>>
mainVars == <<main, flag>>
connection == <<ServerID, open, lost, bound>>
walk == <<answer, at, table, before>>

NoTable == [n \in {} |-> NewEntry(0)]

Init ==
  /\ bound = {}
  /\ main = "load" /\ flag = FALSE
  /\ pc = "off" /\ ServerID = 0 /\ open = {} /\ lost = {}
  /\ answer = <<>> /\ at = 1
  /\ table = NoTable /\ before = NoTable

Alive == main # "ended"

\* DisconnectFromServer: the ID is forgotten whatever pbs_disconnect says.  When
\* that fails the error is logged, and the connection may stay open.
DisconnectFromServer ==
  /\ ServerID' = IF ServerID <= 0 THEN ServerID ELSE 0
  /\ \/ open' = open \ {ServerID} /\ lost' = lost
     \/ ServerID > 0 /\ open' = open /\ lost' = lost \cup {ServerID}

-----------------------------------------------------------------------------
(* The main thread *)

\* A section, a library list or a server name is missing in the configuration.
NotConfigured ==
  /\ main = "load"
  /\ main' = "exit"
  /\ UNCHANGED <<flag, pc, connection, walk>>

\* Of the listed libraries the first that is a file is the one, whether or not
\* it can be loaded and has all the symbols.
InitSymbols ==
  /\ main = "load"
  /\ \E files \in SUBSET DOMAIN Libraries :
       \/ files = {} /\ bound' = {}
       \/ \E i \in files : /\ \A j \in files : i <= j
                           /\ bound' = Libraries[i]
  /\ main' = IF bound' = Symbol THEN "start" ELSE "exit"
  /\ UNCHANGED <<flag, pc, ServerID, open, lost, walk>>

StartThread ==
  /\ main = "start"
  /\ main' = "startServer"
  /\ pc' = "test"
  /\ UNCHANGED <<flag, connection, walk>>

StartServer ==
  /\ main = "startServer"
  /\ main' = "serve"
  /\ UNCHANGED <<flag, pc, connection, walk>>

\* The FastCGI server does not start: the thread is left as it is.
StartServerFails ==
  /\ main = "startServer"
  /\ main' = "exit"
  /\ UNCHANGED <<flag, pc, connection, walk>>

TerminateThread ==
  /\ main = "serve"
  /\ main' = "join"
  /\ flag' = TRUE
  /\ UNCHANGED <<pc, connection, walk>>

\* Mutant: the thread is told to end but not waited for.
WaitForThread_NoJoin ==
  /\ main = "join"
  /\ main' = "joined"
  /\ UNCHANGED <<flag, pc, connection, walk>>

WaitForThread ==
  /\ main = "join"
  /\ pc = "ended"
  /\ main' = "joined"
  /\ UNCHANGED <<flag, pc, connection, walk>>

\* ~CPBSProServer, when the process ends.  Its member may close the library.
Destroy ==
  /\ main \in {"exit", "joined"}
  /\ main' = "destroyed"
  /\ DisconnectFromServer
  /\ bound' \in {bound, {}}
  /\ UNCHANGED <<flag, pc, walk>>

Exit ==
  /\ main = "destroyed"
  /\ main' = "ended"
  /\ UNCHANGED <<flag, pc, connection, walk>>

-----------------------------------------------------------------------------
(* The thread: ExecuteThread *)

Step(from, to) == Alive /\ pc = from /\ pc' = to

\* Mutant: the flag is not looked at.
PollTest_NoFlag ==
  /\ Step("test", "connect")
  /\ UNCHANGED <<mainVars, connection, walk>>

PollTest ==
  /\ Step("test", IF flag THEN "ended" ELSE "connect")
  /\ UNCHANGED <<mainVars, connection, walk>>

Connect ==
  /\ Step("connect", "stat")
  /\ "connect" \in bound
  /\ ServerID' \in (1 .. MaxConnections) \ open
  /\ open' = open \cup {ServerID'}
  /\ UNCHANGED <<lost, bound, mainVars, walk>>

\* Mutant: a batch system that cannot be reached ends the thread.
ConnectFails_GivesUp ==
  /\ Step("connect", "ended")
  /\ "connect" \in bound
  /\ ServerID' = -1
  /\ UNCHANGED <<open, lost, bound, mainVars, walk>>

ConnectFails ==
  /\ Step("connect", "sleep")
  /\ "connect" \in bound
  /\ ServerID' = -1
  /\ UNCHANGED <<open, lost, bound, mainVars, walk>>

\* pbs_stathost, and the mutex is taken.
Stathost(a) ==
  /\ Step("stat", "walk")
  /\ "stathost" \in bound
  /\ answer' = a /\ at' = 1
  /\ before' = table
  /\ UNCHANGED <<table, connection, mainVars>>

\* Mutant: a poll without an answer keeps its connection.
StathostFails_Returns ==
  /\ Step("stat", "sleep")
  /\ "stathost" \in bound
  /\ UNCHANGED <<walk, connection, mainVars>>

\* NULL: the result of UpdateNodes is not looked at.
StathostFails ==
  /\ Step("stat", "disconnect")
  /\ "stathost" \in bound
  /\ UNCHANGED <<walk, connection, mainVars>>

\* The loop of UpdateNodePowerStatus, host by host.
UpdateHost ==
  /\ Alive /\ pc = "walk"
  /\ at \in DOMAIN answer
  /\ at' = at + 1
  /\ LET host == answer[at]
     IN  table' = IF host.node \in DOMAIN table
                  THEN [table EXCEPT ![host.node] = UpdateEntry(@, host)] ELSE table
  /\ UNCHANGED <<pc, answer, before, connection, mainVars>>

\* The end of the list; the mutex is given back.
EndOfList ==
  /\ Step("walk", "free")
  /\ at \notin DOMAIN answer
  /\ before' = NoTable
  /\ UNCHANGED <<answer, at, table, connection, mainVars>>

Statfree ==
  /\ Step("free", "disconnect")
  /\ "statfree" \in bound
  /\ answer' = <<>>
  /\ at' = 1
  /\ UNCHANGED <<table, before, connection, mainVars>>

\* Mutant: the closed connection is still known.
Disconnect_KeepsID ==
  /\ Step("disconnect", "sleep")
  /\ ServerID <= 0 \/ "disconnect" \in bound
  /\ open' = open \ {ServerID}
  /\ UNCHANGED <<ServerID, lost, bound, mainVars, walk>>

\* What DisconnectFromServer returns is not looked at.
Disconnect ==
  /\ Step("disconnect", "sleep")
  /\ ServerID <= 0 \/ "disconnect" \in bound
  /\ DisconnectFromServer
  /\ UNCHANGED <<bound, mainVars, walk>>

Sleep ==
  /\ Step("sleep", "test")
  /\ UNCHANGED <<mainVars, connection, walk>>

\* The library function called at each label.
Calls == [connect |-> "connect", stat |-> "stathost", free |-> "statfree",
          disconnect |-> "disconnect"]

CallPending == /\ pc \in DOMAIN Calls
               /\ pc = "disconnect" => ServerID > 0

\* A call into a library that is closed ends the process.
Crash ==
  /\ Alive
  /\ CallPending
  /\ Calls[pc] \notin bound
  /\ main' = "ended"
  /\ UNCHANGED <<flag, pc, connection, walk>>

-----------------------------------------------------------------------------
(* RegisterNode, which waits while the walk holds the mutex.  The nodes    *)
(* LoadConfig puts into the table are there before the first poll.         *)

Register(n, garbage) ==
  /\ main \in {"startServer", "serve"} /\ pc # "walk"
  /\ n \notin DOMAIN table
  /\ table' = [m \in DOMAIN table \cup {n} |-> IF m = n THEN NewEntry(garbage) ELSE table[m]]
  /\ UNCHANGED <<pc, answer, at, before, connection, mainVars>>

Main ==
  \/ NotConfigured \/ InitSymbols \/ StartThread \/ StartServer \/ StartServerFails
  \/ TerminateThread \/ WaitForThread \/ Destroy \/ Exit

Thread ==
  \/ PollTest \/ Connect \/ ConnectFails \/ (\E a \in Answers : Stathost(a)) \/ StathostFails
  \/ UpdateHost \/ EndOfList \/ Statfree \/ Disconnect \/ Sleep \/ Crash

Next ==
  \/ Main \/ Thread
  \/ \E n \in Name, garbage \in Garbage : Register(n, garbage)

Spec == Init /\ [][Next]_vars

\* The scheduler runs both threads, the library's calls return, the sleep ends.
\* When the signal comes is open.
Fairness ==
  /\ WF_vars(StartThread \/ StartServer \/ StartServerFails \/ WaitForThread \/ Destroy \/ Exit)
  /\ WF_vars(Thread)

FairSpec == Spec /\ Fairness

-----------------------------------------------------------------------------
(* Properties *)

Label == {"off", "test", "connect", "stat", "walk", "free", "disconnect", "sleep", "ended"}
MainLabel == {"load", "start", "startServer", "serve", "join", "joined", "exit", "destroyed", "ended"}

TypeOK ==
  /\ bound \subseteq Symbol
  /\ main \in MainLabel /\ flag \in BOOLEAN /\ pc \in Label
  /\ ServerID \in -1 .. MaxConnections /\ open \subseteq 1 .. MaxConnections
  /\ lost \subseteq 1 .. MaxConnections
  /\ answer \in Answers \cup {<<>>} /\ at \in Nat \ {0}
  /\ DOMAIN table \subseteq Name /\ table \in [DOMAIN table -> Entry]
  /\ DOMAIN before \subseteq Name /\ before \in [DOMAIN before -> Entry]

\* Between two polls no answer is held, and no connection is open but those that
\* the library itself failed to close, whichever of the calls of a poll failed.
NothingLeft ==
  pc \in {"off", "test", "connect", "sleep", "ended"} => open = lost /\ answer = <<>>

\* The object knows every connection that is open, so that it can be closed, but
\* those it has tried to close in vain; and it knows none that is not open.
OneConnection ==
  /\ open \ lost = {ServerID} \ {0, -1}
  /\ lost \subseteq open

\* Once the threads are joined nothing uses the static object or its library;
\* until then no symbol is called that was not found.
NoCallUnbound ==
  /\ main \notin {"exit", "destroyed", "ended"} /\ CallPending => Calls[pc] \in bound
  /\ main = "joined" => pc = "ended"

\* A server that runs polls again and again, whatever has failed before.
KeepsPolling == main = "serve" ~> pc = "connect" \/ main # "serve"

\* After a signal the poll comes to its end and the process too.
Stops == main = "join" ~> main = "ended"

\* The table as the other threads can see it: the walk holds the mutex.
Seen == IF pc = "walk" THEN before ELSE table

Abstract == INSTANCE PowerTable WITH table <- Seen

\* The polls do to the table what the abstract specification says: a whole
\* answer at once, of several hosts of one name the last.
ImplementsPowerTable == Abstract!Spec
=============================================================================
