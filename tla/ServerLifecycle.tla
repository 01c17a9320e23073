-------------------------- MODULE ServerLifecycle --------------------------
(***************************************************************************)
(* The server process from start to end (CFCGIStatServer::Run): the main   *)
(* thread starts the watcher, the batch system watcher, the UDP server and *)
(* the FastCGI server, waits until a signal stops the last, and then stops *)
(* and joins the others in turn.  The UDP server is taken through opening  *)
(* its socket and its receive loop, since both decide whether it stops.    *)
(*                                                                         *)
(* CSmartThread and CFCGIServer are libraries: StartThread begins a thread,*)
(* TerminateThread sets its flag, WaitForThread joins it, StartServer may  *)
(* fail, and WaitForServer returns once TerminateServer was called.  The   *)
(* error stack is one too; it is followed here as the set of those that    *)
(* put an error on it which no log and no console has yet.                 *)
(***************************************************************************)
EXTENDS Integers

CONSTANT Addresses  \* how many addresses getaddrinfo offers to bind to

ASSUME LifecycleAssumption == Addresses \in Nat \ {0}

VARIABLES
  main,    \* what the main thread is about to do
  started, \* the FastCGI server has started
  signal,  \* SIGINT or SIGTERM has been handled
  flag,    \* ThreadTerminated of each thread
  stat,    \* where the UDP server is
  address, \* the address it tries
  socket,  \* its Socket
  inbox,   \* a datagram waits
  watcher, \* CServerWatcher
  batch,   \* CBatchSystemWatcher
  errors   \* ErrorSystem

vars == <<main, started, signal, flag, stat, address, socket, inbox, watcher, batch, errors>>
statVars == <<stat, address, socket, inbox>>

Thread == {"stat", "watcher", "batch"}

MainLabel ==
  {"startWatcher", "startBatch", "startStat", "startServer", "serve", "shutdown", "terminate",
   "joinStat", "stopWatcher", "joinWatcher", "stopBatch", "joinBatch", "finalize",
   "leave", "exit"}
StatLabel == {"off", "resolve", "open", "bind", "loop", "recv", "ended"}

\* "none" stands for -1; a socket that was shut down stays open.
Socket == {"none", "open", "shut"}

TypeOK ==
  /\ main \in MainLabel
  /\ started \in BOOLEAN /\ signal \in BOOLEAN /\ inbox \in BOOLEAN
  /\ flag \in [Thread -> BOOLEAN]
  /\ stat \in StatLabel /\ address \in 1 .. Addresses + 1 /\ socket \in Socket
  /\ watcher \in {"off", "begin", "flush", "wait", "finish", "ended"}
  /\ batch \in {"off", "test", "poll", "ended"}
  /\ errors \subseteq Thread \cup {"worker"}

Init ==
  /\ main = "startWatcher"
  /\ started = FALSE
  /\ signal = FALSE
  /\ flag = [t \in Thread |-> FALSE]
  /\ stat = "off" /\ address = 1 /\ socket = "none" /\ inbox = FALSE
  /\ watcher = "off" /\ batch = "off"
  /\ errors = {}

Alive == main # "exit"

Main(from, to) == main = from /\ main' = to

Terminate(t) == flag' = [flag EXCEPT ![t] = TRUE]

\* ES_ERROR
Raise(t) == errors' = errors \cup {t}

-----------------------------------------------------------------------------
(* The main thread: Run *)

StartWatcher ==
  /\ Main("startWatcher", "startBatch")
  /\ watcher' = "begin"
  /\ UNCHANGED <<started, signal, flag, batch, statVars, errors>>

StartBatchSystem ==
  /\ Main("startBatch", "startStat")
  /\ batch' = "test"
  /\ UNCHANGED <<started, signal, flag, watcher, statVars, errors>>

StartStatServer ==
  /\ Main("startStat", "startServer")
  /\ stat' = "resolve"
  /\ UNCHANGED <<started, signal, flag, watcher, batch, address, socket, inbox, errors>>

\* If the FastCGI server does not start, Run returns with the threads running.
StartServer ==
  /\ \/ Main("startServer", "serve") /\ started' = TRUE
     \/ Main("startServer", "finalize") /\ UNCHANGED started
  /\ UNCHANGED <<signal, flag, watcher, batch, statVars, errors>>

WaitForServer ==
  /\ Main("serve", "shutdown")
  /\ signal
  /\ UNCHANGED <<started, signal, flag, watcher, batch, statVars, errors>>

\* Mutant: only the flag is set.
ShutdownSocket_FlagOnly ==
  /\ Main("shutdown", "terminate")
  /\ UNCHANGED <<started, signal, flag, watcher, batch, statVars, errors>>

\* TerminateServer of the UDP server looks at Socket first and sets the flag
\* of the thread after it.
ShutdownSocket ==
  /\ Main("shutdown", "terminate")
  /\ socket' = IF socket = "none" THEN "none" ELSE "shut"
  /\ UNCHANGED <<started, signal, flag, watcher, batch, stat, address, inbox, errors>>

TerminateStatServer ==
  /\ Main("terminate", "joinStat")
  /\ Terminate("stat")
  /\ UNCHANGED <<started, signal, watcher, batch, statVars, errors>>

\* Mutant: nobody waits for the thread.
WaitForStatServer_NoJoin ==
  /\ Main("joinStat", "stopWatcher")
  /\ UNCHANGED <<started, signal, flag, watcher, batch, statVars, errors>>

WaitForStatServer ==
  /\ Main("joinStat", "stopWatcher")
  /\ stat = "ended"
  /\ UNCHANGED <<started, signal, flag, watcher, batch, statVars, errors>>

TerminateWatcher ==
  /\ Main("stopWatcher", "joinWatcher")
  /\ Terminate("watcher")
  /\ UNCHANGED <<started, signal, watcher, batch, statVars, errors>>

WaitForWatcher ==
  /\ Main("joinWatcher", "stopBatch")
  /\ watcher = "ended"
  /\ UNCHANGED <<started, signal, flag, watcher, batch, statVars, errors>>

TerminateBatchSystem ==
  /\ Main("stopBatch", "joinBatch")
  /\ Terminate("batch")
  /\ UNCHANGED <<started, signal, watcher, batch, statVars, errors>>

\* Mutant: nobody waits for the thread.
WaitForBatchSystem_NoJoin ==
  /\ Main("joinBatch", "finalize")
  /\ UNCHANGED <<started, signal, flag, watcher, batch, statVars, errors>>

WaitForBatchSystem ==
  /\ Main("joinBatch", "finalize")
  /\ batch = "ended"
  /\ UNCHANGED <<started, signal, flag, watcher, batch, statVars, errors>>

\* What is still on the error stack is printed.
Finalize ==
  /\ Main("finalize", "leave")
  /\ errors' = {}
  /\ UNCHANGED <<started, signal, flag, watcher, batch, statVars>>

Exit ==
  /\ Main("leave", "exit")
  /\ UNCHANGED <<started, signal, flag, watcher, batch, statVars, errors>>

MainStep ==
  \/ StartWatcher \/ StartBatchSystem \/ StartStatServer \/ StartServer
  \/ WaitForServer \/ ShutdownSocket \/ TerminateStatServer \/ WaitForStatServer
  \/ TerminateWatcher \/ WaitForWatcher \/ TerminateBatchSystem \/ WaitForBatchSystem
  \/ Finalize \/ Exit

\* The signal handler stops the FastCGI server.  What CFCGIServer does with a
\* signal before its start is not known, so none comes that early.
CtrlCSignalHandler ==
  /\ started /\ Alive
  /\ ~signal
  /\ signal' = TRUE
  /\ UNCHANGED <<main, started, flag, watcher, batch, statVars, errors>>

\* A request, or accepting one, ends with an error.  The workers of the FastCGI
\* server are done when WaitForServer returns.
AcceptRequest ==
  /\ main = "serve"
  /\ Raise("worker")
  /\ UNCHANGED <<main, started, signal, flag, watcher, batch, statVars>>

-----------------------------------------------------------------------------
(* The UDP server: CStatServer::ExecuteThread *)

Stat(from, to) ==
  /\ Alive
  /\ stat = from /\ stat' = to
  /\ UNCHANGED <<main, started, signal, flag, watcher, batch>>

Resolve ==
  /\ \/ Stat("resolve", "open") /\ UNCHANGED errors
     \/ Stat("resolve", "ended") /\ Raise("stat")
  /\ UNCHANGED <<address, socket, inbox>>

\* Mutant: one address too many.
OpenSocket_PastLast ==
  /\ address <= Addresses + 1
  /\ Stat("open", "open") /\ socket' = "none" /\ address' = address + 1
  /\ UNCHANGED <<inbox, errors>>

OpenSocket ==
  /\ address <= Addresses
  /\ \/ Stat("open", "bind") /\ socket' = "open" /\ UNCHANGED address
     \/ Stat("open", "open") /\ socket' = "none" /\ address' = address + 1
  /\ UNCHANGED <<inbox, errors>>

NoAddressLeft ==
  /\ address > Addresses
  /\ Stat("open", "ended")
  /\ Raise("stat")
  /\ UNCHANGED <<address, socket, inbox>>

Bind ==
  /\ \/ Stat("bind", "loop") /\ UNCHANGED <<address, socket>>
     \/ Stat("bind", "open") /\ socket' = "none" /\ address' = address + 1
  /\ UNCHANGED <<inbox, errors>>

LoopTest ==
  /\ Stat("loop", IF flag["stat"] \/ socket = "none" THEN "ended" ELSE "recv")
  /\ UNCHANGED <<address, socket, inbox, errors>>

\* recvfrom waits for a datagram, or returns at once when the socket is shut.
\* The datagram is registered, or dropped for its size, or with an error for
\* its sender, its checksum or a table that is full.
Receive ==
  /\ inbox \/ socket = "shut"
  /\ Stat("recv", "loop")
  /\ inbox' = FALSE
  /\ UNCHANGED errors \/ (inbox /\ Raise("stat"))
  /\ UNCHANGED <<address, socket>>

StatStep == Resolve \/ OpenSocket \/ NoAddressLeft \/ Bind \/ LoopTest \/ Receive

\* A client sends; nobody has to.
Arrive ==
  /\ Alive
  /\ stat \in {"loop", "recv"}
  /\ ~inbox
  /\ inbox' = TRUE
  /\ UNCHANGED <<main, started, signal, flag, watcher, batch, stat, address, socket, errors>>

-----------------------------------------------------------------------------
(* The two watchers *)

Watch(from, to) ==
  /\ Alive
  /\ watcher = from /\ watcher' = to
  /\ UNCHANGED <<main, started, signal, flag, batch, statVars>>

\* The watcher gives up if it cannot open its log.
OpenLog ==
  \/ Watch("begin", "flush") /\ UNCHANGED errors
  \/ Watch("begin", "ended") /\ Raise("watcher")

\* The stack goes to the log and is cleared, if the interval is over.
FlushErrors ==
  /\ Watch("flush", IF flag["watcher"] THEN "finish" ELSE "wait")
  /\ UNCHANGED errors \/ (~flag["watcher"] /\ errors' = {})

WatcherSleeps == Watch("wait", "flush") /\ UNCHANGED errors

\* The log is completed, unless it cannot be opened or there is none.
CloseLog ==
  /\ Watch("finish", "ended")
  /\ (errors' = {}) \/ Raise("watcher") \/ UNCHANGED errors

WatcherStep == OpenLog \/ FlushErrors \/ WatcherSleeps \/ CloseLog

Poll(from, to) ==
  /\ Alive
  /\ batch = from /\ batch' = to
  /\ UNCHANGED <<main, started, signal, flag, watcher, statVars>>

PollTest == Poll("test", IF flag["batch"] THEN "ended" ELSE "poll") /\ UNCHANGED errors
UpdateNodes == Poll("poll", "test") /\ (UNCHANGED errors \/ Raise("batch"))

BatchStep == PollTest \/ UpdateNodes

-----------------------------------------------------------------------------

Ended == main = "exit" /\ UNCHANGED vars

Next ==
  \/ MainStep \/ CtrlCSignalHandler \/ AcceptRequest
  \/ StatStep \/ Arrive
  \/ WatcherStep \/ BatchStep
  \/ Ended

\* Each thread runs, and so polls, sleeps and log writes end.
Fairness == WF_vars(MainStep) /\ WF_vars(StatStep) /\ WF_vars(WatcherStep) /\ WF_vars(BatchStep)

Spec == Init /\ [][Next]_vars /\ Fairness

-----------------------------------------------------------------------------
(* Properties *)

Returned == started /\ main \in {"finalize", "leave", "exit"}

\* When Run returns after a signal no thread is left that could still touch
\* the table, the log or the error stack: main counts the nodes without the
\* mutex and prints the errors then.
JoinedBeforeExit == Returned => stat = "ended" /\ watcher = "ended" /\ batch = "ended"

\* A server that ends after a signal has written every error of its threads,
\* to the log or the console: also those that come after the watcher's last
\* flush, while the poll of the batch system still goes on.
ErrorsReported == main = "exit" /\ started => errors = {}

\* The strengthening that makes both inductive: each join stays true, and what
\* is printed last stays printed.
JoinedSoFar ==
  /\ main \in {"stopWatcher", "joinWatcher", "stopBatch", "joinBatch"} => stat = "ended"
  /\ main \in {"stopBatch", "joinBatch"} => watcher = "ended"
  /\ main \in {"startWatcher", "startBatch", "startStat", "startServer"} => ~started
  /\ main \in {"leave", "exit"} /\ started => errors = {}
  /\ JoinedBeforeExit

\* A signal that finds the UDP server in its receive loop, even one that waits
\* for a datagram nobody sends, ends the process.
StopsWhenListening == main = "shutdown" /\ stat \in {"loop", "recv"} ~> main = "exit"

Listening == stat \in {"loop", "recv"}

\* What that rests on: the signal shuts the socket of a UDP server that listens,
\* and a server whose socket was shut opens no other one; it goes on with its
\* loop, in which recvfrom returns at once, or has ended.
ShutForGood ==
  [][/\ main = "shutdown" /\ main' # main /\ Listening => socket' = "shut"
     /\ Listening /\ socket = "shut" => socket' = "shut" /\ (Listening' \/ stat' = "ended")]_vars

\* Every signal ends the process ("terminate server, e.g. close socket and
\* termineate thread").
AlwaysStops == main = "shutdown" ~> main = "exit"
=============================================================================
