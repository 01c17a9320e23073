----------------------- MODULE ServerLifecycleProofs -----------------------
(* Proofs about ServerLifecycle: no thread outlives the main thread and
   no error is lost. *)
EXTENDS ServerLifecycle, TLAPS

\* An address that is being bound was one of those offered.
Offered == stat = "bind" => address <= Addresses

LifecycleInv == TypeOK /\ JoinedSoFar /\ Offered

USE DEF Offered, MainLabel, StatLabel, Thread, Socket, statVars, Returned

LEMMA InitLifecycle == Init => LifecycleInv
<1> SUFFICES ASSUME Init PROVE LifecycleInv
  OBVIOUS
<1>1. address \in 1 .. Addresses + 1
  BY LifecycleAssumption DEF Init
<1>2. TypeOK
  BY <1>1 DEF Init, TypeOK
<1>3. JoinedSoFar
  BY DEF Init, JoinedSoFar, JoinedBeforeExit
<1> QED
  BY <1>2, <1>3 DEF LifecycleInv, Init

\* Each step of the main thread joins the thread it has waited for.
LEMMA MainKeeps == LifecycleInv /\ MainStep => LifecycleInv'
<1> SUFFICES ASSUME LifecycleInv, MainStep PROVE LifecycleInv'
  OBVIOUS
<1> USE DEF LifecycleInv, TypeOK, JoinedSoFar, JoinedBeforeExit, Main
<1>1. CASE StartWatcher BY <1>1 DEF StartWatcher
<1>2. CASE StartBatchSystem BY <1>2 DEF StartBatchSystem
<1>3. CASE StartStatServer BY <1>3 DEF StartStatServer
<1>4. CASE StartServer
  <2>1. CASE main' = "serve" /\ started' = TRUE BY <1>4, <2>1 DEF StartServer
  <2>2. CASE main' = "finalize" /\ UNCHANGED started BY <1>4, <2>2 DEF StartServer
  <2> QED BY <1>4, <2>1, <2>2 DEF StartServer
<1>5. CASE WaitForServer BY <1>5 DEF WaitForServer
<1>6. CASE ShutdownSocket BY <1>6 DEF ShutdownSocket
<1>7. CASE TerminateStatServer BY <1>7 DEF TerminateStatServer, Terminate
<1>8. CASE WaitForStatServer BY <1>8 DEF WaitForStatServer
<1>9. CASE TerminateWatcher BY <1>9 DEF TerminateWatcher, Terminate
<1>10. CASE WaitForWatcher BY <1>10 DEF WaitForWatcher
<1>11. CASE TerminateBatchSystem BY <1>11 DEF TerminateBatchSystem, Terminate
<1>12. CASE WaitForBatchSystem BY <1>12 DEF WaitForBatchSystem
<1>13. CASE Finalize BY <1>13 DEF Finalize
<1>14. CASE Exit BY <1>14 DEF Exit
<1> QED
  BY <1>1, <1>2, <1>3, <1>4, <1>5, <1>6, <1>7, <1>8, <1>9, <1>10, <1>11, <1>12, <1>13,
     <1>14 DEF MainStep

LEMMA RaiseTyped ==
  ASSUME errors \subseteq Thread \cup {"worker"}, NEW t \in Thread \cup {"worker"}, Raise(t)
  PROVE  errors' \subseteq Thread \cup {"worker"}
  BY DEF Raise

LEMMA SignalKeeps == LifecycleInv /\ CtrlCSignalHandler => LifecycleInv'
  BY DEF LifecycleInv, TypeOK, JoinedSoFar, JoinedBeforeExit, CtrlCSignalHandler, Alive

LEMMA RequestKeeps == LifecycleInv /\ AcceptRequest => LifecycleInv'
<1> SUFFICES ASSUME LifecycleInv, AcceptRequest PROVE LifecycleInv'
  OBVIOUS
<1>1. errors' \subseteq Thread \cup {"worker"}
  BY RaiseTyped DEF LifecycleInv, TypeOK, AcceptRequest
<1> QED
  BY <1>1 DEF LifecycleInv, TypeOK, JoinedSoFar, JoinedBeforeExit, AcceptRequest

\* The UDP server moves within its labels, and never from the last.
LEMMA StatKeeps == LifecycleInv /\ (StatStep \/ Arrive) => LifecycleInv'
<1> SUFFICES ASSUME LifecycleInv, StatStep \/ Arrive PROVE LifecycleInv'
  OBVIOUS
<1> USE LifecycleAssumption DEF LifecycleInv, TypeOK, JoinedSoFar, JoinedBeforeExit, Stat, Alive
<1>1. CASE Resolve
  <2>1. errors' \subseteq Thread \cup {"worker"}
    BY <1>1, RaiseTyped DEF Resolve
  <2> QED
    BY <1>1, <2>1 DEF Resolve
<1>2. CASE OpenSocket
  <2>1. address \in Nat /\ address <= Addresses
    BY <1>2 DEF OpenSocket
  <2>2. address + 1 \in 1 .. Addresses + 1
    BY <2>1
  <2> QED
    BY <1>2, <2>2 DEF OpenSocket
<1>3. CASE NoAddressLeft
  <2>1. errors' \subseteq Thread \cup {"worker"}
    BY <1>3, RaiseTyped DEF NoAddressLeft
  <2> QED
    BY <1>3, <2>1 DEF NoAddressLeft
<1>4. CASE Bind
  <2>1. address \in Nat /\ address <= Addresses
    BY <1>4 DEF Bind
  <2>2. address + 1 \in 1 .. Addresses + 1
    BY <2>1
  <2> QED
    BY <1>4, <2>2 DEF Bind
<1>5. CASE LoopTest BY <1>5 DEF LoopTest
<1>6. CASE Receive
  <2>1. errors' \subseteq Thread \cup {"worker"}
    BY <1>6, RaiseTyped DEF Receive
  <2> QED
    BY <1>6, <2>1 DEF Receive
<1>7. CASE Arrive BY <1>7 DEF Arrive
<1> QED
  BY <1>1, <1>2, <1>3, <1>4, <1>5, <1>6, <1>7 DEF StatStep

LEMMA WatchersKeep == LifecycleInv /\ (WatcherStep \/ BatchStep) => LifecycleInv'
<1> SUFFICES ASSUME LifecycleInv, WatcherStep \/ BatchStep PROVE LifecycleInv'
  OBVIOUS
<1> USE DEF LifecycleInv, TypeOK, JoinedSoFar, JoinedBeforeExit, Alive
<1>1. CASE WatcherStep
  <2>1. errors' \subseteq Thread \cup {"worker"}
    BY <1>1, RaiseTyped DEF WatcherStep, OpenLog, FlushErrors, WatcherSleeps, CloseLog
  <2>2. CASE OpenLog BY <2>1, <2>2 DEF OpenLog, Watch
  <2>3. CASE FlushErrors BY <2>1, <2>3 DEF FlushErrors, Watch
  <2>4. CASE WatcherSleeps BY <2>1, <2>4 DEF WatcherSleeps, Watch
  <2>5. CASE CloseLog BY <2>1, <2>5 DEF CloseLog, Watch
  <2> QED
    BY <1>1, <2>2, <2>3, <2>4, <2>5 DEF WatcherStep
<1>2. CASE BatchStep
  <2>1. errors' \subseteq Thread \cup {"worker"}
    BY <1>2, RaiseTyped DEF BatchStep, PollTest, UpdateNodes
  <2>2. CASE PollTest BY <2>1, <2>2 DEF PollTest, Poll
  <2>3. CASE UpdateNodes BY <2>1, <2>3 DEF UpdateNodes, Poll
  <2> QED
    BY <1>2, <2>2, <2>3 DEF BatchStep
<1> QED
  BY <1>1, <1>2

THEOREM LifecycleHolds == Spec => []LifecycleInv
<1>1. LifecycleInv /\ [Next]_vars => LifecycleInv'
  <2>1. ASSUME LifecycleInv, UNCHANGED vars PROVE LifecycleInv'
    BY <2>1 DEF vars, LifecycleInv, TypeOK, JoinedSoFar, JoinedBeforeExit
  <2> QED
    BY <2>1, MainKeeps, SignalKeeps, RequestKeeps, StatKeeps, WatchersKeep DEF Next, Ended
<1> QED
  BY <1>1, InitLifecycle, PTL DEF Spec

\* Every variable keeps to its type, and the UDP server to the addresses it
\* was offered.
THEOREM Types == Spec => []TypeOK
<1>1. LifecycleInv => TypeOK
  BY DEF LifecycleInv
<1> QED
  BY <1>1, LifecycleHolds, PTL

\* After a signal the main thread outlives all the others, however many
\* addresses the UDP server tries first.
THEOREM Joined == Spec => []JoinedBeforeExit
<1>1. LifecycleInv => JoinedBeforeExit
  BY DEF LifecycleInv, JoinedSoFar
<1> QED
  BY <1>1, LifecycleHolds, PTL

\* After a signal no error is lost, although the watcher writes the log for the
\* last time before the batch system's thread has ended: that thread too has
\* ended before the main thread prints what is left.
THEOREM Reported == Spec => []ErrorsReported
<1>1. LifecycleInv => ErrorsReported
  BY DEF LifecycleInv, JoinedSoFar, ErrorsReported
<1> QED
  BY <1>1, LifecycleHolds, PTL

-----------------------------------------------------------------------------
(* Stopping the UDP server *)

\* A UDP server past its bind has a socket, open or shut.
HasSocket == stat \in {"bind", "loop", "recv"} => socket # "none"

LEMMA SocketStep == HasSocket /\ [Next]_vars => HasSocket'
<1> SUFFICES ASSUME HasSocket, [Next]_vars PROVE HasSocket'
  OBVIOUS
<1> USE DEF HasSocket
<1>1. CASE stat' = stat /\ socket' = socket
  BY <1>1
<1>2. CASE MainStep
  <2>1. CASE StartStatServer
    BY <2>1 DEF StartStatServer
  <2>2. CASE ShutdownSocket
    BY <2>2 DEF ShutdownSocket
  <2>3. CASE ~StartStatServer /\ ~ShutdownSocket
    BY <1>1, <1>2, <2>3 DEF MainStep, StartWatcher, StartBatchSystem, StartServer, WaitForServer,
       TerminateStatServer, WaitForStatServer, TerminateWatcher, WaitForWatcher,
       TerminateBatchSystem, WaitForBatchSystem, Finalize, Exit
  <2> QED
    BY <2>1, <2>2, <2>3
<1>3. CASE StatStep
  BY <1>3 DEF StatStep, Resolve, OpenSocket, NoAddressLeft, Bind, LoopTest, Receive, Stat
<1>4. CASE CtrlCSignalHandler \/ AcceptRequest \/ Arrive \/ WatcherStep \/ BatchStep
  BY <1>1, <1>4 DEF CtrlCSignalHandler, AcceptRequest, Arrive, WatcherStep, OpenLog, FlushErrors,
     WatcherSleeps, CloseLog, Watch, BatchStep, PollTest, UpdateNodes, Poll
<1>5. CASE UNCHANGED vars \/ Ended
  BY <1>1, <1>5 DEF vars, Ended
<1> QED
  BY <1>2, <1>3, <1>4, <1>5 DEF Next

\* The main thread starts the UDP server once, before it can be listening.
OffAtFirst == main \in {"startWatcher", "startBatch", "startStat"} => stat = "off"

LEMMA OffStep == OffAtFirst /\ [Next]_vars => OffAtFirst'
<1> SUFFICES ASSUME OffAtFirst, [Next]_vars PROVE OffAtFirst'
  OBVIOUS
<1> USE DEF OffAtFirst
<1>1. CASE MainStep
  BY <1>1 DEF MainStep, Main, StartWatcher, StartBatchSystem, StartStatServer, StartServer,
     WaitForServer, ShutdownSocket, TerminateStatServer, WaitForStatServer, TerminateWatcher,
     WaitForWatcher, TerminateBatchSystem, WaitForBatchSystem, Finalize, Exit
<1>2. CASE StatStep
  BY <1>2 DEF StatStep, Resolve, OpenSocket, NoAddressLeft, Bind, LoopTest, Receive, Stat
<1>3. CASE CtrlCSignalHandler \/ AcceptRequest \/ Arrive \/ WatcherStep \/ BatchStep
  BY <1>3 DEF CtrlCSignalHandler, AcceptRequest, Arrive, WatcherStep, OpenLog, FlushErrors,
     WatcherSleeps, CloseLog, Watch, BatchStep, PollTest, UpdateNodes, Poll
<1>4. CASE UNCHANGED vars \/ Ended
  BY <1>4 DEF vars, Ended
<1> QED
  BY <1>1, <1>2, <1>3, <1>4 DEF Next

LEMMA ShutStep ==
  ASSUME HasSocket, OffAtFirst, [Next]_vars
  PROVE  /\ main = "shutdown" /\ main' # main /\ Listening => socket' = "shut"
         /\ Listening /\ socket = "shut" => socket' = "shut" /\ (Listening' \/ stat' = "ended")
<1> USE DEF HasSocket, OffAtFirst, Listening
<1>1. CASE main' = main /\ stat' = stat /\ socket' = socket
  BY <1>1
<1>2. CASE MainStep
  BY <1>2 DEF MainStep, Main, StartWatcher, StartBatchSystem, StartStatServer, StartServer,
     WaitForServer, ShutdownSocket, TerminateStatServer, WaitForStatServer, TerminateWatcher,
     WaitForWatcher, TerminateBatchSystem, WaitForBatchSystem, Finalize, Exit
<1>3. CASE StatStep
  BY <1>3 DEF StatStep, Resolve, OpenSocket, NoAddressLeft, Bind, LoopTest, Receive, Stat
<1>4. CASE CtrlCSignalHandler \/ AcceptRequest \/ Arrive \/ WatcherStep \/ BatchStep
  BY <1>1, <1>4 DEF CtrlCSignalHandler, AcceptRequest, Arrive, WatcherStep, OpenLog, FlushErrors,
     WatcherSleeps, CloseLog, Watch, BatchStep, PollTest, UpdateNodes, Poll
<1>5. CASE UNCHANGED vars \/ Ended
  BY <1>1, <1>5 DEF vars, Ended
<1> QED
  BY <1>2, <1>3, <1>4, <1>5 DEF Next

\* ShutForGood: a signal that finds the UDP server listening leaves it no
\* datagram to wait for.
THEOREM Shut == Spec => ShutForGood
<1>1. Init => HasSocket /\ OffAtFirst
  BY DEF Init, HasSocket, OffAtFirst
<1>2. ASSUME HasSocket, OffAtFirst, [Next]_vars
      PROVE  [/\ main = "shutdown" /\ main' # main /\ Listening => socket' = "shut"
              /\ Listening /\ socket = "shut" =>
                   socket' = "shut" /\ (Listening' \/ stat' = "ended")]_vars
  BY <1>2, ShutStep
<1> QED
  BY <1>1, <1>2, SocketStep, OffStep, PTL DEF Spec, ShutForGood
=============================================================================
