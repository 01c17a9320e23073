----------------------------- MODULE StatClient -----------------------------
(***************************************************************************)
(* The computers of the cluster with the client that reports their         *)
(* sessions (cluster-stat-client): the service node-stat-client runs it    *)
(* with the default interval until it is told to stop or fails, and once   *)
(* more, whatever the end, for the shutdown notice.  Nothing starts the    *)
(* service again before the next boot.                                     *)
(*                                                                         *)
(* A datagram is filled in one step here; StatDatagram.tla takes it apart. *)
(* The network belongs to whoever composes this module with a receiver: it *)
(* is the set sent.                                                        *)
(***************************************************************************)
EXTENDS Integers, FiniteSets

CONSTANTS
  Host,        \* the computers
  Activity,    \* what may go on at a computer
  Nobody,      \* the activity of an empty computer
  ClockAhead,  \* how far the clock of a computer may be ahead of the server's
  MaxCopies,   \* how often the network may deliver one datagram
  MaxFlight    \* bound of the model: how many datagrams the network holds

VARIABLES
  on,         \* the computer runs
  unit,       \* the service
  pc,         \* where the client's process is
  terminated, \* its flag Terminated
  dtg,        \* its datagram
  spoke,      \* history: when a client on the computer last filled a datagram
  sent,       \* the datagrams on their way, each with its copies
  now         \* the server's clock

vars == <<on, unit, pc, terminated, dtg, spoke, sent, now>>

Empty == [ts |-> 0, down |-> FALSE, who |-> Nobody]

Label == {"off", "begin", "measure", "send", "sleep", "notice", "sendNotice"}

\* What the service file gives the two runs of the client, the first with the
\* default interval.
Service == [repeat |-> TRUE, shutdown |-> FALSE]

\* Mutant: the interval is left at its default.
StopPost_Default == [repeat |-> TRUE, shutdown |-> TRUE]
StopPost == [repeat |-> FALSE, shutdown |-> TRUE]

Options(h) == IF unit[h] = "active" THEN Service ELSE StopPost

Init ==
  /\ on = [h \in Host |-> FALSE]
  /\ unit = [h \in Host |-> "inactive"]
  /\ pc = [h \in Host |-> "off"]
  /\ terminated = [h \in Host |-> FALSE]
  /\ dtg = [h \in Host |-> Empty]
  /\ spoke = [h \in Host |-> 0]
  /\ sent = {}

-----------------------------------------------------------------------------
(* The computer and its service *)

\* The service starts with the computer.
PowerOn(h) ==
  /\ ~on[h]
  /\ on' = [on EXCEPT ![h] = TRUE]
  /\ unit' = [unit EXCEPT ![h] = "active"]
  /\ pc' = [pc EXCEPT ![h] = "begin"]
  /\ UNCHANGED <<terminated, dtg, spoke, sent, now>>

\* The computer goes down, at any moment and without a word if need be.
PowerOff(h) ==
  /\ on[h]
  /\ on' = [on EXCEPT ![h] = FALSE]
  /\ unit' = [unit EXCEPT ![h] = "inactive"]
  /\ pc' = [pc EXCEPT ![h] = "off"]
  /\ terminated' = [terminated EXCEPT ![h] = FALSE]
  /\ dtg' = [dtg EXCEPT ![h] = Empty]
  /\ UNCHANGED <<spoke, sent, now>>

\* However the first process ends, ExecStopPost starts the second.
ProcessEnds(h) ==
  /\ terminated' = [terminated EXCEPT ![h] = FALSE]
  /\ dtg' = [dtg EXCEPT ![h] = Empty]
  /\ unit' = [unit EXCEPT ![h] = IF @ = "active" THEN "stopping" ELSE "dead"]
  /\ pc' = [pc EXCEPT ![h] = IF unit[h] = "active" THEN "begin" ELSE "off"]

\* systemd sends SIGTERM: it ends a process that has not set its handler yet.
Stop(h) ==
  /\ unit[h] = "active"
  /\ IF pc[h] = "begin" THEN ProcessEnds(h)
     ELSE /\ terminated' = [terminated EXCEPT ![h] = TRUE]
          /\ UNCHANGED <<unit, pc, dtg>>
  /\ UNCHANGED <<on, spoke, sent, now>>

-----------------------------------------------------------------------------
(* CStatClient::Run *)

Goto(h, label) == pc' = [pc EXCEPT ![h] = label]

Begin(h) ==
  /\ pc[h] = "begin"
  /\ Goto(h, IF Options(h).repeat \/ ~Options(h).shutdown THEN "measure" ELSE "notice")
  /\ UNCHANGED <<on, unit, terminated, dtg, spoke, sent, now>>

\* SetDatagram(false)
Measure(h) ==
  /\ pc[h] = "measure"
  /\ Goto(h, "send")
  /\ \E ts \in now .. now + ClockAhead, who \in Activity :
       dtg' = [dtg EXCEPT ![h] = [ts |-> ts, down |-> FALSE, who |-> who]]
  /\ spoke' = [spoke EXCEPT ![h] = now]
  /\ UNCHANGED <<on, unit, terminated, sent, now>>

\* SetDatagram(true)
Notice(h) ==
  /\ pc[h] = "notice"
  /\ Goto(h, "sendNotice")
  /\ \E ts \in now .. now + ClockAhead :
       dtg' = [dtg EXCEPT ![h] = [ts |-> ts, down |-> TRUE, who |-> Nobody]]
  /\ spoke' = [spoke EXCEPT ![h] = now]
  /\ UNCHANGED <<on, unit, terminated, sent, now>>

\* gethostbyname knows no name and its null result is read.
NoHostName(h) ==
  /\ pc[h] \in {"measure", "notice"}
  /\ ProcessEnds(h)
  /\ UNCHANGED <<on, spoke, sent, now>>

\* The network takes the datagram, once or more often, or drops it.
Transmit(h) ==
  \E n \in 1 .. MaxCopies :
    LET copies == {[node |-> h, dtg |-> dtg[h], copy |-> i] : i \in 1 .. n}
    IN  sent' = IF Cardinality(sent \cup copies) <= MaxFlight THEN sent \cup copies ELSE sent

SendReport(h) ==
  /\ pc[h] = "send"
  /\ Transmit(h)
  /\ Goto(h, "sleep")
  /\ UNCHANGED <<on, unit, terminated, dtg, spoke, now>>

SendNotice(h) ==
  /\ pc[h] = "sendNotice"
  /\ Transmit(h)
  /\ ProcessEnds(h)
  /\ UNCHANGED <<on, spoke, now>>

\* A name that cannot be resolved or a network that cannot be reached ends
\* the process at once: there is no second try.
SendFails(h) ==
  /\ pc[h] \in {"send", "sendNotice"}
  /\ ProcessEnds(h)
  /\ UNCHANGED <<on, spoke, sent, now>>

\* The sleep ends by itself or by the signal.
LoopTest(h) ==
  /\ pc[h] = "sleep"
  /\ IF ~terminated[h] /\ Options(h).repeat
     THEN Goto(h, "measure") /\ UNCHANGED <<unit, terminated, dtg>>
     ELSE IF Options(h).shutdown
          THEN Goto(h, "notice") /\ UNCHANGED <<unit, terminated, dtg>>
          ELSE ProcessEnds(h)
  /\ UNCHANGED <<on, spoke, sent, now>>

Environment(h) == PowerOn(h) \/ PowerOff(h) \/ Stop(h)

ClientStep(h) ==
  \/ Begin(h) \/ Measure(h) \/ Notice(h) \/ NoHostName(h)
  \/ SendReport(h) \/ SendNotice(h) \/ SendFails(h) \/ LoopTest(h)

-----------------------------------------------------------------------------

\* A shutdown notice reports nobody.
Reports == {d \in [ts : Nat, down : BOOLEAN, who : Activity] : d.down => d.who = Nobody}

TypeOK ==
  /\ on \in [Host -> BOOLEAN] /\ terminated \in [Host -> BOOLEAN]
  /\ unit \in [Host -> {"inactive", "active", "stopping", "dead"}]
  /\ pc \in [Host -> Label]
  /\ dtg \in [Host -> Reports]
  /\ spoke \in [Host -> Nat]
  /\ sent \subseteq [node : Host, dtg : Reports, copy : Nat]
=============================================================================
