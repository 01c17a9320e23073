------------------------- MODULE PBSProServerProofs -------------------------
(***************************************************************************)
(* Proofs about the connection to the batch system: what it takes it gives *)
(* back, it calls nothing that is not there, and its walk through an       *)
(* answer does what PowerTable promises.                                   *)
(***************************************************************************)
EXTENDS PBSProServer, TLAPS

-----------------------------------------------------------------------------
(* Reading one host *)

\* An attribute is found at one place at most.
LEMMA FoundOnce ==
  ASSUME NEW list \in Seq(Attribute), NEW name, NEW res,
         NEW i \in FindAttr(list, name, res), NEW j \in FindAttr(list, name, res)
  PROVE  i = j
<1>1. i \in Nat /\ j \in Nat /\ i >= 1 /\ j >= 1
  BY DEF FindAttr
<1>2. ~(i < j) /\ ~(j < i)
  BY <1>1 DEF FindAttr
<1> QED
  BY <1>1, <1>2

\* What is found there is what the host tells.
LEMMA ToldIsFound ==
  ASSUME NEW host \in BatchStatus, NEW res \in {"ncpus", "ngpus", "power_status"}
  PROVE  LET F == FindAttr(host.attribs, "resources_available", res)
         IN  Abstract!Told(host, res) = {host.attribs[i].value : i \in F}
<1> DEFINE list == host.attribs
           F == FindAttr(list, "resources_available", res)
<1>1. list \in Seq(Attribute)
  BY DEF BatchStatus
<1>2. \A i \in DOMAIN list : list[i] \in Attribute
  BY <1>1
<1>3. \A i \in DOMAIN list :
        Is(list[i], "resources_available", res) <=>
          list[i] = [name |-> "resources_available", resource |-> res, value |-> list[i].value]
  BY <1>2 DEF Is, Attribute
<1>4. \A i \in F : list[i].value \in Abstract!Told(host, res)
  BY <1>2, <1>3 DEF Abstract!Told, Abstract!Is, Is, FindAttr, Attribute
<1>5. \A v \in Abstract!Told(host, res) : \E i \in F : v = list[i].value
  BY DEF Abstract!Told, Abstract!Is, Is, FindAttr
<1> QED
  BY <1>4, <1>5

\* The code's readers agree with the abstract reading of a host, whatever was
\* in the entry.
LEMMA ReadingAgrees ==
  ASSUME NEW e \in Entry, NEW host \in BatchStatus
  PROVE  UpdateEntry(e, host) = Abstract!Reading(host)
<1> DEFINE list == host.attribs
           F(res) == FindAttr(list, "resources_available", res)
<1>1. list \in Seq(Attribute)
  BY DEF BatchStatus
<1>2. ASSUME NEW res \in {"ncpus", "ngpus"}
      PROVE  IntAttribute(list, res, 0) = Abstract!Count(Abstract!Told(host, res))
  <2>1. CASE F(res) = {}
    BY <2>1, ToldIsFound DEF IntAttribute, Abstract!Count
  <2>2. ASSUME NEW i \in F(res)
        PROVE  IntAttribute(list, res, 0) = Abstract!Count(Abstract!Told(host, res))
    <3>1. F(res) = {i}
      BY <1>1, FoundOnce
    <3>2. Abstract!Told(host, res) = {list[i].value}
      BY <3>1, ToldIsFound
    <3> QED
      BY <3>1, <3>2 DEF IntAttribute, Abstract!Count
  <2> QED
    BY <2>1, <2>2
<1>3. Power(TextAttribute(list, "power_status", "maintenance")) =
        Abstract!Reading(host).power
  <2> DEFINE told == Abstract!Told(host, "power_status")
  <2>0. Abstract!Reading(host).power =
          IF told = {} THEN "maintenance"
          ELSE IF told \subseteq PowerStat THEN CHOOSE v \in told : TRUE ELSE "unknown"
    BY DEF Abstract!Reading, Abstract!PowerStat, PowerStat
  <2>1. CASE F("power_status") = {}
    <3>1. told = {}
      BY <2>1, ToldIsFound
    <3> QED
      BY <2>0, <2>1, <3>1 DEF TextAttribute, Power
  <2>2. ASSUME NEW i \in F("power_status")
        PROVE  Power(TextAttribute(list, "power_status", "maintenance")) =
                 Abstract!Reading(host).power
    <3>1. F("power_status") = {i}
      BY <1>1, FoundOnce
    <3>2. told = {list[i].value}
      BY <3>1, ToldIsFound
    <3>3. TextAttribute(list, "power_status", "maintenance") = list[i].value
      BY <3>1 DEF TextAttribute
    <3> QED
      BY <2>0, <3>2, <3>3 DEF Power, PowerStat
  <2> QED
    BY <2>1, <2>2
<1>4. UpdateEntry(e, host) =
        [power |-> Power(TextAttribute(list, "power_status", "maintenance")),
         ncpus |-> IntAttribute(list, "ncpus", 0), ngpus |-> IntAttribute(list, "ngpus", 0)]
  BY DEF UpdateEntry, Entry
<1> QED
  BY <1>2, <1>3, <1>4 DEF Abstract!Reading

\* What is read is an entry.
LEMMA EntryType ==
  ASSUME NEW e \in Entry, NEW host \in BatchStatus
  PROVE  UpdateEntry(e, host) \in Entry
<1> DEFINE list == host.attribs
<1>1. \A res : IntAttribute(list, res, 0) \in Int
  BY AnswerAssumption DEF IntAttribute
<1>2. \A text : Power(text) \in PowerStat
  BY DEF Power, PowerStat
<1> QED
  BY <1>1, <1>2 DEF UpdateEntry, Entry

\* So is what the constructor leaves.
LEMMA NewEntryType ==
  /\ \A garbage \in Garbage : NewEntry(garbage) \in Entry
  /\ NewEntry(0) \in Entry
BY ConnectionAssumption DEF NewEntry, Entry, PowerStat

-----------------------------------------------------------------------------
(* The inductive invariant *)

\* What the main thread has done before it gets where it is.
Binding ==
  /\ main \in {"start", "startServer", "serve", "join", "joined"} => bound = Symbol
  /\ main \in {"load", "start"} => pc = "off"
  /\ main = "joined" => pc = "ended"

\* Outside of a poll the object knows no connection, outside of a walk it holds
\* no answer.
Connection ==
  /\ OneConnection
  /\ pc \in {"off", "test", "connect", "sleep", "ended"} => ServerID <= 0
  /\ pc \notin {"walk", "free"} => answer = <<>>

\* The place of n's last host among those before the place to.
LastPassed(hosts, to, n, i) ==
  /\ i \in 1 .. to - 1 /\ hosts[i].node = n
  /\ \A j \in 1 .. to - 1 : hosts[j].node = n => j <= i

\* During a walk every node shows what the last of its hosts so far told.
Walked ==
  pc = "walk" =>
    /\ answer \in Answers /\ at \in 1 .. Len(answer) + 1
    /\ DOMAIN before = DOMAIN table
    /\ \A n \in DOMAIN table :
         \/ (\A i \in 1 .. at - 1 : answer[i].node # n) /\ table[n] = before[n]
         \/ \E i \in 1 .. at - 1 : LastPassed(answer, at, n, i) /\ table[n] = Abstract!Reading(answer[i])

IInv == TypeOK /\ Binding /\ Connection /\ Walked

LEMMA InitIInv == Init => IInv
<1> SUFFICES ASSUME Init PROVE IInv
  OBVIOUS
<1>1. NoTable \in [DOMAIN NoTable -> Entry] /\ DOMAIN NoTable = {}
  BY DEF NoTable
<1>2. bound \subseteq Symbol /\ main \in MainLabel /\ flag \in BOOLEAN /\ pc \in Label
  BY DEF Init, Label, MainLabel
<1>3. /\ ServerID \in -1 .. MaxConnections
      /\ open \subseteq 1 .. MaxConnections /\ lost \subseteq 1 .. MaxConnections
  BY ConnectionAssumption DEF Init
<1>4. answer = <<>> /\ at \in Nat \ {0} /\ table = NoTable /\ before = NoTable
  BY DEF Init
<1>5. TypeOK
  BY <1>1, <1>2, <1>3, <1>4 DEF TypeOK
<1> QED
  BY <1>5 DEF Init, IInv, Binding, Connection, OneConnection, Walked

\* The main thread keeps to its order.
LEMMA BindingStep == IInv /\ [Next]_vars => Binding'
<1> SUFFICES ASSUME IInv, [Next]_vars PROVE Binding'
  OBVIOUS
<1> USE DEF IInv, Binding
<1>1. CASE NotConfigured \/ StartThread \/ StartServer \/ StartServerFails
  BY <1>1 DEF NotConfigured, StartThread, StartServer, StartServerFails, connection
<1>2. CASE InitSymbols
  BY <1>2 DEF InitSymbols
<1>3. CASE TerminateThread \/ WaitForThread
  BY <1>3 DEF TerminateThread, WaitForThread, connection
<1>4. CASE Destroy \/ Exit
  BY <1>4 DEF Destroy, Exit
<1>5. CASE PollTest \/ Connect \/ ConnectFails
  BY <1>5 DEF PollTest, Connect, ConnectFails, Step, mainVars, connection
<1>6. CASE (\E a \in Answers : Stathost(a)) \/ StathostFails
  BY <1>6 DEF Stathost, StathostFails, Step, mainVars, connection
<1>7. CASE UpdateHost \/ EndOfList \/ Statfree
  BY <1>7 DEF UpdateHost, EndOfList, Statfree, Step, mainVars, connection
<1>8. CASE Disconnect \/ Sleep \/ Crash
  BY <1>8 DEF Disconnect, Sleep, Crash, Step, mainVars, connection
<1>9. CASE \E n \in Name, garbage \in Garbage : Register(n, garbage)
  BY <1>9 DEF Register, mainVars, connection
<1>10. CASE UNCHANGED vars
  BY <1>10 DEF vars
<1> QED
  BY <1>1, <1>2, <1>3, <1>4, <1>5, <1>6, <1>7, <1>8, <1>9, <1>10 DEF Next, Main, Thread

\* After DisconnectFromServer no connection is known, and the one that was is
\* closed or lost.
LEMMA Disconnected ==
  ASSUME TypeOK, OneConnection, DisconnectFromServer
  PROVE  OneConnection' /\ ServerID' <= 0
<1>1. ServerID \in Int /\ ServerID >= -1 /\ ServerID' <= 0 /\ ServerID' >= -1 /\ ServerID' \in Int
  BY ConnectionAssumption DEF TypeOK, DisconnectFromServer
<1>2. {ServerID'} \ {0, -1} = {}
  BY <1>1
<1>3. \A c \in open \cup lost : c > 0
  BY ConnectionAssumption DEF TypeOK
<1>4. CASE open' = open \ {ServerID} /\ lost' = lost
  BY <1>1, <1>2, <1>3, <1>4 DEF OneConnection
<1>5. CASE ServerID > 0 /\ open' = open /\ lost' = lost \cup {ServerID}
  BY <1>1, <1>2, <1>3, <1>5 DEF OneConnection
<1> QED
  BY <1>1, <1>4, <1>5 DEF DisconnectFromServer

\* While none is known, all that are open are lost.
LEMMA NoneKnown ==
  ASSUME TypeOK, OneConnection, ServerID <= 0
  PROVE  open = lost
<1>1. ServerID \in Int /\ ServerID >= -1
  BY ConnectionAssumption DEF TypeOK
<1>2. ServerID \in {0, -1}
  BY <1>1
<1>3. open \ lost = {} /\ lost \subseteq open
  BY <1>2 DEF OneConnection
<1>4. \A c : c \in open <=> c \in lost
  BY <1>3
<1> QED
  BY <1>4

\* A connection is closed or lost by the step that forgets it, an answer returned by
\* the step that forgets it.
LEMMA ConnectionStep == IInv /\ [Next]_vars => Connection'
<1> SUFFICES ASSUME IInv, [Next]_vars PROVE Connection'
  OBVIOUS
<1> USE DEF IInv, Connection, OneConnection
<1>0. /\ ServerID \in Int /\ ServerID >= -1 /\ MaxConnections \in Nat
      /\ open \subseteq 1 .. MaxConnections /\ lost \subseteq 1 .. MaxConnections
  BY ConnectionAssumption DEF TypeOK
<1>1. CASE NotConfigured \/ InitSymbols \/ StartThread \/ StartServer \/ StartServerFails
  BY <1>1 DEF NotConfigured, InitSymbols, StartThread, StartServer, StartServerFails,
              Binding, connection, walk
<1>2. CASE TerminateThread \/ WaitForThread \/ Exit
  BY <1>2 DEF TerminateThread, WaitForThread, Exit, connection, walk
<1>3. CASE Destroy
  <2>1. OneConnection' /\ ServerID' <= 0
    BY <1>0, <1>3, Disconnected DEF Destroy
  <2> QED
    BY <1>3, <2>1 DEF Destroy, walk
<1>4. CASE PollTest \/ Sleep \/ Crash
  BY <1>4 DEF PollTest, Sleep, Crash, Step, mainVars, connection, walk
<1>5. CASE Connect
  <2>1. open = lost
    BY <1>5, NoneKnown DEF Connect, Step
  <2>2. ServerID' \notin open /\ open' \ lost' = {ServerID'} /\ ServerID' > 0 /\ lost' \subseteq open'
    BY <1>0, <1>5, <2>1 DEF Connect
  <2> QED
    BY <1>5, <2>2 DEF Connect, Step, walk
<1>6. CASE ConnectFails
  <2>1. open = lost
    BY <1>6, NoneKnown DEF ConnectFails, Step
  <2> QED
    BY <1>6, <2>1 DEF ConnectFails, Step, walk
<1>7. CASE (\E a \in Answers : Stathost(a)) \/ StathostFails
  BY <1>7 DEF Stathost, StathostFails, Step, connection, walk
<1>8. CASE UpdateHost \/ EndOfList \/ Statfree
  BY <1>8 DEF UpdateHost, EndOfList, Statfree, Step, connection
<1>9. CASE Disconnect
  <2>1. OneConnection' /\ ServerID' <= 0
    BY <1>0, <1>9, Disconnected DEF Disconnect
  <2> QED
    BY <1>9, <2>1 DEF Disconnect, Step, walk
<1>10. CASE \E n \in Name, garbage \in Garbage : Register(n, garbage)
  BY <1>10 DEF Register, connection
<1>11. CASE UNCHANGED vars
  BY <1>11 DEF vars
<1> QED
  BY <1>1, <1>2, <1>3, <1>4, <1>5, <1>6, <1>7, <1>8, <1>9, <1>10, <1>11 DEF Next, Main, Thread

\* The table's type: only registering and the walk touch it.
LEMMA TypeStep == IInv /\ [Next]_vars => TypeOK'
<1> SUFFICES ASSUME TypeOK, Walked, [Next]_vars PROVE TypeOK'
  BY DEF IInv
<1> USE DEF TypeOK
<1>0. MaxConnections \in Nat \ {0}
  BY ConnectionAssumption
<1>1. CASE NotConfigured \/ StartThread \/ StartServer \/ StartServerFails
  BY <1>1 DEF NotConfigured, StartThread, StartServer, StartServerFails, connection, walk,
              Label, MainLabel
<1>2. CASE InitSymbols
  <2>1. bound' \subseteq Symbol
    BY <1>2, ConnectionAssumption DEF InitSymbols
  <2> QED
    BY <1>2, <2>1 DEF InitSymbols, walk, MainLabel
<1>3. CASE TerminateThread \/ WaitForThread \/ Exit
  BY <1>3 DEF TerminateThread, WaitForThread, Exit, connection, walk, MainLabel
<1>4. CASE Destroy
  BY <1>0, <1>4 DEF Destroy, DisconnectFromServer, walk, MainLabel
<1>5. CASE PollTest \/ Sleep \/ Crash
  BY <1>5 DEF PollTest, Sleep, Crash, Step, mainVars, connection, walk, Label, MainLabel
<1>6. CASE Connect \/ ConnectFails
  BY <1>0, <1>6 DEF Connect, ConnectFails, Step, mainVars, walk, Label
<1>7. CASE \E a \in Answers : Stathost(a)
  BY <1>7 DEF Stathost, Step, mainVars, connection, Label
<1>8. CASE StathostFails
  BY <1>8 DEF StathostFails, Step, mainVars, connection, walk, Label
<1>9. CASE UpdateHost
  <2>1. answer \in Seq(BatchStatus) /\ answer[at] \in BatchStatus
    BY <1>9, AnswerAssumption DEF UpdateHost
  <2>2. DOMAIN table' = DOMAIN table /\ table' \in [DOMAIN table' -> Entry]
    BY <1>9, <2>1, EntryType DEF UpdateHost
  <2> QED
    BY <1>9, <2>2 DEF UpdateHost, mainVars, connection
<1>10. CASE EndOfList
  <2>1. DOMAIN before' = {} /\ before' \in [DOMAIN before' -> Entry]
    BY <1>10 DEF EndOfList, NoTable
  <2> QED
    BY <1>10, <2>1 DEF EndOfList, Step, mainVars, connection, Label
<1>11. CASE Statfree
  BY <1>11 DEF Statfree, Step, mainVars, connection, Label
<1>12. CASE Disconnect
  BY <1>0, <1>12 DEF Disconnect, DisconnectFromServer, Step, mainVars, walk, Label
<1>13. CASE \E n \in Name, garbage \in Garbage : Register(n, garbage)
  <2> PICK n \in Name, garbage \in Garbage : Register(n, garbage)
    BY <1>13
  <2>1. DOMAIN table' = DOMAIN table \cup {n}
    BY DEF Register
  <2>2. table' \in [DOMAIN table' -> Entry]
    BY <2>1, NewEntryType DEF Register
  <2> QED
    BY <2>1, <2>2 DEF Register, mainVars, connection
<1>14. CASE UNCHANGED vars
  BY <1>14 DEF vars
<1> QED
  BY <1>1, <1>2, <1>3, <1>4, <1>5, <1>6, <1>7, <1>8, <1>9, <1>10, <1>11, <1>12, <1>13, <1>14
     DEF Next, Main, Thread

\* One more host of the answer is read into its node, if it is registered.
LEMMA HostStep == TypeOK /\ Walked /\ UpdateHost => Walked'
<1> SUFFICES ASSUME TypeOK, Walked, UpdateHost PROVE Walked'
  OBVIOUS
<1> DEFINE h == answer[at]
<1>1. /\ pc = "walk" /\ pc' = pc /\ answer' = answer /\ before' = before /\ at' = at + 1
      /\ answer \in Answers /\ answer \in Seq(BatchStatus)
      /\ at \in 1 .. Len(answer) /\ h \in BatchStatus
  BY AnswerAssumption DEF UpdateHost, Walked
<1>2. at \in Nat /\ at' - 1 = at /\ 1 .. at' - 1 = (1 .. at - 1) \cup {at}
  BY <1>1
<1>3. /\ DOMAIN table' = DOMAIN table /\ DOMAIN before = DOMAIN table
      /\ \A n \in DOMAIN table :
           table'[n] = IF n = h.node THEN Abstract!Reading(h) ELSE table[n]
  BY <1>1, ReadingAgrees DEF UpdateHost, TypeOK, Walked
<1>4. ASSUME NEW n \in DOMAIN table, n = h.node
      PROVE  LastPassed(answer, at', n, at) /\ table'[n] = Abstract!Reading(answer[at])
  BY <1>1, <1>2, <1>3, <1>4 DEF LastPassed
<1>5. ASSUME NEW n \in DOMAIN table, n # h.node
      PROVE  \/ (\A i \in 1 .. at' - 1 : answer[i].node # n) /\ table'[n] = before[n]
             \/ \E i \in 1 .. at' - 1 : LastPassed(answer, at', n, i) /\ table'[n] = Abstract!Reading(answer[i])
  <2>1. CASE (\A i \in 1 .. at - 1 : answer[i].node # n) /\ table[n] = before[n]
    BY <1>2, <1>3, <1>5, <2>1
  <2>2. ASSUME NEW i \in 1 .. at - 1, LastPassed(answer, at, n, i), table[n] = Abstract!Reading(answer[i])
        PROVE  i \in 1 .. at' - 1 /\ LastPassed(answer, at', n, i) /\ table'[n] = Abstract!Reading(answer[i])
    <3>1. i \in 1 .. at' - 1
      BY <1>2
    <3>2. \A j \in 1 .. at' - 1 : answer[j].node = n => j <= i
      BY <1>2, <1>5, <2>2 DEF LastPassed
    <3>3. LastPassed(answer, at', n, i)
      BY <2>2, <3>1, <3>2 DEF LastPassed
    <3>4. table'[n] = table[n]
      BY <1>3, <1>5
    <3> QED
      BY <2>2, <3>1, <3>3, <3>4
  <2> QED
    BY <1>1, <2>1, <2>2 DEF Walked
<1>6. \A n \in DOMAIN table' :
        \/ (\A i \in 1 .. at' - 1 : answer'[i].node # n) /\ table'[n] = before'[n]
        \/ \E i \in 1 .. at' - 1 :
             LastPassed(answer', at', n, i) /\ table'[n] = Abstract!Reading(answer'[i])
  BY <1>1, <1>2, <1>3, <1>4, <1>5
<1>7. at' \in 1 .. Len(answer') + 1 /\ answer' \in Answers /\ DOMAIN before' = DOMAIN table'
  BY <1>1, <1>3
<1> QED
  BY <1>6, <1>7 DEF Walked

\* A walk begins with nothing read; only its own steps touch it.
LEMMA WalkedStep == IInv /\ [Next]_vars => Walked'
<1> SUFFICES ASSUME TypeOK, Walked, [Next]_vars PROVE Walked'
  BY DEF IInv
<1>1. CASE \E a \in Answers : Stathost(a)
  <2> PICK a \in Answers : Stathost(a)
    BY <1>1
  <2>1. /\ answer' = a /\ a \in Seq(BatchStatus) /\ at' = 1
        /\ table' = table /\ before' = table
    BY AnswerAssumption DEF Stathost
  <2> QED
    BY <2>1 DEF Walked
<1>2. CASE UpdateHost
  BY <1>2, HostStep
<1>3. CASE EndOfList
  BY <1>3 DEF EndOfList, Step, Walked
<1>4. CASE Statfree
  BY <1>4 DEF Statfree, Step, Walked
<1>5. CASE UNCHANGED <<answer, at, table, before>> /\ (pc' = pc \/ pc' # "walk")
  BY <1>5 DEF Walked, LastPassed
<1>6. CASE \E n \in Name, garbage \in Garbage : Register(n, garbage)
  BY <1>6 DEF Register, Walked
<1>7. CASE Main \/ UNCHANGED vars
  BY <1>5, <1>7 DEF Main, NotConfigured, InitSymbols, StartThread, StartServer, StartServerFails,
     TerminateThread, WaitForThread, Destroy, Exit, walk, vars
<1>8. CASE PollTest \/ Connect \/ ConnectFails \/ StathostFails \/ Disconnect \/ Sleep \/ Crash
  BY <1>5, <1>8 DEF PollTest, Connect, ConnectFails, StathostFails, Disconnect, Sleep, Crash,
     Step, walk
<1> QED
  BY <1>1, <1>2, <1>3, <1>4, <1>6, <1>7, <1>8 DEF Next, Thread

LEMMA Invariance == Spec => []IInv
<1>1. IInv /\ [Next]_vars => IInv'
  BY TypeStep, BindingStep, ConnectionStep, WalkedStep DEF IInv
<1> QED
  BY InitIInv, <1>1, PTL DEF Spec

-----------------------------------------------------------------------------
(* Theorems *)

\* TypeOK: whatever the batch system answers, an entry holds one of the four
\* power states and two numbers.
THEOREM Types == Spec => []TypeOK
BY Invariance, PTL DEF IInv

\* NothingLeft: no answer outlives its poll, and no connection but one that
\* pbs_disconnect failed to close, whichever call of the poll fails.
THEOREM Returned == Spec => []NothingLeft
<1>1. IInv => NothingLeft
  BY NoneKnown DEF IInv, Connection, NothingLeft
<1> QED
  BY Invariance, <1>1, PTL

\* OneConnection: the object knows the connection that is open, if no failing
\* pbs_disconnect has left it behind, and knows none that is not.
THEOREM Known == Spec => []OneConnection
<1>1. IInv => OneConnection
  BY DEF IInv, Connection
<1> QED
  BY Invariance, <1>1, PTL

\* NoCallUnbound: up to the end of the server's run, and after the threads are
\* joined, only symbols that were found are called.
THEOREM Bound == Spec => []NoCallUnbound
<1>1. IInv => NoCallUnbound
  <2> SUFFICES ASSUME IInv PROVE NoCallUnbound
    OBVIOUS
  <2>1. \A l \in DOMAIN Calls : Calls[l] \in Symbol
    BY DEF Calls, Symbol
  <2> QED
    BY <2>1 DEF IInv, TypeOK, MainLabel, Binding, CallPending, Calls, NoCallUnbound
<1> QED
  BY Invariance, <1>1, PTL

-----------------------------------------------------------------------------
(* The refinement *)

\* The end of a walk has taken over the whole answer.
LEMMA WalkTakesOver ==
  ASSUME TypeOK, Walked, EndOfList
  PROVE  Abstract!TakeOver(answer)
<1>1. /\ pc = "walk" /\ answer \in Answers /\ answer \in Seq(BatchStatus)
      /\ at = Len(answer) + 1 /\ 1 .. at - 1 = DOMAIN answer
      /\ Seen = before /\ Seen' = table /\ DOMAIN before = DOMAIN table
  BY AnswerAssumption DEF EndOfList, Step, Walked, Seen
<1>2. ASSUME NEW n \in DOMAIN table
      PROVE  table[n] = Abstract!After(answer, before)[n]
  <2> DEFINE Last == CHOOSE i \in DOMAIN answer : Abstract!IsLast(answer, n, i)
  <2>0. Abstract!After(answer, before)[n] =
          IF Abstract!Hosts(answer, n) = {} THEN before[n] ELSE Abstract!Reading(answer[Last])
    BY <1>1 DEF Abstract!After
  <2>1. CASE (\A i \in 1 .. at - 1 : answer[i].node # n) /\ table[n] = before[n]
    <3>1. Abstract!Hosts(answer, n) = {}
      BY <1>1, <2>1 DEF Abstract!Hosts
    <3> QED
      BY <2>0, <2>1, <3>1
  <2>2. ASSUME NEW i \in 1 .. at - 1, LastPassed(answer, at, n, i), table[n] = Abstract!Reading(answer[i])
        PROVE  table[n] = Abstract!After(answer, before)[n]
    <3>1. i \in DOMAIN answer /\ Abstract!IsLast(answer, n, i)
      BY <1>1, <2>2 DEF LastPassed, Abstract!IsLast, Abstract!Hosts
    <3>2. Abstract!IsLast(answer, n, Last) /\ Last \in DOMAIN answer
      BY <3>1
    <3>3. Last = i
      BY <1>1, <3>1, <3>2 DEF Abstract!IsLast, Abstract!Hosts
    <3>4. Abstract!Hosts(answer, n) # {}
      BY <3>1 DEF Abstract!IsLast
    <3> QED
      BY <2>0, <2>2, <3>3, <3>4
  <2> QED
    BY <1>1, <2>1, <2>2 DEF Walked
<1>3. table = Abstract!After(answer, before)
  <2>1. Abstract!After(answer, before) =
          [n \in DOMAIN before |-> Abstract!After(answer, before)[n]]
    BY DEF Abstract!After
  <2>2. table = [n \in DOMAIN table |-> table[n]]
    BY DEF TypeOK
  <2> QED
    BY <1>1, <1>2, <2>1, <2>2
<1> QED
  BY <1>1, <1>3 DEF Abstract!TakeOver

\* Every other step but registering leaves what can be seen of the table.
LEMMA StepTakesOver == IInv /\ [Next]_vars => [Abstract!Next]_Seen
<1> SUFFICES ASSUME TypeOK, Binding, Walked, [Next]_vars PROVE [Abstract!Next]_Seen
  BY DEF IInv
<1>1. CASE EndOfList
  <2>1. Abstract!TakeOver(answer) /\ answer \in Answers
    BY <1>1, WalkTakesOver DEF EndOfList, Step, Walked
  <2> QED
    BY <2>1 DEF Abstract!Next
<1>2. CASE \E n \in Name, garbage \in Garbage : Register(n, garbage)
  <2> PICK n \in Name, garbage \in Garbage : Register(n, garbage)
    BY <1>2
  <2>1. Seen = table /\ Seen' = table' /\ n \notin DOMAIN table
    BY DEF Register, Seen
  <2>2. Abstract!Register(n, garbage)
    BY <2>1 DEF Register, Abstract!Register, Abstract!With, Abstract!NewEntry, NewEntry
  <2> QED
    BY <2>2 DEF Abstract!Next
<1>3. CASE \E a \in Answers : Stathost(a)
  BY <1>3 DEF Stathost, Step, Seen
<1>4. CASE UpdateHost
  BY <1>4 DEF UpdateHost, Seen
<1>5. CASE Statfree
  BY <1>5 DEF Statfree, Step, Seen
<1>6. CASE Main \/ UNCHANGED vars
  BY <1>6 DEF Main, NotConfigured, InitSymbols, StartThread, StartServer, StartServerFails,
     TerminateThread, WaitForThread, Destroy, Exit, walk, vars, Seen, Binding
<1>7. CASE PollTest \/ Connect \/ ConnectFails \/ StathostFails \/ Disconnect \/ Sleep \/ Crash
  BY <1>7 DEF PollTest, Connect, ConnectFails, StathostFails, Disconnect, Sleep, Crash,
     Step, walk, Seen
<1> QED
  BY <1>1, <1>2, <1>3, <1>4, <1>5, <1>6, <1>7 DEF Next, Thread

\* ImplementsPowerTable: whoever takes the mutex sees answers taken over whole,
\* and of several hosts of one name the last.
THEOREM TakesOver == Spec => ImplementsPowerTable
<1>1. Init => Abstract!Init
  BY DEF Init, NoTable, Seen, Abstract!Init, NewEntry, Abstract!NewEntry
<1>2. Spec => Abstract!Spec
  BY Invariance, StepTakesOver, <1>1, PTL DEF Spec, Abstract!Spec
<1> QED
  BY <1>2 DEF ImplementsPowerTable
=============================================================================
