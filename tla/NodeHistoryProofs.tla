------------------------- MODULE NodeHistoryProofs -------------------------
(***************************************************************************)
(* Proofs that the listings tell what was heard.  HistoryInv is inductive  *)
(* and carries UsableIsHeard and OccupiedNotOffered; WakeInv adds the mark *)
(* of a wake, which only another worker's failure takes.                   *)
(***************************************************************************)
EXTENDS NodeHistory, NodeTableProofs

\* The history variables only watch.
LEMMA HistoryWatches ==
  /\ HInit => Init
  /\ [HNext]_hvars => [Next]_vars
<1>1. HInit => Init
  BY DEF HInit
<1>2. ASSUME HNext PROVE Next
  BY <1>2 DEF HNext, Next, HRegisterNode, HUpdateNodePowerStatus, HWakeOnLAN, HStartVNC,
              HCommandFails, HCommandSucceeds, HRemoteAccessList, HTick
<1>3. ASSUME UNCHANGED hvars PROVE UNCHANGED vars
  BY <1>3 DEF hvars, vars
<1> QED
  BY <1>1, <1>2, <1>3

\* Nothing has been heard of the configured nodes.
LEMMA HistoryInit == HInit => HistoryInv
<1> SUFFICES ASSUME HInit PROVE HistoryInv
  OBVIOUS
<1>1. TypeOK
  BY TypeInit DEF HInit
<1>2. HistoryTypeOK
  BY DEF HInit, HistoryTypeOK, Blank, Datagram, Nobody, Activities, PowerStat
<1>3. EntryIsHeard
  BY TableAssumption DEF HInit, Init, EntryIsHeard, Known, NewNode
<1> QED
  BY <1>1, <1>2, <1>3 DEF HistoryInv

\* The history variables keep their types.
LEMMA HistoryTypeStep == HistoryInv /\ [HNext]_hvars => HistoryTypeOK'
<1> SUFFICES ASSUME HistoryInv, [HNext]_hvars PROVE HistoryTypeOK'
  OBVIOUS
<1> USE DEF HistoryTypeOK
<1>0. now \in Nat
  BY TableAssumption DEF HistoryInv, TypeOK
<1>1. CASE UNCHANGED hvars
  BY <1>1 DEF hvars, HistoryInv
<1>2. ASSUME NEW n \in Name, NEW d \in Message, HRegisterNode(n, d)
      PROVE  HistoryTypeOK'
  <2>1. d \in Datagram
    BY <1>0, MessageType
  <2> QED
    BY <1>2, <2>1 DEF HRegisterNode, HistoryInv
<1>3. ASSUME NEW S \in SUBSET Name, NEW report \in [S -> PowerStat],
             HUpdateNodePowerStatus(report)
      PROVE  HistoryTypeOK'
  BY <1>3 DEF HUpdateNodePowerStatus, HistoryInv
<1>4. ASSUME NEW w \in Worker, NEW n \in Name, NEW t \in Epoch .. now, HWakeOnLAN(w, n, t)
      PROVE  HistoryTypeOK'
  <2>1. [at |-> t, by |-> w, kept |-> TRUE] \in Wake
    BY TableAssumption DEF Wake
  <2> QED
    BY <1>4, <2>1 DEF HWakeOnLAN, HistoryInv
<1>5. ASSUME NEW w \in Worker, HCommandFails(w)
      PROVE  HistoryTypeOK'
  <2> DEFINE n == cmd[w].node
             lost == [woken[n] EXCEPT !.kept = FALSE]
  <2>1. UNCHANGED <<heard, reported>>
    BY <1>5 DEF HCommandFails
  <2>2. \/ woken' = woken \/ woken' = [woken EXCEPT ![n] = Never]
        \/ woken' = [woken EXCEPT ![n] = lost] /\ woken[n] # Never
    BY <1>5 DEF HCommandFails
  <2>3. n \in Name /\ woken[n] # Never => lost \in Wake
    BY DEF HistoryInv, Wake
  <2> HIDE DEF lost
  <2>4. woken' \in [Name -> Wake \cup {Never}]
    BY <2>2, <2>3 DEF HistoryInv
  <2> QED
    BY <2>1, <2>4 DEF HistoryInv
<1>6. CASE UNCHANGED history
  BY <1>6 DEF history, HistoryInv
<1> QED
  BY <1>1, <1>2, <1>3, <1>4, <1>5, <1>6
     DEF HNext, HStartVNC, HCommandSucceeds, HRemoteAccessList, HTick

\* No handler puts anything into an entry that was not heard.
LEMMA EntryStep == HistoryInv /\ [HNext]_hvars => EntryIsHeard'
<1> SUFFICES ASSUME HistoryInv, [HNext]_hvars,
                    NEW n \in Known'
             PROVE  /\ nodes'[n].basic \in {Blank, heard'[n]}
                    /\ nodes'[n].powerStat \in {"unknown", reported'[n]}
  BY DEF EntryIsHeard
<1> DEFINE Good == /\ nodes'[n].basic \in {Blank, heard'[n]}
                   /\ nodes'[n].powerStat \in {"unknown", reported'[n]}
<1>0. /\ Known \subseteq Name /\ nodes \in [Known -> Node]
      /\ heard \in [Name -> Datagram] /\ reported \in [Name -> PowerStat]
      /\ cmd \in [Worker -> Command \cup {NoCommand}]
  BY DEF HistoryInv, TypeOK, HistoryTypeOK
<1>old. ASSUME n \in Known
        PROVE  /\ nodes[n] \in Node
               /\ nodes[n].basic \in {Blank, heard[n]}
               /\ nodes[n].powerStat \in {"unknown", reported[n]}
  BY <1>old, <1>0 DEF HistoryInv, EntryIsHeard
<1>1. CASE UNCHANGED hvars
  BY <1>1, <1>old DEF hvars, Known
<1>2. ASSUME NEW m \in Name, NEW d \in Message, HRegisterNode(m, d)
      PROVE  Good
  <2>1. CASE Refresh(m, d)
    BY <1>0, <1>2, <1>old, <2>1 DEF HRegisterNode, Refresh, Hear, Known, Node
  <2>2. CASE Register(m, d)
    <3>1. n # m => n \in Known /\ nodes'[n] = nodes[n]
      BY <2>2 DEF Register, Known
    <3>2. Hear(NewNode, d).basic = d /\ Hear(NewNode, d).powerStat = "unknown"
      BY DEF Hear, NewNode
    <3> QED
      BY <1>0, <1>2, <1>old, <2>2, <3>1, <3>2 DEF HRegisterNode, Register
  <2>3. CASE Reject(m)
    BY <1>0, <1>2, <1>old, <2>3 DEF HRegisterNode, Reject, Known
  <2> QED
    BY <1>2, <2>1, <2>2, <2>3 DEF HRegisterNode, RegisterNode
<1>3. ASSUME NEW S \in SUBSET Name, NEW report \in [S -> PowerStat],
             HUpdateNodePowerStatus(report)
      PROVE  Good
  <2>1. n \in Known
    BY <1>3 DEF HUpdateNodePowerStatus, UpdateNodePowerStatus, Known
  <2>2. nodes'[n] = IF n \in DOMAIN report THEN [nodes[n] EXCEPT !.powerStat = report[n]]
                    ELSE nodes[n]
    BY <1>3, <2>1 DEF HUpdateNodePowerStatus, UpdateNodePowerStatus
  <2> QED
    BY <1>0, <1>3, <1>old, <2>1, <2>2 DEF HUpdateNodePowerStatus, Node
<1>4. ASSUME NEW w \in Worker, NEW m \in Name, NEW t \in Epoch .. now,
             HWakeOnLAN(w, m, t) \/ HStartVNC(w, m, t)
      PROVE  Good
  <2>1. n \in Known /\ nodes'[n] \in {nodes[n], MarkPowerOn(nodes[n], t), MarkStartVNC(nodes[n], t)}
    BY <1>0, <1>4 DEF HWakeOnLAN, HStartVNC, WakeOnLAN, StartVNC, Known
  <2>2. UNCHANGED <<heard, reported>>
    BY <1>4 DEF HWakeOnLAN, HStartVNC, history
  <2> QED
    BY <1>old, <2>1, <2>2, MarksKeep
<1>5. ASSUME NEW w \in Worker, HCommandFails(w)
      PROVE  Good
  <2>1. n \in Known /\ nodes'[n] \in {nodes[n], Unmark(nodes[n], cmd[w].kind)}
    BY <1>0, <1>5 DEF HCommandFails, CommandFails, Known
  <2> QED
    BY <1>5, <1>old, <2>1, MarksKeep DEF HCommandFails
<1>6. ASSUME NEW w \in Worker, HCommandSucceeds(w)
      PROVE  Good
  BY <1>6, <1>old DEF HCommandSucceeds, CommandSucceeds, history, Known
<1>7. ASSUME NEW u \in User, NEW t \in Epoch .. now, NEW sockets \in [Known -> [live : BOOLEAN]],
             HRemoteAccessList(u, t, sockets)
      PROVE  Good
  <2>1. n \in Known /\ nodes'[n] = Listed(nodes[n], t, u, sockets[n])
    BY <1>7 DEF HRemoteAccessList, RemoteAccessList, Known
  <2> QED
    BY <1>7, <1>old, <2>1, ListedKeeps DEF HRemoteAccessList, history
<1>8. CASE HTick
  BY <1>8, <1>old DEF HTick, Tick, history, Known
<1> QED
  BY <1>1, <1>2, <1>3, <1>4, <1>5, <1>6, <1>7, <1>8 DEF HNext

\* HistoryInv is inductive.
LEMMA HistoryStep == HistoryInv /\ [HNext]_hvars => HistoryInv'
BY HistoryWatches, TypeStep, HistoryTypeStep, EntryStep DEF HistoryInv

\* So it holds in every reachable state.
LEMMA HistoryHolds == HSpec => []HistoryInv
BY HistoryInit, HistoryStep, PTL DEF HSpec

-----------------------------------------------------------------------------
(* What is listed was heard *)

\* A usable node answers on word no older than FreshSkew, which a forgotten
\* entry never has: the clock is past FreshSkew.
LEMMA AnsweringIsHeard ==
  ASSUME HistoryInv, NEW n \in Known, Answering(nodes[n], now)
  PROVE  /\ nodes[n].basic = heard[n]
         /\ now - heard[n].ts <= FreshSkew
         /\ ~heard[n].down
         /\ reported[n] = "up"
<1>1. /\ nodes[n] \in Node /\ now \in Nat /\ now > FreshSkew /\ nodes[n].basic.ts \in Nat
      /\ FreshSkew \in Nat
  BY TableAssumption, SkewAssumption DEF HistoryInv, TypeOK, Node, Datagram
<1>2. nodes[n].powerStat = "up" /\ ~nodes[n].basic.down
  BY <1>1 DEF Answering, InMaintenance, PoweringOff, Node, PowerStat
<1>3. now - nodes[n].basic.ts <= FreshSkew
  BY <1>1, <1>2 DEF Answering, Age
<1>4. nodes[n].basic # Blank
  BY <1>1, <1>3 DEF Blank
<1>5. nodes[n].basic = heard[n] /\ reported[n] = "up"
  BY <1>2, <1>4 DEF HistoryInv, EntryIsHeard
<1> QED
  BY <1>2, <1>3, <1>5

\* What the server shows as usable was said to it, recently and by both the
\* node and the batch system.
THEOREM Usability == HSpec => []UsableIsHeard
<1>1. HistoryInv => UsableIsHeard
  BY AnsweringIsHeard, UsableIsAnswering DEF UsableIsHeard
<1> QED
  BY <1>1, HistoryHolds, PTL

\* A node somebody sits at, locally or in a remote desktop, is not offered.
THEOREM Occupancy == HSpec => []OccupiedNotOffered
<1>1. HistoryInv => OccupiedNotOffered
  <2> SUFFICES ASSUME HistoryInv, NEW n \in Known, NEW u \in User, NEW env \in Env,
                      ListStatus(nodes[n], now, u, env) \in Offered
               PROVE  /\ heard[n].who.local = {}
                      /\ \A s \in heard[n].who.remote : s[1] = "S"
    BY DEF OccupiedNotOffered
  <2>1. Answering(nodes[n], now)
    BY UsableIsAnswering DEF Offered, Usable
  <2>2. nodes[n].basic = heard[n]
    BY <2>1, AnsweringIsHeard
  <2>3. SeatStatus(nodes[n], now, u, env) \in Offered
    BY <2>1 DEF ListStatus, Answering
  <2>4. ~Occupied(heard[n].who)
    BY <2>2, <2>3 DEF SeatStatus, Offered
  <2>5. heard[n].who \in Activities
    <3>1. heard[n] \in Datagram
      BY DEF HistoryInv, HistoryTypeOK, TypeOK
    <3> QED
      BY <3>1 DEF Datagram
  <2>6. ASSUME NEW s \in heard[n].who.remote PROVE s[1] = "S"
    <3>1. s \in LoginType \X User
      BY <2>5, <2>6 DEF Activities
    <3>2. PICK k \in LoginType, v \in User : s = <<k, v>>
      BY <3>1
    <3>3. k \notin {"R", "V"}
      BY <2>4, <2>6, <3>2 DEF Occupied
    <3> QED
      BY <3>2, <3>3 DEF LoginType
  <2> QED
    BY <2>4, <2>6 DEF Occupied
<1> QED
  BY <1>1, HistoryHolds, PTL

-----------------------------------------------------------------------------
(* Wakes *)

\* A wake marks the node, unless it is in maintenance.
LEMMA WakeMarks ==
  ASSUME HistoryInv, NEW w \in Worker, NEW n \in Name, NEW t \in Epoch .. now,
         HWakeOnLAN(w, n, t), woken'[n] # Never
  PROVE  Marked(n)'
<1>1. /\ nodes \in [Known -> Node] /\ woken \in [Name -> Wake \cup {Never}]
      /\ n \in Known /\ nodes[n] \in Node
  BY DEF HistoryInv, TypeOK, HistoryTypeOK, HWakeOnLAN, WakeOnLAN, Known
<1>2. nodes'[n] = MarkPowerOn(nodes[n], t)
  BY <1>1 DEF HWakeOnLAN, WakeOnLAN
<1>3. /\ woken'[n] = [at |-> t, by |-> w, kept |-> TRUE]
      /\ ~InMaintenance(nodes[n])
  BY <1>1 DEF HWakeOnLAN
<1> QED
  BY <1>1, <1>2, <1>3 DEF Marked, MarkPowerOn, InMaintenance, Node

\* The mark of a wake stays for its window: a datagram and a report of
\* maintenance call the wake off with it, and so does the failure of that very
\* command.
LEMMA MarkStep ==
  ASSUME HistoryInv, [HNext]_hvars, NEW n \in Known', InForce(n)',
         ~(n \in Known /\ InForce(n) /\ (~Marked(n) \/ OthersFailure(n)))
  PROVE  Marked(n)'
<1>0. /\ Known \subseteq Name /\ nodes \in [Known -> Node] /\ now \in Nat
      /\ woken \in [Name -> Wake \cup {Never}]
      /\ cmd \in [Worker -> Command \cup {NoCommand}]
  BY TableAssumption DEF HistoryInv, TypeOK, HistoryTypeOK
<1>old. ASSUME n \in Known, woken[n] # Never, now - woken[n].at < DownSkew
        PROVE  /\ nodes[n] \in Node
               /\ nodes[n].inPowerOnMode
               /\ nodes[n].powerOnTime = woken[n].at
               /\ ~InMaintenance(nodes[n])
               /\ ~OthersFailure(n)
  BY <1>old, <1>0 DEF InForce, Marked
<1>new. woken'[n] # Never /\ now' - woken'[n].at < DownSkew
  BY DEF InForce
<1> USE <1>new
<1> DEFINE Kept == /\ nodes'[n].inPowerOnMode
                   /\ nodes'[n].powerOnTime = woken'[n].at
                   /\ ~InMaintenance(nodes'[n])
<1> SUFFICES Kept
  BY DEF Marked, InMaintenance
<1>1. CASE UNCHANGED hvars
  BY <1>1, <1>old DEF hvars, Known
<1>2. ASSUME NEW m \in Name, NEW d \in Message, HRegisterNode(m, d)
      PROVE  Kept
  <2>1. n # m
    BY <1>0, <1>2 DEF HRegisterNode
  <2>2. n \in Known /\ nodes'[n] = nodes[n]
    BY <1>0, <1>2, <2>1
       DEF HRegisterNode, RegisterNode, Refresh, Register, Reject, Known
  <2>3. woken'[n] = woken[n] /\ now' = now
    BY <1>0, <1>2, <2>1, <2>2 DEF HRegisterNode, RegisterNode
  <2> QED
    BY <1>old, <2>2, <2>3
<1>3. ASSUME NEW S \in SUBSET Name, NEW report \in [S -> PowerStat],
             HUpdateNodePowerStatus(report)
      PROVE  Kept
  <2>1. n \in Known /\ now' = now
    BY <1>3 DEF HUpdateNodePowerStatus, UpdateNodePowerStatus, Known
  <2>2. nodes'[n] = IF n \in DOMAIN report THEN [nodes[n] EXCEPT !.powerStat = report[n]]
                    ELSE nodes[n]
    BY <1>3, <2>1 DEF HUpdateNodePowerStatus, UpdateNodePowerStatus
  <2>3. /\ woken'[n] = woken[n]
        /\ n \in DOMAIN report => report[n] \notin {"maintenance", "unknown"}
    BY <1>0, <1>3, <2>1 DEF HUpdateNodePowerStatus
  <2> QED
    BY <1>0, <1>old, <2>1, <2>2, <2>3 DEF Node, InMaintenance
<1>4. ASSUME NEW w \in Worker, NEW m \in Name, NEW t \in Epoch .. now, HWakeOnLAN(w, m, t)
      PROVE  Kept
  <2>1. n \in Known /\ m \in Known /\ now' = now
    BY <1>0, <1>4 DEF HWakeOnLAN, WakeOnLAN, Known
  <2>2. CASE n = m
    BY <1>4, <2>2, WakeMarks DEF Marked, InMaintenance
  <2>3. CASE n # m
    BY <1>0, <1>4, <1>old, <2>1, <2>3 DEF HWakeOnLAN, WakeOnLAN
  <2> QED
    BY <2>2, <2>3
<1>5. ASSUME NEW w \in Worker, NEW m \in Name, NEW t \in Epoch .. now, HStartVNC(w, m, t)
      PROVE  Kept
  <2>1. /\ n \in Known /\ nodes'[n] \in {nodes[n], MarkStartVNC(nodes[n], t)}
        /\ now' = now /\ woken' = woken
    BY <1>0, <1>5 DEF HStartVNC, StartVNC, Known, history
  <2> QED
    BY <1>old, <2>1 DEF MarkStartVNC, InMaintenance, Node
<1>6. ASSUME NEW w \in Worker, HCommandFails(w)
      PROVE  Kept
  <2> DEFINE m == cmd[w].node
  <2>1. m \in Known /\ n \in Known /\ now' = now
    BY <1>0, <1>6 DEF HCommandFails, CommandFails, Known, HistoryInv, TypeOK
  <2>2. CASE n = m /\ cmd[w].kind = "wake"
    <3>1. cmd[w] = [kind |-> "wake", node |-> n]
      BY <1>0, <1>6, <2>2 DEF HCommandFails, CommandFails, Command
    <3>2. woken[n] # Never /\ woken[n].by # w /\ now - woken[n].at < DownSkew
      BY <1>0, <1>6, <2>1, <2>2 DEF HCommandFails, Wake
    <3> QED
      BY <1>6, <1>old, <2>1, <3>1, <3>2 DEF OthersFailure
  <2>3. CASE ~(n = m /\ cmd[w].kind = "wake")
    <3>1. nodes'[n] = IF n = m THEN [nodes[n] EXCEPT !.inStartVNCMode = FALSE] ELSE nodes[n]
      BY <1>0, <1>6, <2>1, <2>3 DEF HCommandFails, CommandFails, Unmark
    <3>2. woken'[n] = woken[n]
      BY <1>0, <1>6, <2>1, <2>3 DEF HCommandFails
    <3> QED
      BY <1>old, <2>1, <3>1, <3>2 DEF InMaintenance, Node
  <2> QED
    BY <2>2, <2>3
<1>7. ASSUME NEW w \in Worker, HCommandSucceeds(w)
      PROVE  Kept
  BY <1>7, <1>old DEF HCommandSucceeds, CommandSucceeds, history, Known
<1>8. ASSUME NEW u \in User, NEW t \in Epoch .. now, NEW sockets \in [Known -> [live : BOOLEAN]],
             HRemoteAccessList(u, t, sockets)
      PROVE  Kept
  <2>1. /\ n \in Known /\ nodes'[n] = Listed(nodes[n], t, u, sockets[n])
        /\ now' = now /\ woken' = woken
    BY <1>8 DEF HRemoteAccessList, RemoteAccessList, Known, history
  <2>2. woken[n].at \in Nat /\ DownSkew \in Nat /\ t \in Int /\ t <= now
    BY <1>0, <2>1, SkewAssumption, TableAssumption DEF Wake, Never
  <2>3. t - woken[n].at < DownSkew /\ now - woken[n].at < DownSkew
    BY <1>0, <2>1, <2>2
  <2> QED
    BY <1>old, <2>1, <2>3, ListedKeepsWake
<1>9. CASE HTick
  <2>1. n \in Known /\ nodes' = nodes /\ woken' = woken /\ now' = now + 1
    BY <1>9 DEF HTick, Tick, history, Known
  <2>2. woken[n].at \in Nat /\ DownSkew \in Nat
    BY <1>0, <2>1, SkewAssumption DEF Wake, Never
  <2>3. now - woken[n].at < DownSkew
    BY <1>0, <2>1, <2>2
  <2> QED
    BY <1>old, <2>1, <2>3
<1> QED
  BY <1>1, <1>2, <1>3, <1>4, <1>5, <1>6, <1>7, <1>8, <1>9 DEF HNext

\* MarkKept: whatever is listed and reported and whichever commands run, by any
\* number of workers, a wake loses its mark to another's failure only.
THEOREM Marking == HSpec => MarkKept
<1>1. ASSUME HistoryInv, [HNext]_hvars
      PROVE  [\A n \in Known' :
                InForce(n)' => \/ Marked(n)'
                               \/ /\ n \in Known /\ InForce(n)
                                  /\ ~Marked(n) \/ OthersFailure(n)]_hvars
  BY <1>1, MarkStep
<1> QED
  BY <1>1, HistoryHolds, PTL DEF HSpec, MarkKept

\* Nothing but a new wake restores what another worker's failure has taken.
LEMMA KeptStep ==
  ASSUME HistoryInv, [HNext]_hvars, NEW n \in Name, woken'[n] # Never, woken'[n].kept
  PROVE  \/ woken[n] # Never /\ woken[n].kept
         \/ \E w \in Worker, t \in Epoch .. now : HWakeOnLAN(w, n, t)
<1> DEFINE Kept == woken[n] # Never /\ woken[n].kept
<1>0. woken \in [Name -> Wake \cup {Never}]
  BY DEF HistoryInv, HistoryTypeOK
<1>1. CASE UNCHANGED woken
  BY <1>1
<1>2. ASSUME NEW m \in Name, NEW d \in Message, HRegisterNode(m, d)
      PROVE  Kept
  BY <1>0, <1>2 DEF HRegisterNode
<1>3. ASSUME NEW S \in SUBSET Name, NEW report \in [S -> PowerStat],
             HUpdateNodePowerStatus(report)
      PROVE  Kept
  BY <1>0, <1>3 DEF HUpdateNodePowerStatus
<1>4. ASSUME NEW w \in Worker, NEW m \in Name, NEW t \in Epoch .. now, HWakeOnLAN(w, m, t)
      PROVE  Kept \/ m = n
  BY <1>0, <1>4 DEF HWakeOnLAN
<1>5. ASSUME NEW w \in Worker, HCommandFails(w)
      PROVE  Kept
  <2> DEFINE m == cmd[w].node
             lost == [woken[m] EXCEPT !.kept = FALSE]
  <2>1. \/ woken' = woken \/ woken' = [woken EXCEPT ![m] = Never]
        \/ woken' = [woken EXCEPT ![m] = lost] /\ woken[m] # Never
    BY <1>5 DEF HCommandFails
  <2>2. m = n /\ woken[m] # Never => lost.kept = FALSE
    BY <1>0 DEF Wake
  <2>3. n # m => woken'[n] = woken[n]
    BY <1>0, <2>1
  <2>4. n = m => woken' = woken
    BY <1>0, <2>1, <2>2
  <2> QED
    BY <2>3, <2>4
<1> QED
  BY <1>1, <1>2, <1>3, <1>4, <1>5
     DEF HNext, HStartVNC, HCommandSucceeds, HRemoteAccessList, HTick, history, hvars

LEMMA WakeStep == WakeInv /\ [HNext]_hvars => WakeIsMarked'
<1> SUFFICES ASSUME WakeInv, [HNext]_hvars, NEW n \in Known', InForce(n)', woken'[n].kept
             PROVE  Marked(n)'
  BY DEF WakeIsMarked
<1>1. /\ HistoryInv /\ n \in Name /\ woken \in [Name -> Wake \cup {Never}]
      /\ woken'[n] # Never
  BY HistoryStep DEF WakeInv, HistoryInv, TypeOK, HistoryTypeOK, InForce
<1>2. ASSUME NEW w \in Worker, NEW t \in Epoch .. now, HWakeOnLAN(w, n, t)
      PROVE  Marked(n)'
  BY <1>1, <1>2, WakeMarks
<1>3. CASE woken[n] # Never /\ woken[n].kept
  <2>1. n \in Known /\ InForce(n) => Marked(n)
    BY <1>3 DEF WakeInv, WakeIsMarked
  <2>2. ASSUME InForce(n), OthersFailure(n)
        PROVE  FALSE
    <3>1. PICK w \in Worker : /\ HCommandFails(w) /\ w # woken[n].by
                              /\ cmd[w] = [kind |-> "wake", node |-> n]
      BY <2>2 DEF OthersFailure
    <3>2. cmd[w].kind = "wake" /\ cmd[w].node = n
      BY <3>1
    <3>3. woken' = [woken EXCEPT ![n] = [woken[n] EXCEPT !.kept = FALSE]]
      BY <1>1, <1>3, <3>1, <3>2 DEF HCommandFails
    <3>4. woken'[n].kept = FALSE
      BY <1>1, <1>3, <3>3 DEF Wake
    <3> QED
      BY <3>4
  <2> QED
    BY <1>1, <2>1, <2>2, MarkStep
<1> QED
  BY <1>1, <1>2, <1>3, KeptStep

\* WakeInv: a wake that nothing called off has its mark and its time, and the
\* batch system's maintenance does not stand before it, for any number of
\* workers; unless another worker's wake of the node has failed since.
THEOREM WakeMarked == HSpec => []WakeInv
<1>1. HInit => WakeInv
  <2>1. HInit => WakeIsMarked
    BY TableAssumption DEF HInit, Init, WakeIsMarked, Known, InForce
  <2> QED
    BY <2>1, HistoryInit DEF WakeInv
<1>2. WakeInv /\ [HNext]_hvars => WakeInv'
  BY HistoryStep, WakeStep DEF WakeInv
<1> QED
  BY <1>1, <1>2, PTL DEF HSpec

\* WakeShown: such a wake is shown for its whole window, however many workers
\* serve requests.
THEOREM Waking == HSpec => []WakeShown
<1>1. WakeInv => WakeShown
  BY DEF WakeInv, WakeIsMarked, WakeShown, ListStatus, PoweringOn, Marked, InForce
<1> QED
  BY <1>1, WakeMarked, PTL
=============================================================================
