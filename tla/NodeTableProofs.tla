-------------------------- MODULE NodeTableProofs --------------------------
(***************************************************************************)
(* Proofs about the node table: its types, its bound, and the two          *)
(* properties of the listings that hold in every state of the right type.  *)
(***************************************************************************)
EXTENDS NodeTable, CompNodeProofs, FiniteSetTheorems


\* A message is a datagram.
LEMMA MessageType ==
  ASSUME now \in Nat, NEW d \in Message
  PROVE  d \in Datagram
<1>1. Epoch .. now + ClockAhead \subseteq Nat
  BY TableAssumption
<1> QED
  BY <1>1, TableAssumption DEF Message, Datagram

-----------------------------------------------------------------------------
(* Types *)

\* The configured nodes start with entries of their own.
LEMMA TypeInit == Init => TypeOK
<1> SUFFICES ASSUME Init PROVE TypeOK
  OBVIOUS
<1>1. Configured \subseteq Name /\ now \in Epoch .. MaxTime
  BY TableAssumption DEF Init
<1> QED
  BY <1>1, NewNodeType DEF Init, TypeOK, Known

\* The steps that replace one entry.
LEMMA ReplaceType ==
  ASSUME TypeOK, NEW n \in Known, NEW nd \in Node, nodes' = [nodes EXCEPT ![n] = nd]
  PROVE  Known' = Known /\ nodes' \in [Known -> Node]
BY DEF TypeOK, Known

\* Any datagram may be registered.
LEMMA RegisterType ==
  ASSUME TypeOK, NEW n \in Name, NEW d \in Datagram, RegisterNode(n, d)
  PROVE  TypeOK'
<1> USE DEF TypeOK
<1>1. CASE Refresh(n, d)
  <2>1. nodes[n] \in Node
    BY <1>1 DEF Refresh, Known
  <2>2. Hear(nodes[n], d) \in Node
    BY <2>1, EntryTypes
  <2>3. Known' = Known /\ nodes' \in [Known -> Node]
    BY <1>1, <2>2, ReplaceType DEF Refresh
  <2> QED
    BY <2>3 DEF RegisterNode
<1>2. CASE Register(n, d)
  <2>1. Hear(NewNode, d) \in Node
    BY NewNodeType, EntryTypes
  <2>2. Known' = Known \cup {n} /\ nodes' \in [Known \cup {n} -> Node]
    BY <1>2, <2>1 DEF Register, Known
  <2> QED
    BY <2>2 DEF RegisterNode
<1>3. CASE Reject(n)
  BY <1>3 DEF RegisterNode, Reject, Known
<1> QED
  BY <1>1, <1>2, <1>3 DEF RegisterNode

\* Every step keeps the types.
LEMMA TypeStep == TypeOK /\ [Next]_vars => TypeOK'
<1> SUFFICES ASSUME TypeOK, [Next]_vars PROVE TypeOK'
  OBVIOUS
<1> USE DEF TypeOK
<1>now. now \in Nat
  BY TableAssumption
<1>1. CASE UNCHANGED vars
  BY <1>1 DEF vars, Known
<1>2. ASSUME NEW n \in Name, NEW d \in Message, RegisterNode(n, d)
      PROVE  TypeOK'
  BY <1>now, <1>2, MessageType, RegisterType
<1>3. ASSUME NEW S \in SUBSET Name, NEW report \in [S -> PowerStat],
             UpdateNodePowerStatus(report)
      PROVE  TypeOK'
  <2>1. ASSUME NEW n \in Known PROVE
          (IF n \in DOMAIN report THEN [nodes[n] EXCEPT !.powerStat = report[n]]
           ELSE nodes[n]) \in Node
    BY DEF Node
  <2>2. Known' = Known /\ nodes' \in [Known -> Node]
    BY <1>3, <2>1 DEF UpdateNodePowerStatus, Known
  <2> QED
    BY <1>3, <2>2 DEF UpdateNodePowerStatus
<1>4. ASSUME NEW w \in Worker, NEW n \in Name, NEW t \in Epoch .. now,
             WakeOnLAN(w, n, t) \/ StartVNC(w, n, t)
      PROVE  TypeOK'
  <2>1. n \in Known /\ t \in Nat
    BY <1>4, <1>now, TableAssumption DEF WakeOnLAN, StartVNC
  <2>2. MarkPowerOn(nodes[n], t) \in Node /\ MarkStartVNC(nodes[n], t) \in Node
    BY <2>1, EntryTypes
  <2>3. Known' = Known /\ nodes' \in [Known -> Node]
    BY <1>4, <2>1, <2>2, ReplaceType DEF WakeOnLAN, StartVNC
  <2>4. cmd' \in [Worker -> Command \cup {NoCommand}]
    BY <1>4 DEF WakeOnLAN, StartVNC, Command
  <2>5. \A v \in Worker : cmd'[v] # NoCommand => cmd'[v].node \in Known
    BY <1>4, <2>1 DEF WakeOnLAN, StartVNC
  <2> QED
    BY <1>4, <2>3, <2>4, <2>5 DEF WakeOnLAN, StartVNC
<1>5. ASSUME NEW w \in Worker, CommandFails(w)
      PROVE  TypeOK'
  <2>1. cmd[w].node \in Known
    BY <1>5 DEF CommandFails
  <2>2. Unmark(nodes[cmd[w].node], cmd[w].kind) \in Node
    BY <2>1, EntryTypes
  <2>3. Known' = Known /\ nodes' \in [Known -> Node]
    BY <1>5, <2>1, <2>2, ReplaceType DEF CommandFails
  <2> QED
    BY <1>5, <2>3 DEF CommandFails
<1>6. ASSUME NEW w \in Worker, CommandSucceeds(w)
      PROVE  TypeOK'
  BY <1>6 DEF CommandSucceeds, Known
<1>7. ASSUME NEW u \in User, NEW t \in Epoch .. now, NEW sockets \in [Known -> [live : BOOLEAN]],
             RemoteAccessList(u, t, sockets)
      PROVE  TypeOK'
  <2>1. \A n \in Known : Listed(nodes[n], t, u, sockets[n]) \in Node
    BY ListedType
  <2>2. Known' = Known /\ nodes' \in [Known -> Node]
    BY <1>7, <2>1 DEF RemoteAccessList, Known
  <2> QED
    BY <1>7, <2>2 DEF RemoteAccessList
<1>8. CASE Tick
  BY <1>8, TableAssumption DEF Tick, Known
<1> QED
  BY <1>1, <1>2, <1>3, <1>4, <1>5, <1>6, <1>7, <1>8 DEF Next

\* The table is a function from registered names to entries, the clock stays
\* in its bounds, and a running script always has an entry to come back to:
\* no handler ever removes one.
THEOREM Types == Spec => []TypeOK
<1> QED
  BY TypeInit, TypeStep, PTL DEF Spec

-----------------------------------------------------------------------------
(* The bound *)

\* Only Register changes which names are known, and by one.
LEMMA KnownGrows ==
  ASSUME TypeOK, [Next]_vars
  PROVE  \/ Known' = Known
         \/ ~Full /\ \E n \in Name \ Known : Known' = Known \cup {n}
<1>1. CASE UNCHANGED vars
  BY <1>1 DEF vars, Known
<1>2. ASSUME NEW n \in Name, NEW d \in Message, RegisterNode(n, d)
      PROVE  \/ Known' = Known
             \/ ~Full /\ \E m \in Name \ Known : Known' = Known \cup {m}
  BY <1>2 DEF TypeOK, RegisterNode, Refresh, Register, Reject, Known
<1>3. ASSUME NEW S \in SUBSET Name, NEW report \in [S -> PowerStat],
             UpdateNodePowerStatus(report)
      PROVE  Known' = Known
  BY <1>3 DEF UpdateNodePowerStatus, Known
<1>4. ASSUME NEW w \in Worker, NEW n \in Name, NEW t \in Epoch .. now,
             WakeOnLAN(w, n, t) \/ StartVNC(w, n, t)
      PROVE  Known' = Known
  BY <1>4 DEF WakeOnLAN, StartVNC, Known
<1>5. ASSUME NEW w \in Worker, CommandFails(w) \/ CommandSucceeds(w)
      PROVE  Known' = Known
  BY <1>5 DEF CommandFails, CommandSucceeds, Known
<1>6. ASSUME NEW u \in User, NEW t \in Epoch .. now, NEW sockets \in [Known -> [live : BOOLEAN]],
             RemoteAccessList(u, t, sockets)
      PROVE  Known' = Known
  BY <1>6 DEF RemoteAccessList, Known
<1>7. CASE Tick
  BY <1>7 DEF Tick, Known
<1> QED
  BY <1>1, <1>2, <1>3, <1>4, <1>5, <1>6, <1>7 DEF Next

\* Equality is enough to stop at maxnodes, coming from below one at a time.
LEMMA BoundStep == TypeOK /\ TableBounded /\ [Next]_vars => TableBounded'
<1> SUFFICES ASSUME TypeOK, TableBounded, [Next]_vars,
                    Cardinality(Configured) <= MaxNodes
             PROVE  Cardinality(Known') <= MaxNodes
  BY DEF TableBounded
<1>1. IsFiniteSet(Known)
  BY TableAssumption, FS_Subset DEF TypeOK
<1>2. Cardinality(Known) \in Nat /\ Cardinality(Known) <= MaxNodes
  BY <1>1, FS_CardinalityType DEF TableBounded
<1>3. CASE Known' = Known
  BY <1>2, <1>3
<1>4. ASSUME ~Full, NEW n \in Name \ Known, Known' = Known \cup {n}
      PROVE  Cardinality(Known') <= MaxNodes
  <2>1. Cardinality(Known') = Cardinality(Known) + 1
    BY <1>1, <1>4, FS_AddElement
  <2> QED
    BY <1>2, <1>4, <2>1, TableAssumption DEF Full
<1> QED
  BY <1>3, <1>4, KnownGrows

\* If the configured nodes fit into maxnodes the table never outgrows it.
THEOREM Bounded == Spec => []TableBounded
<1>1. Init => TableBounded
  BY DEF Init, TableBounded, Known
<1> QED
  BY <1>1, BoundStep, TypeInit, TypeStep, PTL DEF Spec

\* And then a full table registers nobody, which is false when more nodes are
\* configured than the limit allows.
THEOREM Limited ==
  ASSUME Cardinality(Configured) <= MaxNodes
  PROVE  Spec => LimitHolds
<1>1. ASSUME TypeOK, TableBounded, [Next]_vars
      PROVE  [Cardinality(Known) >= MaxNodes => DOMAIN nodes' = Known]_vars
  <2>1. Cardinality(Known) \in Nat
    BY <1>1, TableAssumption, FS_Subset, FS_CardinalityType DEF TypeOK
  <2>2. Cardinality(Known) >= MaxNodes => Full
    BY <1>1, <2>1, TableAssumption DEF TableBounded, Full
  <2> QED
    BY <1>1, <2>2, KnownGrows DEF Known
<1> QED
  BY <1>1, Types, Bounded, PTL DEF Spec, LimitHolds

-----------------------------------------------------------------------------
(* The listings *)

\* The pages agree in every state of the right type.
LEMMA AgreementState == TypeOK => PagesAgree
<1> SUFFICES ASSUME TypeOK, NEW n \in Known, NEW u \in User, NEW env \in Env,
                    ListStatus(nodes[n], now, u, env) \in Usable
             PROVE  /\ SeatListStatus(nodes[n], now) = "up"
                    /\ DebugStatus(nodes[n], now) = "up"
  BY DEF PagesAgree
<1>1. nodes[n] \in Node /\ now \in Int
  BY TableAssumption DEF TypeOK
<1> QED
  BY <1>1, UsableIsUp

\* And so does what a listing disturbs: no clock of the server is as low as a
\* skew.
LEMMA DisturbanceState == TypeOK => ListingDisturbs
<1> SUFFICES ASSUME TypeOK, NEW n \in Known, NEW u \in User, NEW v \in User,
                    NEW env \in [live : BOOLEAN], NEW env2 \in Env,
                    ListStatus(Listed(nodes[n], now, u, env), now, v, env2)
                      # ListStatus(nodes[n], now, v, env2)
             PROVE  \/ /\ ListStatus(nodes[n], now, v, env2) = "down"
                       /\ ListStatus(Listed(nodes[n], now, u, env), now, v, env2) =
                            "maintenance"
                       /\ nodes[n].powerStat = "up"
                    \/ /\ ListStatus(nodes[n], now, v, env2) = "startvnc"
                       /\ Connected(nodes[n], u, env)
  BY DEF ListingDisturbs
<1>1. nodes[n] \in Node /\ now \in Nat /\ now > DownSkew /\ now > FreshSkew
  BY TableAssumption, SkewAssumption DEF TypeOK
<1> QED
  BY <1>1, ListingChanges

\* The three pages agree whenever they are read together: each page's skew is at
\* least as long as the one of the remote access list.
THEOREM Agreement == Spec => []PagesAgree
BY AgreementState, Types, PTL

\* Reading the remote access list changes what others read next in the two
\* cases of ListingDisturbs and no other.
THEOREM Disturbance == Spec => []ListingDisturbs
BY DisturbanceState, Types, PTL
=============================================================================
