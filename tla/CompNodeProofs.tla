--------------------------- MODULE CompNodeProofs ---------------------------
(***************************************************************************)
(* Lemmas about one entry of the table: what each operation makes of it    *)
(* and which statuses follow from what.                                    *)
(***************************************************************************)
EXTENDS CompNode, TLAPS

\* CCompNode's constructor makes an entry.
LEMMA NewNodeType == NewNode \in Node
BY DEF NewNode, Node, Blank, Datagram, Nobody, Activities, PowerStat

\* Every operation on one entry yields an entry.
LEMMA EntryTypes ==
  ASSUME NEW nd \in Node
  PROVE  /\ Clear(nd) \in Node
         /\ \A d \in Datagram : Hear(nd, d) \in Node
         /\ \A t \in Nat : MarkPowerOn(nd, t) \in Node /\ MarkStartVNC(nd, t) \in Node
         /\ \A kind : Unmark(nd, kind) \in Node
<1>2. Clear(nd) \in Node
  BY NewNodeType DEF Clear, NewNode, Node
<1>3. ASSUME NEW d \in Datagram PROVE Hear(nd, d) \in Node
  BY DEF Hear, Node
<1>4. ASSUME NEW t \in Nat
      PROVE  MarkPowerOn(nd, t) \in Node /\ MarkStartVNC(nd, t) \in Node
  BY DEF MarkPowerOn, MarkStartVNC, Node
<1>5. ASSUME NEW kind PROVE Unmark(nd, kind) \in Node
  BY DEF Unmark, Node
<1> QED
  BY <1>2, <1>3, <1>4, <1>5

\* And so does a listing, for whomever it is.
LEMMA ListedType ==
  ASSUME NEW nd \in Node, NEW t, NEW u, NEW env
  PROVE  Listed(nd, t, u, env) \in Node
<1> DEFINE vnc == StartingVNC(nd, t) /\ ~Connected(nd, u, env)
<1>1. vnc \in BOOLEAN
  BY DEF StartingVNC, Connected
<1>2. [nd EXCEPT !.inStartVNCMode = vnc] \in Node
  BY <1>1 DEF Node
<1> QED
  BY <1>2, EntryTypes DEF Listed

\* Marks and their removal leave alone what was heard of the node.
LEMMA MarksKeep ==
  ASSUME NEW nd \in Node, NEW t, NEW kind
  PROVE  /\ MarkPowerOn(nd, t).basic = nd.basic
         /\ MarkPowerOn(nd, t).powerStat = nd.powerStat
         /\ MarkStartVNC(nd, t).basic = nd.basic
         /\ MarkStartVNC(nd, t).powerStat = nd.powerStat
         /\ Unmark(nd, kind).basic = nd.basic
         /\ Unmark(nd, kind).powerStat = nd.powerStat
BY DEF MarkPowerOn, MarkStartVNC, Unmark, Node

\* Listing forgets what was heard or keeps it.
LEMMA ListedKeeps ==
  ASSUME NEW nd \in Node, NEW t, NEW u, NEW env
  PROVE  /\ Listed(nd, t, u, env).basic \in {Blank, nd.basic}
         /\ Listed(nd, t, u, env).powerStat = nd.powerStat
BY DEF Listed, Clear, NewNode, Node

\* While its window is open, listing cannot touch a marked node.
LEMMA ListedKeepsWake ==
  ASSUME NEW nd \in Node, NEW t, NEW u, NEW env,
         nd.inPowerOnMode, t - nd.powerOnTime < DownSkew, ~InMaintenance(nd)
  PROVE  Listed(nd, t, u, env) = nd
BY DEF Listed, PoweringOn, PoweringOff, Answering

-----------------------------------------------------------------------------
(* Statuses *)

\* A node that the remote access list lets someone use is answering.
LEMMA UsableIsAnswering ==
  ASSUME NEW nd, NEW t, NEW u, NEW env, ListStatus(nd, t, u, env) \in Usable
  PROVE  Answering(nd, t)
BY DEF ListStatus, Usable

\* A forgotten entry is silent, and the power report alone decides its status.
LEMMA ForgottenStatus ==
  ASSUME NEW nd \in Node, NEW t \in Nat, t > DownSkew, t > FreshSkew, NEW v, NEW env
  PROVE  ListStatus(Clear(nd), t, v, env) =
           IF nd.powerStat = "down" THEN "down" ELSE "maintenance"
<1> DEFINE c == Clear(nd)
<1>1. /\ c.powerStat = nd.powerStat
      /\ c.inPowerOnMode = FALSE
      /\ c.basic.down = FALSE
      /\ c.basic.ts = 0
  BY DEF Clear, NewNode, Blank
<1>2. nd.powerStat \in PowerStat
  BY DEF Node
<1>3. Age(c, t) = t
  BY <1>1 DEF Age
<1>4. ~PoweringOn(c, t) /\ Silent(c, t)
  BY <1>1, <1>3 DEF PoweringOn, Silent
<1>5. PoweringOff(c, t) <=> nd.powerStat = "down"
  BY <1>1, <1>4 DEF PoweringOff, InMaintenance
<1>6. ~Answering(c, t)
  BY <1>1, <1>2, <1>3, <1>5 DEF Answering, InMaintenance, PowerStat
<1> QED
  BY <1>4, <1>5, <1>6 DEF ListStatus

\* Taking the start mark away changes what a page shows in one case.
LEMMA MarkStatus ==
  ASSUME NEW nd \in Node, NEW t, NEW u, NEW v, NEW env, NEW env2, Answering(nd, t)
  PROVE  LET mark == StartingVNC(nd, t) /\ ~Connected(nd, u, env)
             nd2  == [nd EXCEPT !.inStartVNCMode = mark]
         IN  ListStatus(nd2, t, v, env2) # ListStatus(nd, t, v, env2) =>
               /\ ListStatus(nd, t, v, env2) = "startvnc"
               /\ Connected(nd, u, env)
<1> DEFINE mark == StartingVNC(nd, t) /\ ~Connected(nd, u, env)
           nd2  == [nd EXCEPT !.inStartVNCMode = mark]
<1>1. /\ nd2.powerStat = nd.powerStat
      /\ nd2.basic = nd.basic
      /\ nd2.inPowerOnMode = nd.inPowerOnMode
      /\ nd2.powerOnTime = nd.powerOnTime
      /\ nd2.startVNCTime = nd.startVNCTime
      /\ nd2.inStartVNCMode = mark
  BY DEF Node
<1> HIDE DEF nd2
<1>2. InMaintenance(nd2) = InMaintenance(nd) /\ PoweringOn(nd2, t) = PoweringOn(nd, t)
  BY <1>1 DEF InMaintenance, PoweringOn
<1>3. PoweringOff(nd2, t) = PoweringOff(nd, t)
  BY <1>1, <1>2 DEF PoweringOff
<1>4. Answering(nd2, t) /\ Age(nd2, t) = Age(nd, t)
  BY <1>1, <1>2, <1>3 DEF Answering, Age
<1>5. /\ ListStatus(nd, t, v, env2) = SeatStatus(nd, t, v, env2)
      /\ ListStatus(nd2, t, v, env2) = SeatStatus(nd2, t, v, env2)
  BY <1>4 DEF ListStatus, Answering
<1>6. Connected(nd2, v, env2) = Connected(nd, v, env2)
  BY <1>1 DEF Connected
<1>7. StartingVNC(nd2, t) <=> StartingVNC(nd, t) /\ ~Connected(nd, u, env)
  BY <1>1 DEF StartingVNC
<1>8. CASE StartingVNC(nd, t) /\ Connected(nd, u, env) /\ ~Connected(nd, v, env2)
  BY <1>5, <1>8 DEF SeatStatus, nd2
<1>9. CASE ~(StartingVNC(nd, t) /\ Connected(nd, u, env) /\ ~Connected(nd, v, env2))
  <2>1. SeatStatus(nd2, t, v, env2) = SeatStatus(nd, t, v, env2)
    BY <1>1, <1>6, <1>7, <1>9 DEF SeatStatus
  <2> QED
    BY <1>5, <2>1 DEF nd2
<1> QED
  BY <1>8, <1>9

-----------------------------------------------------------------------------
(* The pages *)

\* What the remote access list offers is up on the other pages: their skews are
\* at least as long.
LEMMA UsableIsUp ==
  ASSUME NEW nd \in Node, NEW t \in Int, NEW u, NEW env,
         ListStatus(nd, t, u, env) \in Usable
  PROVE  SeatListStatus(nd, t) = "up" /\ DebugStatus(nd, t) = "up"
<1>1. nd.basic.ts \in Int
  BY DEF Node, Datagram
<1>2. Answering(nd, t)
  BY UsableIsAnswering
<1>3. nd.powerStat = "up" /\ ~nd.basic.down
  BY <1>1, <1>2 DEF Answering, InMaintenance, PoweringOff, Node, PowerStat
<1>4. Age(nd, t) \in Int /\ Age(nd, t) <= FreshSkew
  BY <1>1, <1>2, <1>3, SkewAssumption DEF Answering, Age
<1> QED
  BY <1>3, <1>4, SkewAssumption DEF SeatListStatus, DebugStatus

\* Once u has listed the node, v sees another status of it in two cases only.
LEMMA ListingChanges ==
  ASSUME NEW nd \in Node, NEW t \in Nat, t > DownSkew, t > FreshSkew,
         NEW u, NEW v, NEW env, NEW env2,
         ListStatus(Listed(nd, t, u, env), t, v, env2) # ListStatus(nd, t, v, env2)
  PROVE  \/ /\ ListStatus(nd, t, v, env2) = "down"
            /\ ListStatus(Listed(nd, t, u, env), t, v, env2) = "maintenance"
            /\ nd.powerStat = "up"
         \/ /\ ListStatus(nd, t, v, env2) = "startvnc"
            /\ Connected(nd, u, env)
<1>1. nd.powerStat \in PowerStat
  BY DEF Node
<1>2. CASE InMaintenance(nd) /\ Silent(nd, t)
  <2>1. ListStatus(nd, t, v, env2) = "maintenance"
    BY <1>2 DEF ListStatus, PoweringOn, PoweringOff, Answering
  <2>2. ListStatus(Listed(nd, t, u, env), t, v, env2) = "maintenance"
    BY <1>2, ForgottenStatus DEF Listed, InMaintenance
  <2> QED
    BY <2>1, <2>2
<1>3. CASE ~InMaintenance(nd) /\ PoweringOff(nd, t) /\ Silent(nd, t)
  <2>1. ListStatus(nd, t, v, env2) = "down"
    BY <1>3 DEF ListStatus, PoweringOff
  <2>2. ListStatus(Listed(nd, t, u, env), t, v, env2) =
          IF nd.powerStat = "down" THEN "down" ELSE "maintenance"
    BY <1>3, ForgottenStatus DEF Listed
  <2>3. nd.powerStat \in {"up", "down"}
    BY <1>1, <1>3 DEF InMaintenance, PowerStat
  <2> QED
    BY <2>1, <2>2, <2>3
<1>4. CASE Answering(nd, t)
  <2>1. ~((InMaintenance(nd) \/ PoweringOff(nd, t)) /\ Silent(nd, t))
    BY <1>4 DEF Answering
  <2> QED
    BY <1>4, <2>1, MarkStatus DEF Listed
<1>5. CASE /\ ~((InMaintenance(nd) \/ PoweringOff(nd, t)) /\ Silent(nd, t))
           /\ ~Answering(nd, t)
  BY <1>5 DEF Listed
<1> QED
  BY <1>2, <1>3, <1>4, <1>5
=============================================================================
