------------------------------ MODULE CompNode ------------------------------
(***************************************************************************)
(* One entry of the server's node table (class CCompNode) and what the     *)
(* request handlers read out of it: the status of the node in the remote   *)
(* access list, in the seat lists and on the debug page.                   *)
(*                                                                         *)
(* Times are seconds of the server's wall clock.  A user session is kept   *)
(* as the pair of its type and its login; names, displays and the order of *)
(* the sessions in the datagram are left out.                              *)
(***************************************************************************)
EXTENDS Integers

CONSTANTS
  User,       \* login names
  DownSkew,   \* 240: silence after which a node is forgotten, poweron window
  FreshSkew,  \* 180: age up to which the remote access list trusts a datagram
  SeatSkew,   \* 180: the same in the two seat lists
  DebugSkew,  \* 300: the same on the debug page
  VNCSkew     \* 90: how long a remote desktop may take to start

ASSUME SkewAssumption ==
  /\ {DownSkew, FreshSkew, SeatSkew, DebugSkew, VNCSkew} \subseteq Nat
  /\ FreshSkew <= SeatSkew
  /\ SeatSkew <= DebugSkew

-----------------------------------------------------------------------------
(* The entry *)

\* CStatDatagram's session types: RDSK, VNC, ssh.
LoginType == {"R", "V", "S"}

\* Who uses a node: logins at its local seats, remote logins with their type.
Activities == [local : SUBSET User, remote : SUBSET (LoginType \X User)]
Nobody == [local |-> {}, remote |-> {}]

\* ts is the client's measurement time, down its shutdown notice.
Datagram == [ts : Nat, down : BOOLEAN, who : Activities]
Blank == [ts |-> 0, down |-> FALSE, who |-> Nobody]

PowerStat == {"down", "up", "maintenance", "unknown"}

Node == [basic          : Datagram,
         inPowerOnMode  : BOOLEAN, powerOnTime  : Nat,
         inStartVNCMode : BOOLEAN, startVNCTime : Nat,
         powerStat      : PowerStat]

NewNode == [basic          |-> Blank,
            inPowerOnMode  |-> FALSE, powerOnTime  |-> 0,
            inStartVNCMode |-> FALSE, startVNCTime |-> 0,
            powerStat      |-> "unknown"]

\* Everything a client or a user told about the node is forgotten; what the
\* batch system told is kept.
Clear(nd) == [NewNode EXCEPT !.powerStat = nd.powerStat]

\* Mutant: a notice stays until the node is forgotten.
Hear_KeepsNotice(nd, d) ==
  [nd EXCEPT !.basic = [d EXCEPT !.down = @ \/ nd.basic.down], !.inPowerOnMode = FALSE,
             !.powerOnTime = 0]

\* A datagram replaces the last one and ends a wake.
Hear(nd, d) ==
  [nd EXCEPT !.basic = d, !.inPowerOnMode = FALSE, !.powerOnTime = 0]

\* The marks of the two commands carry the time t read before the mutex was
\* taken; a script that fails takes its mark back, whoever set it last.
\* Mutant: the time of the mark is forgotten.
MarkPowerOn_NoTime(nd, t) == [nd EXCEPT !.inPowerOnMode = TRUE]
MarkPowerOn(nd, t) == [nd EXCEPT !.inPowerOnMode = TRUE, !.powerOnTime = t]
MarkStartVNC(nd, t) == [nd EXCEPT !.inStartVNCMode = TRUE, !.startVNCTime = t]

Mark(nd, kind, t) == IF kind = "wake" THEN MarkPowerOn(nd, t) ELSE MarkStartVNC(nd, t)

Unmark(nd, kind) ==
  IF kind = "wake" THEN [nd EXCEPT !.inPowerOnMode = FALSE]
  ELSE [nd EXCEPT !.inStartVNCMode = FALSE]

-----------------------------------------------------------------------------
(* The remote access list: each status the handler may settle on *)

Age(nd, t) == t - nd.basic.ts
Silent(nd, t) == Age(nd, t) > DownSkew

InMaintenance(nd) == nd.powerStat \in {"maintenance", "unknown"}

PoweringOn(nd, t) ==
  /\ ~InMaintenance(nd)
  /\ nd.inPowerOnMode
  /\ t - nd.powerOnTime < DownSkew

\* Mutant: the shutdown notice is not looked at.
PoweringOff_NoNotice(nd, t) ==
  ~InMaintenance(nd) /\ ~PoweringOn(nd, t) /\ nd.powerStat = "down"
PoweringOff(nd, t) ==
  /\ ~InMaintenance(nd)
  /\ ~PoweringOn(nd, t)
  /\ nd.basic.down \/ nd.powerStat = "down"

Answering(nd, t) ==
  /\ ~InMaintenance(nd)
  /\ ~PoweringOn(nd, t)
  /\ ~PoweringOff(nd, t)
  /\ ~(nd.powerStat = "up" /\ Age(nd, t) > FreshSkew)

\* Mutant: only the local seats count.
Occupied_SeatsOnly(who) == who.local # {}
Occupied(who) == who.local # {} \/ \E u \in User : {<<"R", u>>, <<"V", u>>} \cap who.remote # {}

\* What the handler finds outside the table: a live socket of the user's
\* remote desktop on the node, his over-quota flag, his Kerberos ticket.
Env == [live : BOOLEAN, quota : BOOLEAN, krb : BOOLEAN]

Connected(nd, u, env) == env.live /\ <<"R", u>> \in nd.basic.who.remote

StartingVNC(nd, t) == nd.inStartVNCMode /\ t - nd.startVNCTime < VNCSkew

SeatStatus(nd, t, u, env) ==
  CASE Connected(nd, u, env) -> "vnc"
    [] ~Connected(nd, u, env) /\ StartingVNC(nd, t) -> "startvnc"
    [] ~Connected(nd, u, env) /\ ~StartingVNC(nd, t) ->
         IF Occupied(nd.basic.who) THEN "occ"
         ELSE IF env.quota THEN "quota"
         ELSE IF env.krb THEN "up" ELSE "up-nokrb"

\* The status written for user u at time t.
ListStatus(nd, t, u, env) ==
  IF PoweringOn(nd, t) THEN "poweron"
  ELSE IF PoweringOff(nd, t) /\ Silent(nd, t) THEN "down"
  ELSE IF Answering(nd, t) THEN SeatStatus(nd, t, u, env)
  ELSE "maintenance"

\* Mutant: every silent node is forgotten, one that powers on included.
Listed_AnySilent(nd, t, u, env) == IF Silent(nd, t) THEN Clear(nd) ELSE nd
\* Mutant: any live socket takes the mark, without the reader's session.
Listed_AnySocket(nd, t, u, env) ==
  IF Answering(nd, t) THEN [nd EXCEPT !.inStartVNCMode = StartingVNC(nd, t) /\ ~env.live]
  ELSE nd

\* Listing writes to the entry too: a silent node is forgotten, and the mark
\* of a starting desktop goes when it has started or has taken too long.
Listed(nd, t, u, env) ==
  IF (InMaintenance(nd) \/ PoweringOff(nd, t)) /\ Silent(nd, t) THEN Clear(nd)
  ELSE IF Answering(nd, t)
       THEN [nd EXCEPT !.inStartVNCMode = StartingVNC(nd, t) /\ ~Connected(nd, u, env)]
       ELSE nd

\* The statuses under which the node is running and can be used.
Usable == {"up", "up-nokrb", "quota", "occ", "startvnc", "vnc"}

\* Those under which it is offered for a new desktop.
Offered == {"up", "up-nokrb", "quota"}

-----------------------------------------------------------------------------
(* The other pages *)

\* Mutant: off by one.
SeatListStatus_Strict(nd, t) ==
  IF Age(nd, t) >= SeatSkew \/ nd.basic.down THEN "down" ELSE "up"

\* _ListAllSeats and _ListLoggedUsers
SeatListStatus(nd, t) ==
  IF Age(nd, t) > SeatSkew \/ nd.basic.down THEN "down" ELSE "up"

\* _Debug: a shutdown notice is not looked at
DebugStatus(nd, t) == IF Age(nd, t) > DebugSkew THEN "down" ELSE "up"
=============================================================================
