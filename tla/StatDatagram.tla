---------------------------- MODULE StatDatagram ----------------------------
(***************************************************************************)
(* How a client fills its datagram (CStatDatagram::SetDatagram): it takes  *)
(* the list of sessions, reads the active terminal, and then asks about    *)
(* the sessions one by one, twice each.  Users log in and out and switch   *)
(* terminals all the while, each of its queries may fail, and the datagram *)
(* object is used again for the next measurement.                          *)
(*                                                                         *)
(* A session is kept as what loginctl says of it.  Sessions of system      *)
(* accounts, which the list leaves out, display numbers and host names are *)
(* not modelled.                                                           *)
(***************************************************************************)
EXTENDS Integers, FiniteSets, FiniteSetsExt

CONSTANTS
  Session,   \* session identifiers
  User,      \* login names
  NoUser,    \* the empty name
  VT,        \* virtual terminals
  AnyVT,     \* what is looked for when the active terminal cannot be read
  Kind,      \* the sessions users open, a subset of Kinds
  MaxTTYs,   \* MAX_TTYS: places for local and for remote sessions
  Weight,    \* the sum of the bytes of each name and type
  Wrap       \* the checksum is kept modulo this, 2^32 in the code

\* What LocalLoginType, RemoteLoginType and the first byte of ActiveLocalUserName
\* hold: "own" is that byte of the name itself.
LocalTypes == {"0", "X", "W"}
RemoteTypes == {" ", "R", "V", "S"}
Initials == {"own", "X", "W"}

Kinds == [login : User, remote : BOOLEAN, gui : {"no", "X", "W"},
          rdsk : BOOLEAN, vnc : BOOLEAN, vt : VT]

ASSUME DatagramAssumption ==
  /\ MaxTTYs \in Nat \ {0}
  /\ Kind \subseteq Kinds
  /\ IsFiniteSet(Session) /\ "none" \notin Session
  /\ NoUser \notin User
  /\ AnyVT \notin VT
  /\ Weight \in [User \cup {NoUser} \cup LocalTypes \cup RemoteTypes \cup Initials -> Nat]
  /\ Wrap \in Nat \ {0}

VARIABLES
  live,      \* the sessions on the node, from identifiers to kinds
  activeVT,  \* the terminal in front
  dtg,       \* the datagram
  CheckSum,  \* its last field
  pc,        \* where SetDatagram is
  listed,    \* the list of sessions it took, with what they were then
  todo,      \* those not investigated yet
  look,      \* what is known of the one being investigated
  vt,        \* the active terminal it read
  stable     \* history: the listed sessions that have not ended since, and whose
             \* queries have been answered

vars == <<live, activeVT, dtg, CheckSum, pc, listed, todo, look, vt, stable>>
environment == <<live, activeVT, stable>>

-----------------------------------------------------------------------------
(* The datagram *)

Place == 0 .. MaxTTYs - 1

\* initial is the first byte of ActiveLocalUserName, which follows LocalLoginType
\* in the struct.
Datagrams ==
  [local : [Place -> User \cup {NoUser}], localType : [Place -> LocalTypes],
   numLocal : 0 .. MaxTTYs,
   active : User \cup {NoUser}, activeType : {" ", "X", "W"}, initial : Initials,
   remote : [Place -> User \cup {NoUser}], remoteType : [Place -> RemoteTypes],
   numRemote : 0 .. MaxTTYs, numRDSK : 0 .. MaxTTYs, numVNC : 0 .. MaxTTYs,
   down : BOOLEAN]

Empty ==
  [local |-> [i \in Place |-> NoUser], localType |-> [i \in Place |-> "0"],
   numLocal |-> 0,
   active |-> NoUser, activeType |-> " ", initial |-> "own",
   remote |-> [i \in Place |-> NoUser], remoteType |-> [i \in Place |-> " "],
   numRemote |-> 0, numRDSK |-> 0, numVNC |-> 0,
   down |-> FALSE]

\* Mutant: one of the counts is forgotten.
Reset_KeepsCount(d) ==
  [d EXCEPT !.local = [i \in Place |-> NoUser], !.localType = [i \in Place |-> "0"],
            !.active = NoUser, !.activeType = " ", !.initial = "own",
            !.remote = [i \in Place |-> NoUser], !.remoteType = [i \in Place |-> " "],
            !.numLocal = 0, !.numRDSK = 0, !.numVNC = 0]

\* The arrays, the active user and the counts are cleared field by field, when a
\* measurement begins and again for a shutdown notice.
Reset(d) ==
  [d EXCEPT !.local = [i \in Place |-> NoUser], !.localType = [i \in Place |-> "0"],
            !.active = NoUser, !.activeType = " ", !.initial = "own",
            !.remote = [i \in Place |-> NoUser], !.remoteType = [i \in Place |-> " "],
            !.numLocal = 0, !.numRemote = 0, !.numRDSK = 0, !.numVNC = 0]

\* The flags as they are set before the first query.
NoAnswer(s) == [id |-> s, remote |-> FALSE, gui |-> "no", rdsk |-> FALSE, front |-> FALSE]

\* What show-session tells of a session, and nothing of one that has ended.
Shown(s) ==
  IF s \in DOMAIN live
  THEN [id |-> s, remote |-> live[s].remote, gui |-> live[s].gui, rdsk |-> live[s].rdsk,
        front |-> vt \in {live[s].vt, AnyVT}]
  ELSE NoAnswer(s)

Looks == [id : Session, remote : BOOLEAN, gui : {"no", "X", "W"}, rdsk : BOOLEAN,
          front : BOOLEAN]

IsLocal(f) == ~f.remote /\ f.gui # "no"

\* Mutant: a Wayland session is not taken for a local one.
AddLocal_OnlyX(d, f, login) ==
  IF IsLocal(f) /\ f.gui = "X" /\ d.numLocal < MaxTTYs
  THEN [d EXCEPT !.local[d.numLocal] = login, !.numLocal = @ + 1] ELSE d

\* Mutant: the active user is noted before the size is looked at.
AddLocal_ActiveFirst(d, f, login) ==
  LET noted == IF IsLocal(f) /\ f.front THEN [d EXCEPT !.active = login] ELSE d
  IN  IF IsLocal(f) /\ d.numLocal < MaxTTYs
      THEN [noted EXCEPT !.local[d.numLocal] = login, !.numLocal = @ + 1] ELSE noted

\* Mutant: the terminal is not looked at.
AddLocal_AnyFront(d, f, login) ==
  IF IsLocal(f) /\ d.numLocal < MaxTTYs
  THEN [d EXCEPT !.local[d.numLocal] = login, !.numLocal = @ + 1, !.active = login]
  ELSE d

\* The type goes to the place of the next remote session; with every remote
\* place taken it goes behind the array, onto the first byte of the active
\* user's name.  That name is written afterwards if the session is in front.
AddLocal(d, f, login) ==
  IF IsLocal(f) /\ d.numLocal < MaxTTYs
  THEN LET typed == IF d.numRemote < MaxTTYs
                    THEN [d EXCEPT !.localType[d.numRemote] = f.gui]
                    ELSE [d EXCEPT !.initial = f.gui]
           named == [typed EXCEPT !.local[d.numLocal] = login, !.numLocal = @ + 1]
       IN  IF f.front
           THEN [named EXCEPT !.active = login, !.activeType = f.gui, !.initial = "own"]
           ELSE named
  ELSE d

RemoteType(rdsk, vnc) == IF rdsk THEN "R" ELSE IF vnc THEN "V" ELSE "S"

\* Mutant: the size is not looked at.
AddRemote_NoLimit(d, f, login, vnc) ==
  IF f.remote
  THEN [d EXCEPT !.remote = [i \in Place |-> IF i = d.numRemote THEN login ELSE @[i]],
                 !.numRemote = @ + 1]
  ELSE d

\* Mutant: the subgroups are counted whether or not there is a place.
AddRemote_CountsAll(d, f, login, vnc) ==
  LET counted == IF f.remote /\ vnc THEN [d EXCEPT !.numVNC = @ + 1] ELSE d
  IN  IF f.remote /\ d.numRemote < MaxTTYs
      THEN [counted EXCEPT !.remote[d.numRemote] = login, !.numRemote = @ + 1] ELSE counted

AddRemote(d, f, login, vnc) ==
  IF f.remote /\ d.numRemote < MaxTTYs
  THEN [d EXCEPT !.remote[d.numRemote] = login,
                 !.remoteType[d.numRemote] = RemoteType(f.rdsk, vnc),
                 !.numRemote = @ + 1,
                 !.numRDSK = IF f.rdsk THEN @ + 1 ELSE @,
                 !.numVNC = IF vnc THEN @ + 1 ELSE @]
  ELSE d

\* The bytes of all fields but the last, added up (of those modelled: header,
\* node names and time stamp add the same to both sums).  A letter written over
\* the first of a name counts beside the name.
Bytes(d) ==
  LET names == [i \in Place |->
                  Weight[d.local[i]] + Weight[d.localType[i]]
                    + Weight[d.remote[i]] + Weight[d.remoteType[i]]]
  IN  SumFunction(names) + Weight[d.active] + Weight[d.activeType] + Weight[d.initial]
        + d.numLocal + d.numRemote + d.numRDSK + d.numVNC + (IF d.down THEN 1 ELSE 0)

\* The server's test of what it received.
IsValid(d, checksum) == checksum = Bytes(d) % Wrap

-----------------------------------------------------------------------------
(* SetDatagram *)

Init ==
  /\ live = [s \in {} |-> {}]
  /\ activeVT \in VT
  /\ dtg = Empty /\ CheckSum = 0
  /\ pc = "idle"
  /\ listed = live
  /\ todo = {}
  /\ look = [id |-> "none"]
  /\ vt = AnyVT
  /\ stable = {}

\* The list, or a part of it: none when loginctl cannot be run, and not those
\* whose account cannot be looked up.
TakeList ==
  \E S \in SUBSET DOMAIN live :
    listed' = [s \in S |-> live[s]] /\ todo' = S /\ stable' = S

\* Mutant: the checksum goes on from the last one.
Begin_KeepsSum ==
  /\ pc \in {"idle", "ready"}
  /\ pc' = "tty"
  /\ dtg' = [Reset(dtg) EXCEPT !.down = FALSE]
  /\ TakeList
  /\ UNCHANGED <<live, activeVT, look, vt, CheckSum>>

\* Everything is reset and the list is taken.
Begin ==
  /\ pc \in {"idle", "ready"}
  /\ pc' = "tty"
  /\ dtg' = [Reset(dtg) EXCEPT !.down = FALSE] /\ CheckSum' = 0
  /\ TakeList
  /\ UNCHANGED <<live, activeVT, look, vt>>

ReadActiveTTY ==
  /\ pc = "tty"
  /\ pc' = "scan"
  /\ vt' \in {activeVT, AnyVT}
  /\ UNCHANGED <<dtg, CheckSum, listed, todo, look, environment>>

\* show-session is asked; when it cannot be run the flags stay as they are.
ShowSession(s) ==
  /\ pc = "scan"
  /\ s \in todo
  /\ pc' = "look"
  /\ todo' = todo \ {s}
  /\ \/ look' = Shown(s) /\ stable' = stable
     \/ look' = NoAnswer(s) /\ stable' = stable \ {s}
  /\ UNCHANGED <<dtg, CheckSum, listed, vt, live, activeVT>>

\* session-status tells whether an Xvnc runs in the session, if it is answered
\* and the session still lives; only a remote session's report depends on it.
SessionStatus ==
  /\ pc = "look"
  /\ pc' = "scan"
  /\ \E answered \in BOOLEAN :
       LET s     == look.id
           login == listed[s].login
           vnc   == answered /\ s \in DOMAIN live /\ live[s].vnc
       IN  /\ dtg' = AddRemote(AddLocal(dtg, look, login), look, login, vnc)
           /\ stable' = IF look.remote /\ ~answered THEN stable \ {s} ELSE stable
  /\ look' = [id |-> "none"]
  /\ UNCHANGED <<CheckSum, listed, todo, vt, live, activeVT>>

\* Only here it matters whether a shutdown notice was asked for.
Finish(powerdown) ==
  /\ pc = "scan"
  /\ todo = {}
  /\ pc' = "ready"
  /\ dtg' = IF powerdown THEN [Reset(dtg) EXCEPT !.down = TRUE] ELSE dtg
  /\ CheckSum' = (CheckSum + Bytes(dtg')) % Wrap
  /\ UNCHANGED <<listed, todo, look, vt, environment>>

-----------------------------------------------------------------------------
(* The users of the node.  logind counts its identifiers upwards, so none  *)
(* is given out again within a measurement.                                *)

Login(s, k) ==
  /\ s \notin DOMAIN live \cup DOMAIN listed
  /\ live' = [x \in DOMAIN live \cup {s} |-> IF x = s THEN k ELSE live[x]]
  /\ UNCHANGED <<activeVT, dtg, CheckSum, pc, listed, todo, look, vt, stable>>

Logout(s) ==
  /\ s \in DOMAIN live
  /\ live' = [x \in DOMAIN live \ {s} |-> live[x]]
  /\ stable' = stable \ {s}
  /\ UNCHANGED <<activeVT, dtg, CheckSum, pc, listed, todo, look, vt>>

SwitchVT(v) ==
  /\ v # activeVT
  /\ activeVT' = v
  /\ UNCHANGED <<live, dtg, CheckSum, pc, listed, todo, look, vt, stable>>

Next ==
  \/ Begin
  \/ ReadActiveTTY
  \/ \E s \in Session : ShowSession(s)
  \/ SessionStatus
  \/ \E powerdown \in BOOLEAN : Finish(powerdown)
  \/ \E s \in Session, k \in Kind : Login(s, k)
  \/ \E s \in Session : Logout(s)
  \/ \E v \in VT : SwitchVT(v)

Spec == Init /\ [][Next]_vars

-----------------------------------------------------------------------------
(* Properties *)

Sessions(S) == UNION {[D -> Kind] : D \in SUBSET S}

\* Of all but CheckSum, for which see FilledIsValid.
TypeOK ==
  /\ live \in Sessions(Session) /\ listed \in Sessions(Session)
  /\ activeVT \in VT /\ vt \in VT \cup {AnyVT}
  /\ dtg \in Datagrams
  /\ pc \in {"idle", "tty", "scan", "look", "ready"}
  /\ todo \subseteq DOMAIN listed /\ stable \subseteq DOMAIN listed
  /\ IF pc = "look" THEN look \in Looks /\ look.id \in DOMAIN listed
     ELSE look = [id |-> "none"]

Locals == {dtg.local[i] : i \in 0 .. dtg.numLocal - 1}
Remotes == {<<dtg.remoteType[i], dtg.remote[i]>> : i \in 0 .. dtg.numRemote - 1}

Pending == todo \cup {look.id}

\* A session that lives from the list to its investigation is reported, with
\* its right type, unless all places of its sort are taken or one of the queries
\* about it fails; whatever else ends, begins or fails meanwhile.
LivingReported ==
  ~dtg.down =>
    \A s \in stable \ Pending :
      LET k == listed[s]
      IN  /\ IsLocal(k) => k.login \in Locals \/ dtg.numLocal = MaxTTYs
          /\ k.remote => \/ <<RemoteType(k.rdsk, k.vnc), k.login>> \in Remotes
                         \/ dtg.numRemote = MaxTTYs

\* Nobody is reported who was not logged in when the list was taken, and no
\* session twice: nothing of an earlier measurement is left over.  A shutdown
\* notice reports nobody, as the server takes for granted.
NobodyElseReported ==
  /\ dtg.numLocal + dtg.numRemote <= Cardinality(DOMAIN listed \ todo)
  /\ dtg.down => dtg.numLocal + dtg.numRemote = 0 /\ dtg.active = NoUser
  /\ \A u \in Locals : \E s \in DOMAIN listed : IsLocal(listed[s]) /\ listed[s].login = u
  /\ \A r \in Remotes : \E s \in DOMAIN listed :
       /\ listed[s].remote /\ listed[s].login = r[2]
       /\ r[1] = "R" => listed[s].rdsk
       /\ r[1] = "V" => listed[s].vnc

\* The active user is one of the local users reported, and his name is whole
\* unless every remote place is taken: then the type of a local session found
\* later may stand in place of its first letter.
ActiveIsLocal ==
  /\ dtg.active # NoUser => dtg.active \in Locals
  /\ dtg.initial # "own" => dtg.numRemote = MaxTTYs

InFront(k) == vt \in {k.vt, AnyVT}

\* The user shown as the active one has a local session on the terminal that was
\* in front when it was read; and whoever keeps such a session until he is asked
\* about makes somebody the active user, unless the local places run out or the
\* query fails.
FrontIsActive ==
  /\ dtg.active # NoUser =>
       \E s \in DOMAIN listed :
         IsLocal(listed[s]) /\ InFront(listed[s]) /\ listed[s].login = dtg.active
  /\ ~dtg.down /\ dtg.numLocal < MaxTTYs =>
       \A s \in stable \ Pending :
         IsLocal(listed[s]) /\ InFront(listed[s]) => dtg.active # NoUser

\* The two counts of remote desktops are of reported sessions ("subgroup of
\* NumOfRemoteUsers").
Subgroups == dtg.numRDSK <= dtg.numRemote /\ dtg.numVNC <= dtg.numRemote

\* A datagram that has been filled passes the server's test, whatever the
\* object held before; and its checksum fits the field.
FilledIsValid ==
  /\ CheckSum \in 0 .. Wrap - 1
  /\ pc = "ready" => IsValid(dtg, CheckSum)

\* Every local user is reported with the type of his session: LocalLoginType
\* stands among the arrays of the local users and is read with their index.
LocalTypesGiven ==
  \A i \in 0 .. dtg.numLocal - 1 : dtg.localType[i] \in {"X", "W"}
=============================================================================
