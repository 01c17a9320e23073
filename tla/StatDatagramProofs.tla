------------------------- MODULE StatDatagramProofs -------------------------
(***************************************************************************)
(* Proofs about the filling of a datagram, for any number of sessions and  *)
(* places: what it reports is what the list held, and what lives on is     *)
(* reported.                                                               *)
(***************************************************************************)
EXTENDS StatDatagram, FiniteSetTheorems, WellFoundedInduction, TLAPS

-----------------------------------------------------------------------------
(* Adding a session to a datagram *)

\* What the fields of a datagram hold.
LEMMA Fields ==
  ASSUME NEW d \in Datagrams
  PROVE  /\ d.local \in [Place -> User \cup {NoUser}]
         /\ d.localType \in [Place -> LocalTypes]
         /\ d.remote \in [Place -> User \cup {NoUser}]
         /\ d.remoteType \in [Place -> RemoteTypes]
         /\ d.numLocal \in 0 .. MaxTTYs /\ d.numRemote \in 0 .. MaxTTYs
         /\ d.numRDSK \in 0 .. MaxTTYs /\ d.numVNC \in 0 .. MaxTTYs
         /\ d.active \in User \cup {NoUser} /\ d.activeType \in {" ", "X", "W"}
         /\ d.initial \in Initials /\ d.down \in BOOLEAN
BY DEF Datagrams

\* A datagram that reports nobody.
LEMMA EmptyType == Empty \in Datagrams
<1>1. 0 \in 0 .. MaxTTYs
  BY DatagramAssumption
<1>2. /\ [i \in Place |-> NoUser] \in [Place -> User \cup {NoUser}]
      /\ [i \in Place |-> "0"] \in [Place -> LocalTypes]
      /\ [i \in Place |-> " "] \in [Place -> RemoteTypes]
  BY DEF LocalTypes, RemoteTypes
<1> QED
  BY <1>1, <1>2 DEF Empty, Datagrams, Initials

\* Whatever a datagram held, it reports nobody when it has been reset.
LEMMA ResetGives ==
  ASSUME NEW d \in Datagrams, NEW b \in BOOLEAN
  PROVE  LET e == [Reset(d) EXCEPT !.down = b]
         IN  /\ e \in Datagrams
             /\ e.numLocal = 0 /\ e.numRemote = 0 /\ e.numRDSK = 0 /\ e.numVNC = 0
             /\ e.active = NoUser /\ e.initial = "own" /\ e.down = b
<1>1. 0 \in 0 .. MaxTTYs
  BY DatagramAssumption
<1>2. /\ [i \in Place |-> NoUser] \in [Place -> User \cup {NoUser}]
      /\ [i \in Place |-> "0"] \in [Place -> LocalTypes]
      /\ [i \in Place |-> " "] \in [Place -> RemoteTypes]
  BY DEF LocalTypes, RemoteTypes
<1>3. Reset(d) \in Datagrams
  BY <1>1, <1>2 DEF Reset, Datagrams, Initials
<1>4. /\ Reset(d).numLocal = 0 /\ Reset(d).numRemote = 0
      /\ Reset(d).numRDSK = 0 /\ Reset(d).numVNC = 0
      /\ Reset(d).active = NoUser /\ Reset(d).initial = "own"
  BY DEF Reset, Datagrams
<1> QED
  BY <1>3, <1>4 DEF Datagrams

\* A local session takes the next local place, and becomes the active one if
\* its terminal is in front.  Only with every remote place taken does its type
\* reach the first letter of the active user's name.
LEMMA AddLocalFields ==
  ASSUME NEW d \in Datagrams, NEW f \in Looks, NEW login \in User,
         IsLocal(f), d.numLocal < MaxTTYs
  PROVE  LET e == AddLocal(d, f, login)
         IN  /\ e \in Datagrams
             /\ e.local = [d.local EXCEPT ![d.numLocal] = login]
             /\ e.numLocal = d.numLocal + 1
             /\ e.active = IF f.front THEN login ELSE d.active
             /\ e.initial # "own" => d.numRemote = MaxTTYs \/ d.initial # "own"
             /\ e.remote = d.remote /\ e.remoteType = d.remoteType
             /\ e.numRemote = d.numRemote /\ e.numRDSK = d.numRDSK
             /\ e.numVNC = d.numVNC /\ e.down = d.down
<1> DEFINE e == AddLocal(d, f, login)
           typed == IF d.numRemote < MaxTTYs
                    THEN [d EXCEPT !.localType[d.numRemote] = f.gui]
                    ELSE [d EXCEPT !.initial = f.gui]
           named == [typed EXCEPT !.local[d.numLocal] = login, !.numLocal = @ + 1]
           active == [named EXCEPT !.active = login, !.activeType = f.gui, !.initial = "own"]
<1>0. MaxTTYs \in Nat /\ MaxTTYs > 0 /\ f.gui \in {"X", "W"}
  BY DatagramAssumption DEF Looks, IsLocal
<1>1. /\ d.local \in [Place -> User \cup {NoUser}]
      /\ d.localType \in [Place -> LocalTypes]
      /\ d.numLocal \in 0 .. MaxTTYs /\ d.numRemote \in 0 .. MaxTTYs
  BY Fields
<1>2. d.numLocal \in Place
  BY <1>0, <1>1 DEF Place
<1>3. /\ typed \in Datagrams
      /\ typed.local = d.local /\ typed.numLocal = d.numLocal
      /\ typed.active = d.active
      /\ typed.initial # "own" => d.numRemote = MaxTTYs \/ d.initial # "own"
      /\ typed.remote = d.remote /\ typed.remoteType = d.remoteType
      /\ typed.numRemote = d.numRemote /\ typed.numRDSK = d.numRDSK
      /\ typed.numVNC = d.numVNC /\ typed.down = d.down
  <2>1. CASE d.numRemote < MaxTTYs
    <3> DEFINE t == [d EXCEPT !.localType[d.numRemote] = f.gui]
    <3>1. typed = t
      BY <2>1
    <3>2. /\ t.localType = [d.localType EXCEPT ![d.numRemote] = f.gui]
          /\ t = [d EXCEPT !.localType = t.localType]
      BY DEF Datagrams
    <3>3. t.localType \in [Place -> LocalTypes]
      BY <1>0, <1>1, <3>2 DEF LocalTypes
    <3>4. t \in Datagrams
      BY <3>2, <3>3 DEF Datagrams
    <3>5. /\ t.local = d.local /\ t.numLocal = d.numLocal
          /\ t.active = d.active /\ t.initial = d.initial
          /\ t.remote = d.remote /\ t.remoteType = d.remoteType
          /\ t.numRemote = d.numRemote /\ t.numRDSK = d.numRDSK
          /\ t.numVNC = d.numVNC /\ t.down = d.down
      BY DEF Datagrams
    <3> QED
      BY <3>1, <3>4, <3>5
  <2>2. CASE ~(d.numRemote < MaxTTYs)
    <3> DEFINE t == [d EXCEPT !.initial = f.gui]
    <3>1. typed = t /\ d.numRemote = MaxTTYs
      BY <1>0, <1>1, <2>2
    <3>2. t \in Datagrams
      BY <1>0 DEF Datagrams, Initials
    <3>3. /\ t.local = d.local /\ t.numLocal = d.numLocal /\ t.active = d.active
          /\ t.remote = d.remote /\ t.remoteType = d.remoteType
          /\ t.numRemote = d.numRemote /\ t.numRDSK = d.numRDSK
          /\ t.numVNC = d.numVNC /\ t.down = d.down
      BY DEF Datagrams
    <3> QED
      BY <3>1, <3>2, <3>3
  <2> QED
    BY <2>1, <2>2
<1> HIDE DEF typed
<1>4. /\ named.local = [d.local EXCEPT ![d.numLocal] = login]
      /\ named.numLocal = d.numLocal + 1
      /\ named = [typed EXCEPT !.local = named.local, !.numLocal = named.numLocal]
      /\ named.active = typed.active /\ named.initial = typed.initial
      /\ named.remote = typed.remote /\ named.remoteType = typed.remoteType
      /\ named.numRemote = typed.numRemote /\ named.numRDSK = typed.numRDSK
      /\ named.numVNC = typed.numVNC /\ named.down = typed.down
  BY <1>3 DEF Datagrams
<1>5. named \in Datagrams
  <2> HIDE DEF named
  <2>1. named.local \in [Place -> User \cup {NoUser}]
    BY <1>1, <1>2, <1>4
  <2>2. named.numLocal \in 0 .. MaxTTYs
    BY <1>0, <1>1, <1>4
  <2> QED
    BY <1>3, <1>4, <2>1, <2>2 DEF Datagrams
<1>6. e = IF f.front THEN active ELSE named
  BY DEF AddLocal, typed
<1> HIDE DEF named, e
<1>7. /\ active \in Datagrams
      /\ active.active = login /\ active.initial = "own"
      /\ active.local = named.local /\ active.numLocal = named.numLocal
      /\ active.remote = named.remote /\ active.remoteType = named.remoteType
      /\ active.numRemote = named.numRemote /\ active.numRDSK = named.numRDSK
      /\ active.numVNC = named.numVNC /\ active.down = named.down
  BY <1>0, <1>5 DEF Datagrams, Initials
<1> HIDE DEF active
<1>8. CASE f.front
  <2>1. e = active
    BY <1>6, <1>8
  <2> QED
    BY <1>3, <1>4, <1>7, <1>8, <2>1 DEF e
<1>9. CASE ~f.front
  <2>1. e = named
    BY <1>6, <1>9
  <2> QED
    BY <1>3, <1>4, <1>5, <1>9, <2>1 DEF e
<1> QED
  BY <1>8, <1>9

\* e is d with one more remote session.
RemoteAdded(d, e, login, type) ==
  /\ e \in Datagrams
  /\ e.remote = [d.remote EXCEPT ![d.numRemote] = login]
  /\ e.remoteType = [d.remoteType EXCEPT ![d.numRemote] = type]
  /\ e.numRemote = d.numRemote + 1
  /\ e.numRDSK <= e.numRemote /\ e.numVNC <= e.numRemote
  /\ e.local = d.local /\ e.numLocal = d.numLocal
  /\ e.active = d.active /\ e.initial = d.initial /\ e.down = d.down

\* A remote session takes the next remote place, and is counted among the
\* desktops if it is one.
LEMMA AddRemoteFields ==
  ASSUME NEW d \in Datagrams, NEW f \in Looks, NEW login \in User, NEW vnc \in BOOLEAN,
         f.remote = TRUE, d.numRemote < MaxTTYs,
         d.numRDSK <= d.numRemote, d.numVNC <= d.numRemote
  PROVE  RemoteAdded(d, AddRemote(d, f, login, vnc), login, RemoteType(f.rdsk, vnc))
<1> DEFINE e == AddRemote(d, f, login, vnc)
<1> DEFINE type == RemoteType(f.rdsk, vnc)
<1>0. type \in RemoteTypes
  BY DEF RemoteType, RemoteTypes
<1>1. MaxTTYs \in Nat /\ MaxTTYs > 0
  BY DatagramAssumption
<1> HIDE DEF type
<1>2. /\ d.remote \in [Place -> User \cup {NoUser}]
      /\ d.remoteType \in [Place -> RemoteTypes]
      /\ d.numRemote \in 0 .. MaxTTYs
      /\ d.numRDSK \in 0 .. MaxTTYs /\ d.numVNC \in 0 .. MaxTTYs
  BY Fields
<1>3. d.numRemote \in Place
  BY <1>1, <1>2 DEF Place
<1>4. /\ e.remote = [d.remote EXCEPT ![d.numRemote] = login]
      /\ e.remoteType = [d.remoteType EXCEPT ![d.numRemote] = type]
      /\ e.numRemote = d.numRemote + 1
      /\ e.numRDSK = IF f.rdsk THEN d.numRDSK + 1 ELSE d.numRDSK
      /\ e.numVNC = IF vnc THEN d.numVNC + 1 ELSE d.numVNC
      /\ e.local = d.local /\ e.localType = d.localType /\ e.numLocal = d.numLocal
      /\ e.active = d.active /\ e.activeType = d.activeType
      /\ e.initial = d.initial /\ e.down = d.down
      /\ e = [d EXCEPT !.remote = e.remote, !.remoteType = e.remoteType,
                       !.numRemote = e.numRemote, !.numRDSK = e.numRDSK, !.numVNC = e.numVNC]
  BY DEF AddRemote, Datagrams, type
<1>5. /\ e.remote \in [Place -> User \cup {NoUser}]
      /\ e.remoteType \in [Place -> RemoteTypes]
  BY <1>0, <1>2, <1>3, <1>4
<1>6. /\ e.numRemote \in 0 .. MaxTTYs /\ e.numRDSK \in 0 .. MaxTTYs /\ e.numVNC \in 0 .. MaxTTYs
      /\ e.numRDSK <= e.numRemote /\ e.numVNC <= e.numRemote
  BY <1>1, <1>2, <1>4
<1>7. e \in Datagrams
  BY <1>4, <1>5, <1>6 DEF Datagrams
<1> QED
  BY <1>4, <1>6, <1>7 DEF RemoteAdded, type

-----------------------------------------------------------------------------
(* The inductive invariant *)

\* The list is still true of a session that is pending or stable.
ListStands ==
  /\ stable \subseteq DOMAIN live
  /\ \A s \in DOMAIN live : s \in stable \cup Pending => live[s] = listed[s]

\* What is known of the session being investigated is what the list says of it,
\* or nothing if the session has ended or the query failed.
Looked ==
  pc = "look" =>
    /\ look.id \notin todo
    /\ LET k == listed[look.id]
       IN  \/ look.remote = k.remote /\ look.gui = k.gui /\ look.rdsk = k.rdsk
              /\ look.front = InFront(k)
           \/ ~look.remote /\ look.gui = "no" /\ ~look.rdsk /\ look.id \notin stable

Investigated == DOMAIN listed \ Pending

LocalGiven(i) ==
  \E s \in Investigated : IsLocal(listed[s]) /\ listed[s].login = dtg.local[i]

RemoteGiven(i) ==
  \E s \in Investigated :
    /\ listed[s].remote /\ listed[s].login = dtg.remote[i]
    /\ dtg.remoteType[i] = "R" => listed[s].rdsk
    /\ dtg.remoteType[i] = "V" => listed[s].vnc

\* Every place that is taken is taken by a session of its own.
Given ==
  /\ \A i \in 0 .. dtg.numLocal - 1 : LocalGiven(i)
  /\ \A i \in 0 .. dtg.numRemote - 1 : RemoteGiven(i)
  /\ dtg.numLocal + dtg.numRemote <= Cardinality(Investigated)

LocalTaken(k) ==
  \/ \E i \in 0 .. dtg.numLocal - 1 : dtg.local[i] = k.login
  \/ dtg.numLocal = MaxTTYs

RemoteTaken(k) ==
  \/ \E i \in 0 .. dtg.numRemote - 1 :
       dtg.remote[i] = k.login /\ dtg.remoteType[i] = RemoteType(k.rdsk, k.vnc)
  \/ dtg.numRemote = MaxTTYs

\* Every session that lives on has a place unless there is none.
Taken ==
  ~dtg.down =>
    \A s \in stable \ Pending :
      /\ IsLocal(listed[s]) => LocalTaken(listed[s])
      /\ listed[s].remote => RemoteTaken(listed[s])

ActiveGiven ==
  /\ dtg.active # NoUser => \E i \in 0 .. dtg.numLocal - 1 : dtg.local[i] = dtg.active
  /\ dtg.initial # "own" => dtg.numRemote = MaxTTYs

\* The active user comes from a session in front, and such a session that lives
\* on gives one.
FrontGiven ==
  /\ dtg.active # NoUser =>
       \E s \in Investigated :
         IsLocal(listed[s]) /\ InFront(listed[s]) /\ listed[s].login = dtg.active
  /\ ~dtg.down /\ dtg.numLocal < MaxTTYs =>
       \A s \in stable \ Pending :
         IsLocal(listed[s]) /\ InFront(listed[s]) => dtg.active # NoUser

NoticeGiven == dtg.down => dtg.numLocal = 0 /\ dtg.numRemote = 0 /\ dtg.active = NoUser

\* All that is said of what the datagram holds.
Content ==
  Given /\ Taken /\ ActiveGiven /\ FrontGiven /\ Subgroups /\ NoticeGiven

\* Nobody is active before the terminal is read.
Fresh == pc = "tty" => Investigated = {} /\ dtg.active = NoUser

DownLast == pc # "ready" => ~dtg.down

DatagramInv ==
  TypeOK /\ ListStands /\ Looked /\ Content /\ Fresh /\ DownLast

\* The list is finite and "none" is not in it.
LEMMA ListFinite ==
  ASSUME TypeOK
  PROVE  /\ listed \in [DOMAIN listed -> Kind] /\ live \in [DOMAIN live -> Kind]
         /\ DOMAIN listed \subseteq Session /\ DOMAIN live \subseteq Session
         /\ "none" \notin DOMAIN listed /\ "none" \notin DOMAIN live
         /\ IsFiniteSet(DOMAIN listed)
         /\ \A k \in Kind : /\ k.login \in User /\ k.remote \in BOOLEAN /\ k.rdsk \in BOOLEAN
                            /\ k.vnc \in BOOLEAN /\ k.gui \in {"no", "X", "W"}
<1>1. /\ listed \in [DOMAIN listed -> Kind] /\ live \in [DOMAIN live -> Kind]
      /\ DOMAIN listed \subseteq Session /\ DOMAIN live \subseteq Session
  BY DEF TypeOK, Sessions
<1>2. IsFiniteSet(DOMAIN listed)
  BY <1>1, DatagramAssumption, FS_Subset
<1>3. \A k \in Kind : /\ k.login \in User /\ k.remote \in BOOLEAN /\ k.rdsk \in BOOLEAN
                      /\ k.vnc \in BOOLEAN /\ k.gui \in {"no", "X", "W"}
  BY DatagramAssumption DEF Kinds
<1> QED
  BY <1>1, <1>2, <1>3, DatagramAssumption

\* A datagram that reports nobody is in order, whatever has been investigated,
\* unless it should report somebody.
NobodyDue ==
  /\ dtg.numLocal = 0 /\ dtg.numRemote = 0 /\ dtg.numRDSK = 0 /\ dtg.numVNC = 0
  /\ dtg.active = NoUser /\ dtg.initial = "own"
  /\ dtg.down = TRUE \/ stable \subseteq Pending
  /\ Cardinality(Investigated) \in Nat

LEMMA NobodyGives == NobodyDue => Content
<1> SUFFICES ASSUME NobodyDue PROVE Content
  OBVIOUS
<1> USE DEF NobodyDue
<1>1. Given
  BY DEF Given
<1>2. Taken
  BY DEF Taken
<1>3. ActiveGiven /\ FrontGiven /\ Subgroups /\ NoticeGiven
  BY DEF ActiveGiven, FrontGiven, Subgroups, NoticeGiven
<1> QED
  BY <1>1, <1>2, <1>3 DEF Content

-----------------------------------------------------------------------------
(* The steps keep it *)

\* A function from some identifiers to kinds is a list of sessions.
LEMMA ListType ==
  ASSUME NEW f, f \in [DOMAIN f -> Kind], DOMAIN f \subseteq Session
  PROVE  f \in Sessions(Session)
BY DEF Sessions

LEMMA InitInv == Init => DatagramInv
<1> SUFFICES ASSUME Init PROVE DatagramInv
  OBVIOUS
<1>1. /\ DOMAIN live = {} /\ live \in [DOMAIN live -> Kind] /\ listed = live
      /\ dtg = Empty /\ pc = "idle" /\ todo = {} /\ stable = {} /\ look = [id |-> "none"]
  BY DEF Init
<1>2. live \in Sessions(Session)
  BY <1>1, ListType
<1>3. TypeOK
  BY <1>1, <1>2, EmptyType DEF Init, TypeOK
<1>4. Cardinality(Investigated) \in Nat
  BY <1>1, FS_EmptySet DEF Investigated
<1>5. /\ dtg.numLocal = 0 /\ dtg.numRemote = 0 /\ dtg.numRDSK = 0 /\ dtg.numVNC = 0
      /\ dtg.active = NoUser /\ dtg.initial = "own" /\ dtg.down = FALSE
  BY <1>1 DEF Empty
<1>6. Content
  BY <1>1, <1>4, <1>5, NobodyGives DEF NobodyDue
<1>7. Fresh /\ DownLast /\ ListStands /\ Looked
  BY <1>1, <1>5 DEF Fresh, DownLast, ListStands, Looked
<1> QED
  BY <1>3, <1>6, <1>7 DEF DatagramInv

\* A new list, a new datagram.
LEMMA BeginStep ==
  ASSUME DatagramInv, Begin
  PROVE  DatagramInv'
<1>1. PICK S \in SUBSET DOMAIN live :
        listed' = [s \in S |-> live[s]] /\ todo' = S /\ stable' = S
  BY DEF Begin, TakeList
<1>2. /\ pc' = "tty" /\ dtg' = [Reset(dtg) EXCEPT !.down = FALSE]
      /\ live' = live /\ activeVT' = activeVT /\ look' = look /\ vt' = vt
      /\ look = [id |-> "none"] /\ dtg \in Datagrams
  BY DEF Begin, DatagramInv, TypeOK
<1>3. live \in [DOMAIN live -> Kind] /\ DOMAIN live \subseteq Session
  BY ListFinite DEF DatagramInv
<1>4. DOMAIN listed' = S /\ listed' \in [S -> Kind] /\ S \subseteq Session
  BY <1>1, <1>3
<1>5. listed' \in Sessions(Session)
  BY <1>4 DEF Sessions
<1>6. /\ dtg' \in Datagrams
      /\ dtg'.numLocal = 0 /\ dtg'.numRemote = 0 /\ dtg'.numRDSK = 0 /\ dtg'.numVNC = 0
      /\ dtg'.active = NoUser /\ dtg'.initial = "own" /\ dtg'.down = FALSE
  BY <1>2, ResetGives
<1>7. TypeOK'
  BY <1>1, <1>2, <1>4, <1>5, <1>6 DEF TypeOK, DatagramInv
<1>8. Investigated' = {} /\ stable' \subseteq Pending'
  BY <1>1, <1>4 DEF Investigated, Pending
<1>9. Cardinality(Investigated') \in Nat
  BY <1>8, FS_EmptySet
<1>10. Content'
  <2>1. (NobodyDue => Content)'
    BY NobodyGives, PTL
  <2>2. NobodyDue'
    BY <1>6, <1>8, <1>9 DEF NobodyDue
  <2> QED
    BY <2>1, <2>2
<1>11. Fresh' /\ DownLast' /\ Looked'
  BY <1>2, <1>6, <1>8 DEF Fresh, DownLast, Looked
<1>12. ListStands'
  <2>1. Pending' \cap Session \subseteq S
    BY <1>1, <1>2, DatagramAssumption DEF Pending
  <2> QED
    BY <1>1, <1>2, <1>3, <2>1 DEF ListStands
<1> QED
  BY <1>7, <1>10, <1>11, <1>12 DEF DatagramInv

\* What a step leaves standing that neither fills the datagram nor investigates.
LEMMA QuietStep ==
  ASSUME DatagramInv,
         dtg' = dtg, listed' = listed, vt' = vt,
         Pending' \cap Session = Pending \cap Session, stable' \subseteq stable
  PROVE  Content' /\ Investigated' = Investigated
<1>0. DOMAIN listed \subseteq Session /\ stable \subseteq DOMAIN listed
  BY ListFinite DEF DatagramInv, TypeOK
<1>1. Investigated' = Investigated
  BY <1>0 DEF Investigated
<1>2. Given'
  BY <1>1 DEF DatagramInv, Content, Given, LocalGiven, RemoteGiven
<1>3. stable' \ Pending' \subseteq stable \ Pending
  BY <1>0
<1>4. Taken'
  BY <1>3 DEF DatagramInv, Content, Taken, LocalTaken, RemoteTaken
<1>5. FrontGiven'
  BY <1>1, <1>3 DEF DatagramInv, Content, FrontGiven, InFront
<1>6. ActiveGiven' /\ Subgroups' /\ NoticeGiven'
  BY DEF DatagramInv, Content, ActiveGiven, Subgroups, NoticeGiven
<1> QED
  BY <1>1, <1>2, <1>4, <1>5, <1>6 DEF Content

\* The terminal is read before anything is investigated.
LEMMA TTYStep ==
  ASSUME DatagramInv, ReadActiveTTY
  PROVE  DatagramInv'
<1>1. /\ pc = "tty" /\ pc' = "scan" /\ vt' \in VT \cup {AnyVT}
      /\ UNCHANGED <<dtg, listed, todo, look, live, activeVT, stable>>
      /\ stable \subseteq DOMAIN listed /\ look = [id |-> "none"]
  BY DEF ReadActiveTTY, environment, DatagramInv, TypeOK
<1>2. TypeOK'
  BY <1>1 DEF DatagramInv, TypeOK
<1>3. Pending' = Pending /\ Investigated' = Investigated
  BY <1>1 DEF Pending, Investigated
<1>4. stable \subseteq Pending /\ dtg.active = NoUser
  BY <1>1 DEF DatagramInv, Fresh, Investigated
<1>5. FrontGiven'
  BY <1>1, <1>3, <1>4 DEF FrontGiven
<1>6. Given' /\ Taken' /\ ActiveGiven' /\ Subgroups' /\ NoticeGiven'
  BY <1>1, <1>3 DEF DatagramInv, Content, Given, LocalGiven, RemoteGiven, Taken, LocalTaken,
                    RemoteTaken, ActiveGiven, Subgroups, NoticeGiven
<1>7. ListStands' /\ Looked' /\ DownLast' /\ Fresh'
  BY <1>1, <1>3 DEF DatagramInv, ListStands, Looked, DownLast, Fresh
<1> QED
  BY <1>2, <1>5, <1>6, <1>7 DEF DatagramInv, Content

\* What show-session tells is what the list says, unless the session has ended
\* or the query fails.
LEMMA ShowStep ==
  ASSUME DatagramInv, NEW s \in Session, ShowSession(s)
  PROVE  DatagramInv'
<1>0. /\ "none" \notin DOMAIN listed /\ DOMAIN listed \subseteq Session
      /\ listed \in [DOMAIN listed -> Kind] /\ live \in [DOMAIN live -> Kind]
      /\ \A k \in Kind : /\ k.login \in User /\ k.remote \in BOOLEAN /\ k.rdsk \in BOOLEAN
                         /\ k.vnc \in BOOLEAN /\ k.gui \in {"no", "X", "W"}
  BY ListFinite DEF DatagramInv
<1>1. /\ pc = "scan" /\ s \in todo /\ pc' = "look" /\ todo' = todo \ {s}
      /\ \/ look' = Shown(s) /\ stable' = stable
         \/ look' = NoAnswer(s) /\ stable' = stable \ {s}
      /\ UNCHANGED <<dtg, listed, vt, live, activeVT>>
      /\ todo \subseteq DOMAIN listed /\ look = [id |-> "none"]
  BY DEF ShowSession, DatagramInv, TypeOK
<1>2. /\ NoAnswer(s) \in Looks /\ NoAnswer(s).id = s
      /\ NoAnswer(s).remote = FALSE /\ NoAnswer(s).gui = "no" /\ NoAnswer(s).rdsk = FALSE
  BY DEF NoAnswer, Looks
<1>3. CASE s \in DOMAIN live /\ look' = Shown(s) /\ stable' = stable
  <2>1. live[s] = listed[s]
    BY <1>1, <1>3 DEF DatagramInv, ListStands, Pending
  <2>2. /\ look' = [id |-> s, remote |-> live[s].remote, gui |-> live[s].gui,
                    rdsk |-> live[s].rdsk, front |-> vt \in {live[s].vt, AnyVT}]
        /\ live[s] \in Kind
    BY <1>0, <1>3 DEF Shown
  <2>3. look'.id = s /\ look' \in Looks
    BY <1>0, <2>2 DEF Looks
  <2>4. /\ look'.remote = listed[s].remote /\ look'.gui = listed[s].gui
        /\ look'.rdsk = listed[s].rdsk /\ look'.front = InFront(listed[s])
    BY <2>1, <2>2 DEF InFront
  <2> QED
    <3>1. Looked'
      BY <1>1, <2>3, <2>4 DEF Looked, InFront
    <3> HIDE DEF Looked
    <3>2. TypeOK' /\ look'.id = s /\ stable' = stable
      BY <1>1, <1>3, <2>3 DEF DatagramInv, TypeOK
    <3>3. Pending' \cap Session = Pending \cap Session
      BY <1>1, <2>3, DatagramAssumption DEF Pending
    <3>4. Content'
      BY <1>1, <3>2, <3>3, QuietStep
    <3>5. ListStands' /\ DownLast' /\ Fresh'
      <4>1. DOMAIN live \subseteq Session
        BY ListFinite DEF DatagramInv
      <4> QED
        BY <1>1, <3>2, <3>3, <4>1 DEF DatagramInv, ListStands, DownLast, Fresh
    <3> QED
      BY <3>1, <3>2, <3>4, <3>5 DEF DatagramInv
<1>4. CASE look' = NoAnswer(s) /\ stable' \subseteq stable /\ s \notin stable'
  <2>1. look'.id = s /\ look' \in Looks
    BY <1>2, <1>4
  <2>2. Looked'
    BY <1>1, <1>2, <1>4, <2>1 DEF Looked
  <2>3. TypeOK'
    BY <1>1, <1>4, <2>1 DEF DatagramInv, TypeOK
  <2>4. Pending' \cap Session = Pending \cap Session
    BY <1>1, <2>1, DatagramAssumption DEF Pending
  <2>5. Content'
    BY <1>1, <1>4, <2>4, QuietStep
  <2>6. ListStands' /\ DownLast' /\ Fresh'
    <3>1. DOMAIN live \subseteq Session
      BY ListFinite DEF DatagramInv
    <3> QED
      BY <1>1, <1>4, <2>4, <3>1 DEF DatagramInv, ListStands, DownLast, Fresh
  <2> QED
    BY <2>2, <2>3, <2>5, <2>6 DEF DatagramInv
<1>5. CASE s \notin DOMAIN live /\ look' = Shown(s) /\ stable' = stable
  <2>1. look' = NoAnswer(s)
    BY <1>5 DEF Shown
  <2>2. s \notin stable
    BY <1>5 DEF DatagramInv, ListStands
  <2> QED
    BY <1>4, <1>5, <2>1, <2>2
<1> QED
  BY <1>1, <1>3, <1>4, <1>5

\* The notice takes the place of the datagram.
LEMMA FinishStep ==
  ASSUME DatagramInv, NEW powerdown \in BOOLEAN, Finish(powerdown)
  PROVE  DatagramInv'
<1> DEFINE Notice == [Reset(dtg) EXCEPT !.down = TRUE]
<1>1. /\ pc = "scan" /\ pc' = "ready" /\ dtg' \in {dtg, Notice}
      /\ UNCHANGED <<listed, todo, look, vt, live, activeVT, stable>>
      /\ look = [id |-> "none"] /\ dtg \in Datagrams
  BY DEF Finish, environment, DatagramInv, TypeOK
<1>2. /\ Notice \in Datagrams
      /\ Notice.numLocal = 0 /\ Notice.numRemote = 0 /\ Notice.numRDSK = 0
      /\ Notice.numVNC = 0 /\ Notice.active = NoUser /\ Notice.initial = "own"
      /\ Notice.down = TRUE
  BY <1>1, ResetGives
<1> HIDE DEF Notice
<1>3. TypeOK'
  BY <1>1, <1>2 DEF DatagramInv, TypeOK
<1>4. Pending' = Pending /\ Investigated' = Investigated
  BY <1>1 DEF Pending, Investigated
<1>5. ListStands' /\ Looked' /\ DownLast' /\ Fresh'
  BY <1>1, <1>4 DEF DatagramInv, ListStands, Looked, DownLast, Fresh
<1>6. CASE dtg' = dtg
  BY <1>1, <1>3, <1>4, <1>5, <1>6, QuietStep DEF DatagramInv
<1>7. CASE dtg' = Notice
  <2>1. Cardinality(Investigated') \in Nat
    <3>1. IsFiniteSet(Investigated)
      BY ListFinite, FS_Subset DEF Investigated, DatagramInv
    <3> QED
      BY <1>4, <3>1, FS_CardinalityType
  <2>2. /\ dtg'.numLocal = 0 /\ dtg'.numRemote = 0 /\ dtg'.numRDSK = 0
        /\ dtg'.numVNC = 0 /\ dtg'.active = NoUser /\ dtg'.initial = "own"
        /\ dtg'.down = TRUE
    BY <1>2, <1>7
  <2>3. Content'
    <3>1. (NobodyDue => Content)'
      BY NobodyGives, PTL
    <3>2. NobodyDue'
      BY <2>1, <2>2 DEF NobodyDue
    <3> QED
      BY <3>1, <3>2
  <2> QED
    BY <1>3, <1>5, <2>3 DEF DatagramInv
<1> QED
  BY <1>1, <1>6, <1>7

\* Whoever comes is not on the list, whoever goes is not stable any more.
LEMMA UsersStep ==
  ASSUME DatagramInv,
         \/ \E s \in Session, k \in Kind : Login(s, k)
         \/ \E s \in Session : Logout(s)
         \/ \E v \in VT : SwitchVT(v)
  PROVE  DatagramInv'
<1>0. live \in [DOMAIN live -> Kind] /\ DOMAIN live \subseteq Session
  BY ListFinite DEF DatagramInv
<1>1. /\ UNCHANGED <<dtg, pc, listed, todo, look, vt>>
      /\ stable' \subseteq stable
      /\ Pending' = Pending
  BY DEF Login, Logout, SwitchVT, Pending
<1>2. Content' /\ Fresh' /\ DownLast'
  BY <1>1, QuietStep DEF DatagramInv, Fresh, DownLast
<1>3. Looked'
  BY <1>1 DEF DatagramInv, Looked, InFront
<1>4. ASSUME live' \in [DOMAIN live' -> Kind], DOMAIN live' \subseteq Session, activeVT' \in VT
      PROVE  TypeOK'
  BY <1>1, <1>4, ListType DEF DatagramInv, TypeOK
<1>5. ASSUME NEW s \in Session, NEW k \in Kind, Login(s, k)
      PROVE  TypeOK' /\ ListStands'
  <2>1. /\ DOMAIN live' = DOMAIN live \cup {s} /\ live' \in [DOMAIN live' -> Kind]
        /\ live'[s] = k /\ \A x \in DOMAIN live : x # s => live'[x] = live[x]
        /\ s \notin DOMAIN live \cup Pending /\ stable' = stable /\ activeVT' = activeVT
    <3>1. Pending \subseteq DOMAIN listed \cup {"none"}
      BY DEF DatagramInv, TypeOK, Pending
    <3>2. s # "none"
      BY DatagramAssumption
    <3> QED
      BY <1>0, <1>5, <3>1, <3>2 DEF Login
  <2>2. TypeOK'
    BY <1>0, <1>4, <2>1 DEF DatagramInv, TypeOK
  <2>3. s \notin stable
    BY <2>1 DEF DatagramInv, ListStands
  <2>4. ListStands'
    BY <1>1, <2>1, <2>3 DEF DatagramInv, ListStands
  <2> QED
    BY <2>2, <2>4
<1>6. ASSUME NEW s \in Session, Logout(s)
      PROVE  TypeOK' /\ ListStands'
  <2>1. /\ DOMAIN live' = DOMAIN live \ {s} /\ live' \in [DOMAIN live' -> Kind]
        /\ \A x \in DOMAIN live' : live'[x] = live[x]
        /\ stable' = stable \ {s} /\ activeVT' = activeVT
    BY <1>0, <1>6 DEF Logout
  <2>2. TypeOK'
    BY <1>0, <1>4, <2>1 DEF DatagramInv, TypeOK
  <2>3. ListStands'
    BY <1>1, <2>1 DEF DatagramInv, ListStands
  <2> QED
    BY <2>2, <2>3
<1>7. ASSUME NEW v \in VT, SwitchVT(v)
      PROVE  TypeOK' /\ ListStands'
  <2>1. live' = live /\ stable' = stable /\ activeVT' = v
    BY <1>7 DEF SwitchVT
  <2> QED
    BY <1>0, <1>1, <1>4, <2>1 DEF DatagramInv, ListStands
<1> QED
  BY <1>2, <1>3, <1>5, <1>6, <1>7 DEF DatagramInv

-----------------------------------------------------------------------------
(* The session that is investigated *)

\* A session that status tells of is one more investigated; if it lives on and
\* its queries are answered, the list and what was shown agree.
LEMMA StatusFacts ==
  ASSUME DatagramInv, SessionStatus
  PROVE  LET s == look.id
             k == listed[s]
         IN  /\ s \in DOMAIN listed /\ s \notin Investigated /\ k \in Kind /\ look \in Looks
             /\ Investigated' = Investigated \cup {s}
             /\ Cardinality(Investigated') = Cardinality(Investigated) + 1
             /\ Cardinality(Investigated) \in Nat
             /\ stable' \subseteq stable
             /\ stable' \ Pending' \subseteq (stable \ Pending) \cup {s}
             /\ IsLocal(look) => IsLocal(k) /\ look.front = InFront(k)
             /\ look.remote => k.remote /\ look.rdsk = k.rdsk
             /\ s \in stable => /\ IsLocal(k) <=> IsLocal(look)
                                /\ k.remote = look.remote /\ k.rdsk = look.rdsk
             /\ s \in DOMAIN live => live[s] = k
             /\ s \in stable => s \in DOMAIN live
             /\ UNCHANGED <<live, listed, activeVT, vt, todo>>
             /\ pc = "look" /\ pc' = "scan" /\ look' = [id |-> "none"]
<1> DEFINE s == look.id
           k == listed[s]
<1>1. /\ pc = "look" /\ pc' = "scan" /\ look' = [id |-> "none"]
      /\ UNCHANGED <<live, listed, activeVT, vt, todo>>
      /\ look \in Looks /\ s \in DOMAIN listed /\ stable \subseteq DOMAIN listed
      /\ s \notin todo /\ stable' \subseteq stable
  BY DEF SessionStatus, DatagramInv, TypeOK, Looked
<1>2. /\ listed \in [DOMAIN listed -> Kind] /\ "none" \notin DOMAIN listed
      /\ IsFiniteSet(DOMAIN listed)
  BY ListFinite DEF DatagramInv
<1>3. k \in Kind
  BY <1>1, <1>2
<1>4. Pending = todo \cup {s} /\ Pending' = todo \cup {"none"}
  BY <1>1 DEF Pending
<1>5. s \notin Investigated /\ Investigated' = Investigated \cup {s}
  BY <1>1, <1>2, <1>4 DEF Investigated
<1>6. /\ Cardinality(Investigated') = Cardinality(Investigated) + 1
      /\ Cardinality(Investigated) \in Nat
  <2>1. IsFiniteSet(Investigated)
    BY <1>2, FS_Subset DEF Investigated
  <2> QED
    BY <1>5, <2>1, FS_AddElement, FS_CardinalityType
<1>7. stable' \ Pending' \subseteq (stable \ Pending) \cup {s}
  BY <1>1, <1>4
<1>8. \/ /\ look.remote = k.remote /\ look.gui = k.gui /\ look.rdsk = k.rdsk
         /\ look.front = InFront(k)
      \/ look.remote = FALSE /\ look.gui = "no" /\ look.rdsk = FALSE /\ s \notin stable
  BY <1>1 DEF DatagramInv, Looked
<1>9. s \in stable => s \in DOMAIN live
  BY DEF DatagramInv, ListStands
<1>10. s \in DOMAIN live => live[s] = k
  BY <1>4 DEF DatagramInv, ListStands
<1>11. CASE look.remote = k.remote /\ look.gui = k.gui /\ look.rdsk = k.rdsk
              /\ look.front = InFront(k)
  <2>1. IsLocal(look) <=> IsLocal(k)
    BY <1>11 DEF IsLocal
  <2> QED
    BY <1>1, <1>3, <1>5, <1>6, <1>7, <1>9, <1>10, <1>11, <2>1
<1>12. CASE look.remote = FALSE /\ look.gui = "no" /\ look.rdsk = FALSE /\ s \notin stable
  <2>1. ~IsLocal(look)
    BY <1>12 DEF IsLocal
  <2> QED
    BY <1>1, <1>3, <1>5, <1>6, <1>7, <1>9, <1>10, <1>12, <2>1
<1> QED
  BY <1>8, <1>11, <1>12

\* A local session that finds a place.
LEMMA LocalStep ==
  ASSUME DatagramInv, SessionStatus, IsLocal(look), dtg.numLocal < MaxTTYs
  PROVE  dtg' \in Datagrams /\ Content' /\ ~dtg'.down
<1> DEFINE s == look.id
           k == listed[s]
           d == AddLocal(dtg, look, k.login)
<1>1. /\ s \in DOMAIN listed /\ s \notin Investigated /\ k \in Kind /\ look \in Looks
      /\ Investigated' = Investigated \cup {s}
      /\ Cardinality(Investigated') = Cardinality(Investigated) + 1
      /\ Cardinality(Investigated) \in Nat
      /\ stable' \subseteq stable
      /\ stable' \ Pending' \subseteq (stable \ Pending) \cup {s}
      /\ IsLocal(k) /\ look.front = InFront(k) /\ listed' = listed /\ vt' = vt
      /\ s \in stable => k.remote = look.remote
      /\ look.remote = FALSE
  BY StatusFacts DEF IsLocal, Looks
<1>2. k.login \in User /\ k.login # NoUser
  BY <1>1, ListFinite, DatagramAssumption DEF DatagramInv
<1>3. dtg' = d
  BY <1>1 DEF SessionStatus, AddRemote, AddLocal, IsLocal
<1>4. /\ dtg \in Datagrams /\ MaxTTYs \in Nat /\ dtg.down = FALSE
      /\ dtg.local \in [Place -> User \cup {NoUser}]
      /\ dtg.numLocal \in 0 .. MaxTTYs /\ dtg.numRemote \in 0 .. MaxTTYs
  BY Fields, DatagramAssumption DEF DatagramInv, TypeOK, DownLast, SessionStatus
<1>5. dtg.numLocal \in Place /\ 0 .. dtg.numLocal - 1 \subseteq Place
  BY <1>4 DEF Place
<1>6. /\ dtg' \in Datagrams
      /\ dtg'.local = [dtg.local EXCEPT ![dtg.numLocal] = k.login]
      /\ dtg'.numLocal = dtg.numLocal + 1
      /\ dtg'.active = IF look.front THEN k.login ELSE dtg.active
      /\ dtg'.initial # "own" => dtg.numRemote = MaxTTYs \/ dtg.initial # "own"
      /\ dtg'.remote = dtg.remote /\ dtg'.remoteType = dtg.remoteType
      /\ dtg'.numRemote = dtg.numRemote /\ dtg'.numRDSK = dtg.numRDSK
      /\ dtg'.numVNC = dtg.numVNC /\ dtg'.down = dtg.down
  BY <1>1, <1>2, <1>3, <1>4, AddLocalFields
<1>7. /\ dtg'.local[dtg.numLocal] = k.login
      /\ \A i \in 0 .. dtg.numLocal - 1 : dtg'.local[i] = dtg.local[i]
      /\ 0 .. dtg'.numLocal - 1 = (0 .. dtg.numLocal - 1) \cup {dtg.numLocal}
  BY <1>4, <1>5, <1>6
<1>8. Given'
  <2>1. \A i \in 0 .. dtg'.numLocal - 1 :
          \E x \in Investigated' : IsLocal(listed[x]) /\ listed[x].login = dtg'.local[i]
    BY <1>1, <1>7 DEF DatagramInv, Content, Given, LocalGiven
  <2>2. \A i \in 0 .. dtg'.numRemote - 1 : RemoteGiven(i)'
    BY <1>1, <1>6 DEF DatagramInv, Content, Given, RemoteGiven
  <2>3. dtg'.numLocal + dtg'.numRemote <= Cardinality(Investigated')
    BY <1>1, <1>4, <1>6 DEF DatagramInv, Content, Given
  <2> QED
    BY <1>1, <2>1, <2>2, <2>3 DEF Given, LocalGiven
<1>9. Taken'
  <2> SUFFICES ASSUME NEW x \in stable' \ Pending'
               PROVE  /\ IsLocal(listed[x]) => LocalTaken(listed[x])'
                      /\ listed[x].remote => RemoteTaken(listed[x])'
    BY <1>1 DEF Taken
  <2>1. CASE x = s
    BY <1>1, <1>7, <2>1 DEF IsLocal, LocalTaken
  <2>2. CASE x \in stable \ Pending
    <3>1. /\ IsLocal(listed[x]) => LocalTaken(listed[x])
          /\ listed[x].remote => RemoteTaken(listed[x])
      BY <1>4, <2>2 DEF DatagramInv, Content, Taken
    <3>2. dtg.numLocal # MaxTTYs
      BY <1>4
    <3> QED
      BY <1>1, <1>6, <1>7, <3>1, <3>2 DEF LocalTaken, RemoteTaken
  <2> QED
    BY <1>1, <2>1, <2>2
<1>10. ActiveGiven'
  BY <1>6, <1>7 DEF DatagramInv, Content, ActiveGiven
<1>11. FrontGiven'
  <2>1. ASSUME dtg'.active # NoUser
        PROVE  \E x \in Investigated' :
                 IsLocal(listed[x]) /\ InFront(listed[x]) /\ listed[x].login = dtg'.active
    <3>1. CASE look.front
      BY <1>1, <1>6, <3>1
    <3>2. CASE ~look.front
      BY <1>1, <1>6, <2>1, <3>2 DEF DatagramInv, Content, FrontGiven
    <3> QED
      BY <3>1, <3>2
  <2>2. ASSUME NEW x \in stable' \ Pending', IsLocal(listed[x]), InFront(listed[x])
        PROVE  dtg'.active # NoUser
    <3>1. CASE x = s
      BY <1>1, <1>2, <1>6, <2>2, <3>1
    <3>2. CASE x \in stable \ Pending
      <4>1. dtg.active # NoUser
        BY <1>4, <2>2, <3>2 DEF DatagramInv, Content, FrontGiven
      <4> QED
        BY <1>2, <1>6, <4>1
    <3> QED
      BY <1>1, <3>1, <3>2
  <2> QED
    BY <1>1, <2>1, <2>2 DEF FrontGiven, InFront
<1>12. Subgroups' /\ NoticeGiven'
  BY <1>4, <1>6 DEF DatagramInv, Content, Subgroups, NoticeGiven
<1> QED
  BY <1>4, <1>6, <1>8, <1>9, <1>10, <1>11, <1>12 DEF Content

\* A remote session that finds a place.
LEMMA RemoteStep ==
  ASSUME DatagramInv, SessionStatus, look.remote = TRUE, dtg.numRemote < MaxTTYs
  PROVE  dtg' \in Datagrams /\ Content' /\ ~dtg'.down
<1> DEFINE s == look.id
           k == listed[s]
           alive(a) == a /\ s \in DOMAIN live /\ live[s].vnc
<1>1. /\ s \in DOMAIN listed /\ s \notin Investigated /\ k \in Kind /\ look \in Looks
      /\ Investigated' = Investigated \cup {s}
      /\ Cardinality(Investigated') = Cardinality(Investigated) + 1
      /\ Cardinality(Investigated) \in Nat
      /\ stable' \subseteq stable
      /\ stable' \ Pending' \subseteq (stable \ Pending) \cup {s}
      /\ listed' = listed /\ vt' = vt /\ k.remote = TRUE /\ k.rdsk = look.rdsk
      /\ s \in DOMAIN live => live[s] = k
      /\ s \in stable => s \in DOMAIN live
      /\ ~IsLocal(look)
  BY StatusFacts, ListFinite DEF IsLocal, DatagramInv
<1>2. k.login \in User /\ k.vnc \in BOOLEAN /\ k.rdsk \in BOOLEAN
  BY <1>1, ListFinite DEF DatagramInv
<1>3. PICK answered \in BOOLEAN :
        /\ dtg' = AddRemote(dtg, look, k.login, alive(answered))
        /\ s \in stable' => answered
  BY <1>1 DEF SessionStatus, AddLocal
<1> DEFINE vnc == alive(answered)
           type == RemoteType(look.rdsk, vnc)
<1>4. /\ dtg \in Datagrams /\ MaxTTYs \in Nat /\ dtg.down = FALSE
      /\ dtg.remote \in [Place -> User \cup {NoUser}]
      /\ dtg.remoteType \in [Place -> RemoteTypes]
      /\ dtg.numLocal \in 0 .. MaxTTYs /\ dtg.numRemote \in 0 .. MaxTTYs
      /\ dtg.numRDSK <= dtg.numRemote /\ dtg.numVNC <= dtg.numRemote
  BY Fields, DatagramAssumption DEF DatagramInv, Content, TypeOK, DownLast, SessionStatus,
                                    Subgroups
<1>5. dtg.numRemote \in Place /\ 0 .. dtg.numRemote - 1 \subseteq Place
  BY <1>4 DEF Place
<1>6. vnc \in BOOLEAN /\ (vnc => k.vnc) /\ (s \in stable' => vnc = k.vnc)
  BY <1>1, <1>2, <1>3
<1>7. /\ dtg' \in Datagrams
      /\ dtg'.remote = [dtg.remote EXCEPT ![dtg.numRemote] = k.login]
      /\ dtg'.remoteType = [dtg.remoteType EXCEPT ![dtg.numRemote] = type]
      /\ dtg'.numRemote = dtg.numRemote + 1
      /\ dtg'.numRDSK <= dtg'.numRemote /\ dtg'.numVNC <= dtg'.numRemote
      /\ dtg'.local = dtg.local /\ dtg'.numLocal = dtg.numLocal
      /\ dtg'.active = dtg.active /\ dtg'.initial = dtg.initial /\ dtg'.down = dtg.down
  <2>1. ASSUME NEW v \in BOOLEAN
        PROVE  RemoteAdded(dtg, AddRemote(dtg, look, k.login, v), k.login,
                           RemoteType(look.rdsk, v))
    BY <1>1, <1>2, <1>4, AddRemoteFields
  <2>2. RemoteAdded(dtg, dtg', k.login, type)
    BY <1>3, <1>6, <2>1, Zenon
  <2> QED
    BY <2>2 DEF RemoteAdded
<1>8. /\ type = "R" => k.rdsk
      /\ type = "V" => k.vnc
      /\ s \in stable' => type = RemoteType(k.rdsk, k.vnc)
  BY <1>1, <1>2, <1>6 DEF RemoteType
<1> HIDE DEF type, vnc, alive
<1>9. /\ dtg'.remote[dtg.numRemote] = k.login /\ dtg'.remoteType[dtg.numRemote] = type
      /\ \A i \in 0 .. dtg.numRemote - 1 :
           dtg'.remote[i] = dtg.remote[i] /\ dtg'.remoteType[i] = dtg.remoteType[i]
      /\ 0 .. dtg'.numRemote - 1 = (0 .. dtg.numRemote - 1) \cup {dtg.numRemote}
  BY <1>4, <1>5, <1>7
<1>10. Given'
  <2>1. \A i \in 0 .. dtg'.numLocal - 1 : LocalGiven(i)'
    BY <1>1, <1>7 DEF DatagramInv, Content, Given, LocalGiven
  <2>2. ASSUME NEW i \in 0 .. dtg'.numRemote - 1
        PROVE  \E x \in Investigated' :
                 /\ listed[x].remote /\ listed[x].login = dtg'.remote[i]
                 /\ dtg'.remoteType[i] = "R" => listed[x].rdsk
                 /\ dtg'.remoteType[i] = "V" => listed[x].vnc
    <3>1. CASE i = dtg.numRemote
      BY <1>1, <1>8, <1>9, <3>1
    <3>2. CASE i \in 0 .. dtg.numRemote - 1
      BY <1>1, <1>9, <3>2 DEF DatagramInv, Content, Given, RemoteGiven
    <3> QED
      BY <1>9, <3>1, <3>2
  <2>3. dtg'.numLocal + dtg'.numRemote <= Cardinality(Investigated')
    BY <1>1, <1>4, <1>7 DEF DatagramInv, Content, Given
  <2> QED
    BY <1>1, <2>1, <2>2, <2>3 DEF Given, RemoteGiven
<1>11. Taken'
  <2> SUFFICES ASSUME NEW x \in stable' \ Pending'
               PROVE  /\ IsLocal(listed[x]) => LocalTaken(listed[x])'
                      /\ listed[x].remote => RemoteTaken(listed[x])'
    BY <1>1 DEF Taken
  <2>1. CASE x = s
    BY <1>1, <1>8, <1>9, <2>1 DEF IsLocal, RemoteTaken
  <2>2. CASE x \in stable \ Pending
    <3>1. /\ IsLocal(listed[x]) => LocalTaken(listed[x])
          /\ listed[x].remote => RemoteTaken(listed[x])
      BY <1>4, <2>2 DEF DatagramInv, Content, Taken
    <3>2. dtg.numRemote # MaxTTYs
      BY <1>4
    <3> QED
      BY <1>1, <1>7, <1>9, <3>1, <3>2 DEF LocalTaken, RemoteTaken
  <2> QED
    BY <1>1, <2>1, <2>2
<1>12. ActiveGiven'
  <2>1. dtg.initial # "own" => FALSE
    BY <1>4 DEF DatagramInv, Content, ActiveGiven
  <2> QED
    BY <1>7, <2>1 DEF DatagramInv, Content, ActiveGiven
<1>13. FrontGiven'
  <2>1. ~IsLocal(k)
    BY <1>1 DEF IsLocal
  <2>2. ASSUME NEW x \in stable' \ Pending', IsLocal(listed[x]), InFront(listed[x]),
               dtg'.numLocal < MaxTTYs
        PROVE  dtg'.active # NoUser
    <3>1. x \in stable \ Pending
      BY <1>1, <2>1, <2>2
    <3> QED
      BY <1>4, <1>7, <2>2, <3>1 DEF DatagramInv, Content, FrontGiven
  <2>3. dtg'.active # NoUser =>
          \E x \in Investigated' :
            IsLocal(listed[x]) /\ InFront(listed[x]) /\ listed[x].login = dtg'.active
    BY <1>1, <1>7 DEF DatagramInv, Content, FrontGiven
  <2> QED
    BY <1>1, <2>2, <2>3 DEF FrontGiven, InFront
<1> QED
  BY <1>4, <1>7, <1>10, <1>11, <1>12, <1>13 DEF Content, Subgroups, NoticeGiven

\* A session that is of neither sort, or finds no place, leaves the datagram.
LEMMA NeitherStep ==
  ASSUME DatagramInv, SessionStatus,
         ~(IsLocal(look) /\ dtg.numLocal < MaxTTYs),
         ~(look.remote = TRUE /\ dtg.numRemote < MaxTTYs)
  PROVE  dtg' \in Datagrams /\ Content' /\ ~dtg'.down
<1> DEFINE s == look.id
           k == listed[s]
<1>1. /\ s \in DOMAIN listed /\ k \in Kind /\ look \in Looks
      /\ Investigated' = Investigated \cup {s}
      /\ Cardinality(Investigated') = Cardinality(Investigated) + 1
      /\ Cardinality(Investigated) \in Nat
      /\ stable' \subseteq stable
      /\ stable' \ Pending' \subseteq (stable \ Pending) \cup {s}
      /\ listed' = listed /\ vt' = vt
      /\ s \in stable => (IsLocal(k) <=> IsLocal(look)) /\ k.remote = look.remote
  BY StatusFacts
<1>2. k.remote \in BOOLEAN /\ look.remote \in BOOLEAN
  BY <1>1, ListFinite DEF DatagramInv, Looks
<1>3. dtg' = dtg
  BY <1>2 DEF SessionStatus, AddLocal, AddRemote
<1>4. /\ dtg \in Datagrams /\ MaxTTYs \in Nat /\ dtg.down = FALSE
      /\ dtg.numLocal \in 0 .. MaxTTYs /\ dtg.numRemote \in 0 .. MaxTTYs
  BY Fields, DatagramAssumption DEF DatagramInv, TypeOK, DownLast, SessionStatus
<1>5. Given'
  <2>1. \A i \in 0 .. dtg.numLocal - 1 : LocalGiven(i)'
    BY <1>1, <1>3 DEF DatagramInv, Content, Given, LocalGiven
  <2>2. \A i \in 0 .. dtg.numRemote - 1 : RemoteGiven(i)'
    BY <1>1, <1>3 DEF DatagramInv, Content, Given, RemoteGiven
  <2>3. dtg.numLocal + dtg.numRemote <= Cardinality(Investigated')
    BY <1>1, <1>4 DEF DatagramInv, Content, Given
  <2> QED
    BY <1>3, <2>1, <2>2, <2>3 DEF Given
<1>6. s \in stable => (IsLocal(k) => dtg.numLocal = MaxTTYs)
  BY <1>1, <1>4
<1>7. Taken'
  <2> SUFFICES ASSUME NEW x \in stable' \ Pending'
               PROVE  /\ IsLocal(listed[x]) => LocalTaken(listed[x])'
                      /\ listed[x].remote => RemoteTaken(listed[x])'
    BY <1>1 DEF Taken
  <2>1. CASE x = s
    <3>1. k.remote => dtg.numRemote = MaxTTYs
      <4>1. dtg.numRemote # MaxTTYs => dtg.numRemote < MaxTTYs
        BY <1>4
      <4> QED
        BY <1>1, <1>2, <2>1, <4>1
    <3> QED
      BY <1>1, <1>3, <1>6, <2>1, <3>1 DEF LocalTaken, RemoteTaken
  <2>2. CASE x \in stable \ Pending
    BY <1>1, <1>3, <1>4, <2>2 DEF DatagramInv, Content, Taken, LocalTaken, RemoteTaken
  <2> QED
    BY <1>1, <2>1, <2>2
<1>8. FrontGiven'
  <2>1. ASSUME NEW x \in stable' \ Pending', IsLocal(listed[x]), InFront(listed[x]),
               dtg.numLocal < MaxTTYs
        PROVE  dtg.active # NoUser
    <3>1. x # s
      BY <1>1, <1>4, <1>6, <2>1
    <3> QED
      BY <1>1, <1>4, <2>1, <3>1 DEF DatagramInv, Content, FrontGiven
  <2>2. dtg.active # NoUser =>
          \E x \in Investigated' :
            IsLocal(listed[x]) /\ InFront(listed[x]) /\ listed[x].login = dtg.active
    BY <1>1 DEF DatagramInv, Content, FrontGiven
  <2> QED
    BY <1>1, <1>3, <2>1, <2>2 DEF FrontGiven, InFront
<1>9. ActiveGiven' /\ Subgroups' /\ NoticeGiven'
  BY <1>3 DEF DatagramInv, Content, ActiveGiven, Subgroups, NoticeGiven
<1> QED
  BY <1>3, <1>4, <1>5, <1>7, <1>8, <1>9 DEF Content

LEMMA StatusStep ==
  ASSUME DatagramInv, SessionStatus
  PROVE  DatagramInv'
<1>1. dtg' \in Datagrams /\ Content' /\ ~dtg'.down
  BY LocalStep, RemoteStep, NeitherStep
<1>2. /\ pc' = "scan" /\ look' = [id |-> "none"] /\ stable' \subseteq stable
      /\ UNCHANGED <<live, listed, activeVT, vt, todo>>
  BY StatusFacts
<1>3. TypeOK'
  BY <1>1, <1>2 DEF DatagramInv, TypeOK
<1>4. Pending' \cap Session \subseteq Pending
  BY <1>2, DatagramAssumption DEF Pending
<1>5. ListStands'
  <2>1. DOMAIN live \subseteq Session
    BY ListFinite DEF DatagramInv
  <2> QED
    BY <1>2, <1>4, <2>1 DEF DatagramInv, ListStands
<1>6. Looked' /\ Fresh' /\ DownLast'
  BY <1>1, <1>2 DEF Looked, Fresh, DownLast
<1> QED
  BY <1>1, <1>3, <1>5, <1>6 DEF DatagramInv

LEMMA Invariance == Spec => []DatagramInv
<1>1. ASSUME DatagramInv, [Next]_vars
      PROVE  DatagramInv'
  <2>1. CASE UNCHANGED vars
    <3>1. UNCHANGED <<live, activeVT, dtg, pc, listed, todo, look, vt, stable>>
      BY <2>1 DEF vars
    <3>2. Pending' = Pending
      BY <3>1 DEF Pending
    <3>3. Content' /\ Investigated' = Investigated
      BY <1>1, <3>1, <3>2, QuietStep
    <3>4. TypeOK' /\ ListStands' /\ Looked' /\ Fresh' /\ DownLast'
      BY <1>1, <3>1, <3>2, <3>3 DEF DatagramInv, TypeOK, ListStands, Looked, InFront, Fresh,
                                    DownLast
    <3> QED
      BY <3>3, <3>4 DEF DatagramInv
  <2>2. CASE Next
    BY <1>1, <2>2, BeginStep, TTYStep, ShowStep, StatusStep, FinishStep, UsersStep DEF Next
  <2> QED
    BY <1>1, <2>1, <2>2
<1> QED
  BY InitInv, <1>1, PTL DEF Spec

-----------------------------------------------------------------------------
(* Theorems *)

\* TypeOK: no count passes its array and no name is written outside it, for any
\* number of sessions; the only write behind an array is a session's type, onto
\* the first byte of the active user's name.
THEOREM Types == Spec => []TypeOK
BY Invariance, PTL DEF DatagramInv

\* LivingReported: whoever stays logged in until he is asked about is reported,
\* unless the places have run out; a failed query costs at most the session it
\* was about.
THEOREM Living == Spec => []LivingReported
<1>1. DatagramInv => LivingReported
  <2> SUFFICES ASSUME DatagramInv, ~dtg.down, NEW s \in stable \ Pending
               PROVE  LET k == listed[s]
                      IN  /\ IsLocal(k) => k.login \in Locals \/ dtg.numLocal = MaxTTYs
                          /\ k.remote => \/ <<RemoteType(k.rdsk, k.vnc), k.login>> \in Remotes
                                         \/ dtg.numRemote = MaxTTYs
    BY DEF LivingReported
  <2> DEFINE type == RemoteType(listed[s].rdsk, listed[s].vnc)
  <2>1. IsLocal(listed[s]) => LocalTaken(listed[s])
    BY DEF DatagramInv, Content, Taken
  <2>2. listed[s].remote => RemoteTaken(listed[s])
    BY DEF DatagramInv, Content, Taken
  <2>3. ASSUME NEW i \in 0 .. dtg.numRemote - 1,
               dtg.remote[i] = listed[s].login, dtg.remoteType[i] = type
        PROVE  <<type, listed[s].login>> \in Remotes
    BY <2>3 DEF Remotes
  <2>4. RemoteTaken(listed[s]) =>
          <<type, listed[s].login>> \in Remotes \/ dtg.numRemote = MaxTTYs
    BY <2>3 DEF RemoteTaken
  <2> QED
    BY <2>1, <2>2, <2>4 DEF LocalTaken, Locals
<1> QED
  BY Invariance, <1>1, PTL

\* NobodyElseReported: everything in the datagram comes from the list, and from
\* one session each, and a notice carries nothing of the sessions found on the
\* way.
THEOREM NobodyElse == Spec => []NobodyElseReported
<1>1. DatagramInv => NobodyElseReported
  <2> SUFFICES ASSUME DatagramInv PROVE NobodyElseReported
    OBVIOUS
  <2>1. dtg.numLocal + dtg.numRemote <= Cardinality(DOMAIN listed \ todo)
    <3>1. /\ IsFiniteSet(DOMAIN listed \ todo)
          /\ Investigated \subseteq DOMAIN listed \ todo
      BY ListFinite, FS_Subset DEF DatagramInv, Investigated, Pending
    <3>2. /\ Cardinality(Investigated) <= Cardinality(DOMAIN listed \ todo)
          /\ Cardinality(DOMAIN listed \ todo) \in Nat
      BY <3>1, FS_Subset, FS_CardinalityType
    <3>3. IsFiniteSet(Investigated) /\ Cardinality(Investigated) \in Nat
      BY <3>1, FS_Subset, FS_CardinalityType
    <3>4. dtg.numLocal \in Int /\ dtg.numRemote \in Int
      <4>1. dtg \in Datagrams
        BY DEF DatagramInv, TypeOK
      <4>2. dtg.numLocal \in 0 .. MaxTTYs /\ dtg.numRemote \in 0 .. MaxTTYs
        BY <4>1, Fields
      <4> QED
        BY <4>2
    <3> QED
      BY <3>2, <3>3, <3>4 DEF DatagramInv, Content, Given
  <2>2. \A u \in Locals : \E s \in DOMAIN listed : IsLocal(listed[s]) /\ listed[s].login = u
    BY DEF DatagramInv, Content, Given, LocalGiven, Locals, Investigated
  <2>3. ASSUME NEW i \in 0 .. dtg.numRemote - 1,
               NEW r, r = <<dtg.remoteType[i], dtg.remote[i]>>
        PROVE  \E s \in DOMAIN listed :
                 /\ listed[s].remote /\ listed[s].login = r[2]
                 /\ r[1] = "R" => listed[s].rdsk
                 /\ r[1] = "V" => listed[s].vnc
    <3>1. RemoteGiven(i)
      BY DEF DatagramInv, Content, Given
    <3>2. r[1] = dtg.remoteType[i] /\ r[2] = dtg.remote[i]
      BY <2>3
    <3> QED
      BY <3>1, <3>2 DEF RemoteGiven, Investigated
  <2>4. dtg.down => dtg.numLocal + dtg.numRemote = 0 /\ dtg.active = NoUser
    BY DEF DatagramInv, Content, NoticeGiven
  <2> QED
    BY <2>1, <2>2, <2>3, <2>4 DEF NobodyElseReported, Remotes
<1> QED
  BY Invariance, <1>1, PTL

\* ActiveIsLocal: the active user always has a place among the local users,
\* even when the places run out, and nothing stands in place of his first letter
\* as long as one remote place is free.
THEOREM Active == Spec => []ActiveIsLocal
<1>1. DatagramInv => ActiveIsLocal
  BY DEF DatagramInv, Content, ActiveGiven, ActiveIsLocal, Locals
<1> QED
  BY Invariance, <1>1, PTL

\* FrontIsActive: the active user has a session on the terminal in front, and
\* such a session that lives until it is asked about gives an active user.
THEOREM Front == Spec => []FrontIsActive
<1>1. DatagramInv => FrontIsActive
  BY DEF DatagramInv, Content, FrontGiven, FrontIsActive, Investigated
<1> QED
  BY Invariance, <1>1, PTL

\* Subgroups: neither count of desktops exceeds the remote sessions.
THEOREM Counts == Spec => []Subgroups
<1>1. DatagramInv => Subgroups
  BY DEF DatagramInv, Content
<1> QED
  BY Invariance, <1>1, PTL

-----------------------------------------------------------------------------
(* The checksum *)

\* Every set of numbers that is not empty has a least element.
LEMMA Least ==
  ASSUME NEW T \in SUBSET Nat, T # {}
  PROVE  \E n \in T : \A m \in T : n <= m
<1> DEFINE R == {p \in Nat \X Nat : p[1] < p[2]}
<1>1. OpToRel(<, Nat) = R
  BY DEF OpToRel
<1>2. IsWellFoundedOn(R, Nat)
  BY <1>1, NatLessThanWellFounded, Zenon
<1>3. \A m, n \in Nat : m < n => <<m, n>> \in R
  OBVIOUS
<1> HIDE DEF R
<1>4. \E n \in T : \A m \in T : ~(<<m, n>> \in R)
  BY <1>2, WFMin
<1>5. \A m, n \in Nat : ~(<<m, n>> \in R) => n <= m
  BY <1>3
<1> QED
  BY <1>4, <1>5, Zenon

\* A sum is one chosen value and the sum of the others.
Chosen(s) == CHOOSE x \in s : TRUE
SumsUp(g, f, s) == g[s] = IF s = {} THEN 0 ELSE f[Chosen(s)] + g[s \ {Chosen(s)}]

\* A sum of finitely many numbers is a number.  SumFunction is a recursive
\* function on the subsets of its domain: there is such a function, by least
\* counterexample on the size of the subset it is needed for, and its values
\* are numbers, by least counterexample again.
LEMMA SumType ==
  ASSUME NEW f, IsFiniteSet(DOMAIN f), f \in [DOMAIN f -> Nat]
  PROVE  SumFunction(f) \in Nat
<1> DEFINE S == DOMAIN f
           rest(s) == s \ {Chosen(s)}
           good(g, n) == \A s \in SUBSET S : Cardinality(s) <= n => SumsUp(g, f, s)
<1>1. \A s \in SUBSET S : /\ IsFiniteSet(s) /\ Cardinality(s) \in Nat
                          /\ s # {} => /\ Chosen(s) \in s /\ rest(s) \in SUBSET S
                                       /\ Cardinality(rest(s)) = Cardinality(s) - 1
                                       /\ Cardinality(rest(s)) \in Nat
  <2> SUFFICES ASSUME NEW s \in SUBSET S
               PROVE  /\ IsFiniteSet(s) /\ Cardinality(s) \in Nat
                      /\ s # {} => /\ Chosen(s) \in s /\ rest(s) \in SUBSET S
                                   /\ Cardinality(rest(s)) = Cardinality(s) - 1
                                   /\ Cardinality(rest(s)) \in Nat
    OBVIOUS
  <2>1. IsFiniteSet(s) /\ Cardinality(s) \in Nat
    BY FS_Subset, FS_CardinalityType
  <2>2. s # {} => Chosen(s) \in s
    BY DEF Chosen
  <2>3. s # {} => IsFiniteSet(rest(s)) /\ Cardinality(rest(s)) = Cardinality(s) - 1
    BY <2>1, <2>2, FS_RemoveElement
  <2> QED
    BY <2>1, <2>2, <2>3, FS_CardinalityType
<1> HIDE DEF S
<1>2. \A n \in Nat : \E g \in [SUBSET S -> Nat] : good(g, n)
  <2> DEFINE Bad == {n \in Nat : ~\E g \in [SUBSET S -> Nat] : good(g, n)}
  <2> SUFFICES ASSUME Bad # {} PROVE FALSE
    OBVIOUS
  <2>1. PICK n \in Bad : \A m \in Bad : n <= m
    BY Least
  <2>2. n # 0
    <3> DEFINE g == [s \in SUBSET S |-> 0]
    <3>1. g \in [SUBSET S -> Nat]
      OBVIOUS
    <3>2. ASSUME NEW s \in SUBSET S, Cardinality(s) <= 0
          PROVE  s = {}
      <4>1. IsFiniteSet(s) /\ Cardinality(s) = 0
        <5>1. IsFiniteSet(s) /\ Cardinality(s) \in Nat
          BY <1>1
        <5> QED
          BY <3>2, <5>1
      <4> QED
        BY <4>1, FS_EmptySet
    <3>3. good(g, 0)
      BY <3>2 DEF SumsUp
    <3> QED
      BY <3>1, <3>3
  <2>3. n \in Nat /\ n - 1 \in Nat /\ n - 1 \notin Bad
    <3>1. n \in Nat
      OBVIOUS
    <3>2. n - 1 \in Nat /\ ~(n <= n - 1)
      BY <2>2, <3>1
    <3> HIDE DEF Bad
    <3>3. n - 1 \notin Bad
      BY <2>1, <3>2
    <3> QED
      BY <3>1, <3>2, <3>3
  <2>4. PICK g \in [SUBSET S -> Nat] : good(g, n - 1)
    BY <2>3
  <2> DEFINE h == [s \in SUBSET S |-> IF s = {} THEN 0 ELSE f[Chosen(s)] + g[rest(s)]]
  <2>5. h \in [SUBSET S -> Nat]
    BY <1>1 DEF S
  <2>6. \A s \in SUBSET S : Cardinality(s) <= n - 1 => h[s] = g[s]
    BY <2>4 DEF SumsUp
  <2>7. good(h, n)
    <3> SUFFICES ASSUME NEW s \in SUBSET S, Cardinality(s) <= n
                 PROVE  SumsUp(h, f, s)
      OBVIOUS
    <3>1. ASSUME s # {}
          PROVE  h[rest(s)] = g[rest(s)]
      <4>1. rest(s) \in SUBSET S /\ Cardinality(rest(s)) <= n - 1
        BY <1>1, <2>3, <3>1
      <4> QED
        BY <2>6, <4>1
    <3> QED
      BY <3>1 DEF SumsUp
  <2> QED
    BY <2>1, <2>5, <2>7
<1>3. PICK g \in [SUBSET S -> Nat] : good(g, Cardinality(S))
  BY <1>1, <1>2
<1>4. \A s \in SUBSET S : SumsUp(g, f, s)
  BY <1>1, <1>3, FS_Subset DEF S
<1> DEFINE equation(i) == i = [s \in SUBSET S |->
                   IF s = {} THEN 0 ELSE f[CHOOSE x \in s : TRUE] + i[s \ {CHOOSE x \in s : TRUE}]]
           iter == CHOOSE i : equation(i)
<1>5. equation(g)
  BY <1>4 DEF SumsUp, Chosen
<1>6. equation(iter)
  BY <1>5
<1>7. SumFunction(f) = iter[S]
  BY DEF SumFunction, SumFunctionOnSet, FoldFunctionOnSet, MapThenFoldSet, S
<1> HIDE DEF iter, equation
<1>8. \A s \in SUBSET S : SumsUp(iter, f, s)
  BY <1>6 DEF equation, SumsUp, Chosen
<1>9. \A s \in SUBSET S : iter[s] \in Nat
  <2> DEFINE Bad == {n \in Nat : \E s \in SUBSET S : Cardinality(s) = n /\ iter[s] \notin Nat}
  <2>1. CASE Bad = {}
    BY <1>1, <2>1
  <2>2. CASE Bad # {}
    <3> HIDE DEF Bad
    <3>1. PICK n \in Bad : \A m \in Bad : n <= m
      BY <2>2, Least DEF Bad
    <3>2. PICK s \in SUBSET S : Cardinality(s) = n /\ iter[s] \notin Nat
      BY <3>1 DEF Bad
    <3>3. s # {}
      <4>1. SumsUp(iter, f, {})
        BY <1>8
      <4>2. iter[{}] = 0
        BY <4>1 DEF SumsUp
      <4>3. iter[{}] \in Nat
        BY <4>2
      <4> QED
        BY <3>2, <4>3, Zenon
    <3>4. /\ rest(s) \in SUBSET S /\ Cardinality(rest(s)) \in Nat
          /\ Cardinality(rest(s)) = n - 1 /\ n \in Nat /\ Chosen(s) \in S
      BY <1>1, <3>2, <3>3
    <3>5. iter[rest(s)] \notin Nat
      <4>1. iter[s] = f[Chosen(s)] + iter[rest(s)] /\ f[Chosen(s)] \in Nat
        BY <1>8, <3>3, <3>4 DEF SumsUp, S
      <4> QED
        BY <3>2, <4>1
    <3>6. n - 1 \in Bad
      BY <3>4, <3>5 DEF Bad
    <3> QED
      BY <3>1, <3>4, <3>6
  <2> QED
    BY <2>1, <2>2
<1> QED
  BY <1>7, <1>9

\* The fields of a datagram add up to a number.
LEMMA BytesType ==
  ASSUME NEW d \in Datagrams
  PROVE  Bytes(d) \in Nat
<1> DEFINE names == [i \in Place |->
                       Weight[d.local[i]] + Weight[d.localType[i]]
                         + Weight[d.remote[i]] + Weight[d.remoteType[i]]]
<1>1. /\ d.local \in [Place -> User \cup {NoUser}] /\ d.remote \in [Place -> User \cup {NoUser}]
      /\ d.remoteType \in [Place -> RemoteTypes] /\ d.localType \in [Place -> LocalTypes]
      /\ d.active \in User \cup {NoUser} /\ d.activeType \in {" ", "X", "W"}
      /\ d.initial \in Initials
      /\ d.numLocal \in 0 .. MaxTTYs /\ d.numRemote \in 0 .. MaxTTYs
      /\ d.numRDSK \in 0 .. MaxTTYs /\ d.numVNC \in 0 .. MaxTTYs
  BY Fields
<1>2. /\ \A x \in User \cup {NoUser} \cup LocalTypes \cup RemoteTypes \cup Initials :
           Weight[x] \in Nat
      /\ MaxTTYs \in Nat
  BY DatagramAssumption
<1>3. SumFunction(names) \in Nat
  <2>1. names \in [Place -> Nat] /\ DOMAIN names = Place
    <3>1. \A i \in Place : /\ Weight[d.local[i]] \in Nat /\ Weight[d.localType[i]] \in Nat
                            /\ Weight[d.remote[i]] \in Nat /\ Weight[d.remoteType[i]] \in Nat
      BY <1>1, <1>2
    <3> QED
      BY <3>1
  <2>2. IsFiniteSet(Place)
    BY <1>2, FS_Interval DEF Place
  <2> HIDE DEF names
  <2> QED
    BY <2>1, <2>2, SumType
<1>4. Weight[d.active] \in Nat /\ Weight[d.activeType] \in Nat /\ Weight[d.initial] \in Nat
  BY <1>1, <1>2 DEF LocalTypes, RemoteTypes
<1>5. d.numLocal \in Nat /\ d.numRemote \in Nat /\ d.numRDSK \in Nat /\ d.numVNC \in Nat
  <2>1. 0 .. MaxTTYs \subseteq Nat
    BY <1>2
  <2> HIDE DEF names
  <2> QED
    BY <1>1, <2>1, Zenon
<1>6. Bytes(d) = SumFunction(names) + Weight[d.active] + Weight[d.activeType]
                   + Weight[d.initial] + d.numLocal + d.numRemote + d.numRDSK + d.numVNC
                   + (IF d.down THEN 1 ELSE 0)
  BY DEF Bytes
<1> HIDE DEF names
<1> QED
  BY <1>3, <1>4, <1>5, <1>6

\* The checksum is empty while the datagram is filled, and what Finish adds to
\* it is the sum of the fields as they stay.
SumInv ==
  /\ CheckSum \in 0 .. Wrap - 1
  /\ pc \in {"tty", "scan", "look"} => CheckSum = 0
  /\ pc = "ready" => CheckSum = Bytes(dtg) % Wrap

LEMMA FinishSum ==
  ASSUME SumInv, dtg' \in Datagrams, NEW powerdown \in BOOLEAN, Finish(powerdown)
  PROVE  SumInv'
<1>1. Bytes(dtg') \in Nat
  BY BytesType
<1>2. pc' = "ready" /\ CheckSum = 0 /\ CheckSum' = (CheckSum + Bytes(dtg')) % Wrap
  BY DEF Finish, SumInv
<1>3. CheckSum' = Bytes(dtg') % Wrap /\ CheckSum' \in 0 .. Wrap - 1
  BY <1>1, <1>2, DatagramAssumption
<1> QED
  BY <1>2, <1>3 DEF SumInv

\* FilledIsValid: a filled datagram passes the server's test and the checksum
\* fits its field, for any weights of the names, any number of places and any
\* width of the field.
THEOREM Filled == Spec => []FilledIsValid
<1>1. Init => SumInv
  BY DatagramAssumption DEF Init, SumInv
<1>2. ASSUME SumInv, DatagramInv', [Next]_vars
      PROVE  SumInv'
  <2>1. CASE Begin
    BY <2>1, DatagramAssumption DEF Begin, SumInv
  <2>2. CASE ReadActiveTTY
    BY <1>2, <2>2 DEF ReadActiveTTY, SumInv
  <2>3. ASSUME NEW s \in Session, ShowSession(s)
        PROVE  SumInv'
    BY <1>2, <2>3 DEF ShowSession, SumInv
  <2>4. CASE SessionStatus
    BY <1>2, <2>4 DEF SessionStatus, SumInv
  <2>5. ASSUME NEW powerdown \in BOOLEAN, Finish(powerdown)
        PROVE  SumInv'
    <3>1. dtg' \in Datagrams
      BY <1>2 DEF DatagramInv, TypeOK
    <3> QED
      BY <1>2, <2>5, <3>1, FinishSum
  <2>6. ASSUME UNCHANGED <<dtg, CheckSum, pc>>
        PROVE  SumInv'
    BY <1>2, <2>6 DEF SumInv
  <2>7. ASSUME NEW s \in Session, NEW k \in Kind, Login(s, k)
        PROVE  SumInv'
    BY <2>6, <2>7 DEF Login
  <2>8. ASSUME NEW s \in Session, Logout(s)
        PROVE  SumInv'
    BY <2>6, <2>8 DEF Logout
  <2>9. ASSUME NEW v \in VT, SwitchVT(v)
        PROVE  SumInv'
    BY <2>6, <2>9 DEF SwitchVT
  <2>10. CASE UNCHANGED vars
    BY <2>6, <2>10 DEF vars
  <2> QED
    BY <1>2, <2>1, <2>2, <2>3, <2>4, <2>5, <2>7, <2>8, <2>9, <2>10 DEF Next
<1>3. SumInv => FilledIsValid
  BY DEF SumInv, FilledIsValid, IsValid
<1> QED
  BY Invariance, <1>1, <1>2, <1>3, PTL DEF Spec
=============================================================================
