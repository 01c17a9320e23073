# Verification of cluster-stat

cluster-stat shows who uses the computers of a small cluster and lets users
wake a computer or start a remote desktop on it.  This directory holds TLA+
models of the program, TLC runs that check them on small instances, and proofs
of their main properties.  References are to files below `src/src/bin/`.

## The system

A **client** runs on every node.  Every few seconds it looks at the login
sessions and sends one datagram to the server over UDP; when the node powers
off, a second run of the client sends a shutdown notice.  The **server** is one
process with several threads around one table of nodes.  On a node the client is
run by systemd (`etc/node-stat-client.service`): once to report every 15 s, and
once more, by `ExecStopPost`, for the notice.

| part | state | operations |
|---|---|---|
| node table (`FCGIStatServer.cpp`) | `Nodes`: last datagram, two command marks with their times, power status per node | register a datagram, take in a power report |
| request handlers (`_RemoteAccess.cpp`, `_List*.cpp`, `_Debug.cpp`) | none of their own | list, wake a node, start a desktop, seat lists, debug page |
| UDP server (`StatServer.cpp`) | socket, counters | open the socket, receive, validate, register |
| batch system watcher (`BatchSystemWatcher.cpp`) | its flag | poll the power status every 20 s |
| batch system connection (`batchsys/PBSProServer.cpp`, `PBSProAttr.cpp`) | loaded library and its symbols, `ServerID` | choose and load the library, connect, ask, walk through the answer, release, disconnect |
| server watcher (`ServerWatcher.cpp`) | time of the last flush | write the error stack to a log every 30 s |
| main thread (`FCGIStatServer.cpp`, `Run`) | - | start, wait for a signal, stop and join |
| client (`StatClient.cpp`, `StatDatagram.cpp`) | `Terminated`, the datagram | measure, send, sleep, notice |

The threads meet in the table, under `NodesMutex`, and in the error stack.  Two
accesses to the table do not take the mutex: the check before a command, which
looks a node up with `operator[]`, and the flag that is reset when a script has
failed.  The threads, the FastCGI server, the error stack and the XML parser
come from libraries outside the repository.

What is hard: a status shown to a user is put together from three sources that
age independently (datagrams, batch system, marks), with four different limits;
listing, which looks like a read, writes to the table; datagrams are late,
doubled or out of order; a command is two critical sections with a script of any
length between them; the client asks about sessions that come and go while it
asks, may get no answer to any of its questions, and gives up at its first
failure to send; a poll of the batch system can fail at each of its calls, the
last one, which gives the connection back, included; a restarted server knows
nothing; and the process has to stop while threads sit in blocking calls.
`PROJECT.json` lists the hazards with the properties that watch them.

What makes each part correct: a table that stays within its limit and a mutex
that is always given back (table, threads); a status that follows from what was
last heard (listings); threads that together do no more than atomic handlers
would (threads); a datagram that reports those who are there and no one else
(client); a table that takes over whole answers, and a connection that is always
given back unless the library refuses (batch system); a listing that is true of
the node within known limits, and becomes true again after any failure (the
whole); an end that every signal reaches, with no thread left (main thread).

## The modules

* `CompNode` - one entry (`CCompNode`) as a record, and as operators what the
  handlers do to it (`Hear`, `Mark`, `Unmark`, `Clear`, `Listed`) and what they
  read out of it (`ListStatus`, `SeatListStatus`, `DebugStatus`).  The nested
  ifs of `_RemoteAccessList` are written as the conditions under which the code
  settles on a status.
* `NodeTable` - the abstract specification: the table under handlers that are
  one step each.  `RegisterNode` is `Refresh`, `Register` or `Reject`; a command
  is a mark (`WakeOnLAN`, `StartVNC`) and, later, the script's return
  (`CommandFails`, `CommandSucceeds`); `RemoteAccessList` applies `Listed` to
  every entry, with a time read at any earlier moment.  The seat lists and the
  debug page change nothing.
* `NodeHistory` - `NodeTable` with what each node and the batch system last said
  and which wake is in force.  These histories are read by no action; the
  listings are compared with them.
* `FCGIStatServer` - the threads: each has a label (`pc`), a mutex is taken and
  given back, and the accesses outside it are steps of their own.  A request
  names any of `Asked`, which need not be nodes of the cluster: the code takes
  any alphanumeric string.  A lookup of an unregistered name or during an
  insertion into `std::map` may end the process (`Crash`).  A script that
  returns is followed by the list with the same request, as in the code.
  `Table` maps it to `NodeTable`: the table and the clock are the same, and the
  pending command of a worker is read off its label.
* `ServerLifecycle` - `Run`, `Finalize` and the loops of the threads as far as they
  decide about start and stop, and who still has an error on the error stack
  that neither the log nor the console shows.
* `StatDatagram` - `SetDatagram` session by session, with users who log in, log
  out and switch terminals between its steps, and the checksum over the result.
  Whether a notice was asked for is chosen in `Finish`, the only place that looks
  at it.
  Each subprocess may fail to start: the list is then empty (`TakeList`), and a
  session is taken for one without a type (`NoAnswer`) or without a desktop
  (`SessionStatus`).
* `StatClient` - the computers, the service on each, and the loop of the client
  with its signal.  However the first process ends (a signal, a failure to send,
  a signal before the handler is set), the second one starts; how that one ends
  is the end of the service.  The network is the set of datagrams on their way.
* `ClusterStat` - the whole: `StatClient` for every node, the network that loses,
  doubles and reorders, the batch system, and `NodeTable` as the server, whose
  `Restart` leaves the configured nodes and nothing else.  It uses `NodeTable`
  for the server because `FCGIStatServer` is shown to implement it.
* `PBSProAttr` - the answer of the batch system and the readers of
  `PBSProAttr.cpp`: the first attribute of a name and resource, a number or text,
  or the value from before; `UpdateEntry` is the body of the loop in
  `UpdateNodePowerStatus`.
* `PBSProServer` - `CPBSProServer` and the batch thread, call by call, with the
  main thread from loading the library to the destruction of the static object.
  When `pbs_disconnect` fails the connection stays `open` and the object forgets
  it all the same; `lost` keeps those.
* `PowerTable` - the abstract specification of a poll: a whole answer is taken
  over at once; what a host tells is defined without walking (`Reading`), and
  the last of several hosts of one name counts.  `PBSProServer` implements it with
  the table that others can see, which is the one before the walk while the
  walk holds the mutex.  In `NodeTable` the same step is `UpdateNodePowerStatus`,
  with the power status as the only part of the answer that a listing uses.
* `MC*` - small instances.  `*Proofs` - theorems.

Abstractions.  A node name, a login or a session identifier is a value; a
session in the table is its type and its login; the order of entries, display
numbers, URLs, CPU and GPU counts are left out.  Times are natural numbers on
the server's clock; a client's clock may be ahead by `ClockAhead` and a datagram
may be as old as the model.  What the handlers find outside the table (a live
socket, a quota flag, a Kerberos ticket) is chosen freely for each reading, of
which only the socket decides about what a listing writes; that `HasKerberos`
makes a string of an environment variable that may not be set
(`_RemoteAccess.cpp:403`), under the mutex, is listed as a hazard and not
modelled. `List` handles all entries in one step: the only access that can fall
between two of them is `UnmarkNode`, which touches one entry.  A batch system
that cannot be reached brings no report, which is no step.  For a name that is
not registered `CanPowerUp` and `CanStartRDSK` dereference a null pointer: the
default build (Debug, `CMakeLists.txt:128`) stops at the assertion of
`boost::shared_ptr`; a Release build may drop the read, whose value is not used,
and then the same request dereferences the pointer under the mutex.  Both are
`Crash`.  In `StatDatagram` a user name is a value with its first byte beside it
(`initial`), because that byte lies behind `LocalLoginType` and the code can
write it: with every remote place taken the type of a local session goes there,
over the first letter of the active user's name; and where there is no active
user the server reads that byte as a name of one letter.  The client's test for
the active terminal is equality, or truth if the terminal cannot be read.
`ServerLifecycle` has no signal before the FastCGI server has started, because
what the library then does is unknown; the error stack is a library too, taken
to keep an error until it is appended to the log or printed, and whether a flush
is due is left open. In `StatDatagram` a byte sum is kept modulo `Wrap`, with a
weight for each name and type; header, node names and time stamp, which add the
same to both sums, are left out. The client and the server each have a loop that
adds the bytes (`StatDatagram.cpp:302-346` and `358-407`).  They were compared
line by line, go through the same fields, and are one operator, `Bytes`:
`FilledIsValid` is about the sum a reused object keeps and about its width, not
about a field that one of the loops forgets.  In `StatClient` a datagram is
filled in one step and reports an activity instead of sessions; a datagram that
finds the network full is one that is lost; systemd's SIGKILL after a stop that
takes too long is left out, because the sleep ends by the signal.  In
`PBSProServer` the symbols that are found but never called are one, `"other"`; a
static object or library that is gone is a set of symbols that may be empty,
since `CDynamicPackage` is not in the repository.

## The runs

| run | shows | instance | distinct states, time |
|---|---|---|---|
| `table_limit` | the table keeps its limit while nodes compete for it; the mark of a wake is lost only to another worker's failing wake | 2 nodes, a table of 1, 2 workers, 1 user, 3 clock values | 442,974; 63 s |
| `table_overfull` (violation) | the limit is passed when more nodes are configured than `maxnodes` | 3 nodes, 2 configured | |
| `node_history` | a usable node was heard fresh and up; an occupied one is not offered; a wake is shown through its window, unless another worker's wake of the node failed meanwhile; pages agree; a listing changes what another one shows at that moment in two cases only | 1 node, 2 workers, 2 users, 5 clock values | 352,967; 145 s |
| `late_datagram` (violation) | a datagram from before the notice undoes it | 1 node | |
| `server_open` | lock discipline and implementation of `NodeTable` while the table grows and requests may crash the server | 2 nodes, a table of 1, 1 worker, 3 clock values | 961,386; 34 s |
| `server_closed` | implementation of `NodeTable` by two workers, asked for a configured node and for a name that is none: only that name ends the process; every request, datagram and report is dealt with | 1 node and 1 other name, 2 workers, fixed clock | 222,690; 188 s |
| `datagram` | a datagram reports who was there, and nobody else; a failed query costs one session; the active user is a local one; the server accepts what is sent | 4 sessions of 4 kinds, 2 places each | 1,617,194; 182 s |
| `datagram_types` (violation) | types of local sessions go to the wrong place | 3 sessions, 2 places | |
| `lifecycle` | threads are joined; every error is written; a listening server is shut for good by the signal, and ends | 2 addresses | 10,057; 2 s |
| `stop_race` (violation) | a signal during the opening of the socket does not | 2 addresses | |
| `cluster` | a usable node ran a client within the limit; one that keeps running is listed again; a stopped service fills nothing but its notice, and ends | 1 computer, 2 copies of a datagram, 2 datagrams under way, 1 restart, 4 clock values | 191,968; 61 s |
| `batch` | a failed poll leaves nothing behind that the library would take back, and the next follows; nothing unbound is called; the table takes over whole answers; the end | 2 nodes, answers of 1 or 2 hosts, 2 libraries | 359,112; 78 s |

The age limits 90, 180, 240 and 300 s become 1, 2, 3 and 4 in their order
(`VNCSkew`, `FreshSkew = SeatSkew`, `DownSkew`, `DebugSkew`); the clock starts
at 4, later than the limits, as a clock that counts from 1970 does.  `MaxTime` 8 in
`node_history` lets every limit but the debug page's pass after the first event;
that one an entry without a datagram has passed from the start.  One node is
enough there because the handlers treat entries independently of each other; two
are enough for the limit (one that takes the last place and one that comes too
late), in `table_limit` as in `server_open`.  Two workers show every overlap of
two commands on a node; `table_limit` has them with the limits 1, 1, 1, 2, 2 and
a clock from 3 to 5, so that a mark can be set, taken back by the other worker
and run out.  The clock stands in `server_closed`, since time decides nothing
about the mutex; it moves in `server_open`, where the full table's early return
is reached too.  Two places of each sort in `datagram` make full arrays the
common case, and four sessions allow for three of a sort, and for a local one
found after all remote places are taken, when another local one has already been
named as the active one; the sort `"S"` comes from desktops whose query failed;
`Wrap` 16 is small enough for the sum to wrap.  In `cluster` one computer is
enough because entries are independent and `ComesBack` is stated for a table
that has room for all; two copies let one arrive before and one after whatever
happens between, `MaxFlight` 2 lets a report and a notice overtake each other,
and one restart separates what the old and the new server heard.  Its limits are
1, 1, 1, 2, 2.  The clock stands at `MaxTime`, after every limit has passed;
`ComesBack` then speaks of the time after that, when a fresh datagram stays
fresh: it shows that the datagrams get there and that nothing old stands in the
way, and not that they come often enough, which is the interval of 15 s against
the limit of 180 s.  The answers in `batch` have all pairs of two hosts, of one
name or two, and of four sorts of attribute lists (none, one of each, no
numbers, one twice).  `MaxTime`, `ClockAhead`, `MaxCopies`, `MaxFlight`,
`MaxRestarts`, `MaxConnections` (a limit of the library) and the finite sets are
the only bounds; logind is taken not to give an identifier out again within a
measurement; symmetry is used for nodes that are not configured, for workers and
for session identifiers, in runs without liveness.

Every property has a mutant in `PROJECT.json`, an operator that changes a
definition as a plausible bug would and stands beside it in the module; TLC
finds the property violated under it.

### Fairness

`FCGIStatServer!Fairness`: weak fairness for the steps of a thread (the
scheduler runs it, scripts and subprocesses return) and strong fairness for
taking the mutex, which a thread that keeps asking for it gets.  A pthread mutex
promises no order, but each holder gives it back and goes on to wait for I/O, so
a waiting thread is not passed over for ever.  Nothing is assumed of clients,
users and the batch system.  `ServerLifecycle!Fairness` is weak fairness for each
thread; neither the signal nor a datagram is fair.

`ClusterStat!Fairness`: a client that runs goes on (weak: its sleep ends, the
subprocesses return); of the datagrams of a node that keeps sending some arrive
(strong: UDP may drop any, but not all for ever); the batch system's true report
of all nodes is taken in again and again (weak).  A client's fair step may be a
failure, so it is not assumed to live on.  `PBSProServer!Fairness`: weak for the
batch thread (the library's calls return) and for the main thread, except that
the signal need never come.

## The disagreements found

1. `FCGIStatServer.cpp:212` compares the size of the table with `maxnodes` for
   equality, and configured nodes are not limited: with more of them the limit
   never applies (`table_overfull`).
2. `FCGIStatServer.cpp:223` takes a datagram whatever its time stamp: one that
   comes after the shutdown notice takes the notice back (`late_datagram`).
3. `StatDatagram.cpp:243` uses the count of remote sessions as the index of a
   local one (`datagram_types`).  With every remote place taken it is an index
   behind the array, and the type lands on the first letter of the active user's
   name, which `ActiveIsLocal` therefore excepts.
4. `StatServer.cpp:73` looks at the socket before the flag is set: a server
   that is stopped while it opens its socket waits for one more datagram
   (`stop_race`).

Noted while modelling, without a run, since no document says otherwise:

* A client that fails once to resolve or reach the server ends for good
  (`StatClient.cpp:96`), and `ExecStopPost` then sends a shutdown notice for a node
  that runs on.  The service file has no `Restart=`.  `ComesBack` therefore
  speaks of a service that stays active.
* Two workers that wake the same node: the failure of one takes back the other's
  mark.  `MarkKept` says that nothing else takes it back, and `WakeShown` excepts
  a wake to which that happened.
* A request for an alphanumeric name that is no node of the cluster ends the
  process (`_RemoteAccess.cpp:449-479`).  `ServerKeepsRunning` says that with every
  node configured nothing else does.
* `Init` takes the first of the listed libraries that is a file and does not try
  the next when it cannot be loaded (`PBSProServer.cpp:87-94`).
* When the FastCGI server does not start (`FCGIStatServer.cpp:154`) the threads are
  neither stopped nor joined before the static objects go.
* `DisconnectFromServer` sets `ServerID` to 0 and goes on when `pbs_disconnect` has
  failed (`PBSProServer.cpp:207-212`), so a connection may stay open that nobody
  can close.  `NothingLeft` and `OneConnection` except those.
* `CCompNode` sets `NGPUs` but not `NCPUs` (`FCGIStatServer.cpp:65`).

## The proofs

All constants are arbitrary within the named assumptions (`SkewAssumption`,
`TableAssumption`, `ServerAssumption`, `LifecycleAssumption`,
`DatagramAssumption`, `ClusterAssumption`, `AnswerAssumption`,
`ConnectionAssumption`): any finite set of node names or sessions, any set of
workers and users, any clock, any set of answers, any network capacity.

* `CompNodeProofs`: lemmas on an entry - what each operation keeps of its type,
  what a status says of the entry, and the case analysis of two readings
  (`UsableIsUp`, `ListingChanges`), which the table's and the server's theorems share.
* `NodeTableProofs`: `Types`, then `Bounded` by counting the domain at each
  registration, then `Limited`, for configured nodes that fit.  `Agreement` and
  `Disturbance` need types and the order of the limits only.
* `NodeHistoryProofs`: `HistoryInv` says that an entry holds the last datagram or
  nothing, and the last power report unless it was registered after it.
  That is inductive because every clearing puts an entry to blank and never to
  an older value; a blank entry is silent since the clock starts late
  (`Epoch > FreshSkew`), hence `Usability` and `Occupancy`.  `WakeInv` adds that
  a wake in force is still marked, unless it is no longer `kept`: another worker's
  wake of the same node has failed since.  `WakeMarked` and `Waking` are for any
  number of workers.  A wake of a node that is not in maintenance marks it
  (`WakeMarks`); a step takes the mark of a wake in force away only by such a
  failure (`MarkStep`, which is also `Marking`), and after it only a new wake is
  `kept` again (`KeptStep`).
* `FCGIStatServerProofs`: `Locking` and `Types` are inductive by themselves.
  `Refinement` maps each step to one of `NodeTable` or to no change, from `Types`
  and `InsertFits`: while a node is being inserted its place stays free, since
  only the UDP server adds names.  The steps outside the mutex are covered
  because `Unmark` touches one entry, and entries are never removed.
  `KeepsRunning` adds (`LifeInv`) that with every node configured every node is
  in the table from the start (`Loaded`), so a lookup can insert or miss only
  for a name that is no node; no step but that lookup ends the process.
  `TableKept` and `TableLimited` carry over to the threads what is proved of the
  node table: the same lemmas on entries, and `InsertFits` for the limit, since the
  test and the insertion are two steps here.
* `ServerLifecycleProofs`: `Joined` by `JoinedSoFar`, the list of threads that
  have ended at each label of the main thread; `Reported` because the thread that
  may still fail after the watcher's last flush is joined before `Finalize`;
  `Shut`, the safety part of `StopsWhenListening`, because a UDP server that
  listens has a socket (`HasSocket`) and only opening one gives it another.
* `StatDatagramProofs`: `DatagramInv`.  The list stays true of the sessions that
  are pending or have not ended (`ListStands`), and what is known of the session
  being investigated is what the list says, or nothing if it has ended
  (`Looked`).  Then every place taken is taken by an investigated session, and
  there are no more places taken than sessions investigated (`Given`), and every
  investigated session that has lived and been answered has a place unless there is
  none (`Taken`).  `stable`, which both speak of, loses a session whose query
  fails, so one failure weakens what is said of one session only.  The active
  user is a local one of the list, on the terminal that was read (`FrontGiven`, for
  `Front`); the first byte of his name is foreign only with every remote place
  taken (`ActiveGiven`).
  `Filled` needs that the sum of the weights is a natural number.  The provers
  cannot use the induction theorems, so this is shown by a least counterexample: a subset
  of least size whose sum were none has an element, and without it is a smaller
  one (`SumType`).
* `ClusterStatProofs`: `ClusterInv` says that no datagram in a client, under way
  or in the table is younger than the last one its node filled.  Everything that
  moves datagrams copies them, and everything that clears an entry sets its time
  to 0, so it is inductive through losses, copies and restarts of both sides;
  `Running` follows because a usable entry is at most `FreshSkew` old.
  `ServerRuns` shows that the whole drives the server only with inputs that
  `NodeTable` has: what a client sends was filled (`Filled`), so it is a
  datagram as `Refresh` and `Register` expect it; `TableThroughRestarts` is then
  proved as for the table alone.  `LastWord` rests on `ServiceOrder`, which says
  what a client's loop can still do in each state of its service.
* `PBSProServerProofs`: `IInv` adds to the types what is bound while the thread
  may call (`Binding`), where the connection and the answer may be held
  (`Connection`), and that during the walk the table is the one before with the
  hosts passed so far taken over (`Walked`).  A step of the walk extends that
  prefix by one host, and the last host of a name in the longer prefix is that
  host or the one before. At the end of the list the prefix is the answer, which
  is `TakeOver`. `Reading` agrees with `UpdateEntry` because the first matching
  attribute is unique (`FoundOnce`).

Every invariant and every action property of a passing run is a theorem, and so
are both refinements.  Only model-checked is liveness (`EveryoneServed`,
`StopsWhenListening`, `ComesBack`, `ServiceEnds`, `KeepsPolling`, `Stops`), which
under fairness is outside what the proof system does.

## What is not modelled, and the plan

Modelled first was what users see: the table and its readers, then the threads
around it, the end of the process and the measurement; then the clients and the
network around the server, and the batch system.  What could follow
is the answer of a request, which is finished once, except that
`FCGIStatServer.cpp:290` finishes it before `_Error` writes to it and finishes it again;
what a second finish does is known to the FastCGI library only, so there is nothing in
the repository to check it against.

Left out for good: page texts and templates (`_Error.cpp` and what the pages print),
options and XML parsing, `PrintInfo`, the printing functions and the attribute
readers of other types in `batchsys/` (called nowhere), the constants of
`pbs_ifl.h` and `pbs_error.h` (headers of the batch system), and the libraries.
