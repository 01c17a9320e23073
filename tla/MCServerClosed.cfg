\* Two workers on one node, which is configured; requests also name what is no
\* node.  The clock stands still.
SPECIFICATION FairSpec
CONSTANTS
  u1 = u1
  n2 = n2
  n3 = n3
  User <- MCUser
  Name = {n1}
  Configured = {n1}
  MaxNodes = 1
  Worker = {w1, w2}
  Report <- MCReport
  Asked = {n1, nx}
  Activity <- MCIdle
  VNCSkew = 1
  FreshSkew = 2
  SeatSkew = 2
  DownSkew = 3
  DebugSkew = 4
  Epoch = 4
  MaxTime = 4
  ClockAhead = 0
INVARIANTS
  ServerKeepsRunning
PROPERTIES
  ImplementsTable
  EveryoneServed
