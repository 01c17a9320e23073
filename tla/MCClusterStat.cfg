\* One computer; its datagrams may come twice, and the server restarts once.
SPECIFICATION CFairSpec
CONSTANTS
  u1 = u1
  User <- MCUser
  Name = {n1}
  Configured = {}
  MaxNodes = 1
  Worker = {}
  Activity <- MCIdle
  VNCSkew = 1
  FreshSkew = 1
  SeatSkew = 1
  DownSkew = 2
  DebugSkew = 2
  Epoch = 3
  MaxTime = 6
  ClockAhead = 0
  MaxCopies = 2
  MaxFlight = 2
  MaxRestarts = 1
INVARIANTS
  ClusterInv
  ListedWasRunning
PROPERTIES
  ComesBack
  ServiceEnds
  NoticeIsLast
